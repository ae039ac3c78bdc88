------------------------- MODULE BusinessRulesProofs -------------------------
(***************************************************************************)
(* What a cleanup of a Business Rules setup removes and what it leaves     *)
(* alone, for any number of scenarios, apiKeys and child conditions, with  *)
(* any failures and lost answers, and whatever others do to the same       *)
(* apiKey: the three properties of BusinessRules from one invariant.       *)
(***************************************************************************)
EXTENDS BusinessRules, TLAPS

\* What is still to be called, whatever the order.
Within(calls) == {calls[i] : i \in DOMAIN calls}
Names(calls) == {calls[i][1] : i \in DOMAIN calls}

\* Once one of these has been called, none of those is.
NoneAfter(calls, those, these) ==
    \A i, j \in DOMAIN calls : i < j /\ calls[i][1] \in these => calls[j][1] \notin those

\* Whatever is found is deleted afterwards.
FoundThenDeleted(calls) ==
    \A i \in DOMAIN calls : calls[i][1] \in {"diff", "sweep"} =>
        \E j \in DOMAIN calls : i < j /\ calls[j][1] = "deleteConfigs"

ProvisionNames == {"snapshot", "assign", "lookUp", "condition", "children", "refresh"}
CleanupNames == {"deleteKid", "deleteCondition", "diff", "sweep", "deleteConfigs", "refresh"}

\* The calls a scenario has still to make, by phase.
InOrder(s) ==
    /\ phase[s] \in {"new", "up", "gone"} => todo[s] = <<>>
    /\ phase[s] = "provision" => Names(todo[s]) \subseteq ProvisionNames
    /\ phase[s] = "cleanup" => Names(todo[s]) \subseteq CleanupNames
    /\ NoneAfter(todo[s], {"snapshot"}, {"assign", "lookUp"})
    /\ NoneAfter(todo[s], {"deleteKid"}, {"deleteCondition"})
    /\ NoneAfter(todo[s], {"children"}, {"children"})
    /\ FoundThenDeleted(todo[s])
    /\ phase[s] # "new" => plan[s] # None
    /\ Names(todo[s]) \cap {"snapshot", "assign", "lookUp"} # {} => plan[s].key # NoKey
    /\ "snapshot" \in Names(todo[s]) => plan[s].mode = "contract"
    /\ "sweep" \in Names(todo[s]) => plan[s].mode = "full" \/ s \in forgot
    /\ "diff" \in Names(todo[s]) => plan[s].mode = "contract"
    /\ "children" \in Names(todo[s]) => plan[s].mode = "full" /\ Kids > 0
    /\ plan[s] # None /\ plan[s].mode = "full" => plan[s].key = s

\* What a scenario remembers of itself.
Remembers(s) ==
    /\ phase[s] = "new" => setup[s] = NoSetup
    /\ made[s] > 0 => /\ Awaits("children", s) /\ made[s] < Kids
                      /\ "dynamic" \in setup[s].conds
    /\ setup[s].kids > 0 => "children" \notin Names(todo[s]) /\ plan[s].mode = "full"
    /\ \A r \in setup[s].snapped :
         /\ plan[s].mode = "contract" /\ plan[s].key # NoKey
         /\ \A c \in setup[s].snap[r] : c.rule = r /\ c.key = plan[s].key /\ c.by # s
    /\ \A r \in Rules : setup[s].stored[r] # None =>
         setup[s].stored[r].rule = r /\ setup[s].stored[r].key = plan[s].key
    /\ doomed[s] # {} => phase[s] \in {"cleanup", "gone"}

\* What exists of a scenario, and where it is remembered.
Traced(s) ==
    /\ phase[s] = "new" => Lives(s) = [conds |-> {}, kids |-> {}, configs |-> {}]
    /\ "snapshot" \in Names(todo[s]) => Lives(s).configs = {}
    /\ \A c \in Lives(s).configs : c = Own(s, c.rule) /\ plan[s].key # NoKey
    /\ s \notin failedUp =>
         /\ phase[s] \in {"provision", "up"} =>
              /\ Lives(s).conds \subseteq setup[s].conds
              /\ \A n \in Lives(s).kids : n <= made[s] \/ n <= setup[s].kids
         /\ phase[s] \in {"cleanup", "gone"} /\ s \notin failedDown =>
              /\ \A r \in Lives(s).conds : <<"deleteCondition", r>> \in Within(todo[s])
              /\ \A n \in Lives(s).kids : <<"deleteKid", n>> \in Within(todo[s])
    /\ phase[s] \in {"cleanup", "gone"} /\ s \notin failedDown =>
         /\ doomed[s] # {} => "deleteConfigs" \in Names(todo[s])
         /\ \A c \in Lives(s).configs :
              \/ Unsnapped(s, c.rule)
              \/ c \in doomed[s]
              \/ <<"diff", c.rule>> \in Within(todo[s])
              \/ <<"sweep", c.rule>> \in Within(todo[s])

Inv(s) == InOrder(s) /\ Remembers(s) /\ Traced(s)
BrInv == TypeOK /\ \A s \in Scenarios : Inv(s)
\* Sequences of calls.

LEMMA TailCalls ==
    ASSUME NEW T \in Seq(CallSet), T # <<>>
    PROVE  /\ Tail(T) \in Seq(CallSet) /\ Head(T) \in CallSet /\ Head(T) = T[1] /\ 1 \in DOMAIN T
           /\ \A i \in DOMAIN Tail(T) : i + 1 \in DOMAIN T /\ Tail(T)[i] = T[i + 1] /\ i \in Nat /\ i > 0
           /\ \A i \in DOMAIN T : i \in Nat /\ (i = 1 \/ (i > 1 /\ i - 1 \in DOMAIN Tail(T)))
  OBVIOUS

LEMMA TailWithin ==
    ASSUME NEW T \in Seq(CallSet), T # <<>>
    PROVE  /\ Within(T) = {Head(T)} \cup Within(Tail(T))
           /\ Names(T) = {Head(T)[1]} \cup Names(Tail(T))
  <1>1. \A i \in DOMAIN T : T[i] = Head(T) \/ (i - 1 \in DOMAIN Tail(T) /\ Tail(T)[i - 1] = T[i])
    BY TailCalls
  <1>2. Within(T) = {Head(T)} \cup Within(Tail(T))
    BY <1>1, TailCalls DEF Within
  <1>3. Names(T) = {Head(T)[1]} \cup Names(Tail(T))
    BY <1>1, TailCalls DEF Names
  <1> QED BY <1>2, <1>3

LEMMA TailOrder ==
    ASSUME NEW T \in Seq(CallSet), T # <<>>, NEW those, NEW these, NoneAfter(T, those, these)
    PROVE  /\ NoneAfter(Tail(T), those, these)
           /\ Head(T)[1] \in these => Names(Tail(T)) \cap those = {}
  <1>1. ASSUME NEW i \in DOMAIN Tail(T), NEW j \in DOMAIN Tail(T), i < j, Tail(T)[i][1] \in these
        PROVE  Tail(T)[j][1] \notin those
    <2>1. i + 1 \in DOMAIN T /\ j + 1 \in DOMAIN T /\ i + 1 < j + 1
          /\ Tail(T)[i] = T[i + 1] /\ Tail(T)[j] = T[j + 1]
      BY <1>1, TailCalls
    <2> QED BY <1>1, <2>1 DEF NoneAfter
  <1>2. ASSUME NEW i \in DOMAIN Tail(T), Head(T)[1] \in these PROVE Tail(T)[i][1] \notin those
    <2>1. i + 1 \in DOMAIN T /\ 1 \in DOMAIN T /\ 1 < i + 1 /\ Tail(T)[i] = T[i + 1] /\ Head(T) = T[1]
      BY <1>2, TailCalls
    <2> QED BY <1>2, <2>1 DEF NoneAfter
  <1> QED BY <1>1, <1>2 DEF NoneAfter, Names

LEMMA TailFound ==
    ASSUME NEW T \in Seq(CallSet), T # <<>>, FoundThenDeleted(T)
    PROVE  /\ FoundThenDeleted(Tail(T))
           /\ Head(T)[1] \in {"diff", "sweep"} => "deleteConfigs" \in Names(Tail(T))
  <1>1. ASSUME NEW i \in DOMAIN Tail(T), Tail(T)[i][1] \in {"diff", "sweep"}
        PROVE  \E j \in DOMAIN Tail(T) : i < j /\ Tail(T)[j][1] = "deleteConfigs"
    <2>1. i + 1 \in DOMAIN T /\ Tail(T)[i] = T[i + 1] /\ i \in Nat /\ i > 0
      BY <1>1, TailCalls
    <2>2. PICK j \in DOMAIN T : i + 1 < j /\ T[j][1] = "deleteConfigs"
      BY <1>1, <2>1 DEF FoundThenDeleted
    <2>3. j \in Nat /\ j - 1 \in DOMAIN Tail(T) /\ i < j - 1 /\ Tail(T)[j - 1] = T[j]
      <3>1. j \in Nat /\ j > 1 /\ j - 1 \in DOMAIN Tail(T)
        BY <2>1, <2>2, TailCalls
      <3>2. Tail(T)[j - 1] = T[(j - 1) + 1]
        BY <3>1, TailCalls
      <3> QED BY <2>1, <2>2, <3>1, <3>2
    <2> QED BY <2>2, <2>3
  <1>2. ASSUME Head(T)[1] \in {"diff", "sweep"} PROVE "deleteConfigs" \in Names(Tail(T))
    <2>1. PICK j \in DOMAIN T : 1 < j /\ T[j][1] = "deleteConfigs"
      BY <1>2, TailCalls DEF FoundThenDeleted
    <2>2. j - 1 \in DOMAIN Tail(T) /\ j \in Nat
      BY <2>1, TailCalls
    <2>3. Tail(T)[j - 1] = T[(j - 1) + 1]
      BY <2>2, TailCalls
    <2> QED BY <2>1, <2>2, <2>3 DEF Names
  <1> QED BY <1>1, <1>2 DEF FoundThenDeleted

LEMMA JoinCalls ==
    ASSUME NEW a \in Seq(CallSet), NEW b \in Seq(CallSet)
    PROVE  /\ a \o b \in Seq(CallSet)
           /\ \A i \in DOMAIN a : i \in Nat /\ i <= Len(a) /\ i \in DOMAIN (a \o b) /\ (a \o b)[i] = a[i]
           /\ \A i \in DOMAIN b : /\ i \in Nat /\ i > 0 /\ i + Len(a) \in DOMAIN (a \o b)
                                  /\ (a \o b)[i + Len(a)] = b[i]
           /\ \A i \in DOMAIN (a \o b) : i \in Nat /\ (i \in DOMAIN a \/ (i > Len(a) /\ i - Len(a) \in DOMAIN b))
           /\ Len(a) \in Nat
  OBVIOUS

LEMMA JoinAt ==
    ASSUME NEW a \in Seq(CallSet), NEW b \in Seq(CallSet), NEW i \in DOMAIN (a \o b)
    PROVE  \/ i \in DOMAIN a /\ (a \o b)[i] = a[i] /\ i <= Len(a)
           \/ i - Len(a) \in DOMAIN b /\ (a \o b)[i] = b[i - Len(a)] /\ i > Len(a)
  <1>1. CASE i \in DOMAIN a
    BY <1>1, JoinCalls
  <1>2. CASE i > Len(a) /\ i - Len(a) \in DOMAIN b
    <2>1. (a \o b)[(i - Len(a)) + Len(a)] = b[i - Len(a)]
      BY <1>2, JoinCalls
    <2>2. (i - Len(a)) + Len(a) = i
      BY JoinCalls
    <2> QED BY <1>2, <2>1, <2>2
  <1> QED BY <1>1, <1>2, JoinCalls

LEMMA JoinWithin ==
    ASSUME NEW a \in Seq(CallSet), NEW b \in Seq(CallSet)
    PROVE  /\ Within(a \o b) = Within(a) \cup Within(b)
           /\ Names(a \o b) = Names(a) \cup Names(b)
  <1>1. Within(a \o b) = Within(a) \cup Within(b)
    BY JoinCalls, JoinAt DEF Within
  <1>2. Names(a \o b) = Names(a) \cup Names(b)
    BY JoinCalls, JoinAt DEF Names
  <1> QED BY <1>1, <1>2

LEMMA JoinOrder ==
    ASSUME NEW a \in Seq(CallSet), NEW b \in Seq(CallSet), NEW those, NEW these,
           NoneAfter(a, those, these), NoneAfter(b, those, these),
           Names(a) \cap these = {} \/ Names(b) \cap those = {}
    PROVE  NoneAfter(a \o b, those, these)
  <1> SUFFICES ASSUME NEW i \in DOMAIN (a \o b), NEW j \in DOMAIN (a \o b), i < j,
                      (a \o b)[i][1] \in these
               PROVE  (a \o b)[j][1] \notin those
    BY DEF NoneAfter
  <1>0. i \in Nat /\ j \in Nat /\ Len(a) \in Nat
    BY JoinCalls
  <1>1. CASE i \in DOMAIN a /\ (a \o b)[i] = a[i]
    <2>1. CASE j \in DOMAIN a /\ (a \o b)[j] = a[j]
      BY <1>1, <2>1 DEF NoneAfter
    <2>2. CASE j - Len(a) \in DOMAIN b /\ (a \o b)[j] = b[j - Len(a)]
      BY <1>1, <2>2 DEF Names
    <2> QED BY <2>1, <2>2, JoinAt
  <1>2. CASE i - Len(a) \in DOMAIN b /\ (a \o b)[i] = b[i - Len(a)] /\ i > Len(a)
    <2>1. j - Len(a) \in DOMAIN b /\ (a \o b)[j] = b[j - Len(a)]
      BY <1>0, <1>2, JoinAt
    <2>2. i - Len(a) < j - Len(a)
      BY <1>0
    <2> QED BY <1>2, <2>1, <2>2 DEF NoneAfter
  <1> QED BY <1>1, <1>2, JoinAt

LEMMA JoinFound ==
    ASSUME NEW a \in Seq(CallSet), NEW b \in Seq(CallSet), FoundThenDeleted(b),
           FoundThenDeleted(a) \/ "deleteConfigs" \in Names(b)
    PROVE  FoundThenDeleted(a \o b)
  <1> SUFFICES ASSUME NEW i \in DOMAIN (a \o b), (a \o b)[i][1] \in {"diff", "sweep"}
               PROVE  \E j \in DOMAIN (a \o b) : i < j /\ (a \o b)[j][1] = "deleteConfigs"
    BY DEF FoundThenDeleted
  <1>0. i \in Nat /\ Len(a) \in Nat
    BY JoinCalls
  <1>1. CASE i \in DOMAIN a /\ (a \o b)[i] = a[i] /\ i <= Len(a)
    <2>1. CASE FoundThenDeleted(a)
      <3>1. PICK j \in DOMAIN a : i < j /\ a[j][1] = "deleteConfigs"
        BY <1>1, <2>1 DEF FoundThenDeleted
      <3> QED BY <3>1, JoinCalls
    <2>2. CASE "deleteConfigs" \in Names(b)
      <3>1. PICK j \in DOMAIN b : b[j][1] = "deleteConfigs"
        BY <2>2 DEF Names
      <3>2. j + Len(a) \in DOMAIN (a \o b) /\ (a \o b)[j + Len(a)] = b[j] /\ j \in Nat /\ j > 0
        BY JoinCalls
      <3> QED BY <1>0, <1>1, <3>1, <3>2
    <2> QED BY <2>1, <2>2
  <1>2. CASE i - Len(a) \in DOMAIN b /\ (a \o b)[i] = b[i - Len(a)] /\ i > Len(a)
    <2>1. PICK j \in DOMAIN b : i - Len(a) < j /\ b[j][1] = "deleteConfigs"
      BY <1>2 DEF FoundThenDeleted
    <2>2. j + Len(a) \in DOMAIN (a \o b) /\ (a \o b)[j + Len(a)] = b[j] /\ j \in Nat
      BY JoinCalls
    <2> QED BY <1>0, <2>1, <2>2
  <1> QED BY <1>1, <1>2, JoinAt

LEMMA NoneOf ==
    ASSUME NEW T, NEW those, NEW these, Names(T) \cap those = {} \/ Names(T) \cap these = {}
    PROVE  NoneAfter(T, those, these)
  BY DEF NoneAfter, Names

LEMMA NothingFound ==
    ASSUME NEW T, Names(T) \cap {"diff", "sweep"} = {}
    PROVE  FoundThenDeleted(T)
  BY DEF FoundThenDeleted, Names

LEMMA NoCall == <<>> \in Seq(CallSet) /\ Names(<<>>) = {} /\ Within(<<>>) = {}
  BY DEF Names, Within

LEMMA OneCall ==
    ASSUME NEW c \in CallSet
    PROVE  /\ <<c>> \in Seq(CallSet) /\ Names(<<c>>) = {c[1]} /\ Within(<<c>>) = {c}
           /\ \A those, these : NoneAfter(<<c>>, those, these)
  BY DEF Names, Within, NoneAfter

\* A call for each rule.
LEMMA TwoCalls ==
    ASSUME NEW call \in RuleCalls
    PROVE  /\ Calls(call, AllRules) \in Seq(CallSet)
           /\ Names(Calls(call, AllRules)) = {call}
           /\ \A r \in Rules : <<call, r>> \in Within(Calls(call, AllRules))
  <1>1. Calls(call, AllRules) = <<<<call, "static">>, <<call, "dynamic">>>>
    BY DEF Calls, AllRules
  <1>2. <<call, "static">> \in CallSet /\ <<call, "dynamic">> \in CallSet
    BY DEF CallSet, Rules
  <1>3. Calls(call, AllRules) = <<<<call, "static">>>> \o <<<<call, "dynamic">>>>
    BY <1>1
  <1> DEFINE a == <<<<call, "static">>>>
             b == <<<<call, "dynamic">>>>
  <1>4. /\ a \in Seq(CallSet) /\ Names(a) = {call} /\ Within(a) = {<<call, "static">>}
        /\ b \in Seq(CallSet) /\ Names(b) = {call} /\ Within(b) = {<<call, "dynamic">>}
    BY <1>2, OneCall
  <1> HIDE DEF a, b
  <1>5. /\ a \o b \in Seq(CallSet) /\ Names(a \o b) = {call}
        /\ Within(a \o b) = {<<call, "static">>, <<call, "dynamic">>}
    BY <1>4, JoinCalls, JoinWithin
  <1>6. Calls(call, AllRules) = a \o b
    BY <1>3 DEF a, b
  <1> QED BY <1>5, <1>6 DEF Rules

LEMMA CallsOf ==
    ASSUME NEW call \in RuleCalls, NEW p
    PROVE  Calls(call, RulesOf(p)) \in Seq(CallSet) /\ Names(Calls(call, RulesOf(p))) = {call}
  <1>1. CASE p.dynamic
    BY <1>1, TwoCalls DEF RulesOf
  <1>2. CASE ~p.dynamic
    <2>1. Calls(call, <<"static">>) = <<<<call, "static">>>> /\ <<call, "static">> \in CallSet
      BY DEF Calls, CallSet, Rules
    <2> QED BY <1>2, <2>1, OneCall DEF RulesOf
  <1> QED BY <1>1, <1>2

LEMMA RefreshCalls ==
    /\ RefreshCall \in Seq(CallSet) /\ Names(RefreshCall) = {"refresh"}
    /\ \A those, these : NoneAfter(RefreshCall, those, these)
  <1>1. <<"refresh", None>> \in CallSet
    BY DEF CallSet, RuleCalls
  <1> QED BY <1>1, OneCall DEF RefreshCall

LEMMA ProvisionOrder ==
    ASSUME NEW p, NEW T, T = ProvisionCalls(p)
    PROVE  /\ T \in Seq(CallSet) /\ T # <<>> /\ Names(T) \subseteq ProvisionNames
           /\ NoneAfter(T, {"snapshot"}, {"assign", "lookUp"})
           /\ NoneAfter(T, {"deleteKid"}, {"deleteCondition"})
           /\ NoneAfter(T, {"children"}, {"children"})
           /\ FoundThenDeleted(T)
           /\ Names(T) \cap {"snapshot", "assign", "lookUp"} # {} => p.key # NoKey
           /\ "snapshot" \in Names(T) => p.mode = "contract"
           /\ "children" \in Names(T) => p.mode = "full" /\ Kids > 0
  <1> DEFINE a == IF p.mode = "contract" /\ p.key # NoKey THEN Calls("snapshot", AllRules) ELSE <<>>
             b == IF p.key # NoKey THEN Calls("assign", RulesOf(p)) ELSE <<>>
             c == Calls("condition", RulesOf(p))
             d == IF p.mode = "full" /\ p.kids /\ p.dynamic /\ Kids > 0
                  THEN <<<<"children", "dynamic">>>> ELSE <<>>
  <1>1. T = a \o b \o c \o d \o RefreshCall
    BY DEF ProvisionCalls
  <1>2. /\ a \in Seq(CallSet) /\ Names(a) \subseteq {"snapshot"}
        /\ Names(a) # {} => p.mode = "contract" /\ p.key # NoKey
    BY TwoCalls, NoCall DEF RuleCalls
  <1>3. b \in Seq(CallSet) /\ Names(b) \subseteq {"assign"} /\ (Names(b) # {} => p.key # NoKey)
    BY CallsOf, NoCall DEF RuleCalls
  <1>4. c \in Seq(CallSet) /\ Names(c) = {"condition"}
    BY CallsOf DEF RuleCalls
  <1>5. d \in Seq(CallSet) /\ Names(d) \subseteq {"children"}
        /\ (Names(d) # {} => p.mode = "full" /\ Kids > 0) /\ NoneAfter(d, {"children"}, {"children"})
    <2>1. <<"children", "dynamic">> \in CallSet
      BY DEF CallSet, RuleCalls, Rules
    <2> QED BY <2>1, OneCall, NoCall, NoneOf
  <1> HIDE DEF a, b, c, d
  <1>6. a \o b \in Seq(CallSet) /\ Names(a \o b) = Names(a) \cup Names(b)
        /\ NoneAfter(a \o b, {"snapshot"}, {"assign", "lookUp"})
    BY <1>2, <1>3, JoinCalls, JoinWithin, JoinOrder, NoneOf
  <1>7. /\ a \o b \o c \in Seq(CallSet) /\ Names(a \o b \o c) = Names(a) \cup Names(b) \cup Names(c)
        /\ NoneAfter(a \o b \o c, {"snapshot"}, {"assign", "lookUp"})
    BY <1>4, <1>6, JoinCalls, JoinWithin, JoinOrder, NoneOf
  <1> DEFINE e == a \o b \o c
             f == e \o d
  <1>8. /\ f \in Seq(CallSet) /\ Names(f) = Names(a) \cup Names(b) \cup Names(c) \cup Names(d)
        /\ NoneAfter(f, {"snapshot"}, {"assign", "lookUp"})
        /\ NoneAfter(f, {"children"}, {"children"})
    <2>1. NoneAfter(d, {"snapshot"}, {"assign", "lookUp"})
      BY <1>5, NoneOf
    <2>2. NoneAfter(e, {"children"}, {"children"}) /\ Names(e) \cap {"children"} = {}
      <3>1. Names(e) \cap {"children"} = {}
        BY <1>2, <1>3, <1>4, <1>7
      <3> QED BY <3>1, NoneOf
    <2>3. Names(d) \cap {"snapshot"} = {}
      BY <1>5
    <2>4. e \in Seq(CallSet) /\ NoneAfter(e, {"snapshot"}, {"assign", "lookUp"})
          /\ Names(e) = Names(a) \cup Names(b) \cup Names(c)
      BY <1>7
    <2> HIDE DEF e
    <2>5. f \in Seq(CallSet) /\ Names(f) = Names(e) \cup Names(d)
      BY <1>5, <2>4, JoinCalls, JoinWithin
    <2>6. NoneAfter(f, {"snapshot"}, {"assign", "lookUp"})
      BY <1>5, <2>1, <2>3, <2>4, JoinOrder
    <2>7. NoneAfter(f, {"children"}, {"children"})
      BY <1>5, <2>2, <2>4, JoinOrder
    <2> QED BY <2>4, <2>5, <2>6, <2>7
  <1>9. /\ T \in Seq(CallSet)
        /\ Names(T) = Names(a) \cup Names(b) \cup Names(c) \cup Names(d) \cup {"refresh"}
        /\ NoneAfter(T, {"snapshot"}, {"assign", "lookUp"})
        /\ NoneAfter(T, {"children"}, {"children"})
    <2>1. T = f \o RefreshCall
      BY <1>1
    <2> HIDE DEF e, f
    <2>2. T \in Seq(CallSet) /\ Names(T) = Names(f) \cup {"refresh"}
      BY <1>8, <2>1, RefreshCalls, JoinCalls, JoinWithin
    <2>3. NoneAfter(T, {"snapshot"}, {"assign", "lookUp"})
      BY <1>8, <2>1, RefreshCalls, JoinOrder
    <2>4. NoneAfter(T, {"children"}, {"children"})
      BY <1>8, <2>1, RefreshCalls, JoinOrder
    <2> QED BY <1>8, <2>2, <2>3, <2>4
  <1>10. Names(T) \cap {"deleteKid", "diff", "sweep"} = {} /\ Names(T) # {}
    BY <1>2, <1>3, <1>4, <1>5, <1>9
  <1>11. NoneAfter(T, {"deleteKid"}, {"deleteCondition"}) /\ FoundThenDeleted(T) /\ T # <<>>
    BY <1>10, NoneOf, NothingFound, NoCall
  <1>12. Names(T) \subseteq ProvisionNames
    BY <1>2, <1>3, <1>4, <1>5, <1>9 DEF ProvisionNames
  <1> QED BY <1>2, <1>3, <1>4, <1>5, <1>9, <1>11, <1>12

LEMMA DeletesRecorded ==
    ASSUME NEW s \in Scenarios, NEW r \in Rules
    PROVE  /\ DeleteCalls(s, r) \in Seq(CallSet) /\ Names(DeleteCalls(s, r)) \subseteq {"deleteCondition"}
           /\ r \in setup[s].conds => <<"deleteCondition", r>> \in Within(DeleteCalls(s, r))
  <1>1. <<"deleteCondition", r>> \in CallSet
    BY DEF CallSet, RuleCalls
  <1> QED BY <1>1, OneCall, NoCall DEF DeleteCalls

LEMMA KidCallsOrder ==
    ASSUME NEW s \in Scenarios, setup[s].kids \in 0..Kids
    PROVE  /\ KidCalls(s) \in Seq(CallSet) /\ Names(KidCalls(s)) \subseteq {"deleteKid"}
           /\ \A n \in 1..Kids : n <= setup[s].kids => <<"deleteKid", n>> \in Within(KidCalls(s))
           /\ setup[s].kids = 0 => Names(KidCalls(s)) = {}
  <1>0. Kids \in Nat
    BY BrAssumption
  <1>1. \A n \in 1..setup[s].kids : <<"deleteKid", n>> \in CallSet
    BY <1>0 DEF CallSet
  <1>2. KidCalls(s) \in Seq(CallSet)
    BY <1>0, <1>1 DEF KidCalls
  <1>3. DOMAIN KidCalls(s) = 1..setup[s].kids
        /\ \A n \in 1..setup[s].kids : KidCalls(s)[n] = <<"deleteKid", n>>
    BY DEF KidCalls
  <1>4. Names(KidCalls(s)) \subseteq {"deleteKid"} /\ (setup[s].kids = 0 => Names(KidCalls(s)) = {})
    BY <1>3 DEF Names
  <1>5. ASSUME NEW n \in 1..Kids, n <= setup[s].kids PROVE <<"deleteKid", n>> \in Within(KidCalls(s))
    BY <1>0, <1>3, <1>5 DEF Within
  <1> QED BY <1>2, <1>4, <1>5

\* The calls of a cleanup: what is recorded is deleted, children first; what is found
\* on the apiKey is deleted after it was found.
Cleans(s, T) ==
    /\ T \in Seq(CallSet) /\ Names(T) \subseteq CleanupNames
    /\ \A r \in setup[s].conds : <<"deleteCondition", r>> \in Within(T)
    /\ NoneAfter(T, {"deleteKid"}, {"deleteCondition"})
    /\ FoundThenDeleted(T)

LEMMA ContractCleans ==
    ASSUME NEW s \in Scenarios, setup[s].conds \subseteq Rules, NEW T, T = ContractCleanup(s)
    PROVE  /\ Cleans(s, T) /\ Names(T) \cap {"sweep", "deleteKid"} = {}
           /\ \A r \in Rules : <<"diff", r>> \in Within(T)
  <1> DEFINE a == DeleteCalls(s, "dynamic")
             b == DeleteCalls(s, "static")
             c == Calls("diff", AllRules)
             d == <<<<"deleteConfigs", None>>>>
             e == a \o b
             f == e \o c
             g == f \o d
  <1>1. T = g \o RefreshCall
    BY DEF ContractCleanup
  <1>2. /\ a \in Seq(CallSet) /\ Names(a) \subseteq {"deleteCondition"}
        /\ b \in Seq(CallSet) /\ Names(b) \subseteq {"deleteCondition"}
        /\ "dynamic" \in setup[s].conds => <<"deleteCondition", "dynamic">> \in Within(a)
        /\ "static" \in setup[s].conds => <<"deleteCondition", "static">> \in Within(b)
    BY DeletesRecorded DEF Rules
  <1>3. /\ c \in Seq(CallSet) /\ Names(c) = {"diff"}
        /\ \A r \in Rules : <<"diff", r>> \in Within(c)
    BY TwoCalls DEF RuleCalls
  <1>4. d \in Seq(CallSet) /\ Names(d) = {"deleteConfigs"}
    <2>1. <<"deleteConfigs", None>> \in CallSet
      BY DEF CallSet, RuleCalls
    <2> QED BY <2>1, OneCall
  <1> HIDE DEF a, b, c, d
  <1>5. /\ e \in Seq(CallSet) /\ Names(e) \subseteq {"deleteCondition"}
        /\ \A r \in setup[s].conds : <<"deleteCondition", r>> \in Within(e)
    <2>1. e \in Seq(CallSet) /\ Names(e) = Names(a) \cup Names(b) /\ Within(e) = Within(a) \cup Within(b)
      BY <1>2, JoinCalls, JoinWithin
    <2> QED BY <1>2, <2>1 DEF Rules
  <1> HIDE DEF e
  <1>6. f \in Seq(CallSet) /\ Names(f) = Names(e) \cup {"diff"} /\ Within(f) = Within(e) \cup Within(c)
    BY <1>3, <1>5, JoinCalls, JoinWithin
  <1> HIDE DEF f
  <1>7. /\ g \in Seq(CallSet) /\ Names(g) = Names(e) \cup {"diff", "deleteConfigs"}
        /\ Within(g) = Within(e) \cup Within(c) \cup Within(d)
    BY <1>4, <1>6, JoinCalls, JoinWithin
  <1>8. FoundThenDeleted(g)
    <2>1. FoundThenDeleted(d) /\ "deleteConfigs" \in Names(d)
      BY <1>4, NothingFound
    <2> QED BY <1>4, <1>6, <2>1, JoinFound
  <1> HIDE DEF g
  <1>9. /\ T \in Seq(CallSet) /\ Names(T) = Names(e) \cup {"diff", "deleteConfigs", "refresh"}
        /\ Within(T) = Within(e) \cup Within(c) \cup Within(d) \cup Within(RefreshCall)
    BY <1>1, <1>7, RefreshCalls, JoinCalls, JoinWithin
  <1>10. FoundThenDeleted(T)
    <2>1. FoundThenDeleted(RefreshCall)
      BY RefreshCalls, NothingFound
    <2> QED BY <1>1, <1>7, <1>8, <2>1, RefreshCalls, JoinFound
  <1>11. NoneAfter(T, {"deleteKid"}, {"deleteCondition"}) /\ Names(T) \cap {"sweep", "deleteKid"} = {}
    <2>1. Names(T) \cap {"sweep", "deleteKid"} = {} /\ Names(T) \cap {"deleteKid"} = {}
      BY <1>5, <1>9
    <2> QED BY <2>1, NoneOf
  <1>12. Names(T) \subseteq CleanupNames
    BY <1>5, <1>9 DEF CleanupNames
  <1> QED BY <1>3, <1>5, <1>9, <1>10, <1>11, <1>12 DEF Cleans

LEMMA SweepCalls ==
    ASSUME NEW T, T = <<<<"sweep", "static">>, <<"deleteConfigs", None>>,
                        <<"sweep", "dynamic">>, <<"deleteConfigs", None>>>>
    PROVE  /\ T \in Seq(CallSet) /\ Names(T) = {"sweep", "deleteConfigs"}
           /\ \A r \in Rules : <<"sweep", r>> \in Within(T)
           /\ FoundThenDeleted(T)
  <1>1. /\ <<"deleteConfigs", None>> \in CallSet
        /\ \A r \in Rules : <<"sweep", r>> \in CallSet
    BY DEF CallSet, RuleCalls
  <1>2. /\ T \in Seq(CallSet) /\ DOMAIN T = 1..4
        /\ T[1] = <<"sweep", "static">> /\ T[2] = <<"deleteConfigs", None>>
        /\ T[3] = <<"sweep", "dynamic">> /\ T[4] = <<"deleteConfigs", None>>
    BY <1>1 DEF Rules
  <1>3. Names(T) = {"sweep", "deleteConfigs"}
    BY <1>2 DEF Names
  <1>4. \A r \in Rules : <<"sweep", r>> \in Within(T)
    BY <1>2 DEF Within, Rules
  <1>5. FoundThenDeleted(T)
    <2>1. \A i \in 1..4 : T[i][1] \in {"diff", "sweep"} => i < 4
      BY <1>2
    <2>2. T[4][1] = "deleteConfigs"
      BY <1>2
    <2> QED BY <1>2, <2>1, <2>2 DEF FoundThenDeleted
  <1> QED BY <1>2, <1>3, <1>4, <1>5

LEMMA FullCleans ==
    ASSUME NEW s \in Scenarios, setup[s].conds \subseteq Rules, setup[s].kids \in 0..Kids,
           NEW T, T = FullCleanup(s)
    PROVE  /\ Cleans(s, T) /\ (setup[s].kids = 0 => "deleteKid" \notin Names(T)) /\ "diff" \notin Names(T)
           /\ \A r \in Rules : <<"sweep", r>> \in Within(T)
           /\ \A n \in 1..Kids : n <= setup[s].kids => <<"deleteKid", n>> \in Within(T)
  <1> DEFINE k == KidCalls(s)
             a == DeleteCalls(s, "static")
             b == DeleteCalls(s, "dynamic")
             c == <<<<"sweep", "static">>, <<"deleteConfigs", None>>,
                    <<"sweep", "dynamic">>, <<"deleteConfigs", None>>>>
             e == k \o a
             f == e \o b
             g == f \o c
  <1>1. T = g \o RefreshCall
    BY DEF FullCleanup
  <1>2. /\ a \in Seq(CallSet) /\ Names(a) \subseteq {"deleteCondition"}
        /\ b \in Seq(CallSet) /\ Names(b) \subseteq {"deleteCondition"}
        /\ "dynamic" \in setup[s].conds => <<"deleteCondition", "dynamic">> \in Within(b)
        /\ "static" \in setup[s].conds => <<"deleteCondition", "static">> \in Within(a)
    BY DeletesRecorded DEF Rules
  <1>3. /\ k \in Seq(CallSet) /\ Names(k) \subseteq {"deleteKid"}
        /\ \A n \in 1..Kids : n <= setup[s].kids => <<"deleteKid", n>> \in Within(k)
        /\ setup[s].kids = 0 => Names(k) = {}
    BY KidCallsOrder
  <1>4. /\ c \in Seq(CallSet) /\ Names(c) = {"sweep", "deleteConfigs"} /\ FoundThenDeleted(c)
        /\ \A r \in Rules : <<"sweep", r>> \in Within(c)
    BY SweepCalls
  <1> HIDE DEF k, a, b, c
  <1>5. /\ e \in Seq(CallSet) /\ Names(e) = Names(k) \cup Names(a) /\ Within(e) = Within(k) \cup Within(a)
        /\ NoneAfter(e, {"deleteKid"}, {"deleteCondition"})
    <2>1. e \in Seq(CallSet) /\ Names(e) = Names(k) \cup Names(a) /\ Within(e) = Within(k) \cup Within(a)
      BY <1>2, <1>3, JoinCalls, JoinWithin
    <2>2. Names(k) \cap {"deleteCondition"} = {} /\ Names(a) \cap {"deleteKid"} = {}
      BY <1>2, <1>3
    <2>3. NoneAfter(k, {"deleteKid"}, {"deleteCondition"}) /\ NoneAfter(a, {"deleteKid"}, {"deleteCondition"})
      BY <2>2, NoneOf
    <2> QED BY <1>2, <1>3, <2>1, <2>2, <2>3, JoinOrder
  <1> HIDE DEF e
  <1>6. /\ f \in Seq(CallSet) /\ Names(f) = Names(e) \cup Names(b) /\ Within(f) = Within(e) \cup Within(b)
        /\ NoneAfter(f, {"deleteKid"}, {"deleteCondition"})
    <2>1. f \in Seq(CallSet) /\ Names(f) = Names(e) \cup Names(b) /\ Within(f) = Within(e) \cup Within(b)
      BY <1>2, <1>5, JoinCalls, JoinWithin
    <2>2. Names(b) \cap {"deleteKid"} = {}
      BY <1>2
    <2>3. NoneAfter(b, {"deleteKid"}, {"deleteCondition"})
      BY <2>2, NoneOf
    <2> QED BY <1>2, <1>5, <2>1, <2>2, <2>3, JoinOrder
  <1> HIDE DEF f
  <1>7. /\ g \in Seq(CallSet) /\ Names(g) = Names(f) \cup Names(c) /\ Within(g) = Within(f) \cup Within(c)
        /\ NoneAfter(g, {"deleteKid"}, {"deleteCondition"}) /\ FoundThenDeleted(g)
    <2>1. g \in Seq(CallSet) /\ Names(g) = Names(f) \cup Names(c) /\ Within(g) = Within(f) \cup Within(c)
      BY <1>4, <1>6, JoinCalls, JoinWithin
    <2>2. Names(c) \cap {"deleteKid"} = {} /\ "deleteConfigs" \in Names(c)
      BY <1>4
    <2>3. NoneAfter(c, {"deleteKid"}, {"deleteCondition"})
      BY <2>2, NoneOf
    <2>4. NoneAfter(g, {"deleteKid"}, {"deleteCondition"})
      BY <1>4, <1>6, <2>2, <2>3, JoinOrder
    <2>5. FoundThenDeleted(g)
      BY <1>4, <1>6, <2>2, JoinFound
    <2> QED BY <2>1, <2>4, <2>5
  <1> HIDE DEF g
  <1>8. /\ T \in Seq(CallSet) /\ Names(T) = Names(g) \cup {"refresh"}
        /\ Within(T) = Within(g) \cup Within(RefreshCall)
    BY <1>1, <1>7, RefreshCalls, JoinCalls, JoinWithin
  <1>9. NoneAfter(T, {"deleteKid"}, {"deleteCondition"})
    BY <1>1, <1>7, RefreshCalls, JoinOrder
  <1>10. FoundThenDeleted(T)
    <2>1. FoundThenDeleted(RefreshCall)
      BY RefreshCalls, NothingFound
    <2> QED BY <1>1, <1>7, <2>1, RefreshCalls, JoinFound
  <1>11. Names(T) \subseteq CleanupNames
    BY <1>2, <1>3, <1>4, <1>5, <1>6, <1>7, <1>8 DEF CleanupNames
  <1>12. \A r \in setup[s].conds : <<"deleteCondition", r>> \in Within(T)
    BY <1>2, <1>5, <1>6, <1>7, <1>8 DEF Rules
  <1>13. \A n \in 1..Kids : n <= setup[s].kids => <<"deleteKid", n>> \in Within(T)
    BY <1>3, <1>5, <1>6, <1>7, <1>8
  <1>14. \A r \in Rules : <<"sweep", r>> \in Within(T)
    BY <1>4, <1>7, <1>8
  <1>15. (setup[s].kids = 0 => "deleteKid" \notin Names(T)) /\ "diff" \notin Names(T)
    BY <1>2, <1>3, <1>4, <1>5, <1>6, <1>7, <1>8
  <1> QED BY <1>8, <1>9, <1>10, <1>11, <1>12, <1>13, <1>14, <1>15 DEF Cleans

LEMMA CleanupOrder ==
    ASSUME NEW s \in Scenarios, setup[s] \in Setup, plan[s] \in Plan,
           plan[s].mode = "full" => plan[s].key = s,
           setup[s].kids > 0 => plan[s].mode = "full",
           NEW T, T = CleanupCalls(s)
    PROVE  /\ Cleans(s, T) /\ T # <<>>
           /\ "sweep" \in Names(T) => plan[s].mode = "full" \/ s \in forgot
           /\ "diff" \in Names(T) => plan[s].mode = "contract"
           /\ \A n \in 1..Kids : n <= setup[s].kids => <<"deleteKid", n>> \in Within(T)
           /\ \A r \in Rules :
                \/ plan[s].mode = "contract" /\ plan[s].key = NoKey
                \/ plan[s].mode = "contract" /\ <<"diff", r>> \in Within(T)
                \/ plan[s].mode = "full" /\ <<"sweep", r>> \in Within(T)
  <1>0. /\ setup[s].conds \subseteq Rules /\ setup[s].kids \in 0..Kids /\ Kids \in Nat
        /\ plan[s].mode \in {"contract", "full"}
    BY BrAssumption DEF Setup, Plan
  <1>1. CASE plan[s].mode = "full"
    <2>1. T = FullCleanup(s)
      BY <1>1 DEF CleanupCalls
    <2>2. T # <<>>
      BY <1>0, <2>1, FullCleans, NoCall DEF Rules
    <2> QED BY <1>0, <1>1, <2>1, <2>2, FullCleans
  <1>2. CASE plan[s].mode = "contract" /\ setup[s].conds = {} /\ plan[s].key = NoKey
    <2>1. T = RefreshCall
      BY <1>2 DEF CleanupCalls
    <2>2. Names(T) = {"refresh"} /\ T \in Seq(CallSet) /\ T # <<>>
      BY <2>1, RefreshCalls, NoCall
    <2>3. Cleans(s, T)
      BY <1>2, <2>2, NoneOf, NothingFound DEF Cleans, CleanupNames
    <2>4. \A n \in 1..Kids : ~(n <= setup[s].kids)
      BY <1>0, <1>2
    <2> QED BY <1>2, <2>2, <2>3, <2>4
  <1>3. CASE plan[s].mode = "contract" /\ (setup[s].conds # {} \/ plan[s].key # NoKey)
    <2> DEFINE a == ContractCleanup(s)
               b == IF s \in forgot THEN FullCleanup(s) ELSE <<>>
    <2>1. T = a \o b
      BY <1>3 DEF CleanupCalls
    <2>2. setup[s].kids = 0
      BY <1>0, <1>3
    <2>3. Cleans(s, a) /\ Names(a) \cap {"sweep", "deleteKid"} = {}
          /\ \A r \in Rules : <<"diff", r>> \in Within(a)
      BY <1>0, ContractCleans
    <2>4. /\ b \in Seq(CallSet) /\ FoundThenDeleted(b) /\ Names(b) \subseteq CleanupNames
          /\ Names(b) # {} => s \in forgot
          /\ NoneAfter(b, {"deleteKid"}, {"deleteCondition"}) /\ "deleteKid" \notin Names(b)
      <3>1. CASE s \in forgot
        <4>1. Cleans(s, b) /\ "deleteKid" \notin Names(b)
          BY <1>0, <2>2, <3>1, FullCleans
        <4> QED BY <3>1, <4>1 DEF Cleans
      <3>2. CASE s \notin forgot
        BY <3>2, NoCall, NoneOf, NothingFound
      <3> QED BY <3>1, <3>2
    <2> HIDE DEF a, b
    <2>5. /\ T \in Seq(CallSet) /\ Names(T) = Names(a) \cup Names(b)
          /\ Within(T) = Within(a) \cup Within(b)
      BY <2>1, <2>3, <2>4, JoinCalls, JoinWithin DEF Cleans
    <2>6. FoundThenDeleted(T)
      BY <2>1, <2>3, <2>4, JoinFound DEF Cleans
    <2>7. NoneAfter(T, {"deleteKid"}, {"deleteCondition"})
      <3>1. Names(T) \cap {"deleteKid"} = {}
        BY <2>3, <2>4, <2>5
      <3> QED BY <3>1, NoneOf
    <2>8. Cleans(s, T)
      BY <2>3, <2>4, <2>5, <2>6, <2>7 DEF Cleans
    <2>9. T # <<>>
      BY <2>3, <2>5, NoCall DEF Rules
    <2>10. \A n \in 1..Kids : ~(n <= setup[s].kids)
      BY <1>0, <2>2
    <2> QED BY <1>3, <2>3, <2>4, <2>5, <2>8, <2>9, <2>10
  <1> QED BY <1>0, <1>1, <1>2, <1>3

-----------------------------------------------------------------------------
\* Steps of a scenario.

LEMMA ContinueTo ==
    ASSUME TypeOK, NEW s \in Scenarios, NEW calls \in Seq(CallSet), Continue(s, calls)
    PROVE  /\ plan' = plan /\ todo' \in [Scenarios -> Seq(CallSet)] /\ phase' \in [Scenarios -> Phases]
           /\ todo'[s] = calls
           /\ phase'[s] = IF calls # <<>> THEN phase[s]
                          ELSE IF phase[s] = "provision" THEN "up" ELSE "gone"
           /\ \A t \in Scenarios \ {s} : todo'[t] = todo[t] /\ phase'[t] = phase[t]
  BY DEF TypeOK, Continue, Phases

\* The order of the calls is kept when some of them, in order, are left.
LEMMA ContinueOrder ==
    ASSUME TypeOK, NEW s \in Scenarios, InOrder(s), todo[s] # <<>>, forgot \subseteq forgot',
           NEW calls \in Seq(CallSet), Continue(s, calls),
           Names(calls) \subseteq Names(todo[s]) \cup {"lookUp"},
           "lookUp" \in Names(calls) => Names(todo[s]) \cap {"assign", "lookUp"} # {},
           NoneAfter(calls, {"snapshot"}, {"assign", "lookUp"}),
           NoneAfter(calls, {"deleteKid"}, {"deleteCondition"}),
           NoneAfter(calls, {"children"}, {"children"}),
           FoundThenDeleted(calls)
    PROVE  InOrder(s)'
  <1>1. /\ plan' = plan /\ todo'[s] = calls
        /\ phase'[s] = IF calls # <<>> THEN phase[s]
                       ELSE IF phase[s] = "provision" THEN "up" ELSE "gone"
    BY ContinueTo
  <1>2. phase[s] \in {"provision", "cleanup"}
    BY DEF InOrder, TypeOK, Phases
  <1>3. \/ phase'[s] = phase[s]
        \/ phase'[s] \in {"up", "gone"} /\ calls = <<>>
    BY <1>1
  <1>4. phase[s] # "provision" => "lookUp" \notin Names(todo[s]) /\ "assign" \notin Names(todo[s])
    BY <1>2 DEF InOrder, CleanupNames
  <1>5. phase'[s] = "provision" => Names(calls) \subseteq ProvisionNames
    BY <1>2, <1>3 DEF InOrder, ProvisionNames
  <1>6. phase'[s] = "cleanup" => Names(calls) \subseteq CleanupNames
    <2> SUFFICES ASSUME phase'[s] = "cleanup" PROVE Names(calls) \subseteq CleanupNames
      OBVIOUS
    <2>1. phase[s] = "cleanup"
      BY <1>3
    <2>2. "lookUp" \notin Names(calls)
      BY <1>4, <2>1
    <2> QED BY <2>1, <2>2 DEF InOrder
  <1>7. plan'[s] # None
    BY <1>1, <1>2 DEF InOrder
  <1>8. phase'[s] \in {"new", "up", "gone"} => calls = <<>>
    BY <1>2, <1>3
  <1>9. /\ Names(calls) \cap {"snapshot", "assign", "lookUp"} # {} => plan[s].key # NoKey
        /\ "snapshot" \in Names(calls) => plan[s].mode = "contract"
        /\ "sweep" \in Names(calls) => plan[s].mode = "full" \/ s \in forgot'
        /\ "diff" \in Names(calls) => plan[s].mode = "contract"
        /\ "children" \in Names(calls) => plan[s].mode = "full" /\ Kids > 0
        /\ plan[s] # None /\ plan[s].mode = "full" => plan[s].key = s
    BY DEF InOrder
  <1> QED BY <1>1, <1>5, <1>6, <1>7, <1>8, <1>9 DEF InOrder

LEMMA AdvanceOrder ==
    ASSUME TypeOK, NEW s \in Scenarios, InOrder(s), todo[s] # <<>>, forgot \subseteq forgot',
           Advance(s)
    PROVE  /\ InOrder(s)' /\ plan' = plan /\ phase[s] \in {"provision", "cleanup"}
           /\ todo' \in [Scenarios -> Seq(CallSet)] /\ phase' \in [Scenarios -> Phases]
           /\ phase'[s] = IF todo'[s] # <<>> THEN phase[s]
                          ELSE IF phase[s] = "provision" THEN "up" ELSE "gone"
           /\ \A t \in Scenarios \ {s} : todo'[t] = todo[t] /\ phase'[t] = phase[t]
           /\ Within(todo[s]) = {Head(todo[s])} \cup Within(todo'[s])
           /\ Names(todo[s]) = {Head(todo[s])[1]} \cup Names(todo'[s])
           /\ Head(todo[s]) \in CallSet /\ todo'[s] = Tail(todo[s])
           /\ Head(todo[s])[1] \in {"assign", "lookUp"} => "snapshot" \notin Names(todo'[s])
           /\ Head(todo[s])[1] = "deleteCondition" => "deleteKid" \notin Names(todo'[s])
           /\ Head(todo[s])[1] = "children" => "children" \notin Names(todo'[s])
           /\ Head(todo[s])[1] \in {"diff", "sweep"} => "deleteConfigs" \in Names(todo'[s])
  <1> DEFINE T == todo[s]
             U == Tail(T)
  <1>1. T \in Seq(CallSet) /\ T # <<>>
    BY DEF TypeOK
  <1>2. Continue(s, U) /\ phase[s] \in {"provision", "cleanup"}
    BY DEF Advance, InOrder, TypeOK, Phases
  <1>3. U \in Seq(CallSet) /\ Head(T) \in CallSet
    BY <1>1, TailCalls
  <1>4. Within(T) = {Head(T)} \cup Within(U) /\ Names(T) = {Head(T)[1]} \cup Names(U)
    BY <1>1, TailWithin
  <1>5. /\ NoneAfter(U, {"snapshot"}, {"assign", "lookUp"})
        /\ Head(T)[1] \in {"assign", "lookUp"} => "snapshot" \notin Names(U)
    BY <1>1, TailOrder DEF InOrder
  <1>6. /\ NoneAfter(U, {"deleteKid"}, {"deleteCondition"})
        /\ Head(T)[1] = "deleteCondition" => "deleteKid" \notin Names(U)
    BY <1>1, TailOrder DEF InOrder
  <1>7. /\ NoneAfter(U, {"children"}, {"children"})
        /\ Head(T)[1] = "children" => "children" \notin Names(U)
    BY <1>1, TailOrder DEF InOrder
  <1>8. /\ FoundThenDeleted(U)
        /\ Head(T)[1] \in {"diff", "sweep"} => "deleteConfigs" \in Names(U)
    BY <1>1, TailFound DEF InOrder
  <1>9. /\ plan' = plan /\ todo' \in [Scenarios -> Seq(CallSet)] /\ phase' \in [Scenarios -> Phases]
        /\ todo'[s] = U
        /\ phase'[s] = IF U # <<>> THEN phase[s] ELSE IF phase[s] = "provision" THEN "up" ELSE "gone"
        /\ \A t \in Scenarios \ {s} : todo'[t] = todo[t] /\ phase'[t] = phase[t]
    BY <1>2, <1>3, ContinueTo
  <1> HIDE DEF U
  <1>10. InOrder(s)'
    BY <1>1, <1>2, <1>3, <1>4, <1>5, <1>6, <1>7, <1>8, ContinueOrder
  <1> QED BY <1>1, <1>2, <1>3, <1>4, <1>5, <1>6, <1>7, <1>8, <1>9, <1>10 DEF U

\* A step of another scenario.
LEMMA OthersKept ==
    ASSUME NEW t \in Scenarios, Inv(t), plan' = plan,
           phase'[t] = phase[t], todo'[t] = todo[t], setup'[t] = setup[t], made'[t] = made[t],
           doomed'[t] = doomed[t], t \in forgot' <=> t \in forgot,
           t \in failedUp' <=> t \in failedUp, t \in failedDown' <=> t \in failedDown,
           \A c \in configs' : c.by = t => c \in configs,
           \A r \in Rules : <<t, r>> \in conditions' => <<t, r>> \in conditions,
           \A n \in 1..Kids : <<t, n>> \in children' => <<t, n>> \in children
    PROVE  Inv(t)'
  <1>1. InOrder(t)'
    BY DEF Inv, InOrder
  <1>2. Remembers(t)'
    BY DEF Inv, Remembers, Awaits
  <1>3. /\ Lives(t)'.conds \subseteq Lives(t).conds /\ Lives(t)'.kids \subseteq Lives(t).kids
        /\ Lives(t)'.configs \subseteq Lives(t).configs
    BY DEF Lives
  <1>4. \A c : c = Own(t, c.rule)' <=> c = Own(t, c.rule)
    BY DEF Own
  <1>5. Traced(t)'
    BY <1>3, <1>4 DEF Inv, Traced, Unsnapped, Lives, Own
  <1> QED BY <1>1, <1>2, <1>5 DEF Inv

OnlyAbout(s) ==
    /\ plan' = plan
    /\ \A t \in Scenarios \ {s} :
         /\ phase'[t] = phase[t] /\ todo'[t] = todo[t] /\ setup'[t] = setup[t]
         /\ made'[t] = made[t] /\ doomed'[t] = doomed[t]
         /\ t \in forgot' <=> t \in forgot
         /\ t \in failedUp' <=> t \in failedUp
         /\ t \in failedDown' <=> t \in failedDown
         /\ \A c \in configs' : c.by = t => c \in configs
         /\ \A r \in Rules : <<t, r>> \in conditions' => <<t, r>> \in conditions
         /\ \A n \in 1..Kids : <<t, n>> \in children' => <<t, n>> \in children

LEMMA Kept ==
    ASSUME BrInv, NEW s \in Scenarios, TypeOK', OnlyAbout(s), Inv(s)'
    PROVE  BrInv'
  <1>1. ASSUME NEW t \in Scenarios \ {s} PROVE Inv(t)'
    BY <1>1, OthersKept DEF OnlyAbout, BrInv
  <1> QED BY <1>1 DEF BrInv

LEMMA AwaitsCall ==
    ASSUME TypeOK, NEW s \in Scenarios, NEW call, Awaits(call, s)
    PROVE  /\ todo[s] # <<>> /\ Head(todo[s]) = <<call, Arg(s)>> /\ Head(todo[s])[1] = call
           /\ call \in RuleCalls => Arg(s) \in Rules
           /\ call = "deleteKid" => Arg(s) \in 1..Kids
           /\ <<call, Arg(s)>> \in Within(todo[s]) /\ call \in Names(todo[s])
  <1>1. todo[s] \in Seq(CallSet) /\ todo[s] # <<>>
    BY DEF TypeOK, Awaits
  <1>2. Head(todo[s]) \in CallSet /\ Within(todo[s]) = {Head(todo[s])} \cup Within(Tail(todo[s]))
        /\ Names(todo[s]) = {Head(todo[s])[1]} \cup Names(Tail(todo[s]))
    BY <1>1, TailCalls, TailWithin
  <1>3. Head(todo[s])[1] = call /\ Head(todo[s]) = <<call, Arg(s)>>
    BY <1>2 DEF Awaits, Arg, CallSet
  <1>4. call \in RuleCalls => Arg(s) \in Rules
    BY <1>2, <1>3 DEF CallSet, RuleCalls
  <1>5. call = "deleteKid" => Arg(s) \in 1..Kids
    BY <1>2, <1>3 DEF CallSet, RuleCalls
  <1> QED BY <1>1, <1>2, <1>3, <1>4, <1>5

\* A call that is answered, and the next one.
LEMMA Called ==
    ASSUME BrInv, NEW s \in Scenarios, NEW call, Awaits(call, s), Advance(s), forgot \subseteq forgot'
    PROVE  /\ InOrder(s)' /\ plan' = plan /\ phase[s] \in {"provision", "cleanup"}
           /\ todo' \in [Scenarios -> Seq(CallSet)] /\ phase' \in [Scenarios -> Phases]
           /\ \A t \in Scenarios \ {s} : todo'[t] = todo[t] /\ phase'[t] = phase[t]
           /\ phase[s] = "provision" => phase'[s] \in {"provision", "up"}
           /\ phase[s] = "cleanup" => phase'[s] \in {"cleanup", "gone"}
           /\ Within(todo[s]) = {<<call, Arg(s)>>} \cup Within(todo'[s])
           /\ Names(todo[s]) = {call} \cup Names(todo'[s]) /\ call \in Names(todo[s])
           /\ call \in RuleCalls => Arg(s) \in Rules
           /\ call \in ProvisionNames \ {"refresh"} => phase[s] = "provision"
           /\ call \in CleanupNames \ {"refresh"} => phase[s] = "cleanup"
           /\ call \in {"assign", "lookUp"} => "snapshot" \notin Names(todo'[s])
           /\ call = "deleteCondition" => "deleteKid" \notin Names(todo'[s])
           /\ call = "children" => "children" \notin Names(todo'[s])
           /\ call \in {"diff", "sweep"} => "deleteConfigs" \in Names(todo'[s])
           /\ call # "children" => made[s] = 0
           /\ plan[s] \in Plan
  <1>1. TypeOK /\ InOrder(s) /\ Remembers(s)
    BY DEF BrInv, Inv
  <1>2. /\ todo[s] # <<>> /\ Head(todo[s]) = <<call, Arg(s)>> /\ Head(todo[s])[1] = call
        /\ call \in RuleCalls => Arg(s) \in Rules
        /\ call \in Names(todo[s])
    BY <1>1, AwaitsCall
  <1>3. /\ call \in ProvisionNames \ {"refresh"} => phase[s] = "provision"
        /\ call \in CleanupNames \ {"refresh"} => phase[s] = "cleanup"
    BY <1>1, <1>2 DEF InOrder, TypeOK, Phases, ProvisionNames, CleanupNames
  <1>4. call # "children" => made[s] = 0
    <2>1. made[s] > 0 => Head(todo[s])[1] = "children"
      BY <1>1 DEF Remembers, Awaits
    <2>2. made[s] \in Nat
      BY <1>1, BrAssumption DEF TypeOK
    <2> QED BY <1>2, <2>1, <2>2
  <1>5. plan[s] \in Plan
    BY <1>1, <1>2 DEF InOrder, TypeOK, Phases
  <1> QED BY <1>1, <1>2, <1>3, <1>4, <1>5, AdvanceOrder

LEMMA SnapshotKept ==
    ASSUME BrInv, NEW s \in Scenarios, Snapshot(s) PROVE BrInv'
  <1>1. TypeOK /\ InOrder(s) /\ Remembers(s) /\ Traced(s)
    BY DEF BrInv, Inv
  <1> DEFINE r == Arg(s)
             u == setup[s]
             v == [u EXCEPT !.snapped = @ \cup {r}, !.snap[r] = On(r, plan[s].key)]
  <1>2. /\ setup' = [setup EXCEPT ![s] = v] /\ made' = made /\ doomed' = doomed
        /\ UNCHANGED <<br, history>> /\ Awaits("snapshot", s) /\ Advance(s)
    BY DEF Snapshot, Records
  <1>3. /\ InOrder(s)' /\ plan' = plan /\ phase[s] = "provision"
        /\ todo' \in [Scenarios -> Seq(CallSet)] /\ phase' \in [Scenarios -> Phases]
        /\ \A t \in Scenarios \ {s} : todo'[t] = todo[t] /\ phase'[t] = phase[t]
        /\ phase'[s] \in {"provision", "up"} /\ "snapshot" \in Names(todo[s])
        /\ Names(todo'[s]) \subseteq Names(todo[s]) /\ r \in Rules /\ made[s] = 0
        /\ plan[s] \in Plan
    <2>1. "snapshot" \in RuleCalls /\ "snapshot" \in ProvisionNames \ {"refresh"} /\ forgot' = forgot
      BY <1>2 DEF RuleCalls, ProvisionNames, history
    <2> HIDE DEF r, v
    <2> QED BY <1>2, <2>1, Called DEF r
  <1>4. u \in Setup /\ On(r, plan[s].key) \subseteq Configs
    BY <1>1 DEF TypeOK, On
  <1>5. v \in Setup /\ v.snapped = u.snapped \cup {r} /\ v.stored = u.stored /\ v.kids = u.kids
        /\ v.conds = u.conds
        /\ v.snap[r] = On(r, plan[s].key) /\ \A q \in Rules \ {r} : v.snap[q] = u.snap[q]
    BY <1>3, <1>4 DEF Setup
  <1> HIDE DEF v, u
  <1>6. TypeOK'
    BY <1>1, <1>2, <1>3, <1>5 DEF TypeOK, br, history
  <1>7. OnlyAbout(s)
    BY <1>1, <1>2, <1>3 DEF OnlyAbout, TypeOK, br, history
  <1>8. setup'[s] = v
    BY <1>1, <1>2 DEF TypeOK
  <1>9. Remembers(s)'
    <2>1. /\ plan[s].mode = "contract" /\ plan[s].key # NoKey
          /\ \A c \in On(r, plan[s].key) : c.rule = r /\ c.key = plan[s].key /\ c.by # s
      <3>1. {c \in configs : c.by = s} = {}
        BY <1>1, <1>3 DEF Traced, Lives
      <3>2. plan[s].mode = "contract" /\ plan[s].key # NoKey
        BY <1>1, <1>3 DEF InOrder
      <3> QED BY <3>1, <3>2 DEF On
    <2>2. \A q \in v.snapped : \A c \in v.snap[q] : c.rule = q /\ c.key = plan[s].key /\ c.by # s
      BY <1>1, <1>3, <1>4, <1>5, <2>1 DEF Remembers, u, Setup
    <2> QED BY <1>1, <1>2, <1>3, <1>5, <1>8, <2>1, <2>2 DEF Remembers, Awaits, u
  <1>10. Traced(s)'
    BY <1>1, <1>2, <1>3, <1>5, <1>8 DEF Traced, Lives, Unsnapped, Own, br, history, u
  <1> QED BY <1>3, <1>6, <1>7, <1>9, <1>10, Kept DEF Inv

\* A step of provisioning that is not the creation of child conditions.
LEMMA Provisioned ==
    ASSUME BrInv, NEW s \in Scenarios, phase[s] = "provision", phase'[s] \in {"provision", "up"},
           InOrder(s)', plan' = plan, Names(todo'[s]) \subseteq Names(todo[s]) \cup {"lookUp"},
           NEW v \in Setup, setup'[s] = v, v.snapped = setup[s].snapped, v.snap = setup[s].snap,
           v.kids = setup[s].kids, setup[s].conds \subseteq v.conds,
           \A r \in Rules : v.stored[r] # None => v.stored[r].rule = r /\ v.stored[r].key = plan[s].key,
           made'[s] = 0, doomed'[s] = doomed[s], failedUp \subseteq failedUp',
           made[s] = 0 \/ s \in failedUp',
           \A c \in configs' : c.by = s => c \in configs \/ /\ c = Own(s, c.rule) /\ plan[s].key # NoKey
                                                            /\ "snapshot" \notin Names(todo'[s]),
           s \in failedUp' \/
             /\ \A r \in Rules : <<s, r>> \in conditions' => <<s, r>> \in conditions \/ r \in v.conds
             /\ \A n \in 1..Kids : <<s, n>> \in children' => <<s, n>> \in children
    PROVE  Remembers(s)' /\ Traced(s)'
  <1>1. TypeOK /\ InOrder(s) /\ Remembers(s) /\ Traced(s)
    BY DEF BrInv, Inv
  <1>2. Remembers(s)'
    BY <1>1 DEF Remembers
  <1>3. \A c : c = Own(s, c.rule)' <=> c = Own(s, c.rule)
    BY DEF Own
  <1>4. /\ \A c \in Lives(s)'.configs : c = Own(s, c.rule) /\ plan[s].key # NoKey
        /\ "snapshot" \in Names(todo'[s]) => Lives(s)'.configs = {}
    BY <1>1 DEF Traced, Lives
  <1>5. s \notin failedUp' => /\ Lives(s)'.conds \subseteq v.conds
                              /\ \A n \in Lives(s)'.kids : n <= 0 \/ n <= v.kids
    <2> SUFFICES ASSUME s \notin failedUp'
                 PROVE  /\ Lives(s)'.conds \subseteq v.conds
                        /\ \A n \in Lives(s)'.kids : n <= 0 \/ n <= v.kids
      OBVIOUS
    <2>1. s \notin failedUp /\ made[s] = 0
      OBVIOUS
    <2>2. Lives(s)'.conds \subseteq Lives(s).conds \cup v.conds /\ Lives(s)'.kids \subseteq Lives(s).kids
      BY DEF Lives
    <2>3. /\ Lives(s).conds \subseteq setup[s].conds
          /\ \A n \in Lives(s).kids : n <= made[s] \/ n <= setup[s].kids
      BY <1>1, <2>1 DEF Traced
    <2> QED BY <2>1, <2>2, <2>3
  <1>6. Traced(s)'
    BY <1>3, <1>4, <1>5 DEF Traced
  <1> QED BY <1>2, <1>6

LEMMA SnapshotFailsKept ==
    ASSUME BrInv, NEW s \in Scenarios, SnapshotFails(s) PROVE BrInv'
  <1>1. TypeOK /\ InOrder(s) /\ Remembers(s)
    BY DEF BrInv, Inv
  <1>2. /\ UNCHANGED <<configs, conditions, children, setup, made, doomed, forgot, failedUp, failedDown>>
        /\ Awaits("snapshot", s) /\ Advance(s) /\ failures < MaxFailures /\ failures' = failures + 1
    BY DEF SnapshotFails, br, own
  <1>3. /\ InOrder(s)' /\ plan' = plan /\ phase[s] = "provision"
        /\ todo' \in [Scenarios -> Seq(CallSet)] /\ phase' \in [Scenarios -> Phases]
        /\ \A t \in Scenarios \ {s} : todo'[t] = todo[t] /\ phase'[t] = phase[t]
        /\ phase'[s] \in {"provision", "up"} /\ Names(todo'[s]) \subseteq Names(todo[s])
        /\ made[s] = 0
    <2>1. "snapshot" \in RuleCalls /\ "snapshot" \in ProvisionNames \ {"refresh"} /\ forgot' = forgot
      BY <1>2 DEF RuleCalls, ProvisionNames
    <2> QED BY <1>2, <2>1, Called
  <1>4. TypeOK'
    BY <1>1, <1>2, <1>3, BrAssumption DEF TypeOK
  <1>5. OnlyAbout(s)
    BY <1>2, <1>3 DEF OnlyAbout
  <1>6. Remembers(s)' /\ Traced(s)'
    <2>1. setup[s] \in Setup
      BY <1>1 DEF TypeOK
    <2>2. \A r \in Rules : setup[s].stored[r] # None => setup[s].stored[r].rule = r
                                                        /\ setup[s].stored[r].key = plan[s].key
      BY <1>1 DEF Remembers
    <2> QED BY <1>2, <1>3, <2>1, <2>2, Provisioned
  <1> QED BY <1>3, <1>4, <1>5, <1>6, Kept DEF Inv

LEMMA AssignKept ==
    ASSUME BrInv, NEW s \in Scenarios, Assign(s) PROVE BrInv'
  <1>1. TypeOK /\ InOrder(s) /\ Remembers(s)
    BY DEF BrInv, Inv
  <1>2. /\ configs' = configs \cup {Own(s, Arg(s))} /\ Awaits("assign", s)
        /\ UNCHANGED <<conditions, children, forgot, failedUp, failedDown, failures>>
    BY DEF Assign, history
  <1>3. /\ Arg(s) \in Rules /\ "assign" \in Names(todo[s]) /\ todo[s] # <<>>
        /\ Head(todo[s])[1] = "assign" /\ todo[s] \in Seq(CallSet)
    BY <1>1, <1>2, AwaitsCall DEF RuleCalls, TypeOK
  <1>4. phase[s] = "provision" /\ plan[s] \in Plan /\ plan[s].key # NoKey
    BY <1>1, <1>3 DEF InOrder, TypeOK, Phases, CleanupNames
  <1>5. Own(s, Arg(s)) \in Configs
    BY <1>3, <1>4 DEF Own, Configs, Plan
  <1> DEFINE r == Arg(s)
             o == Own(s, r)
  <1>6. o \in Configs /\ o.rule = r /\ o.key = plan[s].key /\ o.by = s /\ r \in Rules
    BY <1>3, <1>5 DEF Own
  <1>7. CASE Records(s, [setup[s] EXCEPT !.stored[r] = o]) /\ Advance(s)
    <2> DEFINE v == [setup[s] EXCEPT !.stored[r] = o]
    <2>1. setup' = [setup EXCEPT ![s] = v] /\ made' = made /\ doomed' = doomed
      BY <1>7 DEF Records
    <2> HIDE DEF r, o
    <2>2. /\ v \in Setup /\ v.snapped = setup[s].snapped /\ v.snap = setup[s].snap
          /\ v.kids = setup[s].kids /\ v.conds = setup[s].conds /\ v.stored[r] = o
          /\ \A q \in Rules \ {r} : v.stored[q] = setup[s].stored[q]
      BY <1>1, <1>6 DEF Setup, TypeOK
    <2> HIDE DEF v
    <2>3. /\ InOrder(s)' /\ plan' = plan
          /\ todo' \in [Scenarios -> Seq(CallSet)] /\ phase' \in [Scenarios -> Phases]
          /\ \A t \in Scenarios \ {s} : todo'[t] = todo[t] /\ phase'[t] = phase[t]
          /\ phase'[s] \in {"provision", "up"} /\ Names(todo'[s]) \subseteq Names(todo[s])
          /\ made[s] = 0 /\ "snapshot" \notin Names(todo'[s])
      BY <1>2, <1>4, <1>7, Called
    <2>4. TypeOK'
      BY <1>1, <1>2, <1>5, <2>1, <2>2, <2>3 DEF TypeOK
    <2>5. OnlyAbout(s)
      <3>1. \A t \in Scenarios \ {s} : setup'[t] = setup[t] /\ Own(s, Arg(s)).by # t
        BY <1>1, <2>1 DEF TypeOK, Own
      <3> QED BY <1>2, <2>1, <2>3, <3>1 DEF OnlyAbout
    <2>6. Remembers(s)' /\ Traced(s)'
      <3>1. setup'[s] = v
        BY <1>1, <2>1 DEF TypeOK
      <3>2. \A q \in Rules : v.stored[q] # None => v.stored[q].rule = q /\ v.stored[q].key = plan[s].key
        BY <1>1, <1>6, <2>2 DEF Remembers
      <3>3. \A c \in configs' : c.by = s => c \in configs \/ (c = Own(s, c.rule) /\ plan[s].key # NoKey)
        BY <1>2, <1>4, <1>6 DEF r, o
      <3> QED BY <1>2, <1>4, <2>1, <2>2, <2>3, <3>1, <3>2, <3>3, Provisioned
    <2> QED BY <2>3, <2>4, <2>5, <2>6, Kept DEF Inv
  <1>8. CASE Continue(s, <<<<"lookUp", r>>>> \o Tail(todo[s])) /\ UNCHANGED own
    <2> DEFINE U == Tail(todo[s])
               h == <<<<"lookUp", r>>>>
               T == h \o U
    <2>1. /\ U \in Seq(CallSet) /\ Names(todo[s]) = {"assign"} \cup Names(U)
          /\ NoneAfter(U, {"snapshot"}, {"assign", "lookUp"}) /\ "snapshot" \notin Names(U)
          /\ NoneAfter(U, {"deleteKid"}, {"deleteCondition"})
          /\ NoneAfter(U, {"children"}, {"children"}) /\ FoundThenDeleted(U)
      BY <1>1, <1>3, TailCalls, TailWithin, TailOrder, TailFound DEF InOrder
    <2>2. <<"lookUp", r>> \in CallSet
      BY <1>6 DEF CallSet, RuleCalls
    <2>3. h \in Seq(CallSet) /\ Names(h) = {"lookUp"} /\ \A these, those : NoneAfter(h, those, these)
      BY <2>2, OneCall
    <2> HIDE DEF U, h
    <2>4. FoundThenDeleted(h)
      BY <2>3, NothingFound
    <2>5. T \in Seq(CallSet) /\ Names(T) = {"lookUp"} \cup Names(U)
      BY <2>1, <2>3, JoinCalls, JoinWithin
    <2>6. NoneAfter(T, {"snapshot"}, {"assign", "lookUp"})
      BY <2>1, <2>3, JoinOrder
    <2>7. NoneAfter(T, {"deleteKid"}, {"deleteCondition"})
      BY <2>1, <2>3, JoinOrder
    <2>8. NoneAfter(T, {"children"}, {"children"})
      BY <2>1, <2>3, JoinOrder
    <2>9. FoundThenDeleted(T)
      <3>1. CASE "deleteConfigs" \in Names(U)
        BY <2>1, <2>3, <2>4, <3>1, JoinFound
      <3> QED BY <2>1, <2>3, <2>4, JoinFound
    <2>10. T # <<>>
      BY <2>5, NoCall
    <2>11. Continue(s, T)
      BY <1>8 DEF T, U, h
    <2> HIDE DEF T
    <2>12. /\ plan' = plan /\ todo' \in [Scenarios -> Seq(CallSet)] /\ phase' \in [Scenarios -> Phases]
           /\ todo'[s] = T /\ phase'[s] = "provision"
           /\ \A t \in Scenarios \ {s} : todo'[t] = todo[t] /\ phase'[t] = phase[t]
      BY <1>1, <1>4, <2>5, <2>10, <2>11, ContinueTo
    <2>13. InOrder(s)'
      <3>1. Names(T) \subseteq Names(todo[s]) \cup {"lookUp"}
        BY <2>1, <2>5
      <3>2. Names(todo[s]) \cap {"assign", "lookUp"} # {} /\ forgot \subseteq forgot'
        BY <1>2, <1>3
      <3> QED BY <1>1, <1>3, <2>5, <2>6, <2>7, <2>8, <2>9, <2>11, <3>1, <3>2, ContinueOrder
    <2>14. setup' = setup /\ made' = made /\ doomed' = doomed
      BY <1>8 DEF own
    <2>15. TypeOK'
      BY <1>1, <1>2, <1>5, <2>12, <2>14 DEF TypeOK
    <2>16. OnlyAbout(s)
      <3>1. \A t \in Scenarios \ {s} : Own(s, Arg(s)).by # t
        BY DEF Own
      <3> QED BY <1>2, <2>12, <2>14, <3>1 DEF OnlyAbout
    <2>17. made[s] = 0
      <3>1. made[s] > 0 => Head(todo[s])[1] = "children"
        BY <1>1 DEF Remembers, Awaits
      <3>2. made[s] \in Nat
        BY <1>1, BrAssumption DEF TypeOK
      <3> QED BY <1>3, <3>1, <3>2
    <2>18. Remembers(s)' /\ Traced(s)'
      <3>1. setup[s] \in Setup
        BY <1>1 DEF TypeOK
      <3>2. \A q \in Rules : setup[s].stored[q] # None => setup[s].stored[q].rule = q
                                                          /\ setup[s].stored[q].key = plan[s].key
        BY <1>1 DEF Remembers
      <3>3. /\ \A c \in configs' : c.by = s => c \in configs \/ (c = Own(s, c.rule) /\ plan[s].key # NoKey)
            /\ "snapshot" \notin Names(todo'[s]) /\ Names(todo'[s]) \subseteq Names(todo[s]) \cup {"lookUp"}
        BY <1>2, <1>4, <1>6, <2>1, <2>5, <2>12 DEF r, o
      <3> QED BY <1>2, <1>4, <2>12, <2>13, <2>14, <2>17, <3>1, <3>2, <3>3, Provisioned
    <2> QED BY <2>13, <2>15, <2>16, <2>18, Kept DEF Inv
  <1> QED BY <1>7, <1>8 DEF Assign

LEMMA LookUpKept ==
    ASSUME BrInv, NEW s \in Scenarios, LookUp(s) PROVE BrInv'
  <1>1. TypeOK /\ InOrder(s) /\ Remembers(s)
    BY DEF BrInv, Inv
  <1> DEFINE r == Arg(s)
             matches == On(r, plan[s].key)
  <1>2. /\ UNCHANGED <<configs, conditions, children, forgot, failedUp, failedDown, failures>>
        /\ Awaits("lookUp", s) /\ Advance(s)
    BY DEF LookUp, br, history
  <1>3. PICK c \in IF matches = {} THEN {None} ELSE matches :
          Records(s, [setup[s] EXCEPT !.stored[r] = c])
    BY DEF LookUp
  <1>4. "lookUp" \in RuleCalls /\ "lookUp" \in ProvisionNames \ {"refresh"} /\ forgot' = forgot
    BY <1>2 DEF RuleCalls, ProvisionNames
  <1> DEFINE v == [setup[s] EXCEPT !.stored[r] = c]
  <1>5. setup' = [setup EXCEPT ![s] = v] /\ made' = made /\ doomed' = doomed
    BY <1>3 DEF Records
  <1> HIDE DEF v
  <1>6. /\ InOrder(s)' /\ plan' = plan /\ phase[s] = "provision"
        /\ todo' \in [Scenarios -> Seq(CallSet)] /\ phase' \in [Scenarios -> Phases]
        /\ \A t \in Scenarios \ {s} : todo'[t] = todo[t] /\ phase'[t] = phase[t]
        /\ phase'[s] \in {"provision", "up"} /\ Names(todo'[s]) \subseteq Names(todo[s])
        /\ made[s] = 0 /\ Arg(s) \in Rules
    BY <1>2, <1>4, Called
  <1>7. c \in Configs \cup {None} /\ (c # None => c.rule = r /\ c.key = plan[s].key)
    BY <1>1, <1>3 DEF On, TypeOK
  <1>8. r \in Rules
    BY <1>6
  <1> HIDE DEF r
  <1>9. /\ v \in Setup /\ v.snapped = setup[s].snapped /\ v.snap = setup[s].snap
        /\ v.kids = setup[s].kids /\ v.conds = setup[s].conds /\ v.stored[r] = c
        /\ \A q \in Rules \ {r} : v.stored[q] = setup[s].stored[q]
    BY <1>1, <1>7, <1>8 DEF Setup, TypeOK, v
  <1>10. TypeOK'
    BY <1>1, <1>2, <1>5, <1>6, <1>9 DEF TypeOK
  <1>11. OnlyAbout(s)
    <2>1. \A t \in Scenarios \ {s} : setup'[t] = setup[t]
      BY <1>1, <1>5 DEF TypeOK
    <2> QED BY <1>2, <1>5, <1>6, <2>1 DEF OnlyAbout
  <1>12. Remembers(s)' /\ Traced(s)'
    <2>1. setup'[s] = v
      BY <1>1, <1>5 DEF TypeOK
    <2>2. \A q \in Rules : v.stored[q] # None => v.stored[q].rule = q /\ v.stored[q].key = plan[s].key
      BY <1>1, <1>7, <1>8, <1>9 DEF Remembers
    <2> QED BY <1>2, <1>5, <1>6, <1>9, <2>1, <2>2, Provisioned
  <1> QED BY <1>6, <1>10, <1>11, <1>12, Kept DEF Inv

LEMMA ConditionKept ==
    ASSUME BrInv, NEW s \in Scenarios, Condition(s) PROVE BrInv'
  <1>1. TypeOK /\ InOrder(s) /\ Remembers(s)
    BY DEF BrInv, Inv
  <1> DEFINE r == Arg(s)
             v == [setup[s] EXCEPT !.conds = @ \cup {r}]
  <1>2. /\ UNCHANGED <<configs, children, forgot, failedUp, failedDown, failures, made, doomed>>
        /\ Awaits("condition", s) /\ Advance(s) /\ setup' = [setup EXCEPT ![s] = v]
        /\ conditions' = conditions \cup {<<s, Arg(s)>>}
    BY DEF Condition, Records, history
  <1> HIDE DEF v
  <1>3. /\ InOrder(s)' /\ plan' = plan /\ phase[s] = "provision"
        /\ todo' \in [Scenarios -> Seq(CallSet)] /\ phase' \in [Scenarios -> Phases]
        /\ \A t \in Scenarios \ {s} : todo'[t] = todo[t] /\ phase'[t] = phase[t]
        /\ phase'[s] \in {"provision", "up"} /\ Names(todo'[s]) \subseteq Names(todo[s])
        /\ made[s] = 0 /\ Arg(s) \in Rules
    <2>1. "condition" \in RuleCalls /\ "condition" \in ProvisionNames \ {"refresh"} /\ forgot' = forgot
      BY <1>2 DEF RuleCalls, ProvisionNames
    <2> QED BY <1>2, <2>1, Called
  <1>4. /\ v \in Setup /\ v.snapped = setup[s].snapped /\ v.snap = setup[s].snap
        /\ v.kids = setup[s].kids /\ v.conds = setup[s].conds \cup {Arg(s)}
        /\ v.stored = setup[s].stored
    <2>1. setup[s] \in Setup /\ {Arg(s)} \subseteq Rules
      BY <1>1, <1>3 DEF TypeOK
    <2> QED BY <2>1 DEF Setup, v
  <1>5. TypeOK'
    <2>1. setup' \in [Scenarios -> Setup]
      BY <1>1, <1>2, <1>4 DEF TypeOK
    <2>2. conditions' \subseteq Scenarios \X Rules
      BY <1>1, <1>2, <1>3 DEF TypeOK
    <2> QED BY <1>1, <1>2, <1>3, <2>1, <2>2 DEF TypeOK
  <1>6. OnlyAbout(s)
    <2>1. \A t \in Scenarios \ {s} : setup'[t] = setup[t]
      BY <1>1, <1>2 DEF TypeOK
    <2>2. \A t \in Scenarios \ {s}, q \in Rules : <<t, q>> \in conditions' => <<t, q>> \in conditions
      BY <1>2
    <2> QED BY <1>2, <1>3, <2>1, <2>2 DEF OnlyAbout
  <1>7. Remembers(s)' /\ Traced(s)'
    <2>1. setup'[s] = v
      BY <1>1, <1>2 DEF TypeOK
    <2>2. \A q \in Rules : v.stored[q] # None => v.stored[q].rule = q /\ v.stored[q].key = plan[s].key
      BY <1>1, <1>4 DEF Remembers
    <2>3. \A q \in Rules : <<s, q>> \in conditions' => <<s, q>> \in conditions \/ q \in v.conds
      BY <1>2, <1>4
    <2> QED BY <1>2, <1>3, <1>4, <2>1, <2>2, <2>3, Provisioned
  <1> QED BY <1>3, <1>5, <1>6, <1>7, Kept DEF Inv

LEMMA NoParentKept ==
    ASSUME BrInv, NEW s \in Scenarios, NoParent(s) PROVE BrInv'
  <1>1. TypeOK /\ InOrder(s) /\ Remembers(s)
    BY DEF BrInv, Inv
  <1> DEFINE v == [setup[s] EXCEPT !.errors = TRUE]
  <1>2. /\ UNCHANGED <<configs, conditions, children, forgot, failedUp, failedDown, failures, made, doomed>>
        /\ Awaits("children", s) /\ Advance(s) /\ setup' = [setup EXCEPT ![s] = v]
        /\ "dynamic" \notin setup[s].conds
    BY DEF NoParent, Records, history, br
  <1> HIDE DEF v
  <1>3. /\ InOrder(s)' /\ plan' = plan /\ phase[s] = "provision"
        /\ todo' \in [Scenarios -> Seq(CallSet)] /\ phase' \in [Scenarios -> Phases]
        /\ \A t \in Scenarios \ {s} : todo'[t] = todo[t] /\ phase'[t] = phase[t]
        /\ phase'[s] \in {"provision", "up"} /\ Names(todo'[s]) \subseteq Names(todo[s])
    <2>1. "children" \in RuleCalls /\ "children" \in ProvisionNames \ {"refresh"} /\ forgot' = forgot
      BY <1>2 DEF RuleCalls, ProvisionNames
    <2> QED BY <1>2, <2>1, Called
  <1>4. made[s] = 0
    BY <1>1, <1>2, BrAssumption DEF Remembers, TypeOK
  <1>5. /\ v \in Setup /\ v.snapped = setup[s].snapped /\ v.snap = setup[s].snap
        /\ v.kids = setup[s].kids /\ v.conds = setup[s].conds /\ v.stored = setup[s].stored
    BY <1>1 DEF Setup, TypeOK, v
  <1>6. TypeOK'
    BY <1>1, <1>2, <1>3, <1>5 DEF TypeOK
  <1>7. OnlyAbout(s)
    <2>1. \A t \in Scenarios \ {s} : setup'[t] = setup[t]
      BY <1>1, <1>2 DEF TypeOK
    <2> QED BY <1>2, <1>3, <2>1 DEF OnlyAbout
  <1>8. Remembers(s)' /\ Traced(s)'
    <2>1. setup'[s] = v
      BY <1>1, <1>2 DEF TypeOK
    <2>2. \A q \in Rules : v.stored[q] # None => v.stored[q].rule = q /\ v.stored[q].key = plan[s].key
      BY <1>1, <1>5 DEF Remembers
    <2> QED BY <1>2, <1>3, <1>4, <1>5, <2>1, <2>2, Provisioned
  <1> QED BY <1>3, <1>6, <1>7, <1>8, Kept DEF Inv

LEMMA ProvisioningFailsKept ==
    ASSUME BrInv, NEW s \in Scenarios, ProvisioningFails(s) PROVE BrInv'
  <1>1. TypeOK /\ InOrder(s) /\ Remembers(s)
    BY DEF BrInv, Inv
  <1>2. PICK call \in {"assign", "lookUp", "condition", "children", "refresh"} : Awaits(call, s)
    BY DEF ProvisioningFails
  <1> DEFINE v == [setup[s] EXCEPT !.errors = TRUE]
  <1>3. /\ UNCHANGED <<doomed, forgot, failedDown>> /\ phase[s] = "provision" /\ Advance(s)
        /\ setup' = [setup EXCEPT ![s] = v] /\ made' = [made EXCEPT ![s] = 0]
        /\ failures < MaxFailures /\ failures' = failures + 1 /\ failedUp' = failedUp \cup {s}
    BY DEF ProvisioningFails, WithError
  <1>4. \/ UNCHANGED br
        \/ Awaits("assign", s) /\ configs' = configs \cup {Own(s, Arg(s))} /\ UNCHANGED <<conditions, children>>
        \/ Awaits("condition", s) /\ conditions' = conditions \cup {<<s, Arg(s)>>} /\ UNCHANGED <<configs, children>>
        \/ Awaits("children", s) /\ children' = children \cup {<<s, made[s] + 1>>} /\ UNCHANGED <<configs, conditions>>
    BY DEF ProvisioningFails
  <1> HIDE DEF v
  <1>5. /\ InOrder(s)' /\ plan' = plan /\ plan[s] \in Plan
        /\ todo' \in [Scenarios -> Seq(CallSet)] /\ phase' \in [Scenarios -> Phases]
        /\ \A t \in Scenarios \ {s} : todo'[t] = todo[t] /\ phase'[t] = phase[t]
        /\ phase'[s] \in {"provision", "up"} /\ Names(todo'[s]) \subseteq Names(todo[s])
        /\ call = "assign" => "snapshot" \notin Names(todo'[s])
        /\ call \in RuleCalls => Arg(s) \in Rules
        /\ call \in Names(todo[s])
    BY <1>2, <1>3, Called
  <1>6. /\ v \in Setup /\ v.snapped = setup[s].snapped /\ v.snap = setup[s].snap
        /\ v.kids = setup[s].kids /\ v.conds = setup[s].conds /\ v.stored = setup[s].stored
    BY <1>1 DEF Setup, TypeOK, v
  <1>7. /\ configs' \subseteq Configs
        /\ \A c \in configs' : c \in configs \/ /\ c = Own(s, c.rule) /\ plan[s].key # NoKey /\ c.by = s
                                                /\ "snapshot" \notin Names(todo'[s])
    <2>1. CASE configs' = configs
      BY <1>1, <2>1 DEF TypeOK
    <2>2. CASE Awaits("assign", s) /\ configs' = configs \cup {Own(s, Arg(s))}
      <3>1. call = "assign"
        BY <1>2, <2>2 DEF Awaits
      <3>2. Arg(s) \in Rules /\ "snapshot" \notin Names(todo'[s]) /\ plan[s].key # NoKey
        BY <1>1, <1>5, <3>1 DEF RuleCalls, InOrder
      <3>3. Own(s, Arg(s)) \in Configs /\ Own(s, Arg(s)).rule = Arg(s) /\ Own(s, Arg(s)).by = s
        BY <1>5, <3>2 DEF Own, Configs, Plan
      <3> QED BY <1>1, <2>2, <3>2, <3>3 DEF TypeOK
    <2> QED BY <1>4, <2>1, <2>2 DEF br
  <1>8. /\ conditions' \subseteq Scenarios \X Rules
        /\ \A t \in Scenarios \ {s}, q \in Rules : <<t, q>> \in conditions' => <<t, q>> \in conditions
    <2>1. CASE conditions' = conditions
      BY <1>1, <2>1 DEF TypeOK
    <2>2. CASE Awaits("condition", s) /\ conditions' = conditions \cup {<<s, Arg(s)>>}
      <3>1. Arg(s) \in Rules
        BY <1>1, <2>2, AwaitsCall DEF RuleCalls
      <3> QED BY <1>1, <2>2, <3>1 DEF TypeOK
    <2> QED BY <1>4, <2>1, <2>2 DEF br
  <1>9. /\ children' \subseteq Scenarios \X (1..Kids)
        /\ \A t \in Scenarios \ {s}, n \in 1..Kids : <<t, n>> \in children' => <<t, n>> \in children
    <2>1. CASE children' = children
      BY <1>1, <2>1 DEF TypeOK
    <2>2. CASE Awaits("children", s) /\ children' = children \cup {<<s, made[s] + 1>>}
      <3>0. "children" \in Names(todo[s])
        BY <1>1, <2>2, AwaitsCall
      <3>1. Kids > 0 /\ made[s] \in Nat /\ Kids \in Nat
        BY <1>1, <3>0, BrAssumption DEF TypeOK, InOrder
      <3>2. made[s] + 1 \in 1..Kids
        BY <1>1, <3>1 DEF Remembers
      <3> QED BY <1>1, <2>2, <3>2 DEF TypeOK
    <2> QED BY <1>4, <2>1, <2>2 DEF br
  <1>10. TypeOK'
    <2>1. setup' \in [Scenarios -> Setup] /\ made' \in [Scenarios -> 0..Kids]
      BY <1>1, <1>3, <1>6, BrAssumption DEF TypeOK
    <2>2. failures' \in 0..MaxFailures /\ failedUp' \subseteq Scenarios
      BY <1>1, <1>3, BrAssumption DEF TypeOK
    <2> QED BY <1>1, <1>3, <1>5, <1>7, <1>8, <1>9, <2>1, <2>2 DEF TypeOK
  <1>11. OnlyAbout(s)
    <2>1. \A t \in Scenarios \ {s} : setup'[t] = setup[t] /\ made'[t] = made[t]
      BY <1>1, <1>3 DEF TypeOK
    <2>2. \A t \in Scenarios \ {s} : \A c \in configs' : c.by = t => c \in configs
      BY <1>7
    <2> QED BY <1>3, <1>5, <1>8, <1>9, <2>1, <2>2 DEF OnlyAbout
  <1>12. Remembers(s)' /\ Traced(s)'
    <2>1. setup'[s] = v /\ made'[s] = 0 /\ s \in failedUp' /\ doomed'[s] = doomed[s]
      BY <1>1, <1>3 DEF TypeOK
    <2>2. \A q \in Rules : v.stored[q] # None => v.stored[q].rule = q /\ v.stored[q].key = plan[s].key
      BY <1>1, <1>6 DEF Remembers
    <2> QED BY <1>3, <1>5, <1>6, <1>7, <2>1, <2>2, Provisioned
  <1> QED BY <1>5, <1>10, <1>11, <1>12, Kept DEF Inv

LEMMA ChildKept ==
    ASSUME BrInv, NEW s \in Scenarios, Child(s) PROVE BrInv'
  <1>1. TypeOK /\ InOrder(s) /\ Remembers(s) /\ Traced(s)
    BY DEF BrInv, Inv
  <1> DEFINE n == made[s] + 1
             v == [setup[s] EXCEPT !.kids = n]
  <1>2. /\ UNCHANGED <<configs, conditions, forgot, failedUp, failedDown, failures, doomed>>
        /\ Awaits("children", s) /\ "dynamic" \in setup[s].conds
        /\ children' = children \cup {<<s, n>>}
    BY DEF Child, history
  <1>3. /\ IF n < Kids THEN made' = [made EXCEPT ![s] = n] /\ UNCHANGED <<progress, setup>>
           ELSE /\ setup' = [setup EXCEPT ![s] = v] /\ made' = [made EXCEPT ![s] = 0] /\ Advance(s)
    BY DEF Child
  <1>4. "children" \in Names(todo[s]) /\ todo[s] # <<>>
    BY <1>1, <1>2, AwaitsCall
  <1>5. Kids > 0 /\ made[s] \in Nat /\ Kids \in Nat /\ plan[s].mode = "full"
    BY <1>1, <1>4, BrAssumption DEF TypeOK, InOrder
  <1>6. n \in 1..Kids /\ n \in Nat
    BY <1>1, <1>5 DEF Remembers
  <1>7. setup[s].kids = 0
    BY <1>1, <1>4, BrAssumption DEF Remembers, TypeOK, Setup
  <1>8. phase[s] = "provision" /\ phase[s] # "new"
    BY <1>1, <1>4 DEF InOrder, TypeOK, Phases, CleanupNames
  <1> HIDE DEF n, v
  <1>9. children' \subseteq Scenarios \X (1..Kids)
    BY <1>1, <1>2, <1>6 DEF TypeOK
  <1>10. \A t \in Scenarios \ {s} : \A k \in 1..Kids : <<t, k>> \in children' => <<t, k>> \in children
    BY <1>2
  <1>11. /\ Lives(s)'.conds = Lives(s).conds /\ Lives(s)'.configs = Lives(s).configs
         /\ \A k \in Lives(s)'.kids : k \in Lives(s).kids \/ k = n
    BY <1>2 DEF Lives
  <1>12. s \notin failedUp => /\ Lives(s).conds \subseteq setup[s].conds
                              /\ \A k \in Lives(s).kids : k <= made[s] \/ k <= 0
    BY <1>1, <1>7, <1>8 DEF Traced
  <1>13. \A k \in Lives(s)'.kids : k \in Nat /\ k > 0
    BY <1>5 DEF Lives
  <1>14. CASE n < Kids
    <2>1. made' = [made EXCEPT ![s] = n] /\ UNCHANGED <<plan, phase, todo, setup>>
      BY <1>3, <1>14 DEF progress
    <2>2. TypeOK'
      BY <1>1, <1>2, <1>6, <1>9, <1>14, <2>1, <1>5 DEF TypeOK
    <2>3. OnlyAbout(s)
      <3>1. \A t \in Scenarios \ {s} : made'[t] = made[t]
        BY <1>1, <2>1 DEF TypeOK
      <3> QED BY <1>2, <1>10, <2>1, <3>1 DEF OnlyAbout
    <2>4. made'[s] = n
      BY <1>1, <2>1 DEF TypeOK
    <2>5. InOrder(s)' /\ Remembers(s)'
      BY <1>1, <1>2, <1>14, <2>1, <2>4 DEF InOrder, Remembers, Awaits
    <2>6. s \notin failedUp => \A k \in Lives(s)'.kids : k <= n \/ k <= 0
      BY <1>5, <1>6, <1>11, <1>12, <1>13 DEF n
    <2>7. Traced(s)'
      BY <1>1, <1>2, <1>7, <1>8, <1>11, <1>12, <2>1, <2>4, <2>6 DEF Traced, Own, Unsnapped
    <2> QED BY <2>2, <2>3, <2>5, <2>7, Kept DEF Inv
  <1>15. CASE ~(n < Kids)
    <2>1. setup' = [setup EXCEPT ![s] = v] /\ made' = [made EXCEPT ![s] = 0] /\ Advance(s)
      BY <1>3, <1>15
    <2>2. n = Kids
      BY <1>5, <1>6, <1>15
    <2>3. /\ InOrder(s)' /\ plan' = plan
          /\ todo' \in [Scenarios -> Seq(CallSet)] /\ phase' \in [Scenarios -> Phases]
          /\ \A t \in Scenarios \ {s} : todo'[t] = todo[t] /\ phase'[t] = phase[t]
          /\ phase'[s] \in {"provision", "up"} /\ Names(todo'[s]) \subseteq Names(todo[s])
          /\ "children" \notin Names(todo'[s])
      <3>1. "children" \in RuleCalls /\ "children" \in ProvisionNames \ {"refresh"} /\ forgot' = forgot
        BY <1>2 DEF RuleCalls, ProvisionNames
      <3> QED BY <1>2, <1>8, <2>1, <3>1, Called
    <2>4. /\ v \in Setup /\ v.snapped = setup[s].snapped /\ v.snap = setup[s].snap
          /\ v.kids = n /\ v.conds = setup[s].conds /\ v.stored = setup[s].stored
      <3>1. setup[s] \in Setup /\ n \in 0..Kids
        BY <1>1, <1>5, <1>6 DEF TypeOK
      <3> QED BY <3>1 DEF Setup, v
    <2>5. TypeOK'
      <3>1. setup' \in [Scenarios -> Setup] /\ made' \in [Scenarios -> 0..Kids]
        BY <1>1, <1>5, <2>1, <2>4 DEF TypeOK
      <3> QED BY <1>1, <1>2, <1>9, <2>3, <3>1 DEF TypeOK
    <2>6. OnlyAbout(s)
      <3>1. \A t \in Scenarios \ {s} : made'[t] = made[t] /\ setup'[t] = setup[t]
        BY <1>1, <2>1 DEF TypeOK
      <3> QED BY <1>2, <1>10, <2>3, <3>1 DEF OnlyAbout
    <2>7. setup'[s] = v /\ made'[s] = 0
      BY <1>1, <2>1 DEF TypeOK
    <2>8. Remembers(s)'
      BY <1>1, <1>2, <1>5, <1>8, <2>3, <2>4, <2>7 DEF Remembers
    <2>9. s \notin failedUp => \A k \in Lives(s)'.kids : k <= v.kids
      <3> SUFFICES ASSUME s \notin failedUp, NEW k \in Lives(s)'.kids PROVE k <= v.kids
        OBVIOUS
      <3>1. k \in Nat /\ k > 0 /\ (k <= made[s] \/ k <= 0 \/ k = n)
        BY <1>11, <1>12, <1>13
      <3> QED BY <1>5, <2>4, <3>1 DEF n
    <2>10. Traced(s)'
      <3>1. /\ phase'[s] # "new" /\ phase'[s] \notin {"cleanup", "gone"}
            /\ "snapshot" \in Names(todo'[s]) => Lives(s)'.configs = {}
            /\ \A c \in Lives(s)'.configs : c = Own(s, c.rule) /\ plan[s].key # NoKey
        BY <1>1, <1>11, <2>3 DEF Traced
      <3>2. \A c : c = Own(s, c.rule)' <=> c = Own(s, c.rule)
        BY <2>3 DEF Own
      <3>3. s \notin failedUp => Lives(s)'.conds \subseteq v.conds
        BY <1>11, <1>12, <2>4
      <3> QED BY <1>2, <2>3, <2>7, <2>9, <3>1, <3>2, <3>3 DEF Traced
    <2> QED BY <2>3, <2>5, <2>6, <2>8, <2>10, Kept DEF Inv
  <1> QED BY <1>14, <1>15

LEMMA ProvisionKept ==
    ASSUME BrInv, NEW s \in Scenarios, Provision(s) PROVE BrInv'
  <1>1. TypeOK /\ InOrder(s) /\ Remembers(s) /\ Traced(s)
    BY DEF BrInv, Inv
  <1>2. /\ UNCHANGED <<configs, conditions, children, plan, made, doomed, forgot, failedUp,
                       failedDown, failures>>
        /\ phase[s] = "new" /\ plan[s] # None
    BY DEF Provision, br, history
  <1>3. PICK known \in {"all", "some", "none"} :
          /\ setup' = [setup EXCEPT ![s].errors = known # "all"]
          /\ todo' = [todo EXCEPT ![s] = IF known = "none" THEN <<>> ELSE ProvisionCalls(plan[s])]
          /\ phase' = [phase EXCEPT ![s] = IF known = "none" THEN "up" ELSE "provision"]
    BY DEF Provision
  <1> DEFINE v == [setup[s] EXCEPT !.errors = known # "all"]
             T == IF known = "none" THEN <<>> ELSE ProvisionCalls(plan[s])
  <1>4. /\ T \in Seq(CallSet) /\ Names(T) \subseteq ProvisionNames
        /\ NoneAfter(T, {"snapshot"}, {"assign", "lookUp"})
        /\ NoneAfter(T, {"deleteKid"}, {"deleteCondition"})
        /\ NoneAfter(T, {"children"}, {"children"})
        /\ FoundThenDeleted(T)
        /\ Names(T) \cap {"snapshot", "assign", "lookUp"} # {} => plan[s].key # NoKey
        /\ "snapshot" \in Names(T) => plan[s].mode = "contract"
        /\ "children" \in Names(T) => plan[s].mode = "full" /\ Kids > 0
        /\ known = "none" => T = <<>>
    <2>1. CASE known = "none"
      BY <2>1, NoCall, NoneOf, NothingFound
    <2>2. CASE known # "none"
      BY <2>2, ProvisionOrder
    <2> QED BY <2>1, <2>2
  <1>5. /\ v \in Setup /\ v.snapped = {} /\ v.kids = 0 /\ v.conds = {} /\ \A r \in Rules : v.stored[r] = None
    <2>1. setup[s] = NoSetup /\ setup[s] \in Setup
      BY <1>1, <1>2 DEF Remembers, TypeOK
    <2>2. NoSetup.snapped = {} /\ NoSetup.kids = 0 /\ NoSetup.conds = {} /\ \A r \in Rules : NoSetup.stored[r] = None
      BY DEF NoSetup
    <2> QED BY <2>1, <2>2 DEF Setup
  <1>6. /\ setup' = [setup EXCEPT ![s] = v] /\ todo' = [todo EXCEPT ![s] = T]
    BY <1>3
  <1> HIDE DEF v, T
  <1>7. /\ setup'[s] = v /\ todo'[s] = T /\ phase'[s] = IF known = "none" THEN "up" ELSE "provision"
        /\ \A t \in Scenarios \ {s} : setup'[t] = setup[t] /\ todo'[t] = todo[t] /\ phase'[t] = phase[t]
    BY <1>1, <1>3, <1>6 DEF TypeOK
  <1>8. TypeOK'
    <2>1. phase' \in [Scenarios -> Phases]
      BY <1>1, <1>3 DEF TypeOK, Phases
    <2>2. setup' \in [Scenarios -> Setup] /\ todo' \in [Scenarios -> Seq(CallSet)]
      BY <1>1, <1>4, <1>5, <1>6 DEF TypeOK
    <2> QED BY <1>1, <1>2, <2>1, <2>2 DEF TypeOK
  <1>9. OnlyAbout(s)
    BY <1>2, <1>7 DEF OnlyAbout
  <1>10. InOrder(s)'
    <2>1. "sweep" \notin Names(T) /\ "diff" \notin Names(T)
      BY <1>4 DEF ProvisionNames
    <2>2. plan[s].mode = "full" => plan[s].key = s
      BY <1>1, <1>2 DEF InOrder
    <2> QED BY <1>2, <1>4, <1>7, <2>1, <2>2 DEF InOrder
  <1>11. made[s] = 0
    <2>1. ~(made[s] > 0)
      BY <1>1, <1>2 DEF Remembers, InOrder, Awaits
    <2> QED BY <1>1, <2>1, BrAssumption DEF TypeOK
  <1>12. Remembers(s)'
    BY <1>1, <1>2, <1>5, <1>7, <1>11 DEF Remembers
  <1>13. Traced(s)'
    <2>1. Lives(s)'.conds = {} /\ Lives(s)'.kids = {} /\ Lives(s)'.configs = {}
      BY <1>1, <1>2 DEF Traced, Lives
    <2> QED BY <1>2, <1>7, <2>1 DEF Traced
  <1> QED BY <1>8, <1>9, <1>10, <1>12, <1>13, Kept DEF Inv

LEMMA ForgetKept ==
    ASSUME BrInv, NEW s \in Scenarios, Forget(s) PROVE BrInv'
  <1>1. TypeOK /\ InOrder(s) /\ Remembers(s) /\ Traced(s)
    BY DEF BrInv, Inv
  <1>2. /\ UNCHANGED <<configs, conditions, children, plan, phase, todo, setup, made, doomed,
                       failedUp, failedDown, failures>>
        /\ forgot' = forgot \cup {s}
    BY DEF Forget, br, progress, own
  <1>3. TypeOK' /\ OnlyAbout(s)
    BY <1>1, <1>2 DEF TypeOK, OnlyAbout
  <1>4. Inv(s)'
    BY <1>1, <1>2 DEF Inv, InOrder, Remembers, Traced, Lives, Own, Unsnapped, Awaits
  <1> QED BY <1>3, <1>4, Kept

LEMMA CleanupKept ==
    ASSUME BrInv, NEW s \in Scenarios, Cleanup(s) PROVE BrInv'
  <1>1. TypeOK /\ InOrder(s) /\ Remembers(s) /\ Traced(s)
    BY DEF BrInv, Inv
  <1>2. /\ UNCHANGED <<configs, conditions, children, plan, setup, made, doomed, forgot, failedUp,
                       failedDown, failures>>
        /\ phase[s] = "up" /\ phase' = [phase EXCEPT ![s] = "cleanup"]
        /\ todo' = [todo EXCEPT ![s] = CleanupCalls(s)]
    BY DEF Cleanup, br, own, history
  <1> DEFINE T == CleanupCalls(s)
  <1>3. /\ plan[s] \in Plan /\ setup[s] \in Setup /\ (plan[s].mode = "full" => plan[s].key = s)
        /\ setup[s].kids > 0 => plan[s].mode = "full"
    BY <1>1, <1>2 DEF TypeOK, InOrder, Remembers
  <1>4. /\ Cleans(s, T) /\ T # <<>>
        /\ "sweep" \in Names(T) => plan[s].mode = "full" \/ s \in forgot
        /\ "diff" \in Names(T) => plan[s].mode = "contract"
        /\ \A n \in 1..Kids : n <= setup[s].kids => <<"deleteKid", n>> \in Within(T)
        /\ \A r \in Rules :
             \/ plan[s].mode = "contract" /\ plan[s].key = NoKey
             \/ plan[s].mode = "contract" /\ <<"diff", r>> \in Within(T)
             \/ plan[s].mode = "full" /\ <<"sweep", r>> \in Within(T)
    BY <1>3, CleanupOrder
  <1> HIDE DEF T
  <1>5. T \in Seq(CallSet) /\ todo' = [todo EXCEPT ![s] = T]
    BY <1>2, <1>4 DEF Cleans, T
  <1>6. /\ todo'[s] = T /\ phase'[s] = "cleanup"
        /\ \A t \in Scenarios \ {s} : todo'[t] = todo[t] /\ phase'[t] = phase[t]
    BY <1>1, <1>2, <1>5 DEF TypeOK
  <1>7. TypeOK'
    <2>1. phase' \in [Scenarios -> Phases] /\ todo' \in [Scenarios -> Seq(CallSet)]
      BY <1>1, <1>2, <1>5 DEF TypeOK, Phases
    <2> QED BY <1>1, <1>2, <2>1 DEF TypeOK
  <1>8. OnlyAbout(s)
    BY <1>2, <1>6 DEF OnlyAbout
  <1>9. InOrder(s)'
    <2>1. Names(T) \subseteq CleanupNames /\ NoneAfter(T, {"deleteKid"}, {"deleteCondition"})
          /\ FoundThenDeleted(T)
      BY <1>4 DEF Cleans
    <2>2. Names(T) \cap {"snapshot", "assign", "lookUp", "children"} = {}
      BY <2>1 DEF CleanupNames
    <2>3. /\ Names(T) \cap {"snapshot", "assign", "lookUp"} = {} /\ Names(T) \cap {"snapshot"} = {}
          /\ Names(T) \cap {"children"} = {}
      BY <2>2
    <2>4. NoneAfter(T, {"snapshot"}, {"assign", "lookUp"}) /\ NoneAfter(T, {"children"}, {"children"})
      BY <2>3, NoneOf
    <2>5. plan[s] # None
      BY <1>1, <1>2 DEF InOrder
    <2> QED BY <1>2, <1>3, <1>4, <1>6, <2>1, <2>3, <2>4, <2>5 DEF InOrder
  <1>10. made[s] = 0
    <2>1. ~(made[s] > 0)
      BY <1>1, <1>2 DEF Remembers, InOrder, Awaits
    <2> QED BY <1>1, <2>1, BrAssumption DEF TypeOK
  <1>11. Remembers(s)'
    <2>1. "children" \notin Names(T)
      BY <1>4 DEF Cleans, CleanupNames
    <2> QED BY <1>1, <1>2, <1>6, <1>10, <2>1 DEF Remembers
  <1>12. Traced(s)'
    <2>1. Lives(s)' = Lives(s)
      BY <1>2 DEF Lives
    <2>2. "snapshot" \notin Names(T)
      BY <1>4 DEF Cleans, CleanupNames
    <2>3. doomed[s] = {}
      BY <1>1, <1>2 DEF Remembers
    <2>4. s \notin failedUp => /\ \A r \in Lives(s).conds : <<"deleteCondition", r>> \in Within(T)
                               /\ \A n \in Lives(s).kids : <<"deleteKid", n>> \in Within(T)
      <3> SUFFICES ASSUME s \notin failedUp
                   PROVE  /\ \A r \in Lives(s).conds : <<"deleteCondition", r>> \in Within(T)
                          /\ \A n \in Lives(s).kids : <<"deleteKid", n>> \in Within(T)
        OBVIOUS
      <3>1. /\ Lives(s).conds \subseteq setup[s].conds
            /\ \A n \in Lives(s).kids : n <= 0 \/ n <= setup[s].kids
        BY <1>1, <1>2, <1>10 DEF Traced
      <3>2. \A n \in Lives(s).kids : n \in 1..Kids /\ n > 0
        BY BrAssumption DEF Lives
      <3>3. \A n \in Lives(s).kids : n <= setup[s].kids
        BY <3>1, <3>2, BrAssumption
      <3> QED BY <1>4, <3>1, <3>2, <3>3 DEF Cleans
    <2>5. \A c \in Lives(s).configs :
             Unsnapped(s, c.rule) \/ <<"diff", c.rule>> \in Within(T) \/ <<"sweep", c.rule>> \in Within(T)
      <3> TAKE c \in Lives(s).configs
      <3>1. plan[s].key # NoKey /\ c.rule \in Rules
        BY <1>1 DEF Traced, Lives, TypeOK, Configs
      <3> QED BY <1>4, <3>1
    <2> QED BY <1>1, <1>2, <1>6, <2>1, <2>2, <2>3, <2>4, <2>5 DEF Traced, Own, Unsnapped
  <1> QED BY <1>7, <1>8, <1>9, <1>11, <1>12, Kept DEF Inv

\* A step of a cleanup.
LEMMA Cleaned ==
    ASSUME BrInv, NEW s \in Scenarios, phase[s] = "cleanup", phase'[s] \in {"cleanup", "gone"},
           InOrder(s)', plan' = plan, Names(todo'[s]) \subseteq Names(todo[s]),
           setup' = setup, made' = made, forgot' = forgot, failedUp' = failedUp, made[s] = 0,
           failedDown \subseteq failedDown', configs' \subseteq configs,
           conditions' \subseteq conditions, children' \subseteq children,
           s \notin failedDown' =>
             /\ doomed'[s] # {} => "deleteConfigs" \in Names(todo'[s])
             /\ \A r \in Rules : <<s, r>> \in conditions' /\ <<"deleteCondition", r>> \in Within(todo[s])
                                 /\ s \notin failedUp => <<"deleteCondition", r>> \in Within(todo'[s])
             /\ \A n \in 1..Kids : <<s, n>> \in children' /\ <<"deleteKid", n>> \in Within(todo[s])
                                 => <<"deleteKid", n>> \in Within(todo'[s])
             /\ \A c \in configs' : c \in doomed[s] => c \in doomed'[s]
             /\ \A r \in Rules : <<"diff", r>> \in Within(todo[s]) =>
                  \/ <<"diff", r>> \in Within(todo'[s])
                  \/ Own(s, r) \in configs' => Unsnapped(s, r) \/ Own(s, r) \in doomed'[s]
             /\ \A r \in Rules : <<"sweep", r>> \in Within(todo[s]) =>
                  \/ <<"sweep", r>> \in Within(todo'[s])
                  \/ Own(s, r) \in configs' => Own(s, r) \in doomed'[s]
    PROVE  Remembers(s)' /\ Traced(s)'
  <1>1. TypeOK /\ InOrder(s) /\ Remembers(s) /\ Traced(s)
    BY DEF BrInv, Inv
  <1>2. Remembers(s)'
    BY <1>1 DEF Remembers
  <1>3. /\ Lives(s)'.conds \subseteq Lives(s).conds /\ Lives(s)'.kids \subseteq Lives(s).kids
        /\ Lives(s)'.configs \subseteq Lives(s).configs
    BY DEF Lives
  <1>4. \A c : c = Own(s, c.rule)' <=> c = Own(s, c.rule)
    BY DEF Own
  <1>5. ASSUME s \notin failedDown', NEW c \in Lives(s)'.configs
        PROVE  \/ Unsnapped(s, c.rule) \/ c \in doomed'[s]
               \/ <<"diff", c.rule>> \in Within(todo'[s]) \/ <<"sweep", c.rule>> \in Within(todo'[s])
    <2>1. c \in configs' /\ c \in Lives(s).configs /\ c = Own(s, c.rule) /\ c.rule \in Rules
      BY <1>1, <1>3, <1>5 DEF Traced, Lives, TypeOK, Configs
    <2>2. \/ Unsnapped(s, c.rule) \/ c \in doomed[s]
          \/ <<"diff", c.rule>> \in Within(todo[s]) \/ <<"sweep", c.rule>> \in Within(todo[s])
      BY <1>1, <1>5, <2>1 DEF Traced
    <2> QED BY <1>5, <2>1, <2>2
  <1>6. ASSUME s \notin failedDown', s \notin failedUp
        PROVE  /\ \A r \in Lives(s)'.conds : <<"deleteCondition", r>> \in Within(todo'[s])
               /\ \A n \in Lives(s)'.kids : <<"deleteKid", n>> \in Within(todo'[s])
    <2>1. /\ \A r \in Lives(s).conds : <<"deleteCondition", r>> \in Within(todo[s])
          /\ \A n \in Lives(s).kids : <<"deleteKid", n>> \in Within(todo[s])
      BY <1>1, <1>6 DEF Traced
    <2>2. /\ \A r \in Lives(s)'.conds : r \in Rules /\ <<s, r>> \in conditions' /\ r \in Lives(s).conds
          /\ \A n \in Lives(s)'.kids : n \in 1..Kids /\ <<s, n>> \in children' /\ n \in Lives(s).kids
      BY <1>3 DEF Lives
    <2> QED BY <1>6, <2>1, <2>2
  <1>7. \A r : Unsnapped(s, r)' <=> Unsnapped(s, r)
    BY DEF Unsnapped
  <1>8. Traced(s)'
    <2>1. /\ phase'[s] # "new" /\ phase'[s] \notin {"provision", "up"}
          /\ "snapshot" \in Names(todo'[s]) => Lives(s)'.configs = {}
          /\ \A c \in Lives(s)'.configs : c = Own(s, c.rule) /\ plan[s].key # NoKey
      BY <1>1, <1>3 DEF Traced
    <2> QED BY <1>4, <1>5, <1>6, <1>7, <2>1 DEF Traced
  <1> QED BY <1>2, <1>8

\* A call of a cleanup, and the next one.
LEMMA CleanupCalled ==
    ASSUME BrInv, NEW s \in Scenarios, NEW call, Awaits(call, s), Advance(s),
           phase[s] = "cleanup" \/ call \in CleanupNames \ {"refresh"}, forgot' = forgot
    PROVE  /\ InOrder(s)' /\ plan' = plan /\ phase[s] = "cleanup"
           /\ todo' \in [Scenarios -> Seq(CallSet)] /\ phase' \in [Scenarios -> Phases]
           /\ \A t \in Scenarios \ {s} : todo'[t] = todo[t] /\ phase'[t] = phase[t]
           /\ phase'[s] \in {"cleanup", "gone"} /\ Names(todo'[s]) \subseteq Names(todo[s])
           /\ Within(todo[s]) = {<<call, Arg(s)>>} \cup Within(todo'[s])
           /\ Names(todo[s]) = {call} \cup Names(todo'[s])
           /\ call \in RuleCalls => Arg(s) \in Rules
           /\ call = "deleteCondition" => "deleteKid" \notin Names(todo'[s])
           /\ call \in {"diff", "sweep"} => "deleteConfigs" \in Names(todo'[s])
           /\ made[s] = 0
  <1>1. forgot \subseteq forgot'
    OBVIOUS
  <1>2. /\ phase[s] = "cleanup" /\ Names(todo[s]) = {call} \cup Names(todo'[s])
        /\ call \in Names(todo[s]) /\ InOrder(s)'
    BY <1>1, Called
  <1>3. call # "children"
    BY <1>2 DEF BrInv, Inv, InOrder, CleanupNames
  <1> QED BY <1>1, <1>2, <1>3, Called

\* What a cleanup step that advances leaves as it is.
LEMMA CleanupTyped ==
    ASSUME BrInv, NEW s \in Scenarios, plan' = plan,
           todo' \in [Scenarios -> Seq(CallSet)], phase' \in [Scenarios -> Phases],
           \A t \in Scenarios \ {s} : todo'[t] = todo[t] /\ phase'[t] = phase[t],
           setup' = setup, made' = made, forgot' = forgot, failedUp' = failedUp,
           configs' \subseteq configs, conditions' \subseteq conditions, children' \subseteq children,
           doomed' \in [Scenarios -> SUBSET Configs],
           \A t \in Scenarios \ {s} : doomed'[t] = doomed[t],
           \/ failures' = failures /\ failedDown' = failedDown
           \/ failures < MaxFailures /\ failures' = failures + 1 /\ failedDown' = failedDown \cup {s}
    PROVE  TypeOK' /\ OnlyAbout(s)
  <1>1. TypeOK
    BY DEF BrInv
  <1>3. failures' \in 0..MaxFailures /\ failedDown' \subseteq Scenarios
        /\ \A t \in Scenarios \ {s} : t \in failedDown' <=> t \in failedDown
    BY <1>1, BrAssumption DEF TypeOK
  <1>4. TypeOK'
    BY <1>1, <1>3 DEF TypeOK
  <1>5. OnlyAbout(s)
    BY <1>3 DEF OnlyAbout
  <1> QED BY <1>4, <1>5

LEMMA DeleteKidKept ==
    ASSUME BrInv, NEW s \in Scenarios, DeleteKid(s) PROVE BrInv'
  <1>1. TypeOK /\ doomed' = doomed /\ doomed \in [Scenarios -> SUBSET Configs]
    BY DEF BrInv, TypeOK, DeleteKid, own
  <1>2. /\ UNCHANGED <<configs, conditions, setup, made, doomed, forgot, failedUp, failedDown, failures>>
        /\ Awaits("deleteKid", s) /\ Advance(s) /\ children' = children \ {<<s, Arg(s)>>}
    BY DEF DeleteKid, own, history
  <1>3. /\ InOrder(s)' /\ plan' = plan /\ phase[s] = "cleanup"
        /\ todo' \in [Scenarios -> Seq(CallSet)] /\ phase' \in [Scenarios -> Phases]
        /\ \A t \in Scenarios \ {s} : todo'[t] = todo[t] /\ phase'[t] = phase[t]
        /\ phase'[s] \in {"cleanup", "gone"} /\ Names(todo'[s]) \subseteq Names(todo[s])
        /\ Within(todo[s]) = {<<"deleteKid", Arg(s)>>} \cup Within(todo'[s])
        /\ Names(todo[s]) = {"deleteKid"} \cup Names(todo'[s]) /\ made[s] = 0
    <2>1. "deleteKid" \in CleanupNames \ {"refresh"} /\ forgot' = forgot
      BY <1>2 DEF CleanupNames
    <2> QED BY <1>2, <2>1, CleanupCalled
  <1>4. TypeOK' /\ OnlyAbout(s)
    BY <1>1, <1>2, <1>3, CleanupTyped
  <1>5. s \notin failedDown => (doomed[s] # {} => "deleteConfigs" \in Names(todo[s]))
    BY <1>3 DEF BrInv, Inv, Traced
  <1>6. Remembers(s)' /\ Traced(s)'
    <2>1. \A n \in 1..Kids : <<s, n>> \in children' /\ <<"deleteKid", n>> \in Within(todo[s])
                             => <<"deleteKid", n>> \in Within(todo'[s])
      BY <1>2, <1>3
    <2>2. \A r \in Rules : /\ <<"deleteCondition", r>> \in Within(todo[s]) => <<"deleteCondition", r>> \in Within(todo'[s])
                           /\ <<"diff", r>> \in Within(todo[s]) => <<"diff", r>> \in Within(todo'[s])
                           /\ <<"sweep", r>> \in Within(todo[s]) => <<"sweep", r>> \in Within(todo'[s])
      BY <1>3
    <2>3. s \notin failedDown => (doomed[s] # {} => "deleteConfigs" \in Names(todo'[s]))
      BY <1>3, <1>5
    <2> QED BY <1>2, <1>3, <2>1, <2>2, <2>3, Cleaned
  <1> QED BY <1>3, <1>4, <1>6, Kept DEF Inv

LEMMA DeleteConditionKept ==
    ASSUME BrInv, NEW s \in Scenarios, DeleteCondition(s) \/ DeleteRefused(s) PROVE BrInv'
  <1>1. TypeOK /\ Traced(s) /\ doomed' = doomed /\ doomed \in [Scenarios -> SUBSET Configs]
    BY DEF BrInv, Inv, TypeOK, DeleteCondition, DeleteRefused, own
  <1>2. /\ UNCHANGED <<configs, children, setup, made, doomed, forgot, failedUp, failedDown, failures>>
        /\ Awaits("deleteCondition", s) /\ Advance(s)
        /\ \/ conditions' = conditions \ {<<s, Arg(s)>>}
           \/ conditions' = conditions /\ HasChildren(s, Arg(s))
    BY DEF DeleteCondition, DeleteRefused, own, history, br
  <1>3. /\ InOrder(s)' /\ plan' = plan /\ phase[s] = "cleanup"
        /\ todo' \in [Scenarios -> Seq(CallSet)] /\ phase' \in [Scenarios -> Phases]
        /\ \A t \in Scenarios \ {s} : todo'[t] = todo[t] /\ phase'[t] = phase[t]
        /\ phase'[s] \in {"cleanup", "gone"} /\ Names(todo'[s]) \subseteq Names(todo[s])
        /\ Within(todo[s]) = {<<"deleteCondition", Arg(s)>>} \cup Within(todo'[s])
        /\ Names(todo[s]) = {"deleteCondition"} \cup Names(todo'[s]) /\ made[s] = 0
        /\ "deleteKid" \notin Names(todo'[s])
    <2>1. "deleteCondition" \in CleanupNames \ {"refresh"} /\ forgot' = forgot
      BY <1>2 DEF CleanupNames
    <2> QED BY <1>2, <2>1, CleanupCalled
  <1>4. TypeOK' /\ OnlyAbout(s)
    <2>1. conditions' \subseteq conditions
      BY <1>2
    <2> QED BY <1>1, <1>2, <1>3, <2>1, CleanupTyped
  <1>5. s \notin failedDown => (doomed[s] # {} => "deleteConfigs" \in Names(todo'[s]))
    BY <1>1, <1>3 DEF Traced
  <1>6. Remembers(s)' /\ Traced(s)'
    <2>1. ASSUME s \notin failedDown, s \notin failedUp PROVE ~HasChildren(s, Arg(s))
      <3> SUFFICES ASSUME NEW n \in 1..Kids, <<s, n>> \in children PROVE FALSE
        BY DEF HasChildren
      <3>1. <<"deleteKid", n>> \in Within(todo[s])
        BY <1>1, <1>3, <2>1 DEF Traced, Lives
      <3>2. "deleteKid" \in Names(todo[s])
        BY <3>1 DEF Within, Names
      <3> QED BY <1>3, <3>2
    <2>2. \A r \in Rules : s \notin failedDown /\ <<s, r>> \in conditions' /\ s \notin failedUp
                           /\ <<"deleteCondition", r>> \in Within(todo[s])
                           => <<"deleteCondition", r>> \in Within(todo'[s])
      BY <1>2, <1>3, <2>1
    <2>3. /\ \A n \in 1..Kids : <<"deleteKid", n>> \in Within(todo[s]) => <<"deleteKid", n>> \in Within(todo'[s])
          /\ \A r \in Rules : /\ <<"diff", r>> \in Within(todo[s]) => <<"diff", r>> \in Within(todo'[s])
                              /\ <<"sweep", r>> \in Within(todo[s]) => <<"sweep", r>> \in Within(todo'[s])
      BY <1>3
    <2>4. conditions' \subseteq conditions
      BY <1>2
    <2> QED BY <1>2, <1>3, <1>5, <2>2, <2>3, <2>4, Cleaned
  <1> QED BY <1>3, <1>4, <1>6, Kept DEF Inv

LEMMA RefreshKept ==
    ASSUME BrInv, NEW s \in Scenarios, Refresh(s) PROVE BrInv'
  <1>1. TypeOK /\ Remembers(s) /\ Traced(s) /\ InOrder(s)
        /\ doomed' = doomed /\ doomed \in [Scenarios -> SUBSET Configs]
    BY DEF BrInv, Inv, TypeOK, Refresh, own
  <1>2. /\ UNCHANGED <<configs, conditions, children, setup, made, doomed, forgot, failedUp, failedDown, failures>>
        /\ Awaits("refresh", s) /\ Advance(s)
    BY DEF Refresh, own, history, br
  <1>3. CASE phase[s] = "cleanup"
    <2>1. /\ InOrder(s)' /\ plan' = plan
          /\ todo' \in [Scenarios -> Seq(CallSet)] /\ phase' \in [Scenarios -> Phases]
          /\ \A t \in Scenarios \ {s} : todo'[t] = todo[t] /\ phase'[t] = phase[t]
          /\ phase'[s] \in {"cleanup", "gone"} /\ Names(todo'[s]) \subseteq Names(todo[s])
          /\ Within(todo[s]) = {<<"refresh", Arg(s)>>} \cup Within(todo'[s])
          /\ Names(todo[s]) = {"refresh"} \cup Names(todo'[s]) /\ made[s] = 0
      BY <1>2, <1>3, CleanupCalled
    <2>2. TypeOK' /\ OnlyAbout(s)
      BY <1>1, <1>2, <2>1, CleanupTyped
    <2>3. s \notin failedDown => (doomed[s] # {} => "deleteConfigs" \in Names(todo'[s]))
      BY <1>1, <1>3, <2>1 DEF Traced
    <2>4. /\ \A n \in 1..Kids : <<"deleteKid", n>> \in Within(todo[s]) => <<"deleteKid", n>> \in Within(todo'[s])
          /\ \A r \in Rules :
               /\ <<"deleteCondition", r>> \in Within(todo[s]) => <<"deleteCondition", r>> \in Within(todo'[s])
               /\ <<"diff", r>> \in Within(todo[s]) => <<"diff", r>> \in Within(todo'[s])
               /\ <<"sweep", r>> \in Within(todo[s]) => <<"sweep", r>> \in Within(todo'[s])
      BY <2>1
    <2>5. Remembers(s)' /\ Traced(s)'
      BY <1>2, <1>3, <2>1, <2>3, <2>4, Cleaned
    <2> QED BY <2>1, <2>2, <2>5, Kept DEF Inv
  <1>4. CASE phase[s] # "cleanup"
    <2>1. "refresh" # "children" /\ forgot \subseteq forgot'
      BY <1>2
    <2>2. /\ InOrder(s)' /\ plan' = plan /\ phase[s] = "provision"
          /\ todo' \in [Scenarios -> Seq(CallSet)] /\ phase' \in [Scenarios -> Phases]
          /\ \A t \in Scenarios \ {s} : todo'[t] = todo[t] /\ phase'[t] = phase[t]
          /\ phase'[s] \in {"provision", "up"} /\ Names(todo'[s]) \subseteq Names(todo[s])
          /\ made[s] = 0
      BY <1>2, <1>4, <2>1, Called
    <2>3. TypeOK' /\ OnlyAbout(s)
      BY <1>1, <1>2, <2>2, CleanupTyped
    <2>4. setup[s] \in Setup /\ \A q \in Rules : setup[s].stored[q] # None =>
            setup[s].stored[q].rule = q /\ setup[s].stored[q].key = plan[s].key
      BY <1>1 DEF TypeOK, Remembers
    <2>5. Remembers(s)' /\ Traced(s)'
      BY <1>2, <2>2, <2>4, Provisioned
    <2> QED BY <2>2, <2>3, <2>5, Kept DEF Inv
  <1> QED BY <1>3, <1>4

LEMMA DiffKept ==
    ASSUME BrInv, NEW s \in Scenarios, Diff(s) PROVE BrInv'
  <1>1. TypeOK /\ Traced(s) /\ Remembers(s)
    BY DEF BrInv, Inv
  <1> DEFINE r == Arg(s)
             D == IF plan[s].key = NoKey THEN {} ELSE Added(s, r, On(r, plan[s].key))
  <1>2. /\ UNCHANGED <<configs, conditions, children, setup, made, forgot, failedUp, failedDown, failures>>
        /\ Awaits("diff", s) /\ Advance(s) /\ doomed' = [doomed EXCEPT ![s] = @ \cup D]
    BY DEF Diff, Dooms, history, br
  <1> HIDE DEF D
  <1>3. /\ InOrder(s)' /\ plan' = plan /\ phase[s] = "cleanup"
        /\ todo' \in [Scenarios -> Seq(CallSet)] /\ phase' \in [Scenarios -> Phases]
        /\ \A t \in Scenarios \ {s} : todo'[t] = todo[t] /\ phase'[t] = phase[t]
        /\ phase'[s] \in {"cleanup", "gone"} /\ Names(todo'[s]) \subseteq Names(todo[s])
        /\ Within(todo[s]) = {<<"diff", Arg(s)>>} \cup Within(todo'[s])
        /\ "deleteConfigs" \in Names(todo'[s]) /\ made[s] = 0 /\ Arg(s) \in Rules
    <2>1. "diff" \in CleanupNames \ {"refresh"} /\ forgot' = forgot /\ "diff" \in RuleCalls
      BY <1>2 DEF CleanupNames, RuleCalls
    <2> QED BY <1>2, <2>1, CleanupCalled
  <1>4. D \subseteq Configs
    BY <1>1, <1>3 DEF D, Added, Stored, On, TypeOK, Setup
  <1>5. doomed' \in [Scenarios -> SUBSET Configs] /\ doomed'[s] = doomed[s] \cup D
        /\ \A t \in Scenarios \ {s} : doomed'[t] = doomed[t]
    BY <1>1, <1>2, <1>4 DEF TypeOK
  <1>6. TypeOK' /\ OnlyAbout(s)
    BY <1>1, <1>2, <1>3, <1>5, CleanupTyped
  <1>7. Own(s, Arg(s)) \in configs => Unsnapped(s, Arg(s)) \/ Own(s, Arg(s)) \in D
    <2> SUFFICES ASSUME Own(s, Arg(s)) \in configs, ~Unsnapped(s, Arg(s)) PROVE Own(s, Arg(s)) \in D
      OBVIOUS
    <2> DEFINE o == Own(s, Arg(s))
    <2>1. o.rule = Arg(s) /\ o.key = plan[s].key /\ o.by = s
      BY DEF Own
    <2>2. plan[s].key # NoKey
      BY <1>1, <2>1 DEF Traced, Lives
    <2>3. plan[s].mode # "contract" => Arg(s) \notin setup[s].snapped
      BY <1>1 DEF Remembers
    <2>4. plan[s].mode = "contract"
      <3>2. "diff" \in Names(todo[s])
        BY <1>1, <1>2, AwaitsCall
      <3> QED BY <3>2 DEF BrInv, Inv, InOrder
    <2>5. o \in On(Arg(s), plan[s].key)
      BY <2>1 DEF On
    <2>6. Arg(s) \in setup[s].snapped /\ o \notin setup[s].snap[Arg(s)]
      BY <1>1, <2>1, <2>4 DEF Unsnapped, Remembers
    <2> HIDE DEF o
    <2>7. o \in Added(s, Arg(s), On(Arg(s), plan[s].key))
      BY <2>5, <2>6 DEF Added
    <2> QED BY <2>2, <2>7 DEF D, o
  <1>8. Remembers(s)' /\ Traced(s)'
    <2>1. /\ \A n \in 1..Kids : <<"deleteKid", n>> \in Within(todo[s]) => <<"deleteKid", n>> \in Within(todo'[s])
          /\ \A q \in Rules :
               /\ <<"deleteCondition", q>> \in Within(todo[s]) => <<"deleteCondition", q>> \in Within(todo'[s])
               /\ <<"sweep", q>> \in Within(todo[s]) => <<"sweep", q>> \in Within(todo'[s])
               /\ <<"diff", q>> \in Within(todo[s]) => <<"diff", q>> \in Within(todo'[s]) \/ q = Arg(s)
      BY <1>3
    <2>2. \A c \in doomed[s] : c \in doomed'[s]
      BY <1>5
    <2>3. \A q \in Rules : <<"diff", q>> \in Within(todo[s]) =>
            \/ <<"diff", q>> \in Within(todo'[s])
            \/ Own(s, q) \in configs' => Unsnapped(s, q) \/ Own(s, q) \in doomed'[s]
      BY <1>2, <1>5, <1>7, <2>1
    <2> QED BY <1>2, <1>3, <2>1, <2>2, <2>3, Cleaned
  <1> QED BY <1>3, <1>6, <1>8, Kept DEF Inv

LEMMA DiffFailsKept ==
    ASSUME BrInv, NEW s \in Scenarios, DiffFails(s) PROVE BrInv'
  <1>1. TypeOK
    BY DEF BrInv
  <1> DEFINE D == Added(s, Arg(s), {})
  <1>2. /\ UNCHANGED <<configs, conditions, children, setup, made, forgot, failedUp>>
        /\ Awaits("diff", s) /\ Advance(s) /\ doomed' = [doomed EXCEPT ![s] = @ \cup D]
        /\ failures < MaxFailures /\ failures' = failures + 1 /\ failedDown' = failedDown \cup {s}
    BY DEF DiffFails, Dooms, br
  <1> HIDE DEF D
  <1>3. /\ InOrder(s)' /\ plan' = plan /\ phase[s] = "cleanup"
        /\ todo' \in [Scenarios -> Seq(CallSet)] /\ phase' \in [Scenarios -> Phases]
        /\ \A t \in Scenarios \ {s} : todo'[t] = todo[t] /\ phase'[t] = phase[t]
        /\ phase'[s] \in {"cleanup", "gone"} /\ Names(todo'[s]) \subseteq Names(todo[s])
        /\ made[s] = 0 /\ Arg(s) \in Rules
    <2>1. "diff" \in CleanupNames \ {"refresh"} /\ forgot' = forgot /\ "diff" \in RuleCalls
      BY <1>2 DEF CleanupNames, RuleCalls
    <2> QED BY <1>2, <2>1, CleanupCalled
  <1>4. D \subseteq Configs
    BY <1>1, <1>3 DEF D, Added, Stored, TypeOK, Setup
  <1>5. doomed' \in [Scenarios -> SUBSET Configs] /\ \A t \in Scenarios \ {s} : doomed'[t] = doomed[t]
    BY <1>1, <1>2, <1>4 DEF TypeOK
  <1>6. TypeOK' /\ OnlyAbout(s)
    BY <1>2, <1>3, <1>5, CleanupTyped
  <1>7. Remembers(s)' /\ Traced(s)'
    BY <1>2, <1>3, Cleaned
  <1> QED BY <1>3, <1>6, <1>7, Kept DEF Inv

LEMMA SweepByNameKept ==
    ASSUME BrInv, NEW s \in Scenarios, SweepByName(s) PROVE BrInv'
  <1>1. TypeOK
    BY DEF BrInv
  <1> DEFINE D == Named(s, Arg(s))
  <1>2. /\ UNCHANGED <<configs, conditions, children, setup, made, forgot, failedUp, failedDown, failures>>
        /\ Awaits("sweep", s) /\ Advance(s) /\ doomed' = [doomed EXCEPT ![s] = @ \cup D]
    BY DEF SweepByName, Dooms, history, br
  <1> HIDE DEF D
  <1>3. /\ InOrder(s)' /\ plan' = plan /\ phase[s] = "cleanup"
        /\ todo' \in [Scenarios -> Seq(CallSet)] /\ phase' \in [Scenarios -> Phases]
        /\ \A t \in Scenarios \ {s} : todo'[t] = todo[t] /\ phase'[t] = phase[t]
        /\ phase'[s] \in {"cleanup", "gone"} /\ Names(todo'[s]) \subseteq Names(todo[s])
        /\ Within(todo[s]) = {<<"sweep", Arg(s)>>} \cup Within(todo'[s])
        /\ "deleteConfigs" \in Names(todo'[s]) /\ made[s] = 0 /\ Arg(s) \in Rules
    <2>1. "sweep" \in CleanupNames \ {"refresh"} /\ forgot' = forgot /\ "sweep" \in RuleCalls
      BY <1>2 DEF CleanupNames, RuleCalls
    <2> QED BY <1>2, <2>1, CleanupCalled
  <1>4. D \subseteq Configs
    BY <1>1, <1>3 DEF D, Named, On, Stored, TypeOK, Setup
  <1>5. doomed' \in [Scenarios -> SUBSET Configs] /\ doomed'[s] = doomed[s] \cup D
        /\ \A t \in Scenarios \ {s} : doomed'[t] = doomed[t]
    BY <1>1, <1>2, <1>4 DEF TypeOK
  <1>6. TypeOK' /\ OnlyAbout(s)
    BY <1>2, <1>3, <1>5, CleanupTyped
  <1>7. Own(s, Arg(s)) \in configs => Own(s, Arg(s)) \in D
    BY DEF D, Named, On, Own
  <1>8. Remembers(s)' /\ Traced(s)'
    <2>1. /\ \A n \in 1..Kids : <<"deleteKid", n>> \in Within(todo[s]) => <<"deleteKid", n>> \in Within(todo'[s])
          /\ \A q \in Rules :
               /\ <<"deleteCondition", q>> \in Within(todo[s]) => <<"deleteCondition", q>> \in Within(todo'[s])
               /\ <<"diff", q>> \in Within(todo[s]) => <<"diff", q>> \in Within(todo'[s])
               /\ <<"sweep", q>> \in Within(todo[s]) => <<"sweep", q>> \in Within(todo'[s]) \/ q = Arg(s)
      BY <1>3
    <2>2. \A c \in doomed[s] : c \in doomed'[s]
      BY <1>5
    <2>3. \A q \in Rules : <<"sweep", q>> \in Within(todo[s]) =>
            \/ <<"sweep", q>> \in Within(todo'[s])
            \/ Own(s, q) \in configs' => Own(s, q) \in doomed'[s]
      BY <1>2, <1>5, <1>7, <2>1
    <2> QED BY <1>2, <1>3, <2>1, <2>2, <2>3, Cleaned
  <1> QED BY <1>3, <1>6, <1>8, Kept DEF Inv

LEMMA SweepByNameFailsKept ==
    ASSUME BrInv, NEW s \in Scenarios, SweepByNameFails(s) PROVE BrInv'
  <1>1. TypeOK /\ InOrder(s)
    BY DEF BrInv, Inv
  <1>2. /\ UNCHANGED <<configs, conditions, children, setup, made, doomed, forgot, failedUp>>
        /\ Awaits("sweep", s) /\ Continue(s, <<>>)
        /\ failures < MaxFailures /\ failures' = failures + 1 /\ failedDown' = failedDown \cup {s}
    BY DEF SweepByNameFails, br, own
  <1>3. /\ <<>> \in Seq(CallSet) /\ Names(<<>>) = {}
        /\ \A these, those : NoneAfter(<<>>, these, those)
        /\ FoundThenDeleted(<<>>)
    BY NoCall, NoneOf, NothingFound
  <1>4. "sweep" \in Names(todo[s]) /\ todo[s] # <<>> /\ Head(todo[s])[1] = "sweep"
    BY <1>1, <1>2, AwaitsCall
  <1>5. phase[s] = "cleanup"
    BY <1>1, <1>4 DEF InOrder, TypeOK, Phases, ProvisionNames
  <1>6. made[s] = 0
    <2>1. ~(made[s] > 0)
      BY <1>4 DEF BrInv, Inv, Remembers, Awaits
    <2> QED BY <1>1, <2>1, BrAssumption DEF TypeOK
  <1>7. InOrder(s)'
    BY <1>1, <1>2, <1>3, <1>4, ContinueOrder
  <1>8. /\ plan' = plan /\ todo' \in [Scenarios -> Seq(CallSet)] /\ phase' \in [Scenarios -> Phases]
        /\ \A t \in Scenarios \ {s} : todo'[t] = todo[t] /\ phase'[t] = phase[t]
        /\ phase'[s] = "gone" /\ todo'[s] = <<>>
    BY <1>1, <1>2, <1>3, <1>5, ContinueTo
  <1>9. doomed' \in [Scenarios -> SUBSET Configs]
    BY <1>1, <1>2 DEF TypeOK
  <1>10. TypeOK' /\ OnlyAbout(s)
    BY <1>2, <1>8, <1>9, CleanupTyped
  <1>11. Remembers(s)' /\ Traced(s)'
    BY <1>2, <1>3, <1>5, <1>6, <1>7, <1>8, Cleaned
  <1> QED BY <1>7, <1>10, <1>11, Kept DEF Inv

\* The deletion of one of the doomed, which may fail.
DeletesOne(s, c) ==
    /\ Awaits("deleteConfigs", s) /\ c \in doomed[s]
    /\ doomed' = [doomed EXCEPT ![s] = @ \ {c}]
    /\ IF doomed[s] = {c} THEN Advance(s) ELSE UNCHANGED progress
    /\ UNCHANGED <<conditions, children, setup, made, forgot, failedUp>>
    /\ \/ configs' = configs \ {c} /\ UNCHANGED <<failures, failedDown>>
       \/ /\ configs' = configs /\ failures < MaxFailures /\ failures' = failures + 1
          /\ failedDown' = failedDown \cup {s}

LEMMA DeletesOneKept ==
    ASSUME BrInv, NEW s \in Scenarios, NEW c, DeletesOne(s, c) PROVE BrInv'
  <1>1. TypeOK /\ InOrder(s) /\ Traced(s)
    BY DEF BrInv, Inv
  <1>2. /\ UNCHANGED <<conditions, children, setup, made, forgot, failedUp>>
        /\ Awaits("deleteConfigs", s) /\ c \in doomed[s] /\ doomed' = [doomed EXCEPT ![s] = @ \ {c}]
        /\ configs' \subseteq configs
        /\ \/ failures' = failures /\ failedDown' = failedDown
           \/ failures < MaxFailures /\ failures' = failures + 1 /\ failedDown' = failedDown \cup {s}
        /\ s \notin failedDown' => configs' = configs \ {c}
    BY DEF DeletesOne
  <1>3. doomed' \in [Scenarios -> SUBSET Configs] /\ doomed'[s] = doomed[s] \ {c}
        /\ \A t \in Scenarios \ {s} : doomed'[t] = doomed[t]
    BY <1>1, <1>2 DEF TypeOK
  <1>4. "deleteConfigs" \in CleanupNames \ {"refresh"} /\ forgot' = forgot
    BY <1>2 DEF CleanupNames
  <1>5. /\ InOrder(s)' /\ plan' = plan /\ phase[s] = "cleanup"
        /\ todo' \in [Scenarios -> Seq(CallSet)] /\ phase' \in [Scenarios -> Phases]
        /\ \A t \in Scenarios \ {s} : todo'[t] = todo[t] /\ phase'[t] = phase[t]
        /\ phase'[s] \in {"cleanup", "gone"} /\ Names(todo'[s]) \subseteq Names(todo[s])
        /\ \A q : /\ <<"deleteKid", q>> \in Within(todo[s]) => <<"deleteKid", q>> \in Within(todo'[s])
                  /\ <<"deleteCondition", q>> \in Within(todo[s]) => <<"deleteCondition", q>> \in Within(todo'[s])
                  /\ <<"diff", q>> \in Within(todo[s]) => <<"diff", q>> \in Within(todo'[s])
                  /\ <<"sweep", q>> \in Within(todo[s]) => <<"sweep", q>> \in Within(todo'[s])
        /\ doomed'[s] # {} => "deleteConfigs" \in Names(todo'[s])
        /\ made[s] = 0
    <2>1. CASE doomed[s] = {c}
      <3>1. Advance(s)
        BY <2>1 DEF DeletesOne
      <3>2. doomed'[s] = {}
        BY <1>3, <2>1
      <3>3. Within(todo[s]) = {<<"deleteConfigs", Arg(s)>>} \cup Within(todo'[s])
        BY <1>2, <1>4, <3>1, CleanupCalled
      <3>4. /\ InOrder(s)' /\ plan' = plan /\ phase[s] = "cleanup"
            /\ todo' \in [Scenarios -> Seq(CallSet)] /\ phase' \in [Scenarios -> Phases]
            /\ \A t \in Scenarios \ {s} : todo'[t] = todo[t] /\ phase'[t] = phase[t]
            /\ phase'[s] \in {"cleanup", "gone"} /\ Names(todo'[s]) \subseteq Names(todo[s])
            /\ made[s] = 0
        BY <1>2, <1>4, <3>1, CleanupCalled
      <3> QED BY <3>2, <3>3, <3>4
    <2>2. CASE doomed[s] # {c}
      <3>1. UNCHANGED <<plan, phase, todo>>
        BY <2>2 DEF DeletesOne, progress
      <3>2. "deleteConfigs" \in Names(todo[s]) /\ todo[s] # <<>> /\ Head(todo[s])[1] = "deleteConfigs"
        BY <1>1, <1>2, AwaitsCall
      <3>3. phase[s] = "cleanup" /\ InOrder(s)'
        BY <1>1, <1>2, <3>1, <3>2 DEF InOrder, TypeOK, Phases, ProvisionNames
      <3>4. made[s] = 0
        <4>1. ~(made[s] > 0)
          BY <3>2 DEF BrInv, Inv, Remembers, Awaits
        <4> QED BY <1>1, <4>1, BrAssumption DEF TypeOK
      <3> QED BY <1>1, <3>1, <3>2, <3>3, <3>4 DEF TypeOK
    <2> QED BY <2>1, <2>2
  <1>6. TypeOK' /\ OnlyAbout(s)
    BY <1>2, <1>3, <1>5, CleanupTyped
  <1>7. Remembers(s)' /\ Traced(s)'
    <2>1. s \notin failedDown' => \A d \in configs' : d \in doomed[s] => d \in doomed'[s]
      BY <1>2, <1>3
    <2>2. failedDown \subseteq failedDown' /\ conditions' \subseteq conditions /\ children' \subseteq children
      BY <1>2
    <2> QED BY <1>2, <1>5, <2>1, <2>2, Cleaned
  <1> QED BY <1>5, <1>6, <1>7, Kept DEF Inv

LEMMA DeleteConfigKept ==
    ASSUME BrInv, NEW s \in Scenarios, DeleteConfig(s) PROVE BrInv'
  <1>1. PICK c \in doomed[s] : DeletesOne(s, c)
    BY DEF DeleteConfig, DeletesOne, history
  <1> QED BY <1>1, DeletesOneKept

LEMMA NoConfigsKept ==
    ASSUME BrInv, NEW s \in Scenarios, NoConfigs(s) PROVE BrInv'
  <1>1. TypeOK /\ doomed' = doomed /\ doomed \in [Scenarios -> SUBSET Configs] /\ doomed[s] = {}
    BY DEF BrInv, TypeOK, NoConfigs, own
  <1>2. /\ UNCHANGED <<configs, conditions, children, setup, made, doomed, forgot, failedUp, failedDown, failures>>
        /\ Awaits("deleteConfigs", s) /\ Advance(s)
    BY DEF NoConfigs, own, history, br
  <1>3. "deleteConfigs" \in CleanupNames \ {"refresh"} /\ forgot' = forgot
    BY <1>2 DEF CleanupNames
  <1>4. /\ InOrder(s)' /\ plan' = plan /\ phase[s] = "cleanup"
        /\ todo' \in [Scenarios -> Seq(CallSet)] /\ phase' \in [Scenarios -> Phases]
        /\ \A t \in Scenarios \ {s} : todo'[t] = todo[t] /\ phase'[t] = phase[t]
        /\ phase'[s] \in {"cleanup", "gone"} /\ Names(todo'[s]) \subseteq Names(todo[s])
        /\ Within(todo[s]) = {<<"deleteConfigs", Arg(s)>>} \cup Within(todo'[s]) /\ made[s] = 0
    BY <1>2, <1>3, CleanupCalled
  <1>5. TypeOK' /\ OnlyAbout(s)
    BY <1>1, <1>2, <1>4, CleanupTyped
  <1>6. /\ \A n \in 1..Kids : <<"deleteKid", n>> \in Within(todo[s]) => <<"deleteKid", n>> \in Within(todo'[s])
        /\ \A r \in Rules :
             /\ <<"deleteCondition", r>> \in Within(todo[s]) => <<"deleteCondition", r>> \in Within(todo'[s])
             /\ <<"diff", r>> \in Within(todo[s]) => <<"diff", r>> \in Within(todo'[s])
             /\ <<"sweep", r>> \in Within(todo[s]) => <<"sweep", r>> \in Within(todo'[s])
    BY <1>4
  <1>7. Remembers(s)' /\ Traced(s)'
    BY <1>1, <1>2, <1>4, <1>6, Cleaned
  <1> QED BY <1>4, <1>5, <1>7, Kept DEF Inv

LEMMA CleanupFailsKept ==
    ASSUME BrInv, NEW s \in Scenarios, CleanupFails(s) PROVE BrInv'
  <1>1. CASE \E c \in doomed[s] : DeletesOne(s, c)
    BY <1>1, DeletesOneKept
  <1>2. CASE ~\E c \in doomed[s] : DeletesOne(s, c)
    <2>1. PICK call \in {"deleteKid", "deleteCondition", "refresh"} : Awaits(call, s)
      BY <1>2 DEF CleanupFails, DeletesOne, br
    <2>2. /\ UNCHANGED <<configs, conditions, children, setup, made, doomed, forgot, failedUp>>
          /\ Advance(s) /\ phase[s] = "cleanup"
          /\ failures < MaxFailures /\ failures' = failures + 1 /\ failedDown' = failedDown \cup {s}
      BY <1>2 DEF CleanupFails, DeletesOne, br
    <2>3. /\ InOrder(s)' /\ plan' = plan
          /\ todo' \in [Scenarios -> Seq(CallSet)] /\ phase' \in [Scenarios -> Phases]
          /\ \A t \in Scenarios \ {s} : todo'[t] = todo[t] /\ phase'[t] = phase[t]
          /\ phase'[s] \in {"cleanup", "gone"} /\ Names(todo'[s]) \subseteq Names(todo[s])
          /\ made[s] = 0
      BY <2>1, <2>2, CleanupCalled
    <2>4. doomed' \in [Scenarios -> SUBSET Configs]
      BY <2>2 DEF BrInv, TypeOK
    <2>5. TypeOK' /\ OnlyAbout(s)
      BY <2>2, <2>3, <2>4, CleanupTyped
    <2>6. Remembers(s)' /\ Traced(s)'
      BY <2>2, <2>3, Cleaned
    <2> QED BY <2>3, <2>5, <2>6, Kept DEF Inv
  <1> QED BY <1>1, <1>2

-----------------------------------------------------------------------------
LEMMA InitInv == Init => BrInv
  <1> SUFFICES ASSUME Init PROVE BrInv
    OBVIOUS
  <1>1. NoSetup \in Setup
    BY BrAssumption DEF NoSetup, Setup
  <1>2. plan \in [Scenarios -> Plan \cup {None}]
    BY BrAssumption DEF Init
  <1>3. TypeOK
    BY <1>1, <1>2, BrAssumption DEF Init, TypeOK, Phases
  <1>4. ASSUME NEW s \in Scenarios PROVE Inv(s)
    <2>1. /\ phase[s] = "new" /\ todo[s] = <<>> /\ setup[s] = NoSetup /\ made[s] = 0 /\ doomed[s] = {}
          /\ plan \in Plans
      BY <1>4 DEF Init
    <2>2. Names(<<>>) = {} /\ Within(<<>>) = {}
      BY NoCall
    <2>3. InOrder(s)
      BY <2>1, <2>2, BrAssumption, NoneOf, NothingFound DEF InOrder
    <2>4. Remembers(s)
      BY <2>1, <2>2 DEF Remembers, NoSetup
    <2>5. Lives(s) = [conds |-> {}, kids |-> {}, configs |-> {}]
      <3>1. \A c \in configs : c.by # s
        BY BrAssumption DEF Init
      <3>2. conditions = {} /\ children = {}
        BY DEF Init
      <3> QED BY <3>1, <3>2 DEF Lives
    <2>6. Traced(s)
      BY <2>1, <2>2, <2>5 DEF Traced
    <2> QED BY <2>3, <2>4, <2>6 DEF Inv
  <1> QED BY <1>3, <1>4 DEF BrInv

LEMMA NextInv == ASSUME BrInv, Next PROVE BrInv'
  <1>1. PICK s \in Scenarios : Provision(s) \/ Forget(s) \/ Cleanup(s) \/ Call(s)
    BY DEF Next
  <1>2. CASE Provision(s) \/ Forget(s) \/ Cleanup(s)
    BY <1>2, ProvisionKept, ForgetKept, CleanupKept
  <1>3. CASE ProvisionStep(s)
    BY <1>3, SnapshotKept, SnapshotFailsKept, AssignKept, LookUpKept, ConditionKept, ChildKept,
       NoParentKept, RefreshKept, ProvisioningFailsKept DEF ProvisionStep
  <1>4. CASE CleanupStep(s)
    BY <1>4, DeleteKidKept, DeleteConditionKept, DiffKept, DiffFailsKept, SweepByNameKept,
       SweepByNameFailsKept, DeleteConfigKept, NoConfigsKept, CleanupFailsKept DEF CleanupStep
  <1> QED BY <1>1, <1>2, <1>3, <1>4 DEF Call

LEMMA StutterInv == ASSUME BrInv, UNCHANGED vars PROVE BrInv'
  <1>1. TypeOK'
    BY DEF BrInv, TypeOK, vars, br, progress, own, history
  <1>2. ASSUME NEW s \in Scenarios PROVE Inv(s)'
    <2>1. Inv(s)
      BY <1>2 DEF BrInv
    <2> QED BY <1>2, <2>1, OthersKept DEF vars, br, progress, own, history
  <1> QED BY <1>1, <1>2 DEF BrInv

\* Every scenario makes its calls in the order the code does, remembers of itself what
\* it has to, and whatever exists of it is recorded or still to be found.
THEOREM BrInvariant == Spec => []BrInv
  <1>1. BrInv /\ [Next]_vars => BrInv'
    BY NextInv, StutterInv
  <1> QED BY <1>1, InitInv, PTL DEF Spec

\* A cleanup in which no call fails deletes every rule assignment of its scenario,
\* also one whose id was never learnt, as far as the snapshot was read.
THEOREM AssignmentsAreFound == Spec => []AssignmentsFoundAgain
  <1>1. BrInv => AssignmentsFoundAgain
    <2> SUFFICES ASSUME BrInv, NEW s \in Scenarios, phase[s] = "gone", s \notin failedDown,
                        NEW c \in Lives(s).configs
                 PROVE  Unsnapped(s, c.rule)
      BY DEF AssignmentsFoundAgain
    <2>1. todo[s] = <<>> /\ Names(<<>>) = {} /\ Within(<<>>) = {}
      BY NoCall DEF BrInv, Inv, InOrder
    <2>2. doomed[s] = {}
      BY <2>1 DEF BrInv, Inv, Traced
    <2> QED BY <2>1, <2>2 DEF BrInv, Inv, Traced
  <1> QED BY <1>1, BrInvariant, PTL

\* Nor does it leave a condition or a child condition, whatever others do to the apiKey.
THEOREM NothingIsLeft == Spec => []NothingLeftBehind
  <1>1. BrInv => NothingLeftBehind
    <2> SUFFICES ASSUME BrInv, NEW s \in Scenarios, phase[s] = "gone", s \notin failedUp \cup failedDown
                 PROVE  /\ Lives(s).conds = {} /\ Lives(s).kids = {}
                        /\ \A c \in Lives(s).configs : Unsnapped(s, c.rule)
      BY DEF NothingLeftBehind
    <2>1. todo[s] = <<>> /\ Names(<<>>) = {} /\ Within(<<>>) = {}
      BY NoCall DEF BrInv, Inv, InOrder
    <2>2. doomed[s] = {} /\ Traced(s)
      BY <2>1 DEF BrInv, Inv, Traced
    <2>3. (\A r \in Lives(s).conds : FALSE) /\ (\A n \in Lives(s).kids : FALSE)
      BY <2>1, <2>2 DEF Traced
    <2>4. \A c \in Lives(s).configs : Unsnapped(s, c.rule)
      BY <2>1, <2>2 DEF Traced
    <2> QED BY <2>3, <2>4
  <1> QED BY <1>1, BrInvariant, PTL

\* What was on a shared apiKey before a scenario assigned it stays, but for the
\* two exceptions SnapshotUntouched names.
THEOREM SnapshotStays == Spec => SnapshotUntouched
  <1> DEFINE Spared == \A s \in Scenarios, r \in Rules :
               phase[s] = "cleanup" /\ s \notin forgot /\ r \in setup[s].snapped =>
                 \A c \in setup[s].snap[r] :
                   c \in doomed'[s] /\ c \notin doomed[s] =>
                      /\ c = setup[s].stored[r]
                      /\ s \in failedDown' \/ Own(s, r) \notin configs
  <1>1. ASSUME BrInv, [Next]_vars PROVE Spared
    <2> SUFFICES ASSUME NEW s \in Scenarios, NEW r \in Rules, phase[s] = "cleanup", s \notin forgot,
                        r \in setup[s].snapped, NEW c \in setup[s].snap[r],
                        c \in doomed'[s], c \notin doomed[s]
                 PROVE  /\ c = setup[s].stored[r]
                        /\ s \in failedDown' \/ Own(s, r) \notin configs
      OBVIOUS
    <2>1. /\ TypeOK /\ plan[s].mode = "contract" /\ plan[s].key # NoKey
          /\ c.rule = r /\ c.key = plan[s].key
          /\ \A d \in setup[s].snap[r] : d.by # s
          /\ \A q \in Rules : setup[s].stored[q] # None => setup[s].stored[q].rule = q
      BY <1>1 DEF BrInv, Inv, Remembers
    <2>2. "sweep" \notin Names(todo[s])
      BY <1>1, <2>1 DEF BrInv, Inv, InOrder
    <2>3. Diff(s) \/ DiffFails(s)
      <3>1. doomed'[s] # doomed[s] /\ ~UNCHANGED vars
        BY DEF vars, own
      <3>2. PICK t \in Scenarios : Provision(t) \/ Forget(t) \/ Cleanup(t) \/ Call(t)
        BY <1>1, <3>1 DEF Next
      <3>3. ~SweepByName(s)
        BY <2>1, <2>2, AwaitsCall DEF SweepByName
      <3>4. doomed' # doomed
        BY <3>1
      <3>5. ~(Provision(t) \/ Forget(t) \/ Cleanup(t)) /\ ~ProvisionStep(t)
        BY <3>4 DEF Provision, Forget, Cleanup, ProvisionStep, Snapshot, SnapshotFails, Assign, LookUp,
                    Condition, Child, NoParent, Refresh, ProvisioningFails, Records, own
      <3>6. ~(DeleteKid(t) \/ DeleteCondition(t) \/ DeleteRefused(t) \/ SweepByNameFails(t) \/ NoConfigs(t))
        BY <3>4 DEF DeleteKid, DeleteCondition, DeleteRefused, SweepByNameFails, NoConfigs, own
      <3>7. ~(DeleteConfig(t) \/ CleanupFails(t))
        BY <2>1, <3>4 DEF DeleteConfig, CleanupFails, TypeOK
      <3>8. Diff(t) \/ DiffFails(t) \/ SweepByName(t)
        BY <3>2, <3>5, <3>6, <3>7 DEF Call, CleanupStep
      <3>9. t = s
        BY <2>1, <3>1, <3>8 DEF Diff, DiffFails, SweepByName, Dooms, TypeOK
      <3> QED BY <3>3, <3>8, <3>9
    <2>4. Awaits("diff", s) /\ Arg(s) \in Rules
      BY <2>1, <2>3, AwaitsCall DEF Diff, DiffFails, RuleCalls
    <2>5. PICK current \in {{}, On(Arg(s), plan[s].key)} :
            /\ c \in Added(s, Arg(s), current)
            /\ current = On(Arg(s), plan[s].key) \/ s \in failedDown'
      <3>1. CASE Diff(s)
        BY <2>1, <3>1 DEF Diff, Dooms, TypeOK
      <3>2. CASE DiffFails(s)
        BY <2>1, <3>2 DEF DiffFails, Dooms, TypeOK
      <3> QED BY <2>3, <3>1, <3>2
    <2>6. \A d \in On(Arg(s), plan[s].key) : d.rule = Arg(s)
      BY DEF On
    <2>7. Arg(s) = r
      BY <2>1, <2>4, <2>5, <2>6 DEF Added, Stored
    <2>8. c \notin current \ setup[s].snap[r]
      OBVIOUS
    <2>9. current \ setup[s].snap[r] = {} /\ c = setup[s].stored[r]
      BY <2>5, <2>7, <2>8 DEF Added, Stored
    <2>10. current = On(r, plan[s].key) => Own(s, r) \notin configs
      <3>1. Own(s, r).by = s /\ Own(s, r).rule = r /\ Own(s, r).key = plan[s].key
        BY DEF Own
      <3>2. Own(s, r) \notin setup[s].snap[r]
        BY <2>1, <3>1
      <3> QED BY <2>9, <3>1, <3>2 DEF On
    <2> QED BY <2>5, <2>7, <2>9, <2>10
  <1> QED BY <1>1, BrInvariant, PTL DEF Spec, SnapshotUntouched
=============================================================================
