--------------------------- MODULE DashboardProofs --------------------------
(***************************************************************************)
(* Theorems about Dashboard, for all numbers of networks and of requests   *)
(* in flight: the safety properties, under every order of answers,         *)
(* failures, hidden tabs, moves and saves.  That the charts settle in the  *)
(* end is liveness, and left to the runs.                                  *)
(***************************************************************************)
EXTENDS Dashboard, FiniteSetTheorems, WellFoundedInduction, TLAPS

-----------------------------------------------------------------------------
(* The inductive invariant *)

InputTypes ==
    /\ networks \subseteq Ids /\ mine \subseteq networks
    /\ filter \in {"all", "provider"} /\ live \in Ids \cup {0}

PageTypes ==
    /\ serving \in BOOLEAN /\ timer \in BOOLEAN /\ hidden \in BOOLEAN
    /\ page \in Pages /\ saving \in {"no", "network", "provider"}

LoadTypes ==
    /\ charts \in Ids \cup {0} /\ loads \subseteq Load
    /\ asked \in [net : Ids \cup {0}, outcome : {"none", "waiting", "drawn", "failed"}]

\* historySeq tells the loads apart: one is the newest, and it is for the
\* network that was asked for last.
OneNewest == \A l, k \in loads : l.newest /\ k.newest => l = k
NewestIsAsked == \A l \in loads : l.newest => l.net = asked.net

\* init awaits one load, and runs until that is answered.
OneInit == \A l, k \in loads : l.by = "init" /\ k.by = "init" => l = k
InitIsFirst == \A l \in loads : l.by = "init" => page = "first"
OpenedIsIdle == page = "opened" => loads = {} /\ ~timer /\ saving = "no"

LoadsInv ==
    LoadTypes /\ OneNewest /\ NewestIsAsked /\ OneInit /\ ChartsShowWhatWasAskedLast

\* Charts that are drawn are current, also on a hidden page that would not
\* notice when it is shown again.
DrawnIsCurrent ==
    asked.outcome = "drawn" /\ ~(page = "running" /\ hidden) => charts = Focus

DashboardInv ==
    /\ InputTypes /\ PageTypes /\ LoadsInv
    /\ InitIsFirst /\ OpenedIsIdle
    /\ PollingIsAlive /\ DrawnIsCurrent

-----------------------------------------------------------------------------
(* The focus and the loads in flight *)

\* Numbers have a least one.
LEMMA LeastExists ==
    ASSUME NEW T \in SUBSET Nat, T # {}
    PROVE  \E x \in T : \A y \in T : x <= y
<1> DEFINE less == {ss \in Nat \X Nat : ss[1] < ss[2]}
<1>1. IsWellFoundedOn(less, Nat)
  BY NatLessThanWellFounded DEF OpToRel
<1>2. \A x, y \in Nat : y < x => <<y, x>> \in less
  OBVIOUS
<1> HIDE DEF less
<1>3. PICK x \in T : \A y \in T : ~ (<<y, x>> \in less)
  BY <1>1, WFMin
<1>4. ASSUME NEW y \in T PROVE x <= y
  <2>1. x \in Nat /\ y \in Nat /\ ~ (y < x)
    BY <1>2, <1>3
  <2> QED
    BY <2>1
<1> QED
  BY <1>4

\* The network in focus is one the filter shows, or none if it shows none.
LEMMA FocusIsActive ==
    ASSUME NEW active \in SUBSET Ids, NEW l
    PROVE  /\ FocusOf(active, l) \in Ids \cup {0}
           /\ FocusOf(active, l) = 0 <=> active = {}
<1>1. active \in SUBSET Nat /\ 0 \notin active
  BY DashboardAssumption DEF Ids
<1>2. CASE l \notin active /\ active # {}
  <2>1. \E n \in active : \A k \in active : n <= k
    BY <1>1, <1>2, LeastExists
  <2> QED
    BY <1>1, <1>2, <2>1 DEF FocusOf
<1> QED
  BY <1>1, <1>2 DEF FocusOf

\* Whatever the inputs are, there is a network in focus or none.
LEMMA FocusType == /\ InputTypes => Focus \in Ids \cup {0}
                   /\ InputTypes' => Focus' \in Ids \cup {0}
<1>1. InputTypes => Active(networks, mine, filter) \in SUBSET Ids
  BY DEF InputTypes, Active
<1>2. InputTypes' => Active(networks', mine', filter') \in SUBSET Ids
  BY DEF InputTypes, Active, Ids
<1> QED
  BY <1>1, <1>2, FocusIsActive DEF Focus

\* A load that is not the newest is known by its network and by who awaits it.
LEMMA SameLoad ==
    ASSUME NEW k \in Load, NEW m \in Load, k.by = m.by, k.net = m.net,
           ~k.newest, ~m.newest
    PROVE  k = m
<1>1. PICK n \in Ids, w \in BOOLEAN, b \in {"init", "refresh", "other"} :
         k = [net |-> n, newest |-> w, by |-> b]
  BY Zenon DEF Load
<1>2. PICK n2 \in Ids, w2 \in BOOLEAN, b2 \in {"init", "refresh", "other"} :
         m = [net |-> n2, newest |-> w2, by |-> b2]
  BY Zenon DEF Load
<1>3. n = n2 /\ b = b2
  BY <1>1, <1>2
<1>4. w = FALSE /\ w2 = FALSE
  BY <1>1, <1>2
<1> QED
  BY <1>1, <1>2, <1>3, <1>4

\* A load that is overtaken remains, for whom it was, and is the newest no more.
LEMMA OvertakeEffect ==
    ASSUME NEW ls \in SUBSET Load
    PROVE  /\ Overtake(ls) \subseteq Load
           /\ \A k \in Overtake(ls) : ~k.newest
           /\ \A k \in Overtake(ls) : \E l \in ls : k.by = l.by /\ k.net = l.net
           /\ \A k, m \in Overtake(ls) : k.by = m.by /\ k.net = m.net => k = m
           /\ \A l \in ls : \E k \in Overtake(ls) : k.by = l.by
<1> DEFINE older(l) == [l EXCEPT !.newest = FALSE]
<1>1. ASSUME NEW l \in Load
      PROVE  /\ older(l) \in Load /\ ~older(l).newest
             /\ older(l).by = l.by /\ older(l).net = l.net
  BY DEF Load
<1>2. Overtake(ls) = {older(l) : l \in ls}
  BY DEF Overtake
<1> HIDE DEF older
<1>3. \A k \in Overtake(ls) : \E l \in ls : k = older(l)
  BY <1>2
<1>4. \A l \in ls : older(l) \in Overtake(ls)
  BY <1>2
<1>5. ASSUME NEW k \in Overtake(ls), NEW m \in Overtake(ls), k.by = m.by, k.net = m.net
      PROVE  k = m
  <2>1. k \in Load /\ ~k.newest /\ m \in Load /\ ~m.newest
    BY <1>1, <1>3
  <2> QED
    BY <1>5, <2>1, SameLoad
<1> QED
  BY <1>1, <1>3, <1>4, <1>5

\* loadHistory asks for the network in focus; what was in flight before is
\* overtaken, and there are charts for nothing if nothing is in focus.
LEMMA LoadHistoryEffect ==
    ASSUME LoadsInv, InputTypes', NEW others \in SUBSET loads,
           NEW by \in {"init", "refresh", "other"}, NEW kept \in Ids \cup {0},
           by = "init" => \A l \in others : l.by # "init",
           LoadHistory(by, others, kept)
    PROVE  /\ LoadsInv'
           /\ asked'.outcome = "drawn" => charts' = Focus'
           /\ Focus' = 0 \/ \E k \in loads' : k.by = by
           /\ \A l \in others : \E k \in loads' : k.by = l.by
           /\ \A k \in loads' : \/ k.by = by /\ Focus' # 0
                                \/ \E l \in others : k.by = l.by
<1>1. Focus' \in Ids \cup {0}
  BY FocusType
<1>2. others \in SUBSET Load
  BY DEF LoadsInv, LoadTypes
<1>3. /\ Overtake(others) \subseteq Load
      /\ \A k \in Overtake(others) : ~k.newest
      /\ \A k \in Overtake(others) : \E l \in others : k.by = l.by /\ k.net = l.net
      /\ \A k, m \in Overtake(others) : k.by = m.by /\ k.net = m.net => k = m
      /\ \A l \in others : \E k \in Overtake(others) : k.by = l.by
  BY <1>2, OvertakeEffect
<1>4. \A k, m \in Overtake(others) : k.by = "init" /\ m.by = "init" => k = m
  BY <1>3 DEF LoadsInv, OneInit
<1>5. CASE Focus' = 0
  <2>1. /\ loads' = Overtake(others) /\ charts' = 0
        /\ asked' = [net |-> 0, outcome |-> "drawn"]
    BY <1>5 DEF LoadHistory
  <2> QED
    BY <1>3, <1>4, <1>5, <2>1 DEF LoadsInv, LoadTypes, OneNewest, NewestIsAsked, OneInit,
          ChartsShowWhatWasAskedLast, Waiting
<1>6. CASE Focus' # 0
  <2> DEFINE new == [net |-> Focus', newest |-> TRUE, by |-> by]
  <2>1. /\ loads' = Overtake(others) \cup {new} /\ charts' = kept
        /\ asked' = [net |-> Focus', outcome |-> "waiting"]
    BY <1>6 DEF LoadHistory
  <2>2. new \in Load /\ new.newest /\ new.by = by /\ new.net = Focus'
    BY <1>1, <1>6 DEF Load
  <2> HIDE DEF new
  <2>3. LoadTypes'
    BY <1>1, <1>3, <2>1, <2>2 DEF LoadTypes
  <2>4. OneNewest' /\ NewestIsAsked' /\ ChartsShowWhatWasAskedLast'
    BY <1>3, <2>1, <2>2 DEF OneNewest, NewestIsAsked, ChartsShowWhatWasAskedLast, Waiting
  <2>5. OneInit'
    BY <1>3, <1>4, <2>1, <2>2 DEF OneInit
  <2>6. /\ asked'.outcome # "drawn" /\ new \in loads'
        /\ \A l \in others : \E k \in loads' : k.by = l.by
        /\ \A k \in loads' : k = new \/ \E l \in others : k.by = l.by
    BY <1>3, <2>1
  <2> QED
    BY <1>6, <2>2, <2>3, <2>4, <2>5, <2>6 DEF LoadsInv
<1> QED
  BY <1>5, <1>6

\* Charts that no longer fit are marked so, and nothing else changes.
LEMMA LeftForThePollEffect ==
    ASSUME LoadsInv, LeftForThePoll, UNCHANGED <<charts, loads>>
    PROVE  LoadsInv' /\ (asked'.outcome = "drawn" => charts' = Focus')
<1>1. CASE asked.outcome = "drawn" /\ Focus' # asked.net
  <2>1. asked' = [asked EXCEPT !.outcome = "none"]
    BY <1>1 DEF LeftForThePoll
  <2>2. /\ asked'.net = asked.net /\ asked'.outcome = "none"
        /\ asked' \in [net : Ids \cup {0}, outcome : {"none", "waiting", "drawn", "failed"}]
    BY <2>1 DEF LoadsInv, LoadTypes
  <2> QED
    BY <1>1, <2>2 DEF LoadsInv, LoadTypes, OneNewest, NewestIsAsked, OneInit,
                      ChartsShowWhatWasAskedLast, Waiting
<1>2. CASE ~(asked.outcome = "drawn" /\ Focus' # asked.net)
  <2>1. asked' = asked
    BY <1>2 DEF LeftForThePoll
  <2> QED
    BY <1>2, <2>1 DEF LoadsInv, LoadTypes, OneNewest, NewestIsAsked, OneInit,
                      ChartsShowWhatWasAskedLast, Waiting
<1> QED
  BY <1>1, <1>2

-----------------------------------------------------------------------------
(* The steps *)

\* Nothing is listed and nothing is asked.
LEMMA InitDashboard == Init => DashboardInv
<1> SUFFICES ASSUME Init PROVE DashboardInv
  OBVIOUS
<1>1. PageTypes
  BY DEF Init, PageTypes, Pages
<1>2. InputTypes /\ LoadsInv
  BY DEF Init, InputTypes, LoadsInv, LoadTypes, OneNewest, NewestIsAsked, OneInit,
         ChartsShowWhatWasAskedLast, Waiting
<1>3. InitIsFirst /\ OpenedIsIdle /\ PollingIsAlive /\ DrawnIsCurrent
  BY DEF Init, InitIsFirst, OpenedIsIdle, PollingIsAlive, DrawnIsCurrent
<1> QED
  BY <1>1, <1>2, <1>3 DEF DashboardInv

\* refreshHistory loads what is in focus and is scheduled again; a hidden page
\* is only scheduled.
LEMMA RefreshKeeps ==
    ASSUME DashboardInv, InputTypes', page # "opened", hidden' \in BOOLEAN,
           UNCHANGED <<serving, saving>>, NEW armed \in BOOLEAN, Refresh(armed)
    PROVE  DashboardInv'
<1>t. PageTypes /\ LoadsInv /\ InitIsFirst /\ LoadTypes /\ page' = page
  BY DEF DashboardInv, LoadsInv, Refresh
<1>1. CASE hidden'
  <2>1. timer' = TRUE /\ UNCHANGED <<charts, loads>>
    BY <1>1 DEF Refresh
  <2>2. LoadsInv' /\ DrawnIsCurrent'
    <3>1. CASE page = "running"
      <4>1. asked' = asked
        BY <1>1, <3>1 DEF Refresh
      <4>2. LoadsInv'
        BY <1>t, <2>1, <4>1 DEF LoadsInv, LoadTypes, OneNewest, NewestIsAsked, OneInit,
              ChartsShowWhatWasAskedLast, Waiting
      <4> QED
        BY <1>1, <1>t, <3>1, <4>2 DEF DrawnIsCurrent
    <3>2. CASE page # "running"
      <4>1. LeftForThePoll
        BY <1>1, <3>2 DEF Refresh
      <4> QED
        BY <1>t, <2>1, <4>1, LeftForThePollEffect DEF DrawnIsCurrent
    <3> QED
      BY <3>1, <3>2
  <2>3. PageTypes'
    BY <1>t, <2>1 DEF PageTypes
  <2> QED
    BY <1>t, <2>1, <2>2, <2>3
       DEF DashboardInv, InitIsFirst, OpenedIsIdle, PollingIsAlive
<1>2. CASE ~hidden'
  <2>1. /\ LoadHistory("refresh", loads, charts)
        /\ timer' = (armed \/ Focus' = 0)
    BY <1>2 DEF Refresh
  <2>2. /\ LoadsInv'
        /\ asked'.outcome = "drawn" => charts' = Focus'
        /\ Focus' = 0 \/ \E k \in loads' : k.by = "refresh"
        /\ \A k \in loads' : k.by = "refresh" \/ \E l \in loads : k.by = l.by
    <3>1. charts \in Ids \cup {0} /\ loads \in SUBSET loads
      BY <1>t DEF LoadTypes
    <3> QED
      BY <1>t, <2>1, <3>1, LoadHistoryEffect
  <2>3. timer' \in BOOLEAN /\ (Focus' = 0 => timer')
    BY <2>1, Zenon
  <2>4. PageTypes'
    BY <1>t, <2>3 DEF PageTypes
  <2>5. InitIsFirst'
    BY <1>t, <2>2 DEF InitIsFirst
  <2>6. PollingIsAlive'
    BY <2>2, <2>3 DEF PollingIsAlive
  <2> QED
    BY <1>t, <2>2, <2>4, <2>5, <2>6 DEF DashboardInv, OpenedIsIdle, DrawnIsCurrent
<1> QED
  BY <1>1, <1>2

\* A load that is no longer awaited leaves the others as they were.
LEMMA ResolvesKeeps ==
    ASSUME DashboardInv, NEW l \in loads, NEW drawn \in BOOLEAN,
           drawn => l.newest /\ Focus = l.net, ~drawn => ~l.newest,
           UNCHANGED <<serving, inputs, hidden, saving>>, Resolves(l, drawn)
    PROVE  DashboardInv'
<1>t. /\ InputTypes /\ PageTypes /\ LoadsInv /\ LoadTypes /\ OneNewest /\ NewestIsAsked
      /\ OneInit /\ InitIsFirst /\ ChartsShowWhatWasAskedLast
  BY DEF DashboardInv, LoadsInv
<1>1. /\ loads' = loads \ {l} /\ Focus' = Focus /\ l \in Load
      /\ page' = IF l.by = "init" THEN "running" ELSE page
      /\ UNCHANGED <<serving, networks, mine, filter, live, hidden, saving>>
  BY <1>t DEF Resolves, Then, Focus, inputs, LoadTypes
<1>2. timer' \in BOOLEAN /\ (timer \/ l.by \in {"init", "refresh"} => timer')
  BY Zenon DEF Resolves, Then
<1>3. LoadsInv' /\ (asked'.outcome = "drawn" => asked.outcome = "drawn" \/ charts' = Focus')
                /\ (charts' = charts \/ charts' = Focus')
  <2>1. CASE drawn
    <3>1. charts' = l.net /\ asked' = [asked EXCEPT !.outcome = "drawn"]
      BY <2>1 DEF Resolves
    <3>2. /\ asked'.net = asked.net /\ asked'.outcome = "drawn"
          /\ asked' \in [net : Ids \cup {0}, outcome : {"none", "waiting", "drawn", "failed"}]
      BY <1>t, <3>1 DEF LoadTypes
    <3>3. l.newest /\ l.net = asked.net /\ l.net = Focus /\ l.net \in Ids
      BY <1>1, <1>t, <2>1 DEF NewestIsAsked, Load
    <3>4. \A k \in loads' : ~k.newest
      BY <1>1, <1>t, <3>3 DEF OneNewest
    <3>5. LoadTypes'
      BY <1>1, <1>t, <3>1, <3>2, <3>3 DEF LoadTypes
    <3>6. OneNewest' /\ NewestIsAsked' /\ OneInit' /\ ChartsShowWhatWasAskedLast'
      BY <1>1, <1>t, <3>1, <3>2, <3>3, <3>4
         DEF OneNewest, NewestIsAsked, OneInit, ChartsShowWhatWasAskedLast, Waiting
    <3> QED
      BY <1>1, <3>1, <3>3, <3>5, <3>6 DEF LoadsInv
  <2>2. CASE ~drawn
    <3>1. UNCHANGED <<charts, asked>> /\ ~l.newest
      BY <2>2 DEF Resolves
    <3>2. LoadTypes' /\ OneNewest' /\ NewestIsAsked' /\ OneInit'
      BY <1>1, <1>t, <3>1 DEF LoadTypes, OneNewest, NewestIsAsked, OneInit
    <3>3. ChartsShowWhatWasAskedLast'
      BY <1>1, <1>t, <3>1 DEF ChartsShowWhatWasAskedLast, Waiting
    <3> QED
      BY <3>1, <3>2, <3>3 DEF LoadsInv
  <2> QED
    BY <2>1, <2>2
<1>4. InitIsFirst'
  BY <1>1, <1>t DEF InitIsFirst, OneInit
<1>5. PollingIsAlive'
  BY <1>1, <1>2 DEF DashboardInv, PollingIsAlive
<1>6. DrawnIsCurrent'
  BY <1>1, <1>3, <1>t DEF DashboardInv, DrawnIsCurrent, InitIsFirst
<1>7. PageTypes' /\ InputTypes'
  BY <1>1, <1>2, <1>t DEF PageTypes, InputTypes, Pages
<1>8. OpenedIsIdle'
  BY <1>1, <1>t DEF DashboardInv, OpenedIsIdle
<1> QED
  BY <1>3, <1>4, <1>5, <1>6, <1>7, <1>8 DEF DashboardInv

\* An answer is drawn, dropped, or followed by the load of what is now in focus.
LEMMA AnswerKeeps ==
    ASSUME DashboardInv, NEW l \in loads, Answer(l)
    PROVE  DashboardInv'
<1>t. /\ InputTypes /\ PageTypes /\ LoadsInv /\ LoadTypes /\ OneNewest /\ NewestIsAsked
      /\ OneInit /\ InitIsFirst /\ OpenedIsIdle /\ l \in Load
  BY DEF DashboardInv, LoadsInv, LoadTypes
<1>1. CASE ~l.newest \/ Focus = l.net
  <2>1. l.newest \in BOOLEAN
    BY <1>t, Zenon DEF Load
  <2>2. /\ UNCHANGED <<serving, inputs, hidden, saving>>
        /\ Resolves(l, l.newest)
    BY <1>1 DEF Answer
  <2> QED
    BY <1>1, <2>1, <2>2, ResolvesKeeps
<1>2. CASE l.newest /\ Focus # l.net
  <2>1. /\ UNCHANGED <<serving, inputs, hidden, saving>>
        /\ LoadHistory(l.by, loads \ {l}, l.net)
        /\ IF Focus = 0 THEN Then(l.by) ELSE UNCHANGED <<timer, page>>
    BY <1>2 DEF Answer
  <2>2. /\ InputTypes' /\ Focus' = Focus
    BY <1>t, <2>1 DEF InputTypes, inputs, Focus
  <2>3. /\ loads \ {l} \in SUBSET loads /\ l.net \in Ids \cup {0}
        /\ l.by \in {"init", "refresh", "other"}
        /\ l.by = "init" => \A k \in loads \ {l} : k.by # "init"
    BY <1>t DEF Load, OneInit
  <2>4. /\ LoadsInv'
        /\ asked'.outcome = "drawn" => charts' = Focus'
        /\ Focus' = 0 \/ \E k \in loads' : k.by = l.by
        /\ \A m \in loads \ {l} : \E k \in loads' : k.by = m.by
        /\ \A k \in loads' : \/ k.by = l.by /\ Focus' # 0
                             \/ \E m \in loads \ {l} : k.by = m.by
    BY <1>t, <2>1, <2>2, <2>3, LoadHistoryEffect
  <2>5. /\ page' = IF Focus = 0 /\ l.by = "init" THEN "running" ELSE page
        /\ timer' \in BOOLEAN /\ (timer => timer')
        /\ Focus = 0 /\ l.by \in {"init", "refresh"} => timer'
        /\ UNCHANGED <<serving, hidden, saving>>
    <3>1. CASE Focus = 0
      BY <2>1, <3>1, Zenon DEF Then
    <3>2. CASE Focus # 0
      BY <1>t, <2>1, <3>2 DEF PageTypes
    <3> QED
      BY <3>1, <3>2
  <2>6. PageTypes'
    BY <1>t, <2>5 DEF PageTypes, Pages
  <2>7. InitIsFirst'
    BY <1>t, <2>2, <2>3, <2>4, <2>5 DEF InitIsFirst, OneInit
  <2>8. PollingIsAlive'
    BY <2>2, <2>4, <2>5 DEF DashboardInv, PollingIsAlive
  <2>9. OpenedIsIdle'
    BY <1>t, <2>5 DEF OpenedIsIdle
  <2> QED
    BY <2>2, <2>4, <2>6, <2>7, <2>8, <2>9 DEF DashboardInv, DrawnIsCurrent
<1> QED
  BY <1>1, <1>2

\* A failed load leaves what is drawn; one that was to be scheduled still is.
LEMMA FailKeeps ==
    ASSUME DashboardInv, NEW l \in loads, Fail(l)
    PROVE  DashboardInv'
<1>t. /\ InputTypes /\ PageTypes /\ LoadTypes /\ OneNewest /\ NewestIsAsked
      /\ OneInit /\ InitIsFirst /\ ChartsShowWhatWasAskedLast
  BY DEF DashboardInv, LoadsInv
<1>1. /\ loads' = loads \ {l} /\ Focus' = Focus
      /\ page' = IF l.by = "init" THEN "stalled" ELSE page
      /\ UNCHANGED <<serving, networks, mine, filter, live, charts, hidden, saving>>
  BY DEF Fail, Focus, inputs
<1>2. timer' \in BOOLEAN /\ (timer \/ l.by = "refresh" => timer')
  BY Zenon DEF Fail
<1>3. LoadsInv' /\ (asked'.outcome = "drawn" => asked.outcome = "drawn")
  <2>1. CASE l.newest
    <3>1. asked' = [asked EXCEPT !.outcome = "failed"]
      BY <2>1 DEF Fail
    <3>2. /\ asked'.net = asked.net /\ asked'.outcome = "failed"
          /\ asked' \in [net : Ids \cup {0}, outcome : {"none", "waiting", "drawn", "failed"}]
      BY <1>t, <3>1 DEF LoadTypes
    <3>3. \A k \in loads' : ~k.newest
      BY <1>1, <1>t, <2>1 DEF OneNewest
    <3> QED
      BY <1>1, <1>t, <3>2, <3>3 DEF LoadsInv, LoadTypes, OneNewest, NewestIsAsked, OneInit,
            ChartsShowWhatWasAskedLast, Waiting
  <2>2. CASE ~l.newest
    <3>1. asked' = asked
      BY <2>2 DEF Fail
    <3> QED
      BY <1>1, <1>t, <2>2, <3>1 DEF LoadsInv, LoadTypes, OneNewest, NewestIsAsked, OneInit,
            ChartsShowWhatWasAskedLast, Waiting
  <2> QED
    BY <2>1, <2>2
<1>4. InitIsFirst'
  BY <1>1, <1>t DEF InitIsFirst, OneInit
<1>5. PollingIsAlive'
  BY <1>1, <1>2 DEF DashboardInv, PollingIsAlive
<1>6. DrawnIsCurrent'
  BY <1>1, <1>3, <1>t DEF DashboardInv, DrawnIsCurrent, InitIsFirst
<1>7. PageTypes' /\ InputTypes'
  BY <1>1, <1>2, <1>t DEF PageTypes, InputTypes, Pages
<1>8. OpenedIsIdle'
  BY <1>1, <1>t DEF DashboardInv, OpenedIsIdle
<1> QED
  BY <1>3, <1>4, <1>5, <1>6, <1>7, <1>8 DEF DashboardInv

\* The lists that arrive are lists of networks.
LEMMA ListTypes ==
    ASSUME InputTypes, NEW f \in {"all", "provider"}, ListArrives(f)
    PROVE  InputTypes'
<1>1. PICK found \in 0 .. MaxNetworks : networks' = 1 .. found
  BY DEF ListArrives
<1>2. networks' \subseteq Ids
  BY <1>1, DashboardAssumption DEF Ids
<1> QED
  BY <1>2 DEF InputTypes, ListArrives, Ids

\* init asks for the first history, or has none to ask for.
LEMMA InitListsKeeps ==
    ASSUME DashboardInv, InitLists
    PROVE  DashboardInv'
<1>t. InputTypes /\ PageTypes /\ LoadsInv /\ LoadTypes /\ loads = {}
  BY DEF DashboardInv, LoadsInv, OpenedIsIdle, InitLists
<1>1. InputTypes'
  BY <1>t, ListTypes DEF InitLists
<1>2. LoadHistory("init", loads, charts) /\ loads \in SUBSET loads
  BY DEF InitLists
<1>3. /\ LoadsInv'
      /\ asked'.outcome = "drawn" => charts' = Focus'
      /\ \A k \in loads' : Focus' # 0
  BY <1>t, <1>1, <1>2, LoadHistoryEffect DEF LoadTypes
<1>4. /\ page' = IF Focus' = 0 THEN "running" ELSE "first"
      /\ UNCHANGED <<serving, hidden, saving>>
  BY DEF InitLists
<1>5. timer' \in BOOLEAN /\ (Focus' = 0 => timer')
  BY Zenon DEF InitLists
<1> QED
  BY <1>t, <1>1, <1>3, <1>4, <1>5 DEF DashboardInv, PageTypes, Pages, InitIsFirst,
        OpenedIsIdle, PollingIsAlive, DrawnIsCurrent

\* A load that no timer awaits changes the charts only.
LEMMA OtherLoadKeeps ==
    ASSUME DashboardInv, InputTypes', page # "opened", LoadHistory("other", loads, charts),
           UNCHANGED <<serving, page, timer, hidden>>, saving' \in {saving, "no"}
    PROVE  DashboardInv'
<1>t. PageTypes /\ LoadsInv /\ LoadTypes /\ InitIsFirst /\ PollingIsAlive
  BY DEF DashboardInv, LoadsInv
<1>1. /\ LoadsInv'
      /\ asked'.outcome = "drawn" => charts' = Focus'
      /\ \A l \in loads : \E k \in loads' : k.by = l.by
      /\ \A k \in loads' : k.by = "other" \/ \E l \in loads : k.by = l.by
  <2>1. charts \in Ids \cup {0} /\ loads \in SUBSET loads
    BY <1>t DEF LoadTypes
  <2> QED
    BY <1>t, <2>1, LoadHistoryEffect
<1>2. InitIsFirst' /\ PollingIsAlive'
  BY <1>t, <1>1 DEF InitIsFirst, PollingIsAlive
<1>3. PageTypes'
  BY <1>t DEF PageTypes
<1> QED
  BY <1>1, <1>2, <1>3 DEF DashboardInv, OpenedIsIdle, DrawnIsCurrent

\* Another live network brings a load if it moves the focus off what is drawn.
LEMMA ApplyStatusKeeps ==
    ASSUME DashboardInv, ApplyStatus
    PROVE  DashboardInv'
<1>t. InputTypes /\ PageTypes /\ LoadsInv /\ ChartsShowWhatWasAskedLast
  BY DEF DashboardInv, LoadsInv
<1>1. /\ InputTypes' /\ UNCHANGED <<serving, networks, mine, filter, hidden, saving>>
      /\ page # "opened"
  BY <1>t DEF ApplyStatus, InputTypes, Ids, Streaming
<1>2. CASE charts # 0 /\ Focus' # charts
  <2>1. Refresh(timer) /\ timer \in BOOLEAN /\ hidden' \in BOOLEAN
    BY <1>2, <1>t, <1>1 DEF ApplyStatus, PageTypes
  <2> QED
    BY <1>1, <2>1, RefreshKeeps
<1>3. CASE ~(charts # 0 /\ Focus' # charts)
  <2>1. UNCHANGED <<page, charts, loads, asked, timer>>
    BY <1>3 DEF ApplyStatus, loading
  <2>2. Focus = 0 => Focus' = 0
    <3>1. Active(networks, mine, filter) \in SUBSET Ids
      BY <1>t DEF InputTypes, Active
    <3>2. /\ Focus = FocusOf(Active(networks, mine, filter), live)
          /\ Focus' = FocusOf(Active(networks, mine, filter), live')
      BY <1>1 DEF Focus
    <3> QED
      BY <3>1, <3>2, FocusIsActive
  <2>3. DrawnIsCurrent'
    BY <1>1, <1>3, <2>1, <2>2 DEF DashboardInv, DrawnIsCurrent
  <2>4. LoadsInv'
    BY <1>t, <2>1 DEF LoadsInv, LoadTypes, OneNewest, NewestIsAsked, OneInit,
          ChartsShowWhatWasAskedLast, Waiting
  <2> QED
    BY <1>1, <1>t, <2>1, <2>3, <2>4
       DEF DashboardInv, PageTypes, InitIsFirst, OpenedIsIdle, PollingIsAlive
<1> QED
  BY <1>2, <1>3

\* Every step keeps the charts on what was asked, the page looking and the
\* charts that are drawn current.
LEMMA StepDashboard == DashboardInv /\ [Next]_vars => DashboardInv'
<1> SUFFICES ASSUME DashboardInv, [Next]_vars PROVE DashboardInv'
  OBVIOUS
<1>t. /\ InputTypes /\ PageTypes /\ LoadsInv /\ LoadTypes /\ InitIsFirst /\ OpenedIsIdle
      /\ PollingIsAlive /\ DrawnIsCurrent /\ ChartsShowWhatWasAskedLast
      /\ timer \in BOOLEAN /\ serving \in BOOLEAN
  BY DEF DashboardInv, LoadsInv, PageTypes
<1>l. UNCHANGED loading => LoadsInv'
  BY <1>t DEF loading, LoadsInv, LoadTypes, OneNewest, NewestIsAsked, OneInit,
              ChartsShowWhatWasAskedLast, Waiting
<1>1. CASE InitLists
  BY <1>1, InitListsKeeps
<1>2. CASE InitFails
  <2>1. /\ UNCHANGED <<serving, inputs, loading, hidden, saving>>
        /\ page = "opened" /\ page' = "unlisted" /\ loads = {}
    BY <1>2, <1>t DEF InitFails, OpenedIsIdle
  <2> QED
    BY <1>l, <1>t, <2>1 DEF inputs, loading, DashboardInv, InputTypes, PageTypes, Pages,
          InitIsFirst, OpenedIsIdle, PollingIsAlive, DrawnIsCurrent, Focus
<1>3. CASE TimerFires
  <2>1. /\ InputTypes' /\ UNCHANGED <<serving, saving>> /\ hidden' \in BOOLEAN
        /\ page # "opened" /\ Refresh(FALSE)
    BY <1>3, <1>t DEF TimerFires, inputs, InputTypes, PageTypes, OpenedIsIdle
  <2> QED
    BY <2>1, RefreshKeeps
<1>4. CASE ApplyStatus
  BY <1>4, ApplyStatusKeeps
<1>5. CASE ChooseFilter
  <2>1. /\ InputTypes' /\ UNCHANGED <<serving, saving>> /\ hidden' \in BOOLEAN
        /\ page # "opened" /\ Refresh(timer)
    BY <1>5, <1>t DEF ChooseFilter, InputTypes, PageTypes
  <2> QED
    BY <1>t, <2>1, RefreshKeeps
<1>6. CASE Hide
  BY <1>6, <1>l, <1>t DEF Hide, inputs, loading, DashboardInv, InputTypes, PageTypes,
        InitIsFirst, OpenedIsIdle, PollingIsAlive, DrawnIsCurrent, Focus
<1>7. CASE Show
  <2>1. CASE page = "running"
    <3>1. /\ InputTypes' /\ UNCHANGED <<serving, saving>> /\ hidden' \in BOOLEAN
          /\ page # "opened" /\ Refresh(timer)
      BY <1>7, <1>t, <2>1 DEF Show, inputs, InputTypes
    <3> QED
      BY <1>t, <3>1, RefreshKeeps
  <2>2. CASE page # "running"
    BY <1>7, <1>l, <1>t, <2>2 DEF Show, inputs, loading, DashboardInv, InputTypes,
          PageTypes, InitIsFirst, OpenedIsIdle, PollingIsAlive, DrawnIsCurrent, Focus
  <2> QED
    BY <2>1, <2>2
<1>8. CASE SpeedTestEnds
  <2>1. InputTypes'
    BY <1>8, <1>t DEF SpeedTestEnds, inputs, InputTypes
  <2> QED
    BY <1>8, <2>1, OtherLoadKeeps DEF SpeedTestEnds
<1>9. CASE SavePosted
  <2>1. saving' \in {"no", "network", "provider"} /\ page # "opened"
    BY <1>9 DEF SavePosted
  <2>2. UNCHANGED <<serving, page, inputs, loading, hidden>>
    BY <1>9 DEF SavePosted
  <2> QED
    BY <1>l, <1>t, <2>1, <2>2 DEF inputs, loading, DashboardInv, InputTypes,
          PageTypes, InitIsFirst, OpenedIsIdle, PollingIsAlive, DrawnIsCurrent, Focus
<1>10. CASE SaveListed
  <2>1. InputTypes' /\ page # "opened"
    BY <1>10, <1>t, ListTypes DEF SaveListed, OpenedIsIdle, InputTypes
  <2>2. UNCHANGED <<serving, page, timer, hidden>> /\ saving' = "no"
    BY <1>10 DEF SaveListed
  <2>3. CASE saving = "network"
    BY <1>10, <2>1, <2>2, <2>3, OtherLoadKeeps DEF SaveListed
  <2>4. CASE saving # "network"
    <3>1. LeftForThePoll /\ UNCHANGED <<charts, loads>>
      BY <1>10, <2>4 DEF SaveListed
    <3>2. LoadsInv' /\ DrawnIsCurrent'
      BY <1>t, <3>1, LeftForThePollEffect DEF DrawnIsCurrent
    <3> QED
      BY <1>t, <2>1, <2>2, <3>1, <3>2 DEF DashboardInv, PageTypes, InitIsFirst,
            OpenedIsIdle, PollingIsAlive
  <2> QED
    BY <2>3, <2>4
<1>11. CASE SaveFails
  <2>1. saving' = "no" /\ UNCHANGED <<serving, page, inputs, loading, hidden>>
    BY <1>11 DEF SaveFails
  <2> QED
    BY <1>l, <1>t, <2>1 DEF inputs, loading, DashboardInv, InputTypes,
          PageTypes, InitIsFirst, OpenedIsIdle, PollingIsAlive, DrawnIsCurrent, Focus
<1>12. CASE Answers
  BY <1>12, AnswerKeeps DEF Answers
<1>13. CASE Fails
  BY <1>13, FailKeeps DEF Fails
<1>14. CASE Stop \/ Resume \/ UNCHANGED vars
  <2>1. UNCHANGED <<page, inputs, loading, hidden, saving>> /\ serving' \in BOOLEAN
    BY <1>14, <1>t DEF Stop, Resume, vars
  <2> QED
    BY <1>l, <1>t, <2>1 DEF inputs, loading, DashboardInv, InputTypes,
          PageTypes, InitIsFirst, OpenedIsIdle, PollingIsAlive, DrawnIsCurrent, Focus
<1> QED
  BY <1>1, <1>2, <1>3, <1>4, <1>5, <1>6, <1>7, <1>8, <1>9, <1>10, <1>11, <1>12, <1>13,
     <1>14 DEF Next

-----------------------------------------------------------------------------
(* The theorems *)

\* The page's state fits together: one load is the newest and for what was
\* asked, one belongs to init, and what is drawn is current.
THEOREM DashboardInvHolds == Spec => []DashboardInv
<1> QED
  BY InitDashboard, StepDashboard, PTL DEF Spec

\* The types, and historySeq gives one load at most the right to draw.
THEOREM DashboardTypeCorrect == Spec => []TypeOK
<1>1. DashboardInv => TypeOK
  <2> SUFFICES ASSUME DashboardInv PROVE TypeOK
    OBVIOUS
  <2>1. InputTypes /\ PageTypes /\ LoadTypes /\ OneNewest
    BY DEF DashboardInv, LoadsInv
  <2> DEFINE newest == {l \in loads : l.newest}
  <2>2. IsFiniteSet(newest) /\ Cardinality(newest) <= 1
    <3>1. CASE newest = {}
      BY <3>1, FS_EmptySet
    <3>2. CASE newest # {}
      <4>1. PICK l : newest = {l}
        BY <2>1, <3>2 DEF OneNewest
      <4> QED
        BY <4>1, FS_Singleton
    <3> QED
      BY <3>1, <3>2
  <2> QED
    BY <2>1, <2>2 DEF InputTypes, PageTypes, LoadTypes, TypeOK
<1> QED
  BY <1>1, DashboardInvHolds, PTL

\* Answers in any order, failures and overtaken loads never draw anything but
\* what was asked for last.
THEOREM ChartsShowWhatWasAskedLastHolds == Spec => []ChartsShowWhatWasAskedLast
<1>1. DashboardInv => ChartsShowWhatWasAskedLast
  BY DEF DashboardInv, LoadsInv
<1> QED
  BY <1>1, DashboardInvHolds, PTL

\* No failure, hidden tab or overtaken load leaves the page without a timer or
\* a load that sets it.
THEOREM PollingIsAliveHolds == Spec => []PollingIsAlive
<1>1. DashboardInv => PollingIsAlive
  BY DEF DashboardInv
<1> QED
  BY <1>1, DashboardInvHolds, PTL

\* On a page in view, no move, filter or list leaves charts drawn for a network
\* out of focus.
THEOREM RefocusedAtOnceHolds == Spec => []RefocusedAtOnce
<1>1. DashboardInv => RefocusedAtOnce
  BY DEF DashboardInv, DrawnIsCurrent, RefocusedAtOnce
<1> QED
  BY <1>1, DashboardInvHolds, PTL
=============================================================================
