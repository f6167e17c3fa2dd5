----------------------------- MODULE Dashboard ------------------------------
(***************************************************************************)
(* The dashboard page (internal/web/static/app.js) against the server      *)
(* (internal/web/server.go): which network the charts show.  The page      *)
(* keeps a copy of the networks, the filter the user chose and the live    *)
(* network the status stream names; it asks for the history of the network *)
(* in focus when one of these changes and on a timer.  Requests are        *)
(* answered in any order, or fail while the server is away; the tab may be *)
(* hidden; the daemon finds new networks and the user assigns them.        *)
(*                                                                         *)
(* Networks are numbered as the store numbers them.  The filter is one     *)
(* provider or "all".  The chart's range is left out: like the filter, it  *)
(* is an input a load reads when it starts and whose change starts a load. *)
(***************************************************************************)
EXTENDS Naturals, FiniteSets

CONSTANTS
    MaxNetworks,   \* bound: networks the daemon ever finds
    MaxLoads       \* bound: history requests in flight

ASSUME DashboardAssumption == MaxNetworks \in Nat /\ MaxLoads \in Nat \ {0}

VARIABLES
    serving,   \* whether the server answers, and without an error
    page,      \* how far init has come
    networks,  \* state.networks, the ids
    mine,      \* those of them with the provider of the filter
    filter,    \* state.selectedProvider
    live,      \* state.liveNetworkID, 0 if unknown
    charts,    \* the network of state.history; 0 stands for null
    loads,     \* the calls of loadHistory that wait for their answer
    asked,     \* history: the network of the newest load, and how it went
    timer,     \* whether historyTimer is set
    hidden,    \* document.hidden
    saving     \* the save that waits for its list of networks

inputs == <<networks, mine, filter, live>>
loading == <<charts, loads, asked, timer>>
vars == <<serving, page, inputs, loading, hidden, saving>>

-----------------------------------------------------------------------------
(* Types *)

Ids == 1 .. MaxNetworks

\* A load knows whether it is the newest (seq = historySeq) and who awaits it.
Load == [net : Ids, newest : BOOLEAN, by : {"init", "refresh", "other"}]

\* "unlisted": init failed on the lists, nothing else was started;
\* "stalled": it failed on the first history, the stream goes on.
Pages == {"opened", "unlisted", "first", "stalled", "running"}
Streaming == page \in {"first", "stalled", "running"}

TypeOK ==
    /\ serving \in BOOLEAN /\ timer \in BOOLEAN /\ hidden \in BOOLEAN
    /\ page \in Pages
    /\ networks \subseteq Ids /\ mine \subseteq networks
    /\ filter \in {"all", "provider"}
    /\ live \in Ids \cup {0}
    /\ charts \in Ids \cup {0}
    /\ loads \subseteq Load
    /\ Cardinality({l \in loads : l.newest}) <= 1
    /\ asked \in [net : Ids \cup {0}, outcome : {"none", "waiting", "drawn", "failed"}]
    /\ saving \in {"no", "network", "provider"}

Init ==
    /\ serving = TRUE
    /\ page = "opened"
    /\ networks = {} /\ mine = {} /\ filter = "all" /\ live = 0
    /\ charts = 0 /\ loads = {} /\ timer = FALSE
    /\ asked = [net |-> 0, outcome |-> "none"]
    /\ hidden = FALSE
    /\ saving = "no"

-----------------------------------------------------------------------------
(* Loading the charts *)

Active(all, own, f) == IF f = "all" THEN all ELSE own

\* focusNetworkID: the live network if the filter has it, else the first.
FocusOf(active, l) ==
    IF l \in active THEN l
    ELSE IF active = {} THEN 0
    ELSE CHOOSE n \in active : \A k \in active : n <= k
Focus == FocusOf(Active(networks, mine, filter), live)

\* Mutant: what is in flight stays the newest.
KeepNewest(ls) == ls

\* historySeq moves on: what is in flight is no longer the newest.
Overtake(ls) == {[l EXCEPT !.newest = FALSE] : l \in ls}

\* Mutant: without a network in focus, the history of network 0 is asked for.
LoadHistoryOfNone(by, others, kept) ==
    /\ Cardinality(others) < MaxLoads
    /\ charts' = kept
    /\ loads' = Overtake(others) \cup {[net |-> Focus', newest |-> TRUE, by |-> by]}
    /\ asked' = [net |-> Focus', outcome |-> "waiting"]

\* loadHistory, with the inputs as they are after the step: others are the
\* loads that stay in flight, kept the charts until the answer.
LoadHistory(by, others, kept) ==
    /\ Cardinality(others) < MaxLoads
    /\ IF Focus' = 0
       THEN /\ charts' = 0
            /\ loads' = Overtake(others)
            /\ asked' = [net |-> 0, outcome |-> "drawn"]
       ELSE /\ charts' = kept
            /\ loads' = Overtake(others) \cup {[net |-> Focus', newest |-> TRUE, by |-> by]}
            /\ asked' = [net |-> Focus', outcome |-> "waiting"]

\* What follows a load that drew, was overtaken or had nothing to load.
Then(by) ==
    /\ timer' = (timer \/ by \in {"init", "refresh"})
    /\ page' = IF by = "init" THEN "running" ELSE page

\* History: what was drawn no longer fits, and nothing looks before the poll.
LeftForThePoll ==
    asked' = IF asked.outcome = "drawn" /\ Focus' # asked.net
             THEN [asked EXCEPT !.outcome = "none"] ELSE asked

\* Mutant: a hidden page forgets to look again.
RefreshOrForget(armed) ==
    /\ UNCHANGED page
    /\ IF hidden'
       THEN timer' = armed /\ UNCHANGED <<charts, loads, asked>>
       ELSE LoadHistory("refresh", loads, charts) /\ timer' = (armed \/ Focus' = 0)

\* refreshHistory and scheduleHistory; armed: the timer is set already.  A
\* page hidden before init ended does not notice when it is shown again.
Refresh(armed) ==
    /\ UNCHANGED page
    /\ IF hidden'
       THEN /\ timer' = TRUE
            /\ UNCHANGED <<charts, loads>>
            /\ IF page = "running" THEN UNCHANGED asked ELSE LeftForThePoll
       ELSE LoadHistory("refresh", loads, charts) /\ timer' = (armed \/ Focus' = 0)

\* The promise of a load resolves.
Resolves(l, drawn) ==
    /\ loads' = loads \ {l}
    /\ Then(l.by)
    /\ IF drawn
       THEN charts' = l.net /\ asked' = [asked EXCEPT !.outcome = "drawn"]
       ELSE UNCHANGED <<charts, asked>>

\* An older load's answer is dropped.  The newest one's is kept; if the focus
\* has moved meanwhile, the load goes on with the network now in focus.
Answer(l) ==
    /\ serving
    /\ UNCHANGED <<serving, inputs, hidden, saving>>
    /\ IF ~l.newest \/ Focus = l.net
       THEN Resolves(l, l.newest)
       ELSE /\ LoadHistory(l.by, loads \ {l}, l.net)
            /\ IF Focus = 0 THEN Then(l.by) ELSE UNCHANGED <<timer, page>>

\* Mutant: only a load that succeeds schedules the next.
FailForGood(l) ==
    /\ ~serving
    /\ loads' = loads \ {l}
    /\ asked' = IF l.newest THEN [asked EXCEPT !.outcome = "failed"] ELSE asked
    /\ page' = IF l.by = "init" THEN "stalled" ELSE page
    /\ UNCHANGED <<serving, inputs, charts, timer, hidden, saving>>

\* A failed load leaves the charts; refreshHistory schedules the next one,
\* init does not come to that.
Fail(l) ==
    /\ ~serving
    /\ loads' = loads \ {l}
    /\ asked' = IF l.newest THEN [asked EXCEPT !.outcome = "failed"] ELSE asked
    /\ page' = IF l.by = "init" THEN "stalled" ELSE page
    /\ timer' = (timer \/ l.by = "refresh")
    /\ UNCHANGED <<serving, inputs, charts, hidden, saving>>

-----------------------------------------------------------------------------
(* What makes the page load *)

\* The lists, as the store has them now: it never loses a network, and has the
\* live one; what saves and ticks assigned meanwhile is whatever it is.
ListArrives(f) ==
    /\ serving
    /\ \E found \in 0 .. MaxNetworks :
          /\ networks' = 1 .. found
          /\ networks \cup ({live} \ {0}) \subseteq networks'
    /\ mine' \in SUBSET networks'
    /\ filter' = f
    /\ UNCHANGED live

\* init: the lists, the filter the user had, the stream, the first history.
InitLists ==
    /\ page = "opened"
    /\ \E f \in {"all", "provider"} : ListArrives(f)
    /\ LoadHistory("init", loads, charts)
    /\ page' = IF Focus' = 0 THEN "running" ELSE "first"
    /\ timer' = (Focus' = 0)
    /\ UNCHANGED <<serving, hidden, saving>>

InitFails ==
    /\ page = "opened"
    /\ ~serving
    /\ page' = "unlisted"
    /\ UNCHANGED <<serving, inputs, loading, hidden, saving>>

TimerFires ==
    /\ timer
    /\ UNCHANGED <<serving, inputs, hidden, saving>>
    /\ Refresh(FALSE)

\* Mutant: the live network is noted, the charts wait for the next poll.
NoteStatus ==
    /\ Streaming /\ serving
    /\ \E n \in Ids \ {live} : live' = n
    /\ UNCHANGED <<serving, page, networks, mine, filter, loading, hidden, saving>>

\* applyStatus, when the stream names another network, new or known; a status
\* from before the first tick is ignored.
ApplyStatus ==
    /\ Streaming /\ serving
    /\ \E n \in Ids \ {live} : live' = n
    /\ UNCHANGED <<serving, networks, mine, filter, hidden, saving>>
    /\ IF charts # 0 /\ Focus' # charts
       THEN Refresh(timer)
       ELSE UNCHANGED <<page, loading>>

ChooseFilter ==
    /\ page # "opened" /\ ~hidden
    /\ \E f \in {"all", "provider"} \ {filter} : filter' = f
    /\ UNCHANGED <<serving, networks, mine, live, hidden, saving>>
    /\ Refresh(timer)

\* The user looks at another tab, and back: init's last line listens to that.
Hide ==
    /\ ~hidden
    /\ hidden' = TRUE
    /\ UNCHANGED <<serving, page, inputs, loading, saving>>

Show ==
    /\ hidden
    /\ hidden' = FALSE
    /\ IF page = "running" THEN UNCHANGED inputs /\ Refresh(timer)
                           ELSE UNCHANGED <<page, inputs, loading>>
    /\ UNCHANGED <<serving, saving>>

\* runSpeedtestNow draws the new point.
SpeedTestEnds ==
    /\ page # "opened" /\ serving
    /\ UNCHANGED inputs
    /\ LoadHistory("other", loads, charts)
    /\ UNCHANGED <<serving, page, timer, hidden, saving>>

\* saveNetwork posts the provider of a network the page lists, saveProvider a
\* rule, for which the server assigns what it matches.
SavePosted ==
    /\ page # "opened" /\ ~hidden
    /\ saving = "no" /\ serving
    /\ saving' \in {"provider"} \cup IF networks = {} THEN {} ELSE {"network"}
    /\ UNCHANGED <<serving, page, inputs, loading, hidden>>

\* Either save lists the networks again; only saveNetwork loads the charts.
SaveListed ==
    /\ saving # "no"
    /\ ListArrives(filter)
    /\ IF saving = "network"
       THEN LoadHistory("other", loads, charts)
       ELSE /\ LeftForThePoll
            /\ UNCHANGED <<charts, loads>>
    /\ saving' = "no"
    /\ UNCHANGED <<serving, page, timer, hidden>>

SaveFails ==
    /\ saving # "no"
    /\ ~serving
    /\ saving' = "no"
    /\ UNCHANGED <<serving, page, inputs, loading, hidden>>

-----------------------------------------------------------------------------
(* The server *)

\* The daemon is restarted, or its store fails for a while.
Stop ==
    /\ serving
    /\ serving' = FALSE
    /\ UNCHANGED <<page, inputs, loading, hidden, saving>>

Resume ==
    /\ ~serving
    /\ serving' = TRUE
    /\ UNCHANGED <<page, inputs, loading, hidden, saving>>

Answers == \E l \in loads : Answer(l)
NewestAnswered == \E l \in loads : l.newest /\ Answer(l)
Fails == \E l \in loads : Fail(l)

Next ==
    \/ InitLists \/ InitFails \/ TimerFires \/ ApplyStatus
    \/ ChooseFilter \/ Hide \/ Show \/ SpeedTestEnds
    \/ SavePosted \/ SaveListed \/ SaveFails
    \/ Answers \/ Fails
    \/ Stop \/ Resume

\* Timers fire and requests end.  Polls are 30 s apart, so not every load is
\* overtaken by the next before its answer comes.  Nothing is assumed of the
\* user, the daemon and the server.
Fairness ==
    /\ WF_vars(TimerFires)
    /\ WF_vars(Answers) /\ WF_vars(Fails) /\ SF_vars(NewestAnswered)
    /\ WF_vars(SaveListed \/ SaveFails)

Spec == Init /\ [][Next]_vars /\ Fairness

-----------------------------------------------------------------------------
(* Properties *)

Waiting == \E l \in loads : l.newest

\* Whatever order the answers come in, the charts are what the page asked for
\* last, once that was answered; an older answer never takes their place
\* (app.js:67-82).
ChartsShowWhatWasAskedLast ==
    /\ asked.outcome = "drawn" => charts = asked.net
    /\ asked.outcome = "waiting" <=> Waiting

\* The page never stops looking: after init, through failures, hidden tabs and
\* overlapping loads, the timer is set or a load that will set it is in flight
\* (app.js:742-750).
PollingIsAlive ==
    page = "running" => timer \/ \E l \in loads : l.by = "refresh"

\* "Refocus the charts on it right away instead of waiting for the next poll"
\* (app.js:111-112): on a page in view, charts drawn are those of the network
\* in focus, however the live network or the filter changed before, during or
\* after the load, and whatever list came meanwhile.  Two moves wait for the
\* poll (LeftForThePoll): a list that saveProvider brings to charts already
\* drawn, and what happens on a page that was hidden before init ended.
RefocusedAtOnce ==
    page = "running" /\ ~hidden /\ asked.outcome = "drawn" => charts = Focus

\* Nothing stands in the way of the charts.
Undisturbed == page = "running" /\ serving /\ ~hidden

\* After any history of failures, moves and saves, the charts settle on the
\* network in focus once the page is in view and the server answers.
ChartsFollowFocus ==
    \A n \in Ids :
        <>[](Undisturbed /\ Focus = n) => <>[](charts = n)

\* "The live one if it matches the filter" (app.js:59-60): every network does
\* under "all"; a network found since the page read its list does not.
ChartsFollowTheLine ==
    \A n \in Ids :
        <>[](Undisturbed /\ filter = "all" /\ live = n) => <>[](charts = n)
=============================================================================
