# netqa in TLA+

netqa logs the quality of an internet connection on macOS and keeps evidence of
outages that the ISP, and not the user's own setup, is to blame for. A ticking
daemon probes the line, a SQLite store keeps samples, outages and speed tests, and
a local dashboard shows and edits them. This directory models the parts where the
evidence could go wrong, checks them with TLC and proves the most important
results with TLAPS.

## The system

| Part | State | Operations | What makes it correct | What is hard |
|---|---|---|---|---|
| Classifier (`internal/outage`) | none | `Classify`, `CountsAgainstISP` | evidence exactly under the README's definition of an outage | order of the switch |
| Outage recorder (`internal/daemon`: `tick`, `manageOutage`, `captureTraceroute`) | `lastSeen`, `status`, `window`; tables samples, outages, traceroutes | one tick: observe, resolve, probe, store samples, open or close, publish; a traceroute in the background | only observed time is billed, no time twice, closed rows are final, status, figures and rows agree | sleep, roaming, restarts, exit inside a tick, store errors, two clocks, one deadline for a whole tick |
| Speed-test scheduler (`internal/daemon`: `throughputLoop`, `measureThroughput`; `netqa speedtest`) | `tpRun`, `measuring`, `lastTPRun`; table throughput | automatic, forced and CLI test | one test at a time, spacing, metered cap | three kinds of actors, a flag that is looked at once, stale status |
| Transfer (`internal/throughput`) | one sum and one flag shared by a test's goroutines | size, streams, shares; `download`, `upload` | no request over the server's limit, the shares are the payload, the line carries no more than the budget was asked for | clamps, rounding, streams that fail one by one |
| Network identity (`internal/netid`) | hidden-MAC key; tables networks and providers | `Resolve`, `hiddenKey`, `ReassignUnassigned` | a network keeps the provider its user chose, an ISP is registered once, a VPN never names a network, outages are booked where they were | read-modify-write without transactions, lookups over the line that is being judged, equal gateway addresses, memory that dies with the process |
| Store (`internal/store`) | the database | one SQL statement per call; `UpsertNetwork` is two | blank values never wipe known ones; queries answer what they say | lost updates, boundaries of spans and buckets |
| Dashboard server (`internal/web`) | none of its own | POST handlers, history, stream, `/healthz` | writes do what the user asked, a history is one story | four queries without a transaction |
| Dashboard script (`app.js`) | networks, filter, live network, history, timer | `loadHistory`, `refreshHistory`, `applyStatus`, saves | the charts are of the network in focus, polling never dies | answers out of order, failures, hidden tabs, stale lists |
| Main (`cmd/netqa`) | watchdog counter, listener | serve, signal, watchdog, restart by launchd | a wedged process is replaced, a healthy one left alone | exit without waiting for the tick, cancelled probes |
| Metered detection, notifications, traceroute command, parsers, configuration | none | one external call or a text conversion each | - | - |

Interaction: the tick calls the resolver (which calls the lookup service and the
store), the probers, the classifier and the store, and publishes the status under a
lock. The speed-test loop and the dashboard's requests read that status, share a
lock among themselves and a flag with the tick. Dashboard requests write providers
and networks while the tick resolves, and read the tables while it writes them.
`netqa speedtest` is another process on the same database. The page hears the status
over a stream and asks for everything else. Everything survives in the database
only; the rest is memory.

## Modules

`Classifier` is the classifier as an operator on the whole input record.

`OutageLog` (extends Classifier) is one daemon process. The variable `pc` is its
place in the tick, `tick` the tick's locals; `lastSeen` and `status` are the fields
of `Daemon`; `samples` and `outages` are the tables. Actions: `TickBegin`,
`Resolve`, `ResolveFails`, `Probe` (one target), the four ways through the first
half of `manageOutage` (`NothingOngoing`, `StaysOngoing`, `GapCloses`,
`LookupFails`), its second half `Settle`, `Publish`; `Start` and `Exit` of the
process; `Elapse`, `Sleep` and `Move` of the machine. Every store call may fail.
A `time.Time` of one process has a wall and a monotonic reading and differences use
the latter; what the store returns has the wall reading only. The history variable
`faults` dates the faults, so that a property can say which ones excuse it. Since
samples are a set, the samples of one tick to one network with one outcome are one.
Not in the state: the class of an outage (the daemon never sets `PathBreaksPastISP`,
so it is always "isp"), the VPN flag, round-trip times, the Traceroute of an outage.

`Ledger` is what the outages table promises a reader, with nothing of the tick: a log
to which one outage of a network at a time is opened, after all it had, and whose
newest open outage is closed, once, at a time that has come; only a store that
refused a call leaves two open. `OutageLog` implements it under `log <- outages`,
`now <- clock.wall` and `trouble <-` "a store call has failed".

`HiddenKey` is where the rows of OutageLog come from when the OS hides the router's
MAC: `hiddenKey` with its remembered key and its lifetime, one action per outcome
(`ResolveVisible`, `ResolveRemembered`, `ResolveLookedUp`, `ResolveUnanswered`),
then `Manage`, which is `manageOutage` reduced to which row has an open outage. The
machine moves between places (two of them with the same gateway address), the line
is up, down or dark (packets vanish), the lookup service comes and goes, the process
exits and starts again between any two steps. The key's age saturates at its
lifetime, so no bound on time is needed. The gap logic is in OutageLog: a gap closes
and, while the line is down, reopens the outage of the same row within one tick.

`History` is what is read of the past while it is being written: the tick as the
writer of samples, window (`Add`, `Count`), outages and figures, the detached
traceroute (`CaptureEnds`), restarts, and a history request that reads buckets,
outages and traceroutes in separate steps, each of which may fail. The store may refuse
every write: a sample it refuses (`daemon.go:260-265`, only logged) is in the window and
not in the log, and the history variable `refused` keeps it. Its queries are operators
(`SampleBuckets`, `Points`, `OutagesBetween`, `TracesBetween`). Averages are kept as
sums and counts, counted along the window by a recursive function (`Tallies`). Two
readings of the clock differ.

`Dashboard` is the page against the server. A load is a record in flight, which knows
whether it is the newest (`seq === historySeq`) and who awaits it (`init`,
`refreshHistory`, or another); `Answer` and `Fail` end it in any order. `charts` is
the network of `state.history`, `timer` the poll. `ListArrives` is any list the
server may give: the daemon only ever adds networks, and has the live one. The range
selector is left out because it acts as the filter does. `asked` is a history
variable.

`Service` (extends Classifier) is the process under one context. The tick is shown
as what its ten-second deadline makes of it: `env.Observe`'s commands (`TickBegin`), up to
two `Lookups`, then `Echo` and `Connect` for the gateway and each target spend the same
budget. Commands take any time there is, a lookup any time up to its timeout,
answered or not; an echo is answered, lasts its timeout or fails at once (no socket,
no such address) and goes straight on to TCP. Time is counted in whole seconds. The
echo heeds the deadline and not the cancellation, the connect both. The history
variable `late` says that nothing was left of the deadline when the gateway's turn
came. Targets are addresses, as the defaults are: looking up a name is left out.
`Asks`, `Hears`, `TimesOut`, `Cancelled`, `Quits` are the watchdog; `Start`, `Stop`, `MainReturns`, `Crash` the
process; launchd's KeepAlive is that `Start` is possible whenever it is down. A
snapshot with a link but no gateway, or the converse, does not exist (`env.Observe`
defines one by the other).

`SpeedTest` is the scheduler: the loop (`Loop`), dashboard requests (`Forced`), the
CLI, and the part of the tick they can disturb. `Ask`, `Lock`, `Gate`, `Begin`,
`MeasureReturns` and `Record` are `measureThroughput` between its points of
interleaving. A test costs `Cost`; a row remembers who wrote it and in which process.

`Payload` has the sizing functions of a test as operators: `BytesForMbit`,
`StreamsFor`, `SplitBytes`. Plans are whole numbers of Mbit.

`Transfer` (extends Payload) is the inside of `SpeedTest`'s one step: `Start` sizes a
test and sets out the download's goroutines (`stream`), each of which is answered,
refused, read or broken off (`Answered`, `Refused`, `Read`) and adds what it read to
`sum`; `Downloaded` is `wg.Wait` and the verdict on `ok`, after which `Sent`,
`SendFails` and `Uploaded` do the same for the upload. `moved` and `short` are history
variables: what really went over the line, and whether any stream fell short. A rate
is shown as the bytes it is computed from; time is left out. The server is external:
it refuses requests of more than `RequestMax`, and breaks off where it likes.

`NetworkIdentity` has the two tables and, as records of locals, `resolver`
(`Resolve` of the tick), `backfill` (`handleProviders` and `ReassignUnassigned`, or
the backfill `mustServe` runs at start) and `chooser` (`handleNetworks`). One action
is one SQL statement or one lookup; `Upsert` is the write half of `UpsertNetwork`
on a row read one action earlier. A lookup answers with the AS number of whoever
carries the traffic at that moment, with nothing, or with text that is no AS line
(`fetchOrg` does not look at the HTTP status). A provider's rules are one AS number
and at most one MAC: textual matching is left out. There is one resolver, one
backfill and one chooser at a time; the code also allows several requests of a kind
and a CLI resolver at once, so what is refuted stays refuted and what is checked
under "no two writers at the same time" loses nothing.

How they compose: `OutageLog` lets every probe fail and every network appear;
`Service` says when a probe fails for want of time and `HiddenKey` which row a tick
writes to (its `late` ticks are the ones `Service` shows to run out of time);
`History` reads the tables `OutageLog` writes; `Transfer` is a test between `Begin` and
`MeasureReturns` of `SpeedTest`, and bounds its `Cost`; `Dashboard` takes a history as
the answer to a load. Each takes the others' part as free as it can be.

`MCOutageLog`, `MCNetworkIdentity`, `MCHiddenKey` and `MCHistory` add symmetry and
the values of function constants for TLC. The theorems about a module are in the
module of its name with `Proofs` (those about `Payload` are in `TransferProofs`); the refinement of `Ledger` is in `OutageLogProofs`.

## Runs

| Run | Shows | Bounds |
|---|---|---|
| `outage_log` | With every kind of fault allowed: an outage with no fault in it bills only observed time (`CleanOutagesBillOnlyObservedTime`), rows do not overlap unless the store failed (`NoDoubleBilling`), no row ends before it starts, no success lies inside an outage, status and rows agree, closed rows are final, and the table is a ledger (`ImplementsLedger`). | 2 networks and "no link", 2 targets, `MaxGap` 1, 5 units of wall time, 2 faults |
| `outage_sleep` | `NeverBillsSilence`, which is what the comment at `manageOutage` promises without a condition, is refuted by a sleep. Moving between networks (`Faults = {"Move"}`) or an exit inside a tick (`{"MidTickExit"}`) refute it as well. | `MaxGap` 2, 7 units, 1 fault |
| `speed_test` | One test of the daemon at a time, the flag is set exactly while one transfers, automatic tests are `MinGap` apart, the metered cap holds for what is recorded. | 1 forced request, 4 units of time, 2 processes |
| `identity` | As long as no two writers run at the same time: the user's choice stays, an ISP is registered once (over failures and restarts), nothing known is lost; unless the VPN changes within a resolve, its exit names nothing. | 2 networks of 1 ISP, 2 providers |
| `identity_manual` | A writer that read before the user's choice overwrites it. | overlap allowed |
| `recovery` | A tick writes under the gateway it observed; once a lookup answered at a place, under the place's own network; an outage of that network ends for good when the machine stays there with a working line (`OutagesEnd`); while the line stays down an outage is open under a key of the gateway (`OutagesAreRecorded`). | 4 places, two of them with one gateway address and different lines, a third with the first one's provider, one with a visible MAC; lifetime 1 |
| `recovery_hidden` | An outage recorded under the bare gateway address is never closed. | 3 places |
| `history` | The live figures are those of the latest results of the process, stored or refused, whatever was cut off; each chart point counts the stored samples of its own time, once; the outage list agrees with the log although ticks go on between the queries; a path is shown with its outage. | 2 networks, 2 targets, window 3, 2 buckets, a span of 2, 4 readings of the clock, 1 refused sample |
| `dashboard` | Only the newest answer is drawn, the poll never dies, the charts are refocused at once (but for a save's list, or a page hidden while it loaded, which wait for the next poll), and settle on the network in focus once the page is in view and served. | 2 networks, 3 loads in flight |
| `dashboard_new` | A network found after the page read its list never comes into focus. | 2 networks, 2 loads |
| `service` | A first target that answers acquits the ISP whatever was late before; a verdict on a silent internet is the ISP's unless observing and lookups took the whole deadline; the watchdog ends the process only after three misses in a row and does so for a server that stays deaf. | the configured values: 3 targets, deadline 10 s, probes 2 s, lookups 5 s, 3 failures |
| `transfer` | However a test's streams end, and in whatever order: the line carries no more than the cost held against the budget, and nothing in a test that fails (which is not recorded); the download's rate counts what came, and both rates are of the whole payload if no stream fell short. Deadlock is checked: a test can always go on. | plans of 0 (unknown), 2 and 40 Mbit down, 0 and 40 up; 4 streams; a stream misses 0 or 750000 bytes |

The bounds let the interesting cases happen: five units of time hold an outage, a
gap, a restart and a recovery; two faults hold every pair; two networks of one ISP
are the least that could register it twice; two providers are one chosen by the user
and one found by a rule; a window of three drops a result within two ticks of two
targets; two places with one gateway address are what the hidden key is for; three
loads are one that was overtaken, one that is the newest and one to come; the plans
have payloads at the lower clamp, between the clamps, above what four requests may ask
for, and the fallbacks, and a stream of the smallest one may lose all of its 750000
bytes; one refused sample, of any target in any tick, parts window and log. The span of
`history` has buckets of one unit; wider ones are left to `PointsCountHolds`. Each
property is broken by a mutant of the code it is about (the definitions marked
`Mutant`), which shows that the bounded instance reaches the states where it could
fail. The `identity*` and `history` runs check no deadlock: with a bounded table of
providers or a bounded clock the system may rest.

`CleanOutagesBillOnlyObservedTime` counts a moment as observed if an observation of
the same network less than `MaxGap` before it lies within the outage.
`MeteredBudgetHolds` is about recorded tests that read the link as metered: a CLI
test records no bytes, a test whose row could not be stored is not counted, and the
link may have become metered since the status was read; the model contains all
three, and none of them is excluded by the code. `ListAgreesWithTheLog` and
`PointsCountTheirTime` leave out the tick in progress when the request came, whose
rows may be stored between two queries. Both are about what the queries select: an
outage that began before the span is not listed at all, and a span is a whole number of
buckets, as the page's are. `OutagesAreRecorded` leaves out a dark line
behind a hidden gateway of which no key is remembered: there two lookups hang, spend
the deadline, and the tick hears nobody, not even the gateway, which `service` shows
to be read as a local fault.

Three comments the code parts from are plain to see and have no run. `OutagesBetween` is said
to return "outages overlapping [from, to]" (`store.go:437`), but selects them by their
start, so an outage that began before the span and lasts into it is not listed;
`ListAgreesWithTheLog` is stated for what the query does. `upload` is said to be
"best-effort: failed streams simply contribute no bytes" (`throughput.go:292`), but adds
a stream's whole share for any answer, also an error or one that came before the share
was through (`Sent`); `RatesAreOfThePayload` therefore compares the download's rate
with what came, and the upload's only when no stream fell short. The watchdog is said
to stop quietly, "so a clean SIGTERM does not trip a spurious exit code"
(`main.go:174-176`), but a probe that is under way when the signal comes fails, and
counts: as the third in a row it ends the process with an error (`Cancelled`).
`OnlyTheDeafAreKilled` therefore allows for a shutdown.

### Fairness

`OutageLog`, `SpeedTest`, `Transfer`, `NetworkIdentity` and `History` state none: their
properties are safety properties.

`HiddenKey`: weak fairness of the steps of a tick (the ticker fires for ever, every
call has a timeout), of `Start` (launchd's KeepAlive, `install.sh`) and of time. Nothing
is assumed of exits, moves, the line or the service: the properties say "if the
machine stays" in their hypothesis (`<>[]`).

`Dashboard`: weak fairness of the timer, of requests ending (an answer or a failure)
and of a save's list; strong fairness that the newest load is answered, since polls
are 30 s apart and not every load is overtaken by the next before its answer comes.
Nothing is assumed of the user, the daemon or the server; the server may stop and
resume for ever.

`Service`: weak fairness of the watchdog's steps, whose ticker fires and whose probe
has a timeout. The daemon's own ticks may hang.

## Proofs

`OutageLogProofs` proves for all networks, numbers of targets, gaps and fault sets
(`ConfigAssumption` is all that is assumed):

- `TypeCorrect`. `TypeOK` is not inductive alone: `Probe` subtracts one from the
  targets left, so the invariant adds that a probing tick has one left.
- `OrderCorrect`: no stored or remembered time is later than the clock, and a tick in
  progress is newer than every row and sample it did not write. Everything below
  rests on it.
- `LedgerCorrect`: network and start name one row (so closing "by id" is closing by
  network and start); two rows of a network do not overlap unless the store failed
  between their starts; and while a tick settles, the outage it holds is open and the
  latest. The third part is why the second is inductive: `Settle` opens a row only
  when the tick found none, or closed the one it found, or failed to.
- `NoDoubleBillingHolds`, `EndAfterStartHolds`, `ClosedEvidenceIsFinalHolds` follow.
- `RecoveryCorrect`: a tick that stored a success knows the internet is up, and a
  success inside an outage is excused only until its tick has settled.
  `NoSuccessInsideHolds` follows.
- `StatusCorrect`: what a tick settled in the table is what it goes on to publish,
  and what was published fits the table until the next tick may settle. It rests on
  `LedgerCorrect`: closing the latest open row leaves open only rows a store failure
  left behind. `LiveStatusAgreesHolds` follows.
- `CleanOutagesHolds`, the main claim: what a row bills was observed. It needs three
  invariants on top of the types, the order and the ledger. `TimesCorrect`: faults are
  dated in the past, and since the last observation the monotonic clock has run with
  the wall clock or a fault is on record, so that a silence the tick measures is as
  long as the samples say. `PlacesCorrect`: faults apart, the machine is still on the
  network of an open outage, which has a sample at its start and one at the last
  observation; without this, an observation of another network could be taken for
  one of this. `CoverCorrect`: faults apart, an open outage is observed without a gap up
  to each of its samples. The samples of the tick in progress are left out until it
  has managed the outage, because they may follow a gap it has still to find: counted
  at once, the invariant would not be inductive. A row is closed at the last
  sample (`GapCloses`) or at a tick less than `MaxGap` after it (`Settle`), which
  carries the invariant of open rows over to closed ones.
- `EvidenceDefinition`: the classifier and `CountsAgainstISP` together are the
  README's definition of an outage.
- `ImplementsLedgerHolds`: every step of the daemon is a step of `Ledger` or a stutter. A
  refused call is `Refuse`, `GapCloses` and `Settle` are `Open`, `Close` or nothing, what
  moves the clock is `Pass`. That the row closed is the newest open one is the query's
  order (`IsOngoing`); that the row opened comes after all others is `Order`; that none
  is open then, unless the store failed, is `LedgerInv`.

`SpeedTestProofs` proves for every budget, gap, window, cost and number of forced
requests (`SpeedTestAssumption` is all that is assumed):

- `TypeCorrect`; the invariant adds that the table is finite, which its numbering
  by cardinality needs.
- `LockCorrect`: whoever is past `TryLock` holds the lock, and the flag is set exactly
  while its holder transfers. `OneTestAtATimeHolds` and `MeasuringMeansTestingHolds`
  follow; the first is not inductive without "holds the lock", the second not without
  the first.
- `GapCorrect`: rows are numbered and dated in the order they are stored, `lastTPRun`
  is no earlier than any automatic row of the running process, and an automatic test
  in progress is `MinGap` after all of them. `SpacingHolds` follows.
- `MeteredBudgetIsKept`. What is inductive is `RunningFits`: from the moment the budget
  was read until the row is stored, the automatic test still fits, because a row of
  the daemon needs the lock it holds, and a row of the CLI has no bytes. Since all tests cost
  the same, the sum over a window is `Cost` times their number.

`HiddenKeyProofs` proves for all places, gateways, lines and lifetimes
(`PlacesAssumption` is all that is assumed): `KeyInv`, which ties the remembered key and
the tick in progress to what was confirmed (a confirmed place has its own AS number
remembered, and a tick that started here resolves to it), and from it
`RowNamesObservedGatewayHolds` and `ConfirmedRowIsRightHolds`.

`TransferProofs` proves, about the operators of `Payload` and for every payload, plan and
number of streams without any assumption: no share exceeds what one request may ask
for (`RequestsFit`), the shares are of one size but for the first ones, which take the
remainder (`RequestsAddUp`), counted byte by byte they are the payload
(`RequestsAreThePayload`), and a test costs between 4 and 125 MB (`CostIsBounded`).

About `Transfer` it proves for all plans, streams and shortfalls (`TransferAssumption`)
both properties of the `transfer` run (`LineCarriesTheCostHolds`, `RatesHold`) and, without
a run, that no request is over the server's limit (`RequestsFitHolds`) and the types
(`TransferTypeCorrect`). None of them is inductive, since they speak of the end of a test
or of its total. `TestInv` ties the books to the goroutines: the sum and what the
streams have still to bring (`Left`) are together the payload, or less once a stream
fell short; nothing is moved before a stream was answered; and there is one goroutine
for each share. What is left is a sum over the streams; it is counted as the
cardinality of a set of units (`Units`), so that no induction over the streams is
needed: a stream that ends takes its units out of the set (`StreamEnds`).

`ServiceProofs` proves for every number of targets, every deadline and every timeout of
lookups and probes (`ServiceAssumption` is all that is assumed): types, `FirstTargetAcquitsHolds`, `OutagesAreSeenHolds` and
`OnlyTheDeafAreKilledHolds`. The invariant follows the deadline through the tick. The
tick is late exactly if nothing is left at the gateway's turn, so a tick that is not
hears a gateway that answers; a gateway that was heard was heard before the deadline,
so the first target still has an echo; and nobody is heard before his turn. For the watchdog:
its counter is never ahead of the probes the server really missed, and is zero while
no process runs.

`NetworkIdentityProofs` proves for all networks, ISPs and numbers of providers
(`IdentityAssumption` is all that is assumed), with overlapping writers and VPN changes
among the behaviours:

- `TypeInvCorrect`: what a writer remembers are ids of rows there are. Providers are never
  deleted, which is why an id read long ago is still one.
- `ExitIsNeverTheISPHolds`: the exit's number is in no table, in no writer's hands, and a tick yet
  to look up knows the VPN for what it is. The writers' copies are needed: a
  number that reached one of them would be stored several steps later.
- `UserChoiceKeptHolds`, `KnownFactsAreKeptHolds`: while writers do not overlap, each one's
  copy of the row it is about to write is the row (`TickIsCurrent`,
  `BackfillIsCurrent` for the row at hand and all that are to do, `ChoiceIsCurrent`), and
  it holds a provider of its own only for a row that has none.
- `AutoProvidersAreUniqueHolds`: what a tick is about to register is not registered, and
  what the backfill knows, which it adds to as it registers, is the table.

`DashboardProofs` proves for every number of networks and loads in flight
`ChartsShowWhatWasAskedLastHolds`, `PollingIsAliveHolds` and `RefocusedAtOnceHolds`. The
invariant (`DashboardInv`): at most one load in flight is the newest, and it is for the
network asked for last; init awaits one load and runs until that is answered; drawn
charts are of the network in focus, also on a page that came to the front without
noticing.

`HistoryProofs` proves for all networks, targets, spans and numbers of buckets
(`HistoryAssumption`: a bucket is a whole number of the clock's units, as the page's are:
an hour in 160 buckets is 22500 ms each):

- `StateCorrect`, `TimesCorrect`: the log, the traceroutes and the request are not ahead
  of the clock, and the tick in progress is the one the request found or one that began
  after the end of the span. That is what makes a log that grows harmless.
- `ListAgreesHolds`: from the moment it was read, the list stays in agreement, because a
  new outage is dated after the span (or by the busy tick), and a row only ever gains its end.
- `PathsHaveTheirOutageHolds`: a traceroute that ended in the span belongs to an outage
  that was in the table when the list was read. The order of the two queries is what the proof
  rests on: read the other way round, a path could come without its outage.
- `PointsCountHolds`: the times of the points divide the span, a sample's bucket by
  division is the point whose time it lies in (`DivBounds`), and what a point has
  counted does not change, because rows stored later are of the busy tick or after the
  span (`CountsStay`).
- `LiveFiguresHolds`: the published figures are those of the latest results of the
  process, stored or refused (`Taken`), for every capacity, number of targets and
  round-trip times. `OrderCorrect`: what a tick has still to probe follows all that was
  taken, so a new result has the last rank (`LastRanks`). `WindowCorrect`: the window
  lists the outcomes of the last ranks (`Follows`), which `Add` preserves because
  dropping the oldest result and adding the newest shift both by one (`AddFollows`);
  window and log part by the refused results and by nothing else. That the running count along a window gives each figure by
  its definition (`FiguresCorrect`) is proved over the prefixes of that window: if it
  failed at some prefix there would be a shortest such (`LeastExists`), and one more
  result keeps the agreement (`TallyAgrees`).
- `HistoryTypeCorrect`: all of `TypeOK`; the window's length is part of `WindowCorrect`,
  the running traceroutes of `TracingCorrect`.

Model-checked only:

- The liveness properties `OutagesEnd`, `OutagesAreRecorded`, `ChartsFollowFocus` and
  `TheDeafAreReplaced`: they need fairness and ENABLED, which the prover does not do.
- The properties that are refuted have their runs.

Every invariant and every action property of a passing run is a theorem, and so is the
refinement.

## Plan

Done: every module above, the runs, the refinement, and a proof of every safety
property of a passing run. What would come next:

1. `HiddenKey`: the safety part of `OutagesEnd` (which step may close which row) as an
   action property.
2. `Service` and `OutageLog`: an abstract tick that both implement, in place of the
   description under "How they compose"; and `Transfer` as an implementation of
   `SpeedTest`'s `MeasureReturns`.

## Not modelled

Metered detection and notifications (external calls without state), the traceroute
command and its output, the parsing of command output, matching by text, drawing,
preferences and CSV export of the page, the configuration file (its values are
CONSTANTS), the search for a free port, schema migration and backup (SQLite's work),
tables nothing writes (DNS, power events), the check of the request's host, whose
echo reply a socket reads (the kernel's).
