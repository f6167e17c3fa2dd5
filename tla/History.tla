------------------------------ MODULE History -------------------------------
(***************************************************************************)
(* What the dashboard shows of the past, read while it is being written:   *)
(* the tick's samples, outages and live figures, the traceroute captured   *)
(* in the background of a new outage, and a history request, which reads   *)
(* the tables one after the other (internal/daemon/daemon.go,              *)
(* internal/prober/window.go, internal/store/store.go,                     *)
(* internal/web/server.go and bucket.go).                                  *)
(*                                                                         *)
(* Two readings of the clock differ: whatever reads it moves it on.  The   *)
(* unit is a bucket's width at the smallest span.  The moment a gap in     *)
(* observation is dated to is chosen freely; OutageLog says when there is  *)
(* one.  Every write may be refused by the store and every read of the     *)
(* request may fail.                                                       *)
(***************************************************************************)
EXTENDS Integers, FiniteSets, Sequences

CONSTANTS
    Networks,   \* rows of the networks table
    NTargets,   \* number of probe targets
    RTT,        \* the round-trip time of each target that answers, in ms
    Capacity,   \* Config.WindowSize
    Buckets,    \* buckets of a chart
    Spans,      \* the lengths of time a request may ask for
    MaxClock,   \* bound: the last reading of the clock
    MaxRefused  \* bound: how many samples the store refuses

ASSUME HistoryAssumption ==
    /\ NTargets \in Nat \ {0} /\ Capacity \in Nat \ {0}
    /\ Buckets \in Nat \ {0} /\ MaxClock \in Nat /\ MaxRefused \in Nat
    /\ RTT \in [1 .. NTargets -> Nat \ {0}]
    /\ Spans \subseteq {k * Buckets : k \in 1 .. MaxClock}

VARIABLES
    clock,     \* the last reading of the clock
    began,     \* when the process was started
    tick,      \* the locals of the tick in progress
    window,    \* Daemon.window: the latest results, 0 for a failure
    status,    \* the rolling figures of Daemon.status
    samples,   \* the samples table
    refused,   \* history: the samples of this process the store refused
    outages,   \* the outages table; end = 0 stands for NULL
    traces,    \* the traceroutes table
    tracing,   \* the outages a traceroute is running for
    req        \* the locals of the history request in progress

vars == <<clock, began, tick, window, status, samples, refused, outages, traces,
          tracing, req>>
tables == <<samples, outages, traces>>

-----------------------------------------------------------------------------
(* Types *)

Outcomes == {0} \cup {RTT[target] : target \in 1 .. NTargets}
Readings == 0 .. MaxClock
Sample == [net : Networks, ts : Readings, target : 1 .. NTargets, rtt : Outcomes]
Outage == [id : Nat, net : Networks, start : Readings, end : Readings]
Trace == [outage : Nat, net : Networks, ts : Readings]

NoTick == [pc |-> "idle"]
Tick == [pc : {"probe"}, now : Readings, net : Networks, target : 1 .. NTargets,
         up : BOOLEAN]
     \cup [pc : {"manage", "publish"}, now : Readings, net : Networks, up : BOOLEAN]
     \cup [pc : {"settle"}, now : Readings, net : Networks, up : BOOLEAN,
           ongoing : BOOLEAN]

\* Sums and counts; the program divides them.
Figures == [lost : Nat, probes : Nat, rtt : Nat, ok : Nat, jitter : Nat, pairs : Nat]
NoFigures == [lost |-> 0, probes |-> 0, rtt |-> 0, ok |-> 0, jitter |-> 0,
              pairs |-> 0]

NoRequest == [pc |-> "none"]
Stages == {"buckets", "outages", "traces", "done"}

TypeOK ==
    /\ clock \in Readings /\ began \in Readings
    /\ tick \in {NoTick} \cup Tick
    /\ window \in Seq(Outcomes) /\ Len(window) <= Capacity
    /\ status \in Figures
    /\ samples \subseteq Sample /\ refused \subseteq Sample
    /\ outages \subseteq Outage
    /\ traces \subseteq Trace
    /\ tracing \subseteq {o.id : o \in outages}
    /\ req # NoRequest => req.pc \in Stages

Init ==
    /\ clock = 0 /\ began = 0
    /\ tick = NoTick
    /\ window = <<>>
    /\ status = NoFigures
    /\ samples = {} /\ refused = {} /\ outages = {} /\ traces = {}
    /\ tracing = {}
    /\ req = NoRequest

-----------------------------------------------------------------------------
(* The rolling window *)

\* Mutant: the eviction keeps one too many.
AddLate(w, r) == IF Len(w) > Capacity THEN Append(Tail(w), r) ELSE Append(w, r)

\* Window.Add: the oldest results go when there are too many.
Add(w, r) ==
    LET all == Append(w, r)
    IN  IF Len(all) > Capacity
        THEN SubSeq(all, Len(all) - Capacity + 1, Len(all)) ELSE all

\* Mutant: a failure ends a run of successes.
CountAfresh(f, r) ==
    IF r = 0
    THEN [f EXCEPT !.lost = @ + 1, !.probes = @ + 1, !.prev = 0]
    ELSE [f EXCEPT !.probes = @ + 1, !.rtt = @ + r, !.ok = @ + 1,
                   !.jitter = IF f.prev = 0 THEN @
                              ELSE @ + (IF r < f.prev THEN f.prev - r ELSE r - f.prev),
                   !.pairs = IF f.prev = 0 THEN @ ELSE @ + 1,
                   !.prev = r]

\* One result read by LossPct, AvgRTTms and JitterMs in one pass: f has the
\* figures so far and the last success in prev (0: none yet).
Count(f, r) ==
    IF r = 0
    THEN [f EXCEPT !.lost = @ + 1, !.probes = @ + 1]
    ELSE [f EXCEPT !.probes = @ + 1, !.rtt = @ + r, !.ok = @ + 1,
                   !.jitter = IF f.prev = 0 THEN @
                              ELSE @ + (IF r < f.prev THEN f.prev - r ELSE r - f.prev),
                   !.pairs = IF f.prev = 0 THEN @ ELSE @ + 1,
                   !.prev = r]

NoTally == [lost |-> 0, probes |-> 0, rtt |-> 0, ok |-> 0, jitter |-> 0,
            pairs |-> 0, prev |-> 0]

\* The figures after each of the results, the oldest first.
Tallies(w) ==
    LET after[i \in 0 .. Len(w)] ==
            IF i = 0 THEN NoTally ELSE Count(after[i - 1], w[i])
    IN  after

WindowFigures(w) ==
    [figure \in DOMAIN NoFigures |-> Tallies(w)[Len(w)][figure]]

-----------------------------------------------------------------------------
(* The tick *)

Advance == clock < MaxClock /\ clock' = clock + 1

\* The tick takes its time; observation and resolution name the network.
TickBegin ==
    /\ tick = NoTick
    /\ Advance
    /\ \E net \in Networks :
          tick' = [pc |-> "probe", now |-> clock', net |-> net, target |-> 1,
                   up |-> FALSE]
    /\ UNCHANGED <<began, window, status, refused, tables, tracing, req>>

InTick(pc) == [pc |-> pc, now |-> tick.now, net |-> tick.net, up |-> tick.up]

\* One target: the sample is stored, unless the store refuses it, which is only
\* logged; the window gets the result either way.
Probe ==
    /\ tick.pc = "probe"
    /\ \E rtt \in {0, RTT[tick.target]} :
          /\ LET new == [net |-> tick.net, ts |-> tick.now,
                         target |-> tick.target, rtt |-> rtt]
             IN  \/ samples' = samples \cup {new} /\ UNCHANGED refused
                 \/ /\ Cardinality(refused) < MaxRefused
                    /\ refused' = refused \cup {new} /\ UNCHANGED samples
          /\ window' = Add(window, rtt)
          /\ LET up == tick.up \/ rtt # 0
             IN  tick' = IF tick.target < NTargets
                         THEN [tick EXCEPT !.target = @ + 1, !.up = up]
                         ELSE [InTick("manage") EXCEPT !.up = up]
    /\ UNCHANGED <<clock, began, status, outages, traces, tracing, req>>

\* OngoingOutage: the newest of those open.
Open(net) == {o \in outages : o.net = net /\ o.end = 0}
Ongoing(net) == {o \in Open(net) : \A p \in Open(net) : p.start <= o.start}
Close(o, end) == outages' = (outages \ {o}) \cup {[o EXCEPT !.end = end]}

Settling(ongoing) == [pc |-> "settle", now |-> tick.now, net |-> tick.net,
                      up |-> tick.up, ongoing |-> ongoing]

\* A gap in observation closes the outage at an earlier time; the tick goes on
\* as if there were none even when the store refuses.
Manage ==
    /\ tick.pc = "manage"
    /\ \/ tick' = Settling(Ongoing(tick.net) # {}) /\ UNCHANGED outages
       \/ /\ \E o \in Ongoing(tick.net) :
                \/ \E end \in o.start .. tick.now - 1 : Close(o, end)
                \/ UNCHANGED outages
          /\ tick' = Settling(FALSE)
    /\ UNCHANGED <<clock, began, window, status, samples, refused, traces,
                   tracing, req>>

\* The outage opens, with its traceroute in the background, or closes.  It stays
\* as it is when it goes on, when the store refuses, and when the store could
\* not tell which outage is ongoing.
Settle ==
    /\ tick.pc = "settle"
    /\ \E evidence \in IF tick.up THEN {FALSE} ELSE BOOLEAN :
          \/ /\ evidence /\ ~tick.ongoing
             /\ LET id == Cardinality(outages) + 1
                IN  /\ outages' = outages \cup {[id |-> id, net |-> tick.net,
                                                 start |-> tick.now, end |-> 0]}
                    /\ tracing' = tracing \cup {id}
          \/ /\ ~evidence /\ tick.ongoing
             /\ \E o \in Ongoing(tick.net) : Close(o, tick.now)
             /\ UNCHANGED tracing
          \/ UNCHANGED <<outages, tracing>>
    /\ tick' = InTick("publish")
    /\ UNCHANGED <<clock, began, window, status, samples, refused, traces, req>>

Publish ==
    /\ tick.pc = "publish"
    /\ status' = WindowFigures(window)
    /\ tick' = NoTick
    /\ UNCHANGED <<clock, began, window, refused, tables, tracing, req>>

\* The traceroute ends and is stored against its outage, with the time it
\* ended; one that fails or prints nothing is dropped.
CaptureEnds ==
    /\ Advance
    /\ \E o \in {o \in outages : o.id \in tracing} :
          /\ tracing' = tracing \ {o.id}
          /\ \/ traces' = traces \cup {[outage |-> o.id, net |-> o.net, ts |-> clock']}
             \/ UNCHANGED traces
    /\ UNCHANGED <<began, tick, window, status, samples, refused, outages, req>>

\* The process exits and is started again: only the tables stay.
Restart ==
    /\ Advance
    /\ began' = clock'
    /\ tick' = NoTick
    /\ window' = <<>>
    /\ status' = NoFigures
    /\ refused' = {}
    /\ tracing' = {}
    /\ req' = NoRequest
    /\ UNCHANGED tables

-----------------------------------------------------------------------------
(* The store's queries *)

\* Mutant: the width is rounded up, so one bucket is left over.
BucketWidthUp(from, to) == (to - from) \div Buckets + 1

\* SampleBuckets' width; to > from.
BucketWidth(from, to) ==
    LET width == (to - from) \div Buckets IN IF width < 1 THEN 1 ELSE width

BucketOf(ts, from, to) == (ts - from) \div BucketWidth(from, to)

\* SampleBuckets: what falls behind the last bucket is dropped.
SampleBuckets(net, from, to) ==
    [b \in 0 .. Buckets - 1 |->
        LET rows == {s \in samples : /\ s.net = net /\ from <= s.ts /\ s.ts < to
                                     /\ BucketOf(s.ts, from, to) = b}
        IN  [total |-> Cardinality(rows),
             ok |-> Cardinality({s \in rows : s.rtt # 0})]]

\* pointsFromBuckets: what the chart draws, each point at its time.
Points(bs, from, to) ==
    [b \in DOMAIN bs |-> [t |-> from + b * ((to - from) \div Buckets),
                          samples |-> bs[b].total,
                          lost |-> bs[b].total - bs[b].ok]]

\* Mutant: an outage still going on has no place in the list.
OutagesEnded(net, from, to) ==
    {o \in outages : o.net = net /\ from <= o.start /\ o.start <= to /\ o.end # 0}

OutagesBetween(net, from, to) ==
    {o \in outages : o.net = net /\ from <= o.start /\ o.start <= to}

TracesBetween(net, from, to) ==
    {t \in traces : t.net = net /\ from <= t.ts /\ t.ts <= to}

-----------------------------------------------------------------------------
(* The request.  Two requests share nothing, so one per process is enough.  *)
(* busy is a history field: the tick in progress when the request came.     *)

HistoryBegin ==
    /\ req = NoRequest
    /\ Advance
    /\ \E net \in Networks, span \in Spans :
          req' = [pc |-> "buckets", net |-> net, from |-> clock' - span, to |-> clock',
                  points |-> <<>>, outages |-> {}, traces |-> {}, failed |-> FALSE,
                  busy |-> IF tick = NoTick THEN 0 ELSE tick.now]
    /\ UNCHANGED <<began, tick, window, status, refused, tables, tracing>>

Reading(stage) ==
    /\ req.pc = stage
    /\ UNCHANGED <<clock, began, tick, window, status, refused, tables, tracing>>

\* SampleBuckets, which may fail: then the request is answered with an error.
ReadBuckets ==
    /\ Reading("buckets")
    /\ \/ req' = [req EXCEPT !.pc = "outages", !.points =
                     Points(SampleBuckets(req.net, req.from, req.to), req.from, req.to)]
       \/ req' = NoRequest

\* An error of the other queries is ignored: the list is empty.  The speed
\* tests are read between these two, from a table nothing here writes.
ReadOutages ==
    /\ Reading("outages")
    /\ \/ req' = [req EXCEPT !.pc = "traces",
                     !.outages = OutagesBetween(req.net, req.from, req.to)]
       \/ req' = [req EXCEPT !.pc = "traces", !.failed = TRUE]

\* Mutant: the end of the span is taken again.
ReadTracesUpToNow ==
    /\ Reading("traces")
    /\ req' = [req EXCEPT !.pc = "done",
                  !.traces = TracesBetween(req.net, req.from, clock)]

ReadTraces ==
    /\ Reading("traces")
    /\ \/ req' = [req EXCEPT !.pc = "done",
                     !.traces = TracesBetween(req.net, req.from, req.to)]
       \/ req' = [req EXCEPT !.pc = "done"]

Next ==
    \/ TickBegin \/ Probe \/ Manage \/ Settle \/ Publish
    \/ CaptureEnds \/ Restart
    \/ HistoryBegin \/ ReadBuckets \/ ReadOutages \/ ReadTraces

Spec == Init /\ [][Next]_vars

-----------------------------------------------------------------------------
(* Properties *)

\* The samples T in the order they were taken: the place of each, how many of
\* them a window has lost, and the round-trip times of the Capacity latest.
Before(r, s) == r.ts < s.ts \/ (r.ts = s.ts /\ r.target < s.target)
EarlierOf(T, s) == {r \in T : Before(r, s)}
RankOf(T, s) == Cardinality(EarlierOf(T, s)) + 1
Lapsed(T) == IF Cardinality(T) > Capacity THEN Cardinality(T) - Capacity ELSE 0
InOrder(T) ==
    [k \in 1 .. Cardinality(T) |-> (CHOOSE s \in T : RankOf(T, s) = k).rtt]
LatestOf(T) == SubSeq(InOrder(T), Lapsed(T) + 1, Cardinality(T))

\* The samples of this process, kept by the store or refused.
Taken == {s \in samples \cup refused : s.ts >= began}

Distance(a, b) == IF a < b THEN b - a ELSE a - b

\* The sum of a function's values, unit by unit.
Total(f) == Cardinality(UNION {{x} \X (1 .. f[x]) : x \in DOMAIN f})

\* The successes, and those with no other between them.
Successes(w) == {i \in DOMAIN w : w[i] # 0}
Neighbours(w) ==
    {p \in Successes(w) \X Successes(w) :
        p[1] < p[2] /\ \A i \in Successes(w) : i <= p[1] \/ p[2] <= i}

\* What results amount to, each figure by its definition.
FiguresOf(w) ==
    [lost |-> Cardinality(DOMAIN w \ Successes(w)),
     probes |-> Cardinality(DOMAIN w),
     rtt |-> Total([i \in Successes(w) |-> w[i]]),
     ok |-> Cardinality(Successes(w)),
     jitter |-> Total([p \in Neighbours(w) |-> Distance(w[p[1]], w[p[2]])]),
     pairs |-> Cardinality(Neighbours(w))]

\* The loss, latency and jitter on the page are those of the last Capacity
\* results of this process, each counted once and in the order of the targets,
\* whichever network they were of and whatever ticks were cut off.  A result
\* the store refused counts here and is missing from the log; short of that,
\* the live figures are those the log gives (daemon.go:258-265, window.go:31-97).
LiveFiguresAreTheLatest ==
    tick = NoTick => status = FiguresOf(LatestOf(Taken))

\* The rows of the request's network from a to before b.
RowsIn(a, b) == {s \in samples : s.net = req.net /\ a <= s.ts /\ s.ts < b}
Lost(rows) == {s \in rows : s.rtt = 0}
Settled(rows) == {s \in rows : s.ts # req.busy}

\* Each point stands for the time up to the next one: it counts, once, every
\* stored sample of a tick that was over when the request came, and none that
\* is not in the log, though ticks go on while it is read; none of the span is
\* left out at its edges (store.go:383-405, bucket.go:22-33).
PointsCountTheirTime ==
    req.pc \in {"outages", "traces", "done"} =>
        /\ \A b \in DOMAIN req.points :
              LET p == req.points[b]
                  next == IF b + 1 \in DOMAIN req.points THEN req.points[b + 1].t
                                                         ELSE req.to
                  rows == RowsIn(p.t, next)
              IN  /\ p.samples \in Cardinality(Settled(rows)) .. Cardinality(rows)
                  /\ p.lost \in Cardinality(Settled(Lost(rows))) .. Cardinality(Lost(rows))
        /\ req.points[0].t = req.from

Answered == req.pc = "done" /\ ~req.failed

\* The list shows every outage that started in the span and whose tick was over
\* when the request came, and shows none otherwise than the log has it, but for
\* an end that came since (store.go:438-456).
ListAgreesWithTheLog ==
    Answered =>
        /\ \A o \in outages :
              /\ o.net = req.net /\ o.start \in req.from .. req.to
              /\ o.start # req.busy
              => \E r \in req.outages : r.id = o.id
        /\ \A r \in req.outages :
              \E o \in outages : r \in {o, [o EXCEPT !.end = 0]} /\ o.net = req.net

\* A path is shown with its outage: whatever runs between the two queries, a
\* traceroute in the answer is of an outage of the same network that began
\* before it, and if that began in the span it is in the answer too
\* (daemon.go:369-385, server.go:256-272).
PathsHaveTheirOutage ==
    Answered => \A t \in req.traces :
        \E o \in outages :
            /\ o.id = t.outage /\ o.net = req.net /\ o.start < t.ts
            /\ o.start >= req.from => \E r \in req.outages : r.id = o.id

=============================================================================
