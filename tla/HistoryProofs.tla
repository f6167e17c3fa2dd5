--------------------------- MODULE HistoryProofs ----------------------------
(***************************************************************************)
(* Theorems about History, for every number of networks, targets and       *)
(* buckets, every set of spans and every window size: what a request that  *)
(* was read while the tick went on writing says of the log, and that the   *)
(* live figures are those of the latest samples, whichever of them the     *)
(* store refused.                                                          *)
(***************************************************************************)
EXTENDS History, FiniteSetTheorems, SequenceTheorems, WellFoundedInduction, TLAPS

-----------------------------------------------------------------------------
(* The shape of the state *)

Point == [t : Int, samples : Nat, lost : Nat]
Request == [pc : Stages, net : Networks, from : Int, to : Readings,
            points : {<<>>} \cup [0 .. Buckets - 1 -> Point],
            outages : SUBSET Outage, traces : SUBSET Trace, failed : BOOLEAN,
            busy : Readings]

ClockTypes == clock \in Readings /\ began \in Readings /\ clock \in Nat
TickTypes == tick \in {NoTick} \cup Tick
LogTypes ==
    /\ samples \subseteq Sample /\ IsFiniteSet(samples)
    /\ refused \subseteq Sample /\ IsFiniteSet(refused)
    /\ outages \subseteq Outage /\ IsFiniteSet(outages)
    /\ traces \subseteq Trace
RequestTypes == req \in {NoRequest} \cup Request

\* TypeOK but for the window and its figures, with what a request holds.
StateTypes == ClockTypes /\ TickTypes /\ LogTypes /\ RequestTypes

\* A tick in progress has its parts, and no tick is not one.
LEMMA TickParts ==
    /\ \A t \in Tick : /\ t # NoTick /\ t.pc # "idle"
                       /\ t.now \in Readings /\ t.net \in Networks
                       /\ t.up \in BOOLEAN
                       /\ t.pc \in {"probe", "manage", "settle", "publish"}
                       /\ t.pc = "probe" => t.target \in 1 .. NTargets
    /\ NoTick.pc = "idle"
BY DEF Tick, NoTick

\* How a step moves the tick: it begins at the clock, keeps its time and its
\* network while it lasts, and ends.
LEMMA StepTick ==
    ASSUME StateTypes, [Next]_vars
    PROVE  /\ tick' \in {NoTick} \cup Tick
           /\ tick' # NoTick =>
                 \/ tick # NoTick /\ tick'.now = tick.now /\ tick'.net = tick.net
                 \/ tick'.now = clock' /\ clock' = clock + 1 /\ clock' \in Readings
<1>t. clock \in Nat /\ MaxClock \in Nat /\ tick \in {NoTick} \cup Tick
  BY HistoryAssumption DEF StateTypes, ClockTypes, TickTypes
<1>1. CASE TickBegin
  <2>1. PICK net \in Networks :
           tick' = [pc |-> "probe", now |-> clock', net |-> net, target |-> 1,
                    up |-> FALSE]
    BY <1>1 DEF TickBegin
  <2>2. clock' = clock + 1 /\ clock' \in Readings
    BY <1>t, <1>1 DEF TickBegin, Advance, Readings
  <2>3. 1 \in 1 .. NTargets
    BY HistoryAssumption
  <2>4. tick' \in Tick
    BY <2>1, <2>2, <2>3 DEF Tick
  <2>5. tick'.now = clock'
    BY <2>1
  <2> QED
    BY <2>2, <2>4, <2>5
<1>2. CASE Probe
  <2>1. tick.pc = "probe"
    BY <1>2 DEF Probe
  <2>2. tick \in Tick /\ tick.target \in 1 .. NTargets
    BY <1>t, <2>1, TickParts
  <2>3. tick \in [pc : {"probe"}, now : Readings, net : Networks,
                  target : 1 .. NTargets, up : BOOLEAN]
    BY <2>1, <2>2 DEF Tick
  <2>4. PICK up \in BOOLEAN :
           tick' = IF tick.target < NTargets
                   THEN [tick EXCEPT !.target = @ + 1, !.up = up]
                   ELSE [InTick("manage") EXCEPT !.up = up]
    BY <1>2, <2>3 DEF Probe
  <2>5. CASE tick.target < NTargets
    <3>1. tick.target + 1 \in 1 .. NTargets
      BY <2>2, <2>5, HistoryAssumption
    <3>2. tick' = [tick EXCEPT !.target = @ + 1, !.up = up]
      BY <2>4, <2>5
    <3>3. tick' \in [pc : {"probe"}, now : Readings, net : Networks,
                     target : 1 .. NTargets, up : BOOLEAN]
      BY <2>3, <3>1, <3>2
    <3>4. tick'.now = tick.now /\ tick'.net = tick.net
      BY <2>3, <3>2
    <3> QED
      BY <2>2, <3>3, <3>4, TickParts DEF Tick
  <2>6. CASE ~(tick.target < NTargets)
    <3>1. tick' = [pc |-> "manage", now |-> tick.now, net |-> tick.net, up |-> up]
      BY <2>4, <2>6 DEF InTick
    <3>2. tick' \in Tick /\ tick'.now = tick.now /\ tick'.net = tick.net
      BY <2>3, <3>1 DEF Tick
    <3> QED
      BY <2>2, <3>2, TickParts
  <2> QED
    BY <2>5, <2>6
<1>3. CASE Manage \/ Settle
  <2>1. tick.pc \in {"manage", "settle"}
    BY <1>3 DEF Manage, Settle
  <2>2. tick \in Tick
    BY <1>t, <2>1, TickParts
  <2>3. \/ tick' = [pc |-> "publish", now |-> tick.now, net |-> tick.net,
                   up |-> tick.up]
        \/ \E ongoing \in BOOLEAN :
              tick' = [pc |-> "settle", now |-> tick.now, net |-> tick.net,
                       up |-> tick.up, ongoing |-> ongoing]
    BY <1>3 DEF Manage, Settle, InTick, Settling
  <2>4. /\ tick.now \in Readings /\ tick.net \in Networks
        /\ tick.up \in BOOLEAN /\ tick # NoTick
    BY <2>2, TickParts
  <2>5. tick' \in Tick /\ tick'.now = tick.now /\ tick'.net = tick.net
    BY <2>3, <2>4 DEF Tick
  <2> QED
    BY <2>4, <2>5
<1>4. CASE Publish \/ Restart
  BY <1>4 DEF Publish, Restart
<1>5. CASE UNCHANGED tick
  BY <1>t, <1>5
<1> QED
  BY <1>1, <1>2, <1>3, <1>4, <1>5
     DEF Next, vars, CaptureEnds, HistoryBegin, ReadBuckets, ReadOutages, ReadTraces,
         Reading

\* A row as it is shown of an outage: as the log has it, or still open.
Shows(r, o) == r \in {o, [o EXCEPT !.end = 0]}

\* Row q is outage o, but for the end.
SameOutage(q, o) == q.id = o.id /\ q.net = o.net /\ q.start = o.start

\* Closing an outage keeps its identity, and no row is lost.
LEMMA CloseKeeps ==
    ASSUME outages \subseteq Outage, IsFiniteSet(outages),
           NEW o \in outages, o.end = 0, NEW end \in Readings, Close(o, end)
    PROVE  /\ outages' \subseteq Outage /\ IsFiniteSet(outages')
           /\ \A p \in outages : \E q \in outages' : SameOutage(q, p)
           /\ \A q \in outages' : \E p \in outages : SameOutage(q, p)
           /\ \A p \in outages, r \in Outage : Shows(r, p) =>
                 \E q \in outages' : Shows(r, q) /\ q.net = p.net
<1> DEFINE closed == [o EXCEPT !.end = end]
<1>1. outages' = (outages \ {o}) \cup {closed}
  BY DEF Close
<1>2. closed \in Outage /\ SameOutage(closed, o)
  BY DEF Outage, SameOutage
<1>3. [closed EXCEPT !.end = 0] = o /\ [o EXCEPT !.end = 0] = o
  BY DEF Outage
<1>4. IsFiniteSet((outages \ {o}) \cup {closed})
  BY FS_RemoveElement, FS_AddElement
<1> HIDE DEF closed
<1>5. \A p \in outages : SameOutage(p, p)
  BY DEF SameOutage
<1>6. \A p \in outages, r \in Outage : Shows(r, p) =>
         \E q \in outages' : Shows(r, q) /\ q.net = p.net
  <2> SUFFICES ASSUME NEW p \in outages, NEW r \in Outage, Shows(r, p)
               PROVE  \E q \in outages' : Shows(r, q) /\ q.net = p.net
    OBVIOUS
  <2>1. CASE p # o
    BY <1>1, <2>1
  <2>2. CASE p = o
    <3>1. r = o
      BY <1>3, <2>2 DEF Shows
    <3>2. Shows(r, closed) /\ closed.net = p.net /\ closed \in outages'
      BY <1>1, <1>2, <1>3, <2>2, <3>1 DEF Shows, SameOutage
    <3> QED
      BY <3>2
  <2> QED
    BY <2>1, <2>2
<1> QED
  BY <1>1, <1>2, <1>4, <1>5, <1>6

\* How a step moves the outages: rows stay but for their end, and a settling
\* tick adds one that starts with it.
LEMMA StepOutages ==
    ASSUME StateTypes, [Next]_vars
    PROVE  /\ outages' \subseteq Outage /\ IsFiniteSet(outages')
           /\ \A p \in outages : \E q \in outages' : SameOutage(q, p)
           /\ \A q \in outages' :
                 \/ \E p \in outages : SameOutage(q, p)
                 \/ tick # NoTick /\ q.start = tick.now
           /\ \A p \in outages, r \in Outage : Shows(r, p) =>
                 \E q \in outages' : Shows(r, q) /\ q.net = p.net
<1>t. /\ outages \subseteq Outage /\ IsFiniteSet(outages)
      /\ tick \in {NoTick} \cup Tick
      /\ \A t \in Readings : t \in Nat
  BY HistoryAssumption DEF StateTypes, LogTypes, TickTypes, Readings
<1>1. CASE outages' = outages
  BY <1>t, <1>1 DEF SameOutage
<1>2. ASSUME NEW o \in Ongoing(tick.net), NEW end \in Readings, Close(o, end)
      PROVE  /\ outages' \subseteq Outage /\ IsFiniteSet(outages')
             /\ \A p \in outages : \E q \in outages' : SameOutage(q, p)
             /\ \A q \in outages' : \E p \in outages : SameOutage(q, p)
             /\ \A p \in outages, r \in Outage : Shows(r, p) =>
                   \E q \in outages' : Shows(r, q) /\ q.net = p.net
  <2>1. o \in outages /\ o.end = 0
    BY DEF Ongoing, Open
  <2> QED
    BY <1>t, <1>2, <2>1, CloseKeeps
<1>3. CASE Manage
  <2>1. tick \in Tick
    BY <1>t, <1>3, TickParts DEF Manage
  <2>2. CASE \E o \in Ongoing(tick.net) : \E end \in o.start .. tick.now - 1 : Close(o, end)
    <3>0. PICK o \in Ongoing(tick.net) :
             \E end \in o.start .. tick.now - 1 : Close(o, end)
      BY <2>2
    <3>1. PICK end \in o.start .. tick.now - 1 : Close(o, end)
      BY <3>0
    <3>2. o.start \in Readings /\ tick.now \in Readings
      BY <1>t, <2>1, TickParts DEF Ongoing, Open, Outage
    <3>3. end \in Readings
      BY <3>2, HistoryAssumption DEF Readings
    <3> QED
      BY <1>2, <3>0, <3>1, <3>3
  <2> QED
    BY <1>1, <1>3, <2>2 DEF Manage
<1>4. CASE Settle
  <2>1. tick \in Tick /\ tick # NoTick /\ tick.now \in Readings /\ tick.net \in Networks
    BY <1>t, <1>4, TickParts DEF Settle
  <2>2. CASE \E o \in Ongoing(tick.net) : Close(o, tick.now)
    BY <1>2, <2>1, <2>2
  <2>3. CASE outages' = outages \cup {[id |-> Cardinality(outages) + 1,
                                       net |-> tick.net,
                                       start |-> tick.now, end |-> 0]}
    <3> DEFINE new == [id |-> Cardinality(outages) + 1, net |-> tick.net,
                       start |-> tick.now, end |-> 0]
    <3>1. Cardinality(outages) + 1 \in Nat
      BY <1>t, FS_CardinalityType
    <3>2. 0 \in Readings
      BY HistoryAssumption DEF Readings
    <3>3. new \in Outage /\ new.start = tick.now
      BY <2>1, <3>1, <3>2 DEF Outage
    <3>4. IsFiniteSet(outages \cup {new})
      BY <1>t, FS_AddElement
    <3> HIDE DEF new
    <3>5. outages' = outages \cup {new}
      BY <2>3 DEF new
    <3>6. \A p \in outages : SameOutage(p, p)
      BY DEF SameOutage
    <3> QED
      BY <1>t, <2>1, <3>3, <3>4, <3>5, <3>6
  <2> QED
    BY <1>1, <1>4, <2>2, <2>3 DEF Settle
<1> QED
  BY <1>1, <1>3, <1>4
     DEF Next, vars, tables, TickBegin, Probe, Publish, CaptureEnds, Restart,
         HistoryBegin, ReadBuckets, ReadOutages, ReadTraces, Reading

\* What a probe does with its sample, of the tick in progress.
LEMMA ProbeSample ==
    ASSUME StateTypes, Probe
    PROVE  /\ tick \in Tick /\ tick # NoTick /\ tick.target \in 1 .. NTargets
           /\ \E new \in Sample :
                 /\ new.ts = tick.now /\ new.target = tick.target
                 /\ new.rtt \in {0, RTT[tick.target]}
                 /\ \/ samples' = samples \cup {new} /\ refused' = refused
                    \/ refused' = refused \cup {new} /\ samples' = samples
                 /\ window' = Add(window, new.rtt)
                 /\ tick' = IF tick.target < NTargets
                            THEN [tick EXCEPT !.target = tick.target + 1,
                                              !.up = tick.up \/ new.rtt # 0]
                            ELSE [InTick("manage") EXCEPT !.up = tick.up \/ new.rtt # 0]
<1>1. tick.pc = "probe" /\ tick \in {NoTick} \cup Tick
  BY DEF Probe, StateTypes, TickTypes
<1>2. /\ tick \in Tick /\ tick # NoTick
      /\ tick.now \in Readings /\ tick.net \in Networks
      /\ tick.target \in 1 .. NTargets
  BY <1>1, TickParts
<1> DEFINE Taking(rtt) == [net |-> tick.net, ts |-> tick.now,
                           target |-> tick.target, rtt |-> rtt]
<1>3. PICK rtt \in {0, RTT[tick.target]} :
         /\ \/ samples' = samples \cup {Taking(rtt)} /\ refused' = refused
            \/ refused' = refused \cup {Taking(rtt)} /\ samples' = samples
         /\ window' = Add(window, rtt)
         /\ tick' = IF tick.target < NTargets
                    THEN [tick EXCEPT !.target = tick.target + 1,
                                      !.up = tick.up \/ rtt # 0]
                    ELSE [InTick("manage") EXCEPT !.up = tick.up \/ rtt # 0]
  BY DEF Probe
<1>4. rtt \in Outcomes
  BY <1>2, <1>3 DEF Outcomes
<1>5. /\ Taking(rtt) \in Sample /\ Taking(rtt).ts = tick.now
      /\ Taking(rtt).target = tick.target /\ Taking(rtt).rtt = rtt
  BY <1>2, <1>4 DEF Sample
<1> HIDE DEF Taking
<1> QED
  BY <1>2, <1>3, <1>5

\* How a step moves the samples: the tick in progress adds one of its time, or
\* the store refuses it.
LEMMA StepSamples ==
    ASSUME StateTypes, [Next]_vars
    PROVE  /\ samples' \subseteq Sample /\ IsFiniteSet(samples')
           /\ refused' \subseteq Sample /\ IsFiniteSet(refused')
           /\ samples \subseteq samples'
           /\ \A s \in samples' : s \in samples \/ (tick # NoTick /\ s.ts = tick.now)
<1>t. /\ samples \subseteq Sample /\ IsFiniteSet(samples)
      /\ refused \subseteq Sample /\ IsFiniteSet(refused)
  BY DEF StateTypes, LogTypes
<1>1. CASE Probe
  <2>1. PICK new \in Sample :
           /\ tick # NoTick /\ new.ts = tick.now
           /\ \/ samples' = samples \cup {new} /\ refused' = refused
              \/ refused' = refused \cup {new} /\ samples' = samples
    BY <1>1, ProbeSample
  <2>2. IsFiniteSet(samples \cup {new}) /\ IsFiniteSet(refused \cup {new})
    BY <1>t, FS_AddElement
  <2> QED
    BY <1>t, <2>1, <2>2
<1>2. CASE samples' = samples /\ refused' \in {refused, {}}
  <2>1. IsFiniteSet({})
    BY FS_EmptySet
  <2> QED
    BY <1>t, <1>2, <2>1
<1> QED
  BY <1>1, <1>2
     DEF Next, vars, tables, TickBegin, Manage, Settle, Publish, CaptureEnds, Restart,
         HistoryBegin, ReadBuckets, ReadOutages, ReadTraces, Reading

\* How a step moves the traceroutes: one that ends is stored with its outage and
\* the time it ended.
LEMMA StepTraces ==
    ASSUME StateTypes, [Next]_vars
    PROVE  /\ traces' \subseteq Trace
           /\ \A t \in traces' :
                 \/ t \in traces
                 \/ /\ \E o \in outages : t.outage = o.id /\ t.net = o.net
                    /\ t.ts = clock + 1 /\ clock' = clock + 1
<1>t. /\ traces \subseteq Trace /\ outages \subseteq Outage
      /\ clock \in Nat /\ MaxClock \in Nat
  BY HistoryAssumption DEF StateTypes, LogTypes, ClockTypes
<1>1. CASE CaptureEnds
  <2>1. clock' = clock + 1 /\ clock' \in Readings
    BY <1>t, <1>1 DEF CaptureEnds, Advance, Readings
  <2>2. CASE traces' = traces
    BY <1>t, <2>2
  <2>3. CASE \E o \in outages :
                traces' = traces \cup {[outage |-> o.id, net |-> o.net, ts |-> clock']}
    <3>1. PICK o \in outages :
             traces' = traces \cup {[outage |-> o.id, net |-> o.net, ts |-> clock']}
      BY <2>3
    <3> DEFINE new == [outage |-> o.id, net |-> o.net, ts |-> clock']
    <3>2. /\ new \in Trace
          /\ new.outage = o.id /\ new.net = o.net /\ new.ts = clock'
      BY <1>t, <2>1 DEF Trace, Outage
    <3>3. traces' = traces \cup {new}
      BY <3>1
    <3> HIDE DEF new
    <3> QED
      BY <1>t, <2>1, <3>2, <3>3
  <2> QED
    BY <1>1, <2>2, <2>3 DEF CaptureEnds
<1>2. CASE traces' = traces
  BY <1>t, <1>2
<1> QED
  BY <1>1, <1>2
     DEF Next, vars, tables, TickBegin, Probe, Manage, Settle, Publish, Restart,
         HistoryBegin, ReadBuckets, ReadOutages, ReadTraces, Reading

\* How a step moves the clock.
LEMMA StepClock ==
    ASSUME StateTypes, [Next]_vars
    PROVE  /\ clock' \in Readings /\ clock' \in Nat /\ began' \in Readings
           /\ clock' = clock \/ clock' = clock + 1
<1>t. clock \in Nat /\ clock \in Readings /\ began \in Readings /\ MaxClock \in Nat
  BY HistoryAssumption DEF StateTypes, ClockTypes
<1>1. CASE TickBegin \/ CaptureEnds \/ Restart \/ HistoryBegin
  <2>1. clock' = clock + 1 /\ clock' \in Readings
    BY <1>t, <1>1 DEF TickBegin, CaptureEnds, Restart, HistoryBegin, Advance, Readings
  <2> QED
    BY <1>t, <1>1, <2>1 DEF TickBegin, CaptureEnds, Restart, HistoryBegin
<1>2. CASE clock' = clock /\ began' = began
  BY <1>t, <1>2
<1> QED
  BY <1>1, <1>2
     DEF Next, vars, Probe, Manage, Settle, Publish, ReadBuckets, ReadOutages,
         ReadTraces, Reading

-----------------------------------------------------------------------------
(* The request *)

\* The points of a chart count samples.
LEMMA PointsType ==
    ASSUME IsFiniteSet(samples), NEW net, NEW from \in Int, NEW to \in Int
    PROVE  Points(SampleBuckets(net, from, to), from, to) \in [0 .. Buckets - 1 -> Point]
<1> DEFINE bs == SampleBuckets(net, from, to)
<1>1. Buckets \in Nat \ {0}
  BY HistoryAssumption
<1>2. DOMAIN bs = 0 .. Buckets - 1
  BY DEF SampleBuckets
<1>3. ASSUME NEW b \in 0 .. Buckets - 1
      PROVE  /\ bs[b].total \in Nat /\ bs[b].total - bs[b].ok \in Nat
  <2> DEFINE rows == {s \in samples : /\ s.net = net /\ from <= s.ts /\ s.ts < to
                                      /\ BucketOf(s.ts, from, to) = b}
             up == {s \in rows : s.rtt # 0}
  <2>1. bs[b].total = Cardinality(rows) /\ bs[b].ok = Cardinality(up)
    BY DEF SampleBuckets
  <2>2. rows \in SUBSET samples /\ up \in SUBSET rows
    OBVIOUS
  <2> HIDE DEF bs, rows, up
  <2>3. IsFiniteSet(rows) /\ IsFiniteSet(up) /\ Cardinality(up) <= Cardinality(rows)
    BY <2>2, FS_Subset
  <2>4. Cardinality(rows) \in Nat /\ Cardinality(up) \in Nat
    BY <2>3, FS_CardinalityType
  <2> QED
    BY <2>1, <2>3, <2>4
<1> HIDE DEF bs
<1>4. ASSUME NEW b \in 0 .. Buckets - 1
      PROVE  [t |-> from + b * ((to - from) \div Buckets), samples |-> bs[b].total,
              lost |-> bs[b].total - bs[b].ok] \in Point
  <2>1. (to - from) \div Buckets \in Int
    BY <1>1
  <2>2. from + b * ((to - from) \div Buckets) \in Int
    BY <2>1
  <2> QED
    BY <1>3, <2>2 DEF Point
<1>5. Points(bs, from, to) \in [0 .. Buckets - 1 -> Point]
  BY <1>2, <1>4 DEF Points
<1> QED
  BY <1>5 DEF bs

\* How a step moves the request.
LEMMA StepRequest ==
    ASSUME StateTypes, [Next]_vars
    PROVE  /\ req' \in {NoRequest} \cup Request
           /\ req' # NoRequest =>
                 \/ /\ req # NoRequest
                    /\ req'.net = req.net /\ req'.from = req.from
                    /\ req'.to = req.to /\ req'.busy = req.busy
                    /\ \/ req' = req
                       \/ samples' = samples /\ outages' = outages
                          /\ traces' = traces /\ clock' = clock /\ tick' = tick
                 \/ /\ req'.pc = "buckets" /\ req'.to = clock' /\ clock' = clock + 1
                    /\ req'.busy = IF tick = NoTick THEN 0 ELSE tick.now
                    /\ \E span \in Spans : req'.from = req'.to - span
                    /\ samples' = samples /\ outages' = outages
                    /\ traces' = traces /\ tick' = tick
                    /\ req'.traces = {}
<1>t. /\ req \in {NoRequest} \cup Request
      /\ tick \in {NoTick} \cup Tick
      /\ clock \in Nat /\ MaxClock \in Nat
      /\ samples \subseteq Sample /\ IsFiniteSet(samples)
      /\ outages \subseteq Outage /\ traces \subseteq Trace
      /\ \A t \in Readings : t \in Nat
  BY HistoryAssumption DEF StateTypes, RequestTypes, TickTypes, ClockTypes, LogTypes,
                           Readings
<1>r. \A r \in Request : r # NoRequest /\ r.pc \in Stages
  BY DEF Request, NoRequest, Stages
<1>1. CASE HistoryBegin
  <2>1. PICK net \in Networks, span \in Spans :
           req' = [pc |-> "buckets", net |-> net, from |-> clock' - span, to |-> clock',
                   points |-> <<>>, outages |-> {}, traces |-> {}, failed |-> FALSE,
                   busy |-> IF tick = NoTick THEN 0 ELSE tick.now]
    BY <1>1 DEF HistoryBegin
  <2>2. clock' = clock + 1 /\ clock' \in Readings
    BY <1>t, <1>1 DEF HistoryBegin, Advance, Readings
  <2>3. span \in Int /\ clock' - span \in Int
    <3>1. PICK k \in 1 .. MaxClock : span = k * Buckets
      BY HistoryAssumption
    <3>2. span \in Int
      BY <3>1, HistoryAssumption
    <3> QED
      BY <1>t, <2>2, <3>2
  <2>4. (IF tick = NoTick THEN 0 ELSE tick.now) \in Readings
    BY <1>t, TickParts, HistoryAssumption DEF Readings
  <2>5. req' \in Request
    BY <2>1, <2>2, <2>3, <2>4 DEF Request, Stages
  <2>6. /\ req'.pc = "buckets" /\ req'.to = clock'
        /\ req'.busy = IF tick = NoTick THEN 0 ELSE tick.now
        /\ req'.from = req'.to - span /\ req'.traces = {}
    BY <2>1
  <2>7. /\ samples' = samples /\ outages' = outages
        /\ traces' = traces /\ tick' = tick
    BY <1>1 DEF HistoryBegin, tables
  <2> QED
    BY <2>2, <2>5, <2>6, <2>7
<1>2. ASSUME req.pc \in Stages
      PROVE  req \in Request
  BY <1>t, <1>2 DEF NoRequest, Stages
<1>3. CASE ReadBuckets
  <2>1. req \in Request /\ req.pc = "buckets"
    BY <1>2, <1>3 DEF ReadBuckets, Reading, Stages
  <2>2. /\ samples' = samples /\ outages' = outages
        /\ traces' = traces /\ clock' = clock /\ tick' = tick
    BY <1>3 DEF ReadBuckets, Reading, tables
  <2>3. CASE req' = NoRequest
    BY <2>3
  <2>4. CASE req' = [req EXCEPT !.pc = "outages", !.points =
                     Points(SampleBuckets(req.net, req.from, req.to), req.from, req.to)]
    <3>1. req.from \in Int /\ req.to \in Int
      BY <1>t, <2>1 DEF Request
    <3>2. Points(SampleBuckets(req.net, req.from, req.to), req.from, req.to)
             \in [0 .. Buckets - 1 -> Point]
      BY <1>t, <3>1, PointsType
    <3>3. req' \in Request /\ req'.net = req.net /\ req'.from = req.from
          /\ req'.to = req.to /\ req'.busy = req.busy
      BY <2>1, <2>4, <3>2 DEF Request, Stages
    <3> QED
      BY <1>r, <2>1, <2>2, <3>3
  <2> QED
    BY <1>3, <2>3, <2>4 DEF ReadBuckets
<1>4. CASE ReadOutages
  <2>1. req \in Request
    BY <1>2, <1>4 DEF ReadOutages, Reading, Stages
  <2>2. /\ samples' = samples /\ outages' = outages
        /\ traces' = traces /\ clock' = clock /\ tick' = tick
    BY <1>4 DEF ReadOutages, Reading, tables
  <2>3. OutagesBetween(req.net, req.from, req.to) \subseteq Outage
    BY <1>t DEF OutagesBetween
  <2>4. req' \in Request /\ req'.net = req.net /\ req'.from = req.from
        /\ req'.to = req.to /\ req'.busy = req.busy
    BY <1>4, <2>1, <2>3 DEF ReadOutages, Request, Stages
  <2> QED
    BY <1>r, <2>1, <2>2, <2>4
<1>5. CASE ReadTraces
  <2>1. req \in Request
    BY <1>2, <1>5 DEF ReadTraces, Reading, Stages
  <2>2. /\ samples' = samples /\ outages' = outages
        /\ traces' = traces /\ clock' = clock /\ tick' = tick
    BY <1>5 DEF ReadTraces, Reading, tables
  <2>3. TracesBetween(req.net, req.from, req.to) \subseteq Trace
    BY <1>t DEF TracesBetween
  <2>4. req' \in Request /\ req'.net = req.net /\ req'.from = req.from
        /\ req'.to = req.to /\ req'.busy = req.busy
    BY <1>5, <2>1, <2>3 DEF ReadTraces, Request, Stages
  <2> QED
    BY <1>r, <2>1, <2>2, <2>4
<1>6. CASE req' = req \/ req' = NoRequest
  BY <1>t, <1>6
<1> QED
  BY <1>1, <1>3, <1>4, <1>5, <1>6
     DEF Next, vars, TickBegin, Probe, Manage, Settle, Publish, CaptureEnds, Restart

\* Which part of the answer a step reads.
LEMMA StepAnswer ==
    ASSUME StateTypes, [Next]_vars, req' # NoRequest
    PROVE  \/ req' = req
           \/ req'.pc = "buckets" /\ req'.traces = {}
           \/ /\ req.pc = "buckets" /\ req'.pc = "outages" /\ req'.traces = req.traces
              /\ req'.points =
                    Points(SampleBuckets(req.net, req.from, req.to), req.from, req.to)
           \/ /\ req.pc = "outages" /\ req'.pc = "traces" /\ req'.traces = req.traces
              /\ req'.points = req.points
              /\ \/ req'.outages = OutagesBetween(req.net, req.from, req.to)
                 \/ req'.failed
           \/ /\ req.pc = "traces" /\ req'.pc = "done"
              /\ req'.outages = req.outages /\ req'.failed = req.failed
              /\ req'.points = req.points
              /\ \/ req'.traces = TracesBetween(req.net, req.from, req.to)
                 \/ req'.traces = req.traces
<1>t. req \in {NoRequest} \cup Request
  BY DEF StateTypes, RequestTypes
<1>1. ASSUME req.pc \in Stages
      PROVE  req \in Request
  BY <1>t, <1>1 DEF NoRequest, Stages
<1>2. CASE HistoryBegin
  BY <1>2 DEF HistoryBegin
<1>3. CASE ReadBuckets
  <2>1. req \in Request /\ req.pc = "buckets"
    BY <1>1, <1>3 DEF ReadBuckets, Reading, Stages
  <2> QED
    BY <1>3, <2>1 DEF ReadBuckets, Request
<1>4. CASE ReadOutages
  <2>1. req \in Request /\ req.pc = "outages"
    BY <1>1, <1>4 DEF ReadOutages, Reading, Stages
  <2> QED
    BY <1>4, <2>1 DEF ReadOutages, Request
<1>5. CASE ReadTraces
  <2>1. req \in Request /\ req.pc = "traces"
    BY <1>1, <1>5 DEF ReadTraces, Reading, Stages
  <2> QED
    BY <1>5, <2>1 DEF ReadTraces, Request
<1>6. CASE req' = req \/ req' = NoRequest
  BY <1>6
<1> QED
  BY <1>2, <1>3, <1>4, <1>5, <1>6
     DEF Next, vars, TickBegin, Probe, Manage, Settle, Publish, CaptureEnds, Restart

\* Every reachable state has its shape.
THEOREM StateCorrect == Spec => []StateTypes
<1>1. Init => StateTypes
  <2>1. 0 \in Readings
    BY HistoryAssumption DEF Readings
  <2>2. IsFiniteSet({})
    BY FS_EmptySet
  <2> QED
    BY <2>1, <2>2 DEF Init, StateTypes, ClockTypes, TickTypes, LogTypes, RequestTypes
<1>2. StateTypes /\ [Next]_vars => StateTypes'
  BY StepClock, StepTick, StepSamples, StepOutages, StepTraces, StepRequest
     DEF StateTypes, ClockTypes, TickTypes, LogTypes, RequestTypes
<1> QED
  BY <1>1, <1>2, PTL DEF Spec

-----------------------------------------------------------------------------
(* What a request knows of the log *)

\* Times are read in order: the log is not ahead of the clock, a traceroute
\* ends after its outage began, and the tick in progress is the one the request
\* found or a later one.
TimesInv ==
    /\ tick # NoTick => tick.now <= clock
    /\ \A o \in outages : o.start <= clock
    /\ \A t \in traces : \E o \in outages :
          o.id = t.outage /\ o.net = t.net /\ o.start < t.ts
    /\ req # NoRequest =>
          /\ req.to <= clock
          /\ tick # NoTick => tick.now = req.busy \/ req.to < tick.now

\* The list agrees with the log from the moment it was read.
ListInv ==
    req.pc \in {"traces", "done"} /\ ~req.failed =>
        /\ \A o \in outages :
              /\ o.net = req.net /\ req.from <= o.start /\ o.start <= req.to
              /\ o.start # req.busy
              => \E r \in req.outages : r.id = o.id
        /\ \A r \in req.outages :
              \E o \in outages : Shows(r, o) /\ o.net = req.net

\* A traceroute has its outage, in the answer if that began in the span.
HasOutage(t) ==
    \E o \in outages :
        /\ o.id = t.outage /\ o.net = req.net /\ o.start < t.ts
        /\ o.start >= req.from => \E r \in req.outages : r.id = o.id

\* Every traceroute the request may still read ended before the list was read,
\* so its outage was there to be listed, even one of the tick in progress.
PathsInv ==
    /\ req.pc \in {"buckets", "outages", "traces"} => req.traces = {}
    /\ req.pc = "traces" /\ ~req.failed =>
          \A t \in traces : t.net = req.net /\ t.ts <= req.to => HasOutage(t)
    /\ req.pc = "done" /\ ~req.failed => \A t \in req.traces : HasOutage(t)

\* Nothing in the log, and no request, is ahead of the clock.
THEOREM TimesCorrect == Spec => []TimesInv
<1>1. Init => TimesInv
  BY DEF Init, TimesInv
<1>2. StateTypes /\ StateTypes' /\ TimesInv /\ [Next]_vars => TimesInv'
  <2> SUFFICES ASSUME StateTypes, StateTypes', TimesInv, [Next]_vars
               PROVE  TimesInv'
    OBVIOUS
  <2>t. /\ clock \in Nat /\ clock' \in Nat
        /\ clock' = clock \/ clock' = clock + 1
        /\ \A n \in Readings : n \in Nat
        /\ tick \in {NoTick} \cup Tick /\ tick' \in {NoTick} \cup Tick
        /\ req \in {NoRequest} \cup Request /\ req' \in {NoRequest} \cup Request
        /\ \A o \in outages : o.start \in Nat
        /\ \A o \in outages' : o.start \in Nat
        /\ \A t \in traces : t.ts \in Nat
    BY StepClock, HistoryAssumption
       DEF StateTypes, ClockTypes, TickTypes, LogTypes, RequestTypes, Readings,
           Outage, Trace
  <2>u. /\ tick # NoTick => tick.now \in Nat
        /\ tick' # NoTick => tick'.now \in Nat
        /\ req # NoRequest => req.to \in Nat
        /\ req' # NoRequest => req'.to \in Nat
    BY <2>t, TickParts DEF Request
  <2>i. /\ tick # NoTick => tick.now <= clock
        /\ \A o \in outages : o.start <= clock
        /\ \A t \in traces : \E o \in outages :
              o.id = t.outage /\ o.net = t.net /\ o.start < t.ts
        /\ req # NoRequest =>
              /\ req.to <= clock
              /\ tick # NoTick => tick.now = req.busy \/ req.to < tick.now
    BY DEF TimesInv
  <2>1. tick' # NoTick => tick'.now <= clock'
    BY <2>t, <2>u, <2>i, StepTick
  <2>2. \A o \in outages' : o.start <= clock'
    <3> SUFFICES ASSUME NEW q \in outages' PROVE q.start <= clock'
      OBVIOUS
    <3>1. (\E p \in outages : q.start = p.start) \/ (tick # NoTick /\ q.start = tick.now)
      BY StepOutages DEF SameOutage
    <3> QED
      BY <2>t, <2>u, <2>i, <3>1
  <2>3. \A t \in traces' : \E o \in outages' :
           o.id = t.outage /\ o.net = t.net /\ o.start < t.ts
    <3> SUFFICES ASSUME NEW t \in traces'
                 PROVE  \E o \in outages' :
                           o.id = t.outage /\ o.net = t.net /\ o.start < t.ts
      OBVIOUS
    <3>1. \E p \in outages : p.id = t.outage /\ p.net = t.net /\ p.start < t.ts
      <4>1. CASE t \in traces
        BY <2>i, <4>1
      <4>2. CASE /\ \E o \in outages : t.outage = o.id /\ t.net = o.net
                 /\ t.ts = clock + 1
        BY <2>t, <2>i, <4>2
      <4> QED
        BY <4>1, <4>2, StepTraces
    <3>2. PICK p \in outages : p.id = t.outage /\ p.net = t.net /\ p.start < t.ts
      BY <3>1
    <3>3. PICK q \in outages' : SameOutage(q, p)
      BY StepOutages
    <3> QED
      BY <3>2, <3>3 DEF SameOutage
  <2>4. ASSUME req' # NoRequest
        PROVE  /\ req'.to <= clock'
               /\ tick' # NoTick => tick'.now = req'.busy \/ req'.to < tick'.now
    <3>1. CASE /\ req # NoRequest
               /\ req'.to = req.to /\ req'.busy = req.busy
      <4>1. req'.to <= clock'
        BY <2>t, <2>u, <2>i, <3>1
      <4>2. ASSUME tick' # NoTick
            PROVE  tick'.now = req'.busy \/ req'.to < tick'.now
        <5>1. CASE tick # NoTick /\ tick'.now = tick.now
          BY <2>i, <3>1, <5>1
        <5>2. CASE tick'.now = clock' /\ clock' = clock + 1
          BY <2>t, <2>u, <2>i, <3>1, <5>2
        <5> QED
          BY <4>2, <5>1, <5>2, StepTick
      <4> QED
        BY <4>1, <4>2
    <3>2. CASE /\ req'.to = clock'
               /\ req'.busy = IF tick = NoTick THEN 0 ELSE tick.now
               /\ tick' = tick
      BY <2>t, <3>2
    <3> QED
      BY <2>4, <3>1, <3>2, StepRequest
  <2> QED
    BY <2>1, <2>2, <2>3, <2>4 DEF TimesInv
<1> QED
  BY <1>1, <1>2, StateCorrect, PTL DEF Spec

\* The list agrees with the log, whatever the tick writes after it was read.
THEOREM ListCorrect == Spec => []ListInv
<1>1. Init => ListInv
  BY DEF Init, ListInv, NoRequest
<1>2. StateTypes /\ StateTypes' /\ TimesInv /\ ListInv /\ [Next]_vars => ListInv'
  <2> SUFFICES ASSUME StateTypes, StateTypes', TimesInv, ListInv, [Next]_vars,
                      req'.pc \in {"traces", "done"}, ~req'.failed
               PROVE  /\ \A o \in outages' :
                            /\ o.net = req'.net
                            /\ req'.from <= o.start /\ o.start <= req'.to
                            /\ o.start # req'.busy
                            => \E r \in req'.outages : r.id = o.id
                      /\ \A r \in req'.outages :
                            \E o \in outages' : Shows(r, o) /\ o.net = req'.net
    BY DEF ListInv
  <2>t. /\ req' # NoRequest
        /\ \A o \in outages : o \in Outage /\ o.start \in Nat
        /\ tick # NoTick => tick.now \in Nat
        /\ req # NoRequest => req.to \in Nat /\ req.outages \subseteq Outage
    BY HistoryAssumption, TickParts
       DEF StateTypes, LogTypes, TickTypes, RequestTypes, Request, NoRequest, Readings,
           Outage
  \* The list stays as it was read, while the tick may write.
  <2>1. CASE req' = req
    <3>1. /\ \A o \in outages :
                /\ o.net = req.net /\ req.from <= o.start /\ o.start <= req.to
                /\ o.start # req.busy
                => \E r \in req.outages : r.id = o.id
          /\ \A r \in req.outages :
                \E o \in outages : Shows(r, o) /\ o.net = req.net
      BY <2>1 DEF ListInv
    <3>2. ASSUME NEW q \in outages', q.net = req.net,
                 req.from <= q.start, q.start <= req.to, q.start # req.busy
          PROVE  \E r \in req.outages : r.id = q.id
      <4>1. CASE \E p \in outages : SameOutage(q, p)
        BY <3>1, <3>2, <4>1 DEF SameOutage
      <4>2. CASE tick # NoTick /\ q.start = tick.now
        BY <2>1, <2>t, <3>2, <4>2 DEF TimesInv
      <4> QED
        BY <4>1, <4>2, StepOutages
    <3>3. ASSUME NEW r \in req.outages
          PROVE  \E q \in outages' : Shows(r, q) /\ q.net = req.net
      <4>1. PICK p \in outages : Shows(r, p) /\ p.net = req.net
        BY <3>1
      <4>2. r \in Outage
        BY <2>1, <2>t
      <4> QED
        BY <4>1, <4>2, StepOutages
    <3> QED
      BY <2>1, <3>2, <3>3
  <2>2. CASE req.pc = "outages" /\ req' # req
    <3>1. req # NoRequest
      BY <2>2 DEF NoRequest
    <3>2. /\ req'.net = req.net /\ req'.from = req.from /\ req'.to = req.to
          /\ outages' = outages
      BY <2>2, <2>t, <3>1, StepRequest
    <3>3. req'.outages = OutagesBetween(req.net, req.from, req.to)
      BY <2>2, <2>t, StepAnswer
    <3> QED
      BY <3>2, <3>3 DEF OutagesBetween, Shows
  <2>3. CASE req.pc = "traces" /\ req' # req
    <3>1. req # NoRequest
      BY <2>3 DEF NoRequest
    <3>2. /\ req'.net = req.net /\ req'.from = req.from /\ req'.to = req.to
          /\ req'.busy = req.busy /\ outages' = outages
      BY <2>3, <2>t, <3>1, StepRequest
    <3>3. req'.outages = req.outages /\ req'.failed = req.failed
      BY <2>3, <2>t, StepAnswer
    <3> QED
      BY <2>3, <3>2, <3>3 DEF ListInv
  <2> QED
    BY <2>1, <2>2, <2>3, <2>t, StepAnswer
<1> QED
  BY <1>1, <1>2, StateCorrect, TimesCorrect, PTL DEF Spec

\* The outages a span shows are those of the log: every one that began in it, if
\* its tick was over when the request came, as it is or still open (OutagesBetween,
\* read in one query while manageOutage goes on writing).
THEOREM ListAgreesHolds == Spec => []ListAgreesWithTheLog
<1>1. StateTypes /\ ListInv => ListAgreesWithTheLog
  <2> SUFFICES ASSUME StateTypes, ListInv, Answered PROVE ListAgreesWithTheLog
    BY DEF ListAgreesWithTheLog
  <2>1. req \in Request
    BY DEF StateTypes, RequestTypes, Answered, NoRequest
  <2>2. \A o \in outages :
           o.start \in req.from .. req.to => req.from <= o.start /\ o.start <= req.to
    BY <2>1 DEF StateTypes, LogTypes, Request
  <2> QED
    BY <2>2 DEF ListAgreesWithTheLog, ListInv, Answered, Shows
<1> QED
  BY <1>1, StateCorrect, ListCorrect, PTL

\* A row for row the same outage, in a later log, still belongs to a traceroute.
LEMMA OutageStays ==
    ASSUME StateTypes, [Next]_vars, NEW t, HasOutage(t),
           req'.net = req.net, req'.from = req.from, req'.outages = req.outages
    PROVE  HasOutage(t)'
<1>1. PICK p \in outages :
         /\ p.id = t.outage /\ p.net = req.net /\ p.start < t.ts
         /\ p.start >= req.from => \E r \in req.outages : r.id = p.id
  BY DEF HasOutage
<1>2. PICK q \in outages' : SameOutage(q, p)
  BY StepOutages
<1> QED
  BY <1>1, <1>2 DEF HasOutage, SameOutage

\* Every traceroute of an answer has its outage there.
THEOREM PathsCorrect == Spec => []PathsInv
<1>1. Init => PathsInv
  BY DEF Init, PathsInv, NoRequest
<1>2. StateTypes /\ StateTypes' /\ TimesInv /\ PathsInv /\ [Next]_vars => PathsInv'
  <2> SUFFICES ASSUME StateTypes, StateTypes', TimesInv, PathsInv, [Next]_vars
               PROVE  PathsInv'
    OBVIOUS
  <2>t. /\ \A o \in outages : o.start \in Nat
        /\ \A t \in traces' : t.ts \in Nat
        /\ clock \in Nat
        /\ req # NoRequest => req.to \in Nat /\ req.from \in Int
    BY HistoryAssumption
       DEF StateTypes, LogTypes, ClockTypes, RequestTypes, Request, NoRequest, Readings,
           Outage, Trace
  <2>1. CASE req' = NoRequest
    BY <2>1 DEF PathsInv, NoRequest
  <2>2. CASE req' = req /\ req # NoRequest
    <3>1. ASSUME NEW t, HasOutage(t) PROVE HasOutage(t)'
      BY <2>2, <3>1, OutageStays
    <3>2. ASSUME req.pc = "traces", ~req.failed,
                 NEW t \in traces', t.net = req.net, t.ts <= req.to
          PROVE  HasOutage(t)'
      <4>1. ~(t.ts = clock + 1)
        BY <2>2, <2>t, <3>2 DEF TimesInv
      <4>2. t \in traces
        BY <4>1, StepTraces
      <4> QED
        BY <3>1, <3>2, <4>2 DEF PathsInv
    <3>3. ASSUME req.pc = "done", ~req.failed, NEW t \in req.traces
          PROVE  HasOutage(t)'
      BY <3>1, <3>3 DEF PathsInv
    <3>4. req'.pc \in {"buckets", "outages", "traces"} => req'.traces = {}
      BY <2>2 DEF PathsInv
    <3> QED
      BY <2>2, <3>2, <3>3, <3>4 DEF PathsInv
  <2>3. CASE \/ req'.pc = "buckets" /\ req'.traces = {}
             \/ req.pc = "buckets" /\ req'.pc = "outages" /\ req'.traces = req.traces
    BY <2>3 DEF PathsInv
  <2>4. CASE /\ req.pc = "outages" /\ req'.pc = "traces" /\ req'.traces = req.traces
             /\ req' # NoRequest
    <3>1. req # NoRequest /\ req' # req
      BY <2>4 DEF NoRequest
    <3>2. /\ req'.net = req.net /\ req'.from = req.from /\ req'.to = req.to
          /\ outages' = outages /\ traces' = traces
      BY <2>4, <3>1, StepRequest
    <3>3. ASSUME ~req'.failed, NEW t \in traces', t.net = req'.net, t.ts <= req'.to
          PROVE  HasOutage(t)'
      <4>1. req'.outages = OutagesBetween(req.net, req.from, req.to)
        BY <2>4, <3>1, <3>3, StepAnswer
      <4>2. PICK o \in outages : o.id = t.outage /\ o.net = t.net /\ o.start < t.ts
        BY <3>2 DEF TimesInv
      <4>3. o.start <= req.to
        BY <2>t, <3>1, <3>2, <3>3, <4>2
      <4>4. o.start >= req.from => o \in req'.outages
        BY <2>t, <3>1, <3>2, <3>3, <4>1, <4>2, <4>3 DEF OutagesBetween
      <4> QED
        BY <3>2, <3>3, <4>2, <4>4 DEF HasOutage
    <3>4. req'.traces = {}
      BY <2>4 DEF PathsInv
    <3> QED
      BY <2>4, <3>3, <3>4 DEF PathsInv
  <2>5. CASE /\ req.pc = "traces" /\ req'.pc = "done"
             /\ req'.outages = req.outages /\ req'.failed = req.failed
             /\ \/ req'.traces = TracesBetween(req.net, req.from, req.to)
                \/ req'.traces = req.traces
             /\ req' # NoRequest
    <3>1. req # NoRequest /\ req' # req
      BY <2>5 DEF NoRequest
    <3>2. req'.net = req.net /\ req'.from = req.from
      BY <2>5, <3>1, StepRequest
    <3>3. ASSUME ~req.failed, NEW t \in req'.traces PROVE HasOutage(t)'
      <4>1. t \in TracesBetween(req.net, req.from, req.to)
        BY <2>5, <3>3 DEF PathsInv
      <4>2. HasOutage(t)
        BY <2>5, <3>3, <4>1 DEF PathsInv, TracesBetween
      <4> QED
        BY <2>5, <3>2, <4>2, OutageStays
    <3> QED
      BY <2>5, <3>3 DEF PathsInv
  <2> QED
    BY <2>1, <2>2, <2>3, <2>4, <2>5, StepAnswer
<1> QED
  BY <1>1, <1>2, StateCorrect, TimesCorrect, PTL DEF Spec

\* No path is shown without its outage: a traceroute in an answer is of an outage
\* of the same network that began before it ended, and is listed if it began in
\* the span (captureTrace, handleHistory).
THEOREM PathsHaveTheirOutageHolds == Spec => []PathsHaveTheirOutage
<1>1. PathsInv => PathsHaveTheirOutage
  BY DEF PathsInv, HasOutage, PathsHaveTheirOutage, Answered
<1> QED
  BY <1>1, PathsCorrect, PTL

-----------------------------------------------------------------------------
(* The points of a chart *)

\* The rows of a log of one network from a to before b.
RowsOf(log, net, a, b) == {s \in log : s.net = net /\ a <= s.ts /\ s.ts < b}

\* A point counts the rows of its time, those of the tick busy or not.
Counts(p, log, net, b, busy) ==
    LET rows == RowsOf(log, net, p.t, b)
        lost == {s \in rows : s.rtt = 0}
    IN  /\ p.samples \in Cardinality({s \in rows : s.ts # busy}) .. Cardinality(rows)
        /\ p.lost \in Cardinality({s \in lost : s.ts # busy}) .. Cardinality(lost)

\* Where the time of a point ends.
NextOf(r, b) == IF b + 1 \in DOMAIN r.points THEN r.points[b + 1].t ELSE r.to

\* The points of a chart that was read divide its span and count their time.
PointsRead ==
    /\ req.points \in [0 .. Buckets - 1 -> Point]
    /\ req.points[0].t = req.from
    /\ \A b \in 0 .. Buckets - 1 :
          /\ NextOf(req, b) <= req.to
          /\ Counts(req.points[b], samples, req.net, NextOf(req, b), req.busy)

\* A span is a whole number of buckets, and the points are right once read.
PointsInv ==
    /\ req # NoRequest =>
          \E k \in Nat \ {0} : req.to = req.from + k * Buckets
    /\ req.pc \in {"outages", "traces", "done"} => PointsRead

\* Whole buckets divide without a rest.
LEMMA DivExact ==
    ASSUME NEW k \in Nat, NEW n \in Nat \ {0}
    PROVE  (k * n) \div n = k
<1> DEFINE q == (k * n) \div n  r == (k * n) % n
<1>1. q \in Int /\ r \in 0 .. n - 1 /\ k * n = n * q + r
  BY SMT
<1> HIDE DEF q, r
<1>2. n * (k - q) = r
  BY <1>1
<1>3. ~(k - q >= 1)
  <2>1. k - q >= 1 => n * (k - q) >= n
    BY <1>1
  <2> QED
    BY <1>1, <1>2, <2>1
<1>4. ~(k - q <= -1)
  <2>1. k - q <= -1 => n * (k - q) <= -n
    BY <1>1
  <2> QED
    BY <1>1, <1>2, <2>1
<1> QED
  BY <1>1, <1>3, <1>4 DEF q

\* A time is in a bucket when it is between its two edges.
LEMMA DivBounds ==
    ASSUME NEW t \in Nat, NEW k \in Nat \ {0}, NEW b \in Nat
    PROVE  t \div k = b <=> b * k <= t /\ t < b * k + k
<1> DEFINE q == t \div k  r == t % k
<1>1. q \in Nat /\ r \in 0 .. k - 1 /\ t = k * q + r
  BY SMT
<1> HIDE DEF q, r
<1>2. q = b => b * k <= t /\ t < b * k + k
  BY <1>1
<1>3. ASSUME b * k <= t, t < b * k + k PROVE q = b
  <2>1. ~(q - b >= 1)
    <3>1. q - b >= 1 => k * (q - b) >= k
      BY <1>1
    <3>2. k * (q - b) = k * q - b * k
      BY <1>1
    <3> QED
      BY <1>1, <1>3, <3>1, <3>2
  <2>2. ~(q - b <= -1)
    <3>1. q - b <= -1 => k * (q - b) <= -k
      BY <1>1
    <3>2. k * (q - b) = k * q - b * k
      BY <1>1
    <3> QED
      BY <1>1, <1>3, <3>1, <3>2
  <2> QED
    BY <1>1, <2>1, <2>2
<1> QED
  BY <1>2, <1>3 DEF q

\* What a point counted it still counts when the log has grown by rows of the
\* busy tick and by later ones.
LEMMA CountsStay ==
    ASSUME NEW p \in Point, NEW old, NEW log, NEW net, NEW b, NEW busy,
           old \subseteq log, IsFiniteSet(log),
           \A s \in log : s \in old \/ s.ts = busy \/ ~(s.ts < b),
           Counts(p, old, net, b, busy)
    PROVE  Counts(p, log, net, b, busy)
<1> DEFINE rows == RowsOf(old, net, p.t, b)
           rows2 == RowsOf(log, net, p.t, b)
           lost == {s \in rows : s.rtt = 0}
           lost2 == {s \in rows2 : s.rtt = 0}
<1>1. rows \in SUBSET rows2 /\ rows2 \in SUBSET log
  BY DEF RowsOf
<1>2. {s \in rows2 : s.ts # busy} = {s \in rows : s.ts # busy}
  BY DEF RowsOf
<1>3. lost \in SUBSET lost2 /\ lost2 \in SUBSET log
  BY <1>1
<1>4. {s \in lost2 : s.ts # busy} = {s \in lost : s.ts # busy}
  BY <1>2
<1>5. {s \in rows : s.ts # busy} \in SUBSET log /\ {s \in lost : s.ts # busy} \in SUBSET log
  BY <1>1, <1>3
<1>6. /\ p.samples \in Cardinality({s \in rows : s.ts # busy}) .. Cardinality(rows)
      /\ p.lost \in Cardinality({s \in lost : s.ts # busy}) .. Cardinality(lost)
  BY DEF Counts
<1>7. /\ Cardinality(rows) <= Cardinality(rows2)
      /\ Cardinality(lost) <= Cardinality(lost2)
      /\ Cardinality(rows) \in Nat /\ Cardinality(rows2) \in Nat
      /\ Cardinality(lost) \in Nat /\ Cardinality(lost2) \in Nat
  <2> HIDE DEF rows, rows2, lost, lost2
  <2>1. IsFiniteSet(rows2) /\ IsFiniteSet(lost2)
    BY <1>1, <1>3, FS_Subset
  <2>2. IsFiniteSet(rows) /\ IsFiniteSet(lost)
    BY <1>1, <1>3, <2>1, FS_Subset
  <2>3. Cardinality(rows) <= Cardinality(rows2) /\ Cardinality(lost) <= Cardinality(lost2)
    BY <1>1, <1>3, <2>1, FS_Subset
  <2> QED
    BY <2>1, <2>2, <2>3, FS_CardinalityType
<1>8. /\ Cardinality({s \in rows : s.ts # busy}) \in Nat
      /\ Cardinality({s \in lost : s.ts # busy}) \in Nat
  BY <1>5, FS_Subset, FS_CardinalityType
<1> HIDE DEF rows, rows2, lost, lost2
<1>9. \A x, lo, hi, hi2 \in Nat : x \in lo .. hi /\ hi <= hi2 => x \in lo .. hi2
  OBVIOUS
<1>10. p.samples \in Nat /\ p.lost \in Nat
  BY DEF Point
<1>11. p.samples \in Cardinality({s \in rows : s.ts # busy}) .. Cardinality(rows2)
  BY <1>6, <1>7, <1>8, <1>9, <1>10
<1>12. p.lost \in Cardinality({s \in lost : s.ts # busy}) .. Cardinality(lost2)
  BY <1>6, <1>7, <1>8, <1>9, <1>10
<1>13. /\ p.samples \in Cardinality({s \in rows2 : s.ts # busy}) .. Cardinality(rows2)
       /\ p.lost \in Cardinality({s \in lost2 : s.ts # busy}) .. Cardinality(lost2)
  BY <1>2, <1>4, <1>11, <1>12
<1> QED
  BY <1>13 DEF Counts, rows2, lost2

\* A bucket of a whole span holds the rows of its time, up to the next bucket.
LEMMA BucketHoldsItsTime ==
    ASSUME LogTypes, NEW net, NEW from \in Int, NEW k \in Nat \ {0},
           NEW to \in Int, to = from + k * Buckets, NEW b \in 0 .. Buckets - 1
    PROVE  LET p == Points(SampleBuckets(net, from, to), from, to)[b]
           IN  /\ p.t = from + b * k
               /\ p.t + k <= to
               /\ b = Buckets - 1 => p.t + k = to
               /\ \A busy : Counts(p, samples, net, p.t + k, busy)
<1> DEFINE bs == SampleBuckets(net, from, to)
           p == Points(bs, from, to)[b]
           rows == RowsOf(samples, net, from + b * k, from + b * k + k)
           up == {s \in rows : s.rtt # 0}
           lost == {s \in rows : s.rtt = 0}
<1>b. Buckets \in Nat \ {0} /\ b \in Nat /\ b + 1 <= Buckets
  BY HistoryAssumption
<1>1. (to - from) \div Buckets = k
  <2>1. to - from = k * Buckets
    BY <1>b
  <2> QED
    BY <1>b, <2>1, DivExact
<1>2. BucketWidth(from, to) = k
  BY <1>1 DEF BucketWidth
<1>3. /\ b * k >= 0 /\ b * k \in Nat
      /\ b * k + k <= k * Buckets
      /\ b = Buckets - 1 => b * k + k = k * Buckets
  <2>1. b * k \in Nat
    BY <1>b
  <2>2. (Buckets - (b + 1)) * k >= 0
    BY <1>b
  <2>3. (Buckets - (b + 1)) * k = k * Buckets - (b * k + k)
    BY <1>b
  <2>4. k * Buckets \in Nat
    BY <1>b
  <2>5. b = Buckets - 1 => (Buckets - (b + 1)) * k = 0
    BY <1>b
  <2> DEFINE x == b * k  y == k * Buckets  rest == (Buckets - (b + 1)) * k
  <2>6. x \in Nat /\ y \in Nat /\ rest >= 0 /\ rest = y - (x + k)
    BY <2>1, <2>2, <2>3, <2>4
  <2>7. b = Buckets - 1 => rest = 0
    BY <2>5
  <2> HIDE DEF x, y, rest
  <2>8. x >= 0 /\ x \in Nat /\ x + k <= y /\ (b = Buckets - 1 => x + k = y)
    BY <2>6, <2>7
  <2> QED
    BY <2>8 DEF x, y
<1>4. \A s \in samples :
         (from <= s.ts /\ s.ts < to /\ BucketOf(s.ts, from, to) = b)
            <=> (from + b * k <= s.ts /\ s.ts < from + b * k + k)
  <2> SUFFICES ASSUME NEW s \in samples
               PROVE  (from <= s.ts /\ s.ts < to /\ BucketOf(s.ts, from, to) = b)
                         <=> (from + b * k <= s.ts /\ s.ts < from + b * k + k)
    OBVIOUS
  <2>1. s.ts \in Int
    BY HistoryAssumption DEF LogTypes, Sample, Readings
  <2>2. BucketOf(s.ts, from, to) = (s.ts - from) \div k
    BY <1>2 DEF BucketOf
  <2>3. ASSUME from <= s.ts
        PROVE  (s.ts - from) \div k = b
                  <=> b * k <= s.ts - from /\ s.ts - from < b * k + k
    <3>1. s.ts - from \in Nat
      BY <2>1, <2>3
    <3> QED
      BY <1>b, <3>1, DivBounds
  <2>4. CASE from <= s.ts
    BY <1>b, <1>3, <2>1, <2>2, <2>3, <2>4
  <2>5. CASE ~(from <= s.ts)
    BY <1>b, <1>3, <2>1, <2>5
  <2> QED
    BY <2>4, <2>5
<1>5. {s \in samples : /\ s.net = net /\ from <= s.ts /\ s.ts < to
                       /\ BucketOf(s.ts, from, to) = b} = rows
  BY <1>4 DEF RowsOf
<1>6. bs[b] = [total |-> Cardinality(rows), ok |-> Cardinality(up)]
  <2> HIDE DEF rows
  <2> QED
    BY <1>5 DEF SampleBuckets
<1>7. p = [t |-> from + b * k, samples |-> Cardinality(rows),
           lost |-> Cardinality(rows) - Cardinality(up)]
  <2>1. DOMAIN bs = 0 .. Buckets - 1
    BY DEF SampleBuckets
  <2>2. p = [t |-> from + b * ((to - from) \div Buckets), samples |-> bs[b].total,
             lost |-> bs[b].total - bs[b].ok]
    <3> HIDE DEF bs
    <3> QED
      BY <2>1 DEF Points
  <2> HIDE DEF bs, p, rows, up
  <2> QED
    BY <1>1, <1>6, <2>2
<1>8. /\ Cardinality(rows) - Cardinality(up) = Cardinality(lost)
      /\ IsFiniteSet(rows) /\ IsFiniteSet(lost)
  <2>1. rows \in SUBSET samples
    BY DEF RowsOf
  <2>2. rows \ up = lost /\ rows \cap up = up
    OBVIOUS
  <2>3. lost \in SUBSET rows
    OBVIOUS
  <2> HIDE DEF rows, up, lost
  <2>4. IsFiniteSet(rows)
    BY <2>1, FS_Subset DEF LogTypes
  <2>5. IsFiniteSet(lost)
    BY <2>3, <2>4, FS_Subset
  <2>6. Cardinality(rows \ up) = Cardinality(rows) - Cardinality(rows \cap up)
    BY <2>4, FS_Difference
  <2> QED
    BY <2>2, <2>4, <2>5, <2>6
<1>9. p.t = from + b * k /\ p.samples = Cardinality(rows) /\ p.lost = Cardinality(lost)
  <2> HIDE DEF p, rows, up, lost
  <2> QED
    BY <1>7, <1>8
<1>10. ASSUME NEW busy PROVE Counts(p, samples, net, p.t + k, busy)
  <2> DEFINE quiet == {s \in rows : s.ts # busy}
             quietLost == {s \in lost : s.ts # busy}
  <2>1. quiet \in SUBSET rows /\ quietLost \in SUBSET lost
    OBVIOUS
  <2>2. RowsOf(samples, net, p.t, p.t + k) = rows
    <3> HIDE DEF p
    <3> QED
      BY <1>9
  <2>3. /\ Cardinality(quiet) <= Cardinality(rows)
        /\ Cardinality(quiet) \in Nat /\ Cardinality(rows) \in Nat
    <3> HIDE DEF quiet, rows, lost
    <3> QED
      BY <1>8, <2>1, FS_Subset, FS_CardinalityType
  <2>4. /\ Cardinality(quietLost) <= Cardinality(lost)
        /\ Cardinality(quietLost) \in Nat /\ Cardinality(lost) \in Nat
    <3> HIDE DEF quietLost, rows, lost
    <3> QED
      BY <1>8, <2>1, FS_Subset, FS_CardinalityType
  <2>5. \A x, lo \in Nat : lo <= x => x \in lo .. x
    OBVIOUS
  <2>6. /\ p.samples \in Cardinality(quiet) .. Cardinality(rows)
        /\ p.lost \in Cardinality(quietLost) .. Cardinality(lost)
    <3> HIDE DEF p, quiet, quietLost, rows, lost
    <3> QED
      BY <1>9, <2>3, <2>4, <2>5
  <2> HIDE DEF p
  <2> QED
    BY <2>2, <2>6 DEF Counts
<1>11. p.t + k <= to /\ (b = Buckets - 1 => p.t + k = to)
  <2> HIDE DEF p
  <2> QED
    BY <1>b, <1>3, <1>9
<1> HIDE DEF p
<1> QED
  BY <1>9, <1>10, <1>11 DEF p

\* The log grows while a request is read by rows of its tick and by later ones.
LEMMA LogGrowsLater ==
    ASSUME StateTypes, TimesInv, [Next]_vars, req # NoRequest,
           NEW b \in Int, b <= req.to
    PROVE  \A s \in samples' : s \in samples \/ s.ts = req.busy \/ ~(s.ts < b)
<1> SUFFICES ASSUME NEW s \in samples', s \notin samples, s.ts # req.busy
             PROVE  ~(s.ts < b)
  OBVIOUS
<1>1. tick # NoTick /\ s.ts = tick.now
  BY StepSamples
<1>2. req.to < tick.now
  BY <1>1 DEF TimesInv
<1>3. tick.now \in Int /\ req.to \in Int
  BY <1>1, TickParts, HistoryAssumption
     DEF StateTypes, TickTypes, RequestTypes, Request, Readings
<1> QED
  BY <1>1, <1>2, <1>3

\* The points as SampleBuckets reads them.
LEMMA ReadPoints ==
    ASSUME StateTypes, req \in Request,
           NEW k \in Nat \ {0}, req.to = req.from + k * Buckets,
           NEW r, r.net = req.net, r.from = req.from, r.to = req.to,
           r.busy = req.busy,
           r.points = Points(SampleBuckets(req.net, req.from, req.to), req.from, req.to)
    PROVE  /\ r.points \in [0 .. Buckets - 1 -> Point]
           /\ r.points[0].t = r.from
           /\ \A b \in 0 .. Buckets - 1 :
                 /\ NextOf(r, b) <= r.to
                 /\ Counts(r.points[b], samples, r.net, NextOf(r, b), r.busy)
<1> DEFINE pts == Points(SampleBuckets(req.net, req.from, req.to), req.from, req.to)
<1>t. /\ LogTypes /\ IsFiniteSet(samples)
      /\ req.from \in Int /\ req.to \in Int
      /\ Buckets \in Nat \ {0}
  BY HistoryAssumption DEF StateTypes, LogTypes, Request, Readings
<1>1. pts \in [0 .. Buckets - 1 -> Point]
  BY <1>t, PointsType
<1>2. \A b \in 0 .. Buckets - 1 :
         /\ pts[b].t = req.from + b * k
         /\ pts[b].t + k <= req.to
         /\ b = Buckets - 1 => pts[b].t + k = req.to
         /\ \A busy : Counts(pts[b], samples, req.net, pts[b].t + k, busy)
  BY <1>t, BucketHoldsItsTime
<1> HIDE DEF pts
<1>3. r.points = pts
  BY DEF pts
<1>4. ASSUME NEW b \in 0 .. Buckets - 1
      PROVE  NextOf(r, b) = pts[b].t + k
  <2>1. CASE b + 1 \in 0 .. Buckets - 1
    <3>1. NextOf(r, b) = pts[b + 1].t
      BY <1>1, <1>3, <2>1 DEF NextOf
    <3>2. pts[b + 1].t = req.from + (b + 1) * k /\ pts[b].t = req.from + b * k
      BY <1>2, <2>1
    <3>3. (b + 1) * k = b * k + k /\ b * k \in Int
      OBVIOUS
    <3> QED
      BY <1>t, <3>1, <3>2, <3>3
  <2>2. CASE b + 1 \notin 0 .. Buckets - 1
    <3>1. b = Buckets - 1
      BY <1>t, <2>2
    <3>2. NextOf(r, b) = r.to
      BY <1>1, <1>3, <2>2 DEF NextOf
    <3> QED
      BY <1>2, <3>1, <3>2
  <2> QED
    BY <2>1, <2>2
<1>5. pts[0].t = req.from
  <2>1. 0 \in 0 .. Buckets - 1 /\ 0 * k = 0
    BY <1>t
  <2>2. pts[0].t = req.from + 0 * k
    BY <1>2, <2>1
  <2> QED
    BY <1>t, <2>1, <2>2
<1> QED
  BY <1>1, <1>2, <1>3, <1>4, <1>5

\* The points a request has read keep counting their time.
LEMMA PointsStayRead ==
    ASSUME StateTypes, TimesInv, [Next]_vars, req \in Request, PointsRead,
           req'.points = req.points, req'.net = req.net, req'.from = req.from,
           req'.to = req.to, req'.busy = req.busy
    PROVE  PointsRead'
<1>1. \A b : NextOf(req, b)' = NextOf(req, b)
  BY DEF NextOf
<1>2. ASSUME NEW b \in 0 .. Buckets - 1
      PROVE  Counts(req.points[b], samples', req.net, NextOf(req, b), req.busy)
  <2>1. req.points[b] \in Point /\ NextOf(req, b) \in Int
    <3>1. \A c \in 0 .. Buckets - 1 : req.points[c] \in Point /\ req.points[c].t \in Int
      BY DEF PointsRead, Point
    <3>2. req.to \in Int /\ DOMAIN req.points = 0 .. Buckets - 1
      BY HistoryAssumption DEF Request, Readings, PointsRead
    <3> QED
      BY <3>1, <3>2 DEF NextOf
  <2>2. NextOf(req, b) <= req.to
    BY DEF PointsRead
  <2>3. req # NoRequest
    BY DEF Request, NoRequest, Stages
  <2>4. \A s \in samples' :
           s \in samples \/ s.ts = req.busy \/ ~(s.ts < NextOf(req, b))
    BY <2>1, <2>2, <2>3, LogGrowsLater
  <2>5. samples \subseteq samples' /\ IsFiniteSet(samples')
    BY StepSamples
  <2>6. Counts(req.points[b], samples, req.net, NextOf(req, b), req.busy)
    BY DEF PointsRead
  <2> QED
    BY <2>1, <2>4, <2>5, <2>6, CountsStay
<1>3. ASSUME NEW b \in 0 .. Buckets - 1
      PROVE  Counts(req.points[b], samples, req.net, NextOf(req, b), req.busy)'
  BY <1>1, <1>2 DEF Counts, RowsOf
<1> QED
  BY <1>1, <1>3 DEF PointsRead

\* Every point of a chart counts the samples of its time.
THEOREM PointsCorrect == Spec => []PointsInv
<1>1. Init => PointsInv
  BY DEF Init, PointsInv, NoRequest
<1>2. StateTypes /\ StateTypes' /\ TimesInv /\ PointsInv /\ [Next]_vars => PointsInv'
  <2> SUFFICES ASSUME StateTypes, StateTypes', TimesInv, PointsInv, [Next]_vars
               PROVE  PointsInv'
    OBVIOUS
  <2>t. /\ req \in {NoRequest} \cup Request /\ req' \in {NoRequest} \cup Request
        /\ clock' \in Int
    BY HistoryAssumption DEF StateTypes, RequestTypes, ClockTypes, Readings
  <2>1. ASSUME req' # NoRequest
        PROVE  \E k \in Nat \ {0} : req'.to = req'.from + k * Buckets
    <3>1. CASE req # NoRequest /\ req'.from = req.from /\ req'.to = req.to
      BY <3>1 DEF PointsInv, PointsRead
    <3>2. CASE \E span \in Spans : req'.from = req'.to - span
      <4>1. PICK span \in Spans : req'.from = req'.to - span
        BY <3>2
      <4>2. PICK k \in 1 .. MaxClock : span = k * Buckets
        BY HistoryAssumption
      <4>3. k \in Nat \ {0} /\ k * Buckets \in Int
        BY HistoryAssumption
      <4>4. req'.to \in Int
        BY <2>1, <2>t, HistoryAssumption DEF Request, Readings
      <4>5. req'.to = req'.from + k * Buckets
        BY <4>1, <4>2, <4>3, <4>4
      <4> QED
        BY <4>3, <4>5
    <3> QED
      BY <2>1, <3>1, <3>2, StepRequest
  <2>2. ASSUME req'.pc \in {"outages", "traces", "done"} PROVE PointsRead'
    <3>0. req' # NoRequest
      BY <2>2 DEF NoRequest
    <3>1. CASE req.pc \in {"outages", "traces", "done"} /\ req'.points = req.points
               /\ (req' = req \/ req'.pc # "buckets")
      <4>1. PointsRead
        BY <3>1 DEF PointsInv, PointsRead
      <4>2. req \in Request /\ req # NoRequest
        BY <2>t, <3>1 DEF NoRequest
      <4>3. /\ req'.net = req.net /\ req'.from = req.from
            /\ req'.to = req.to /\ req'.busy = req.busy
        BY <2>2, <3>0, <4>2, StepRequest
      <4> QED
        BY <3>1, <4>1, <4>2, <4>3, PointsStayRead
    <3>2. CASE /\ req.pc = "buckets" /\ req'.pc = "outages"
               /\ req'.points =
                     Points(SampleBuckets(req.net, req.from, req.to), req.from, req.to)
      <4>1. req \in Request /\ req # NoRequest /\ req' # req
        BY <2>t, <3>2 DEF NoRequest
      <4>2. /\ req'.net = req.net /\ req'.from = req.from
            /\ req'.to = req.to /\ req'.busy = req.busy /\ samples' = samples
        BY <3>0, <3>2, <4>1, StepRequest
      <4>3. PICK k \in Nat \ {0} : req.to = req.from + k * Buckets
        BY <4>1 DEF PointsInv, PointsRead
      <4> DEFINE r == req'
      <4>4. /\ r.net = req.net /\ r.from = req.from
            /\ r.to = req.to /\ r.busy = req.busy
            /\ r.points = Points(SampleBuckets(req.net, req.from, req.to),
                                 req.from, req.to)
        BY <3>2, <4>2
      <4> HIDE DEF r
      <4>5. /\ r.points \in [0 .. Buckets - 1 -> Point]
            /\ r.points[0].t = r.from
            /\ \A b \in 0 .. Buckets - 1 :
                  /\ NextOf(r, b) <= r.to
                  /\ Counts(r.points[b], samples, r.net, NextOf(r, b), r.busy)
        BY <4>1, <4>3, <4>4, ReadPoints
      <4> QED
        BY <4>2, <4>5 DEF r, PointsRead, NextOf, Counts, RowsOf
    <3> QED
      BY <2>2, <3>0, <3>1, <3>2, StepAnswer
  <2> QED
    BY <2>1, <2>2 DEF PointsInv, PointsRead
<1> QED
  BY <1>1, <1>2, StateCorrect, TimesCorrect, PTL DEF Spec

\* The charts count what the log has, for any number of buckets and any span of
\* whole buckets: each point every sample of its time but for those of the tick
\* that was running when the request came, which it may have in part
\* (SampleBuckets, pointsFromBuckets).
THEOREM PointsCountHolds == Spec => []PointsCountTheirTime
<1>1. PointsInv => PointsCountTheirTime
  <2> SUFFICES ASSUME PointsInv, req.pc \in {"outages", "traces", "done"}
               PROVE  PointsCountTheirTime
    BY DEF PointsCountTheirTime
  <2>1. DOMAIN req.points = 0 .. Buckets - 1 /\ req.points[0].t = req.from
    BY DEF PointsInv, PointsRead
  <2>2. ASSUME NEW b \in DOMAIN req.points
        PROVE  LET rows == RowsIn(req.points[b].t, NextOf(req, b))
               IN  /\ req.points[b].samples
                         \in Cardinality(Settled(rows)) .. Cardinality(rows)
                   /\ req.points[b].lost
                         \in Cardinality(Settled(Lost(rows))) .. Cardinality(Lost(rows))
    <3>1. Counts(req.points[b], samples, req.net, NextOf(req, b), req.busy)
      BY <2>1, <2>2 DEF PointsInv, PointsRead
    <3>2. RowsIn(req.points[b].t, NextOf(req, b))
             = RowsOf(samples, req.net, req.points[b].t, NextOf(req, b))
      BY DEF RowsIn, RowsOf
    <3> QED
      BY <3>1, <3>2 DEF Counts, Lost, Settled
  <2> QED
    BY <2>1, <2>2 DEF PointsCountTheirTime, NextOf
<1> QED
  BY <1>1, PointsCorrect, PTL

-----------------------------------------------------------------------------
(* The figures of a window *)

\* g is the tally of the first n results, step by step.
Tallied(g, w, n) ==
    g = [i \in 0 .. n |-> IF i = 0 THEN NoTally ELSE Count(g[i - 1], w[i])]

\* Numbers have a least one.
LEMMA LeastExists ==
    ASSUME NEW T \in SUBSET Nat, T # {}
    PROVE  \E x \in T : \A y \in T : x <= y
<1> DEFINE less == {ss \in Nat \X Nat : ss[1] < ss[2]}
<1>1. IsWellFoundedOn(less, Nat)
  BY NatLessThanWellFounded DEF OpToRel
<1>2. \A x, y \in Nat : y < x => <<y, x>> \in less
  OBVIOUS
<1> HIDE DEF less
<1>3. PICK x \in T : \A y \in T : ~ (<<y, x>> \in less)
  BY <1>1, WFMin
<1>4. ASSUME NEW y \in T PROVE x <= y
  <2>1. x \in Nat /\ y \in Nat /\ ~ (y < x)
    BY <1>2, <1>3
  <2> QED
    BY <2>1
<1> QED
  BY <1>4

\* There is a function that counts the results one by one.
LEMMA TalliesExist ==
    ASSUME NEW w, NEW n \in Nat
    PROVE  \E g : Tallied(g, w, n)
<1> DEFINE Missing == {m \in Nat : ~\E g : Tallied(g, w, m)}
<1>1. SUFFICES ASSUME Missing # {} PROVE FALSE
  OBVIOUS
<1>2. PICK m \in Missing : \A k \in Missing : m <= k
  BY <1>1, LeastExists
<1>3. m # 0
  <2>1. Tallied([i \in 0 .. 0 |-> NoTally], w, 0)
    BY DEF Tallied
  <2> QED
    BY <2>1
<1>4. m - 1 \in Nat /\ ~(m <= m - 1)
  BY <1>3
<1>5. PICK g : Tallied(g, w, m - 1)
  BY <1>2, <1>4
<1> DEFINE h == [i \in 0 .. m |-> IF i = m THEN Count(g[m - 1], w[m]) ELSE g[i]]
<1>6. Tallied(h, w, m)
  <2>1. DOMAIN g = 0 .. m - 1
    BY <1>5 DEF Tallied
  <2>2. \A i \in 0 .. m - 1 :
           g[i] = IF i = 0 THEN NoTally ELSE Count(g[i - 1], w[i])
    BY <1>5 DEF Tallied
  <2>3. ASSUME NEW i \in 0 .. m
        PROVE  h[i] = IF i = 0 THEN NoTally ELSE Count(h[i - 1], w[i])
    <3>1. i \in Int /\ 0 <= i /\ i <= m
      OBVIOUS
    <3>2. CASE i = m
      <4>1. h[i] = Count(g[m - 1], w[m])
        BY <3>2
      <4>2. h[i - 1] = g[m - 1]
        BY <1>4, <3>2
      <4> QED
        BY <1>3, <3>2, <4>1, <4>2
    <3>3. CASE i # m
      <4>1. h[i] = g[i] /\ i \in 0 .. m - 1
        BY <3>1, <3>3
      <4>2. i # 0 => h[i - 1] = g[i - 1]
        BY <3>1, <3>3
      <4> QED
        BY <2>2, <4>1, <4>2
    <3> QED
      BY <3>2, <3>3
  <2> HIDE DEF h
  <2>4. h = [i \in 0 .. m |-> IF i = 0 THEN NoTally ELSE Count(h[i - 1], w[i])]
    <3>1. h = [i \in 0 .. m |-> h[i]]
      BY DEF h
    <3> QED
      BY <2>3, <3>1
  <2> QED
    BY <2>4 DEF Tallied
<1> QED
  BY <1>2, <1>6

\* So the tallies count the results one by one, from none.
LEMMA TalliesCorrect ==
    ASSUME NEW w, Len(w) \in Nat
    PROVE  /\ Tallies(w)[0] = NoTally
           /\ \A i \in 1 .. Len(w) : Tallies(w)[i] = Count(Tallies(w)[i - 1], w[i])
<1>1. Tallied(Tallies(w), w, Len(w))
  <2>1. \E g : g = [i \in 0 .. Len(w) |-> IF i = 0 THEN NoTally ELSE Count(g[i - 1], w[i])]
    BY TalliesExist DEF Tallied
  <2> QED
    BY <2>1 DEF Tallies, Tallied
<1> QED
  BY <1>1 DEF Tallied

\* What a sum counts.
Units(f) == UNION {{x} \X (1 .. f[x]) : x \in DOMAIN f}

\* A sum grows by the value that is added to the function.
LEMMA TotalGrows ==
    ASSUME NEW f, IsFiniteSet(Units(f)), NEW x, x \notin DOMAIN f, NEW v \in Nat,
           NEW g, DOMAIN g = DOMAIN f \cup {x}, \A y \in DOMAIN f : g[y] = f[y],
           g[x] = v
    PROVE  IsFiniteSet(Units(g)) /\ Total(g) = Total(f) + v
<1> DEFINE old == Units(f)
           one == {x}
           span == 1 .. v
           more == one \X span
<1>1. Units(g) = old \cup more
  BY DEF Units
<1>2. old \cap more = {}
  BY DEF Units
<1>3. IsFiniteSet(more) /\ Cardinality(more) = v
  <2>1. IsFiniteSet(span) /\ Cardinality(span) = v
    BY FS_Interval
  <2>2. IsFiniteSet(one) /\ Cardinality(one) = 1
    BY FS_Singleton
  <2> HIDE DEF one, span
  <2>3. IsFiniteSet(more) /\ Cardinality(more) = 1 * v
    BY <2>1, <2>2, FS_Product
  <2> QED
    BY <2>3
<1>4. IsFiniteSet(old)
  OBVIOUS
<1>6. Total(g) = Cardinality(Units(g)) /\ Total(f) = Cardinality(old)
  BY DEF Total, Units
<1> HIDE DEF old, more
<1>5. /\ IsFiniteSet(old \cup more)
      /\ Cardinality(old \cup more) = Cardinality(old) + v
  <2>1. Cardinality(old) \in Nat /\ Cardinality(old \cap more) = 0
    BY <1>2, <1>4, FS_CardinalityType, FS_EmptySet
  <2>2. /\ IsFiniteSet(old \cup more)
        /\ Cardinality(old \cup more)
              = Cardinality(old) + Cardinality(more) - Cardinality(old \cap more)
    BY <1>3, <1>4, FS_Union
  <2> QED
    BY <1>3, <2>1, <2>2
<1> QED
  BY <1>1, <1>5, <1>6

\* The figures so far and the last success.
Tally == [lost : Nat, probes : Nat, rtt : Nat, ok : Nat, jitter : Nat, pairs : Nat,
          prev : Nat]

\* A count keeps the types.
LEMMA CountType ==
    ASSUME NEW f \in Tally, NEW r \in Nat
    PROVE  Count(f, r) \in Tally
<1>t. /\ f.lost \in Nat /\ f.probes \in Nat /\ f.rtt \in Nat /\ f.ok \in Nat
      /\ f.jitter \in Nat /\ f.pairs \in Nat /\ f.prev \in Nat
      /\ f.lost + 1 \in Nat /\ f.probes + 1 \in Nat /\ f.rtt + r \in Nat
      /\ f.ok + 1 \in Nat /\ f.pairs + 1 \in Nat
      /\ f.jitter + (IF r < f.prev THEN f.prev - r ELSE r - f.prev) \in Nat
  BY DEF Tally
<1>1. CASE r = 0
  <2>1. Count(f, r) = [f EXCEPT !.lost = f.lost + 1, !.probes = f.probes + 1]
    BY <1>1 DEF Count
  <2> QED
    BY <1>t, <2>1 DEF Tally
<1>2. CASE r # 0 /\ f.prev = 0
  <2>1. Count(f, r) = [f EXCEPT !.probes = f.probes + 1, !.rtt = f.rtt + r,
                                !.ok = f.ok + 1, !.prev = r]
    BY <1>2 DEF Count, Tally
  <2> QED
    BY <1>t, <2>1 DEF Tally
<1>3. CASE r # 0 /\ f.prev # 0
  <2> DEFINE far == f.jitter + (IF r < f.prev THEN f.prev - r ELSE r - f.prev)
  <2>1. Count(f, r) = [f EXCEPT !.probes = f.probes + 1, !.rtt = f.rtt + r,
                                !.ok = f.ok + 1, !.jitter = far,
                                !.pairs = f.pairs + 1, !.prev = r]
    BY <1>3 DEF Count, Tally
  <2>2. far \in Nat
    BY <1>t
  <2> HIDE DEF far
  <2> QED
    BY <1>t, <2>1, <2>2 DEF Tally
<1> QED
  BY <1>1, <1>2, <1>3

\* What is summed: the successes, and how far each is from the one before.
Sums(p) == [i \in Successes(p) |-> p[i]]
Gaps(p) == [c \in Neighbours(p) |-> Distance(p[c[1]], p[c[2]])]

\* t has what the results p amount to, and the last success among them.
Agrees(t, p) ==
    /\ IsFiniteSet(Successes(p)) /\ IsFiniteSet(DOMAIN p \ Successes(p))
    /\ IsFiniteSet(Neighbours(p))
    /\ IsFiniteSet(Units(Sums(p))) /\ IsFiniteSet(Units(Gaps(p)))
    /\ t.lost = Cardinality(DOMAIN p \ Successes(p))
    /\ t.ok = Cardinality(Successes(p))
    /\ t.rtt = Total(Sums(p))
    /\ t.pairs = Cardinality(Neighbours(p))
    /\ t.jitter = Total(Gaps(p))
    /\ t.probes = Cardinality(DOMAIN p)
    /\ IF Successes(p) = {} THEN t.prev = 0
       ELSE \E l \in Successes(p) : t.prev = p[l] /\ \A i \in Successes(p) : i <= l

\* One more failure.
LEMMA FailureAgrees ==
    ASSUME NEW t \in Tally, NEW n \in Nat,
           NEW p \in [1 .. n -> Nat], NEW q \in [1 .. n + 1 -> Nat],
           \A i \in 1 .. n : q[i] = p[i], q[n + 1] = 0, Agrees(t, p)
    PROVE  Agrees(Count(t, 0), q)
<1> DEFINE u == Count(t, 0)
<1>1. /\ u.lost = t.lost + 1 /\ u.probes = t.probes + 1 /\ u.rtt = t.rtt
      /\ u.ok = t.ok /\ u.jitter = t.jitter /\ u.pairs = t.pairs /\ u.prev = t.prev
  BY DEF Count, Tally
<1> HIDE DEF u
<1>2. DOMAIN q = DOMAIN p \cup {n + 1} /\ n + 1 \notin DOMAIN p
  OBVIOUS
<1>3. Successes(q) = Successes(p)
  BY <1>2 DEF Successes
<1>4. Neighbours(q) = Neighbours(p)
  BY <1>3 DEF Neighbours
<1>5. \A i \in Successes(p) : q[i] = p[i]
  BY DEF Successes
<1>6. Sums(q) = Sums(p)
  BY <1>3, <1>5 DEF Sums
<1>7. \A c \in Neighbours(p) : q[c[1]] = p[c[1]] /\ q[c[2]] = p[c[2]]
  BY <1>5 DEF Neighbours
<1>8. Gaps(q) = Gaps(p)
  BY <1>4, <1>7 DEF Gaps
<1>9. DOMAIN q \ Successes(q) = (DOMAIN p \ Successes(p)) \cup {n + 1}
  BY <1>2, <1>3 DEF Successes
<1>10. IsFiniteSet(DOMAIN p) /\ IsFiniteSet(DOMAIN p \ Successes(p))
  <2>1. DOMAIN p = 1 .. n
    OBVIOUS
  <2> QED
    BY <2>1, FS_Interval DEF Agrees
<1>11. Cardinality(DOMAIN q) = Cardinality(DOMAIN p) + 1
  BY <1>2, <1>10, FS_AddElement
<1>12. /\ IsFiniteSet(DOMAIN q \ Successes(q))
       /\ Cardinality(DOMAIN q \ Successes(q)) = Cardinality(DOMAIN p \ Successes(p)) + 1
  <2> DEFINE lost == DOMAIN p \ Successes(p)
  <2>1. /\ n + 1 \notin lost /\ IsFiniteSet(lost)
        /\ DOMAIN q \ Successes(q) = lost \cup {n + 1}
    BY <1>2, <1>9, <1>10
  <2> HIDE DEF lost
  <2>2. IsFiniteSet(lost \cup {n + 1}) /\ Cardinality(lost \cup {n + 1}) = Cardinality(lost) + 1
    BY <2>1, FS_AddElement
  <2> QED
    BY <2>1, <2>2 DEF lost
<1>13. IF Successes(q) = {} THEN u.prev = 0
       ELSE \E l \in Successes(q) : u.prev = q[l] /\ \A i \in Successes(q) : i <= l
  BY <1>1, <1>3, <1>5 DEF Agrees
<1>14. Agrees(u, q)
  BY <1>1, <1>3, <1>4, <1>6, <1>8, <1>11, <1>12, <1>13 DEF Agrees
<1> QED
  BY <1>14 DEF u

\* One more success: it makes a pair with the last one there was.
LEMMA SuccessAgrees ==
    ASSUME NEW t \in Tally, NEW n \in Nat, NEW r \in Nat \ {0},
           NEW p \in [1 .. n -> Nat], NEW q \in [1 .. n + 1 -> Nat],
           \A i \in 1 .. n : q[i] = p[i], q[n + 1] = r, Agrees(t, p)
    PROVE  Agrees(Count(t, r), q)
<1> DEFINE u == Count(t, r)
<1>1. /\ u.lost = t.lost /\ u.probes = t.probes + 1 /\ u.rtt = t.rtt + r
      /\ u.ok = t.ok + 1 /\ u.prev = r
      /\ t.prev = 0 => u.jitter = t.jitter /\ u.pairs = t.pairs
      /\ t.prev # 0 => /\ u.jitter = t.jitter + Distance(t.prev, r)
                       /\ u.pairs = t.pairs + 1
  BY DEF Count, Tally, Distance
<1> HIDE DEF u
<1>2. DOMAIN q = DOMAIN p \cup {n + 1} /\ n + 1 \notin DOMAIN p
  OBVIOUS
<1>3. Successes(q) = Successes(p) \cup {n + 1} /\ n + 1 \notin Successes(p)
  BY <1>2 DEF Successes
<1>4. \A i \in Successes(p) : i \in 1 .. n /\ q[i] = p[i] /\ p[i] # 0
  BY DEF Successes
<1>5. DOMAIN q \ Successes(q) = DOMAIN p \ Successes(p)
  BY <1>2, <1>3
<1>6. Cardinality(DOMAIN q) = Cardinality(DOMAIN p) + 1
  <2>1. DOMAIN p = 1 .. n
    OBVIOUS
  <2>2. IsFiniteSet(DOMAIN p)
    BY <2>1, FS_Interval
  <2> QED
    BY <1>2, <2>2, FS_AddElement
<1>7. /\ IsFiniteSet(Successes(q))
      /\ Cardinality(Successes(q)) = Cardinality(Successes(p)) + 1
  <2> DEFINE old == Successes(p)  x == n + 1
  <2>1. IsFiniteSet(old) /\ Successes(q) = old \cup {x} /\ x \notin old
    BY <1>3 DEF Agrees
  <2> HIDE DEF old, x
  <2>2. /\ IsFiniteSet(old \cup {x})
        /\ Cardinality(old \cup {x}) = Cardinality(old) + 1
    BY <2>1, FS_AddElement
  <2> QED
    BY <2>1, <2>2 DEF old
<1>8. IsFiniteSet(Units(Sums(q))) /\ Total(Sums(q)) = Total(Sums(p)) + r
  <2> DEFINE f == Sums(p)  g == Sums(q)  x == n + 1  v == r
  <2>1. DOMAIN g = DOMAIN f \cup {x} /\ x \notin DOMAIN f
    BY <1>3 DEF Sums
  <2>2. g[x] = v /\ \A i \in DOMAIN f : g[i] = f[i]
    BY <1>3, <1>4 DEF Sums
  <2>3. IsFiniteSet(Units(f)) /\ v \in Nat
    BY DEF Agrees
  <2> HIDE DEF f, g, x, v
  <2>4. IsFiniteSet(Units(g)) /\ Total(g) = Total(f) + v
    BY <2>1, <2>2, <2>3, TotalGrows
  <2> QED
    BY <2>4 DEF f, g, v
<1>9. \E l \in Successes(q) : u.prev = q[l] /\ \A i \in Successes(q) : i <= l
  BY <1>1, <1>3, <1>4
<1>10. \A c \in Neighbours(p) : c[1] \in Successes(p) /\ c[2] \in Successes(p)
  BY DEF Neighbours
<1>11. ASSUME Successes(p) = {} PROVE Agrees(u, q)
  <2>1. Neighbours(q) = {} /\ Neighbours(p) = {}
    BY <1>3, <1>11 DEF Neighbours
  <2>2. Gaps(q) = Gaps(p)
    BY <2>1 DEF Gaps
  <2>3. t.prev = 0
    BY <1>11 DEF Agrees
  <2> QED
    BY <1>1, <1>3, <1>5, <1>6, <1>7, <1>8, <1>9, <2>1, <2>2, <2>3 DEF Agrees
<1>12. ASSUME Successes(p) # {} PROVE Agrees(u, q)
  <2>1. PICK l \in Successes(p) : t.prev = p[l] /\ \A i \in Successes(p) : i <= l
    BY <1>12 DEF Agrees
  <2>2. l \in 1 .. n /\ t.prev # 0 /\ t.prev \in Nat /\ q[l] = t.prev
    BY <1>4, <2>1 DEF Tally
  <2> DEFINE new == <<l, n + 1>>
  <2>3. Neighbours(q) = Neighbours(p) \cup {new}
    <3>1. ASSUME NEW c \in Neighbours(p) PROVE c \in Neighbours(q)
      BY <1>3, <1>4, <3>1 DEF Neighbours
    <3>2. new \in Neighbours(q)
      <4>1. new \in Successes(q) \X Successes(q) /\ new[1] = l /\ new[2] = n + 1
        BY <1>3, <2>1
      <4>2. \A i \in Successes(q) : i <= l \/ n + 1 <= i
        BY <1>3, <2>1
      <4>3. l < n + 1
        BY <2>2
      <4> QED
        BY <4>1, <4>2, <4>3 DEF Neighbours
    <3>3. ASSUME NEW c \in Neighbours(q) PROVE c \in Neighbours(p) \cup {new}
      <4>1. /\ c \in Successes(q) \X Successes(q) /\ c[1] < c[2]
            /\ \A i \in Successes(q) : i <= c[1] \/ c[2] <= i
        BY DEF Neighbours
      <4>2. PICK a \in Successes(q), b \in Successes(q) : c = <<a, b>>
        BY <4>1
      <4>3. a < b /\ \A i \in Successes(q) : i <= a \/ b <= i
        BY <4>1, <4>2
      <4>4. a \in 1 .. n + 1 /\ b \in 1 .. n + 1
        BY <1>3, <1>4
      <4>5. a \in Successes(p)
        BY <1>3, <4>3, <4>4
      <4>6. CASE b = n + 1
        <5>1. l <= a /\ a <= l
          BY <1>3, <2>1, <2>2, <4>3, <4>5, <4>6
        <5>2. a = l
          BY <2>2, <4>4, <5>1
        <5> QED
          BY <4>2, <4>6, <5>2
      <4>7. CASE b # n + 1
        <5>1. b \in Successes(p)
          BY <1>3, <4>7
        <5> QED
          BY <1>3, <4>2, <4>3, <4>5, <5>1 DEF Neighbours
      <4> QED
        BY <4>6, <4>7
    <3> QED
      BY <3>1, <3>2, <3>3
  <2>4. new \notin Neighbours(p)
    BY <1>3, <1>10
  <2>5. /\ IsFiniteSet(Neighbours(q))
        /\ Cardinality(Neighbours(q)) = Cardinality(Neighbours(p)) + 1
    <3>1. IsFiniteSet(Neighbours(p))
      BY DEF Agrees
    <3> HIDE DEF new
    <3> QED
      BY <2>3, <2>4, <3>1, FS_AddElement
  <2>6. IsFiniteSet(Units(Gaps(q))) /\ Total(Gaps(q)) = Total(Gaps(p)) + Distance(t.prev, r)
    <3> DEFINE f == Gaps(p)  g == Gaps(q)
    <3>1. DOMAIN g = DOMAIN f \cup {new} /\ new \notin DOMAIN f
      BY <2>3, <2>4 DEF Gaps
    <3>2. g[new] = Distance(t.prev, r)
      BY <2>2, <2>3 DEF Gaps
    <3>3. \A c \in DOMAIN f : g[c] = f[c]
      BY <1>4, <1>10, <2>3 DEF Gaps
    <3>4. Distance(t.prev, r) \in Nat
      BY <2>2 DEF Distance
    <3>5. IsFiniteSet(Units(f))
      BY DEF Agrees
    <3> HIDE DEF new, f, g
    <3>6. IsFiniteSet(Units(g)) /\ Total(g) = Total(f) + Distance(t.prev, r)
      BY <3>1, <3>2, <3>3, <3>4, <3>5, TotalGrows
    <3> QED
      BY <3>6 DEF f, g
  <2> QED
    BY <1>1, <1>3, <1>5, <1>6, <1>7, <1>8, <1>9, <2>2, <2>5, <2>6 DEF Agrees
<1> QED
  BY <1>11, <1>12 DEF u

\* The first n results.
First(w, n) == [i \in 1 .. n |-> w[i]]

\* The program's count of a window is what the window amounts to.
LEMMA TallyAgrees ==
    ASSUME NEW w \in Seq(Nat), NEW n \in 0 .. Len(w)
    PROVE  Tallies(w)[n] \in Tally /\ Agrees(Tallies(w)[n], First(w, n))
<1> DEFINE Wrong == {m \in 0 .. Len(w) :
                       ~(Tallies(w)[m] \in Tally /\ Agrees(Tallies(w)[m], First(w, m)))}
<1>t. /\ Len(w) \in Nat /\ \A i \in 1 .. Len(w) : w[i] \in Nat
      /\ Tallies(w)[0] = NoTally
      /\ \A i \in 1 .. Len(w) : Tallies(w)[i] = Count(Tallies(w)[i - 1], w[i])
  BY TalliesCorrect
<1>1. SUFFICES ASSUME Wrong # {} PROVE FALSE
  OBVIOUS
<1>2. PICK m \in Wrong : \A k \in Wrong : m <= k
  <2>1. Wrong \in SUBSET Nat
    BY <1>t
  <2> HIDE DEF Wrong
  <2> QED
    BY <1>1, <2>1, LeastExists
<1>3. CASE m = 0
  <2> DEFINE none == First(w, 0)
  <2>1. DOMAIN none = {}
    BY DEF First
  <2> HIDE DEF none
  <2>2. Successes(none) = {} /\ Neighbours(none) = {}
    BY <2>1 DEF Successes, Neighbours
  <2>3. Units(Sums(none)) = {} /\ Units(Gaps(none)) = {}
    BY <2>2 DEF Units, Sums, Gaps
  <2>4. Total(Sums(none)) = Cardinality({}) /\ Total(Gaps(none)) = Cardinality({})
    BY <2>3 DEF Total, Units
  <2>5. DOMAIN none \ Successes(none) = {}
    BY <2>1
  <2>6. IsFiniteSet({}) /\ Cardinality({}) = 0
    BY FS_EmptySet
  <2>7. /\ NoTally.lost = 0 /\ NoTally.probes = 0 /\ NoTally.rtt = 0 /\ NoTally.ok = 0
        /\ NoTally.jitter = 0 /\ NoTally.pairs = 0 /\ NoTally.prev = 0
        /\ NoTally \in Tally
    BY DEF NoTally, Tally
  <2>8. Agrees(NoTally, none)
    BY <2>1, <2>2, <2>3, <2>4, <2>5, <2>6, <2>7 DEF Agrees
  <2> QED
    BY <1>t, <1>2, <1>3, <2>7, <2>8 DEF none
<1>4. CASE m # 0
  <2> DEFINE k == m - 1
             t == Tallies(w)[k]
             p == First(w, k)
             q == First(w, k + 1)
  <2>1. k \in 0 .. Len(w) /\ ~(m <= k) /\ m = k + 1 /\ m \in 1 .. Len(w) /\ k \in Nat
    BY <1>t, <1>4
  <2>2. t \in Tally /\ Agrees(t, p)
    BY <1>2, <2>1
  <2>3. Tallies(w)[m] = Count(t, w[m]) /\ w[m] \in Nat
    BY <1>t, <2>1
  <2>4. p \in [1 .. k -> Nat] /\ q \in [1 .. k + 1 -> Nat]
    BY <1>t, <2>1 DEF First
  <2>5. (\A i \in 1 .. k : q[i] = p[i]) /\ q[k + 1] = w[m]
    BY <2>1 DEF First
  <2>6. ~(Count(t, w[m]) \in Tally /\ Agrees(Count(t, w[m]), q))
    BY <1>2, <2>1, <2>3
  <2> HIDE DEF k, t, p, q
  <2>7. Count(t, w[m]) \in Tally
    BY <2>2, <2>3, CountType
  <2>8. Agrees(Count(t, w[m]), q)
    <3>1. CASE w[m] = 0
      BY <2>1, <2>2, <2>4, <2>5, <3>1, FailureAgrees
    <3>2. CASE w[m] # 0
      <4>1. w[m] \in Nat \ {0}
        BY <2>3, <3>2
      <4> QED
        BY <2>1, <2>2, <2>4, <2>5, <4>1, SuccessAgrees
    <3> QED
      BY <3>1, <3>2
  <2> QED
    BY <2>6, <2>7, <2>8
<1> QED
  BY <1>3, <1>4

\* So the figures of a window are those of its results, each by its definition.
LEMMA FiguresCorrect ==
    ASSUME NEW w \in Seq(Nat)
    PROVE  WindowFigures(w) = FiguresOf(w) /\ WindowFigures(w) \in Figures
<1> DEFINE t == Tallies(w)[Len(w)]
<1>1. Len(w) \in Nat /\ First(w, Len(w)) = w
  BY DEF First
<1>2. t \in Tally /\ Agrees(t, w)
  BY <1>1, TallyAgrees
<1> HIDE DEF t
<1>3. WindowFigures(w) = [lost |-> t.lost, probes |-> t.probes, rtt |-> t.rtt,
                          ok |-> t.ok, jitter |-> t.jitter, pairs |-> t.pairs]
  BY DEF WindowFigures, NoFigures, t
<1>4. FiguresOf(w) = [lost |-> t.lost, probes |-> t.probes, rtt |-> t.rtt,
                      ok |-> t.ok, jitter |-> t.jitter, pairs |-> t.pairs]
  BY <1>2 DEF FiguresOf, Agrees, Sums, Gaps
<1>5. WindowFigures(w) \in Figures
  BY <1>2, <1>3 DEF Figures, Tally
<1> QED
  BY <1>3, <1>4, <1>5

-----------------------------------------------------------------------------
(* The window and the log *)

\* w has the latest samples of T, in their order: a sample's place in it is its
\* rank less what has lapsed, and every rank is taken.
Follows(w, T) ==
    /\ w \in Seq(Outcomes)
    /\ Len(w) = Cardinality(T) - Lapsed(T)
    /\ \A s \in T : RankOf(T, s) > Lapsed(T) => w[RankOf(T, s) - Lapsed(T)] = s.rtt
    /\ \A k \in 1 .. Cardinality(T) : \E s \in T : RankOf(T, s) = k

\* A rank is a number up to the number of samples.
LEMMA RankType ==
    ASSUME NEW T, IsFiniteSet(T), T \subseteq Sample, NEW s \in T
    PROVE  RankOf(T, s) \in 1 .. Cardinality(T)
<1> DEFINE E == EarlierOf(T, s)
<1>1. s.ts \in Int /\ s.target \in Int
  BY HistoryAssumption DEF Sample, Readings
<1>2. E \in SUBSET T /\ s \notin E
  BY <1>1 DEF EarlierOf, Before
<1> HIDE DEF E
<1>3. IsFiniteSet(E) /\ Cardinality(E) <= Cardinality(T)
      /\ (Cardinality(T) = Cardinality(E) => T = E)
  BY <1>2, FS_Subset
<1>4. Cardinality(E) \in Nat /\ Cardinality(T) \in Nat
  BY <1>3, FS_CardinalityType
<1>5. Cardinality(E) + 1 \in 1 .. Cardinality(T)
  BY <1>2, <1>3, <1>4
<1> QED
  BY <1>5 DEF E, RankOf

\* Window.Add drops the oldest result when there would be too many.
LEMMA AddEffect ==
    ASSUME NEW w \in Seq(Outcomes), Len(w) <= Capacity, NEW r \in Outcomes
    PROVE  LET full == IF Len(w) = Capacity THEN 1 ELSE 0
           IN  /\ Add(w, r) \in Seq(Outcomes)
               /\ Len(Add(w, r)) = Len(w) + 1 - full
               /\ \A i \in full + 1 .. Len(w) : Add(w, r)[i - full] = w[i]
               /\ Add(w, r)[Len(w) + 1 - full] = r
<1> DEFINE all == Append(w, r)
<1>1. /\ all \in Seq(Outcomes) /\ Len(all) = Len(w) + 1 /\ Len(w) \in Nat
      /\ \A i \in 1 .. Len(w) : all[i] = w[i]
      /\ all[Len(w) + 1] = r
      /\ Capacity \in Nat \ {0}
  BY AppendProperties, LenProperties, HistoryAssumption
<1>2. \A i \in 1 .. Len(all) : all[i] \in Outcomes
  BY <1>1, ElementOfSeq
<1> HIDE DEF all
<1>3. Add(w, r) = IF Len(all) > Capacity
                  THEN SubSeq(all, Len(all) - Capacity + 1, Len(all)) ELSE all
  BY DEF Add, all
<1>4. CASE Len(w) # Capacity
  <2>1. Add(w, r) = all
    BY <1>1, <1>3, <1>4
  <2> QED
    BY <1>1, <1>4, <2>1
<1>5. CASE Len(w) = Capacity
  <2> DEFINE len == Len(all)
  <2>1. len = Capacity + 1 /\ len \in Int /\ len - Capacity + 1 = 2 /\ 2 \in Int
    BY <1>1, <1>5
  <2>2. Add(w, r) = SubSeq(all, 2, len)
    BY <1>1, <1>3, <2>1
  <2>3. \A i \in 2 .. len : all[i] \in Outcomes
    BY <1>2
  <2> HIDE DEF len
  <2>4. /\ SubSeq(all, 2, len) \in Seq(Outcomes)
        /\ Len(SubSeq(all, 2, len)) = IF 2 <= len THEN len - 2 + 1 ELSE 0
        /\ \A i \in 1 .. len - 2 + 1 : SubSeq(all, 2, len)[i] = all[2 + i - 1]
    BY <2>1, <2>3, SubSeqProperties
  <2> HIDE DEF Add
  <2>5. Len(Add(w, r)) = Len(w)
    BY <1>1, <1>5, <2>1, <2>2, <2>4
  <2>6. \A i \in 1 .. Len(w) : Add(w, r)[i] = all[i + 1]
    BY <1>1, <1>5, <2>1, <2>2, <2>4
  <2>7. \A i \in 2 .. Len(w) : Add(w, r)[i - 1] = w[i]
    <3> SUFFICES ASSUME NEW i \in 2 .. Len(w) PROVE Add(w, r)[i - 1] = w[i]
      OBVIOUS
    <3>1. i - 1 \in 1 .. Len(w) /\ i - 1 + 1 = i /\ i \in 1 .. Len(w)
      BY <1>1
    <3>2. Add(w, r)[i - 1] = all[i - 1 + 1]
      BY <2>6, <3>1
    <3> QED
      BY <1>1, <3>1, <3>2
  <2>8. Add(w, r)[Len(w)] = r
    BY <1>1, <1>5, <2>6
  <2> QED
    BY <1>1, <1>5, <2>2, <2>4, <2>5, <2>7, <2>8
<1> QED
  BY <1>4, <1>5

\* A sample taken after all the others comes last: none of the others moves.
LEMMA LastRanks ==
    ASSUME NEW T, IsFiniteSet(T), T \subseteq Sample,
           NEW new \in Sample, \A s \in T : Before(s, new)
    PROVE  /\ new \notin T /\ IsFiniteSet(T \cup {new})
           /\ Cardinality(T \cup {new}) = Cardinality(T) + 1
           /\ \A s \in T : RankOf(T \cup {new}, s) = RankOf(T, s)
           /\ RankOf(T \cup {new}, new) = Cardinality(T) + 1
<1>1. \A s \in Sample : s.ts \in Int /\ s.target \in Int
  BY HistoryAssumption DEF Sample, Readings
<1>2. ~Before(new, new) /\ \A s \in T : ~Before(new, s)
  BY <1>1 DEF Before
<1>3. new \notin T
  BY <1>2
<1>4. \A s \in T : EarlierOf(T \cup {new}, s) = EarlierOf(T, s)
  BY <1>2 DEF EarlierOf
<1>5. EarlierOf(T \cup {new}, new) = T
  BY <1>2 DEF EarlierOf
<1> QED
  BY <1>3, <1>4, <1>5, FS_AddElement DEF RankOf

\* Adding a result for a sample that comes last keeps the window at the latest.
LEMMA AddFollows ==
    ASSUME NEW T, IsFiniteSet(T), T \subseteq Sample, NEW w, Follows(w, T),
           NEW new \in Sample, \A s \in T : Before(s, new)
    PROVE  Follows(Add(w, new.rtt), T \cup {new})
<1> DEFINE n == Cardinality(T)
           U == T \cup {new}
           r == new.rtt
           full == IF Len(w) = Capacity THEN 1 ELSE 0
           v == Add(w, r)
<1>1. /\ w \in Seq(Outcomes) /\ Len(w) = n - Lapsed(T)
      /\ \A s \in T : RankOf(T, s) > Lapsed(T) => w[RankOf(T, s) - Lapsed(T)] = s.rtt
      /\ \A k \in 1 .. n : \E s \in T : RankOf(T, s) = k
  BY DEF Follows
<1>2. /\ Cardinality(U) = n + 1
      /\ \A s \in T : RankOf(U, s) = RankOf(T, s)
      /\ RankOf(U, new) = n + 1
  BY LastRanks
<1>3. n \in Nat /\ Capacity \in Nat \ {0} /\ r \in Outcomes
  BY FS_CardinalityType, HistoryAssumption DEF Sample
<1>4. \A s \in T : RankOf(T, s) \in 1 .. n
  BY RankType
<1>0. Cardinality(T) = n /\ \A s : s \in U <=> s \in T \/ s = new
  OBVIOUS
<1> HIDE DEF n, U
<1>5. /\ Lapsed(T) = IF n > Capacity THEN n - Capacity ELSE 0
      /\ Lapsed(U) = IF n + 1 > Capacity THEN n + 1 - Capacity ELSE 0
  BY <1>0, <1>2, <1>3 DEF Lapsed
<1>6. Len(w) <= Capacity /\ Lapsed(U) = Lapsed(T) + full /\ Lapsed(T) \in Nat
      /\ Lapsed(U) \in Nat /\ full \in {0, 1}
  BY <1>1, <1>3, <1>5
<1>7. /\ v \in Seq(Outcomes) /\ Len(v) = Len(w) + 1 - full
      /\ \A i \in full + 1 .. Len(w) : v[i - full] = w[i]
      /\ v[Len(w) + 1 - full] = r
  BY <1>1, <1>3, <1>6, AddEffect
<1> HIDE DEF v, full, r
<1>8. Len(v) = Cardinality(U) - Lapsed(U)
  BY <1>1, <1>2, <1>3, <1>6, <1>7
<1>9. ASSUME NEW s \in T, RankOf(T, s) > Lapsed(U)
      PROVE  v[RankOf(T, s) - Lapsed(U)] = s.rtt
  <2> DEFINE k == RankOf(T, s)
  <2>1. k \in 1 .. n
    BY <1>4
  <2>2. w[k - Lapsed(T)] = s.rtt
    <3>1. k > Lapsed(T)
      BY <1>3, <1>6, <1>9, <2>1
    <3> QED
      BY <1>1, <3>1
  <2>3. k > Lapsed(U)
    BY <1>9
  <2> HIDE DEF k
  <2>4. k - Lapsed(T) \in full + 1 .. Len(w) /\ k - Lapsed(T) - full = k - Lapsed(U)
    BY <1>1, <1>3, <1>6, <2>1, <2>3
  <2>5. v[k - Lapsed(T) - full] = w[k - Lapsed(T)]
    BY <1>7, <2>4
  <2>6. v[k - Lapsed(U)] = s.rtt
    BY <2>2, <2>4, <2>5
  <2> QED
    BY <2>6 DEF k
<1>10. v[n + 1 - Lapsed(U)] = r
  <2>1. n + 1 - Lapsed(U) = Len(w) + 1 - full
    BY <1>1, <1>3, <1>6
  <2> QED
    BY <1>7, <2>1
<1>11. ASSUME NEW s \in U, RankOf(U, s) > Lapsed(U)
       PROVE  v[RankOf(U, s) - Lapsed(U)] = s.rtt
  <2>1. CASE s = new
    <3>1. RankOf(U, s) - Lapsed(U) = n + 1 - Lapsed(U) /\ r = s.rtt
      BY <1>2, <1>3, <1>6, <2>1 DEF r
    <3> QED
      BY <1>10, <3>1
  <2>2. CASE s # new
    BY <1>0, <1>2, <1>9, <1>11, <2>2
  <2> QED
    BY <2>1, <2>2
<1>12. ASSUME NEW k \in 1 .. n + 1 PROVE \E s \in U : RankOf(U, s) = k
  <2>1. CASE k = n + 1
    BY <1>0, <1>2, <2>1
  <2>2. CASE k # n + 1
    <3>1. k \in 1 .. n
      BY <1>3, <2>2
    <3> QED
      BY <1>0, <1>1, <1>2, <3>1
  <2> QED
    BY <2>1, <2>2
<1>13. Follows(v, U)
  BY <1>2, <1>7, <1>8, <1>11, <1>12 DEF Follows
<1> QED
  BY <1>13 DEF v, U, r

\* An empty window follows an empty log.
LEMMA NoneFollows == Follows(<<>>, {})
<1>1. Cardinality({}) = 0 /\ <<>> \in Seq(Outcomes) /\ Len(<<>>) = 0
  BY FS_EmptySet, EmptySeq
<1>2. Lapsed({}) = 0
  BY <1>1, HistoryAssumption DEF Lapsed
<1> QED
  BY <1>1, <1>2 DEF Follows

\* A window that follows samples is the latest of them.
LEMMA FollowsIsLatest ==
    ASSUME NEW T, IsFiniteSet(T), T \subseteq Sample, NEW w, Follows(w, T)
    PROVE  w = LatestOf(T) /\ w \in Seq(Nat) /\ Len(w) <= Capacity
<1> DEFINE n == Cardinality(T)
           L == Lapsed(T)
           all == InOrder(T)
<1>1. n \in Nat /\ Capacity \in Nat \ {0}
  BY FS_CardinalityType, HistoryAssumption
<1>2. L = IF n > Capacity THEN n - Capacity ELSE 0
  BY DEF Lapsed
<1>3. all = [k \in 1 .. n |-> (CHOOSE s \in T : RankOf(T, s) = k).rtt]
  BY DEF InOrder
<1>4. LatestOf(T) = SubSeq(all, L + 1, n)
  BY DEF LatestOf
<1> HIDE DEF L, all
<1>5. /\ w \in Seq(Outcomes) /\ Len(w) = n - L
      /\ \A s \in T : RankOf(T, s) > L => w[RankOf(T, s) - L] = s.rtt
      /\ \A k \in 1 .. n : \E s \in T : RankOf(T, s) = k
  BY DEF Follows, L
<1> HIDE DEF n
<1>6. L \in Nat /\ L <= n /\ Len(w) \in Nat /\ Len(w) <= Capacity
  BY <1>1, <1>2, <1>5
<1>7. ASSUME NEW k \in 1 .. n
      PROVE  \E s \in T : RankOf(T, s) = k /\ all[k] = s.rtt
  <2>1. \E s \in T : RankOf(T, s) = k
    BY <1>5
  <2>2. PICK s \in T : s = (CHOOSE r \in T : RankOf(T, r) = k) /\ RankOf(T, s) = k
    BY <2>1
  <2> QED
    BY <1>3, <2>2
<1>8. \A k \in 1 .. n : all[k] \in Outcomes
  BY <1>7 DEF Sample
<1> DEFINE v == SubSeq(all, L + 1, n)
<1>9. /\ v \in Seq(Outcomes) /\ Len(v) = n - L
       /\ \A i \in 1 .. n - L : v[i] = all[L + i]
  <2>1. L + 1 \in Int /\ n \in Int /\ \A i \in L + 1 .. n : all[i] \in Outcomes
    BY <1>1, <1>6, <1>8
  <2>2. /\ v \in Seq(Outcomes)
        /\ Len(v) = IF L + 1 <= n THEN n - (L + 1) + 1 ELSE 0
        /\ \A i \in 1 .. n - (L + 1) + 1 : v[i] = all[L + 1 + i - 1]
    BY <2>1, SubSeqProperties
  <2>3. n - (L + 1) + 1 = n - L /\ \A i \in 1 .. n - L : L + 1 + i - 1 = L + i
    BY <1>1, <1>6
  <2> HIDE DEF v
  <2> QED
    BY <1>1, <1>6, <2>2, <2>3
<1>10. v = LatestOf(T)
  BY <1>4
<1> HIDE DEF v
<1>11. ASSUME NEW i \in 1 .. n - L PROVE w[i] = v[i]
  <2>1. L + i \in 1 .. n /\ L + i > L /\ L + i - L = i
    BY <1>1, <1>6
  <2>2. PICK s \in T : RankOf(T, s) = L + i /\ all[L + i] = s.rtt
    BY <1>7, <2>1
  <2>3. RankOf(T, s) > L
    BY <2>1, <2>2
  <2> DEFINE k == RankOf(T, s) - L
  <2>4. w[k] = s.rtt
    BY <1>5, <2>3
  <2>5. k = i
    BY <1>1, <1>6, <2>1, <2>2
  <2> HIDE DEF k
  <2>6. v[i] = all[L + i]
    BY <1>9
  <2> QED
    BY <2>2, <2>4, <2>5, <2>6
<1>12. w = v
  BY <1>5, <1>6, <1>9, <1>11, SeqEqual
<1>13. Outcomes \subseteq Nat
  BY HistoryAssumption DEF Outcomes
<1> QED
  BY <1>5, <1>6, <1>10, <1>12, <1>13, SeqMonotonic

\* What was probed: stored, or refused.
Probed == samples \cup refused

\* Time goes forward: what this process has taken is of its time, no sample is
\* later than the tick that takes it, and a tick takes its targets in turn.
OrderInv ==
    /\ began <= clock
    /\ \A s \in Probed : s.ts <= clock
    /\ tick # NoTick => began <= tick.now /\ tick.now <= clock
    /\ tick.pc = "probe" =>
          \A s \in Probed : s.ts < tick.now \/ (s.ts = tick.now /\ s.target < tick.target)

\* The window follows what was taken, and the figures were its figures when the
\* last tick ended.
WindowInv ==
    /\ Follows(window, Taken)
    /\ status \in Figures
    /\ tick = NoTick => status = WindowFigures(window)

\* A probe adds a sample of the tick and a target that has none yet to those
\* stored or refused, and its result to the window.
LEMMA ProbeAdds ==
    ASSUME StateTypes, OrderInv, Probe
    PROVE  /\ tick \in Tick /\ tick # NoTick /\ tick' # NoTick
           /\ tick.now \in Nat /\ tick.target \in 1 .. NTargets
           /\ \E new \in Sample :
                 /\ new.ts = tick.now /\ new.target = tick.target
                 /\ Probed' = Probed \cup {new}
                 /\ window' = Add(window, new.rtt)
                 /\ \A s \in Probed : Before(s, new)
           /\ tick'.now = tick.now
           /\ tick'.pc = "probe" => tick'.target = tick.target + 1
<1>1. tick.pc = "probe"
  BY DEF Probe
<1>2. tick \in Tick /\ tick # NoTick /\ tick.target \in 1 .. NTargets
      /\ tick.now \in Readings
  BY ProbeSample, TickParts
<1>3. PICK new \in Sample :
         /\ new.ts = tick.now /\ new.target = tick.target
         /\ \/ samples' = samples \cup {new} /\ refused' = refused
            \/ refused' = refused \cup {new} /\ samples' = samples
         /\ window' = Add(window, new.rtt)
         /\ tick' = IF tick.target < NTargets
                    THEN [tick EXCEPT !.target = tick.target + 1,
                                      !.up = tick.up \/ new.rtt # 0]
                    ELSE [InTick("manage") EXCEPT !.up = tick.up \/ new.rtt # 0]
  BY ProbeSample
<1>4. Probed' = Probed \cup {new}
  BY <1>3 DEF Probed
<1>5. \A s \in Probed : Before(s, new)
  BY <1>1, <1>3 DEF OrderInv, Before
<1>6. tick.now \in Nat
  BY <1>2, HistoryAssumption DEF Readings
<1>7. tick' # NoTick /\ tick'.now = tick.now
      /\ (tick'.pc = "probe" => tick'.target = tick.target + 1)
  <2>1. tick \in [pc : {"probe"}, now : Readings, net : Networks,
                  target : 1 .. NTargets, up : BOOLEAN]
    BY <1>1, <1>2 DEF Tick
  <2>2. CASE tick.target < NTargets
    <3>1. tick' = [tick EXCEPT !.target = tick.target + 1,
                               !.up = tick.up \/ new.rtt # 0]
      BY <1>3, <2>2
    <3>2. tick'.pc = "probe" /\ tick'.now = tick.now /\ tick'.target = tick.target + 1
      BY <2>1, <3>1
    <3> QED
      BY <3>2, TickParts
  <2>3. CASE ~(tick.target < NTargets)
    <3>1. tick' = [pc |-> "manage", now |-> tick.now, net |-> tick.net,
                   up |-> (tick.up \/ new.rtt # 0)]
      BY <1>3, <2>3 DEF InTick
    <3>2. tick'.pc = "manage" /\ tick'.now = tick.now
      BY <3>1
    <3> QED
      BY <3>2, TickParts
  <2> QED
    BY <2>2, <2>3
<1> QED
  BY <1>2, <1>3, <1>4, <1>5, <1>6, <1>7

\* Time goes forward.
THEOREM OrderCorrect == Spec => []OrderInv
<1>1. Init => OrderInv
  BY TickParts DEF Init, OrderInv, Probed
<1>2. StateTypes /\ StateTypes' /\ OrderInv /\ [Next]_vars => OrderInv'
  <2> SUFFICES ASSUME StateTypes, StateTypes', OrderInv, [Next]_vars
               PROVE  OrderInv'
    OBVIOUS
  <2>t. /\ clock \in Nat /\ began \in Nat /\ clock' \in Nat
        /\ tick \in {NoTick} \cup Tick
        /\ \A s \in Probed : s.ts \in Nat /\ s.target \in 1 .. NTargets
        /\ \A t \in Tick : t.now \in Nat
    BY TickParts, HistoryAssumption
       DEF StateTypes, ClockTypes, TickTypes, LogTypes, Sample, Readings, Probed
  <2>1. CASE TickBegin
    <3>1. PICK net \in Networks :
             tick' = [pc |-> "probe", now |-> clock', net |-> net, target |-> 1,
                      up |-> FALSE]
      BY <2>1 DEF TickBegin
    <3>2. tick'.now = clock' /\ clock' = clock + 1 /\ began' = began /\ Probed' = Probed
      BY <2>1, <3>1 DEF TickBegin, Advance, tables, Probed
    <3> QED
      BY <2>t, <3>2 DEF OrderInv
  <2>2. CASE Probe
    <3>1. PICK new \in Sample :
             /\ new.ts = tick.now /\ new.target = tick.target
             /\ Probed' = Probed \cup {new}
             /\ \A s \in Probed : Before(s, new)
      BY <2>2, ProbeAdds
    <3>2. /\ tick # NoTick /\ tick.now \in Nat /\ tick.target \in 1 .. NTargets
          /\ tick'.now = tick.now
          /\ tick'.pc = "probe" => tick'.target = tick.target + 1
      BY <2>2, ProbeAdds
    <3>3. clock' = clock /\ began' = began
      BY <2>2 DEF Probe
    <3>4. began <= tick.now /\ tick.now <= clock
      BY <3>2 DEF OrderInv
    <3>5. \A s \in Probed' : s.ts <= clock
      BY <3>1, <3>4 DEF OrderInv
    <3>6. ASSUME tick'.pc = "probe", NEW s \in Probed'
          PROVE  s.ts < tick'.now \/ (s.ts = tick'.now /\ s.target < tick'.target)
      <4>1. tick'.target = tick.target + 1
        BY <3>2, <3>6
      <4>2. CASE s = new
        BY <3>1, <3>2, <4>1, <4>2
      <4>3. CASE s \in Probed
        BY <2>t, <3>1, <3>2, <4>1, <4>3 DEF Before
      <4> QED
        BY <3>1, <4>2, <4>3
    <3> QED
      BY <3>2, <3>3, <3>4, <3>5, <3>6 DEF OrderInv
  <2>3. CASE Manage \/ Settle
    <3>0. /\ tick.pc # "idle"
          /\ tick' = InTick("publish") \/ \E ongoing \in BOOLEAN : tick' = Settling(ongoing)
      BY <2>3 DEF Manage, Settle
    <3>1. tick # NoTick /\ tick'.now = tick.now /\ tick'.pc # "probe"
      BY <3>0, TickParts DEF InTick, Settling
    <3>2. clock' = clock /\ began' = began /\ Probed' = Probed
      BY <2>3 DEF Manage, Settle, Probed
    <3> QED
      BY <3>1, <3>2 DEF OrderInv
  <2>4. CASE Publish
    BY <2>4, TickParts DEF Publish, tables, OrderInv, Probed
  <2>5. CASE CaptureEnds \/ HistoryBegin
    <3>1. clock' = clock + 1 /\ began' = began /\ Probed' = Probed /\ tick' = tick
      BY <2>5 DEF CaptureEnds, HistoryBegin, Advance, tables, Probed
    <3> QED
      BY <2>t, <3>1 DEF OrderInv
  <2>6. CASE Restart
    <3>1. /\ clock' = clock + 1 /\ began' = clock' /\ tick' = NoTick
          /\ Probed' \subseteq Probed
      BY <2>6 DEF Restart, Advance, tables, Probed
    <3> QED
      BY <2>t, <3>1, TickParts DEF OrderInv
  <2>7. CASE clock' = clock /\ began' = began /\ Probed' = Probed /\ tick' = tick
    BY <2>7 DEF OrderInv
  <2> QED
    BY <2>1, <2>2, <2>3, <2>4, <2>5, <2>6, <2>7
       DEF Next, vars, tables, ReadBuckets, ReadOutages, ReadTraces, Reading, Probed
<1> QED
  BY <1>1, <1>2, StateCorrect, PTL DEF Spec

\* The samples of this process are finitely many.
LEMMA TakenType == ASSUME StateTypes PROVE IsFiniteSet(Taken) /\ Taken \subseteq Sample
<1>1. IsFiniteSet(samples \cup refused) /\ samples \cup refused \subseteq Sample
  BY FS_Union DEF StateTypes, LogTypes
<1>2. Taken \in SUBSET (samples \cup refused)
  BY DEF Taken
<1> QED
  BY <1>1, <1>2, FS_Subset

\* The window is the latest of what this process probed, in that order, whether
\* the store kept a sample or refused it (Window.Add after InsertSample, whose
\* error is only logged), and the figures published are the window's.
THEOREM WindowCorrect == Spec => []WindowInv
<1>0. Follows(<<>>, {}) /\ WindowFigures(<<>>) = NoFigures /\ NoFigures \in Figures
  <2>1. Len(<<>>) = 0
    BY EmptySeq
  <2>2. Tallies(<<>>)[Len(<<>>)] = NoTally
    BY <2>1, TalliesCorrect
  <2>3. WindowFigures(<<>>) = NoFigures
    BY <2>2 DEF WindowFigures, NoFigures, NoTally
  <2> QED
    BY <2>3, NoneFollows DEF NoFigures, Figures
<1>1. Init => WindowInv
  <2> SUFFICES ASSUME Init PROVE WindowInv
    OBVIOUS
  <2>1. Taken = {} /\ window = <<>> /\ status = NoFigures
    BY DEF Init, Taken
  <2> QED
    BY <1>0, <2>1 DEF WindowInv
<1>2. StateTypes /\ OrderInv /\ WindowInv /\ [Next]_vars => WindowInv'
  <2> SUFFICES ASSUME StateTypes, OrderInv, WindowInv, [Next]_vars
               PROVE  WindowInv'
    OBVIOUS
  <2>t. /\ IsFiniteSet(Taken) /\ Taken \subseteq Sample
        /\ clock \in Nat /\ began \in Nat
        /\ \A s \in Probed : s.ts \in Nat
        /\ tick \in {NoTick} \cup Tick
    BY TakenType, HistoryAssumption
       DEF StateTypes, ClockTypes, LogTypes, TickTypes, Sample, Readings, Probed
  <2>w. \A w, T : Follows(w, T)' <=> Follows(w, T)
    OBVIOUS
  <2>1. ASSUME window' = window, samples' = samples, refused' = refused, began' = began
        PROVE  Follows(window, Taken)'
    BY <2>1 DEF WindowInv, Follows, Taken
  <2>2. CASE Probe
    <3>1. PICK new \in Sample :
             /\ new.ts = tick.now
             /\ Probed' = Probed \cup {new}
             /\ window' = Add(window, new.rtt)
             /\ \A s \in Probed : Before(s, new)
      BY <2>2, ProbeAdds
    <3>2. tick # NoTick /\ tick' # NoTick /\ began' = began /\ status' = status
      BY <2>2, ProbeAdds DEF Probe
    <3>3. Taken' = Taken \cup {new}
      BY <3>1, <3>2 DEF Taken, Probed, OrderInv
    <3>4. IsFiniteSet(Taken) /\ Taken \subseteq Sample /\ \A s \in Taken : Before(s, new)
      BY <2>t, <3>1 DEF Taken, Probed
    <3>5. Follows(Add(window, new.rtt), Taken \cup {new})
      BY <3>4, AddFollows DEF WindowInv
    <3>6. Follows(window, Taken)'
      BY <3>1, <3>3, <3>5 DEF Follows
    <3> QED
      BY <3>2, <3>6 DEF WindowInv
  <2>3. CASE Restart
    <3>1. /\ began' = clock + 1 /\ samples' = samples /\ refused' = {}
          /\ window' = <<>> /\ status' = NoFigures
      BY <2>3 DEF Restart, Advance, tables
    <3>2. Taken' = {}
      BY <2>t, <3>1 DEF Taken, Probed, OrderInv
    <3>3. Follows(window, Taken)'
      BY <1>0, <3>1, <3>2 DEF Follows
    <3>4. status' \in Figures /\ status' = WindowFigures(window')
      BY <1>0, <3>1
    <3> QED
      BY <3>3, <3>4 DEF WindowInv
  <2>4. CASE Publish
    <3>1. /\ window' = window /\ samples' = samples /\ refused' = refused
          /\ began' = began /\ status' = WindowFigures(window)
      BY <2>4 DEF Publish, tables
    <3>2. WindowFigures(window) \in Figures
      BY <2>t, FollowsIsLatest, FiguresCorrect DEF WindowInv
    <3>3. status' \in Figures /\ status' = WindowFigures(window')
      BY <3>1, <3>2
    <3> QED
      BY <2>1, <3>1, <3>3 DEF WindowInv
  <2>5. CASE /\ window' = window /\ samples' = samples /\ refused' = refused
             /\ began' = began /\ status' = status /\ (tick' = NoTick => tick = NoTick)
    <3>1. tick' = NoTick => status' = WindowFigures(window')
      BY <2>5 DEF WindowInv
    <3> QED
      BY <2>1, <2>5, <3>1 DEF WindowInv
  <2>6. CASE TickBegin \/ Manage \/ Settle
    <3>0. \E pc \in {"probe", "settle", "publish"} : tick'.pc = pc
      <4>1. CASE TickBegin
        BY <4>1 DEF TickBegin
      <4>2. CASE Manage \/ Settle
        <5>1. \/ tick' = InTick("publish")
              \/ \E ongoing \in BOOLEAN : tick' = Settling(ongoing)
          BY <4>2 DEF Manage, Settle
        <5> QED
          BY <5>1 DEF InTick, Settling
      <4> QED
        BY <2>6, <4>1, <4>2
    <3>1. tick' # NoTick
      BY <3>0, TickParts
    <3> QED
      BY <2>5, <2>6, <3>1 DEF TickBegin, Manage, Settle, tables
  <2>7. CASE CaptureEnds \/ HistoryBegin \/ ReadBuckets \/ ReadOutages \/ ReadTraces
             \/ UNCHANGED vars
    BY <2>5, <2>7
       DEF CaptureEnds, HistoryBegin, ReadBuckets, ReadOutages, ReadTraces, Reading,
           vars, tables
  <2> QED
    BY <2>2, <2>3, <2>4, <2>6, <2>7 DEF Next
<1> QED
  BY <1>1, <1>2, StateCorrect, OrderCorrect, PTL DEF Spec

\* What the page shows of the live figures is what the latest results of this
\* process amount to, for every window size and every number of targets, and
\* whichever samples the store refused: the figures counted result by result
\* are those of the definitions (window.go:31-97).
THEOREM LiveFiguresHolds == Spec => []LiveFiguresAreTheLatest
<1>1. StateTypes /\ WindowInv => LiveFiguresAreTheLatest
  <2> SUFFICES ASSUME StateTypes, WindowInv, tick = NoTick
               PROVE  status = FiguresOf(LatestOf(Taken))
    BY DEF LiveFiguresAreTheLatest
  <2>1. window = LatestOf(Taken) /\ window \in Seq(Nat)
    BY TakenType, FollowsIsLatest DEF WindowInv
  <2>2. WindowFigures(window) = FiguresOf(window)
    BY <2>1, FiguresCorrect
  <2> QED
    BY <2>1, <2>2 DEF WindowInv
<1> QED
  BY <1>1, StateCorrect, WindowCorrect, PTL

-----------------------------------------------------------------------------
(* The types *)

\* A traceroute runs for an outage there is.
TracingInv == tracing \subseteq {o.id : o \in outages}

\* A traceroute runs for an outage there is, whatever closes it meanwhile.
THEOREM TracingCorrect == Spec => []TracingInv
<1>1. Init => TracingInv
  BY DEF Init, TracingInv
<1>2. StateTypes /\ TracingInv /\ [Next]_vars => TracingInv'
  <2> SUFFICES ASSUME StateTypes, TracingInv, [Next]_vars,
                      NEW id \in tracing'
               PROVE  \E q \in outages' : q.id = id
    BY DEF TracingInv
  <2>1. CASE id \in tracing
    <3>1. PICK p \in outages : p.id = id
      BY <2>1 DEF TracingInv
    <3>2. PICK q \in outages' : SameOutage(q, p)
      BY StepOutages
    <3> QED
      BY <3>1, <3>2 DEF SameOutage
  <2>2. CASE id \notin tracing
    <3>1. Settle /\ tracing' # tracing
      BY <2>2 DEF Next, vars, tables, TickBegin, Probe, Manage, Publish, CaptureEnds,
                  Restart, HistoryBegin, ReadBuckets, ReadOutages, ReadTraces, Reading
    <3> DEFINE last == Cardinality(outages) + 1
               new == [id |-> last, net |-> tick.net, start |-> tick.now, end |-> 0]
    <3>2. tracing' = tracing \cup {last} /\ outages' = outages \cup {new}
      BY <3>1 DEF Settle
    <3>3. id = last /\ new.id = last
      BY <2>2, <3>2
    <3> HIDE DEF new
    <3> QED
      BY <3>2, <3>3
  <2> QED
    BY <2>1, <2>2
<1> QED
  BY <1>1, <1>2, StateCorrect, PTL DEF Spec

\* Every variable keeps its type, and the window its bound.
THEOREM HistoryTypeCorrect == Spec => []TypeOK
<1>1. StateTypes /\ WindowInv /\ TracingInv => TypeOK
  <2> SUFFICES ASSUME StateTypes, WindowInv, TracingInv PROVE TypeOK
    OBVIOUS
  <2>1. window \in Seq(Outcomes) /\ Len(window) <= Capacity
    BY TakenType, FollowsIsLatest DEF WindowInv, Follows
  <2>2. req # NoRequest => req.pc \in Stages
    BY DEF StateTypes, RequestTypes, Request
  <2> QED
    BY <2>1, <2>2
       DEF TypeOK, StateTypes, ClockTypes, TickTypes, LogTypes, WindowInv, TracingInv
<1> QED
  BY <1>1, StateCorrect, WindowCorrect, TracingCorrect, PTL
=============================================================================
