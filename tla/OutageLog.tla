----------------------------- MODULE OutageLog ------------------------------
(***************************************************************************)
(* The tick of the netqa daemon and the outages it writes to the store     *)
(* (internal/daemon/daemon.go, internal/store/store.go).  One daemon       *)
(* process ticks; each tick observes where the machine is, probes the      *)
(* targets, stores the samples and opens or closes the outage of that      *)
(* network.  Between any two steps time may pass, the machine may sleep,   *)
(* move to another network or lose its link, the store may refuse a call   *)
(* and the process may exit and be restarted.                              *)
(*                                                                         *)
(* Time.  A time.Time holds a wall reading and a monotonic one.            *)
(* Differences of two readings of one process use the monotonic ones,      *)
(* which need not advance while the machine sleeps; what comes back from   *)
(* the store has a wall reading only.  0 is the zero time.  Ticks are at   *)
(* least one unit apart.                                                   *)
(***************************************************************************)
EXTENDS Naturals, FiniteSets, Classifier

CONSTANTS
    Networks,   \* networks (rows of the networks table) with a link
    NoLink,     \* the row of the empty fingerprint: no usable physical path
    NTargets,   \* number of probe targets, at least 1 (Config.Targets)
    MaxGap,     \* Daemon.maxGap in units of time
    Faults,     \* the kinds of fault this instance lets happen
    MaxWall,    \* bound: last wall time at which something happens
    MaxFaults   \* bound: number of distinct faults in a behaviour

(***************************************************************************)
(* The faults.  "Move": the machine changes network or loses its link.     *)
(* "MonoStops": it sleeps and its monotonic clock stops.  "StoreError": a  *)
(* call to SQLite fails.  "MidTickExit": the process exits after a tick    *)
(* stored a sample and before it managed the outage (main returns without  *)
(* waiting for the tick).                                                  *)
(***************************************************************************)
FaultKinds == {"Move", "MonoStops", "StoreError", "MidTickExit"}

Places == Networks \cup {NoLink}

ASSUME ConfigAssumption ==
    /\ NoLink \notin Networks
    /\ NTargets \in Nat \ {0}
    /\ MaxGap \in Nat \ {0}
    /\ Faults \subseteq FaultKinds
    /\ MaxWall \in Nat
    /\ MaxFaults \in Nat

VARIABLES
    clock,     \* the machine's clocks
    here,      \* where the machine is
    pc,        \* the daemon's progress through its tick
    tick,      \* the locals of the tick in progress
    lastSeen,  \* Daemon.lastSeen
    status,    \* Daemon.status, the part the dashboard's claim rests on
    samples,   \* the samples table, targets left out
    outages,   \* the outages table; end = 0 stands for NULL
    faults     \* history: the faults so far and the wall time of each

vars == <<clock, here, pc, tick, lastSeen, status, samples, outages, faults>>

-----------------------------------------------------------------------------
(* Types *)

Time == [wall : Nat, mono : Nat]
ZeroTime == [wall |-> 0, mono |-> 0]

Tick == [now : Time, net : Places, gatewayUp : BOOLEAN, internetUp : BOOLEAN,
         left : 0 .. NTargets, ongoing : Nat]
NoTick == [now |-> ZeroTime, net |-> NoLink, gatewayUp |-> FALSE,
           internetUp |-> FALSE, left |-> 0, ongoing |-> 0]

Status == [ts : Nat, net : Places, online : BOOLEAN, open : BOOLEAN, since : Nat]
NoStatus == [ts |-> 0, net |-> NoLink, online |-> FALSE, open |-> FALSE,
             since |-> 0]

Sample == [net : Places, ts : Nat, success : BOOLEAN]
OutageRow == [net : Places, start : Nat, end : Nat]
FaultRecord == [kind : FaultKinds, at : Nat]

Steps == {"off", "idle", "resolve", "probe", "manage", "settle", "publish"}
InTick == Steps \ {"off", "idle"}

TypeOK ==
    /\ clock \in Time
    /\ here \in Places
    /\ pc \in Steps
    /\ tick \in Tick
    /\ lastSeen \in Time
    /\ status \in Status
    /\ samples \subseteq Sample
    /\ outages \subseteq OutageRow
    /\ faults \subseteq FaultRecord

Init ==
    /\ clock = [wall |-> 1, mono |-> 1]
    /\ here \in Places
    /\ pc = "off"
    /\ tick = NoTick
    /\ lastSeen = ZeroTime
    /\ status = NoStatus
    /\ samples = {}
    /\ outages = {}
    /\ faults = {}

-----------------------------------------------------------------------------
(* Faults are dated by the tick they hit, and by the clock between ticks. *)

Stamp == IF pc \in InTick THEN tick.now.wall ELSE clock.wall

Fault(kind, at) ==
    /\ kind \in Faults
    /\ Cardinality(faults) < MaxFaults
    /\ faults' = faults \cup {[kind |-> kind, at |-> at]}

StoreFails == Fault("StoreError", Stamp)

\* A fault of one of the kinds, dated between two wall times.
Faulted(kinds, from, to) ==
    \E f \in faults : f.kind \in kinds /\ from <= f.at /\ f.at <= to

-----------------------------------------------------------------------------
(* The store *)

\* Mutant: the oldest open outage of a network, its rows read in order.
IsOldestOngoing(o, net) ==
    /\ o.net = net /\ o.end = 0
    /\ \A p \in outages : p.net = net /\ p.end = 0 => o.start <= p.start

\* OngoingOutage: the open outage of a network, the latest where several are.
IsOngoing(o, net) ==
    /\ o.net = net /\ o.end = 0
    /\ \A p \in outages : p.net = net /\ p.end = 0 => p.start <= o.start

NoneOngoing(net) == \A p \in outages : ~(p.net = net /\ p.end = 0)

\* Mutant: the UPDATE names the network and not the row.
CloseOutageOfNetwork(net, start, end) ==
    outages' = {IF o.net = net THEN [o EXCEPT !.end = end] ELSE o : o \in outages}

\* Mutant: an outage seen only once is not closed, having no duration.
CloseOutageIfLasting(net, start, end) ==
    outages' = {IF o.net = net /\ o.start = start /\ start < end
                THEN [o EXCEPT !.end = end] ELSE o : o \in outages}

\* CloseOutage: a row is known by its network and start, as by its id: one
\* tick opens at most one outage and no two ticks share their time.
CloseOutage(net, start, end) ==
    outages' = {IF o.net = net /\ o.start = start THEN [o EXCEPT !.end = end]
                                                  ELSE o : o \in outages}

OpenOutage(net, start) ==
    outages' = outages \cup {[net |-> net, start |-> start, end |-> 0]}

\* Mutant: the tick's own samples count as an earlier observation.
LastSampleUpTo(net, t) ==
    {s \in samples : /\ s.net = net /\ s.ts <= t
                     /\ \A r \in samples : r.net = net /\ r.ts <= t => r.ts <= s.ts}

\* LastSampleBefore: the newest sample of a network strictly before t.
LastSampleBefore(net, t) ==
    {s \in samples : /\ s.net = net /\ s.ts < t
                     /\ \A r \in samples : r.net = net /\ r.ts < t => r.ts <= s.ts}

-----------------------------------------------------------------------------
(* One tick *)

\* The process between two ticks starts one: it takes the time.
TickBegin ==
    /\ pc = "idle"
    /\ clock.wall < MaxWall
    /\ clock' = [wall |-> clock.wall + 1, mono |-> clock.mono + 1]
    /\ tick' = [NoTick EXCEPT !.now = clock']
    /\ pc' = "resolve"
    /\ UNCHANGED <<here, lastSeen, status, samples, outages, faults>>

\* env.Observe and Resolver.Resolve, then the gateway probe; a machine with no
\* default route has no gateway to probe and resolves to the empty fingerprint.
Resolve ==
    /\ pc = "resolve"
    /\ \E gatewayUp \in BOOLEAN :
          /\ here = NoLink => ~gatewayUp
          /\ tick' = [tick EXCEPT !.net = here, !.gatewayUp = gatewayUp,
                                  !.left = NTargets]
    /\ pc' = "probe"
    /\ UNCHANGED <<clock, here, lastSeen, status, samples, outages, faults>>

\* Resolve returns an error: the tick is skipped.
ResolveFails ==
    /\ pc = "resolve"
    /\ tick' = NoTick
    /\ pc' = "idle"
    /\ UNCHANGED <<clock, here, lastSeen, status, samples, outages, faults>>

\* Mutant: the last target decides.
LastAnswer(before, success) == success
\* One answer is enough for the internet to be up.
SomeAnswer(before, success) == before \/ success

\* Mutant: one target too many.
PastTheLastTarget == tick.left = 0
LastTarget == tick.left = 1

\* One target is probed; a sample that cannot be stored is only logged.
Probe ==
    /\ pc = "probe"
    /\ \E success \in BOOLEAN :
          /\ tick' = [tick EXCEPT !.internetUp = SomeAnswer(tick.internetUp, success),
                                  !.left = tick.left - 1]
          /\ \/ /\ samples' = samples \cup {[net |-> tick.net, ts |-> tick.now.wall,
                                             success |-> success]}
                /\ UNCHANGED faults
             \/ StoreFails /\ UNCHANGED samples
    /\ pc' = IF LastTarget THEN "manage" ELSE "probe"
    /\ UNCHANGED <<clock, here, lastSeen, status, outages>>

\* The classifier's verdict on what this tick measured.
Verdict == IsEvidence([awake |-> TRUE, wifiOn |-> tick.net # NoLink,
                       gatewayUp |-> tick.gatewayUp,
                       internetUp |-> tick.internetUp,
                       vpn |-> FALSE, pathBreaksPastISP |-> FALSE])

\* lastObserved: the previous tick of this process, else the newest stored
\* sample of the network; empty stands for the zero time.
LastObserved ==
    IF lastSeen # ZeroTime
    THEN {[at |-> lastSeen.wall, silence |-> tick.now.mono - lastSeen.mono]}
    ELSE {[at |-> s.ts, silence |-> tick.now.wall - s.ts] :
             s \in LastSampleBefore(tick.net, tick.now.wall)}

\* Mutant: the gap is not moved to the start of the outage.
Earlier(a, b) == a

Later(a, b) == IF a < b THEN b ELSE a

\* manageOutage, once it knows the ongoing outage (0: none).
Managed(ongoing) ==
    /\ tick' = [tick EXCEPT !.ongoing = ongoing]
    /\ lastSeen' = tick.now
    /\ pc' = "settle"
    /\ UNCHANGED <<clock, here, status, samples>>

NothingOngoing ==
    /\ pc = "manage"
    /\ NoneOngoing(tick.net)
    /\ Managed(0)
    /\ UNCHANGED <<outages, faults>>

StaysOngoing ==
    /\ pc = "manage"
    /\ \E o \in outages :
          /\ IsOngoing(o, tick.net)
          /\ \/ /\ \A seen \in LastObserved : seen.silence <= MaxGap
                /\ UNCHANGED faults
             \/ lastSeen = ZeroTime /\ StoreFails    \* no time: no gap is seen
          /\ Managed(o.start)
    /\ UNCHANGED outages

\* A silence longer than MaxGap: close at the last observation.  The outage
\* is forgotten for this tick even if the store refused to close it.
GapCloses ==
    /\ pc = "manage"
    /\ \E o \in outages, seen \in LastObserved :
          /\ IsOngoing(o, tick.net)
          /\ seen.silence > MaxGap
          /\ \/ /\ CloseOutage(o.net, o.start, Later(seen.at, o.start))
                /\ UNCHANGED faults
             \/ StoreFails /\ UNCHANGED outages
    /\ Managed(0)

\* OngoingOutage fails: manageOutage returns before it notes the observation.
LookupFails ==
    /\ pc = "manage"
    /\ StoreFails
    /\ pc' = "publish"
    /\ UNCHANGED <<clock, here, tick, lastSeen, status, samples, outages>>

Settle ==
    /\ pc = "settle"
    /\ \/ /\ Verdict /\ tick.ongoing = 0
          /\ \/ OpenOutage(tick.net, tick.now.wall) /\ UNCHANGED faults
             \/ StoreFails /\ UNCHANGED outages
       \/ /\ ~Verdict /\ tick.ongoing # 0
          /\ \/ /\ CloseOutage(tick.net, tick.ongoing, tick.now.wall)
                /\ UNCHANGED faults
             \/ StoreFails /\ UNCHANGED outages
       \/ /\ Verdict <=> tick.ongoing # 0
          /\ UNCHANGED <<outages, faults>>
    /\ pc' = "publish"
    /\ UNCHANGED <<clock, here, tick, lastSeen, status, samples>>

\* Mutant: every outage shows, local ones too.
PublishLocalToo ==
    /\ pc = "publish"
    /\ status' = [ts |-> tick.now.wall, net |-> tick.net,
                  online |-> tick.internetUp, open |-> ~tick.internetUp,
                  since |-> IF status.since # 0 THEN status.since
                            ELSE tick.now.wall]
    /\ tick' = NoTick
    /\ pc' = "idle"
    /\ UNCHANGED <<clock, here, lastSeen, samples, outages, faults>>

\* The live status; an outage keeps the "since" the previous status had.
Publish ==
    /\ pc = "publish"
    /\ status' = [ts |-> tick.now.wall, net |-> tick.net,
                  online |-> tick.internetUp, open |-> Verdict,
                  since |-> IF ~Verdict THEN 0
                            ELSE IF status.since # 0 THEN status.since
                            ELSE tick.now.wall]
    /\ tick' = NoTick
    /\ pc' = "idle"
    /\ UNCHANGED <<clock, here, lastSeen, samples, outages, faults>>

-----------------------------------------------------------------------------
(* The process and the machine *)

\* The process is started by launchd; its memory is empty.
Start ==
    /\ pc = "off"
    /\ pc' = "idle"
    /\ UNCHANGED <<clock, here, tick, lastSeen, status, samples, outages, faults>>

\* SIGTERM, a crash, or the watchdog's os.Exit.
Exit ==
    /\ pc # "off"
    /\ IF pc \in {"probe", "manage", "settle"}
       THEN Fault("MidTickExit", Stamp)
       ELSE UNCHANGED faults
    /\ pc' = "off"
    /\ tick' = NoTick
    /\ lastSeen' = ZeroTime
    /\ status' = NoStatus
    /\ UNCHANGED <<clock, here, samples, outages>>

\* Time passes with no tick beginning: a slow call, a tick skipped for a speed
\* test, a wedged process, downtime, or a sleep the monotonic clock counts.
Elapse ==
    /\ clock.wall < MaxWall
    /\ clock' = [wall |-> clock.wall + 1, mono |-> clock.mono + 1]
    /\ UNCHANGED <<here, pc, tick, lastSeen, status, samples, outages, faults>>

\* The machine sleeps and the monotonic clock stands still.
Sleep ==
    /\ pc # "off"
    /\ clock.wall < MaxWall
    /\ Fault("MonoStops", Stamp)
    /\ clock' = [clock EXCEPT !.wall = clock.wall + 1]
    /\ UNCHANGED <<here, pc, tick, lastSeen, status, samples, outages>>

\* The machine joins another network, or loses its link.
Move ==
    /\ \E place \in Places \ {here} : here' = place
    /\ Fault("Move", Stamp)
    /\ UNCHANGED <<clock, pc, tick, lastSeen, status, samples, outages>>

Next ==
    \/ Start \/ Exit \/ Elapse \/ Sleep \/ Move
    \/ TickBegin \/ Resolve \/ ResolveFails \/ Probe
    \/ NothingOngoing \/ StaysOngoing \/ GapCloses \/ LookupFails
    \/ Settle \/ Publish

Spec == Init /\ [][Next]_vars

-----------------------------------------------------------------------------
(* Properties *)

\* Every moment from a to b follows an observation of the network, taken since
\* a, by less than the gap the daemon tolerates.
Covered(net, a, b) ==
    \A t \in a .. b - 1 :
        \E s \in samples : /\ s.net = net
                           /\ a <= s.ts /\ s.ts <= t /\ t < s.ts + MaxGap

\* manageOutage's contract (daemon.go:301-304): the duration billed to the ISP
\* holds no gap in observation.  The README and the comment promise it with no
\* condition; a sleep refutes it, and so would a move or an exit inside a
\* tick.
NeverBillsSilence ==
    \A o \in outages : o.end # 0 => Covered(o.net, o.start, o.end)

\* What the code does guarantee: gap detection is sound, over ticks, downtime
\* and restarts, for every outage during which no fault of the list happened.
CleanOutagesBillOnlyObservedTime ==
    \A o \in outages :
        o.end # 0 /\ ~Faulted(FaultKinds, o.start, o.end)
            => Covered(o.net, o.start, o.end)

\* Two outages of a network never overlap, so no minute is billed twice: an
\* outage is closed before the next one of its network starts, unless the
\* store failed between the two starts.
NoDoubleBilling ==
    \A o1, o2 \in outages :
        /\ o1.net = o2.net /\ o1.start < o2.start
        /\ ~Faulted({"StoreError"}, o1.start, o2.start)
        => o1.end # 0 /\ o1.end <= o2.start

\* An outage never ends before it starts, whichever of the three places of
\* manageOutage closed it and whatever time the gap was dated to.
OutagesEndAfterTheyStart ==
    \A o \in outages : o.end # 0 => o.start <= o.end

\* Recovery ends the evidence: no probe of the network succeeded while the
\* outage lasted.  A sample of the tick in progress is not yet judged, and a
\* tick the process did not finish, or a store failure since, excuses it.
NoSuccessInsideAnOutage ==
    \A o \in outages, s \in samples :
        /\ s.net = o.net /\ s.success
        /\ o.start <= s.ts /\ (o.end = 0 \/ s.ts < o.end)
        => \/ s.ts = tick.now.wall
           \/ Faulted({"StoreError"}, o.start, s.ts)
           \/ Faulted({"MidTickExit"}, s.ts, s.ts)

\* Between ticks the dashboard and the evidence agree: the status shows an
\* outage exactly when one is open in the store for its network.
LiveStatusAgrees ==
    pc = "idle" /\ status.ts # 0 =>
        IF status.open
        THEN \/ ~NoneOngoing(status.net)
             \/ Faulted({"StoreError"}, status.ts, status.ts)
        ELSE \A o \in outages :
                o.net = status.net /\ o.end = 0
                    => Faulted({"StoreError"}, o.start, status.ts)

\* Evidence that was closed is final: no later tick, of any network, moves its
\* end or drops it.
ClosedEvidenceIsFinal ==
    [][\A o \in outages : o.end # 0 => o \in outages']_vars

\* The outages table under this tick is the ledger a reader may rely on.
Ledger == INSTANCE Ledger WITH
    log <- outages, now <- clock.wall,
    trouble <- \E f \in faults : f.kind = "StoreError"

\* Every step of the daemon, its faults included, does to the outages what the
\* ledger allows: evidence is opened in order, one outage of a network at a
\* time, and only the newest is closed, at a time that has come
\* (manageOutage, daemon.go:305-353; OpenOutage and CloseOutage of the store).
ImplementsLedger == Ledger!Spec
=============================================================================
