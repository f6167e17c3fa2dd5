-------------------------- MODULE OutageLogProofs ---------------------------
(***************************************************************************)
(* Theorems about OutageLog, for every number of networks and targets,     *)
(* every gap and every set of faults.                                      *)
(***************************************************************************)
EXTENDS OutageLog, WellFoundedInduction, TLAPS

-----------------------------------------------------------------------------
(* Type correctness *)

\* No tick in progress is a tick like any other.
LEMMA NoTickType == NoTick \in Tick
BY ConfigAssumption DEF NoTick, Tick, Time, ZeroTime, Places

\* A fault that happens is recorded with its kind and its date.
LEMMA FaultType ==
    ASSUME NEW kind \in FaultKinds, NEW at \in Nat,
           Fault(kind, at), faults \subseteq FaultRecord
    PROVE  faults' \subseteq FaultRecord
BY DEF Fault, FaultRecord

\* A fault is dated by a natural number.
LEMMA StampType == TypeOK => Stamp \in Nat
BY DEF TypeOK, Stamp, Time, Tick

\* A call the store refuses leaves a well-formed record of faults.
LEMMA StoreFailsType ==
    ASSUME TypeOK, StoreFails PROVE faults' \subseteq FaultRecord
<1>1. Stamp \in Nat
  BY StampType
<1>2. "StoreError" \in FaultKinds
  BY DEF FaultKinds
<1> QED
  BY <1>1, <1>2, FaultType DEF StoreFails, TypeOK

\* The rows of the outages table stay well formed when one is closed.
LEMMA CloseOutageType ==
    ASSUME NEW net, NEW start, NEW end \in Nat,
           outages \subseteq OutageRow, CloseOutage(net, start, end)
    PROVE  outages' \subseteq OutageRow
BY DEF CloseOutage, OutageRow

\* The count of targets left never reaches 0 while the tick still probes: what
\* TypeOK lacks to be inductive.
TargetsLeft == pc = "probe" => tick.left > 0

\* Every value the daemon computes has the type the code gives it.
THEOREM TypeCorrect == Spec => []TypeOK
<1> DEFINE TInv == TypeOK /\ TargetsLeft
<1>1. Init => TInv
  BY ConfigAssumption
     DEF Init, TypeOK, Time, ZeroTime, Tick, NoTick, Status, NoStatus, Places,
         Steps, TargetsLeft
<1>2. TInv /\ [Next]_vars => TInv'
  <2> SUFFICES ASSUME TInv, [Next]_vars PROVE TInv'
    OBVIOUS
  <2> USE DEF TypeOK, TargetsLeft
  <2>1. CASE Start
    BY <2>1 DEF Start, Steps
  <2>2. CASE Exit
    <3>1. faults' \subseteq FaultRecord
      <4>1. Stamp \in Nat
        BY StampType
      <4>2. "MidTickExit" \in FaultKinds
        BY DEF FaultKinds
      <4> QED
        BY <2>2, <4>1, <4>2, FaultType DEF Exit
    <3> QED
      BY <2>2, <3>1, ConfigAssumption
         DEF Exit, Steps, Tick, NoTick, Time, ZeroTime, Status, NoStatus, Places
  <2>3. CASE Elapse
    BY <2>3 DEF Elapse, Time
  <2>4. CASE Sleep
    <3>1. faults' \subseteq FaultRecord
      <4>1. Stamp \in Nat
        BY StampType
      <4>2. "MonoStops" \in FaultKinds
        BY DEF FaultKinds
      <4> QED
        BY <2>4, <4>1, <4>2, FaultType DEF Sleep
    <3> QED
      BY <2>4, <3>1 DEF Sleep, Time
  <2>5. CASE Move
    <3>1. faults' \subseteq FaultRecord
      <4>1. Stamp \in Nat
        BY StampType
      <4>2. "Move" \in FaultKinds
        BY DEF FaultKinds
      <4> QED
        BY <2>5, <4>1, <4>2, FaultType DEF Move
    <3> QED
      BY <2>5, <3>1 DEF Move
  <2>6. CASE TickBegin
    <3>1. clock' \in Time
      BY <2>6 DEF TickBegin, Time
    <3>2. NoTick \in Tick
      BY NoTickType
    <3>3. tick' \in Tick
      BY <2>6, <3>1, <3>2 DEF TickBegin, Tick
    <3> QED
      BY <2>6, <3>1, <3>3 DEF TickBegin, Steps
  <2>7. CASE Resolve
    <3>1. NTargets \in 0 .. NTargets
      BY ConfigAssumption
    <3>2. tick' \in Tick
      BY <2>7, <3>1 DEF Resolve, Tick
    <3>3. tick'.left > 0
      BY <2>7, ConfigAssumption DEF Resolve, Tick
    <3> QED
      BY <2>7, <3>2, <3>3 DEF Resolve, Steps
  <2>8. CASE ResolveFails
    BY <2>8, ConfigAssumption
       DEF ResolveFails, Tick, NoTick, Time, ZeroTime, Places, Steps
  <2>9. CASE Probe
    <3>1. faults' \subseteq FaultRecord
      BY <2>9, StoreFailsType DEF Probe
    <3>2. samples' \subseteq Sample
      BY <2>9 DEF Probe, Sample, Tick, Time
    <3>3. tick.left - 1 \in 0 .. NTargets /\ (tick.left # 1 => tick.left - 1 > 0)
      <4>1. tick.left \in 0 .. NTargets
        BY DEF Tick
      <4>2. tick.left > 0
        BY <2>9 DEF Probe
      <4> QED
        BY <4>1, <4>2, ConfigAssumption
    <3>4. tick' \in Tick
      BY <2>9, <3>3 DEF Probe, LastTarget, SomeAnswer, Tick
    <3>5. pc' = "probe" => tick'.left > 0
      BY <2>9, <3>3 DEF Probe, LastTarget, SomeAnswer, Tick
    <3> QED
      BY <2>9, <3>1, <3>2, <3>4, <3>5 DEF Probe, Steps
  <2>10. CASE NothingOngoing
    BY <2>10 DEF NothingOngoing, Managed, Tick, Steps
  <2>11. CASE StaysOngoing
    <3>1. faults' \subseteq FaultRecord
      BY <2>11, StoreFailsType DEF StaysOngoing
    <3> QED
      BY <2>11, <3>1 DEF StaysOngoing, Managed, Tick, Steps, OutageRow
  <2>12. CASE GapCloses
    <3> USE <2>12 DEF GapCloses
    <3>1. faults' \subseteq FaultRecord
      BY StoreFailsType
    <3>2. outages' \subseteq OutageRow
      <4> SUFFICES ASSUME NEW o \in outages, NEW seen \in LastObserved,
                          CloseOutage(o.net, o.start, Later(seen.at, o.start))
                   PROVE  outages' \subseteq OutageRow
        OBVIOUS
      <4>1. seen.at \in Nat
        BY DEF LastObserved, LastSampleBefore, Time, Sample
      <4>2. o.start \in Nat
        BY DEF OutageRow
      <4>3. Later(seen.at, o.start) \in Nat
        BY <4>1, <4>2 DEF Later
      <4> QED
        BY <4>3, CloseOutageType
    <3> QED
      BY <3>1, <3>2 DEF Managed, Tick, Steps
  <2>13. CASE LookupFails
    BY <2>13, StoreFailsType DEF LookupFails, Steps
  <2>14. CASE Settle
    <3> USE <2>14 DEF Settle
    <3>1. tick.now.wall \in Nat /\ tick.net \in Places
      BY DEF Tick, Time
    <3>2. faults' \subseteq FaultRecord
      BY StoreFailsType
    <3>3. outages' \subseteq OutageRow
      <4>1. OpenOutage(tick.net, tick.now.wall) => outages' \subseteq OutageRow
        BY <3>1 DEF OpenOutage, OutageRow
      <4>2. CloseOutage(tick.net, tick.ongoing, tick.now.wall)
                => outages' \subseteq OutageRow
        BY <3>1, CloseOutageType
      <4> QED
        BY <4>1, <4>2
    <3> QED
      BY <3>2, <3>3 DEF Steps
  <2>15. CASE Publish
    <3>1. Verdict \in BOOLEAN
      BY DEF Verdict, IsEvidence, CountsAgainstISP, Classify, Outage
    <3>2. status' \in Status
      BY <2>15, <3>1 DEF Publish, Status, Tick, Time
    <3> QED
      BY <2>15, <3>2, ConfigAssumption
         DEF Publish, Tick, NoTick, Time, ZeroTime, Places, Steps
  <2>16. CASE UNCHANGED vars
    BY <2>16 DEF vars
  <2> QED
    BY <2>1, <2>2, <2>3, <2>4, <2>5, <2>6, <2>7, <2>8, <2>9, <2>10, <2>11,
       <2>12, <2>13, <2>14, <2>15, <2>16 DEF Next
<1> QED
  BY <1>1, <1>2, PTL DEF Spec

-----------------------------------------------------------------------------
(* Faults stay on record; a store failure is dated by its tick *)

\* The record of faults only grows.
LEMMA FaultsGrow == [Next]_vars => faults \subseteq faults'
<1>1. \A kind, at : Fault(kind, at) => faults \subseteq faults'
  BY DEF Fault
<1>2. StoreFails => faults \subseteq faults'
  BY <1>1 DEF StoreFails
<1>3. Exit \/ Sleep \/ Move => faults \subseteq faults'
  BY <1>1 DEF Exit, Sleep, Move
<1>4. Probe \/ StaysOngoing \/ GapCloses \/ LookupFails \/ Settle
         => faults \subseteq faults'
  BY <1>2 DEF Probe, StaysOngoing, GapCloses, LookupFails, Settle
<1> QED
  BY <1>3, <1>4 DEF Next, vars, Start, Elapse, TickBegin, Resolve, ResolveFails,
                    NothingOngoing, Publish

\* What was excused by a fault stays excused.
LEMMA FaultedStays ==
    ASSUME [Next]_vars, NEW kinds, NEW from, NEW to, Faulted(kinds, from, to)
    PROVE  \E f \in faults' : f.kind \in kinds /\ from <= f.at /\ f.at <= to
BY FaultsGrow DEF Faulted

\* A store failure in a tick is on record at the time of the tick.
LEMMA StoreFailureRecorded ==
    ASSUME TypeOK, StoreFails, pc \in InTick
    PROVE  \E f \in faults' : f.kind = "StoreError" /\ f.at = tick.now.wall
<1>1. [kind |-> "StoreError", at |-> tick.now.wall] \in faults'
  BY DEF StoreFails, Fault, Stamp
<1> QED
  BY <1>1

-----------------------------------------------------------------------------
(* Closing an outage *)

\* Every row after a close is a row from before, or the closed one.
LEMMA RowsAfterClose ==
    ASSUME outages \subseteq OutageRow, NEW net, NEW start, NEW end \in Nat,
           CloseOutage(net, start, end), NEW q \in outages'
    PROVE  \E o \in outages :
              /\ q.net = o.net /\ q.start = o.start
              /\ IF o.net = net /\ o.start = start THEN q.end = end ELSE q = o
<1>1. PICK o \in outages :
         q = IF o.net = net /\ o.start = start THEN [o EXCEPT !.end = end] ELSE o
  BY DEF CloseOutage
<1>2. o \in OutageRow
  OBVIOUS
<1> QED
  BY <1>1, <1>2 DEF OutageRow

-----------------------------------------------------------------------------
(* The order of the times *)

\* Nothing the daemon stores or remembers is later than t.
NothingAfter(t) ==
    /\ lastSeen.wall <= t
    /\ \A s \in samples : s.ts <= t
    /\ \A o \in outages : o.start <= t /\ o.end <= t

Order ==
    /\ NothingAfter(clock.wall)
    /\ pc \in InTick => tick.now.wall <= clock.wall /\ NothingAfter(tick.now.wall)
    /\ pc \in {"resolve", "probe", "manage", "settle"} =>
          tick.now.wall > 0 /\ \A o \in outages : o.start < tick.now.wall
    /\ \A o \in outages : o.start > 0
    /\ pc = "resolve" => \A s \in samples : s.ts < tick.now.wall

\* The date a gap is closed at is an earlier observation.
LEMMA SeenBeforeNow ==
    ASSUME TypeOK, Order, pc = "manage", NEW seen \in LastObserved
    PROVE  seen.at \in Nat /\ seen.at <= tick.now.wall
BY DEF TypeOK, Order, NothingAfter, InTick, Steps, LastObserved,
       LastSampleBefore, Time, Sample, Tick

\* Times never run ahead of the tick that writes them.
THEOREM OrderCorrect == Spec => []Order
<1>1. Init => Order
  BY DEF Init, Order, NothingAfter, InTick, ZeroTime
<1>2. TypeOK /\ TypeOK' /\ Order /\ [Next]_vars => Order'
  <2> SUFFICES ASSUME TypeOK, TypeOK', Order, [Next]_vars PROVE Order'
    OBVIOUS
  <2>t. /\ clock.wall \in Nat /\ clock'.wall \in Nat
        /\ tick.now.wall \in Nat /\ tick'.now.wall \in Nat
        /\ lastSeen.wall \in Nat
        /\ \A o \in outages : o.start \in Nat /\ o.end \in Nat
        /\ \A s \in samples : s.ts \in Nat
        /\ pc \in Steps
    BY DEF TypeOK, Time, Tick, OutageRow, Sample
  <2>u. outages \subseteq OutageRow
    BY DEF TypeOK
  <2> USE DEF Order, NothingAfter
  <2>1. CASE Start
    BY <2>1 DEF Start, InTick
  <2>2. CASE Exit
    BY <2>2, <2>t DEF Exit, InTick, ZeroTime
  <2>3. CASE Elapse
    BY <2>3, <2>t DEF Elapse
  <2>4. CASE Sleep
    <3>1. clock'.wall = clock.wall + 1
      BY <2>4 DEF Sleep, TypeOK, Time
    <3> QED
      BY <2>4, <2>t, <3>1 DEF Sleep
  <2>5. CASE Move
    BY <2>5 DEF Move
  <2>6. CASE TickBegin
    <3>1. clock'.wall = clock.wall + 1 /\ tick'.now = clock'
      BY <2>6 DEF TickBegin, NoTick
    <3> QED
      BY <2>6, <2>t, <3>1 DEF TickBegin
  <2>7. CASE Resolve
    <3>1. tick'.now = tick.now
      BY <2>7 DEF Resolve, TypeOK, Tick
    <3> QED
      BY <2>7, <2>t, <3>1 DEF Resolve, InTick, Steps
  <2>8. CASE ResolveFails
    BY <2>8 DEF ResolveFails, InTick
  <2>9. CASE Probe
    <3>1. tick'.now = tick.now
      BY <2>9 DEF Probe, TypeOK, Tick
    <3>2. \A s \in samples' : s \in samples \/ s.ts = tick.now.wall
      BY <2>9 DEF Probe
    <3> QED
      BY <2>9, <2>t, <3>1, <3>2 DEF Probe, InTick, Steps
  <2>10. ASSUME NEW ongoing, Managed(ongoing), pc = "manage",
                \A o \in outages' : /\ o.start < tick.now.wall /\ o.end <= tick.now.wall
                                    /\ o.start > 0
         PROVE  Order'
    <3>1. tick'.now = tick.now /\ lastSeen' = tick.now
      BY <2>10 DEF Managed, TypeOK, Tick
    <3>2. pc \in InTick
      BY <2>10 DEF InTick, Steps
    <3>3. \A o \in outages' : /\ o.start \in Nat /\ o.end \in Nat
      BY DEF TypeOK, OutageRow
    <3>4. NothingAfter(tick.now.wall)'
      <4>1. /\ \A s \in samples' : s.ts <= tick'.now.wall
            /\ lastSeen'.wall <= tick'.now.wall
        BY <2>10, <2>t, <3>1, <3>2 DEF Managed
      <4>2. \A o \in outages' : o.start <= tick'.now.wall /\ o.end <= tick'.now.wall
        BY <2>10, <2>t, <3>1, <3>3
      <4> QED
        BY <4>1, <4>2
    <3>5. NothingAfter(clock.wall)'
      BY <2>10, <2>t, <3>1, <3>2, <3>3, <3>4 DEF Managed
    <3> QED
      BY <2>10, <2>t, <3>1, <3>2, <3>4, <3>5 DEF Managed
  <2>m. pc = "manage" =>
           \A o \in outages : /\ o.start < tick.now.wall /\ o.end <= tick.now.wall
                              /\ o.start > 0
    BY DEF InTick, Steps
  <2>11. CASE NothingOngoing
    BY <2>10, <2>11, <2>m DEF NothingOngoing
  <2>12. CASE StaysOngoing
    BY <2>10, <2>12, <2>m DEF StaysOngoing
  <2>13. CASE GapCloses
    <3>1. SUFFICES ASSUME NEW o \in outages, NEW seen \in LastObserved,
                          CloseOutage(o.net, o.start, Later(seen.at, o.start))
                   PROVE  \A q \in outages' :
                             /\ q.start < tick.now.wall /\ q.end <= tick.now.wall
                                /\ q.start > 0
      BY <2>10, <2>13, <2>m DEF GapCloses
    <3>2. seen.at \in Nat /\ seen.at <= tick.now.wall
      BY <2>13, SeenBeforeNow DEF GapCloses
    <3>3. /\ Later(seen.at, o.start) \in Nat
          /\ Later(seen.at, o.start) <= tick.now.wall
      BY <2>13, <2>t, <2>m, <3>2 DEF Later, GapCloses
    <3> QED
      BY <2>13, <2>u, <2>m, <3>1, <3>3, RowsAfterClose DEF GapCloses
  <2>14. CASE LookupFails
    BY <2>14 DEF LookupFails, InTick, Steps
  <2>15. CASE Settle
    <3>1. \A q \in outages' : /\ q.start <= tick.now.wall /\ q.end <= tick.now.wall
                              /\ q.start > 0
      <4>0. pc = "settle" /\ pc \in InTick
        BY <2>15 DEF Settle, InTick, Steps
      <4>1. OpenOutage(tick.net, tick.now.wall) =>
               \A q \in outages' : /\ q.start <= tick.now.wall /\ q.end <= tick.now.wall
                                   /\ q.start > 0
        BY <2>t, <4>0 DEF OpenOutage
      <4>2. CloseOutage(tick.net, tick.ongoing, tick.now.wall) =>
               \A q \in outages' : /\ q.start <= tick.now.wall /\ q.end <= tick.now.wall
                                   /\ q.start > 0
        BY <2>t, <2>u, <4>0, RowsAfterClose
      <4> QED
        BY <2>15, <4>0, <4>1, <4>2 DEF Settle
    <3>2. \A q \in outages' : q.start \in Nat /\ q.end \in Nat
      BY DEF TypeOK, OutageRow
    <3> QED
      BY <2>15, <2>t, <3>1, <3>2 DEF Settle, InTick, Steps
  <2>16. CASE Publish
    BY <2>16 DEF Publish, InTick
  <2>17. CASE UNCHANGED vars
    BY <2>17 DEF vars
  <2> QED
    BY <2>1, <2>2, <2>3, <2>4, <2>5, <2>6, <2>7, <2>8, <2>9, <2>11, <2>12,
       <2>13, <2>14, <2>15, <2>16, <2>17 DEF Next
<1> QED
  BY <1>1, <1>2, TypeCorrect, PTL DEF Spec

-----------------------------------------------------------------------------
(* At most one outage of a network is open at a time *)

\* A row of the outages table is known by its network and start.
UniqueRows ==
    \A o1, o2 \in outages : o1.net = o2.net /\ o1.start = o2.start => o1 = o2

\* What the tick knows of its network when it comes to open or close: the
\* latest open outage, or none that the store did not fail to close.
OngoingKnown ==
    pc = "settle" =>
        IF tick.ongoing = 0
        THEN \A o \in outages :
                o.net = tick.net /\ o.end = 0
                    => Faulted({"StoreError"}, o.start, tick.now.wall)
        ELSE \E o \in outages : IsOngoing(o, tick.net) /\ o.start = tick.ongoing

\* A tick that stored a success of its network knows the internet is up.
SuccessNoticed ==
    pc \in {"probe", "manage", "settle"} =>
        \A s \in samples :
            s.ts = tick.now.wall => /\ s.net = tick.net
                                    /\ s.success => tick.internetUp

\* NoSuccessInsideAnOutage, with the tick in progress excused only until it has
\* settled the outage.
RecoveryClosed ==
    \A o \in outages, s \in samples :
        /\ s.net = o.net /\ s.success
        /\ o.start <= s.ts /\ (o.end = 0 \/ s.ts < o.end)
        => \/ pc \in {"probe", "manage", "settle"} /\ s.ts = tick.now.wall
           \/ Faulted({"StoreError"}, o.start, s.ts)
           \/ Faulted({"MidTickExit"}, s.ts, s.ts)

\* Rows that stay as they are stay apart, whatever else the step does.
LEMMA RowsStayApart ==
    ASSUME [Next]_vars, outages' = outages, UniqueRows, NoDoubleBilling
    PROVE  UniqueRows' /\ NoDoubleBilling'
BY FaultsGrow DEF UniqueRows, NoDoubleBilling, Faulted

\* Closing an open outage leaves the outages of every network apart.
LEMMA CloseKeepsApart ==
    ASSUME TypeOK, [Next]_vars, UniqueRows, NoDoubleBilling,
           NEW o \in outages, o.end = 0, NEW end \in Nat,
           CloseOutage(o.net, o.start, end)
    PROVE  UniqueRows' /\ NoDoubleBilling'
<1>1. outages \subseteq OutageRow
  BY DEF TypeOK
<1>2. \A q \in outages' :
         \E p \in outages :
            /\ q.net = p.net /\ q.start = p.start
            /\ IF p.net = o.net /\ p.start = o.start THEN q.end = end ELSE q = p
  BY <1>1, RowsAfterClose
<1>3. UniqueRows'
  <2> SUFFICES ASSUME NEW q1 \in outages', NEW q2 \in outages',
                      q1.net = q2.net, q1.start = q2.start
               PROVE  q1 = q2
    BY DEF UniqueRows
  <2>1. PICK p1 \in outages :
           q1 = IF p1.net = o.net /\ p1.start = o.start THEN [p1 EXCEPT !.end = end]
                                                        ELSE p1
    BY DEF CloseOutage
  <2>2. PICK p2 \in outages :
           q2 = IF p2.net = o.net /\ p2.start = o.start THEN [p2 EXCEPT !.end = end]
                                                        ELSE p2
    BY DEF CloseOutage
  <2>3. p1 \in OutageRow /\ p2 \in OutageRow
    BY <1>1
  <2>4. p1.net = p2.net /\ p1.start = p2.start
    BY <2>1, <2>2, <2>3 DEF OutageRow
  <2> QED
    BY <2>1, <2>2, <2>4 DEF UniqueRows
<1>4. NoDoubleBilling'
  <2> SUFFICES ASSUME NEW q1 \in outages', NEW q2 \in outages',
                      q1.net = q2.net, q1.start < q2.start,
                      ~Faulted({"StoreError"}, q1.start, q2.start)'
               PROVE  q1.end # 0 /\ q1.end <= q2.start
    BY DEF NoDoubleBilling
  <2>1. PICK p1 \in outages :
           /\ q1.net = p1.net /\ q1.start = p1.start
           /\ IF p1.net = o.net /\ p1.start = o.start THEN q1.end = end ELSE q1 = p1
    BY <1>2
  <2>2. PICK p2 \in outages : q2.net = p2.net /\ q2.start = p2.start
    BY <1>2
  <2>3. ~Faulted({"StoreError"}, p1.start, p2.start)
    BY <2>1, <2>2, FaultsGrow DEF Faulted
  <2>4. p1.end # 0 /\ p1.end <= p2.start
    BY <2>1, <2>2, <2>3 DEF NoDoubleBilling
  <2>5. ~(p1.net = o.net /\ p1.start = o.start)
    BY <2>4 DEF UniqueRows
  <2> QED
    BY <2>1, <2>2, <2>4, <2>5
<1> QED
  BY <1>3, <1>4

LedgerInv == UniqueRows /\ NoDoubleBilling /\ OngoingKnown

\* The ongoing outage is the latest; an older open one was left by a failure.
LEMMA OlderOpenIsFaulted ==
    ASSUME TypeOK, NoDoubleBilling, UniqueRows, NEW o \in outages,
           IsOngoing(o, tick.net), NEW p \in outages,
           p.net = tick.net, p.end = 0, p # o
    PROVE  p.start < o.start /\ Faulted({"StoreError"}, p.start, o.start)
<1>1. p.start <= o.start /\ o.net = p.net
  BY DEF IsOngoing
<1>2. p.start # o.start
  BY <1>1 DEF UniqueRows
<1>3. p.start < o.start
  BY <1>1, <1>2 DEF TypeOK, OutageRow
<1> QED
  BY <1>1, <1>3 DEF NoDoubleBilling

\* The three parts of LedgerInv hold together in every state.
THEOREM LedgerCorrect == Spec => []LedgerInv
<1>1. Init => LedgerInv
  BY DEF Init, LedgerInv, UniqueRows, NoDoubleBilling, OngoingKnown
<1>2. TypeOK /\ TypeOK' /\ Order /\ LedgerInv /\ [Next]_vars => LedgerInv'
  <2> SUFFICES ASSUME TypeOK, TypeOK', Order, LedgerInv, [Next]_vars
               PROVE  LedgerInv'
    OBVIOUS
  <2>t. /\ outages \subseteq OutageRow
        /\ \A o \in outages : o.start \in Nat /\ o.end \in Nat
        /\ tick.now.wall \in Nat
    BY DEF TypeOK, OutageRow, Tick, Time
  <2>l. UniqueRows /\ NoDoubleBilling /\ OngoingKnown
    BY DEF LedgerInv
  <2>1. ASSUME outages' = outages,
               pc' # "settle" \/ (pc' = pc /\ tick' = tick)
        PROVE  LedgerInv'
    <3>1. UniqueRows' /\ NoDoubleBilling'
      BY <2>1, <2>l, RowsStayApart
    <3>2. OngoingKnown'
      BY <2>1, <2>l, FaultsGrow DEF OngoingKnown, Faulted, IsOngoing
    <3> QED
      BY <3>1, <3>2 DEF LedgerInv
  <2>2. CASE Start \/ Exit \/ TickBegin \/ Resolve \/ ResolveFails \/ Publish
    BY <2>1, <2>2 DEF Start, Exit, TickBegin, Resolve, ResolveFails, Publish
  <2>3. CASE Elapse \/ Sleep \/ Move \/ UNCHANGED vars
    BY <2>1, <2>3 DEF Elapse, Sleep, Move, vars
  <2>4. CASE Probe \/ LookupFails
    BY <2>1, <2>4 DEF Probe, LookupFails
  <2>5. CASE NothingOngoing
    <3>1. UniqueRows' /\ NoDoubleBilling'
      BY <2>5, <2>l, RowsStayApart DEF NothingOngoing
    <3>2. tick'.ongoing = 0 /\ tick'.net = tick.net
      BY <2>5 DEF NothingOngoing, Managed, TypeOK, Tick
    <3>3. OngoingKnown'
      BY <2>5, <3>2 DEF NothingOngoing, NoneOngoing, OngoingKnown
    <3> QED
      BY <3>1, <3>3 DEF LedgerInv
  <2>6. CASE StaysOngoing
    <3>1. UniqueRows' /\ NoDoubleBilling'
      BY <2>6, <2>l, RowsStayApart DEF StaysOngoing
    <3>2. PICK o \in outages : IsOngoing(o, tick.net) /\ Managed(o.start)
      BY <2>6 DEF StaysOngoing
    <3>3. tick'.ongoing = o.start /\ tick'.net = tick.net /\ outages' = outages
      BY <2>6, <3>2 DEF StaysOngoing, Managed, TypeOK, Tick
    <3>4. o.start # 0
      BY <2>t DEF Order
    <3>5. OngoingKnown'
      BY <3>2, <3>3, <3>4 DEF OngoingKnown, IsOngoing
    <3> QED
      BY <3>1, <3>5 DEF LedgerInv
  <2>7. CASE GapCloses
    <3>1. PICK o \in outages, seen \in LastObserved :
             /\ IsOngoing(o, tick.net)
             /\ \/ CloseOutage(o.net, o.start, Later(seen.at, o.start))
                \/ StoreFails /\ outages' = outages
      BY <2>7 DEF GapCloses
    <3>2. tick'.ongoing = 0 /\ tick'.net = tick.net /\ tick'.now = tick.now
      BY <2>7 DEF GapCloses, Managed, TypeOK, Tick
    <3>3. pc = "manage" /\ pc \in InTick
      BY <2>7 DEF GapCloses, InTick, Steps
    <3>4. o.start <= tick.now.wall /\ o.net = tick.net /\ o.end = 0 /\ o.start > 0
      BY <2>t, <3>1, <3>3 DEF Order, IsOngoing
    <3>5. CASE CloseOutage(o.net, o.start, Later(seen.at, o.start))
      <4>1. Later(seen.at, o.start) \in Nat /\ Later(seen.at, o.start) # 0
        BY <2>t, <3>3, <3>4, SeenBeforeNow DEF Later
      <4>2. UniqueRows' /\ NoDoubleBilling'
        BY <2>l, <3>4, <3>5, <4>1, CloseKeepsApart
      <4>3. ASSUME NEW q \in outages', q.net = tick.net, q.end = 0
            PROVE  Faulted({"StoreError"}, q.start, tick.now.wall)
        <5>1. q \in outages /\ q # o
          BY <2>t, <3>4, <3>5, <4>1, <4>3, RowsAfterClose
        <5>2. q.start < o.start /\ Faulted({"StoreError"}, q.start, o.start)
          BY <2>l, <3>1, <4>3, <5>1, OlderOpenIsFaulted
        <5>3. PICK f \in faults : /\ f.kind = "StoreError"
                                  /\ q.start <= f.at /\ f.at <= o.start
          BY <5>2 DEF Faulted
        <5>4. f.at <= tick.now.wall
          BY <2>t, <3>4, <5>3 DEF TypeOK, FaultRecord
        <5> QED
          BY <5>3, <5>4 DEF Faulted
      <4>4. OngoingKnown'
        BY <3>2, <4>3, FaultsGrow DEF OngoingKnown, Faulted
      <4> QED
        BY <4>2, <4>4 DEF LedgerInv
    <3>6. CASE StoreFails /\ outages' = outages
      <4>1. UniqueRows' /\ NoDoubleBilling'
        BY <2>l, <3>6, RowsStayApart
      <4>2. PICK f \in faults' : f.kind = "StoreError" /\ f.at = tick.now.wall
        BY <3>3, <3>6, StoreFailureRecorded
      <4>3. \A p \in outages : p.start <= f.at
        BY <2>t, <3>3, <4>2 DEF Order
      <4>4. OngoingKnown'
        BY <2>t, <3>2, <3>6, <4>2, <4>3 DEF OngoingKnown, Faulted
      <4> QED
        BY <4>1, <4>4 DEF LedgerInv
    <3> QED
      BY <3>1, <3>5, <3>6
  <2>8. CASE Settle
    <3>0. pc = "settle" /\ pc' = "publish" /\ pc \in InTick
      BY <2>8 DEF Settle, InTick, Steps
    <3>1. OngoingKnown'
      BY <3>0 DEF OngoingKnown
    <3>2. CASE tick.ongoing = 0 /\ OpenOutage(tick.net, tick.now.wall)
      <4> DEFINE new == [net |-> tick.net, start |-> tick.now.wall, end |-> 0]
      <4>1. outages' = outages \cup {new}
        BY <3>2 DEF OpenOutage
      <4>2. \A o \in outages : o.start < new.start /\ o.end <= new.start
        BY <3>0 DEF Order, NothingAfter
      <4>3. UniqueRows'
        BY <2>t, <2>l, <4>1, <4>2 DEF UniqueRows
      <4>4. NoDoubleBilling'
        <5> SUFFICES ASSUME NEW q1 \in outages', NEW q2 \in outages',
                            q1.net = q2.net, q1.start < q2.start,
                            ~Faulted({"StoreError"}, q1.start, q2.start)'
                     PROVE  q1.end # 0 /\ q1.end <= q2.start
          BY DEF NoDoubleBilling
        <5>1. ~Faulted({"StoreError"}, q1.start, q2.start)
          BY FaultsGrow DEF Faulted
        <5>2. q1 \in outages
          BY <2>t, <4>1, <4>2
        <5>3. CASE q2 \in outages
          BY <2>l, <5>1, <5>2, <5>3 DEF NoDoubleBilling
        <5>4. CASE q2 = new
          <6>1. q1.end <= q2.start
            BY <4>2, <5>2, <5>4
          <6>2. q1.end # 0
            BY <2>l, <3>0, <3>2, <5>1, <5>2, <5>4 DEF OngoingKnown
          <6> QED
            BY <6>1, <6>2
        <5> QED
          BY <4>1, <5>3, <5>4
      <4> QED
        BY <3>1, <4>3, <4>4 DEF LedgerInv
    <3>3. CASE tick.ongoing # 0 /\ CloseOutage(tick.net, tick.ongoing, tick.now.wall)
      <4>1. PICK o \in outages : IsOngoing(o, tick.net) /\ o.start = tick.ongoing
        BY <2>l, <3>0, <3>3 DEF OngoingKnown
      <4>2. UniqueRows' /\ NoDoubleBilling'
        BY <2>t, <2>l, <3>3, <4>1, CloseKeepsApart DEF IsOngoing
      <4> QED
        BY <3>1, <4>2 DEF LedgerInv
    <3>4. CASE outages' = outages
      BY <2>1, <3>0, <3>4
    <3> QED
      BY <2>8, <3>2, <3>3, <3>4 DEF Settle
  <2> QED
    BY <2>2, <2>3, <2>4, <2>5, <2>6, <2>7, <2>8 DEF Next
<1> QED
  BY <1>1, <1>2, TypeCorrect, OrderCorrect, PTL DEF Spec

\* No minute of a network's outages is billed twice (manageOutage opens an
\* outage only where OngoingOutage found none or the gap closed it).
THEOREM NoDoubleBillingHolds == Spec => []NoDoubleBilling
<1>1. LedgerInv => NoDoubleBilling
  BY DEF LedgerInv
<1> QED
  BY <1>1, LedgerCorrect, PTL

\* An outage is never closed before it starts: a gap dated earlier than the
\* start is moved to it, and a tick settles only outages of earlier ticks.
THEOREM EndAfterStartHolds == Spec => []OutagesEndAfterTheyStart
<1>1. Init => OutagesEndAfterTheyStart
  BY DEF Init, OutagesEndAfterTheyStart
<1>2. TypeOK /\ Order /\ LedgerInv /\ OutagesEndAfterTheyStart /\ [Next]_vars
         => OutagesEndAfterTheyStart'
  <2> SUFFICES ASSUME TypeOK, Order, LedgerInv, OutagesEndAfterTheyStart,
                      [Next]_vars
               PROVE  OutagesEndAfterTheyStart'
    OBVIOUS
  <2>t. /\ outages \subseteq OutageRow
        /\ \A o \in outages : o.start \in Nat /\ o.end \in Nat
        /\ tick.now.wall \in Nat
    BY DEF TypeOK, OutageRow, Tick, Time
  <2>1. ASSUME NEW net, NEW start \in Nat, NEW end \in Nat, start <= end,
               CloseOutage(net, start, end)
        PROVE  OutagesEndAfterTheyStart'
    BY <2>1, <2>t, RowsAfterClose DEF OutagesEndAfterTheyStart
  <2>2. CASE GapCloses
    <3>1. SUFFICES ASSUME NEW o \in outages, NEW seen \in LastObserved,
                          CloseOutage(o.net, o.start, Later(seen.at, o.start))
                   PROVE  OutagesEndAfterTheyStart'
      BY <2>2 DEF GapCloses, OutagesEndAfterTheyStart
    <3>2. /\ Later(seen.at, o.start) \in Nat
          /\ o.start <= Later(seen.at, o.start)
      BY <2>2, <2>t, SeenBeforeNow DEF Later, GapCloses
    <3> QED
      BY <2>1, <2>t, <3>1, <3>2
  <2>3. CASE Settle
    <3>1. tick.ongoing # 0 =>
             \E o \in outages : o.start = tick.ongoing /\ o.start <= tick.now.wall
      BY <2>3, <2>t DEF Settle, LedgerInv, OngoingKnown, Order
    <3>2. CASE tick.ongoing # 0 /\ CloseOutage(tick.net, tick.ongoing, tick.now.wall)
      BY <2>1, <2>t, <3>1, <3>2
    <3>3. CASE OpenOutage(tick.net, tick.now.wall)
      BY <3>3 DEF OpenOutage, OutagesEndAfterTheyStart
    <3>4. CASE outages' = outages
      BY <3>4 DEF OutagesEndAfterTheyStart
    <3> QED
      BY <2>3, <3>2, <3>3, <3>4 DEF Settle
  <2>4. CASE outages' = outages
    BY <2>4 DEF OutagesEndAfterTheyStart
  <2> QED
    BY <2>2, <2>3, <2>4 DEF Next, vars, Start, Exit, Elapse, Sleep, Move,
       TickBegin, Resolve, ResolveFails, Probe, NothingOngoing, StaysOngoing,
       LookupFails, Publish
<1> QED
  BY <1>1, <1>2, TypeCorrect, OrderCorrect, LedgerCorrect, PTL DEF Spec

\* A closed outage is never touched again: each close names, by network and
\* start, an outage that is open.
THEOREM ClosedEvidenceIsFinalHolds == Spec => ClosedEvidenceIsFinal
<1>1. TypeOK /\ LedgerInv /\ [Next]_vars
         => \A o \in outages : o.end # 0 => o \in outages'
  <2> SUFFICES ASSUME TypeOK, LedgerInv, [Next]_vars,
                      NEW o \in outages, o.end # 0
               PROVE  o \in outages'
    OBVIOUS
  <2>1. ASSUME NEW open \in outages, open.end = 0, NEW end,
               CloseOutage(open.net, open.start, end)
        PROVE  o \in outages'
    <3>1. ~(o.net = open.net /\ o.start = open.start)
      BY <2>1 DEF LedgerInv, UniqueRows
    <3> QED
      BY <2>1, <3>1 DEF CloseOutage
  <2>2. CASE GapCloses
    BY <2>1, <2>2 DEF GapCloses, IsOngoing
  <2>3. CASE Settle
    <3>1. tick.ongoing # 0 =>
             \E p \in outages : p.net = tick.net /\ p.start = tick.ongoing /\ p.end = 0
      BY <2>3 DEF Settle, LedgerInv, OngoingKnown, IsOngoing
    <3> QED
      BY <2>1, <2>3, <3>1 DEF Settle, OpenOutage
  <2> QED
    BY <2>2, <2>3 DEF Next, vars, Start, Exit, Elapse, Sleep, Move, TickBegin,
       Resolve, ResolveFails, Probe, NothingOngoing, StaysOngoing, LookupFails,
       Publish
<1>2. TypeOK /\ LedgerInv /\ [Next]_vars
         => [\A o \in outages : o.end # 0 => o \in outages']_vars
  BY <1>1
<1> QED
  BY <1>2, TypeCorrect, LedgerCorrect, PTL DEF Spec, ClosedEvidenceIsFinal

-----------------------------------------------------------------------------
(* What counts as evidence, and when it ends *)

\* The README's definition: outage = awake AND link up AND gateway reachable
\* AND internet unreachable.  Classify and CountsAgainstISP together say so.
THEOREM EvidenceDefinition ==
    ASSUME NEW s \in LineState
    PROVE  IsEvidence(s) <=> s.awake /\ s.wifiOn /\ s.gatewayUp /\ ~s.internetUp
BY DEF LineState, IsEvidence, Classify, CountsAgainstISP, Outage

\* What the tick's verdict says of the tick.
LEMMA VerdictMeaning ==
    ASSUME TypeOK
    PROVE  Verdict <=> tick.net # NoLink /\ tick.gatewayUp /\ ~tick.internetUp
BY DEF TypeOK, Tick, Verdict, IsEvidence, Classify, CountsAgainstISP, Outage

RecoveryInv == SuccessNoticed /\ RecoveryClosed

Excused(o, s) == \/ pc \in {"probe", "manage", "settle"} /\ s.ts = tick.now.wall
                 \/ Faulted({"StoreError"}, o.start, s.ts)
                 \/ Faulted({"MidTickExit"}, s.ts, s.ts)

\* The sample s falls inside the outage o and speaks against it.
Contradicts(o, s) == /\ s.net = o.net /\ s.success
                     /\ o.start <= s.ts /\ (o.end = 0 \/ s.ts < o.end)

\* The invariant in terms of contradiction.
LEMMA RecoveryRestated ==
    RecoveryClosed <=> \A o \in outages, s \in samples :
                          Contradicts(o, s) => Excused(o, s)
BY DEF RecoveryClosed, Contradicts, Excused

\* A row of an outage that was just closed is contradicted only by samples that
\* contradicted it while it was open.
LEMMA CloseContradictsLess ==
    ASSUME TypeOK, UniqueRows, NEW o \in outages, o.end = 0, NEW end \in Nat,
           CloseOutage(o.net, o.start, end), NEW q \in outages', NEW s,
           Contradicts(q, s)
    PROVE  \E p \in outages : /\ Contradicts(p, s)
                              /\ p.net = q.net /\ p.start = q.start
                              /\ p = o => q.end = end
                              /\ p # o => q = p
<1>1. PICK p \in outages :
         /\ q.net = p.net /\ q.start = p.start
         /\ IF p.net = o.net /\ p.start = o.start THEN q.end = end ELSE q = p
  BY RowsAfterClose DEF TypeOK
<1>2. p.net = o.net /\ p.start = o.start => p = o
  BY DEF UniqueRows
<1> QED
  BY <1>1, <1>2 DEF Contradicts

\* The internet's recovery, as the tick saw it, ends the outage in the store.
THEOREM RecoveryCorrect == Spec => []RecoveryInv
<1>1. Init => RecoveryInv
  BY DEF Init, RecoveryInv, SuccessNoticed, RecoveryClosed
<1>2. TypeOK /\ Order /\ LedgerInv /\ RecoveryInv /\ [Next]_vars => RecoveryInv'
  <2> SUFFICES ASSUME TypeOK, Order, LedgerInv, RecoveryInv, [Next]_vars
               PROVE  RecoveryInv'
    OBVIOUS
  <2>t. /\ outages \subseteq OutageRow
        /\ \A o \in outages : o.start \in Nat /\ o.end \in Nat
        /\ \A s \in samples : s.ts \in Nat
        /\ tick.now.wall \in Nat
    BY DEF TypeOK, OutageRow, Tick, Time, Sample
  <2>l. UniqueRows /\ NoDoubleBilling /\ OngoingKnown
    BY DEF LedgerInv
  <2>r. /\ SuccessNoticed
        /\ \A o \in outages, s \in samples : Contradicts(o, s) => Excused(o, s)
    BY RecoveryRestated DEF RecoveryInv
  \* Steps that leave the tables alone and keep the excuse of the tick.
  <2>1. ASSUME samples' = samples, outages' = outages,
               \/ pc \notin {"probe", "manage", "settle"}
               \/ /\ pc' \in {"probe", "manage", "settle"}
                  /\ tick'.now = tick.now
        PROVE  RecoveryClosed'
    BY <2>1, <2>r, FaultsGrow DEF RecoveryClosed, Contradicts, Excused, Faulted
  <2>2. CASE Start \/ TickBegin \/ ResolveFails \/ Publish
    <3>1. SuccessNoticed'
      BY <2>2 DEF Start, TickBegin, ResolveFails, Publish, SuccessNoticed
    <3> QED
      BY <2>1, <2>2, <3>1
         DEF RecoveryInv, Start, TickBegin, ResolveFails, Publish
  <2>3. CASE Elapse \/ Sleep \/ Move \/ UNCHANGED vars
    <3>1. /\ samples' = samples /\ outages' = outages /\ tick' = tick /\ pc' = pc
      BY <2>3 DEF Elapse, Sleep, Move, vars
    <3>2. SuccessNoticed'
      BY <2>r, <3>1 DEF SuccessNoticed
    <3> QED
      BY <2>1, <3>1, <3>2 DEF RecoveryInv
  <2>4. CASE Resolve
    <3>1. tick'.now = tick.now /\ pc = "resolve" /\ samples' = samples
      BY <2>4 DEF Resolve, TypeOK, Tick
    <3>2. SuccessNoticed'
      BY <2>t, <3>1 DEF SuccessNoticed, Order
    <3> QED
      BY <2>1, <2>4, <3>1, <3>2 DEF RecoveryInv, Resolve
  <2>5. CASE Exit
    <3>1. SuccessNoticed'
      BY <2>5 DEF Exit, SuccessNoticed
    <3>2. CASE pc \in {"probe", "manage", "settle"}
      <4>1. [kind |-> "MidTickExit", at |-> tick.now.wall] \in faults'
        BY <2>5, <3>2 DEF Exit, Fault, Stamp, InTick, Steps
      <4>2. PICK f \in faults' : f.kind = "MidTickExit" /\ f.at = tick.now.wall
        BY <4>1
      <4>3. samples' = samples /\ outages' = outages
        BY <2>5 DEF Exit
      <4>4. RecoveryClosed'
        BY <2>r, <2>t, <4>2, <4>3, FaultsGrow
           DEF RecoveryClosed, Contradicts, Excused, Faulted
      <4> QED
        BY <3>1, <4>4 DEF RecoveryInv
    <3>3. CASE pc \notin {"probe", "manage", "settle"}
      BY <2>1, <2>5, <3>1, <3>3 DEF Exit, RecoveryInv
    <3> QED
      BY <3>2, <3>3
  <2>6. CASE Probe
    <3>1. PICK success \in BOOLEAN :
             /\ tick' = [tick EXCEPT !.internetUp = SomeAnswer(tick.internetUp, success),
                                     !.left = tick.left - 1]
             /\ \/ samples' = samples \cup {[net |-> tick.net, ts |-> tick.now.wall,
                                             success |-> success]}
                \/ samples' = samples
      BY <2>6 DEF Probe
    <3>2. /\ tick'.now = tick.now /\ tick'.net = tick.net
          /\ tick'.internetUp = (tick.internetUp \/ success)
      BY <3>1 DEF SomeAnswer, TypeOK, Tick
    <3>3. \A s \in samples' :
             s \in samples \/ (s.net = tick.net /\ s.ts = tick.now.wall
                               /\ s.success = success)
      BY <3>1
    <3>4. pc = "probe" /\ pc' \in {"probe", "manage"} /\ outages' = outages
      BY <2>6 DEF Probe
    <3>5. SuccessNoticed'
      BY <2>r, <3>2, <3>3, <3>4 DEF SuccessNoticed
    <3>6. RecoveryClosed'
      <4> SUFFICES ASSUME NEW o \in outages', NEW s \in samples', Contradicts(o, s),
                          ~Excused(o, s)'
                   PROVE  FALSE
        BY DEF RecoveryClosed, Contradicts, Excused
      <4>1. s.ts # tick.now.wall
        BY <3>2, <3>4 DEF Excused
      <4>2. s \in samples /\ o \in outages
        BY <3>3, <3>4, <4>1
      <4>3. Faulted({"StoreError"}, o.start, s.ts) \/ Faulted({"MidTickExit"}, s.ts, s.ts)
        BY <2>r, <4>1, <4>2 DEF Excused
      <4> QED
        BY <4>3, FaultsGrow DEF Excused, Faulted
    <3> QED
      BY <3>5, <3>6 DEF RecoveryInv
  <2>7. CASE NothingOngoing \/ StaysOngoing \/ GapCloses
    <3>1. PICK ongoing \in Nat : Managed(ongoing)
      BY <2>7, <2>t DEF NothingOngoing, StaysOngoing, GapCloses
    <3>2. /\ tick'.now = tick.now /\ tick'.net = tick.net
          /\ tick'.internetUp = tick.internetUp
          /\ pc' = "settle" /\ samples' = samples
      BY <3>1 DEF Managed, TypeOK, Tick
    <3>3. pc = "manage" /\ pc \in InTick
      BY <2>7 DEF NothingOngoing, StaysOngoing, GapCloses, InTick, Steps
    <3>4. SuccessNoticed'
      BY <2>r, <3>2, <3>3 DEF SuccessNoticed
    <3>5. CASE outages' = outages
      BY <2>1, <3>2, <3>4, <3>5 DEF RecoveryInv
    <3>6. ASSUME NEW o \in outages, NEW seen \in LastObserved,
                 IsOngoing(o, tick.net),
                 CloseOutage(o.net, o.start, Later(seen.at, o.start))
          PROVE  RecoveryClosed'
      <4>1. Later(seen.at, o.start) \in Nat
        BY <2>t, <3>3, SeenBeforeNow DEF Later
      <4>2. SUFFICES ASSUME NEW q \in outages', NEW s \in samples', Contradicts(q, s)
                     PROVE  Excused(q, s)'
        BY DEF RecoveryClosed, Contradicts, Excused
      <4>3. PICK p \in outages : Contradicts(p, s) /\ p.start = q.start
        BY <2>l, <3>6, <4>1, <4>2, CloseContradictsLess DEF IsOngoing
      <4> QED
        BY <2>r, <3>2, <4>3, FaultsGrow DEF Excused, Faulted
    <3> QED
      BY <2>7, <3>4, <3>5, <3>6
         DEF RecoveryInv, NothingOngoing, StaysOngoing, GapCloses
  <2>8. CASE LookupFails
    <3>1. /\ pc = "manage" /\ pc \in InTick /\ pc' = "publish" /\ StoreFails
          /\ samples' = samples /\ outages' = outages
      BY <2>8 DEF LookupFails, InTick, Steps
    <3>2. PICK f \in faults' : f.kind = "StoreError" /\ f.at = tick.now.wall
      BY <3>1, StoreFailureRecorded
    <3>3. \A o \in outages : o.start <= f.at
      BY <2>t, <3>1, <3>2 DEF Order
    <3>4. RecoveryClosed'
      BY <2>r, <2>t, <3>1, <3>2, <3>3, FaultsGrow
         DEF RecoveryClosed, Contradicts, Excused, Faulted
    <3> QED
      BY <3>1, <3>4 DEF RecoveryInv, SuccessNoticed
  <2>9. CASE Settle
    <3>1. pc = "settle" /\ pc' = "publish" /\ pc \in InTick /\ samples' = samples
      BY <2>9 DEF Settle, InTick, Steps
    <3>2. /\ \A s \in samples : s.ts <= tick.now.wall
          /\ \A o \in outages : o.start < tick.now.wall /\ o.end <= tick.now.wall
      BY <3>1 DEF Order, NothingAfter
    <3>3. SUFFICES ASSUME NEW q \in outages', NEW s \in samples, Contradicts(q, s)
                   PROVE  \/ \E f \in faults' : /\ f.kind = "StoreError"
                                                /\ q.start <= f.at /\ f.at <= s.ts
                          \/ \E f \in faults' : /\ f.kind = "MidTickExit"
                                                /\ s.ts <= f.at /\ f.at <= s.ts
      BY <3>1 DEF RecoveryInv, SuccessNoticed, RecoveryClosed, Contradicts, Faulted
    \* What was so before the step, and is not excused by the tick, stays so.
    <3>4. ASSUME NEW p \in outages, Contradicts(p, s), p.start = q.start,
                 s.ts # tick.now.wall
          PROVE  \/ \E f \in faults' : /\ f.kind = "StoreError"
                                       /\ q.start <= f.at /\ f.at <= s.ts
                 \/ \E f \in faults' : /\ f.kind = "MidTickExit"
                                       /\ s.ts <= f.at /\ f.at <= s.ts
      BY <2>r, <3>4, FaultsGrow DEF Excused, Faulted
    \* A success of this tick: the tick does not take it for an outage.
    <3>5. s.ts = tick.now.wall /\ s.net = tick.net => ~Verdict
      BY <2>r, <3>1, <3>3, VerdictMeaning DEF SuccessNoticed, Contradicts
    <3>6. s.ts = tick.now.wall => s.net = tick.net /\ q.net = tick.net
      BY <2>r, <3>1, <3>3 DEF SuccessNoticed, Contradicts
    <3>7. CASE Verdict /\ OpenOutage(tick.net, tick.now.wall)
      <4>1. CASE q \in outages
        BY <3>3, <3>4, <3>5, <3>6, <3>7, <4>1
      <4>2. CASE q.start = tick.now.wall
        <5>1. s.ts = tick.now.wall
          BY <2>t, <3>2, <3>3, <4>2 DEF Contradicts
        <5> QED
          BY <3>5, <3>6, <3>7, <5>1
      <4> QED
        BY <3>7, <4>1, <4>2 DEF OpenOutage
    <3>8. CASE tick.ongoing # 0 /\ CloseOutage(tick.net, tick.ongoing, tick.now.wall)
      <4>1. PICK o \in outages : IsOngoing(o, tick.net) /\ o.start = tick.ongoing
        BY <2>l, <3>1, <3>8 DEF OngoingKnown
      <4>2. o.end = 0 /\ o.net = tick.net
        BY <4>1 DEF IsOngoing
      <4>3. PICK p \in outages : /\ Contradicts(p, s)
                                 /\ p.net = q.net /\ p.start = q.start
                                 /\ p = o => q.end = tick.now.wall
                                 /\ p # o => q = p
        BY <2>l, <2>t, <3>3, <3>8, <4>1, <4>2, CloseContradictsLess
      <4>4. CASE s.ts = tick.now.wall
        <5>1. p # o
          BY <2>t, <3>1, <3>3, <4>3, <4>4 DEF Contradicts, Order
        <5>2. p.end = 0
          BY <2>t, <3>2, <4>3, <4>4 DEF Contradicts
        <5>3. Faulted({"StoreError"}, p.start, o.start)
          BY <2>l, <3>6, <4>1, <4>3, <4>4, <5>1, <5>2, OlderOpenIsFaulted
        <5>4. PICK f \in faults : /\ f.kind = "StoreError"
                                  /\ p.start <= f.at /\ f.at <= o.start
          BY <5>3 DEF Faulted
        <5>5. f.at <= s.ts
          BY <2>t, <3>2, <4>4, <5>4 DEF TypeOK, FaultRecord
        <5> QED
          BY <4>3, <5>4, <5>5, FaultsGrow
      <4> QED
        BY <3>4, <4>3, <4>4
    <3>9. CASE outages' = outages
      <4>1. CASE s.ts = tick.now.wall
        <5>1. q.end = 0
          BY <2>t, <3>2, <3>3, <3>9, <4>1 DEF Contradicts
        <5>2. CASE StoreFails
          <6>1. PICK f \in faults' : f.kind = "StoreError" /\ f.at = tick.now.wall
            BY <3>1, <5>2, StoreFailureRecorded
          <6>2. q.start <= f.at /\ f.at <= s.ts
            BY <2>t, <3>2, <3>9, <4>1, <6>1
          <6> QED
            BY <6>1, <6>2
        <5>3. CASE tick.ongoing = 0
          BY <2>l, <3>1, <3>6, <3>9, <4>1, <5>1, <5>3, FaultsGrow
             DEF OngoingKnown, Faulted
        <5>4. CASE ~Verdict /\ ~(Verdict <=> tick.ongoing # 0) /\ ~StoreFails
          <6>1. CloseOutage(tick.net, tick.ongoing, tick.now.wall)
            BY <2>9, <5>4 DEF Settle
          <6> QED
            BY <3>8, <5>3, <6>1
        <5> QED
          BY <3>5, <3>6, <4>1, <5>2, <5>3, <5>4
      <4>2. CASE s.ts # tick.now.wall
        BY <3>3, <3>4, <3>9, <4>2
      <4> QED
        BY <4>1, <4>2
    <3> QED
      BY <2>9, <3>7, <3>8, <3>9 DEF Settle
  <2> QED
    BY <2>2, <2>3, <2>4, <2>5, <2>6, <2>7, <2>8, <2>9 DEF Next
<1> QED
  BY <1>1, <1>2, TypeCorrect, OrderCorrect, LedgerCorrect, PTL DEF Spec

\* No probe of a network succeeded while one of its outages lasted, but for the
\* tick in progress, a tick the process did not finish, and store failures.
THEOREM NoSuccessInsideHolds == Spec => []NoSuccessInsideAnOutage
<1>1. RecoveryInv => NoSuccessInsideAnOutage
  BY DEF RecoveryInv, RecoveryClosed, NoSuccessInsideAnOutage
<1> QED
  BY <1>1, RecoveryCorrect, PTL

-----------------------------------------------------------------------------
(* The live status and the evidence *)

\* A verdict on a network at a time fits the table: an outage has its open row,
\* recovery leaves no row open, store failures apart.
Agrees(isOpen, net, at) ==
    IF isOpen
    THEN ~NoneOngoing(net) \/ Faulted({"StoreError"}, at, at)
    ELSE \A o \in outages : o.net = net /\ o.end = 0
                               => Faulted({"StoreError"}, o.start, at)

\* What the tick settled is what it will publish, and what was published holds
\* until a tick may settle again.
StatusInv ==
    /\ pc = "off" => status.ts = 0
    /\ pc \in {"idle", "resolve"} /\ status.ts # 0
          => Agrees(status.open, status.net, status.ts)
    /\ pc = "publish" => Agrees(Verdict, tick.net, tick.now.wall)

\* A failure of the store in this tick excuses whatever it leaves in the table.
LEMMA FailureExcuses ==
    ASSUME TypeOK, TypeOK', Order, pc \in InTick, StoreFails, outages' = outages,
           tick' = tick
    PROVE  Agrees(Verdict, tick.net, tick.now.wall)'
<1>1. PICK f \in faults' : f.kind = "StoreError" /\ f.at = tick.now.wall
  BY StoreFailureRecorded
<1>2. tick.now.wall \in Nat /\ \A o \in outages : o.start <= tick.now.wall
  BY DEF TypeOK, Tick, Time, Order, NothingAfter
<1>3. /\ Faulted({"StoreError"}, tick.now.wall, tick.now.wall)'
      /\ \A o \in outages' : Faulted({"StoreError"}, o.start, tick.now.wall)'
  BY <1>1, <1>2 DEF Faulted
<1> QED
  BY <1>3 DEF Agrees, NoneOngoing, Faulted

\* The second half of manageOutage leaves the table as the verdict wants it.
LEMMA SettleAgrees ==
    ASSUME TypeOK, TypeOK', Order, LedgerInv, [Next]_vars, Settle
    PROVE  Agrees(Verdict, tick.net, tick.now.wall)'
<1>0. /\ pc = "settle" /\ pc \in InTick /\ tick' = tick
      /\ OngoingKnown /\ UniqueRows /\ NoDoubleBilling
  BY DEF Settle, InTick, Steps, LedgerInv
<1>t. /\ outages \subseteq OutageRow
      /\ \A o \in outages : o.start \in Nat /\ o.start <= tick.now.wall
      /\ tick.now.wall \in Nat /\ tick.now.wall > 0
  BY <1>0 DEF TypeOK, OutageRow, Tick, Time, Order, NothingAfter
<1>v. Verdict' <=> Verdict
  BY <1>0 DEF Verdict
<1>1. CASE Verdict /\ tick.ongoing = 0 /\ OpenOutage(tick.net, tick.now.wall)
  <2> DEFINE new == [net |-> tick.net, start |-> tick.now.wall, end |-> 0]
  <2>1. new \in outages' /\ new.net = tick.net /\ new.end = 0
    BY <1>1 DEF OpenOutage
  <2> QED
    BY <1>0, <1>1, <1>v, <2>1 DEF Agrees, NoneOngoing
<1>2. CASE /\ ~Verdict /\ tick.ongoing # 0
           /\ CloseOutage(tick.net, tick.ongoing, tick.now.wall)
  <2>1. PICK o \in outages : IsOngoing(o, tick.net) /\ o.start = tick.ongoing
    BY <1>0, <1>2 DEF OngoingKnown
  <2>2. ASSUME NEW q \in outages', q.net = tick.net, q.end = 0
        PROVE  \E f \in faults' : /\ f.kind \in {"StoreError"}
                                  /\ q.start <= f.at /\ f.at <= tick.now.wall
    <3>1. PICK p \in outages :
             /\ q.net = p.net /\ q.start = p.start
             /\ IF p.net = tick.net /\ p.start = tick.ongoing
                THEN q.end = tick.now.wall ELSE q = p
      BY <1>2, <1>t, RowsAfterClose
    <3>2. p # o /\ p.net = tick.net /\ p.end = 0
      BY <1>t, <2>1, <2>2, <3>1 DEF IsOngoing
    <3>3. Faulted({"StoreError"}, p.start, o.start)
      BY <1>0, <2>1, <3>2, OlderOpenIsFaulted
    <3>4. PICK f \in faults : /\ f.kind \in {"StoreError"}
                              /\ p.start <= f.at /\ f.at <= o.start
      BY <3>3 DEF Faulted
    <3>5. f.at \in Nat
      BY DEF TypeOK, FaultRecord
    <3>6. f.at <= tick.now.wall
      BY <1>t, <3>4, <3>5
    <3> QED
      BY <3>1, <3>4, <3>6, FaultsGrow
  <2> QED
    BY <1>0, <1>2, <1>v, <2>2 DEF Agrees, Faulted
<1>3. CASE (Verdict <=> tick.ongoing # 0) /\ outages' = outages
  <2>1. Agrees(Verdict, tick.net, tick.now.wall)
    BY <1>0, <1>3 DEF OngoingKnown, IsOngoing, Agrees, NoneOngoing
  <2>2. Verdict \in BOOLEAN
    BY DEF Verdict, IsEvidence, CountsAgainstISP, Classify, Outage
  <2> QED
    BY <1>0, <1>3, <1>v, <2>1, <2>2, FaultsGrow DEF Agrees, NoneOngoing, Faulted
<1>4. CASE StoreFails /\ outages' = outages
  BY <1>0, <1>4, FailureExcuses
<1> QED
  BY <1>1, <1>2, <1>3, <1>4 DEF Settle

\* What is published is what was settled.
THEOREM StatusCorrect == Spec => []StatusInv
<1>1. Init => StatusInv
  BY DEF Init, StatusInv, NoStatus
<1>2. TypeOK /\ TypeOK' /\ Order /\ LedgerInv /\ StatusInv /\ [Next]_vars
         => StatusInv'
  <2> SUFFICES ASSUME TypeOK, TypeOK', Order, LedgerInv, StatusInv, [Next]_vars
               PROVE  StatusInv'
    OBVIOUS
  <2>s. status.open \in BOOLEAN /\ pc \in Steps
    BY DEF TypeOK, Status
  <2>1. CASE Start
    BY <2>1 DEF Start, StatusInv
  <2>2. CASE Exit
    BY <2>2 DEF Exit, StatusInv, NoStatus
  <2>3. CASE TickBegin \/ ResolveFails
    <3>1. /\ outages' = outages /\ status' = status
          /\ pc \in {"idle", "resolve"} /\ pc' \in {"idle", "resolve"}
      BY <2>3 DEF TickBegin, ResolveFails
    <3>2. status.ts # 0 => Agrees(status.open, status.net, status.ts)'
      BY <2>s, <3>1, FaultsGrow DEF StatusInv, Agrees, NoneOngoing, Faulted
    <3> QED
      BY <3>1, <3>2 DEF StatusInv
  <2>4. CASE Resolve \/ Probe \/ NothingOngoing \/ StaysOngoing \/ GapCloses
    <3>1. pc' \in {"probe", "manage", "settle"}
      BY <2>4 DEF Resolve, Probe, NothingOngoing, StaysOngoing, GapCloses, Managed
    <3> QED
      BY <3>1 DEF StatusInv
  <2>5. CASE LookupFails
    <3>1. Agrees(Verdict, tick.net, tick.now.wall)'
      BY <2>5, <2>s, FailureExcuses DEF LookupFails, InTick, Steps
    <3> QED
      BY <2>5, <3>1 DEF LookupFails, StatusInv
  <2>6. CASE Settle
    <3>1. Agrees(Verdict, tick.net, tick.now.wall)'
      BY <2>6, SettleAgrees
    <3> QED
      BY <2>6, <3>1 DEF Settle, StatusInv
  <2>7. CASE Publish
    <3>1. /\ outages' = outages /\ pc' = "idle" /\ pc = "publish"
          /\ status'.open = Verdict /\ status'.net = tick.net
          /\ status'.ts = tick.now.wall
      BY <2>7 DEF Publish
    <3>2. Verdict \in BOOLEAN
      BY DEF Verdict, IsEvidence, CountsAgainstISP, Classify, Outage
    <3>3. Agrees(status.open, status.net, status.ts)'
      BY <3>1, <3>2, FaultsGrow DEF StatusInv, Agrees, NoneOngoing, Faulted
    <3> QED
      BY <3>1, <3>3 DEF StatusInv
  <2>8. CASE Elapse \/ Sleep \/ Move \/ UNCHANGED vars
    <3>1. /\ outages' = outages /\ status' = status /\ pc' = pc /\ tick' = tick
      BY <2>8 DEF Elapse, Sleep, Move, vars
    <3>2. pc \in {"idle", "resolve"} /\ status.ts # 0
             => Agrees(status.open, status.net, status.ts)'
      BY <2>s, <3>1, FaultsGrow DEF StatusInv, Agrees, NoneOngoing, Faulted
    <3>3. Verdict \in BOOLEAN /\ Verdict' = Verdict
      BY <3>1 DEF Verdict, IsEvidence, CountsAgainstISP, Classify, Outage
    <3>4. pc = "publish" => Agrees(Verdict, tick.net, tick.now.wall)'
      BY <3>1, <3>3, FaultsGrow DEF StatusInv, Agrees, NoneOngoing, Faulted
    <3> QED
      BY <3>1, <3>2, <3>4 DEF StatusInv
  <2> QED
    BY <2>1, <2>2, <2>3, <2>4, <2>5, <2>6, <2>7, <2>8 DEF Next
<1> QED
  BY <1>1, <1>2, TypeCorrect, OrderCorrect, LedgerCorrect, PTL DEF Spec

\* Between ticks the dashboard's outage flag and the outages table agree: Publish
\* shows the verdict that Settle has just written, store failures apart.
THEOREM LiveStatusAgreesHolds == Spec => []LiveStatusAgrees
<1>1. StatusInv => LiveStatusAgrees
  BY DEF StatusInv, Agrees, LiveStatusAgrees
<1> QED
  BY <1>1, StatusCorrect, PTL

-----------------------------------------------------------------------------
(* The times of the tick, of the last observation and of the faults *)

\* A fault of any kind, dated between two wall times.
IsFaulted(from, to) == \E f \in faults : from <= f.at /\ f.at <= to

\* Every fault is of a kind of the list.
LEMMA AnyKind ==
    ASSUME TypeOK, NEW from, NEW to
    PROVE  Faulted(FaultKinds, from, to) <=> IsFaulted(from, to)
BY DEF TypeOK, FaultRecord, Faulted, IsFaulted

\* A fault is never dated later than the tick it hits, or the clock.
FaultsInThePast == \A f \in faults : f.at <= Stamp

\* The monotonic clock has run with the wall clock since t, or it stood still.
InStep(t) ==
    \/ clock.wall + t.mono = clock.mono + t.wall
    \/ IsFaulted(t.wall, Stamp)

ClocksInStep ==
    /\ lastSeen # ZeroTime => InStep(lastSeen)
    /\ pc \in InTick => InStep(tick.now)

\* The last observation is older than the tick until the tick has managed the
\* outage, and is the tick from then on.
SeenInTurn ==
    /\ pc \in {"resolve", "probe", "manage"} => lastSeen.wall < tick.now.wall
    /\ pc = "settle" => lastSeen = tick.now

TimesInv == FaultsInThePast /\ ClocksInStep /\ SeenInTurn

\* A fault that hits now is on record with the date of now, and no other is new.
LEMMA FaultDated ==
    ASSUME NEW kind, Fault(kind, Stamp)
    PROVE  /\ \E f \in faults' : f.at = Stamp
           /\ \A f \in faults' : f \in faults \/ f.at = Stamp
<1> DEFINE new == [kind |-> kind, at |-> Stamp]
<1>1. faults' = faults \cup {new}
  BY DEF Fault
<1>2. new.at = Stamp
  OBVIOUS
<1> HIDE DEF new
<1> QED
  BY <1>1, <1>2

\* What a step does to the times: a tick keeps its own, a new one takes the
\* clock's, and the date a fault would have never goes back.
LEMMA StepTimes ==
    ASSUME TypeOK, TypeOK', Order, [Next]_vars
    PROVE  /\ pc \in InTick /\ pc' \in InTick => tick'.now = tick.now
           /\ pc \notin InTick /\ pc' \in InTick
                 => tick'.now = clock' /\ clock'.wall = clock.wall + 1
           /\ clock.wall <= clock'.wall
           /\ Stamp <= Stamp'
           /\ \/ clock'.wall - clock.wall = clock'.mono - clock.mono
              \/ \E f \in faults' : f.at = Stamp
           /\ \A f \in faults' : f \in faults \/ f.at = Stamp
<1>t. /\ clock \in Time /\ clock' \in Time /\ tick.now \in Time /\ tick'.now \in Time
      /\ clock.wall \in Nat /\ clock.mono \in Nat
      /\ tick.now.wall \in Nat /\ pc \in Steps
      /\ pc \in InTick => tick.now.wall <= clock.wall
  BY DEF TypeOK, Time, Tick, Order
<1>2. \A f \in faults' : f \in faults \/ f.at = Stamp
  <2>1. StoreFails => \A f \in faults' : f \in faults \/ f.at = Stamp
    BY FaultDated DEF StoreFails
  <2>2. Exit \/ Sleep \/ Move => \A f \in faults' : f \in faults \/ f.at = Stamp
    BY FaultDated DEF Exit, Sleep, Move
  <2> QED
    BY <2>1, <2>2 DEF Next, vars, Start, Elapse, TickBegin, Resolve, ResolveFails,
       Probe, NothingOngoing, StaysOngoing, GapCloses, LookupFails, Settle, Publish
<1>3. CASE TickBegin
  <2>1. clock'.wall = clock.wall + 1 /\ clock'.mono = clock.mono + 1 /\ tick'.now = clock'
    BY <1>3 DEF TickBegin, NoTick
  <2>2. pc = "idle" /\ pc' = "resolve"
    BY <1>3 DEF TickBegin
  <2> QED
    BY <1>t, <1>2, <2>1, <2>2 DEF Stamp, InTick, Steps
<1>4. CASE Elapse
  <2>1. clock'.wall = clock.wall + 1 /\ clock'.mono = clock.mono + 1
    BY <1>4 DEF Elapse
  <2>2. pc' = pc /\ tick' = tick
    BY <1>4 DEF Elapse
  <2> QED
    BY <1>t, <1>2, <2>1, <2>2 DEF Stamp
<1>5. CASE Sleep
  <2>1. clock'.wall = clock.wall + 1
    BY <1>5 DEF Sleep, TypeOK, Time
  <2>2. pc' = pc /\ tick' = tick
    BY <1>5 DEF Sleep
  <2>3. \E f \in faults' : f.at = Stamp
    BY FaultDated, <1>5 DEF Sleep
  <2>4. Stamp <= Stamp'
    BY <1>t, <2>1, <2>2 DEF Stamp
  <2>5. clock.wall <= clock'.wall
    BY <1>t, <2>1
  <2> QED
    BY <1>2, <2>2, <2>3, <2>4, <2>5
\* The other steps leave the clock, and no tick begins in them.
<1>6. ASSUME clock' = clock, pc' \in InTick => pc \in InTick /\ tick'.now = tick.now
      PROVE  /\ pc \in InTick /\ pc' \in InTick => tick'.now = tick.now
             /\ pc \notin InTick /\ pc' \in InTick
                   => tick'.now = clock' /\ clock'.wall = clock.wall + 1
             /\ clock.wall <= clock'.wall
             /\ Stamp <= Stamp'
             /\ clock'.wall - clock.wall = clock'.mono - clock.mono
  BY <1>t, <1>6 DEF Stamp
<1>7. CASE Start \/ Exit \/ ResolveFails \/ Publish
  BY <1>2, <1>6, <1>7 DEF Start, Exit, ResolveFails, Publish, InTick
<1>8. CASE Move \/ LookupFails \/ Settle \/ UNCHANGED vars
  BY <1>2, <1>6, <1>8 DEF Move, LookupFails, Settle, vars, InTick, Steps
<1>9. CASE Resolve
  <2>1. tick'.now = tick.now
    BY <1>9 DEF Resolve, TypeOK, Tick
  <2> QED
    BY <1>2, <1>6, <1>9, <2>1 DEF Resolve, InTick, Steps
<1>10. CASE Probe
  <2>1. tick'.now = tick.now
    BY <1>10 DEF Probe, TypeOK, Tick
  <2> QED
    BY <1>2, <1>6, <1>10, <2>1 DEF Probe, InTick, Steps
<1>11. CASE NothingOngoing \/ StaysOngoing \/ GapCloses
  <2>1. PICK ongoing : Managed(ongoing)
    BY <1>11 DEF NothingOngoing, StaysOngoing, GapCloses
  <2>2. tick'.now = tick.now /\ clock' = clock
    BY <2>1 DEF Managed, TypeOK, Tick
  <2>3. pc = "manage"
    BY <1>11 DEF NothingOngoing, StaysOngoing, GapCloses
  <2> QED
    BY <1>2, <1>6, <2>2, <2>3 DEF InTick, Steps
<1> QED
  BY <1>3, <1>4, <1>5, <1>7, <1>8, <1>9, <1>10, <1>11 DEF Next

\* A time that kept step with the clocks keeps it, or the step stops the clock.
LEMMA StaysInStep ==
    ASSUME TypeOK, TypeOK', Order, [Next]_vars,
           NEW t \in Time, t.wall <= Stamp, InStep(t)
    PROVE  \/ clock'.wall + t.mono = clock'.mono + t.wall
           \/ \E f \in faults' : t.wall <= f.at /\ f.at <= Stamp'
<1>t. /\ clock.wall \in Nat /\ clock.mono \in Nat
      /\ clock'.wall \in Nat /\ clock'.mono \in Nat
      /\ t.wall \in Nat /\ t.mono \in Nat
      /\ Stamp \in Nat /\ Stamp' \in Nat
      /\ \A f \in faults' : f.at \in Nat
  BY StampType DEF TypeOK, Time, Stamp, Tick, FaultRecord
<1>1. Stamp <= Stamp'
  BY StepTimes
<1>2. CASE \E f \in faults' : f.at = Stamp
  BY <1>t, <1>1, <1>2
<1>3. CASE IsFaulted(t.wall, Stamp)
  <2>1. PICK f \in faults' : t.wall <= f.at /\ f.at <= Stamp
    BY <1>3, FaultsGrow DEF IsFaulted
  <2>2. f.at <= Stamp'
    BY <1>t, <1>1, <2>1
  <2> QED
    BY <2>1, <2>2
<1>4. CASE /\ clock'.wall - clock.wall = clock'.mono - clock.mono
           /\ clock.wall + t.mono = clock.mono + t.wall
  BY <1>t, <1>4
<1>5. \/ clock'.wall - clock.wall = clock'.mono - clock.mono
      \/ \E f \in faults' : f.at = Stamp
  BY StepTimes
<1> QED
  BY <1>2, <1>3, <1>4, <1>5 DEF InStep

\* How a step moves the last observation.
LEMMA StepSeen ==
    ASSUME [Next]_vars
    PROVE  \/ lastSeen' = lastSeen
           \/ lastSeen' = ZeroTime /\ pc' = "off"
           \/ /\ lastSeen' = tick.now
              /\ pc = "manage" /\ pc' = "settle"
BY DEF Next, vars, Start, Exit, Elapse, Sleep, Move, TickBegin, Resolve,
       ResolveFails, Probe, NothingOngoing, StaysOngoing, GapCloses, LookupFails,
       Settle, Publish, Managed

\* Where in its tick a step leaves the daemon.
LEMMA StepPc ==
    ASSUME [Next]_vars
    PROVE  /\ pc' \in {"probe", "manage"} => pc \in {"resolve", "probe", pc'}
           /\ pc' = "resolve" => pc \in {"idle", "resolve"}
           /\ pc' = "settle" => \/ pc = "settle" /\ tick' = tick
                                \/ pc = "manage" /\ lastSeen' = tick.now
BY DEF Next, vars, Start, Exit, Elapse, Sleep, Move, TickBegin, Resolve,
       ResolveFails, Probe, NothingOngoing, StaysOngoing, GapCloses, LookupFails,
       Settle, Publish, Managed

\* Times are read in order, and elapsed time is only lost where a fault says so.
THEOREM TimesCorrect == Spec => []TimesInv
<1>1. Init => TimesInv
  BY DEF Init, TimesInv, FaultsInThePast, ClocksInStep, SeenInTurn, InTick
<1>2. TypeOK /\ TypeOK' /\ Order /\ Order' /\ TimesInv /\ [Next]_vars => TimesInv'
  <2> SUFFICES ASSUME TypeOK, TypeOK', Order, Order', TimesInv, [Next]_vars
               PROVE  TimesInv'
    OBVIOUS
  <2>t. /\ Stamp \in Nat /\ Stamp' \in Nat
        /\ \A f \in faults : f.at \in Nat
        /\ clock.wall \in Nat /\ clock.mono \in Nat
        /\ clock' \in Time
        /\ tick.now \in Time /\ tick'.now \in Time
        /\ lastSeen \in Time /\ lastSeen' \in Time
        /\ pc \in Steps
    BY StampType DEF TypeOK, Stamp, Time, Tick, FaultRecord
  <2>i. FaultsInThePast /\ ClocksInStep /\ SeenInTurn
    BY DEF TimesInv
  <2>s. /\ Stamp <= Stamp'
        /\ \A f \in faults' : f \in faults \/ f.at = Stamp
        /\ pc \in InTick /\ pc' \in InTick => tick'.now = tick.now
        /\ pc \notin InTick /\ pc' \in InTick
              => tick'.now = clock' /\ clock'.wall = clock.wall + 1
    BY StepTimes
  <2>1. FaultsInThePast'
    <3> SUFFICES ASSUME NEW f \in faults' PROVE f.at <= Stamp'
      BY DEF FaultsInThePast
    <3>1. f.at <= Stamp
      BY <2>t, <2>i, <2>s DEF FaultsInThePast
    <3>2. f.at \in Nat
      BY DEF TypeOK, FaultRecord
    <3> QED
      BY <2>t, <2>s, <3>1, <3>2
  <2>2. /\ lastSeen.wall <= Stamp
        /\ pc \in InTick => tick.now.wall <= Stamp
    BY <2>t DEF Order, NothingAfter, Stamp, Time
  <2>3. pc' \in InTick => InStep(tick.now)'
    <3>1. CASE pc \in InTick /\ pc' \in InTick
      <4>1. InStep(tick.now) /\ tick'.now = tick.now
        BY <2>i, <2>s, <3>1 DEF ClocksInStep
      <4>2. \/ clock'.wall + tick.now.mono = clock'.mono + tick.now.wall
            \/ \E f \in faults' : tick.now.wall <= f.at /\ f.at <= Stamp'
        BY <2>t, <2>2, <3>1, <4>1, StaysInStep
      <4> QED
        BY <4>1, <4>2 DEF InStep, IsFaulted
    <3>2. CASE pc \notin InTick /\ pc' \in InTick
      BY <2>t, <2>s, <3>2 DEF InStep, Time
    <3> QED
      BY <3>1, <3>2
  <2>4. lastSeen' # ZeroTime => InStep(lastSeen)'
    <3>1. CASE lastSeen' = lastSeen /\ lastSeen # ZeroTime
      <4>1. InStep(lastSeen)
        BY <2>i, <3>1 DEF ClocksInStep
      <4>2. \/ clock'.wall + lastSeen.mono = clock'.mono + lastSeen.wall
            \/ \E f \in faults' : lastSeen.wall <= f.at /\ f.at <= Stamp'
        BY <2>t, <2>2, <4>1, StaysInStep
      <4> QED
        BY <3>1, <4>2 DEF InStep, IsFaulted
    <3>2. CASE lastSeen' = tick.now /\ pc = "manage" /\ pc' = "settle"
      <4>1. pc \in InTick /\ pc' \in InTick
        BY <3>2 DEF InTick, Steps
      <4>2. lastSeen' = tick'.now
        BY <2>s, <3>2, <4>1
      <4> QED
        BY <2>3, <4>1, <4>2 DEF InStep
    <3> QED
      BY <3>1, <3>2, StepSeen
  <2>5. SeenInTurn'
    <3>1. pc' = "settle" => lastSeen' = tick'.now
      <4>1. CASE pc = "settle" /\ tick' = tick /\ pc' = "settle"
        BY <2>i, <4>1, StepSeen DEF SeenInTurn
      <4>2. CASE pc = "manage" /\ lastSeen' = tick.now /\ pc' = "settle"
        BY <2>s, <4>2 DEF InTick, Steps
      <4> QED
        BY <4>1, <4>2, StepPc
    <3>2. ASSUME pc' \in {"resolve", "probe", "manage"}
          PROVE  lastSeen'.wall < tick'.now.wall
      <4>1. lastSeen' = lastSeen
        BY <3>2, StepSeen DEF ZeroTime
      <4>2. CASE pc \in {"resolve", "probe", "manage"}
        BY <2>i, <2>s, <3>2, <4>1, <4>2 DEF SeenInTurn, InTick, Steps
      <4>3. CASE pc = "idle" /\ pc' = "resolve"
        <5>1. tick'.now.wall = clock.wall + 1
          BY <2>s, <4>3 DEF InTick, Steps
        <5>2. lastSeen.wall <= clock.wall
          BY DEF Order, NothingAfter
        <5> QED
          BY <2>t, <4>1, <5>1, <5>2 DEF Time
      <4> QED
        BY <3>2, <4>2, <4>3, StepPc
    <3> QED
      BY <3>1, <3>2 DEF SeenInTurn
  <2> QED
    BY <2>1, <2>3, <2>4, <2>5 DEF TimesInv, ClocksInStep
<1> QED
  BY <1>1, <1>2, TypeCorrect, OrderCorrect, PTL DEF Spec

-----------------------------------------------------------------------------
(* Where the machine and its open outages are, and what the tick has sampled *)

\* A tick that knows its network and has not settled its outage yet.
Unsettled == {"probe", "manage", "settle"}

Open == {o \in outages : o.end = 0}
Sampled(net, t) == \E s \in samples : s.net = net /\ s.ts = t

\* The machine is where its open outages are, and where the tick saw it, unless
\* something happened to it since.
MovesNoted ==
    /\ \A o \in Open :
          /\ o.net # here => IsFaulted(o.start, Stamp)
          /\ pc \in Unsettled /\ o.net # tick.net
                => IsFaulted(o.start, tick.now.wall)
    /\ pc \in Unsettled /\ tick.net # here
          => IsFaulted(tick.now.wall, tick.now.wall)

\* A tick has a sample of its network once it has probed.
TickSampled ==
    pc \in {"manage", "settle"} =>
        \/ Sampled(tick.net, tick.now.wall)
        \/ IsFaulted(tick.now.wall, tick.now.wall)

\* An open outage has a sample at its start, and one at the last observation.
OpenSampled ==
    \A o \in Open :
        /\ Sampled(o.net, o.start) \/ IsFaulted(o.start, o.start)
        /\ lastSeen # ZeroTime =>
              /\ o.start <= lastSeen.wall
              /\ \/ Sampled(o.net, lastSeen.wall)
                 \/ IsFaulted(o.start, lastSeen.wall)

PlacesInv == MovesNoted /\ TickSampled /\ OpenSampled

\* A period with a fault keeps it, and so does a longer one.
LEMMA FaultedWidens ==
    ASSUME TypeOK, [Next]_vars, NEW from \in Nat, NEW to \in Nat,
           IsFaulted(from, to),
           NEW start \in Nat, start <= from, NEW end \in Nat, to <= end
    PROVE  \E f \in faults' : start <= f.at /\ f.at <= end
<1>1. PICK f \in faults : from <= f.at /\ f.at <= to
  BY DEF IsFaulted
<1>2. f.at \in Nat /\ f \in faults'
  BY FaultsGrow DEF TypeOK, FaultRecord
<1>3. start <= f.at /\ f.at <= end
  BY <1>1, <1>2
<1> QED
  BY <1>2, <1>3

\* The row of the outage a settling tick opens.
NewOutage == [net |-> tick.net, start |-> tick.now.wall, end |-> 0]

\* An open outage was open before the step, or Settle has just opened it.
LEMMA OpenRows ==
    ASSUME TypeOK, Order, [Next]_vars, NEW o \in outages', o.end = 0
    PROVE  \/ o \in Open
           \/ /\ o = NewOutage /\ outages' = outages \cup {NewOutage}
              /\ Settle
<1>t. /\ outages \subseteq OutageRow /\ tick.now.wall \in Nat
      /\ \A q \in outages : q.start \in Nat /\ q.start > 0
  BY DEF TypeOK, OutageRow, Tick, Time, Order
<1>1. ASSUME NEW net, NEW start, NEW end \in Nat \ {0}, CloseOutage(net, start, end)
      PROVE  o \in Open
  BY <1>t, <1>1, RowsAfterClose DEF Open
<1>2. CASE GapCloses
  <2>1. CASE outages' = outages
    BY <2>1 DEF Open
  <2>2. CASE \E q \in outages, seen \in LastObserved :
                CloseOutage(q.net, q.start, Later(seen.at, q.start))
    <3>1. PICK q \in outages, seen \in LastObserved :
             CloseOutage(q.net, q.start, Later(seen.at, q.start))
      BY <2>2
    <3>2. seen.at \in Nat
      BY <1>2, SeenBeforeNow DEF GapCloses
    <3>3. Later(seen.at, q.start) \in Nat \ {0}
      BY <1>t, <3>2 DEF Later
    <3> QED
      BY <1>1, <3>1, <3>3
  <2> QED
    BY <1>2, <2>1, <2>2 DEF GapCloses
<1>3. CASE Settle
  <2>1. tick.now.wall \in Nat \ {0}
    BY <1>t, <1>3 DEF Settle, Order
  <2>2. CASE OpenOutage(tick.net, tick.now.wall)
    BY <1>3, <2>2 DEF OpenOutage, NewOutage, Open
  <2>3. CASE CloseOutage(tick.net, tick.ongoing, tick.now.wall)
    BY <1>1, <2>1, <2>3
  <2>4. CASE outages' = outages
    BY <2>4 DEF Open
  <2> QED
    BY <1>3, <2>2, <2>3, <2>4 DEF Settle
<1>4. CASE outages' = outages
  BY <1>4 DEF Open
<1> QED
  BY <1>2, <1>3, <1>4 DEF Next, vars, Start, Exit, Elapse, Sleep, Move,
     TickBegin, Resolve, ResolveFails, Probe, NothingOngoing, StaysOngoing,
     LookupFails, Publish

\* How a step moves the machine, the network of the tick and its samples.
LEMMA StepPlace ==
    ASSUME TypeOK, [Next]_vars
    PROVE  /\ here' = here \/ \E f \in faults' : f.at = Stamp
           /\ pc' \in Unsettled =>
                 \/ pc \in Unsettled /\ tick'.net = tick.net /\ tick'.now = tick.now
                 \/ /\ pc = "resolve" /\ tick'.net = here /\ tick'.now = tick.now
                    /\ here' = here
           /\ samples \subseteq samples'
           /\ pc' \in {"manage", "settle"} =>
                 \/ pc \in {"manage", "settle"}
                 \/ Sampled(tick.net, tick.now.wall)'
                 \/ \E f \in faults' : f.at = tick.now.wall
<1>t. tick \in Tick /\ pc \in Steps
  BY DEF TypeOK
<1>1. CASE Move
  <2>1. \E f \in faults' : f.at = Stamp
    BY <1>1, FaultDated DEF Move
  <2>2. UNCHANGED <<pc, tick, samples>>
    BY <1>1 DEF Move
  <2> QED
    BY <2>1, <2>2
<1>2. CASE Resolve
  <2>1. tick'.net = here /\ tick'.now = tick.now
    BY <1>2, <1>t DEF Resolve, Tick
  <2> QED
    BY <1>2, <2>1 DEF Resolve, Unsettled
<1>3. CASE Probe
  <2>1. tick'.net = tick.net /\ tick'.now = tick.now
    BY <1>3, <1>t DEF Probe, Tick
  <2>2. /\ here' = here /\ samples \subseteq samples' /\ pc = "probe"
    BY <1>3 DEF Probe
  <2>3. PICK success \in BOOLEAN :
           \/ samples' = samples \cup {[net |-> tick.net, ts |-> tick.now.wall,
                                        success |-> success]}
           \/ StoreFails
    BY <1>3 DEF Probe
  <2>4. CASE samples' = samples \cup {[net |-> tick.net, ts |-> tick.now.wall,
                                       success |-> success]}
    <3> DEFINE new == [net |-> tick.net, ts |-> tick.now.wall, success |-> success]
    <3>1. new \in samples' /\ new.net = tick.net /\ new.ts = tick.now.wall
      BY <2>4
    <3> HIDE DEF new
    <3>2. Sampled(tick.net, tick.now.wall)'
      BY <2>1, <3>1 DEF Sampled
    <3> QED
      BY <2>1, <2>2, <3>2 DEF Unsettled
  <2>5. CASE StoreFails
    <3>1. \E f \in faults' : f.at = tick.now.wall
      BY <2>2, <2>5, StoreFailureRecorded DEF InTick, Steps
    <3> QED
      BY <2>1, <2>2, <3>1 DEF Unsettled
  <2> QED
    BY <2>3, <2>4, <2>5
<1>4. CASE NothingOngoing \/ StaysOngoing \/ GapCloses
  <2>1. PICK ongoing : Managed(ongoing)
    BY <1>4 DEF NothingOngoing, StaysOngoing, GapCloses
  <2>2. /\ tick'.now = tick.now /\ tick'.net = tick.net /\ here' = here
        /\ samples' = samples
    BY <1>t, <2>1 DEF Managed, Tick
  <2>3. pc = "manage"
    BY <1>4 DEF NothingOngoing, StaysOngoing, GapCloses
  <2> QED
    BY <2>2, <2>3 DEF Unsettled
<1>5. CASE Start \/ Exit \/ TickBegin \/ ResolveFails \/ LookupFails \/ Settle \/ Publish
  BY <1>5 DEF Start, Exit, TickBegin, ResolveFails, LookupFails, Settle, Publish,
              Unsettled
<1>6. CASE Elapse \/ Sleep \/ UNCHANGED vars
  BY <1>6 DEF Elapse, Sleep, vars
<1> QED
  BY <1>1, <1>2, <1>3, <1>4, <1>5, <1>6 DEF Next

\* The daemon books an outage where it is, and samples what it books.
THEOREM PlacesCorrect == Spec => []PlacesInv
<1>1. Init => PlacesInv
  BY DEF Init, PlacesInv, MovesNoted, TickSampled, OpenSampled, Open, Unsettled
<1>2. TypeOK /\ TypeOK' /\ Order /\ Order' /\ TimesInv /\ PlacesInv /\ [Next]_vars
         => PlacesInv'
  <2> SUFFICES ASSUME TypeOK, TypeOK', Order, Order', TimesInv, PlacesInv, [Next]_vars
               PROVE  PlacesInv'
    OBVIOUS
  <2>t. /\ Stamp \in Nat /\ Stamp' \in Nat
        /\ tick.now.wall \in Nat /\ lastSeen.wall \in Nat
        /\ \A o \in Open : o.start \in Nat
        /\ pc \in Steps
    BY StampType DEF TypeOK, Open, OutageRow, Stamp, Time, Tick
  <2>i. MovesNoted /\ TickSampled /\ OpenSampled
    BY DEF PlacesInv
  <2>s. Stamp <= Stamp'
    BY StepTimes
  <2>o. /\ \A o \in Open : o.start <= Stamp
        /\ pc \in Unsettled =>
              Stamp = tick.now.wall /\ \A o \in Open : o.start <= tick.now.wall
    BY <2>t DEF Order, NothingAfter, Stamp, InTick, Steps, Unsettled, Open
  <2>n. \A o \in Open' : o \in Open \/ (o = NewOutage /\ Settle)
    BY OpenRows DEF Open
  <2>w. NewOutage.net = tick.net /\ NewOutage.start = tick.now.wall
    BY DEF NewOutage
  <2>1. ASSUME NEW o \in Open', o.net # here'
        PROVE  IsFaulted(o.start, Stamp)'
    <3>1. CASE \E f \in faults' : f.at = Stamp
      <4>1. PICK f \in faults' : f.at = Stamp
        BY <3>1
      <4>2. o.start <= Stamp
        <5>1. CASE o \in Open
          BY <2>o, <5>1
        <5>2. CASE o = NewOutage /\ Settle
          BY <2>o, <2>t, <2>w, <5>2 DEF Settle, Unsettled
        <5> QED
          BY <2>1, <2>n, <5>1, <5>2
      <4> QED
        BY <2>s, <4>1, <4>2 DEF IsFaulted
    <3>2. CASE here' = here /\ o \in Open
      <4>1. IsFaulted(o.start, Stamp) /\ o.start \in Nat
        BY <2>i, <2>t, <2>1, <3>2 DEF MovesNoted
      <4>2. \E f \in faults' : o.start <= f.at /\ f.at <= Stamp'
        BY <2>t, <2>s, <4>1, FaultedWidens
      <4> QED
        BY <4>2 DEF IsFaulted
    <3>3. CASE here' = here /\ o = NewOutage /\ Settle
      <4>1. tick.net # here /\ pc \in Unsettled
        BY <2>w, <2>1, <3>3 DEF Settle, Unsettled
      <4>2. IsFaulted(tick.now.wall, tick.now.wall) /\ tick.now.wall <= Stamp'
        BY <2>i, <2>o, <2>s, <4>1 DEF MovesNoted
      <4>3. \E f \in faults' : tick.now.wall <= f.at /\ f.at <= Stamp'
        BY <2>t, <4>2, FaultedWidens
      <4> QED
        BY <2>w, <3>3, <4>3 DEF IsFaulted
    <3> QED
      BY <2>1, <2>n, <3>1, <3>2, <3>3, StepPlace
  <2>2. ASSUME NEW o \in Open', pc' \in Unsettled, o.net # tick'.net
        PROVE  IsFaulted(o.start, tick.now.wall)'
    <3>1. o \in Open /\ o.start \in Nat
      BY <2>t, <2>n, <2>2 DEF Settle, Unsettled
    <3>2. CASE pc \in Unsettled /\ tick'.net = tick.net /\ tick'.now = tick.now
      <4>1. IsFaulted(o.start, tick.now.wall)
        BY <2>i, <2>2, <3>1, <3>2 DEF MovesNoted
      <4>2. \E f \in faults' : o.start <= f.at /\ f.at <= tick.now.wall
        BY <2>t, <3>1, <4>1, FaultedWidens
      <4> QED
        BY <3>2, <4>2 DEF IsFaulted
    <3>3. CASE pc = "resolve" /\ tick'.net = here /\ tick'.now = tick.now
      <4>1. IsFaulted(o.start, Stamp) /\ Stamp = tick.now.wall
        BY <2>i, <2>2, <3>1, <3>3 DEF MovesNoted, Stamp, InTick, Steps
      <4>2. \E f \in faults' : o.start <= f.at /\ f.at <= tick.now.wall
        BY <2>t, <3>1, <4>1, FaultedWidens
      <4> QED
        BY <3>3, <4>2 DEF IsFaulted
    <3> QED
      BY <2>2, <3>2, <3>3, StepPlace
  <2>3. ASSUME pc' \in Unsettled, tick'.net # here'
        PROVE  IsFaulted(tick.now.wall, tick.now.wall)'
    <3>1. PICK now \in Nat : now = tick.now.wall /\ tick'.now.wall = now
      BY <2>t, <2>3, StepPlace
    <3>2. CASE \E f \in faults' : f.at = Stamp
      <4>1. Stamp = tick.now.wall
        BY <2>3, StepPlace DEF Stamp, InTick, Unsettled, Steps
      <4> QED
        BY <3>1, <3>2, <4>1 DEF IsFaulted
    <3>3. CASE here' = here /\ pc \in Unsettled /\ tick'.net = tick.net
      <4>1. IsFaulted(now, now)
        BY <2>i, <2>3, <3>1, <3>3 DEF MovesNoted
      <4>2. \E f \in faults' : now <= f.at /\ f.at <= now
        BY <4>1, FaultedWidens
      <4> QED
        BY <3>1, <4>2 DEF IsFaulted
    <3> QED
      BY <2>3, <3>2, <3>3, StepPlace
  <2>4. MovesNoted'
    BY <2>1, <2>2, <2>3 DEF MovesNoted
  <2>5. TickSampled'
    <3> SUFFICES ASSUME pc' \in {"manage", "settle"}
                 PROVE  \/ Sampled(tick.net, tick.now.wall)'
                        \/ IsFaulted(tick.now.wall, tick.now.wall)'
      BY DEF TickSampled
    <3>0. pc' \in Unsettled
      BY DEF Unsettled
    <3>1. PICK now \in Nat : now = tick.now.wall /\ tick'.now.wall = now
      BY <2>t, <3>0, StepPlace
    <3>2. CASE pc \in {"manage", "settle"}
      <4>1. tick'.net = tick.net
        BY <3>0, <3>2, StepPlace
      <4>2. CASE Sampled(tick.net, now)
        BY <3>1, <4>1, <4>2, StepPlace DEF Sampled
      <4>3. CASE IsFaulted(now, now)
        <5>1. \E f \in faults' : now <= f.at /\ f.at <= now
          BY <4>3, FaultedWidens
        <5> QED
          BY <3>1, <5>1 DEF IsFaulted
      <4> QED
        BY <2>i, <3>1, <3>2, <4>2, <4>3 DEF TickSampled
    <3>3. CASE \E f \in faults' : f.at = tick.now.wall
      BY <3>1, <3>3 DEF IsFaulted
    <3> QED
      BY <3>2, <3>3, StepPlace
  <2>6. ASSUME NEW o \in Open'
        PROVE  Sampled(o.net, o.start)' \/ IsFaulted(o.start, o.start)'
    <3>1. PICK start \in Nat : o.start = start
      BY DEF Open, TypeOK, OutageRow
    <3>2. Sampled(o.net, start) \/ IsFaulted(start, start)
      <4>1. CASE o \in Open
        BY <2>i, <3>1, <4>1 DEF OpenSampled
      <4>2. CASE o = NewOutage /\ Settle
        BY <2>i, <2>w, <3>1, <4>2 DEF TickSampled, Settle
      <4> QED
        BY <2>6, <2>n, <4>1, <4>2
    <3>3. Sampled(o.net, start) => Sampled(o.net, o.start)'
      BY <3>1, StepPlace DEF Sampled
    <3>4. IsFaulted(start, start) => \E f \in faults' : start <= f.at /\ f.at <= start
      BY FaultedWidens
    <3> QED
      BY <3>1, <3>2, <3>3, <3>4 DEF IsFaulted
  <2>7. ASSUME NEW o \in Open', lastSeen' # ZeroTime
        PROVE  /\ o.start <= lastSeen'.wall
               /\ \/ Sampled(o.net, lastSeen.wall)'
                  \/ IsFaulted(o.start, lastSeen.wall)'
    <3>1. PICK start \in Nat, seen \in Nat :
             o.start = start /\ lastSeen'.wall = seen
      BY DEF Open, TypeOK, OutageRow, Time
    <3>2. start <= seen /\ (Sampled(o.net, seen) \/ IsFaulted(start, seen))
      <4>1. CASE lastSeen' = lastSeen /\ o \in Open
        BY <2>i, <2>7, <3>1, <4>1 DEF OpenSampled
      <4>2. CASE o = NewOutage /\ Settle
        <5>1. seen = tick.now.wall /\ start = tick.now.wall
          BY <2>w, <3>1, <4>2 DEF Settle, TimesInv, SeenInTurn
        <5>2. Sampled(o.net, seen) \/ IsFaulted(seen, seen)
          BY <2>i, <2>w, <4>2, <5>1 DEF TickSampled, Settle
        <5> QED
          BY <5>1, <5>2
      <4>3. CASE lastSeen' = tick.now /\ pc = "manage" /\ o \in Open
        <5>1. seen = tick.now.wall /\ start <= seen
          BY <2>o, <3>1, <4>3 DEF Unsettled
        <5>2. CASE o.net = tick.net
          <6>1. Sampled(o.net, seen) \/ IsFaulted(seen, seen)
            BY <2>i, <4>3, <5>1, <5>2 DEF TickSampled
          <6>2. IsFaulted(seen, seen) => IsFaulted(start, seen)
            BY <5>1 DEF IsFaulted, TypeOK, FaultRecord
          <6> QED
            BY <5>1, <6>1, <6>2
        <5>3. CASE o.net # tick.net
          BY <2>i, <3>1, <4>3, <5>1, <5>3 DEF MovesNoted, Unsettled
        <5> QED
          BY <5>2, <5>3
      <4> QED
        BY <2>7, <2>n, <4>1, <4>2, <4>3, StepSeen DEF Settle
    <3>3. Sampled(o.net, seen) => Sampled(o.net, lastSeen.wall)'
      BY <3>1, StepPlace DEF Sampled
    <3>4. IsFaulted(start, seen) => \E f \in faults' : start <= f.at /\ f.at <= seen
      BY FaultedWidens
    <3> QED
      BY <3>1, <3>2, <3>3, <3>4 DEF IsFaulted
  <2>8. OpenSampled'
    BY <2>6, <2>7 DEF OpenSampled
  <2> QED
    BY <2>4, <2>5, <2>8 DEF PlacesInv
<1> QED
  BY <1>1, <1>2, TypeCorrect, OrderCorrect, TimesCorrect, PTL DEF Spec

-----------------------------------------------------------------------------
(* An outage without a fault bills only time that was observed *)

\* Up to each of its samples an open outage was observed without a gap, unless
\* a fault lies in between.  The samples of a tick count when it has managed the
\* outage: until then they may follow a gap it has still to find.
SamplesCover ==
    \A o \in Open, s \in samples :
        /\ s.net = o.net /\ o.start <= s.ts
        /\ ~(pc \in {"probe", "manage"} /\ s.ts = tick.now.wall)
        /\ ~IsFaulted(o.start, s.ts)
        => Covered(o.net, o.start, s.ts)

CoverInv == SamplesCover /\ CleanOutagesBillOnlyObservedTime

\* An outage ends where it starts without a moment to cover.
LEMMA CoversNothing ==
    ASSUME NEW net, NEW a \in Nat PROVE Covered(net, a, a)
BY DEF Covered

\* What was observed stays observed: no sample is dropped.
LEMMA CoveredStays ==
    ASSUME TypeOK, [Next]_vars, NEW net, NEW a, NEW b, Covered(net, a, b)
    PROVE  \A t \in a .. b - 1 :
              \E s \in samples' : /\ s.net = net
                                  /\ a <= s.ts /\ s.ts <= t /\ t < s.ts + MaxGap
BY StepPlace DEF Covered

\* A period covered up to a sample is covered for a gap longer.
LEMMA CoveredExtends ==
    ASSUME TypeOK, NEW net, NEW a \in Nat, NEW m \in Nat, NEW b \in Nat, a <= m,
           Covered(net, a, m), Sampled(net, m), b - m <= MaxGap
    PROVE  Covered(net, a, b)
<1> SUFFICES ASSUME NEW t \in a .. b - 1
             PROVE  \E s \in samples : /\ s.net = net
                                       /\ a <= s.ts /\ s.ts <= t /\ t < s.ts + MaxGap
  BY DEF Covered
<1>1. CASE t < m
  BY <1>1 DEF Covered
<1>2. CASE m <= t
  <2>1. PICK s \in samples : s.net = net /\ s.ts = m
    BY DEF Sampled
  <2>2. t < m + MaxGap
    BY ConfigAssumption
  <2> QED
    BY <1>2, <2>1, <2>2
<1> QED
  BY <1>1, <1>2

\* Numbers have a least one.
LEMMA LeastExists ==
    ASSUME NEW T \in SUBSET Nat, T # {}
    PROVE  \E x \in T : \A y \in T : x <= y
<1> DEFINE less == {ss \in Nat \X Nat : ss[1] < ss[2]}
<1>1. IsWellFoundedOn(less, Nat)
  BY NatLessThanWellFounded DEF OpToRel
<1>2. \A x, y \in Nat : y < x => <<y, x>> \in less
  OBVIOUS
<1> HIDE DEF less
<1>3. PICK x \in T : \A y \in T : ~ (<<y, x>> \in less)
  BY <1>1, WFMin
<1>4. ASSUME NEW y \in T PROVE x <= y
  <2>1. x \in Nat /\ y \in Nat /\ ~ (y < x)
    BY <1>2, <1>3
  <2> QED
    BY <2>1
<1> QED
  BY <1>4

\* Before a time at which a network was sampled there is a newest sample.
LEMMA NewestSample ==
    ASSUME TypeOK, NEW net, NEW t \in Nat,
           NEW s \in samples, s.net = net, s.ts < t
    PROVE  \E m \in LastSampleBefore(net, t) : s.ts <= m.ts
<1> DEFINE Ages == {n \in Nat : \E r \in samples : /\ r.net = net /\ r.ts < t
                                                   /\ n = t - r.ts}
<1>t. \A r \in samples : r.ts \in Nat
  BY DEF TypeOK, Sample
<1>1. t - s.ts \in Ages
  BY <1>t
<1>2. PICK n \in Ages : \A k \in Ages : n <= k
  <2>1. Ages \in SUBSET Nat /\ Ages # {}
    BY <1>1
  <2> HIDE DEF Ages
  <2> QED
    BY <2>1, LeastExists
<1>4. PICK m \in samples : m.net = net /\ m.ts < t /\ n = t - m.ts
  BY <1>2
<1>5. \A r \in samples : r.net = net /\ r.ts < t => t - r.ts \in Ages
  BY <1>t
<1>6. \A r \in samples : r.net = net /\ r.ts < t => r.ts <= m.ts
  BY <1>t, <1>2, <1>4, <1>5
<1> QED
  BY <1>1, <1>4, <1>6 DEF LastSampleBefore

\* All that is known of an open outage when the tick comes to manage it.
Known ==
    /\ TypeOK /\ Order /\ LedgerInv /\ RecoveryInv
    /\ TimesInv /\ PlacesInv /\ SamplesCover

\* Without a fault in between, the last observation of the outage's network is
\* a sample, and the outage is covered up to it.
LEMMA LastSeenCovers ==
    ASSUME Known, pc = "manage", NEW o \in Open, lastSeen # ZeroTime,
           ~IsFaulted(o.start, lastSeen.wall)
    PROVE  /\ o.start <= lastSeen.wall /\ lastSeen.wall < tick.now.wall
           /\ Sampled(o.net, lastSeen.wall)
           /\ Covered(o.net, o.start, lastSeen.wall)
<1>1. o.start <= lastSeen.wall /\ Sampled(o.net, lastSeen.wall)
  BY DEF Known, PlacesInv, OpenSampled
<1>2. lastSeen.wall < tick.now.wall
  BY DEF Known, TimesInv, SeenInTurn
<1>3. PICK s \in samples : s.net = o.net /\ s.ts = lastSeen.wall
  BY <1>1 DEF Sampled
<1>4. s.ts # tick.now.wall
  BY <1>2, <1>3 DEF Known, TypeOK, Time, Tick
<1>5. Covered(o.net, o.start, s.ts)
  BY <1>1, <1>3, <1>4 DEF Known, SamplesCover
<1> QED
  BY <1>1, <1>2, <1>3, <1>5

\* In a period without a fault the two clocks measure the same silence.
LEMMA SilenceIsTrue ==
    ASSUME Known, pc = "manage", lastSeen # ZeroTime,
           ~IsFaulted(lastSeen.wall, tick.now.wall)
    PROVE  tick.now.wall - lastSeen.wall = tick.now.mono - lastSeen.mono
<1>t. /\ clock.wall \in Nat /\ clock.mono \in Nat
      /\ tick.now.wall \in Nat /\ tick.now.mono \in Nat
      /\ lastSeen.wall \in Nat /\ lastSeen.mono \in Nat
      /\ \A f \in faults : f.at \in Nat
  BY DEF Known, TypeOK, Time, Tick, FaultRecord
<1>1. Stamp = tick.now.wall /\ pc \in InTick
  BY DEF Stamp, InTick, Steps
<1>2. InStep(lastSeen) /\ InStep(tick.now)
  BY <1>1 DEF Known, TimesInv, ClocksInStep
<1>3. lastSeen.wall < tick.now.wall
  BY DEF Known, TimesInv, SeenInTurn
<1>4. ~IsFaulted(tick.now.wall, tick.now.wall)
  BY <1>t, <1>3 DEF IsFaulted
<1>5. /\ clock.wall + lastSeen.mono = clock.mono + lastSeen.wall
      /\ clock.wall + tick.now.mono = clock.mono + tick.now.wall
  BY <1>1, <1>2, <1>4 DEF InStep
<1> QED
  BY <1>t, <1>5

\* An outage that stays open because no gap was found was observed up to now.
LEMMA NoGapCovers ==
    ASSUME Known, pc = "manage", NEW o \in Open, o.net = tick.net,
           ~IsFaulted(o.start, tick.now.wall),
           \A seen \in LastObserved : seen.silence <= MaxGap
    PROVE  Covered(o.net, o.start, tick.now.wall)
<1>t. /\ TypeOK
      /\ tick.now.wall \in Nat /\ lastSeen.wall \in Nat /\ o.start \in Nat
      /\ \A f \in faults : f.at \in Nat
      /\ \A s \in samples : s.ts \in Nat
  BY DEF Known, TypeOK, Time, Tick, FaultRecord, OutageRow, Open, Sample
<1>1. \A from, to \in Nat :
         o.start <= from /\ to <= tick.now.wall => ~IsFaulted(from, to)
  BY <1>t DEF IsFaulted
<1>2. CASE lastSeen # ZeroTime
  <2>1. lastSeen.wall < tick.now.wall
    BY DEF Known, TimesInv, SeenInTurn
  <2>2. ~IsFaulted(o.start, lastSeen.wall)
    BY <1>t, <1>1, <2>1
  <2>3. /\ o.start <= lastSeen.wall
        /\ Sampled(o.net, lastSeen.wall)
        /\ Covered(o.net, o.start, lastSeen.wall)
    BY <1>2, <2>2, LastSeenCovers
  <2>4. ~IsFaulted(lastSeen.wall, tick.now.wall)
    BY <1>t, <1>1, <2>3
  <2>5. tick.now.wall - lastSeen.wall = tick.now.mono - lastSeen.mono
    BY <1>2, <2>4, SilenceIsTrue
  <2>6. tick.now.mono - lastSeen.mono <= MaxGap
    <3> DEFINE seen == [at |-> lastSeen.wall, silence |-> tick.now.mono - lastSeen.mono]
    <3>1. seen \in LastObserved
      BY <1>2 DEF LastObserved
    <3>2. seen.silence = tick.now.mono - lastSeen.mono
      OBVIOUS
    <3> HIDE DEF seen
    <3> QED
      BY <3>1, <3>2
  <2> QED
    BY <1>t, <2>3, <2>5, <2>6, CoveredExtends
<1>3. CASE lastSeen = ZeroTime
  <2>1. o.start < tick.now.wall
    BY DEF Known, Order, Open
  <2>2. Sampled(o.net, o.start)
    BY <1>t, <1>1, <2>1 DEF Known, PlacesInv, OpenSampled
  <2>3. PICK first \in samples : first.net = tick.net /\ first.ts = o.start
    BY <2>2 DEF Sampled
  <2>4. PICK m \in LastSampleBefore(tick.net, tick.now.wall) : o.start <= m.ts
    BY <1>t, <2>1, <2>3, NewestSample
  <2>5. /\ m \in samples /\ m.net = o.net
        /\ m.ts \in Nat /\ m.ts < tick.now.wall
    BY <1>t, <2>4 DEF LastSampleBefore
  <2>6. Covered(o.net, o.start, m.ts)
    BY <1>t, <1>1, <2>4, <2>5 DEF Known, SamplesCover
  <2>7. tick.now.wall - m.ts <= MaxGap
    <3> DEFINE seen == [at |-> m.ts, silence |-> tick.now.wall - m.ts]
    <3>1. seen \in LastObserved
      BY <1>3, <2>4 DEF LastObserved
    <3>2. seen.silence = tick.now.wall - m.ts
      OBVIOUS
    <3> HIDE DEF seen
    <3> QED
      BY <3>1, <3>2
  <2>8. Sampled(o.net, m.ts)
    BY <2>5 DEF Sampled
  <2> QED
    BY <1>t, <2>4, <2>5, <2>6, <2>7, <2>8, CoveredExtends
<1> QED
  BY <1>2, <1>3

\* The time a gap is dated to is covered too: it is the last observation.
LEMMA GapIsDatedRight ==
    ASSUME Known, pc = "manage", NEW o \in Open, o.net = tick.net,
           NEW seen \in LastObserved,
           ~IsFaulted(o.start, Later(seen.at, o.start))
    PROVE  Covered(o.net, o.start, Later(seen.at, o.start))
<1>t. /\ o.start \in Nat /\ tick.now.wall \in Nat
      /\ lastSeen.wall \in Nat
      /\ \A s \in samples : s.ts \in Nat
  BY DEF Known, TypeOK, Time, Tick, OutageRow, Open, Sample
<1>1. CASE Later(seen.at, o.start) = o.start
  BY <1>t, <1>1, CoversNothing
<1>2. CASE Later(seen.at, o.start) = seen.at /\ lastSeen # ZeroTime
  <2>1. seen.at = lastSeen.wall
    BY <1>2 DEF LastObserved
  <2> QED
    BY <1>2, <2>1, LastSeenCovers
<1>3. CASE /\ Later(seen.at, o.start) = seen.at /\ seen.at >= o.start
           /\ lastSeen = ZeroTime
  <2>1. PICK s \in LastSampleBefore(tick.net, tick.now.wall) : seen.at = s.ts
    BY <1>3 DEF LastObserved
  <2>2. s \in samples /\ s.net = o.net /\ s.ts < tick.now.wall /\ s.ts \in Nat
    BY <1>t, <2>1 DEF LastSampleBefore
  <2> QED
    BY <1>t, <1>3, <2>1, <2>2 DEF Known, SamplesCover
<1>4. seen.at \in Nat
  BY SeenBeforeNow DEF Known
<1> QED
  BY <1>t, <1>1, <1>2, <1>3, <1>4 DEF Later

\* An outage of the tick's network that is still open when the tick has managed
\* it was observed up to now, or a fault lies in between.
LEMMA SurvivorIsCovered ==
    ASSUME Known, [Next]_vars, pc = "manage", pc' = "settle",
           NEW o \in Open, o \in outages', o.net = tick.net,
           \A f \in faults' : ~(o.start <= f.at /\ f.at <= tick.now.wall)
    PROVE  Covered(o.net, o.start, tick.now.wall)
<1>t. /\ TypeOK /\ outages \subseteq OutageRow /\ o \in outages /\ o.end = 0
      /\ tick.now.wall \in Nat /\ pc \in InTick
      /\ \A p \in outages : p.start \in Nat /\ p.start > 0 /\ p.start < tick.now.wall
      /\ \A f \in faults : f.at \in Nat /\ f \in faults'
  BY FaultsGrow DEF Known, TypeOK, OutageRow, Tick, Time, Order, Open, FaultRecord,
                    InTick, Steps
<1>l. UniqueRows /\ NoDoubleBilling
  BY DEF Known, LedgerInv
<1>1. ~IsFaulted(o.start, tick.now.wall)
  BY <1>t DEF IsFaulted
<1>2. ~StoreFails
  BY <1>t, StoreFailureRecorded
<1>3. ASSUME NEW p \in outages, IsOngoing(p, tick.net) PROVE p = o
  <2> SUFFICES ASSUME p # o PROVE FALSE
    OBVIOUS
  <2>1. Faulted({"StoreError"}, o.start, p.start)
    BY <1>t, <1>l, <1>3, OlderOpenIsFaulted
  <2>2. PICK f \in faults : o.start <= f.at /\ f.at <= p.start
    BY <2>1 DEF Faulted
  <2>3. f.at <= tick.now.wall
    BY <1>t, <2>2
  <2> QED
    BY <1>t, <2>2, <2>3
<1>4. CASE NothingOngoing
  BY <1>t, <1>4 DEF NothingOngoing, NoneOngoing
<1>5. CASE StaysOngoing
  <2>1. \A seen \in LastObserved : seen.silence <= MaxGap
    BY <1>2, <1>5 DEF StaysOngoing
  <2> QED
    BY <1>1, <2>1, NoGapCovers
<1>6. CASE GapCloses
  <2>1. PICK p \in outages, seen \in LastObserved :
           /\ IsOngoing(p, tick.net)
           /\ CloseOutage(p.net, p.start, Later(seen.at, p.start))
    BY <1>2, <1>6 DEF GapCloses
  <2>2. p = o
    BY <1>3, <2>1
  <2>3. Later(seen.at, o.start) \in Nat /\ Later(seen.at, o.start) > 0
    <3>1. seen.at \in Nat
      BY SeenBeforeNow DEF Known
    <3> QED
      BY <1>t, <3>1 DEF Later
  <2>4. o.end = Later(seen.at, o.start)
    BY <1>t, <2>1, <2>2, <2>3, RowsAfterClose
  <2> QED
    BY <1>t, <2>3, <2>4
<1>7. NothingOngoing \/ StaysOngoing \/ GapCloses
  BY DEF Next, vars, Start, Exit, Elapse, Sleep, Move, TickBegin, Resolve,
     ResolveFails, Probe, LookupFails, Settle, Publish
<1> QED
  BY <1>4, <1>5, <1>6, <1>7

\* A closed outage was closed before the step, or by a gap, or by the tick.
LEMMA ClosedRows ==
    ASSUME TypeOK, Order, LedgerInv, [Next]_vars, NEW q \in outages', q.end # 0
    PROVE  \/ q \in outages
           \/ \E o \in Open :
                 /\ q.net = o.net /\ q.start = o.start /\ o.net = tick.net
                 /\ \/ /\ pc = "manage"
                       /\ \E seen \in LastObserved : q.end = Later(seen.at, o.start)
                    \/ pc = "settle" /\ q.end = tick.now.wall
<1>t. /\ outages \subseteq OutageRow /\ tick.now.wall \in Nat
      /\ \A o \in outages : o.start \in Nat
  BY DEF TypeOK, OutageRow, Tick, Time
<1>1. ASSUME NEW o \in outages, o.end = 0, NEW end \in Nat,
             CloseOutage(o.net, o.start, end)
      PROVE  q \in outages \/ (q.net = o.net /\ q.start = o.start /\ q.end = end)
  BY <1>t, <1>1, RowsAfterClose
<1>2. CASE GapCloses
  <2>1. CASE outages' = outages
    BY <2>1
  <2>2. CASE \E o \in outages, seen \in LastObserved :
                /\ IsOngoing(o, tick.net)
                /\ CloseOutage(o.net, o.start, Later(seen.at, o.start))
    <3>1. PICK o \in outages, seen \in LastObserved :
             /\ IsOngoing(o, tick.net)
             /\ CloseOutage(o.net, o.start, Later(seen.at, o.start))
      BY <2>2
    <3>2. Later(seen.at, o.start) \in Nat
      BY <1>t, <1>2, SeenBeforeNow DEF Later, GapCloses
    <3>3. o \in Open /\ o.net = tick.net /\ o.end = 0
      BY <3>1 DEF IsOngoing, Open
    <3>4. q \in outages \/ (/\ q.net = o.net /\ q.start = o.start
                            /\ q.end = Later(seen.at, o.start))
      BY <1>1, <3>1, <3>2, <3>3
    <3> QED
      BY <1>2, <3>3, <3>4 DEF GapCloses
  <2> QED
    BY <1>2, <2>1, <2>2 DEF GapCloses
<1>3. CASE Settle
  <2>1. CASE OpenOutage(tick.net, tick.now.wall)
    BY <2>1 DEF OpenOutage
  <2>2. CASE tick.ongoing # 0 /\ CloseOutage(tick.net, tick.ongoing, tick.now.wall)
    <3>1. PICK o \in outages : IsOngoing(o, tick.net) /\ o.start = tick.ongoing
      BY <1>3, <2>2 DEF Settle, LedgerInv, OngoingKnown
    <3>2. o \in Open /\ o.net = tick.net /\ o.end = 0
      BY <3>1 DEF IsOngoing, Open
    <3>3. q \in outages \/ (/\ q.net = o.net /\ q.start = o.start
                            /\ q.end = tick.now.wall)
      BY <1>t, <1>1, <2>2, <3>1, <3>2
    <3> QED
      BY <1>3, <3>2, <3>3 DEF Settle
  <2>3. CASE outages' = outages
    BY <2>3
  <2> QED
    BY <1>3, <2>1, <2>2, <2>3 DEF Settle
<1>4. CASE outages' = outages
  BY <1>4
<1> QED
  BY <1>2, <1>3, <1>4 DEF Next, vars, Start, Exit, Elapse, Sleep, Move,
     TickBegin, Resolve, ResolveFails, Probe, NothingOngoing, StaysOngoing,
     LookupFails, Publish

\* A sample was there before the step, or the tick has just probed it.  Leaving
\* a tick before it has managed its outage takes a fault.
LEMMA StepSamples ==
    ASSUME TypeOK, [Next]_vars
    PROVE  /\ \A s \in samples' :
                 \/ s \in samples
                 \/ /\ s.ts = tick.now.wall /\ tick'.now = tick.now
                    /\ pc' \in {"probe", "manage"}
           /\ pc \in {"probe", "manage"} =>
                 \/ pc' \in {"probe", "manage"} /\ tick'.now = tick.now
                 \/ pc = "manage" /\ pc' = "settle"
                 \/ \E f \in faults' : f.at = tick.now.wall
<1>1. CASE Probe
  <2>1. tick'.now = tick.now /\ pc' \in {"probe", "manage"}
    BY <1>1 DEF Probe, TypeOK, Tick
  <2>2. \A s \in samples' : s \in samples \/ s.ts = tick.now.wall
    BY <1>1 DEF Probe
  <2> QED
    BY <2>1, <2>2
<1>2. CASE Exit
  <2>1. samples' = samples
    BY <1>2 DEF Exit
  <2>2. pc \in {"probe", "manage"} => \E f \in faults' : f.at = Stamp
    BY <1>2, FaultDated DEF Exit
  <2>3. pc \in {"probe", "manage"} => Stamp = tick.now.wall
    BY DEF Stamp, InTick, Steps
  <2> QED
    BY <2>1, <2>2, <2>3
<1>3. CASE LookupFails
  <2>1. samples' = samples
    BY <1>3 DEF LookupFails
  <2>2. \E f \in faults' : f.at = tick.now.wall
    BY <1>3, StoreFailureRecorded DEF LookupFails, InTick, Steps
  <2> QED
    BY <2>1, <2>2
<1>4. CASE Start \/ Elapse \/ Sleep \/ Move \/ TickBegin \/ Resolve \/ ResolveFails
           \/ Settle \/ Publish \/ UNCHANGED vars
  BY <1>4 DEF Start, Elapse, Sleep, Move, TickBegin, Resolve, ResolveFails,
              Settle, Publish, vars
<1>5. CASE NothingOngoing \/ StaysOngoing \/ GapCloses
  BY <1>5 DEF NothingOngoing, StaysOngoing, GapCloses, Managed
<1> QED
  BY <1>1, <1>2, <1>3, <1>4, <1>5 DEF Next

\* An open outage stays covered up to its samples.
LEMMA SamplesStayCovered ==
    ASSUME Known, TypeOK', Order', [Next]_vars PROVE SamplesCover'
<1> SUFFICES ASSUME NEW o \in Open', NEW s \in samples',
                    s.net = o.net, o.start <= s.ts,
                    ~(pc' \in {"probe", "manage"} /\ s.ts = tick'.now.wall),
                    ~IsFaulted(o.start, s.ts)'
             PROVE  Covered(o.net, o.start, s.ts)'
  BY DEF SamplesCover
<1>t. /\ TypeOK /\ Order /\ outages \subseteq OutageRow
      /\ o.start \in Nat /\ s.ts \in Nat /\ tick.now.wall \in Nat
      /\ o \in outages' /\ o.end = 0
      /\ pc \in Steps
  BY DEF Known, TypeOK, OutageRow, Sample, Tick, Time, Open
<1>1. \A f \in faults' : ~(o.start <= f.at /\ f.at <= s.ts)
  BY DEF IsFaulted
<1>2. ~IsFaulted(o.start, s.ts)
  BY <1>1, FaultsGrow DEF IsFaulted
<1>3. Covered(o.net, o.start, s.ts) => Covered(o.net, o.start, s.ts)'
  <2>1. Covered(o.net, o.start, s.ts) =>
           \A t \in o.start .. s.ts - 1 :
              \E r \in samples' : /\ r.net = o.net
                                  /\ o.start <= r.ts /\ r.ts <= t /\ t < r.ts + MaxGap
    BY <1>t, CoveredStays
  <2> QED
    BY <2>1 DEF Covered
<1>4. SUFFICES Covered(o.net, o.start, s.ts)
  BY <1>3
<1>5. s \in samples
  BY <1>t, StepSamples
<1>6. o \in Open \/ (o = NewOutage /\ Settle)
  BY <1>t, OpenRows
<1>7. CASE o = NewOutage /\ Settle
  <2>1. s.ts <= tick.now.wall
    BY <1>t, <1>5, <1>7 DEF Order, NothingAfter, Settle, InTick, Steps
  <2>2. o.start = tick.now.wall
    BY <1>7 DEF NewOutage
  <2>3. s.ts = o.start
    BY <1>t, <2>1, <2>2
  <2> QED
    BY <1>t, <2>3, CoversNothing
<1>8. CASE o \in Open /\ ~(pc \in {"probe", "manage"} /\ s.ts = tick.now.wall)
  BY <1>2, <1>5, <1>8 DEF Known, SamplesCover
<1>9. CASE o \in Open /\ pc \in {"probe", "manage"} /\ s.ts = tick.now.wall
  <2>1. ~(pc' \in {"probe", "manage"} /\ tick'.now = tick.now)
    BY <1>9
  <2>2. ~\E f \in faults' : f.at = tick.now.wall
    BY <1>t, <1>1, <1>9
  <2>3. pc = "manage" /\ pc' = "settle"
    BY <1>t, <1>9, <2>1, <2>2, StepSamples
  <2>4. o.net = tick.net
    BY <1>5, <1>9, <2>3 DEF Known, RecoveryInv, SuccessNoticed
  <2> QED
    BY <1>t, <1>1, <1>9, <2>3, <2>4, SurvivorIsCovered
<1> QED
  BY <1>6, <1>7, <1>8, <1>9

\* Every outage that closes in a step was covered up to its end.
LEMMA ClosesCovered ==
    ASSUME Known, CleanOutagesBillOnlyObservedTime, TypeOK', [Next]_vars
    PROVE  CleanOutagesBillOnlyObservedTime'
<1> SUFFICES ASSUME NEW q \in outages', q.end # 0,
                    ~Faulted(FaultKinds, q.start, q.end)'
             PROVE  Covered(q.net, q.start, q.end)'
  BY DEF CleanOutagesBillOnlyObservedTime
<1>t. TypeOK /\ Order /\ LedgerInv /\ tick.now.wall \in Nat
  BY DEF Known, TypeOK, Tick, Time
<1>1. ~Faulted(FaultKinds, q.start, q.end)
  BY FaultsGrow DEF Faulted
<1>2. ~IsFaulted(q.start, q.end)
  BY <1>t, <1>1, AnyKind
<1>3. Covered(q.net, q.start, q.end) => Covered(q.net, q.start, q.end)'
  <2>1. Covered(q.net, q.start, q.end) =>
           \A t \in q.start .. q.end - 1 :
              \E r \in samples' : /\ r.net = q.net
                                  /\ q.start <= r.ts /\ r.ts <= t /\ t < r.ts + MaxGap
    BY <1>t, CoveredStays
  <2> QED
    BY <2>1 DEF Covered
<1>4. SUFFICES Covered(q.net, q.start, q.end)
  BY <1>3
<1>5. CASE q \in outages
  BY <1>1, <1>5 DEF CleanOutagesBillOnlyObservedTime
<1>6. ASSUME NEW o \in Open, q.net = o.net, q.start = o.start, o.net = tick.net,
             pc = "manage",
             NEW seen \in LastObserved, q.end = Later(seen.at, o.start)
      PROVE  Covered(q.net, q.start, q.end)
  BY <1>2, <1>6, GapIsDatedRight
<1>7. ASSUME NEW o \in Open, q.net = o.net, q.start = o.start, o.net = tick.net,
             pc = "settle", q.end = tick.now.wall
      PROVE  Covered(q.net, q.start, q.end)
  <2>1. o.start \in Nat /\ o.start <= tick.now.wall
    BY <1>7 DEF Known, TypeOK, OutageRow, Open, Order
  <2>2. ~IsFaulted(tick.now.wall, tick.now.wall)
    BY <1>t, <1>2, <1>7, <2>1 DEF IsFaulted, TypeOK, FaultRecord
  <2>3. Sampled(tick.net, tick.now.wall)
    BY <1>7, <2>2 DEF Known, PlacesInv, TickSampled
  <2>4. PICK s \in samples : s.net = o.net /\ s.ts = tick.now.wall
    BY <1>7, <2>3 DEF Sampled
  <2> QED
    BY <1>2, <1>7, <2>1, <2>4 DEF Known, SamplesCover
<1> QED
  BY <1>t, <1>5, <1>6, <1>7, ClosedRows

\* The two parts of CoverInv hold together in every state.
THEOREM CoverCorrect == Spec => []CoverInv
<1>1. Init => CoverInv
  BY DEF Init, CoverInv, SamplesCover, CleanOutagesBillOnlyObservedTime, Open
<1>2. /\ TypeOK /\ TypeOK' /\ Order /\ Order' /\ LedgerInv /\ RecoveryInv
      /\ TimesInv /\ PlacesInv /\ CoverInv /\ [Next]_vars
      => CoverInv'
  BY SamplesStayCovered, ClosesCovered DEF CoverInv, Known
<1> QED
  BY <1>1, <1>2, TypeCorrect, OrderCorrect, LedgerCorrect, RecoveryCorrect,
     TimesCorrect, PlacesCorrect, PTL DEF Spec

\* manageOutage's contract as far as the code keeps it: an outage during which
\* no fault happened is billed only for time in which the daemon was watching,
\* over ticks, downtime and restarts, for every gap and every set of faults.
THEOREM CleanOutagesHolds == Spec => []CleanOutagesBillOnlyObservedTime
<1>1. CoverInv => CleanOutagesBillOnlyObservedTime
  BY DEF CoverInv
<1> QED
  BY <1>1, CoverCorrect, PTL

-----------------------------------------------------------------------------
(* The tick implements the ledger of outages: each step of OutageLog is a    *)
(* step of Ledger or a stutter.                                              *)

\* The store has refused a call.
Trouble == \E f \in faults : f.kind = "StoreError"

\* A call the store refuses is a refusal of the ledger.
LEMMA RefusalIsRefuse ==
    ASSUME StoreFails, UNCHANGED <<outages, clock>>
    PROVE  Ledger!Refuse
<1>1. [kind |-> "StoreError", at |-> Stamp] \in faults'
  BY DEF StoreFails, Fault
<1> QED
  BY <1>1 DEF Ledger!Refuse

\* A step that moves the clock alone, if anything the ledger sees, and keeps
\* the record of store failures, is time passing or a stutter.
LEMMA QuietStep ==
    ASSUME TypeOK, outages' = outages, Trouble' = Trouble,
           clock' = clock \/ clock'.wall = clock.wall + 1
    PROVE  [Ledger!Next]_(Ledger!vars)
<1>1. clock.wall \in Nat
  BY DEF TypeOK, Time
<1>2. CASE clock' = clock
  BY <1>2 DEF Ledger!vars, Trouble
<1>3. CASE clock'.wall = clock.wall + 1
  BY <1>1, <1>3 DEF Ledger!Next, Ledger!Pass, Trouble
<1> QED
  BY <1>2, <1>3

\* Closing the ongoing outage at a time that has come closes, in the ledger,
\* the newest outage of its network.
LEMMA CloseIsClose ==
    ASSUME TypeOK, UniqueRows, NoDoubleBilling,
           NEW o \in outages, IsOngoing(o, tick.net),
           o.start > 0, NEW end \in Nat, o.start <= end, end <= clock.wall,
           CloseOutage(o.net, o.start, end), UNCHANGED <<clock, faults>>
    PROVE  Ledger!Next
<1> DEFINE new == [o EXCEPT !.end = end]
<1>1. o \in OutageRow /\ o.net = tick.net /\ o.end = 0
  BY DEF TypeOK, IsOngoing
<1>2. new.net = o.net /\ new.start = o.start /\ new.end = end /\ end # 0
  BY <1>1 DEF OutageRow
<1>3. outages' = (outages \ {o}) \cup {new}
  BY DEF CloseOutage, UniqueRows
<1>4. new \notin outages
  BY <1>1, <1>2 DEF UniqueRows
<1>5. clock.wall \in Nat /\ o.start \in Nat
  BY <1>1 DEF TypeOK, Time, OutageRow
<1>6. Ledger!Close(o, new)
  <2> HIDE DEF new
  <2>1. new = [o EXCEPT !.end = new.end]
    BY <1>2 DEF new
  <2> QED
    BY <1>1, <1>2, <1>3, <1>5, <2>1 DEF Ledger!Close, IsOngoing
<1> HIDE DEF new
<1> QED
  BY <1>3, <1>4, <1>6 DEF Ledger!Next

\* An outage opened by a tick that found none of its network ongoing follows,
\* in the ledger, the closed outages of the network.
LEMMA OpenIsOpen ==
    ASSUME TypeOK, Order, LedgerInv, pc = "settle", tick.ongoing = 0,
           OpenOutage(tick.net, tick.now.wall), UNCHANGED <<clock, faults>>
    PROVE  Ledger!Next
<1> DEFINE new == [net |-> tick.net, start |-> tick.now.wall, end |-> 0]
<1>1. outages' = outages \cup {new}
  BY DEF OpenOutage
<1>2. /\ tick.now.wall \in Nat /\ clock.wall \in Nat
      /\ tick.now.wall > 0 /\ tick.now.wall <= clock.wall
      /\ tick.net \in Places
  BY DEF TypeOK, Tick, Time, Order, InTick, Steps
<1>3. \A r \in outages : r.start < tick.now.wall /\ r.end <= tick.now.wall
  BY DEF Order, NothingAfter, InTick, Steps
<1>4. \A r \in outages : r.net = tick.net /\ r.end = 0 => Trouble
  BY DEF LedgerInv, OngoingKnown, Faulted, Trouble
<1>5. new \notin outages
  BY <1>2, <1>3
<1>6. Ledger!Open(new)
  BY <1>1, <1>2, <1>3, <1>4 DEF Ledger!Open, Trouble
<1> HIDE DEF new
<1> QED
  BY <1>1, <1>5, <1>6 DEF Ledger!Next

-----------------------------------------------------------------------------
(* Every step *)

\* A gap that closes an outage closes it at an earlier observation, or at its
\* start where that is later.
LEMMA GapCloseIsClose ==
    ASSUME TypeOK, Order, LedgerInv, GapCloses
    PROVE  Ledger!Next
<1>t. /\ UniqueRows /\ NoDoubleBilling /\ pc = "manage" /\ pc \in InTick
      /\ clock' = clock /\ clock.wall \in Nat /\ tick.now.wall \in Nat
  BY DEF LedgerInv, GapCloses, Managed, InTick, Steps, TypeOK, Time, Tick
<1>1. PICK o \in outages, seen \in LastObserved :
         /\ IsOngoing(o, tick.net)
         /\ \/ /\ CloseOutage(o.net, o.start, Later(seen.at, o.start))
               /\ UNCHANGED faults
            \/ StoreFails /\ UNCHANGED outages
  BY DEF GapCloses
<1>2. o.start \in Nat /\ o.start > 0 /\ o.start < tick.now.wall
  BY <1>t DEF TypeOK, OutageRow, Order
<1>3. seen.at \in Nat /\ seen.at <= tick.now.wall /\ tick.now.wall <= clock.wall
  BY <1>t, SeenBeforeNow DEF Order
<1>4. /\ Later(seen.at, o.start) \in Nat
      /\ o.start <= Later(seen.at, o.start)
      /\ Later(seen.at, o.start) <= clock.wall
  BY <1>t, <1>2, <1>3 DEF Later
<1>5. CASE StoreFails /\ UNCHANGED outages
  BY <1>t, <1>5, RefusalIsRefuse DEF Ledger!Next
<1>6. CASE /\ CloseOutage(o.net, o.start, Later(seen.at, o.start))
           /\ UNCHANGED faults
  BY <1>t, <1>1, <1>2, <1>4, <1>6, CloseIsClose
<1> QED
  BY <1>1, <1>5, <1>6

\* Settling opens the outage of the tick, closes the ongoing one, or leaves
\* the outages alone.
LEMMA SettleIsAllowed ==
    ASSUME TypeOK, Order, LedgerInv, Settle
    PROVE  [Ledger!Next]_(Ledger!vars)
<1>t. /\ UniqueRows /\ NoDoubleBilling /\ OngoingKnown
      /\ pc = "settle" /\ pc \in InTick /\ clock' = clock
      /\ tick.now.wall \in Nat /\ tick.now.wall <= clock.wall
  BY DEF LedgerInv, Settle, InTick, Steps, TypeOK, Time, Tick, Order
<1>1. CASE StoreFails /\ UNCHANGED outages
  BY <1>t, <1>1, RefusalIsRefuse DEF Ledger!Next
<1>2. CASE UNCHANGED <<outages, faults>>
  BY <1>t, <1>2 DEF Ledger!vars
<1>3. CASE /\ tick.ongoing = 0 /\ OpenOutage(tick.net, tick.now.wall)
           /\ UNCHANGED faults
  BY <1>t, <1>3, OpenIsOpen
<1>4. CASE /\ tick.ongoing # 0
           /\ CloseOutage(tick.net, tick.ongoing, tick.now.wall)
           /\ UNCHANGED faults
  <2>1. PICK o \in outages : IsOngoing(o, tick.net) /\ o.start = tick.ongoing
    BY <1>t, <1>4 DEF OngoingKnown
  <2>2. o.net = tick.net /\ o.start > 0 /\ o.start <= tick.now.wall
    BY <1>t, <2>1 DEF Order, IsOngoing, TypeOK, OutageRow
  <2> QED
    BY <1>t, <1>4, <2>1, <2>2, CloseIsClose
<1> QED
  BY <1>1, <1>2, <1>3, <1>4 DEF Settle

\* A fault other than a refused call leaves the record of refusals alone.
LEMMA OtherFault ==
    ASSUME NEW kind, NEW at, kind # "StoreError", Fault(kind, at)
    PROVE  Trouble' = Trouble
BY DEF Fault, Trouble

\* The daemon implements the ledger: whatever happens to the machine, the
\* process and the store, the outages table changes only in the ways the
\* ledger allows (manageOutage, OpenOutage, CloseOutage).
THEOREM ImplementsLedgerHolds == Spec => ImplementsLedger
<1>1. Init => Ledger!Init
  BY DEF Init, Ledger!Init
<1>2. TypeOK /\ Order /\ LedgerInv /\ [Next]_vars
         => [Ledger!Next]_(Ledger!vars)
  <2> SUFFICES ASSUME TypeOK, Order, LedgerInv, [Next]_vars
               PROVE  [Ledger!Next]_(Ledger!vars)
    OBVIOUS
  <2>1. CASE \/ Start \/ TickBegin \/ Resolve \/ ResolveFails \/ Publish
             \/ Elapse \/ NothingOngoing \/ UNCHANGED vars
    <3>1. outages' = outages /\ faults' = faults
      BY <2>1 DEF Start, TickBegin, Resolve, ResolveFails, Publish, Elapse,
                  NothingOngoing, vars
    <3>2. clock' = clock \/ clock'.wall = clock.wall + 1
      <4>1. CASE TickBegin \/ Elapse
        BY <4>1 DEF TickBegin, Elapse
      <4>2. CASE NothingOngoing \/ UNCHANGED vars
        BY <4>2 DEF NothingOngoing, Managed, vars
      <4>3. CASE Start \/ Resolve \/ ResolveFails \/ Publish
        BY <4>3 DEF Start, Resolve, ResolveFails, Publish
      <4> QED
        BY <2>1, <4>1, <4>2, <4>3
    <3>3. Trouble' = Trouble
      BY <3>1, Zenon DEF Trouble
    <3> QED
      BY <3>1, <3>2, <3>3, QuietStep
  <2>2. CASE Exit \/ Sleep \/ Move
    <3>1. Trouble' = Trouble
      BY <2>2, OtherFault DEF Exit, Sleep, Move, Trouble
    <3>2. outages' = outages
      BY <2>2 DEF Exit, Sleep, Move
    <3>3. clock' = clock \/ clock'.wall = clock.wall + 1
      BY <2>2 DEF Exit, Sleep, Move, TypeOK, Time
    <3> QED
      BY <3>1, <3>2, <3>3, QuietStep
  <2>3. CASE Probe \/ StaysOngoing \/ LookupFails
    <3>1. UNCHANGED <<outages, clock>>
      BY <2>3 DEF Probe, StaysOngoing, LookupFails, Managed
    <3>2. CASE StoreFails
      BY <3>1, <3>2, RefusalIsRefuse DEF Ledger!Next
    <3>3. CASE faults' = faults
      BY <3>1, <3>3, QuietStep DEF Trouble
    <3> QED
      BY <2>3, <3>2, <3>3 DEF Probe, StaysOngoing, LookupFails
  <2>4. CASE GapCloses
    BY <2>4, GapCloseIsClose
  <2>5. CASE Settle
    BY <2>5, SettleIsAllowed
  <2> QED
    BY <2>1, <2>2, <2>3, <2>4, <2>5 DEF Next
<1> QED
  BY <1>1, <1>2, TypeCorrect, OrderCorrect, LedgerCorrect, PTL
     DEF Spec, ImplementsLedger, Ledger!Spec
=============================================================================
