--------------------------- MODULE SpeedTestProofs --------------------------
(***************************************************************************)
(* Theorems about SpeedTest, for every number of dashboard requests and    *)
(* every duration, cost, budget and number of restarts.                    *)
(***************************************************************************)
EXTENDS SpeedTest, FiniteSetTheorems, TLAPS

-----------------------------------------------------------------------------
(* Type correctness *)

\* A row names its tester, its time and its link.
LEMMA NewRowType ==
    ASSUME TypeOK, NEW t \in Testers, IsFiniteSet(throughput)
    PROVE  NewRow(t) \in Row
<1>1. Cardinality(throughput) \in Nat
  BY FS_CardinalityType
<1> QED
  BY <1>1 DEF TypeOK, NewRow, Row, Locals

\* A tester that goes on is at a place of the code.
LEMMA GoesType ==
    ASSUME TypeOK, NEW t \in Testers, NEW place \in Places, Goes(t, place)
    PROVE  pc' \in [Testers -> Places]
BY DEF TypeOK, Goes

\* The same for a tester that ends.
LEMMA EndsType ==
    ASSUME TypeOK, NEW t \in Testers, Ends(t)
    PROVE  pc' \in [Testers -> Places] /\ locals' \in [Testers -> Locals]
<1>1. NoLocals \in Locals
  BY DEF NoLocals, Locals
<1>2. pc' \in [Testers -> Places]
  <2>1. CASE t = Loop
    BY <2>1 DEF Ends, Goes, TypeOK, Places
  <2>2. CASE t # Loop
    BY <2>2 DEF Ends, Goes, TypeOK, Places
  <2> QED
    BY <2>1, <2>2
<1> QED
  BY <1>1, <1>2 DEF Ends, TypeOK

\* The throughput table is finite: a fact TypeOK needs for the numbers of rows.
TypeInv == TypeOK /\ IsFiniteSet(throughput)

\* Every value of the scheduler has its type, and its table is finite.
THEOREM TypeInvCorrect == Spec => []TypeInv
<1>1. Init => TypeInv
  <2>1. IsFiniteSet({})
    BY FS_EmptySet
  <2>2. NoLocals \in Locals /\ NoStatus \in Status /\ "idle" \in Places
    BY DEF NoLocals, Locals, NoStatus, Status, Places
  <2>3. ASSUME Init PROVE pc \in [Testers -> Places] /\ locals \in [Testers -> Locals]
    BY <2>2, <2>3 DEF Init
  <2>4. ASSUME Init PROVE throughput \subseteq Row /\ IsFiniteSet(throughput)
    BY <2>1, <2>4 DEF Init
  <2>5. ASSUME Init PROVE /\ metered \in BOOLEAN /\ status \in Status
                           /\ probing \in BOOLEAN /\ measuring \in BOOLEAN
    BY <2>2, <2>5, Zenon DEF Init
  <2>6. ASSUME Init PROVE /\ {now, lastTick, lastTPRun, life} \subseteq Nat
                           /\ tpRun = Nobody
    BY <2>6 DEF Init
  <2> QED
    BY <2>3, <2>4, <2>5, <2>6 DEF TypeInv, TypeOK
<1>2. TypeInv /\ [Next]_vars => TypeInv'
  <2> SUFFICES ASSUME TypeInv, [Next]_vars PROVE TypeInv'
    OBVIOUS
  <2> USE DEF TypeInv
  <2>1. CASE TickBegin
    BY <2>1 DEF TickBegin, TypeOK
  <2>2. CASE TickEnd
    BY <2>2 DEF TickEnd, TypeOK, Status
  <2>3. ASSUME NEW t \in InDaemon, Ask(t) PROVE TypeInv'
    BY <2>3 DEF Ask, Goes, daemonVars, TypeOK, Places, Locals, Status, Testers, InDaemon
  <2>4. ASSUME NEW t \in InDaemon, Lock(t) PROVE TypeInv'
    <3>1. t \in Testers
      BY DEF InDaemon, Testers
    <3>2. CASE Ends(t)
      BY <2>4, <3>1, <3>2, EndsType DEF Lock, TryLock, TypeOK
    <3>3. CASE ~Ends(t)
      <4>1. pc' = [pc EXCEPT ![t] = IF t = Loop THEN "gate" ELSE "budget"]
        BY <2>4, <3>3 DEF Lock, Goes
      <4>2. pc' \in [Testers -> Places]
        <5>1. CASE t = Loop
          BY <3>1, <4>1, <5>1 DEF TypeOK, Places
        <5>2. CASE t # Loop
          BY <3>1, <4>1, <5>2 DEF TypeOK, Places
        <5> QED
          BY <5>1, <5>2
      <4> QED
        BY <2>4, <3>3, <4>2 DEF Lock, TryLock, TypeOK
    <3> QED
      BY <3>2, <3>3
  <2>5. ASSUME NEW t \in InDaemon, Begin(t) PROVE TypeInv'
    <3>1. t \in Testers
      BY DEF InDaemon, Testers
    <3>2. CASE Ends(t)
      BY <2>5, <3>1, <3>2, EndsType DEF Begin, TypeOK
    <3>3. CASE ~Ends(t)
      <4>1. pc' \in [Testers -> Places]
        BY <2>5, <3>1, <3>3 DEF Begin, Goes, TypeOK, Places
      <4>2. locals' \in [Testers -> Locals]
        BY <2>5, <3>1, <3>3 DEF Begin, TypeOK, Locals
      <4> QED
        BY <2>5, <3>3, <4>1, <4>2 DEF Begin, TypeOK
    <3> QED
      BY <3>2, <3>3
  <2>6. ASSUME NEW t \in InDaemon, MeasureReturns(t) PROVE TypeInv'
    <3>1. t \in Testers
      BY DEF InDaemon, Testers
    <3>2. pc' \in [Testers -> Places] /\ locals' \in [Testers -> Locals]
      BY <2>6, <3>1, GoesType, EndsType DEF MeasureReturns, TypeOK, Places
    <3> QED
      BY <2>6, <3>2 DEF MeasureReturns, Measured, TypeOK
  <2>7. ASSUME NEW t \in InDaemon, Record(t) PROVE TypeInv'
    <3>1. NewRow(t) \in Row
      BY NewRowType, SpeedTestAssumption DEF InDaemon, Testers
    <3>2. IsFiniteSet(throughput')
      BY <2>7, FS_AddElement DEF Record
    <3>3. pc' \in [Testers -> Places] /\ locals' \in [Testers -> Locals]
      BY <2>7, EndsType DEF Record, InDaemon, Testers
    <3> QED
      BY <2>7, <3>1, <3>2, <3>3 DEF Record, Recorded, TypeOK
  <2>8. CASE Gate
    <3>1. pc' \in [Testers -> Places] /\ locals' \in [Testers -> Locals]
      BY <2>8, GoesType, EndsType DEF Gate, TypeOK, Testers, Places
    <3> QED
      BY <2>8, <3>1 DEF Gate, TypeOK
  <2>9. CASE CLIBegin
    BY <2>9 DEF CLIBegin, Goes, daemonVars, TypeOK, Places, Locals
  <2>10. CASE CLIEnd
    <3>1. NewRow(CLI) \in Row
      BY NewRowType DEF Testers
    <3>2. IsFiniteSet(throughput')
      BY <2>10, FS_AddElement DEF CLIEnd
    <3>3. pc' \in [Testers -> Places] /\ locals' \in [Testers -> Locals]
      BY <2>10, EndsType DEF CLIEnd, Testers
    <3> QED
      BY <2>10, <3>1, <3>2, <3>3 DEF CLIEnd, daemonVars, TypeOK
  <2>11. CASE Elapse
    BY <2>11 DEF Elapse, daemonVars, TypeOK
  <2>12. CASE LinkChanges
    BY <2>12 DEF LinkChanges, daemonVars, TypeOK
  <2>13. CASE Restart
    <3>1. pc' \in [Testers -> Places]
      BY <2>13 DEF Restart, TypeOK, Places
    <3>2. locals' \in [Testers -> Locals]
      BY <2>13 DEF Restart, TypeOK, Locals, NoLocals
    <3>3. status' \in Status
      BY <2>13 DEF Restart, Status, NoStatus
    <3>4. metered' \in BOOLEAN /\ probing' \in BOOLEAN /\ measuring' \in BOOLEAN
      BY <2>13, Zenon DEF Restart, TypeOK
    <3>5. {now, lastTick, lastTPRun, life}' \subseteq Nat /\ tpRun' = Nobody
      BY <2>13 DEF Restart, TypeOK
    <3>6. throughput' = throughput
      BY <2>13 DEF Restart
    <3> QED
      BY <3>1, <3>2, <3>3, <3>4, <3>5, <3>6 DEF TypeOK
  <2>14. CASE UNCHANGED vars
    BY <2>14 DEF vars, TypeOK
  <2> QED
    BY <2>1, <2>2, <2>3, <2>4, <2>5, <2>6, <2>7, <2>8, <2>9, <2>10, <2>11, <2>12,
       <2>13, <2>14 DEF Next
<1> QED
  BY <1>1, <1>2, PTL DEF Spec

\* Every value of the scheduler has the type the code gives it.
THEOREM TypeCorrect == Spec => []TypeOK
<1>1. TypeInv => TypeOK
  BY DEF TypeInv
<1> QED
  BY <1>1, TypeInvCorrect, PTL

-----------------------------------------------------------------------------
(* The lock and the flag *)

Held == {"gate", "budget", "measure", "record"}

\* Who is past the lock holds it, and the flag is set while the holder transfers.
LockInv ==
    /\ \A t \in InDaemon : pc[t] \in Held => tpRun = t
    /\ MeasuringMeansTesting

\* The names of the testers tell them apart.
LEMMA TestersDiffer ==
    /\ \A t \in InDaemon : t \in Testers /\ t # CLI /\ t # Nobody
    /\ Loop \in InDaemon /\ CLI \in Testers
BY SpeedTestAssumption DEF InDaemon, Testers

\* The lock and the flag survive a step that moves one tester of the daemon if it
\* takes the lock when it is free, gives up only its own, and sets and clears the
\* flag as it begins and ends its transfer.
LEMMA OneMoves ==
    ASSUME TypeOK, LockInv, NEW t \in InDaemon, NEW place, Goes(t, place),
           \/ place \in Held /\ tpRun' = t /\ tpRun \in {t, Nobody}
           \/ place \notin Held /\ pc[t] \notin Held /\ tpRun' = tpRun
           \/ place \notin Held /\ tpRun = t /\ tpRun' = Nobody,
           "measure" \in {pc[t], place} => (measuring' <=> place = "measure"),
           "measure" \notin {pc[t], place} => measuring' = measuring
    PROVE  LockInv'
<1>1. pc' = [pc EXCEPT ![t] = place] /\ t \in DOMAIN pc
  BY TestersDiffer DEF TypeOK, Goes
<1>2. pc'[t] = place /\ \A u \in InDaemon : u # t => pc'[u] = pc[u]
  BY <1>1, TestersDiffer DEF TypeOK
<1>3. \A u \in InDaemon : pc'[u] \in Held => tpRun' = u
  BY <1>2, TestersDiffer DEF LockInv
<1>4. MeasuringMeansTesting'
  BY <1>2, TestersDiffer DEF LockInv, MeasuringMeansTesting, Held
<1> QED
  BY <1>3, <1>4 DEF LockInv

\* A step that moves no tester of the daemon keeps them.
LEMMA NoneMoves ==
    ASSUME LockInv, \A u \in InDaemon : pc'[u] = pc[u],
           UNCHANGED <<tpRun, measuring>>
    PROVE  LockInv'
BY DEF LockInv, MeasuringMeansTesting

\* The lock and the flag are right in every state: no early return of
\* measureThroughput keeps either, and no restart.
THEOREM LockCorrect == Spec => []LockInv
<1>1. Init => LockInv
  BY DEF Init, LockInv, MeasuringMeansTesting, Held, InDaemon, Testers
<1>2. TypeOK /\ LockInv /\ [Next]_vars => LockInv'
  <2> SUFFICES ASSUME TypeOK, LockInv, [Next]_vars PROVE LockInv'
    OBVIOUS
  <2>1. ASSUME NEW t \in InDaemon, Ask(t) PROVE LockInv'
    BY <2>1, OneMoves DEF Ask, daemonVars, Held
  <2>2. ASSUME NEW t \in InDaemon, Lock(t) PROVE LockInv'
    <3>1. CASE TryLock(t) /\ t = Loop
      BY <2>2, <3>1, OneMoves DEF Lock, TryLock, Held, Ends
    <3>2. CASE TryLock(t) /\ t # Loop
      BY <2>2, <3>2, OneMoves DEF Lock, TryLock, Held, Ends
    <3>3. CASE tpRun # Nobody /\ Ends(t) /\ UNCHANGED tpRun
      BY <2>2, <3>3, OneMoves DEF Lock, Held, Ends
    <3> QED
      BY <2>2, <3>1, <3>2, <3>3 DEF Lock
  <2>3. ASSUME NEW t \in InDaemon, Begin(t) PROVE LockInv'
    <3>1. tpRun = t /\ pc[t] = "budget"
      BY <2>3 DEF Begin, LockInv, Held
    <3>2. CASE Goes(t, "measure") /\ measuring' = TRUE /\ tpRun' = tpRun
      BY <2>3, <3>1, <3>2, OneMoves DEF Held
    <3>3. CASE Ends(t) /\ tpRun' = Nobody /\ measuring' = measuring
      BY <2>3, <3>1, <3>3, OneMoves DEF Ends, Held
    <3> QED
      BY <2>3, <3>2, <3>3 DEF Begin
  <2>4. ASSUME NEW t \in InDaemon, MeasureReturns(t) PROVE LockInv'
    <3>1. tpRun = t /\ pc[t] = "measure" /\ measuring' = FALSE
      BY <2>4 DEF MeasureReturns, Measured, LockInv, Held
    <3>2. CASE Goes(t, "record") /\ tpRun' = tpRun
      BY <3>1, <3>2, OneMoves DEF Held
    <3>3. CASE Ends(t) /\ tpRun' = Nobody
      BY <3>1, <3>3, OneMoves DEF Ends, Held
    <3> QED
      BY <2>4, <3>2, <3>3 DEF MeasureReturns
  <2>5. ASSUME NEW t \in InDaemon, Record(t) PROVE LockInv'
    <3>1. tpRun = t
      BY <2>5 DEF Record, LockInv, Held
    <3> QED
      BY <2>5, <3>1, OneMoves DEF Record, Ends, Held
  <2>6. CASE Gate
    <3>1. tpRun = Loop /\ Loop \in InDaemon
      BY <2>6, TestersDiffer DEF Gate, LockInv, Held
    <3> QED
      BY <2>6, <3>1, OneMoves DEF Gate, Ends, Held
  <2>7. CASE CLIBegin \/ CLIEnd
    BY <2>7, NoneMoves, TestersDiffer DEF CLIBegin, CLIEnd, Goes, Ends, daemonVars, TypeOK
  <2>8. CASE Restart
    BY <2>8, TestersDiffer
       DEF Restart, LockInv, MeasuringMeansTesting, Held, InDaemon
  <2>9. CASE TickBegin \/ TickEnd \/ Elapse \/ LinkChanges \/ UNCHANGED vars
    BY <2>9, NoneMoves DEF TickBegin, TickEnd, Elapse, LinkChanges, daemonVars, vars
  <2> QED
    BY <2>1, <2>2, <2>3, <2>4, <2>5, <2>6, <2>7, <2>8, <2>9 DEF Next
<1> QED
  BY <1>1, <1>2, TypeCorrect, PTL DEF Spec

\* daemon.go: tpRun lets one test of the daemon run at a time.
THEOREM OneTestAtATimeHolds == Spec => []OneTestAtATime
<1>1. LockInv => OneTestAtATime
  BY DEF LockInv, OneTestAtATime, Held
<1> QED
  BY <1>1, LockCorrect, PTL

\* The flag that stops the ticks is set exactly while a test transfers: whatever
\* fails, the daemon is never left blind.
THEOREM MeasuringMeansTestingHolds == Spec => []MeasuringMeansTesting
<1>1. LockInv => MeasuringMeansTesting
  BY DEF LockInv
<1> QED
  BY <1>1, LockCorrect, PTL

-----------------------------------------------------------------------------
(* The minimum gap *)

\* Rows are numbered in the order they are stored, at times and in processes that
\* have been.
RowsInOrder ==
    \A r \in throughput : /\ 1 <= r.ts /\ r.ts <= now
                          /\ r.nth <= Cardinality(throughput)
                          /\ r.life <= life

\* The automatic tests of the running process.
IsMine(r) == r.by = Loop /\ r.life = life

\* lastTPRun knows of them all, and the test in progress is MinGap after them.
GapInv ==
    /\ 1 <= now
    /\ RowsInOrder
    /\ \A r \in throughput : IsMine(r) => r.ts <= lastTPRun
    /\ \A r \in throughput : pc[Loop] # "idle" /\ IsMine(r) => now - r.ts >= MinGap
    /\ AutomaticTestsAreSpaced

\* The table after a row was added.
LEMMA AddedRow ==
    ASSUME TypeInv, RowsInOrder, NEW t \in Testers,
           throughput' = throughput \cup {NewRow(t)}
    PROVE  /\ NewRow(t) \in Row
           /\ Cardinality(throughput) \in Nat
           /\ Cardinality(throughput') = Cardinality(throughput) + 1
           /\ NewRow(t).nth = Cardinality(throughput) + 1
           /\ NewRow(t).ts = now /\ NewRow(t).by = t
           /\ NewRow(t).life = life
<1>1. NewRow(t) \in Row /\ Cardinality(throughput) \in Nat
  BY NewRowType, FS_CardinalityType DEF TypeInv
<1>2. /\ NewRow(t).nth = Cardinality(throughput) + 1
      /\ NewRow(t).ts = now /\ NewRow(t).by = t
      /\ NewRow(t).life = life
  BY DEF NewRow
<1>3. NewRow(t) \notin throughput
  <2> SUFFICES ASSUME NewRow(t) \in throughput PROVE FALSE
    OBVIOUS
  <2>1. NewRow(t).nth <= Cardinality(throughput)
    BY DEF RowsInOrder
  <2> QED
    BY <1>1, <1>2, <2>1
<1>4. Cardinality(throughput \cup {NewRow(t)}) = Cardinality(throughput) + 1
  BY <1>3, FS_AddElement DEF TypeInv
<1> QED
  BY <1>1, <1>2, <1>4

\* A row added leaves the rows in order, and the automatic tests spaced if it is
\* no automatic one, or one that was due.
LEMMA AddedRowKeepsGap ==
    ASSUME TypeInv, GapInv, NEW t \in Testers,
           throughput' = throughput \cup {NewRow(t)},
           now' = now, life' = life,
           t = Loop => pc[Loop] # "idle"
    PROVE  RowsInOrder' /\ AutomaticTestsAreSpaced'
<1> DEFINE new == NewRow(t)
<1>1. /\ new \in Row /\ new.ts = now /\ new.by = t /\ new.life = life
      /\ Cardinality(throughput) \in Nat
      /\ Cardinality(throughput') = Cardinality(throughput) + 1
      /\ new.nth = Cardinality(throughput) + 1
  BY AddedRow DEF GapInv
<1> HIDE DEF new
<1>2. throughput' = throughput \cup {new}
  BY DEF new
<1>3. now \in Nat /\ life \in Nat /\ \A r \in throughput : r \in Row
  BY DEF TypeInv, TypeOK
<1>4. RowsInOrder'
  <2> SUFFICES ASSUME NEW r \in throughput'
               PROVE  /\ 1 <= r.ts /\ r.ts <= now /\ r.life <= life
                      /\ r.nth <= Cardinality(throughput) + 1
    BY <1>1 DEF RowsInOrder
  <2>1. CASE r = new
    BY <1>1, <1>3, <2>1 DEF GapInv
  <2>2. CASE r \in throughput
    BY <1>1, <1>3, <2>2 DEF GapInv, RowsInOrder, Row
  <2> QED
    BY <1>2, <2>1, <2>2
<1>5. AutomaticTestsAreSpaced'
  <2> SUFFICES ASSUME NEW r1 \in throughput', NEW r2 \in throughput',
                      r1.by = Loop, r2.by = Loop, r1.life = r2.life, r1.nth < r2.nth
               PROVE  r2.ts - r1.ts >= MinGap
    BY DEF AutomaticTestsAreSpaced
  <2>1. CASE r1 \in throughput /\ r2 \in throughput
    BY <2>1 DEF GapInv, AutomaticTestsAreSpaced
  <2>2. CASE r1 \in throughput /\ r2 = new
    BY <1>1, <2>2 DEF GapInv, IsMine
  <2>3. CASE r1 = new
    <3>1. r2.nth <= Cardinality(throughput) + 1
      BY <1>1, <1>2, <1>3 DEF GapInv, RowsInOrder, Row
    <3>2. r2.nth \in Nat
      BY <1>1, <1>2, <1>3 DEF Row
    <3> QED
      BY <1>1, <2>3, <3>1, <3>2
  <2> QED
    BY <1>2, <2>1, <2>2, <2>3
<1> QED
  BY <1>4, <1>5

\* A step that stores nothing keeps the gap, if it starts no automatic test.
LEMMA NothingStored ==
    ASSUME TypeInv, GapInv, UNCHANGED <<throughput, life, lastTPRun>>,
           now' \in Nat, now <= now',
           pc'[Loop] # "idle" => pc[Loop] # "idle"
    PROVE  GapInv'
<1>1. now \in Nat /\ lastTPRun \in Nat /\ life \in Nat /\ MinGap \in Nat
  BY SpeedTestAssumption DEF TypeInv, TypeOK
<1>2. \A r \in throughput : r.ts \in Nat
  BY DEF TypeInv, TypeOK, Row
<1>3. RowsInOrder' /\ AutomaticTestsAreSpaced'
  BY <1>1, <1>2 DEF GapInv, RowsInOrder, AutomaticTestsAreSpaced
<1>4. \A r \in throughput : pc'[Loop] # "idle" /\ IsMine(r) => now' - r.ts >= MinGap
  BY <1>1, <1>2 DEF GapInv
<1> QED
  BY <1>1, <1>3, <1>4 DEF GapInv, IsMine

\* The running process never runs two automatic tests too close to each other.
THEOREM GapCorrect == Spec => []GapInv
<1>1. Init => GapInv
  BY DEF Init, GapInv, RowsInOrder, AutomaticTestsAreSpaced
<1>2. TypeInv /\ GapInv /\ [Next]_vars => GapInv'
  <2> SUFFICES ASSUME TypeInv, GapInv, [Next]_vars PROVE GapInv'
    OBVIOUS
  <2>1. /\ now \in Nat /\ lastTPRun \in Nat /\ life \in Nat /\ MinGap \in Nat
        /\ Cost \in Nat /\ pc \in [Testers -> Places]
        /\ \A r \in throughput : r.ts \in Nat /\ r.life \in Nat
    BY SpeedTestAssumption DEF TypeInv, TypeOK, Row
  <2>2. ASSUME NEW t \in InDaemon, Ask(t) PROVE GapInv'
    <3>1. CASE t # Loop
      <4>1. pc'[Loop] = pc[Loop]
        BY <2>1, <2>2, <3>1, TestersDiffer DEF Ask, Goes
      <4> QED
        BY <2>1, <2>2, <4>1, NothingStored DEF Ask, daemonVars
    <3>2. CASE t = Loop
      <4>1. Due /\ UNCHANGED <<now, throughput, life, lastTPRun>>
        BY <2>2, <3>2 DEF Ask, daemonVars
      <4>2. \A r \in throughput : IsMine(r) => now - r.ts >= MinGap
        BY <2>1, <4>1 DEF GapInv, RowsInOrder, Due
      <4> QED
        BY <4>1, <4>2 DEF GapInv, RowsInOrder, AutomaticTestsAreSpaced, IsMine
    <3> QED
      BY <3>1, <3>2
  <2>3. ASSUME NEW t \in InDaemon, Lock(t) \/ Begin(t) \/ MeasureReturns(t) PROVE GapInv'
    <3>1. UNCHANGED <<now, throughput, life, lastTPRun>>
      BY <2>3 DEF Lock, Begin, MeasureReturns
    <3>2. pc[t] # "idle" /\ \A u \in Testers : u # t => pc'[u] = pc[u]
      BY <2>1, <2>3 DEF Lock, Begin, MeasureReturns, Goes, Ends
    <3>3. pc'[Loop] # "idle" => pc[Loop] # "idle"
      BY <3>2, TestersDiffer
    <3> QED
      BY <2>1, <3>1, <3>3, NothingStored
  <2>4. ASSUME NEW t \in InDaemon, Record(t) PROVE GapInv'
    <3>1. UNCHANGED <<now, life>> /\ t \in Testers /\ pc[t] = "record"
      BY <2>4, TestersDiffer DEF Record
    <3>2. \A u \in Testers : u # t => pc'[u] = pc[u]
      BY <2>1, <2>4 DEF Record, Goes, Ends
    <3>3. t = Loop => pc'[Loop] = "idle"
      BY <2>1, <2>4, <3>1 DEF Record, Goes, Ends
    <3>4. CASE UNCHANGED <<throughput, lastTPRun>>
      <4>1. pc'[Loop] # "idle" => pc[Loop] # "idle"
        BY <3>2, <3>3, TestersDiffer
      <4> QED
        BY <2>1, <3>1, <3>4, <4>1, NothingStored
    <3>5. CASE throughput' = throughput \cup {NewRow(t)} /\ lastTPRun' = Recorded
      <4>1. RowsInOrder' /\ AutomaticTestsAreSpaced'
        BY <2>1, <3>1, <3>5, AddedRowKeepsGap
      <4>2. NewRow(t).ts = now /\ NewRow(t).by = t
        BY DEF NewRow
      <4>3. \A r \in throughput' : r.ts <= lastTPRun'
        BY <2>1, <3>5, <4>2 DEF GapInv, RowsInOrder, Recorded
      <4>4. \A r \in throughput' :
               pc'[Loop] # "idle" /\ IsMine(r)' => now' - r.ts >= MinGap
        BY <3>1, <3>2, <3>3, <3>5, <4>2, TestersDiffer DEF GapInv, IsMine
      <4> QED
        BY <2>1, <3>1, <4>1, <4>3, <4>4 DEF GapInv
    <3> QED
      BY <2>4, <3>4, <3>5 DEF Record
  <2>5. CASE Gate
    <3>1. UNCHANGED <<now, throughput, life, lastTPRun>> /\ pc[Loop] # "idle"
      BY <2>5 DEF Gate
    <3> QED
      BY <2>1, <3>1, NothingStored
  <2>6. CASE CLIBegin
    <3>1. pc'[Loop] = pc[Loop]
      BY <2>1, <2>6, TestersDiffer DEF CLIBegin, Goes
    <3> QED
      BY <2>1, <2>6, <3>1, NothingStored DEF CLIBegin, daemonVars
  <2>7. CASE CLIEnd
    <3>1. pc'[Loop] = pc[Loop] /\ UNCHANGED <<now, life, lastTPRun>>
      BY <2>1, <2>7, SpeedTestAssumption, TestersDiffer DEF CLIEnd, Goes, Ends, daemonVars
    <3>2. CASE UNCHANGED throughput
      BY <2>1, <3>1, <3>2, NothingStored
    <3>3. CASE throughput' = throughput \cup {NewRow(CLI)}
      <4>1. RowsInOrder' /\ AutomaticTestsAreSpaced'
        BY <3>1, <3>3, AddedRowKeepsGap, SpeedTestAssumption, TestersDiffer
      <4>2. NewRow(CLI).by # Loop
        BY SpeedTestAssumption DEF NewRow
      <4> QED
        BY <2>1, <3>1, <3>3, <4>1, <4>2 DEF GapInv, IsMine
    <3> QED
      BY <2>7, <3>2, <3>3 DEF CLIEnd
  <2>8. CASE Restart
    <3>1. pc'[Loop] = "idle"
      BY <2>8, SpeedTestAssumption, TestersDiffer DEF Restart, InDaemon
    <3>2. UNCHANGED <<now, throughput>> /\ life' = life + 1
      BY <2>8 DEF Restart
    <3>3. RowsInOrder' /\ AutomaticTestsAreSpaced'
      BY <2>1, <3>2 DEF GapInv, RowsInOrder, AutomaticTestsAreSpaced
    <3>4. \A r \in throughput : ~IsMine(r)'
      BY <2>1, <3>2 DEF GapInv, RowsInOrder, IsMine
    <3> QED
      BY <3>1, <3>2, <3>3, <3>4 DEF GapInv
  <2>9. CASE TickBegin \/ TickEnd \/ Elapse \/ LinkChanges \/ UNCHANGED vars
    <3>1. now' \in Nat /\ now <= now' /\ UNCHANGED <<throughput, life, lastTPRun, pc>>
      BY <2>1, <2>9 DEF TickBegin, TickEnd, Elapse, LinkChanges, daemonVars, vars
    <3> QED
      BY <3>1, NothingStored
  <2> QED
    BY <2>2, <2>3, <2>4, <2>5, <2>6, <2>7, <2>8, <2>9 DEF Next
<1> QED
  BY <1>1, <1>2, TypeInvCorrect, PTL DEF Spec

\* config.go: throughput_min_gap, however forced tests and the CLI's fall between
\* the automatic ones and however often storing fails.
THEOREM SpacingHolds == Spec => []AutomaticTestsAreSpaced
<1>1. GapInv => AutomaticTestsAreSpaced
  BY DEF GapInv
<1> QED
  BY <1>1, GapCorrect, PTL
-----------------------------------------------------------------------------
(* The budget *)

\* The automatic test that transfers on a metered link, or has just done so,
\* still fits: nobody else of the daemon could store a row meanwhile.
RunningFits ==
    pc[Loop] \in {"measure", "record"} /\ locals[Loop].metered => WithinMeteredBudget

BudgetInv == RunningFits /\ MeteredBudgetHolds

\* More of the same costs no less.
LEMMA CostGrows ==
    ASSUME NEW a \in Nat, NEW b \in Nat, a <= b
    PROVE  /\ Cost * a \in Nat /\ Cost * a <= Cost * b
           /\ Cost * (a + 1) = Cost * a + Cost
BY SpeedTestAssumption

\* Fewer rows sum to no more.
LEMMA BytesShrink ==
    ASSUME NEW rows, IsFiniteSet(rows), NEW part \in SUBSET rows
    PROVE  /\ Bytes(part) \in Nat /\ Bytes(rows) \in Nat
           /\ Bytes(part) <= Bytes(rows)
<1> DEFINE few == {r \in part : r.by # CLI}
           all == {r \in rows : r.by # CLI}
<1>1. IsFiniteSet(all) /\ few \in SUBSET all
  BY FS_Subset
<1>2. IsFiniteSet(few) /\ Cardinality(few) <= Cardinality(all)
  BY <1>1, FS_Subset
<1>3. Cardinality(few) \in Nat /\ Cardinality(all) \in Nat
  BY <1>1, <1>2, FS_CardinalityType
<1> QED
  BY <1>2, <1>3, CostGrows DEF Bytes

\* A row of the daemon adds the cost of a test, one of the CLI nothing.
LEMMA BytesGrow ==
    ASSUME NEW rows, IsFiniteSet(rows), NEW r, r \notin rows
    PROVE  Bytes(rows \cup {r}) = Bytes(rows) + (IF r.by = CLI THEN 0 ELSE Cost)
<1> DEFINE old == {q \in rows : q.by # CLI}
           new == {q \in rows \cup {r} : q.by # CLI}
<1>1. IsFiniteSet(old) /\ Cardinality(old) \in Nat
  BY FS_Subset, FS_CardinalityType
<1>2. CASE r.by = CLI
  <2>1. new = old
    BY <1>2
  <2>2. Bytes(rows \cup {r}) = Bytes(rows)
    BY <2>1 DEF Bytes
  <2>3. Bytes(rows) \in Nat
    BY <1>1, CostGrows DEF Bytes
  <2> QED
    BY <1>2, <2>2, <2>3
<1>3. CASE r.by # CLI
  <2>1. new = old \cup {r} /\ r \notin old
    BY <1>3
  <2>2. Cardinality(new) = Cardinality(old) + 1
    BY <1>1, <2>1, FS_AddElement
  <2> QED
    BY <1>1, <1>3, <2>2, CostGrows DEF Bytes
<1> QED
  BY <1>2, <1>3

\* A step that stores nothing keeps the budget, if it begins no metered test.
LEMMA NothingSpent ==
    ASSUME TypeInv, BudgetInv, UNCHANGED throughput, now' \in Nat, now <= now',
           pc'[Loop] \in {"measure", "record"} /\ locals'[Loop].metered
               => pc[Loop] \in {"measure", "record"} /\ locals[Loop].metered
    PROVE  BudgetInv'
<1>1. MeteredBudgetHolds'
  BY DEF BudgetInv, MeteredBudgetHolds
<1>2. ASSUME WithinMeteredBudget PROVE WithinMeteredBudget'
  <2> DEFINE before == {r \in throughput : r.ts >= now - Window}
             after == {r \in throughput : r.ts >= now' - Window}
  <2>1. now \in Nat /\ Window \in Nat /\ Cost \in Nat /\ Budget \in Nat
        /\ \A r \in throughput : r.ts \in Nat
    BY SpeedTestAssumption DEF TypeInv, TypeOK, Row
  <2>2. after \in SUBSET before
    BY <2>1
  <2>3. IsFiniteSet(before)
    BY FS_Subset DEF TypeInv
  <2>4. Bytes(after) \in Nat /\ Bytes(before) \in Nat /\ Bytes(after) <= Bytes(before)
    BY <2>2, <2>3, BytesShrink
  <2>5. BytesSince(now - Window) = Bytes(before)
        /\ BytesSince(now - Window)' = Bytes(after)
    BY DEF BytesSince, Bytes
  <2> QED
    BY <1>2, <2>1, <2>4, <2>5 DEF WithinMeteredBudget
<1> QED
  BY <1>1, <1>2 DEF BudgetInv, RunningFits

\* A row stored after its test fitted leaves a table that fits.
LEMMA RowSpent ==
    ASSUME TypeInv, GapInv, BudgetInv, NEW t \in Testers,
           throughput' = throughput \cup {NewRow(t)}, now' = now,
           t = Loop => pc[Loop] = "record"
    PROVE  MeteredBudgetHolds'
<1> DEFINE new == NewRow(t)
<1>1. /\ new \in Row /\ new.ts = now /\ new.by = t
      /\ Cardinality(throughput) \in Nat /\ new.nth = Cardinality(throughput) + 1
  BY AddedRow DEF GapInv
<1>2. new.metered = locals[t].metered
  BY DEF NewRow
<1> HIDE DEF new
<1>3. throughput' = throughput \cup {new}
  BY DEF new
<1>4. /\ now \in Nat /\ Window \in Nat /\ Cost \in Nat /\ IsFiniteSet(throughput)
      /\ \A r \in throughput : /\ r.ts \in Nat /\ r.nth \in Nat
                               /\ r.nth <= Cardinality(throughput)
  BY SpeedTestAssumption DEF TypeInv, TypeOK, Row, GapInv, RowsInOrder
<1>5. new \notin throughput
  BY <1>1, <1>4
<1> SUFFICES ASSUME NEW r \in throughput', r.by = Loop, r.metered
             PROVE  Bytes({q \in throughput' : q.nth <= r.nth /\ q.ts + Window >= r.ts})
                       <= Budget
  BY DEF MeteredBudgetHolds, Bytes
<1>6. CASE r \in throughput
  <2>1. {q \in throughput' : q.nth <= r.nth /\ q.ts + Window >= r.ts}
          = {q \in throughput : q.nth <= r.nth /\ q.ts + Window >= r.ts}
    BY <1>1, <1>3, <1>4, <1>6
  <2> QED
    BY <1>6, <2>1 DEF BudgetInv, MeteredBudgetHolds
<1>7. CASE r = new
  <2> DEFINE recent == {q \in throughput : q.ts >= now - Window}
  <2>1. {q \in throughput' : q.nth <= r.nth /\ q.ts + Window >= r.ts} = recent \cup {new}
    BY <1>1, <1>3, <1>4, <1>7
  <2>2. Bytes(recent \cup {new}) = Bytes(recent) + Cost
    <3>1. IsFiniteSet(recent) /\ new \notin recent
      BY <1>4, <1>5, FS_Subset
    <3>2. new.by # CLI
      BY <1>1, <1>7, TestersDiffer
    <3> QED
      BY <3>1, <3>2, BytesGrow
  <2>3. Bytes(recent) + Cost <= Budget
    <3>1. t = Loop /\ pc[Loop] = "record" /\ locals[Loop].metered
      BY <1>1, <1>2, <1>7
    <3> QED
      BY <3>1 DEF BudgetInv, RunningFits, WithinMeteredBudget, BytesSince
  <2> QED
    BY <2>1, <2>2, <2>3
<1> QED
  BY <1>3, <1>6, <1>7

\* Every step keeps the budget.
LEMMA StepBudget ==
    TypeInv /\ LockInv /\ GapInv /\ BudgetInv /\ [Next]_vars => BudgetInv'
<1> SUFFICES ASSUME TypeInv, LockInv, GapInv, BudgetInv, [Next]_vars PROVE BudgetInv'
  OBVIOUS
<1>t. /\ now \in Nat /\ pc \in [Testers -> Places] /\ locals \in [Testers -> Locals]
      /\ RunningFits /\ MeteredBudgetHolds
  BY DEF TypeInv, TypeOK, BudgetInv
<1>n. /\ Loop \in Testers /\ CLI \in Testers /\ CLI # Loop
      /\ \A t \in InDaemon : t \in Testers
  BY TestersDiffer
<1>1. ASSUME NEW t \in InDaemon, Ask(t) \/ Lock(t) PROVE BudgetInv'
  <2>1. UNCHANGED <<now, throughput>>
    BY <1>1 DEF Ask, Lock
  <2>2. \/ pc'[Loop] \in {"lock", "gate", "budget", "idle", "done"}
        \/ pc'[Loop] = pc[Loop] /\ locals'[Loop] = locals[Loop]
    BY <1>1, <1>n, <1>t DEF Ask, Lock, Goes, Ends
  <2> QED
    BY <1>t, <2>1, <2>2, NothingSpent
<1>2. ASSUME NEW t \in InDaemon, Begin(t) PROVE BudgetInv'
  <2>1. UNCHANGED <<now, throughput>>
    BY <1>2 DEF Begin
  <2>2. CASE Ends(t)
    <3>1. \/ pc'[Loop] = "idle"
          \/ pc'[Loop] = pc[Loop] /\ locals'[Loop] = locals[Loop]
      BY <1>n, <1>t, <2>2 DEF Goes, Ends
    <3> QED
      BY <1>t, <2>1, <3>1, NothingSpent
  <2>3. CASE /\ t = Loop /\ locals[t].metered => WithinMeteredBudget
             /\ locals' = [locals EXCEPT ![t].began = now]
             /\ pc' = [pc EXCEPT ![t] = "measure"]
    <3>1. CASE t # Loop
      <4>1. pc'[Loop] = pc[Loop] /\ locals'[Loop] = locals[Loop]
        BY <1>n, <1>t, <2>3, <3>1
      <4> QED
        BY <1>t, <2>1, <4>1, NothingSpent
    <3>2. CASE t = Loop
      <4>1. locals'[Loop].metered = locals[Loop].metered
        BY <1>n, <1>t, <2>3, <3>2 DEF Locals
      <4>2. RunningFits'
        BY <2>1, <2>3, <3>2, <4>1
           DEF RunningFits, WithinMeteredBudget, BytesSince, Bytes
      <4>3. MeteredBudgetHolds'
        BY <1>t, <2>1 DEF MeteredBudgetHolds
      <4> QED
        BY <4>2, <4>3 DEF BudgetInv
    <3> QED
      BY <3>1, <3>2
  <2> QED
    BY <1>2, <2>2, <2>3 DEF Begin, Goes
<1>3. ASSUME NEW t \in InDaemon, MeasureReturns(t) PROVE BudgetInv'
  <2>1. UNCHANGED <<now, throughput>> /\ pc[t] = "measure"
    BY <1>3 DEF MeasureReturns
  <2>2. \/ pc'[Loop] = "idle"
        \/ pc[Loop] = "measure" /\ locals'[Loop] = locals[Loop]
        \/ pc'[Loop] = pc[Loop] /\ locals'[Loop] = locals[Loop]
    BY <1>3, <1>n, <1>t DEF MeasureReturns, Goes, Ends
  <2> QED
    BY <1>t, <2>1, <2>2, NothingSpent
<1>4. ASSUME NEW t \in InDaemon, Record(t) PROVE BudgetInv'
  <2>1. /\ now' = now /\ pc[t] = "record" /\ Ends(t)
        /\ throughput' = throughput \cup {NewRow(t)} \/ UNCHANGED throughput
    BY <1>4 DEF Record
  <2>2. pc'[Loop] \notin {"measure", "record"}
    <3>1. CASE t = Loop
      BY <1>n, <1>t, <2>1, <3>1 DEF Ends, Goes
    <3>2. CASE t # Loop
      <4>1. pc'[Loop] = pc[Loop]
        BY <1>n, <1>t, <2>1, <3>2 DEF Ends, Goes
      <4>2. pc[Loop] \notin {"measure", "record"}
        BY <2>1, <3>2, TestersDiffer DEF LockInv, Held
      <4> QED
        BY <4>1, <4>2
    <3> QED
      BY <3>1, <3>2
  <2>3. CASE UNCHANGED throughput
    BY <1>t, <2>1, <2>2, <2>3, NothingSpent
  <2>4. CASE throughput' = throughput \cup {NewRow(t)}
    <3>1. MeteredBudgetHolds'
      BY <1>n, <2>1, <2>4, RowSpent
    <3> QED
      BY <2>2, <3>1 DEF BudgetInv, RunningFits
  <2> QED
    BY <2>1, <2>3, <2>4
<1>5. CASE Gate
  <2>1. UNCHANGED <<now, throughput>> /\ pc'[Loop] \in {"budget", "idle"}
    BY <1>5, <1>n, <1>t DEF Gate, Goes, Ends
  <2> QED
    BY <1>t, <2>1, NothingSpent
<1>6. CASE CLIBegin
  <2>1. /\ UNCHANGED <<now, throughput>>
        /\ pc'[Loop] = pc[Loop] /\ locals'[Loop] = locals[Loop]
    BY <1>6, <1>n, <1>t DEF CLIBegin, Goes
  <2> QED
    BY <1>t, <2>1, NothingSpent
<1>7. CASE CLIEnd
  <2>1. /\ now' = now /\ pc'[Loop] = pc[Loop] /\ locals'[Loop] = locals[Loop]
        /\ throughput' = throughput \cup {NewRow(CLI)} \/ UNCHANGED throughput
    BY <1>7, <1>n, <1>t DEF CLIEnd, Goes, Ends
  <2>2. CASE UNCHANGED throughput
    BY <1>t, <2>1, <2>2, NothingSpent
  <2>3. CASE throughput' = throughput \cup {NewRow(CLI)}
    <3>1. MeteredBudgetHolds'
      BY <1>n, <2>1, <2>3, RowSpent
    <3> DEFINE recent == {r \in throughput : r.ts >= now - Window}
               after == {r \in throughput' : r.ts >= now - Window}
    <3>2. Bytes(after) = Bytes(recent)
      <4>1. NewRow(CLI).by = CLI
        BY DEF NewRow
      <4>2. {r \in after : r.by # CLI} = {r \in recent : r.by # CLI}
        BY <2>3, <4>1
      <4> QED
        BY <4>2 DEF Bytes
    <3>3. WithinMeteredBudget => WithinMeteredBudget'
      BY <2>1, <3>2 DEF WithinMeteredBudget, BytesSince, Bytes
    <3> QED
      BY <1>t, <2>1, <3>1, <3>3 DEF BudgetInv, RunningFits
  <2> QED
    BY <2>1, <2>2, <2>3
<1>8. CASE Restart
  <2>1. UNCHANGED <<now, throughput>> /\ pc'[Loop] = "idle"
    BY <1>8, <1>n, SpeedTestAssumption DEF Restart
  <2> QED
    BY <1>t, <2>1, NothingSpent
<1>9. CASE TickBegin \/ TickEnd \/ Elapse \/ LinkChanges \/ UNCHANGED vars
  <2>1. now' \in Nat /\ now <= now' /\ UNCHANGED <<throughput, pc, locals>>
    BY <1>9, <1>t DEF TickBegin, TickEnd, Elapse, LinkChanges, daemonVars, vars
  <2> QED
    BY <2>1, NothingSpent
<1> QED
  BY <1>1, <1>2, <1>3, <1>4, <1>5, <1>6, <1>7, <1>8, <1>9 DEF Next

\* The metered cap holds for every cost, budget and window, over restarts and
\* whatever forced tests and those of the CLI fall between the automatic ones.
THEOREM MeteredBudgetIsKept == Spec => []MeteredBudgetHolds
<1>1. Init => BudgetInv
  BY TestersDiffer DEF Init, BudgetInv, RunningFits, MeteredBudgetHolds
<1>2. BudgetInv => MeteredBudgetHolds
  BY DEF BudgetInv
<1> QED
  BY <1>1, <1>2, StepBudget, TypeInvCorrect, LockCorrect, GapCorrect, PTL DEF Spec
=============================================================================
