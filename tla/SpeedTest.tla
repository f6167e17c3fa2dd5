----------------------------- MODULE SpeedTest ------------------------------
(***************************************************************************)
(* Speed tests and the tick they must not disturb (internal/daemon/        *)
(* daemon.go, measureThroughput and its callers).  The throughput loop     *)
(* runs automatic tests, dashboard requests force tests, and "netqa        *)
(* speedtest" runs one in a process of its own.  In the daemon one lock    *)
(* lets one test run at a time, a flag keeps a tick from starting while a  *)
(* test saturates the line, a minimum gap spaces the automatic tests and a *)
(* budget caps their data on a metered link.                               *)
(*                                                                         *)
(* Time is counted in probe intervals: a tick is due in each of them, and  *)
(* neither a tick's probing nor the steps of a test other than its         *)
(* transfer take longer than one.  Every test costs Cost units of data.    *)
(***************************************************************************)
EXTENDS Naturals, FiniteSets

CONSTANTS
    Forced,     \* the dashboard's requests (handleSpeedtest), one test each
    Loop,       \* the throughput loop
    CLI,        \* the separate "netqa speedtest" process
    Nobody,     \* nobody holds the lock
    Cost,       \* the data of one test (BytesForMbit + BytesForMbitUp)
    Budget,     \* Config.MeteredDailyMB
    Window,     \* the rolling 24 hours
    MinGap,     \* Config.ThroughputMinGap
    TestLimit,  \* longest transfer: a client timeout for each direction
    MaxTime,    \* bound: the last moment of a behaviour
    MaxLives    \* bound: how often the daemon is started

Testers == Forced \cup {Loop, CLI}
InDaemon == Forced \cup {Loop}

ASSUME SpeedTestAssumption ==
    /\ Loop # CLI /\ Loop # Nobody /\ CLI # Nobody
    /\ Forced \cap {Loop, CLI, Nobody} = {}
    /\ {Cost, Window, MinGap, TestLimit} \subseteq Nat \ {0}
    /\ {Budget, MaxTime, MaxLives} \subseteq Nat

VARIABLES
    now,        \* the clock
    metered,    \* whether the link the machine is on is metered
    status,     \* Daemon.status: is a network known, was it metered
    probing,    \* whether a tick is probing the line
    lastTick,   \* when the last tick of this process started
    measuring,  \* Daemon.measuring
    tpRun,      \* Daemon.tpRun: who holds it
    lastTPRun,  \* Daemon.lastTPRun; 0 is the zero time
    pc,         \* where each tester is
    locals,     \* what each tester remembers: the status it read, and when its
                \* transfer began
    throughput, \* the throughput table, with the tester and the process of a row
    life        \* history: how often the daemon was started

daemonVars == <<status, probing, lastTick, measuring, tpRun, lastTPRun>>
vars == <<now, metered, status, probing, lastTick, measuring, tpRun, lastTPRun,
          pc, locals, throughput, life>>
-----------------------------------------------------------------------------
Status == [known : BOOLEAN, metered : BOOLEAN]
NoStatus == [known |-> FALSE, metered |-> FALSE]

Locals == [metered : BOOLEAN, began : Nat]
NoLocals == [metered |-> FALSE, began |-> 0]

Row == [ts : Nat, by : Testers, metered : BOOLEAN, life : Nat, nth : Nat]

Places == {"idle", "lock", "gate", "budget", "measure", "record", "done"}

TypeOK ==
    /\ now \in Nat
    /\ metered \in BOOLEAN
    /\ status \in Status
    /\ probing \in BOOLEAN
    /\ lastTick \in Nat
    /\ measuring \in BOOLEAN
    /\ tpRun \in InDaemon \cup {Nobody}
    /\ lastTPRun \in Nat
    /\ pc \in [Testers -> Places]
    /\ locals \in [Testers -> Locals]
    /\ throughput \subseteq Row
    /\ life \in Nat

Init ==
    /\ now = 1
    /\ metered \in BOOLEAN
    /\ status = NoStatus
    /\ probing = FALSE
    /\ lastTick = 1
    /\ measuring = FALSE
    /\ tpRun = Nobody
    /\ lastTPRun = 0
    /\ pc = [t \in Testers |-> "idle"]
    /\ locals = [t \in Testers |-> NoLocals]
    /\ throughput = {}
    /\ life = 1

-----------------------------------------------------------------------------
(* The tick, as far as a test concerns it *)

\* A tick starts only when no test is measuring (it looks once).
TickBegin ==
    /\ ~probing
    /\ lastTick < now \/ ~status.known
    /\ ~measuring
    /\ probing' = TRUE
    /\ lastTick' = now
    /\ UNCHANGED <<now, metered, status, measuring, tpRun, lastTPRun, pc, locals,
                   throughput, life>>

\* It publishes the status of the link it observed.
TickEnd ==
    /\ probing
    /\ probing' = FALSE
    /\ status' = [known |-> TRUE, metered |-> metered]
    /\ UNCHANGED <<now, metered, lastTick, measuring, tpRun, lastTPRun, pc, locals,
                   throughput, life>>

-----------------------------------------------------------------------------
(* One test of the daemon: measureThroughput *)

Goes(t, place) == pc' = [pc EXCEPT ![t] = place]

\* The loop goes on to its next test; a request is answered.
Ends(t) == /\ Goes(t, IF t = Loop THEN "idle" ELSE "done")
           /\ locals' = [locals EXCEPT ![t] = NoLocals]

\* Mutant: the gap is measured from the start of the epoch.
GapIsOver == now >= MinGap
\* maybeMeasure: an automatic test is due.
Due == lastTPRun = 0 \/ now - lastTPRun >= MinGap

\* A test is asked for and reads the live status, under its lock.
Ask(t) ==
    /\ pc[t] = "idle"
    /\ t = Loop => Due
    /\ status.known
    /\ locals' = [locals EXCEPT ![t].metered = status.metered]
    /\ Goes(t, "lock")
    /\ UNCHANGED <<now, metered, daemonVars, throughput, life>>

\* Mutant: the lock is taken without a look.
TakeLock(t) == tpRun' = t
TryLock(t) == tpRun = Nobody /\ tpRun' = t

Lock(t) ==
    /\ pc[t] = "lock"
    /\ \/ /\ TryLock(t)
          /\ Goes(t, IF t = Loop THEN "gate" ELSE "budget")
          /\ UNCHANGED locals
       \/ tpRun # Nobody /\ Ends(t) /\ UNCHANGED tpRun
    /\ UNCHANGED <<now, metered, status, probing, lastTick, measuring, lastTPRun,
                   throughput, life>>

\* LinkBusyMbit: an automatic test gives way to user traffic.
Gate ==
    /\ pc[Loop] = "gate"
    /\ \/ Goes(Loop, "budget") /\ UNCHANGED <<tpRun, locals>>
       \/ Ends(Loop) /\ tpRun' = Nobody
    /\ UNCHANGED <<now, metered, status, probing, lastTick, measuring, lastTPRun,
                   throughput, life>>

\* The sum of the rows' bytes: a test of the daemon records its data, one of the
\* separate process none.
Bytes(rows) == Cost * Cardinality({r \in rows : r.by # CLI})

\* ThroughputBytesSince
BytesSince(from) == Bytes({r \in throughput : r.ts >= from})

\* Mutant: what the test itself will cost is left out.
SpentWithinBudget == BytesSince(now - Window) <= Budget
WithinMeteredBudget == BytesSince(now - Window) + Cost <= Budget

\* The budget is checked, and the test begins to saturate the line; a usage the
\* store cannot tell counts as too much.
Begin(t) ==
    /\ pc[t] = "budget"
    /\ \/ /\ t = Loop /\ locals[t].metered => WithinMeteredBudget
          /\ measuring' = TRUE
          /\ Goes(t, "measure")
          /\ locals' = [locals EXCEPT ![t].began = now]
          /\ UNCHANGED tpRun
       \/ /\ t = Loop /\ locals[t].metered
          /\ Ends(t) /\ tpRun' = Nobody
          /\ UNCHANGED measuring
    /\ UNCHANGED <<now, metered, status, probing, lastTick, lastTPRun, throughput,
                   life>>

\* Mutant: the early return on a failed transfer comes before the flag is cleared.
StopMeasuring(failed) == measuring' = failed
Measured(failed) == measuring' = FALSE

\* Measure returns: it fails only when no download stream answered.
MeasureReturns(t) ==
    /\ pc[t] = "measure" /\ t # CLI
    /\ \/ Measured(FALSE) /\ Goes(t, "record") /\ UNCHANGED <<tpRun, locals>>
       \/ Measured(TRUE) /\ Ends(t) /\ tpRun' = Nobody
    /\ UNCHANGED <<now, metered, status, probing, lastTick, lastTPRun,
                   throughput, life>>

NewRow(t) == [ts |-> now, by |-> t, metered |-> locals[t].metered, life |-> life,
              nth |-> Cardinality(throughput) + 1]

\* Mutant: the next test is brought forward by backdating this one.
Backdated == now - MinGap
Recorded == now

\* InsertThroughput; a row that cannot be stored leaves lastTPRun as it was.
Record(t) ==
    /\ pc[t] = "record"
    /\ \/ throughput' = throughput \cup {NewRow(t)} /\ lastTPRun' = Recorded
       \/ UNCHANGED <<throughput, lastTPRun>>
    /\ tpRun' = Nobody
    /\ Ends(t)
    /\ UNCHANGED <<now, metered, status, probing, lastTick, measuring, life>>

-----------------------------------------------------------------------------
(* The separate process (main.go, mustSpeedtest): it knows no lock, no flag   *)
(* and no budget, and it records no data.                                     *)

CLIBegin ==
    /\ pc[CLI] = "idle"
    /\ Goes(CLI, "measure")
    /\ locals' = [locals EXCEPT ![CLI] = [metered |-> metered, began |-> now]]
    /\ UNCHANGED <<now, metered, daemonVars, throughput, life>>

CLIEnd ==
    /\ pc[CLI] = "measure"
    /\ \/ throughput' = throughput \cup {NewRow(CLI)}
       \/ UNCHANGED throughput
    /\ Ends(CLI)
    /\ UNCHANGED <<now, metered, daemonVars, life>>

-----------------------------------------------------------------------------
(* The environment *)

\* Time passes: no tick is overdue and no transfer outlasts its timeouts.
Elapse ==
    /\ now < MaxTime
    /\ ~probing
    /\ measuring \/ lastTick = now
    /\ \A t \in Testers : /\ pc[t] \in {"idle", "measure", "done"}
                          /\ pc[t] = "measure" => now - locals[t].began < TestLimit
    /\ now' = now + 1
    /\ UNCHANGED <<metered, daemonVars, pc, locals, throughput, life>>

\* The machine joins a link of the other kind, or Low Data Mode is switched.
LinkChanges ==
    /\ metered' = ~metered
    /\ UNCHANGED <<now, daemonVars, pc, locals, throughput, life>>

\* The daemon dies and launchd starts it again; its requests die with it.
Restart ==
    /\ life < MaxLives
    /\ life' = life + 1
    /\ status' = NoStatus
    /\ probing' = FALSE
    /\ lastTick' = now
    /\ measuring' = FALSE
    /\ tpRun' = Nobody
    /\ lastTPRun' = 0
    /\ pc' = [t \in Testers |-> IF t \in Forced /\ pc[t] # "idle" THEN "done"
                                ELSE IF t = Loop THEN "idle" ELSE pc[t]]
    /\ locals' = [t \in Testers |-> IF t = CLI THEN locals[t] ELSE NoLocals]
    /\ UNCHANGED <<now, metered, throughput>>

Next ==
    \/ TickBegin \/ TickEnd
    \/ \E t \in InDaemon : Ask(t) \/ Lock(t) \/ Begin(t) \/ MeasureReturns(t) \/ Record(t)
    \/ Gate
    \/ CLIBegin \/ CLIEnd
    \/ Elapse \/ LinkChanges \/ Restart

Spec == Init /\ [][Next]_vars

-----------------------------------------------------------------------------
(* Properties *)

\* The lock does its work: no two tests of the daemon transfer at once, and none
\* starts its transfer while another waits to record.
OneTestAtATime ==
    \A t1, t2 \in InDaemon :
        pc[t1] \in {"measure", "record"} /\ pc[t2] \in {"measure", "record"}
            => t1 = t2

\* The flag says exactly that a test of the daemon is transferring: no path of
\* measureThroughput leaves it set, which would blind the daemon for good, and no
\* other test clears it early (daemon.go:62-64).
MeasuringMeansTesting ==
    measuring <=> \E t \in InDaemon : pc[t] = "measure"

\* The metered cap (withinMeteredBudget): at every recorded automatic test read
\* as metered, all tests recorded in the 24 hours up to it fit the budget.
MeteredBudgetHolds ==
    \A r \in throughput :
        r.by = Loop /\ r.metered =>
            Bytes({q \in throughput : q.nth <= r.nth /\ q.ts + Window >= r.ts}) <= Budget

\* config.go:30-31: two automatic tests of one process are MinGap apart, however
\* forced tests fall between them.
AutomaticTestsAreSpaced ==
    \A r1, r2 \in throughput :
        /\ r1.by = Loop /\ r2.by = Loop /\ r1.life = r2.life /\ r1.nth < r2.nth
        => r2.ts - r1.ts >= MinGap
=============================================================================
