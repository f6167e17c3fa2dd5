------------------------------ MODULE Transfer ------------------------------
(***************************************************************************)
(* One speed test after another, stream by stream (Measurer.Measure,       *)
(* download and upload of internal/throughput/throughput.go): a payload    *)
(* sized to the plan is shared out over parallel requests, whose           *)
(* goroutines add what they read to one sum; when the last one has ended   *)
(* the sum becomes the rate.  A rate is the bytes it was computed from: how *)
(* long they took is left out.  SpeedTest takes all this as one step.      *)
(*                                                                         *)
(* The server is external: it refuses a download of more than RequestMax,  *)
(* and any stream may fail, or break off before its payload is through.    *)
(***************************************************************************)
EXTENDS Payload

CONSTANTS
    DownPlans,  \* advertised rates in Mbit; 0 for an unknown one
    UpPlans,
    Streams,    \* Measurer.Streams, or defaultStreams
    Shortfalls  \* how many bytes a stream may miss when it breaks off

ASSUME TransferAssumption ==
    /\ DownPlans \subseteq Nat /\ UpPlans \subseteq Nat
    /\ Streams \in Nat \ {0}
    /\ Shortfalls \subseteq Nat

VARIABLES
    plan,    \* the target of the network the test is of
    phase,   \* where Measure is
    stream,  \* the goroutines of the direction under way
    ok,      \* whether a download stream was answered
    sum,     \* the bytes the streams have added up
    result,  \* the bytes of the two rates
    moved,   \* history: the payload that went over the line in this test
    short    \* history: a stream failed or broke off in this test

vars == <<plan, phase, stream, ok, sum, result, moved, short>>

-----------------------------------------------------------------------------
\* The default of Config.MeteredDailyMB.
DailyBudget == 200000000

Phases == {"idle", "down", "up", "failed", "done"}
Stages == {"sent", "open", "ended"}

DownBytes == BytesForMbit(plan.down)
UpBytes == BytesForMbitUp(plan.up)

\* What measureThroughput holds against the budget before the test, and records
\* with it.
Cost == DownBytes + UpBytes

Parts == Requests(IF phase = "down" THEN DownBytes ELSE UpBytes, Streams)

\* One goroutine a share; a share of nothing gets none.
FanOut(parts) == [i \in {i \in DOMAIN parts : parts[i] > 0} |-> "sent"]

Nothing == [down |-> 0, up |-> 0]

TypeOK ==
    /\ plan \in [down : DownPlans \cup {0}, up : UpPlans \cup {0}]
    /\ phase \in Phases
    /\ stream \in [DOMAIN stream -> Stages]
    /\ ok \in BOOLEAN /\ short \in BOOLEAN
    /\ sum \in 0 .. DownMax
    /\ result \in [down : 0 .. DownMax, up : 0 .. UpMax]
    /\ moved \in [down : 0 .. DownMax, up : 0 .. UpMax]

Init ==
    /\ plan = Nothing
    /\ phase = "idle"
    /\ stream = <<>>
    /\ ok = FALSE /\ sum = 0
    /\ result = Nothing
    /\ moved = Nothing /\ short = FALSE

-----------------------------------------------------------------------------
Start ==
    /\ phase \in {"idle", "failed", "done"}
    /\ \E down \in DownPlans, up \in UpPlans :
          /\ plan' = [down |-> down, up |-> up]
          /\ stream' = FanOut(Requests(BytesForMbit(down), Streams))
    /\ phase' = "down"
    /\ ok' = FALSE /\ sum' = 0
    /\ result' = Nothing
    /\ moved' = Nothing /\ short' = FALSE

At(i, dir, stage) == phase = dir /\ stream[i] = stage
Goes(i, stage) == stream' = [stream EXCEPT ![i] = stage]

\* What may come of a share of n bytes.
Amounts(n) == {n - d : d \in {d \in Shortfalls : d <= n}}
Carries(i, dir, m) ==
    /\ moved' = [moved EXCEPT ![dir] = @ + m]
    /\ short' = (short \/ m < Parts[i])

\* Mutant: that the server answered is not noted.
AnsweredUnnoted(i) ==
    /\ At(i, "down", "sent") /\ Parts[i] <= RequestMax
    /\ Goes(i, "open")
    /\ UNCHANGED <<plan, phase, ok, sum, result, moved, short>>

\* download: the server answers and the body begins.
Answered(i) ==
    /\ At(i, "down", "sent") /\ Parts[i] <= RequestMax
    /\ Goes(i, "open")
    /\ ok' = TRUE
    /\ UNCHANGED <<plan, phase, sum, result, moved, short>>

\* download: no answer, or one without a payload.
Refused(i) ==
    /\ At(i, "down", "sent")
    /\ Goes(i, "ended")
    /\ short' = TRUE
    /\ UNCHANGED <<plan, phase, ok, sum, result, moved>>

\* download: the body ends, or breaks off; what was read of it counts.
Read(i) ==
    /\ At(i, "down", "open")
    /\ \E m \in Amounts(Parts[i]) : sum' = sum + m /\ Carries(i, "down", m)
    /\ Goes(i, "ended")
    /\ UNCHANGED <<plan, phase, ok, result>>

\* upload: any answer counts as the whole share, also one that came before the
\* share was through.
Sent(i) ==
    /\ At(i, "up", "sent")
    /\ \E m \in Amounts(Parts[i]) : Carries(i, "up", m)
    /\ sum' = sum + Parts[i]
    /\ Goes(i, "ended")
    /\ UNCHANGED <<plan, phase, ok, result>>

\* upload: no answer.
SendFails(i) ==
    /\ At(i, "up", "sent")
    /\ \E m \in Amounts(Parts[i]) : moved' = [moved EXCEPT !.up = @ + m]
    /\ short' = TRUE
    /\ Goes(i, "ended")
    /\ UNCHANGED <<plan, phase, ok, sum, result>>

\* wg.Wait returns.
AllEnded == \A i \in DOMAIN stream : stream[i] = "ended"

\* The download is over: the test fails if no stream was answered, and goes on
\* to the upload otherwise.
Downloaded ==
    /\ phase = "down" /\ AllEnded
    /\ \/ /\ ~ok /\ phase' = "failed" /\ UNCHANGED <<stream, sum, result>>
       \/ /\ ok /\ phase' = "up"
          /\ result' = [result EXCEPT !.down = sum]
          /\ sum' = 0
          /\ stream' = FanOut(Requests(UpBytes, Streams))
    /\ UNCHANGED <<plan, ok, moved, short>>

Uploaded ==
    /\ phase = "up" /\ AllEnded
    /\ phase' = "done"
    /\ result' = [result EXCEPT !.up = sum]
    /\ UNCHANGED <<plan, stream, ok, sum, moved, short>>

Progress ==
    \/ \E i \in DOMAIN stream :
          Answered(i) \/ Refused(i) \/ Read(i) \/ Sent(i) \/ SendFails(i)
    \/ Downloaded \/ Uploaded

Next == Start \/ Progress

Spec == Init /\ [][Next]_vars

-----------------------------------------------------------------------------
(* Properties *)

\* A request asks for something, and for no more than the server gives: none is
\* refused for its size, whatever the plan (streamsFor, throughput.go:162-174).
RequestsFitTheServer ==
    phase \in {"down", "up"} =>
        \A i \in DOMAIN stream : Parts[i] \in 1 .. RequestMax

\* Whatever the streams do, a test never puts more on the line than the metered
\* budget hears of: the cost that was held against it before the test began, for
\* which the default has room whatever the plan, and nothing of a test that
\* failed, which is not recorded (daemon.go:186-204, throughput.go:238-241,
\* config.go:59).
LineCarriesTheCost ==
    /\ moved.down + moved.up <= IF phase = "failed" THEN 0 ELSE Cost
    /\ Cost <= DailyBudget

\* The download's rate counts every byte that came and no other, and when no
\* stream fell short both rates are of the whole payload: no share is lost to
\* the split or between the streams (throughput.go:176-193, 254-320).
RatesAreOfThePayload ==
    phase = "done" =>
        /\ result.down = moved.down
        /\ ~short => result = [down |-> DownBytes, up |-> UpBytes]
=============================================================================
