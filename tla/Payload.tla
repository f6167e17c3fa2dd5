------------------------------ MODULE Payload -------------------------------
(***************************************************************************)
(* How large a speed test is and how it is cut into requests               *)
(* (internal/throughput/throughput.go): the payload is sized to the        *)
(* advertised plan, so that any line takes about ten seconds, and shared   *)
(* out over parallel streams none of which may ask for more than the       *)
(* server gives.  A plan is a whole number of Mbit.  SpeedTest takes the   *)
(* cost of a test as a constant.                                           *)
(***************************************************************************)
EXTENDS Integers

\* cloudflareMaxBytes: what one request may ask for.
RequestMax == 9000000

DownMin == 3000000
DownMax == 100000000
DownFallback == 25000000
UpMin == 1000000
UpMax == 25000000
UpFallback == 5000000

\* measureSecs of a line of one Mbit.
BytesPerMbit == 1250000

ClampBytes(n, lo, hi) == IF n < lo THEN lo ELSE IF n > hi THEN hi ELSE n

\* 0 stands for an unknown plan.
BytesForMbit(mbit) ==
    IF mbit <= 0 THEN DownFallback
                 ELSE ClampBytes(mbit * BytesPerMbit, DownMin, DownMax)

BytesForMbitUp(mbit) ==
    IF mbit <= 0 THEN UpFallback
                 ELSE ClampBytes(mbit * BytesPerMbit, UpMin, UpMax)

\* The number of streams: as many as wanted, or as the limit takes.
StreamsFor(total, want) ==
    LET need == (total + RequestMax - 1) \div RequestMax
        least == IF want < 1 THEN 1 ELSE want
    IN  IF need > least THEN need ELSE least

\* Mutant: the remainder is dropped.
SplitBytesEven(total, n) == [i \in 0 .. n - 1 |-> total \div n]

\* The shares of n streams, the remainder on the first ones.
SplitBytes(total, n) ==
    [i \in 0 .. n - 1 |->
        total \div n + (IF i < total % n THEN 1 ELSE 0)]

\* What download and upload ask for, one share a request.
Requests(total, want) == SplitBytes(total, StreamsFor(total, want))
=============================================================================
