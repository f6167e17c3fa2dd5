--------------------------- MODULE TransferProofs ---------------------------
(***************************************************************************)
(* Theorems about Payload and Transfer, for every plan, every number of    *)
(* streams and whatever the streams fall short of: the requests are within *)
(* the server's limit and add up to the payload, a test puts no more on    *)
(* the line than it was budgeted for, and its rates are of that payload.   *)
(***************************************************************************)
EXTENDS Transfer, FiniteSetTheorems, TLAPS

-----------------------------------------------------------------------------
(* The split *)

\* Division as the split uses it.
LEMMA DivMod ==
    ASSUME NEW t \in Nat, NEW n \in Nat \ {0}
    PROVE  /\ t \div n \in Nat /\ t % n \in Nat
           /\ t % n < n
           /\ t = n * (t \div n) + (t % n)
BY SMT

\* The streams have room for the payload.
LEMMA StreamsHoldThePayload ==
    ASSUME NEW total \in Nat, NEW want \in Int
    PROVE  /\ StreamsFor(total, want) \in Nat \ {0}
           /\ total <= StreamsFor(total, want) * RequestMax
BY SMT DEF StreamsFor, RequestMax

\* Shares of a payload that n requests can hold fit the requests.
LEMMA SharesAreEven ==
    ASSUME NEW t \in Nat, NEW n \in Nat \ {0}, NEW m \in Nat, t <= n * m
    PROVE  t \div n <= m /\ (t % n # 0 => t \div n < m)
<1> DEFINE q == t \div n  r == t % n
<1>1. q \in Nat /\ r \in Nat /\ t = n * q + r
  BY DivMod
<1> HIDE DEF q, r
<1>2. n * q + r <= n * m
  BY <1>1
<1>3. ASSUME q > m PROVE FALSE
  <2>1. q - m >= 1 /\ n * (q - m) >= n
    BY <1>1, <1>3
  <2>2. n * q = n * m + n * (q - m)
    BY <1>1
  <2> QED
    BY <1>1, <1>2, <2>1, <2>2
<1>4. ASSUME r # 0, q = m PROVE FALSE
  BY <1>1, <1>2, <1>4
<1>5. q <= m /\ (r # 0 => q < m)
  BY <1>1, <1>3, <1>4
<1> QED
  BY <1>5 DEF q, r

\* No request trips the limit of the server, which would answer it with an
\* error and a rate that is too low (streamsFor, throughput.go:162-174).
THEOREM RequestsFit ==
    ASSUME NEW total \in Nat, NEW want \in Int,
           NEW i \in DOMAIN Requests(total, want)
    PROVE  Requests(total, want)[i] <= RequestMax
<1> DEFINE n == StreamsFor(total, want)
<1>1. n \in Nat \ {0} /\ total <= n * RequestMax
  BY StreamsHoldThePayload
<1> HIDE DEF n
<1>2. /\ total \div n \in Nat /\ total % n \in Nat
      /\ total \div n <= RequestMax
      /\ total % n # 0 => total \div n < RequestMax
  <2>1. RequestMax \in Nat
    BY SMT DEF RequestMax
  <2> QED
    BY <1>1, <2>1, DivMod, SharesAreEven
<1>3. Requests(total, want) = SplitBytes(total, n) /\ i \in 0 .. n - 1
  BY <1>1 DEF Requests, SplitBytes, n
<1>4. RequestMax \in Nat
  BY SMT DEF RequestMax
<1> QED
  BY <1>1, <1>2, <1>3, <1>4, SMT DEF SplitBytes

\* The shares are the payload: all are of one size but for the first, as many
\* as the remainder, which are one byte larger (splitBytes).
THEOREM RequestsAddUp ==
    ASSUME NEW total \in Nat, NEW want \in Int
    PROVE  LET n == StreamsFor(total, want)
           IN  \E base \in Nat, rem \in 0 .. n - 1 :
                  /\ total = n * base + rem
                  /\ \A i \in 0 .. n - 1 :
                        Requests(total, want)[i] = IF i < rem THEN base + 1 ELSE base
<1> DEFINE n == StreamsFor(total, want)
<1>1. n \in Nat \ {0}
  BY StreamsHoldThePayload
<1>2. Requests(total, want) = SplitBytes(total, n)
  BY DEF Requests
<1> HIDE DEF n
<1>3. /\ total \div n \in Nat /\ total % n \in 0 .. n - 1
      /\ total = n * (total \div n) + (total % n)
  BY <1>1, DivMod
<1>4. \A i \in 0 .. n - 1 :
         Requests(total, want)[i] =
            IF i < total % n THEN total \div n + 1 ELSE total \div n
  BY <1>1, <1>2, <1>3 DEF SplitBytes
<1>5. \E base \in Nat, rem \in 0 .. n - 1 :
         /\ total = n * base + rem
         /\ \A i \in 0 .. n - 1 :
               Requests(total, want)[i] = IF i < rem THEN base + 1 ELSE base
  <2> DEFINE base == total \div n  rem == total % n
  <2>1. /\ base \in Nat /\ rem \in 0 .. n - 1
        /\ total = n * base + rem
        /\ \A i \in 0 .. n - 1 :
              Requests(total, want)[i] = IF i < rem THEN base + 1 ELSE base
    BY <1>3, <1>4
  <2> HIDE DEF base, rem
  <2> QED
    BY <2>1
<1> QED
  BY <1>5 DEF n

\* A test costs between 4 and 125 MB whatever the plan says, so one test alone
\* never exceeds the default metered budget of 200 MB (config.go:59).
THEOREM CostIsBounded ==
    ASSUME NEW down \in Int, NEW up \in Int
    PROVE  /\ 4000000 <= BytesForMbit(down) + BytesForMbitUp(up)
           /\ BytesForMbit(down) + BytesForMbitUp(up) <= 125000000
<1>1. ASSUME NEW n \in Int, NEW lo \in Int, NEW hi \in Int, lo <= hi
      PROVE  /\ ClampBytes(n, lo, hi) \in Int
             /\ lo <= ClampBytes(n, lo, hi) /\ ClampBytes(n, lo, hi) <= hi
  BY <1>1 DEF ClampBytes
<1>2. /\ BytesForMbit(down) \in Int
      /\ 3000000 <= BytesForMbit(down) /\ BytesForMbit(down) <= 100000000
  <2>1. /\ down * BytesPerMbit \in Int /\ DownMin \in Int /\ DownMax \in Int
        /\ DownMin <= DownMax
    BY SMT DEF BytesPerMbit, DownMin, DownMax
  <2>2. LET c == ClampBytes(down * BytesPerMbit, DownMin, DownMax)
        IN  c \in Int /\ DownMin <= c /\ c <= DownMax
    BY <1>1, <2>1
  <2> QED
    BY <2>2, SMT DEF BytesForMbit, DownMin, DownMax, DownFallback
<1>3. /\ BytesForMbitUp(up) \in Int
      /\ 1000000 <= BytesForMbitUp(up) /\ BytesForMbitUp(up) <= 25000000
  <2>1. /\ up * BytesPerMbit \in Int /\ UpMin \in Int /\ UpMax \in Int
        /\ UpMin <= UpMax
    BY SMT DEF BytesPerMbit, UpMin, UpMax
  <2>2. LET c == ClampBytes(up * BytesPerMbit, UpMin, UpMax)
        IN  c \in Int /\ UpMin <= c /\ c <= UpMax
    BY <1>1, <2>1
  <2> QED
    BY <2>2, SMT DEF BytesForMbitUp, UpMin, UpMax, UpFallback
<1> QED
  BY <1>2, <1>3, SMT

-----------------------------------------------------------------------------
(* Sums of shares *)

\* What a sum of shares counts, byte by byte, and the sum.
Units(f) == UNION {{x} \X (1 .. f[x]) : x \in DOMAIN f}
Load(f) == Cardinality(Units(f))

\* What the streams that have not ended are still to bring.
Waiting(s) == {i \in DOMAIN s : s[i] # "ended"}
Rest(parts, s) == [i \in Waiting(s) |-> parts[i]]
Left(parts, s) == Load(Rest(parts, s))

\* n shares, the first ones one larger than the others.
Shares(f, n, base, rem) ==
    /\ DOMAIN f = 0 .. n - 1
    /\ \A i \in 0 .. n - 1 : f[i] = IF i < rem THEN base + 1 ELSE base

\* What such shares amount to.
LEMMA SharesAddUp ==
    ASSUME NEW n \in Nat, NEW base \in Nat, NEW rem \in 0 .. n,
           NEW f, Shares(f, n, base, rem)
    PROVE  IsFiniteSet(Units(f)) /\ Load(f) = n * base + rem
<1> DEFINE all == 0 .. n - 1  each == 1 .. base
           first == 0 .. rem - 1  one == {base + 1}
           body == all \X each  head == first \X one
<1>0. /\ DOMAIN f = 0 .. n - 1
      /\ \A i \in 0 .. n - 1 : f[i] = IF i < rem THEN base + 1 ELSE base
  BY DEF Shares
<1>1. Units(f) = body \cup head
  <2>1. ASSUME NEW i \in all PROVE 1 .. f[i] = each \cup (IF i < rem THEN one ELSE {})
    BY <1>0, <2>1
  <2>2. Units(f) = UNION {{i} \X (1 .. f[i]) : i \in all}
    BY <1>0 DEF Units
  <2>3. ASSUME NEW u \in Units(f) PROVE u \in body \cup head
    <3>1. PICK i \in all : u \in {i} \X (1 .. f[i])
      BY <2>2
    <3>2. i < rem => i \in first
      BY <3>1
    <3> HIDE DEF all, each, first, one
    <3> QED
      BY <2>1, <3>1, <3>2
  <2>4. ASSUME NEW u \in body PROVE u \in Units(f)
    <3>1. PICK i \in all, j \in each : u = <<i, j>>
      BY <2>4
    <3>2. j \in 1 .. f[i]
      BY <2>1, <3>1
    <3> HIDE DEF all, each
    <3> QED
      BY <2>2, <3>1, <3>2
  <2>5. ASSUME NEW u \in head PROVE u \in Units(f)
    <3>1. PICK i \in first, j \in one : u = <<i, j>>
      BY <2>5
    <3>2. i \in all /\ i < rem
      BY <3>1
    <3>3. j \in 1 .. f[i]
      BY <2>1, <3>1, <3>2
    <3> HIDE DEF all, each, first, one
    <3> QED
      BY <2>2, <3>1, <3>2, <3>3
  <2> HIDE DEF body, head
  <2> QED
    BY <2>3, <2>4, <2>5
<1>2. body \cap head = {}
  <2>1. base + 1 \notin each
    OBVIOUS
  <2> HIDE DEF all, each, first
  <2> QED
    BY <2>1
<1>3. /\ IsFiniteSet(all) /\ Cardinality(all) = n
      /\ IsFiniteSet(each) /\ Cardinality(each) = base
      /\ IsFiniteSet(first) /\ Cardinality(first) = rem
  <2> DEFINE m == n - 1  r == rem - 1
  <2>1. m \in Int /\ r \in Int /\ 0 \in Int /\ 1 \in Int
    OBVIOUS
  <2>2. IsFiniteSet(0 .. m) /\ Cardinality(0 .. m) = IF 0 > m THEN 0 ELSE m - 0 + 1
    BY <2>1, FS_Interval
  <2>3. IsFiniteSet(0 .. r) /\ Cardinality(0 .. r) = IF 0 > r THEN 0 ELSE r - 0 + 1
    BY <2>1, FS_Interval
  <2>4. IsFiniteSet(1 .. base) /\ Cardinality(1 .. base) = IF 1 > base THEN 0 ELSE base - 1 + 1
    BY <2>1, FS_Interval
  <2> QED
    BY <2>2, <2>3, <2>4
<1>4. IsFiniteSet(one) /\ Cardinality(one) = 1
  BY FS_Singleton
<1> HIDE DEF all, each, first, one
<1>5. IsFiniteSet(body) /\ Cardinality(body) = n * base
  BY <1>3, FS_Product
<1>6. IsFiniteSet(head) /\ Cardinality(head) = rem * 1
  BY <1>3, <1>4, FS_Product
<1> HIDE DEF body, head
<1>7. /\ IsFiniteSet(body \cup head)
      /\ Cardinality(body \cup head)
            = Cardinality(body) + Cardinality(head) - Cardinality(body \cap head)
  BY <1>5, <1>6, FS_Union
<1>8. Cardinality(body \cup head) = n * base + rem
  <2>1. Cardinality(body \cap head) = 0
    BY <1>2, FS_EmptySet
  <2>2. n * base \in Nat
    OBVIOUS
  <2> QED
    BY <1>5, <1>6, <1>7, <2>1, <2>2
<1> QED
  BY <1>1, <1>7, <1>8 DEF Load

\* The requests of a payload are natural numbers that add up to it.
LEMMA RequestsAreThePayload ==
    ASSUME NEW total \in Nat, NEW want \in Int
    PROVE  /\ Requests(total, want)
                 \in [0 .. StreamsFor(total, want) - 1 -> 0 .. RequestMax]
           /\ IsFiniteSet(Units(Requests(total, want)))
           /\ Load(Requests(total, want)) = total
<1> DEFINE n == StreamsFor(total, want)
           parts == Requests(total, want)
<1>1. n \in Nat /\ DOMAIN parts = 0 .. n - 1 /\ RequestMax \in Nat
  <2>1. RequestMax \in Nat
    BY SMT DEF RequestMax
  <2> QED
    BY <2>1, StreamsHoldThePayload DEF Requests, SplitBytes
<1>2. \E base \in Nat, rem \in 0 .. n - 1 :
         /\ total = n * base + rem
         /\ \A i \in 0 .. n - 1 : parts[i] = IF i < rem THEN base + 1 ELSE base
  BY RequestsAddUp
<1>3. \A i \in DOMAIN parts : parts[i] <= RequestMax
  BY RequestsFit
<1>4. parts = [i \in 0 .. n - 1 |-> parts[i]]
  BY DEF Requests, SplitBytes
<1> HIDE DEF n, parts
<1>5. PICK base \in Nat, rem \in 0 .. n - 1 :
         /\ total = n * base + rem
         /\ \A i \in 0 .. n - 1 : parts[i] = IF i < rem THEN base + 1 ELSE base
  BY <1>2
<1>6. rem \in 0 .. n
  BY <1>1
<1>7. IsFiniteSet(Units(parts)) /\ Load(parts) = total
  <2>1. Shares(parts, n, base, rem)
    BY <1>1, <1>5 DEF Shares
  <2>2. IsFiniteSet(Units(parts)) /\ Load(parts) = n * base + rem
    BY <1>1, <1>6, <2>1, SharesAddUp
  <2> QED
    BY <1>5, <2>2
<1>8. \A i \in 0 .. n - 1 : parts[i] \in 0 .. RequestMax
  BY <1>1, <1>3, <1>5
<1> QED
  BY <1>4, <1>7, <1>8 DEF n, parts

\* At first all of it is left; a share of nothing has no stream.
LEMMA AllIsLeft ==
    ASSUME NEW n \in Nat, NEW m \in Nat, NEW parts \in [0 .. n - 1 -> 0 .. m]
    PROVE  /\ FanOut(parts) \in [{i \in DOMAIN parts : parts[i] > 0} -> Stages]
           /\ Units(Rest(parts, FanOut(parts))) = Units(parts)
           /\ \A i \in DOMAIN FanOut(parts) : FanOut(parts)[i] = "sent"
<1> DEFINE live == {i \in DOMAIN parts : parts[i] > 0}
<1>1. FanOut(parts) = [i \in live |-> "sent"]
  BY DEF FanOut
<1>2. Waiting(FanOut(parts)) = live
  BY <1>1 DEF Waiting
<1>3. \A i \in DOMAIN parts : i \notin live => 1 .. parts[i] = {}
  OBVIOUS
<1>4. Units(Rest(parts, FanOut(parts))) = UNION {{i} \X (1 .. parts[i]) : i \in live}
  <2>1. Rest(parts, FanOut(parts)) = [i \in live |-> parts[i]]
    BY <1>2 DEF Rest
  <2> QED
    BY <2>1 DEF Units
<1>5. Units(parts) = UNION {{i} \X (1 .. parts[i]) : i \in DOMAIN parts}
  BY DEF Units
<1>6. Units(parts) = UNION {{i} \X (1 .. parts[i]) : i \in live}
  <2>1. ASSUME NEW u \in Units(parts)
        PROVE  u \in UNION {{i} \X (1 .. parts[i]) : i \in live}
    <3>1. PICK i \in DOMAIN parts : u \in {i} \X (1 .. parts[i])
      BY <1>5
    <3>2. i \in live
      BY <1>3, <3>1
    <3> HIDE DEF live
    <3> QED
      BY <3>1, <3>2
  <2>2. live \subseteq DOMAIN parts
    OBVIOUS
  <2> HIDE DEF live
  <2> QED
    BY <1>5, <2>1, <2>2
<1>7. FanOut(parts) \in [live -> Stages]
  BY <1>1 DEF Stages
<1> QED
  BY <1>1, <1>4, <1>6, <1>7

\* A stream that ends takes its share out of what is left.
LEMMA EndedIsNotLeft ==
    ASSUME NEW s, NEW i \in DOMAIN s, s[i] # "ended",
           NEW parts, parts[i] \in Nat, IsFiniteSet(Units(Rest(parts, s))),
           NEW t, t = [s EXCEPT ![i] = "ended"]
    PROVE  /\ IsFiniteSet(Units(Rest(parts, t)))
           /\ Left(parts, t) \in Nat
           /\ Left(parts, s) = Left(parts, t) + parts[i]
<1> DEFINE new == Units(Rest(parts, t))
           one == {i}
           span == 1 .. parts[i]
           more == one \X span
<1>1. Waiting(s) = Waiting(t) \cup {i} /\ i \notin Waiting(t)
  BY DEF Waiting
<1>2. Units(Rest(parts, s)) = new \cup more /\ new \cap more = {}
  <2>1. Units(Rest(parts, s)) = UNION {{j} \X (1 .. parts[j]) : j \in Waiting(s)}
    BY DEF Units, Rest
  <2>2. new = UNION {{j} \X (1 .. parts[j]) : j \in Waiting(t)}
    BY DEF Units, Rest
  <2>3. more = {i} \X (1 .. parts[i])
    OBVIOUS
  <2> HIDE DEF new, more
  <2>4. \A u : u \in Units(Rest(parts, s)) <=> u \in new \/ u \in more
    BY <1>1, <2>1, <2>2, <2>3
  <2>5. \A u : ~(u \in new /\ u \in more)
    BY <1>1, <2>2, <2>3
  <2> QED
    BY <2>4, <2>5
<1>3. IsFiniteSet(more) /\ Cardinality(more) = parts[i]
  <2> DEFINE v == parts[i]
  <2>1. v \in Int /\ 1 \in Int /\ v \in Nat
    OBVIOUS
  <2> HIDE DEF v
  <2>2. IsFiniteSet(1 .. v) /\ Cardinality(1 .. v) = IF 1 > v THEN 0 ELSE v - 1 + 1
    BY <2>1, FS_Interval
  <2>3. IsFiniteSet(span) /\ Cardinality(span) = v
    BY <2>1, <2>2 DEF v
  <2>4. IsFiniteSet(one) /\ Cardinality(one) = 1
    BY FS_Singleton
  <2> HIDE DEF one, span
  <2>5. IsFiniteSet(more) /\ Cardinality(more) = 1 * v
    BY <2>3, <2>4, FS_Product
  <2> QED
    BY <2>1, <2>5 DEF v
<1>4. IsFiniteSet(new)
  <2>1. new \in SUBSET Units(Rest(parts, s))
    BY <1>2
  <2> QED
    BY <2>1, FS_Subset
<1>5. Left(parts, t) = Cardinality(new) /\ Left(parts, s) = Cardinality(Units(Rest(parts, s)))
  BY DEF Left, Load
<1> HIDE DEF new, more
<1>6. Cardinality(new \cup more) = Cardinality(new) + parts[i]
  <2>1. Cardinality(new) \in Nat /\ Cardinality(new \cap more) = 0
    BY <1>2, <1>4, FS_CardinalityType, FS_EmptySet
  <2>2. Cardinality(new \cup more)
           = Cardinality(new) + Cardinality(more) - Cardinality(new \cap more)
    BY <1>3, <1>4, FS_Union
  <2> QED
    BY <1>3, <2>1, <2>2
<1>7. Cardinality(new) \in Nat
  BY <1>4, FS_CardinalityType
<1> QED
  BY <1>2, <1>4, <1>5, <1>6, <1>7 DEF new

\* A stream that is answered is still to bring its share.
LEMMA OpenIsLeft ==
    ASSUME NEW s, NEW i \in DOMAIN s, s[i] # "ended", NEW parts
    PROVE  Rest(parts, [s EXCEPT ![i] = "open"]) = Rest(parts, s)
<1>1. Waiting([s EXCEPT ![i] = "open"]) = Waiting(s)
  BY DEF Waiting
<1> QED
  BY <1>1 DEF Rest

\* When all have ended nothing is left.
LEMMA NothingIsLeft ==
    ASSUME NEW s, \A i \in DOMAIN s : s[i] = "ended", NEW parts
    PROVE  Left(parts, s) = 0
<1>1. Waiting(s) = {}
  BY DEF Waiting
<1>2. Units(Rest(parts, s)) = {}
  BY <1>1 DEF Units, Rest
<1> QED
  BY <1>2, FS_EmptySet DEF Left, Load

-----------------------------------------------------------------------------
(* The books of a test *)

Plan == [down : DownPlans \cup {0}, up : UpPlans \cup {0}]
Amount == [down : Nat, up : Nat]

\* TypeOK without its bounds.
Typed ==
    /\ plan \in Plan /\ phase \in Phases
    /\ ok \in BOOLEAN /\ short \in BOOLEAN
    /\ sum \in Nat /\ result \in Amount /\ moved \in Amount

\* The streams of the direction under way, and what they are still to bring.
StreamsInv ==
    /\ phase \in {"down", "up"} =>
          /\ stream \in [{i \in DOMAIN Parts : Parts[i] > 0} -> Stages]
          /\ IsFiniteSet(Units(Rest(Parts, stream)))
          /\ Left(Parts, stream) \in Nat
    /\ phase = "up" => \A i \in DOMAIN stream : stream[i] # "open"
    /\ stream \in [DOMAIN stream -> Stages]

\* What has been added up and what is left make up the payload, or less than it
\* when a stream fell short; only an answered download has carried anything.
BooksInv ==
    /\ phase = "down" =>
          /\ moved.down = sum /\ moved.up = 0 /\ result = Nothing
          /\ sum + Left(Parts, stream) <= DownBytes
          /\ ~short => sum + Left(Parts, stream) = DownBytes
          /\ ~ok => sum = 0 /\ \A i \in DOMAIN stream : stream[i] # "open"
    /\ phase \in {"up", "done"} =>
          /\ result.down = moved.down /\ moved.down <= DownBytes
          /\ ~short => moved.down = DownBytes
    /\ phase = "up" =>
          /\ result.up = 0
          /\ moved.up + Left(Parts, stream) <= UpBytes
          /\ sum + Left(Parts, stream) <= UpBytes
          /\ ~short => sum + Left(Parts, stream) = UpBytes
    /\ phase = "done" =>
          /\ result.up = sum /\ sum <= UpBytes /\ moved.up <= UpBytes
          /\ ~short => sum = UpBytes
    /\ phase \in {"idle", "failed"} => moved = Nothing /\ result = Nothing /\ sum = 0

TestInv == Typed /\ StreamsInv /\ BooksInv

\* The payloads have their bounds.
LEMMA PayloadsBounded ==
    ASSUME NEW down \in Int, NEW up \in Int
    PROVE  /\ BytesForMbit(down) \in 0 .. DownMax
           /\ BytesForMbitUp(up) \in 0 .. UpMax
           /\ DownMax \in Nat /\ UpMax \in Nat /\ UpMax <= DownMax
           /\ DownMax + UpMax <= DailyBudget
<1>0. down * BytesPerMbit \in Int /\ up * BytesPerMbit \in Int
  BY SMT DEF BytesPerMbit
<1>1. /\ DownMin \in Nat /\ DownMax \in Nat /\ DownMin <= DownMax
      /\ UpMin \in Nat /\ UpMax \in Nat /\ UpMin <= UpMax /\ UpMax <= DownMax
      /\ DownFallback \in 0 .. DownMax /\ UpFallback \in 0 .. UpMax
      /\ DownMax + UpMax <= DailyBudget
  <2>1. DownMin \in Nat /\ DownMax \in Nat /\ DownMin <= DownMax
    BY SMT DEF DownMin, DownMax
  <2>2. UpMin \in Nat /\ UpMax \in Nat /\ UpMin <= UpMax
    BY SMT DEF UpMin, UpMax
  <2>3. DownFallback \in Nat /\ DownFallback <= DownMax
    BY SMT DEF DownFallback, DownMax
  <2>4. UpFallback \in Nat /\ UpFallback <= UpMax
    BY SMT DEF UpFallback, UpMax
  <2>5. UpMax <= DownMax /\ DownMax + UpMax <= DailyBudget
    BY SMT DEF UpMax, DownMax, DailyBudget
  <2> QED
    BY <2>1, <2>2, <2>3, <2>4, <2>5
<1>2. ASSUME NEW n \in Int, NEW lo \in Nat, NEW hi \in Nat, lo <= hi
      PROVE  ClampBytes(n, lo, hi) \in 0 .. hi
  BY <1>2, SMT DEF ClampBytes
<1>3. /\ ClampBytes(down * BytesPerMbit, DownMin, DownMax) \in 0 .. DownMax
      /\ ClampBytes(up * BytesPerMbit, UpMin, UpMax) \in 0 .. UpMax
  BY <1>0, <1>1, <1>2
<1> QED
  BY <1>1, <1>3 DEF BytesForMbit, BytesForMbitUp

\* The plan and the payloads of the test under way.
LEMMA PlanPays ==
    ASSUME plan \in Plan
    PROVE  /\ plan.down \in Nat /\ plan.up \in Nat
           /\ DownBytes \in 0 .. DownMax /\ UpBytes \in 0 .. UpMax
           /\ DownBytes \in Nat /\ UpBytes \in Nat
           /\ DownMax \in Nat /\ UpMax \in Nat /\ UpMax <= DownMax
           /\ DownMax + UpMax <= DailyBudget
<1>1. plan.down \in Nat /\ plan.up \in Nat
  <2>1. DownPlans \cup {0} \subseteq Nat /\ UpPlans \cup {0} \subseteq Nat
    BY TransferAssumption
  <2>2. plan.down \in DownPlans \cup {0} /\ plan.up \in UpPlans \cup {0}
    BY DEF Plan
  <2> QED
    BY <2>1, <2>2
<1>2. /\ DownBytes \in 0 .. DownMax /\ UpBytes \in 0 .. UpMax
      /\ DownMax \in Nat /\ UpMax \in Nat /\ UpMax <= DownMax
      /\ DownMax + UpMax <= DailyBudget
  BY <1>1, PayloadsBounded DEF DownBytes, UpBytes
<1> QED
  BY <1>1, <1>2

\* The streams of a payload as they set out.
LEMMA SetOut ==
    ASSUME NEW total \in Nat
    PROVE  LET parts == Requests(total, Streams)
           IN  /\ FanOut(parts) \in [{i \in DOMAIN parts : parts[i] > 0} -> Stages]
               /\ IsFiniteSet(Units(Rest(parts, FanOut(parts))))
               /\ Left(parts, FanOut(parts)) = total
               /\ \A i \in DOMAIN FanOut(parts) : FanOut(parts)[i] = "sent"
<1> DEFINE n == StreamsFor(total, Streams)
           parts == Requests(total, Streams)
<1>1. Streams \in Int
  BY TransferAssumption
<1>2. /\ parts \in [0 .. n - 1 -> 0 .. RequestMax]
      /\ IsFiniteSet(Units(parts)) /\ Load(parts) = total
  BY <1>1, RequestsAreThePayload
<1>3. n \in Nat /\ RequestMax \in Nat
  <2>1. RequestMax \in Nat
    BY SMT DEF RequestMax
  <2> QED
    BY <1>1, <2>1, StreamsHoldThePayload
<1> HIDE DEF n, parts
<1>4. /\ FanOut(parts) \in [{i \in DOMAIN parts : parts[i] > 0} -> Stages]
      /\ Units(Rest(parts, FanOut(parts))) = Units(parts)
      /\ \A i \in DOMAIN FanOut(parts) : FanOut(parts)[i] = "sent"
  BY <1>2, <1>3, AllIsLeft
<1>5. /\ IsFiniteSet(Units(Rest(parts, FanOut(parts))))
      /\ Left(parts, FanOut(parts)) = total
  BY <1>2, <1>4 DEF Left, Load
<1> QED
  BY <1>4, <1>5 DEF parts

\* A stream asks for something, and for no more than the server gives.
LEMMA SharesFit ==
    ASSUME Typed, StreamsInv, phase \in {"down", "up"}, NEW i \in DOMAIN stream
    PROVE  Parts[i] \in Nat /\ Parts[i] > 0 /\ Parts[i] <= RequestMax
<1> DEFINE total == IF phase = "down" THEN DownBytes ELSE UpBytes
<1>1. total \in Nat /\ Streams \in Int
  BY PlanPays, TransferAssumption DEF Typed
<1>2. Parts = Requests(total, Streams)
  BY DEF Parts
<1> HIDE DEF total
<1>3. Parts \in [0 .. StreamsFor(total, Streams) - 1 -> 0 .. RequestMax]
  BY <1>1, <1>2, RequestsAreThePayload
<1>4. i \in DOMAIN Parts /\ Parts[i] > 0
  BY DEF StreamsInv
<1>5. Parts[i] \in 0 .. RequestMax
  BY <1>3, <1>4
<1>6. RequestMax \in Nat
  BY SMT DEF RequestMax
<1> QED
  BY <1>4, <1>5, <1>6

\* A stream that ends leaves its share less to bring.
LEMMA StreamEnds ==
    ASSUME Typed, StreamsInv, phase \in {"down", "up"},
           phase' = phase, plan' = plan,
           NEW i \in DOMAIN stream, stream[i] # "ended", Goes(i, "ended")
    PROVE  /\ StreamsInv'
           /\ Left(Parts, stream)' \in Nat
           /\ Left(Parts, stream) = Left(Parts, stream)' + Parts[i]
           /\ Parts[i] \in Nat
           /\ \A j \in DOMAIN stream' : stream'[j] # "open" \/ stream[j] = "open"
           /\ DOMAIN stream' = DOMAIN stream
<1>1. Parts' = Parts
  BY DEF Parts, DownBytes, UpBytes
<1>2. Parts[i] \in Nat
  BY SharesFit
<1>3. stream' = [stream EXCEPT ![i] = "ended"]
  BY DEF Goes
<1>4. IsFiniteSet(Units(Rest(Parts, stream)))
  BY DEF StreamsInv
<1> DEFINE parts == Parts  t == stream'
<1>5. t = [stream EXCEPT ![i] = "ended"] /\ parts[i] \in Nat
      /\ IsFiniteSet(Units(Rest(parts, stream)))
  BY <1>2, <1>3, <1>4
<1>6. parts' = parts
  BY <1>1
<1> HIDE DEF parts, t
<1>7. /\ IsFiniteSet(Units(Rest(parts, t)))
      /\ Left(parts, t) \in Nat
      /\ Left(parts, stream) = Left(parts, t) + parts[i]
  BY <1>5, EndedIsNotLeft
<1>8. Left(Parts, stream)' = Left(parts, t) /\ Rest(Parts, stream)' = Rest(parts, t)
  BY <1>1 DEF parts, t, Left, Rest, Load, Units, Waiting
<1>9. /\ stream' \in [{j \in DOMAIN Parts : Parts[j] > 0} -> Stages]
      /\ stream' \in [DOMAIN stream' -> Stages]
      /\ \A j \in DOMAIN stream' : stream'[j] # "open" \/ stream[j] = "open"
      /\ DOMAIN stream' = DOMAIN stream
  BY <1>3 DEF StreamsInv, Stages
<1>10. StreamsInv'
  <2>1. IsFiniteSet(Units(Rest(Parts, stream)))'
    BY <1>7, <1>8 DEF Units
  <2>2. phase = "up" => \A j \in DOMAIN stream' : stream'[j] # "open"
    BY <1>9 DEF StreamsInv
  <2> QED
    BY <1>1, <1>7, <1>8, <1>9, <2>1, <2>2 DEF StreamsInv
<1> QED
  BY <1>2, <1>7, <1>8, <1>9, <1>10 DEF parts
\* What a stream carries is of its share.
LEMMA AmountsFit ==
    ASSUME NEW n \in Nat, NEW m \in Amounts(n)
    PROVE  m \in Nat /\ m <= n
BY TransferAssumption DEF Amounts

\* The books agree at every moment of a test.
THEOREM TestCorrect == Spec => []TestInv
<1>1. Init => TestInv
  <2> SUFFICES ASSUME Init PROVE TestInv
    OBVIOUS
  <2>1. Nothing \in Plan /\ Nothing \in Amount /\ plan = Nothing
    BY DEF Init, Nothing, Plan, Amount
  <2>2. stream = <<>> /\ stream \in [DOMAIN stream -> Stages]
    BY DEF Init
  <2> QED
    BY <2>1, <2>2 DEF Init, TestInv, Typed, StreamsInv, BooksInv, Phases
<1>2. TestInv /\ [Next]_vars => TestInv'
  <2> SUFFICES ASSUME TestInv, [Next]_vars PROVE TestInv'
    OBVIOUS
  <2>t. /\ Typed /\ StreamsInv /\ BooksInv
        /\ sum \in Nat /\ moved.down \in Nat /\ moved.up \in Nat
        /\ DownBytes \in Nat /\ UpBytes \in Nat
    BY PlanPays DEF TestInv, Typed, Amount
  <2>1. CASE Start
    <3>1. PICK down \in DownPlans, up \in UpPlans :
             /\ plan' = [down |-> down, up |-> up]
             /\ stream' = FanOut(Requests(BytesForMbit(down), Streams))
      BY <2>1 DEF Start
    <3>2. /\ phase' = "down" /\ ok' = FALSE /\ sum' = 0
          /\ result' = Nothing /\ moved' = Nothing /\ short' = FALSE
      BY <2>1 DEF Start
    <3>3. plan' \in Plan /\ plan'.down = down /\ down \in Int /\ 0 \in Int
      BY <3>1, TransferAssumption DEF Plan
    <3> DEFINE total == BytesForMbit(down)
    <3>4. DownBytes' = total /\ Parts' = Requests(total, Streams)
      BY <3>2, <3>3 DEF Parts, DownBytes
    <3>5. total \in Nat
      BY <3>3, PayloadsBounded
    <3> HIDE DEF total
    <3> DEFINE parts == Requests(total, Streams)  s == FanOut(parts)
    <3>6. /\ s \in [{i \in DOMAIN parts : parts[i] > 0} -> Stages]
          /\ IsFiniteSet(Units(Rest(parts, s)))
          /\ Left(parts, s) = total
          /\ \A i \in DOMAIN s : s[i] = "sent"
      BY <3>5, SetOut
    <3>7. stream' = s /\ Parts' = parts
      BY <3>1, <3>4 DEF total
    <3> HIDE DEF parts, s
    <3>8. Left(Parts, stream)' = total /\ IsFiniteSet(Units(Rest(Parts, stream)))'
      BY <3>6, <3>7 DEF Left, Load, Units, Rest, Waiting
    <3>9. StreamsInv'
      BY <3>2, <3>5, <3>6, <3>7, <3>8 DEF StreamsInv
    <3>10. Nothing \in Amount /\ Nothing.down = 0 /\ Nothing.up = 0
      BY DEF Nothing, Amount
    <3>11. Typed'
      BY <3>2, <3>3, <3>10 DEF Typed, Phases
    <3>12. BooksInv'
      BY <3>2, <3>4, <3>5, <3>6, <3>7, <3>8, <3>10 DEF BooksInv
    <3> QED
      BY <3>9, <3>11, <3>12 DEF TestInv
  <2>2. ASSUME NEW i \in DOMAIN stream, Answered(i) PROVE TestInv'
    <3>1. /\ phase = "down" /\ stream[i] = "sent" /\ ok' = TRUE
          /\ stream' = [stream EXCEPT ![i] = "open"]
          /\ plan' = plan /\ phase' = phase /\ sum' = sum /\ result' = result
          /\ moved' = moved /\ short' = short
      BY <2>2 DEF Answered, At, Goes
    <3>2. Parts' = Parts /\ DownBytes' = DownBytes
      BY <3>1 DEF Parts, DownBytes, UpBytes
    <3> DEFINE parts == Parts  s == stream  t == stream'
    <3>3. t = [s EXCEPT ![i] = "open"] /\ i \in DOMAIN s /\ s[i] # "ended"
      BY <3>1
    <3>4. Rest(parts, t) = Rest(parts, s)
      <4> HIDE DEF parts, s, t
      <4> QED
        BY <3>3, OpenIsLeft
    <3>5. /\ Left(Parts, stream)' = Left(Parts, stream)
          /\ Units(Rest(Parts, stream))' = Units(Rest(Parts, stream))
      BY <3>2, <3>4 DEF Left, Load, Units, Rest, Waiting
    <3>6. /\ stream' \in [{j \in DOMAIN Parts : Parts[j] > 0} -> Stages]
          /\ stream' \in [DOMAIN stream' -> Stages]
      BY <2>t, <3>1 DEF StreamsInv, Stages
    <3>7. StreamsInv'
      BY <2>t, <3>1, <3>2, <3>5, <3>6 DEF StreamsInv
    <3>8. Typed'
      BY <2>t, <3>1 DEF Typed
    <3>9. BooksInv'
      BY <2>t, <3>1, <3>2, <3>5 DEF BooksInv
    <3> QED
      BY <3>7, <3>8, <3>9 DEF TestInv
  <2>3. ASSUME NEW i \in DOMAIN stream, Refused(i) PROVE TestInv'
    <3>1. /\ phase = "down" /\ stream[i] = "sent" /\ Goes(i, "ended") /\ short' = TRUE
          /\ plan' = plan /\ phase' = phase /\ sum' = sum /\ result' = result
          /\ moved' = moved /\ ok' = ok
      BY <2>3 DEF Refused, At
    <3>2. /\ StreamsInv' /\ Left(Parts, stream)' \in Nat
          /\ Left(Parts, stream) = Left(Parts, stream)' + Parts[i] /\ Parts[i] \in Nat
          /\ \A j \in DOMAIN stream' : stream'[j] # "open" \/ stream[j] = "open"
          /\ DOMAIN stream' = DOMAIN stream
      BY <2>t, <3>1, StreamEnds
    <3>3. DownBytes' = DownBytes
      BY <3>1 DEF DownBytes
    <3>4. Typed'
      BY <2>t, <3>1 DEF Typed
    <3>5. sum + Left(Parts, stream)' <= DownBytes
      BY <2>t, <3>1, <3>2 DEF BooksInv
    <3>6. BooksInv'
      BY <2>t, <3>1, <3>2, <3>3, <3>5 DEF BooksInv
    <3> QED
      BY <3>2, <3>4, <3>6 DEF TestInv
  <2>4. ASSUME NEW i \in DOMAIN stream, Read(i) PROVE TestInv'
    <3>0. PICK m \in Amounts(Parts[i]) : sum' = sum + m /\ Carries(i, "down", m)
      BY <2>4 DEF Read
    <3>1. /\ phase = "down" /\ stream[i] = "open" /\ Goes(i, "ended")
          /\ plan' = plan /\ phase' = phase /\ ok' = ok /\ result' = result
          /\ sum' = sum + m /\ short' = (short \/ m < Parts[i])
          /\ moved' = [moved EXCEPT !.down = moved.down + m]
      BY <2>4, <3>0 DEF Read, At, Carries
    <3>2. /\ StreamsInv' /\ Left(Parts, stream)' \in Nat
          /\ Left(Parts, stream) = Left(Parts, stream)' + Parts[i] /\ Parts[i] \in Nat
      BY <2>t, <3>1, StreamEnds
    <3>3. DownBytes' = DownBytes
      BY <3>1 DEF DownBytes
    <3>4. m \in Nat /\ m <= Parts[i]
      BY <3>2, AmountsFit
    <3>5. /\ moved' \in Amount /\ moved'.down = moved.down + m /\ moved'.up = moved.up
      BY <2>t, <3>1, <3>4 DEF Typed, Amount
    <3>6. Typed'
      BY <2>t, <3>1, <3>4, <3>5 DEF Typed
    <3>7. /\ sum' + Left(Parts, stream)' <= DownBytes
          /\ ~short' => sum' + Left(Parts, stream)' = DownBytes
          /\ moved'.down = sum' /\ moved'.up = 0 /\ result' = Nothing
      <4>1. /\ sum + Left(Parts, stream) <= DownBytes
            /\ ~short => sum + Left(Parts, stream) = DownBytes
            /\ moved.down = sum /\ moved.up = 0 /\ result = Nothing
        BY <2>t, <3>1 DEF BooksInv
      <4>2. ~short' => ~short /\ ~(m < Parts[i])
        BY <3>1
      <4>3. ~(m < Parts[i]) => m = Parts[i]
        BY <3>2, <3>4
      <4>4. /\ sum' + Left(Parts, stream)' <= DownBytes
            /\ sum + Left(Parts, stream) = DownBytes /\ m = Parts[i] =>
                  sum' + Left(Parts, stream)' = DownBytes
        BY <2>t, <3>1, <3>2, <3>4, <4>1
      <4> QED
        BY <3>1, <3>5, <4>1, <4>2, <4>3, <4>4
    <3>a. ok'
      BY <2>t, <3>1 DEF BooksInv
    <3>8. BooksInv'
      BY <3>1, <3>3, <3>7, <3>a DEF BooksInv
    <3> QED
      BY <3>2, <3>6, <3>8 DEF TestInv
  <2>5. ASSUME NEW i \in DOMAIN stream, Sent(i) \/ SendFails(i) PROVE TestInv'
    <3>1. PICK m \in Amounts(Parts[i]) :
             /\ moved' = [moved EXCEPT !.up = moved.up + m]
             /\ \/ sum' = sum + Parts[i] /\ (short => short')
                \/ sum' = sum /\ short'
             /\ short' \in BOOLEAN
      <4>1. CASE Sent(i)
        <5>1. PICK m \in Amounts(Parts[i]) : Carries(i, "up", m)
          BY <4>1 DEF Sent
        <5> QED
          BY <4>1, <5>1 DEF Sent, Carries
      <4>2. CASE SendFails(i)
        BY <4>2 DEF SendFails
      <4> QED
        BY <2>5, <4>1, <4>2
    <3>2. /\ phase = "up" /\ stream[i] = "sent" /\ Goes(i, "ended")
          /\ plan' = plan /\ phase' = phase /\ ok' = ok /\ result' = result
      BY <2>5 DEF Sent, SendFails, At
    <3>3. /\ StreamsInv' /\ Left(Parts, stream)' \in Nat
          /\ Left(Parts, stream) = Left(Parts, stream)' + Parts[i] /\ Parts[i] \in Nat
      BY <2>t, <3>2, StreamEnds
    <3>4. DownBytes' = DownBytes /\ UpBytes' = UpBytes
      BY <3>2 DEF DownBytes, UpBytes
    <3>5. m \in Nat /\ m <= Parts[i]
      BY <3>3, AmountsFit
    <3>6. /\ moved' \in Amount /\ moved'.up = moved.up + m /\ moved'.down = moved.down
      BY <2>t, <3>1, <3>5 DEF Typed, Amount
    <3>7. Typed'
      BY <2>t, <3>1, <3>2, <3>3, <3>6 DEF Typed
    <3>8. /\ moved'.up + Left(Parts, stream)' <= UpBytes
          /\ sum' + Left(Parts, stream)' <= UpBytes
          /\ ~short' => sum' + Left(Parts, stream)' = UpBytes
          /\ ~short' => ~short
      BY <2>t, <3>1, <3>2, <3>3, <3>5, <3>6 DEF BooksInv, Typed
    <3>9. BooksInv'
      BY <2>t, <3>2, <3>4, <3>6, <3>8 DEF BooksInv
    <3> QED
      BY <3>3, <3>7, <3>9 DEF TestInv
  <2>6. CASE Downloaded
    <3>1. /\ phase = "down" /\ \A i \in DOMAIN stream : stream[i] = "ended"
          /\ plan' = plan /\ ok' = ok /\ moved' = moved /\ short' = short
      BY <2>6 DEF Downloaded, AllEnded
    <3>2. Left(Parts, stream) = 0
      BY <3>1, NothingIsLeft
    <3>3. /\ sum <= DownBytes /\ (~short => sum = DownBytes)
          /\ moved.down = sum /\ moved.up = 0 /\ result = Nothing
          /\ ~ok => sum = 0
      BY <2>t, <3>1, <3>2 DEF BooksInv
    <3>4. DownBytes' = DownBytes /\ UpBytes' = UpBytes
      BY <3>1 DEF DownBytes, UpBytes
    <3>5. CASE ~ok /\ phase' = "failed" /\ UNCHANGED <<stream, sum, result>>
      <4>1. moved = Nothing
        BY <2>t, <3>3, <3>5 DEF Typed, Amount, Nothing
      <4> QED
        BY <2>t, <3>1, <3>3, <3>5, <4>1 DEF TestInv, Typed, StreamsInv, BooksInv, Phases
    <3>6. CASE /\ phase' = "up" /\ result' = [result EXCEPT !.down = sum] /\ sum' = 0
               /\ stream' = FanOut(Requests(UpBytes, Streams))
      <4>1. result' \in Amount /\ result'.down = sum /\ result'.up = 0
        BY <2>t, <3>3, <3>6 DEF Nothing, Amount
      <4> DEFINE total == UpBytes
      <4>2. Parts' = Requests(total, Streams) /\ total \in Nat
        BY <2>t, <3>4, <3>6 DEF Parts
      <4>s. stream' = FanOut(Requests(total, Streams))
        BY <3>6
      <4> HIDE DEF total
      <4> DEFINE parts == Requests(total, Streams)  s == FanOut(parts)
      <4>3. /\ s \in [{i \in DOMAIN parts : parts[i] > 0} -> Stages]
            /\ IsFiniteSet(Units(Rest(parts, s)))
            /\ Left(parts, s) = total
            /\ \A i \in DOMAIN s : s[i] = "sent"
        BY <4>2, SetOut
      <4>4. stream' = s /\ Parts' = parts
        BY <4>2, <4>s
      <4> HIDE DEF parts, s
      <4>5. Left(Parts, stream)' = total /\ IsFiniteSet(Units(Rest(Parts, stream)))'
        BY <4>3, <4>4 DEF Left, Load, Units, Rest, Waiting
      <4>6. StreamsInv'
        BY <3>6, <4>2, <4>3, <4>4, <4>5 DEF StreamsInv
      <4>7. Typed'
        BY <2>t, <3>1, <3>6, <4>1 DEF Typed, Phases
      <4>8. BooksInv'
        BY <2>t, <3>1, <3>3, <3>4, <3>6, <4>1, <4>2, <4>5 DEF BooksInv, total
      <4> QED
        BY <4>6, <4>7, <4>8 DEF TestInv
    <3> QED
      BY <2>6, <3>5, <3>6 DEF Downloaded
  <2>7. CASE Uploaded
    <3>1. /\ phase = "up" /\ \A i \in DOMAIN stream : stream[i] = "ended"
          /\ phase' = "done" /\ result' = [result EXCEPT !.up = sum]
          /\ plan' = plan /\ ok' = ok /\ moved' = moved /\ short' = short
          /\ stream' = stream /\ sum' = sum
      BY <2>7 DEF Uploaded, AllEnded
    <3>2. Left(Parts, stream) = 0
      BY <3>1, NothingIsLeft
    <3>3. /\ sum <= UpBytes /\ moved.up <= UpBytes /\ (~short => sum = UpBytes)
      BY <2>t, <3>1, <3>2 DEF BooksInv
    <3>4. DownBytes' = DownBytes /\ UpBytes' = UpBytes
      BY <3>1 DEF DownBytes, UpBytes
    <3>5. result' \in Amount /\ result'.up = sum /\ result'.down = result.down
      BY <2>t, <3>1 DEF Typed, Amount
    <3>6. Typed' /\ StreamsInv'
      BY <2>t, <3>1, <3>5 DEF Typed, StreamsInv, Phases
    <3>7. BooksInv'
      BY <2>t, <3>1, <3>3, <3>4, <3>5 DEF BooksInv
    <3> QED
      BY <3>6, <3>7 DEF TestInv
  <2>8. CASE UNCHANGED vars
    <3>1. Parts' = Parts /\ DownBytes' = DownBytes /\ UpBytes' = UpBytes
      BY <2>8 DEF vars, Parts, DownBytes, UpBytes
    <3>2. /\ Left(Parts, stream)' = Left(Parts, stream)
          /\ Units(Rest(Parts, stream))' = Units(Rest(Parts, stream))
      BY <2>8, <3>1 DEF vars, Left, Load, Units, Rest, Waiting
    <3> QED
      BY <2>t, <2>8, <3>1, <3>2 DEF vars, TestInv, Typed, StreamsInv, BooksInv
  <2> QED
    BY <2>1, <2>2, <2>3, <2>4, <2>5, <2>6, <2>7, <2>8 DEF Next, Progress
<1> QED
  BY <1>1, <1>2, PTL DEF Spec

\* No request is refused for its size: each asks for something, and for no more
\* than the server gives, whatever the plan and the number of streams
\* (streamsFor).
THEOREM RequestsFitHolds == Spec => []RequestsFitTheServer
<1>1. TestInv => RequestsFitTheServer
  <2> SUFFICES ASSUME TestInv, phase \in {"down", "up"}, NEW i \in DOMAIN stream
               PROVE  Parts[i] \in 1 .. RequestMax
    BY DEF RequestsFitTheServer
  <2>1. RequestMax \in Nat
    BY SMT DEF RequestMax
  <2>2. Parts[i] \in Nat /\ Parts[i] > 0 /\ Parts[i] <= RequestMax
    BY SharesFit DEF TestInv
  <2> QED
    BY <2>1, <2>2
<1> QED
  BY <1>1, TestCorrect, PTL

\* A test never puts more on the line than was held against the budget, a test
\* that fails, and so is not recorded, nothing, and one of any plan fits the
\* default budget (measureThroughput).
THEOREM LineCarriesTheCostHolds == Spec => []LineCarriesTheCost
<1>1. TestInv => LineCarriesTheCost
  <2> SUFFICES ASSUME TestInv PROVE LineCarriesTheCost
    OBVIOUS
  <2>1. /\ DownBytes \in Nat /\ UpBytes \in Nat
        /\ DownBytes \in 0 .. DownMax /\ UpBytes \in 0 .. UpMax
        /\ DownMax \in Nat /\ UpMax \in Nat /\ DownMax + UpMax <= DailyBudget
    BY PlanPays DEF TestInv, Typed
  <2>2. moved.down \in Nat /\ moved.up \in Nat /\ sum \in Nat
    BY DEF TestInv, Typed, Amount
  <2>3. moved.down <= DownBytes /\ moved.up <= UpBytes
    <3>1. CASE phase \in {"idle", "failed"}
      BY <2>1, <3>1 DEF TestInv, BooksInv, Nothing
    <3>2. CASE phase \in {"down", "up"}
      <4>1. Left(Parts, stream) \in Nat
        BY <3>2 DEF TestInv, StreamsInv
      <4> QED
        BY <2>1, <2>2, <3>2, <4>1 DEF TestInv, BooksInv
    <3>3. CASE phase = "done"
      BY <3>3 DEF TestInv, BooksInv
    <3> QED
      BY <3>1, <3>2, <3>3 DEF TestInv, Typed, Phases
  <2>4. DailyBudget \in Nat
    BY SMT DEF DailyBudget
  <2>5. phase = "failed" => moved.down = 0 /\ moved.up = 0
    BY DEF TestInv, BooksInv, Nothing
  <2> QED
    BY <2>1, <2>2, <2>3, <2>4, <2>5 DEF LineCarriesTheCost, Cost
<1> QED
  BY <1>1, TestCorrect, PTL

\* The rates are of the payload: the download's of the bytes that came, both of
\* the whole payload when no stream fell short (download, upload, splitBytes).
THEOREM RatesHold == Spec => []RatesAreOfThePayload
<1>1. TestInv => RatesAreOfThePayload
  <2> SUFFICES ASSUME TestInv, phase = "done" PROVE RatesAreOfThePayload
    BY DEF RatesAreOfThePayload
  <2>1. result.down = moved.down /\ result \in Amount
    BY DEF TestInv, BooksInv, Typed
  <2>2. ~short => result.down = DownBytes /\ result.up = UpBytes
    BY DEF TestInv, BooksInv
  <2>3. result = [down |-> result.down, up |-> result.up]
    BY <2>1 DEF Amount
  <2> QED
    BY <2>1, <2>2, <2>3 DEF RatesAreOfThePayload
<1> QED
  BY <1>1, TestCorrect, PTL

\* Every variable keeps its type and every count of bytes its bound.
THEOREM TransferTypeCorrect == Spec => []TypeOK
<1>1. TestInv => TypeOK
  <2> SUFFICES ASSUME TestInv PROVE TypeOK
    OBVIOUS
  <2>1. /\ DownBytes \in Nat /\ UpBytes \in Nat
        /\ DownBytes <= DownMax /\ UpBytes <= UpMax
        /\ DownMax \in Nat /\ UpMax \in Nat /\ UpMax <= DownMax
    BY PlanPays DEF TestInv, Typed
  <2>2. /\ sum \in Nat /\ moved \in Amount /\ result \in Amount
        /\ moved.down \in Nat /\ moved.up \in Nat
        /\ result.down \in Nat /\ result.up \in Nat
    BY DEF TestInv, Typed, Amount
  <2>3. /\ sum <= DownMax /\ moved.down <= DownMax /\ moved.up <= UpMax
        /\ result.down <= DownMax /\ result.up <= UpMax
    <3>1. CASE phase \in {"idle", "failed"}
      BY <2>1, <3>1 DEF TestInv, BooksInv, Nothing
    <3>2. CASE phase \in {"down", "up"}
      <4>1. Left(Parts, stream) \in Nat
        BY <3>2 DEF TestInv, StreamsInv
      <4>2. CASE phase = "down"
        BY <2>1, <2>2, <4>1, <4>2 DEF TestInv, BooksInv, Nothing
      <4>3. CASE phase = "up"
        BY <2>1, <2>2, <4>1, <4>3 DEF TestInv, BooksInv
      <4> QED
        BY <3>2, <4>2, <4>3
    <3>3. CASE phase = "done"
      BY <2>1, <2>2, <3>3 DEF TestInv, BooksInv
    <3> QED
      BY <3>1, <3>2, <3>3 DEF TestInv, Typed, Phases
  <2>4. /\ moved = [down |-> moved.down, up |-> moved.up]
        /\ result = [down |-> result.down, up |-> result.up]
    BY <2>2 DEF Amount
  <2>5. /\ sum \in 0 .. DownMax
        /\ moved.down \in 0 .. DownMax /\ moved.up \in 0 .. UpMax
        /\ result.down \in 0 .. DownMax /\ result.up \in 0 .. UpMax
    BY <2>1, <2>2, <2>3
  <2>6. /\ moved \in [down : 0 .. DownMax, up : 0 .. UpMax]
        /\ result \in [down : 0 .. DownMax, up : 0 .. UpMax]
    BY <2>4, <2>5
  <2> QED
    BY <2>5, <2>6 DEF TypeOK, TestInv, Typed, StreamsInv, Plan
<1> QED
  BY <1>1, TestCorrect, PTL
=============================================================================
