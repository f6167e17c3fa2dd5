--------------------------- MODULE ServiceProofs ----------------------------
(***************************************************************************)
(* Theorems about Service, for every number of targets, every deadline and *)
(* every timeout of a probe and of a lookup.                               *)
(***************************************************************************)
EXTENDS Service, TLAPS

-----------------------------------------------------------------------------
(* What the steps of a tick do to its locals *)

\* What a tick keeps while its time passes and its turn goes round.
Keeps(u, t) == /\ u.heard = t.heard /\ u.prompt = t.prompt
               /\ u.link = t.link /\ u.late = t.late

\* A wait takes its time, or what is left; everything else stays.
LEMMA SpendEffect ==
    ASSUME NEW t \in Tick, NEW s \in Nat
    PROVE  /\ Spend(t, s) \in Tick /\ Keeps(Spend(t, s), t)
           /\ Spend(t, s).pc = t.pc /\ Spend(t, s).host = t.host
           /\ Spend(t, s).left = IF s <= t.left THEN t.left - s ELSE 0
<1>1. t.left \in 0 .. Budget /\ Budget \in Nat
  BY ServiceAssumption DEF Tick
<1>2. PICK left \in 0 .. Budget :
         /\ left = IF s <= t.left THEN t.left - s ELSE 0
         /\ Spend(t, s) = [t EXCEPT !.left = left]
  <2>1. (IF s <= t.left THEN t.left - s ELSE 0) \in 0 .. Budget
    BY <1>1
  <2> QED
    BY <2>1 DEF Spend
<1> QED
  BY <1>2 DEF Tick, Keeps

\* The turn of the next host is its echo's, or the probing is over.
LEMMA TurnEffect ==
    ASSUME NEW t \in Tick, NEW h \in Nat
    PROVE  /\ Turn(t, h) \in Tick /\ Keeps(Turn(t, h), t)
           /\ Turn(t, h).left = t.left
           /\ IF h <= NTargets THEN Turn(t, h).pc = "echo" /\ Turn(t, h).host = h
                               ELSE Turn(t, h).pc = "settle" /\ Turn(t, h).host = t.host
<1>1. NTargets \in Nat
  BY ServiceAssumption
<1>2. CASE h <= NTargets
  <2>1. Turn(t, h) = [t EXCEPT !.pc = "echo", !.host = h]
    BY <1>1, <1>2 DEF Turn
  <2>2. h \in Hosts
    BY <1>1, <1>2 DEF Hosts
  <2> QED
    BY <1>2, <2>1, <2>2 DEF Tick, Keeps
<1>3. CASE ~(h <= NTargets)
  <2>1. Turn(t, h) = [t EXCEPT !.pc = "settle"]
    BY <1>1, <1>3 DEF Turn
  <2> QED
    BY <1>3, <2>1 DEF Tick, Keeps
<1> QED
  BY <1>2, <1>3

\* A host that is heard is noted, and the next has its turn.
LEMMA HearEffect ==
    ASSUME NEW t \in Tick, NEW d \in Nat, d < t.left
    PROVE  /\ Hear(t, d) \in Tick
           /\ Hear(t, d).heard = t.heard \cup {t.host}
           /\ Hear(t, d).prompt = t.prompt
           /\ Hear(t, d).link = t.link /\ Hear(t, d).late = t.late
           /\ Hear(t, d).left = t.left - d
           /\ IF t.host + 1 <= NTargets
              THEN Hear(t, d).pc = "echo" /\ Hear(t, d).host = t.host + 1
              ELSE Hear(t, d).pc = "settle" /\ Hear(t, d).host = t.host
<1> DEFINE u == [Spend(t, d) EXCEPT !.heard = @ \cup {t.host}]
<1>1. t.host \in Hosts /\ t.host + 1 \in Nat /\ t.left \in Nat
  BY ServiceAssumption DEF Tick, Hosts
<1>2. /\ u \in Tick
      /\ u.heard = t.heard \cup {t.host} /\ u.prompt = t.prompt
      /\ u.link = t.link /\ u.late = t.late
      /\ u.left = t.left - d /\ u.host = t.host
  BY <1>1, SpendEffect DEF Tick, Keeps
<1>3. Hear(t, d) = Turn(u, t.host + 1)
  BY DEF Hear
<1> HIDE DEF u
<1> DEFINE v == Turn(u, t.host + 1)
<1>4. /\ v \in Tick /\ Keeps(v, u) /\ v.left = u.left
      /\ IF t.host + 1 <= NTargets THEN v.pc = "echo" /\ v.host = t.host + 1
                                   ELSE v.pc = "settle" /\ v.host = u.host
  BY <1>1, <1>2, TurnEffect
<1> HIDE DEF v
<1>5. Hear(t, d) = v
  BY <1>3 DEF v
<1> QED
  BY <1>2, <1>4, <1>5 DEF Keeps

-----------------------------------------------------------------------------
(* The inductive invariant *)

\* Only hosts that had their turn are heard; the one probed is not yet known.
InTurn ==
    /\ tick.pc = "lookups" => tick.heard = {} /\ tick.prompt = {}
    /\ tick.pc = "echo" => \A h \in tick.heard \cup tick.prompt : h < tick.host
    /\ tick.pc = "connect" => /\ \A h \in tick.heard : h < tick.host
                              /\ \A h \in tick.prompt : h <= tick.host
    /\ tick.pc = "settle" => \A h \in tick.heard \cup tick.prompt : h <= tick.host

\* A gateway that was heard, was heard before the deadline.
TimeForTheFirst ==
    tick.pc = "echo" /\ tick.host = 1 /\ 0 \in tick.heard => tick.left > 0

\* A first target that answers echoes is missed only where the gateway was.
FirstIsHeard ==
    tick # NoTick /\ 1 \in tick.prompt => 1 \in tick.heard \/ 0 \notin tick.heard

\* A gateway has its turn over a link, and in time unless the commands and the
\* lookups took the whole deadline; its echo may have taken the rest.
GatewayTime ==
    /\ tick.pc = "echo" /\ tick.host = 0 =>
          tick.link /\ (tick.late <=> tick.left = 0)
    /\ tick.pc = "connect" /\ tick.host = 0 =>
          tick.link /\ (tick.late => tick.left = 0)

\* A gateway that answers echoes at once is missed only if its turn came late.
GatewayIsHeard ==
    tick # NoTick /\ 0 \in tick.prompt =>
        tick.link /\ (0 \in tick.heard <=> ~tick.late)

TickInv ==
    /\ InTurn /\ TimeForTheFirst /\ FirstIsHeard
    /\ proc = "up" => GatewayTime /\ GatewayIsHeard

\* The watchdog of a process that is up counts no failure the server did not
\* miss, and starts anew with the process.
DogInv ==
    /\ proc = "down" => fails = 0
    /\ proc = "up" => fails <= missed

ServiceInv == TypeOK /\ TickInv /\ DogInv

-----------------------------------------------------------------------------
(* The steps of a tick *)

\* What a tick in progress is, whatever its step.
LEMMA InTick ==
    ASSUME TypeOK, tick.pc # "idle"
    PROVE  tick \in Tick /\ tick # NoTick /\ proc \in {"up", "stopping"}
BY DEF TypeOK, NoTick

\* Between ticks there is nothing to know.
LEMMA NoTickKnowsNothing == ASSUME tick' = NoTick PROVE TickInv'
BY DEF NoTick, TickInv, InTurn, TimeForTheFirst, FirstIsHeard, GatewayTime,
       GatewayIsHeard

\* A tick begins with nobody heard, after commands that took what they took.
LEMMA TickBeginStep ==
    ASSUME TypeOK, TickBegin
    PROVE  tick' \in Tick /\ TickInv'
<1>1. PICK d \in 0 .. Budget, link \in BOOLEAN :
         tick' = [pc |-> "lookups", host |-> 0, left |-> Budget - d,
                  heard |-> {}, prompt |-> {}, link |-> link, late |-> FALSE]
  <2>1. PICK d \in Waits(Budget), link \in IF proc = "up" THEN BOOLEAN ELSE {FALSE} :
           tick' = [pc |-> "lookups", host |-> 0, left |-> Budget - d,
                    heard |-> {}, prompt |-> {}, link |-> link, late |-> FALSE]
    BY DEF TickBegin
  <2>2. d \in 0 .. Budget
    BY ServiceAssumption DEF Waits
  <2>3. link \in BOOLEAN
    OBVIOUS
  <2> QED
    BY <2>1, <2>2, <2>3
<1>2. Budget - d \in 0 .. Budget
  BY ServiceAssumption
<1>3. tick' \in Tick
  BY <1>1, <1>2, ServiceAssumption DEF Tick, Hosts
<1>4. tick'.pc = "lookups" /\ tick'.heard = {} /\ tick'.prompt = {}
  BY <1>1
<1> QED
  BY <1>3, <1>4
     DEF TickInv, InTurn, TimeForTheFirst, FirstIsHeard, GatewayTime, GatewayIsHeard

\* The lookups leave the gateway its turn; they come late when they took all.
LEMMA LookupsStep ==
    ASSUME ServiceInv, Lookups
    PROVE  tick' \in Tick /\ TickInv'
<1>1. tick \in Tick /\ proc \in {"up", "stopping"} /\ proc' = proc
  BY InTick DEF ServiceInv, Lookups, watch
<1>2. tick.heard = {} /\ tick.prompt = {}
  BY DEF ServiceInv, TickInv, InTurn, Lookups
<1>3. PICK d1 \in Waits(LookupTimeout), d2 \in Waits(LookupTimeout) :
         tick' = Turn([Spend(tick, d1 + d2) EXCEPT !.late = Late(tick, d1, d2)],
                      IF [Spend(tick, d1 + d2) EXCEPT !.late = Late(tick, d1, d2)].link
                      THEN 0 ELSE 1)
  BY DEF Lookups
<1> DEFINE u == Spend(tick, d1 + d2)
           late == Late(tick, d1, d2)
           t == [u EXCEPT !.late = late]
           h == IF t.link THEN 0 ELSE 1
<1>4. d1 \in Nat /\ d2 \in Nat /\ d1 + d2 \in Nat /\ tick.left \in Nat
  BY <1>1, ServiceAssumption DEF Waits, Tick
<1>5. /\ u \in Tick /\ Keeps(u, tick) /\ u.host = tick.host
      /\ u.left = IF d1 + d2 <= tick.left THEN tick.left - (d1 + d2) ELSE 0
  BY <1>1, <1>4, SpendEffect
<1>6. late \in BOOLEAN /\ (late <=> u.left = 0)
  BY <1>4, <1>5 DEF Late
<1>7. tick' = Turn(t, h) /\ h \in Nat /\ h <= NTargets
  BY <1>3, ServiceAssumption
<1> HIDE DEF u, late
<1>8. /\ t \in Tick /\ t.heard = {} /\ t.prompt = {} /\ t.link = tick.link
      /\ t.late = late /\ t.left = u.left
  BY <1>2, <1>5, <1>6 DEF Tick, Keeps
<1>9. h = 0 => tick.link
  BY <1>1, <1>8 DEF Tick
<1> HIDE DEF t, h
<1>10. /\ tick' \in Tick /\ Keeps(tick', t) /\ tick'.left = t.left
       /\ tick'.pc = "echo" /\ tick'.host = h
  BY <1>7, <1>8, TurnEffect
<1>11. /\ tick'.heard = {} /\ tick'.prompt = {} /\ tick'.link = tick.link
       /\ tick'.late = late
  BY <1>8, <1>10 DEF Keeps
<1>12. tick'.late <=> tick'.left = 0
  BY <1>6, <1>8, <1>10, <1>11
<1> QED
  BY <1>1, <1>9, <1>10, <1>11, <1>12
     DEF TickInv, InTurn, TimeForTheFirst, FirstIsHeard, GatewayTime, GatewayIsHeard

\* An echo that is not heard leaves the host to the connect.
LEMMA EchoStep ==
    ASSUME ServiceInv, Echo
    PROVE  tick' \in Tick /\ TickInv'
<1>1. /\ tick \in Tick /\ tick # NoTick /\ tick.pc = "echo" /\ proc' = proc
      /\ InTurn /\ TimeForTheFirst /\ FirstIsHeard
      /\ proc = "up" => GatewayTime /\ GatewayIsHeard
  BY InTick DEF ServiceInv, TickInv, Echo
<1>2. /\ PingTimeout \in Nat \ {0} /\ NTargets \in Nat \ {0} /\ tick.host \in Hosts
      /\ tick.left \in Nat /\ tick.heard \subseteq Hosts /\ tick.prompt \subseteq Hosts
      /\ tick.late \in BOOLEAN
  BY <1>1, ServiceAssumption DEF Tick
<1>3. PICK d \in 0 .. PingTimeout, replies \in BOOLEAN :
         LET t == IF replies /\ d = 0
                  THEN [tick EXCEPT !.prompt = @ \cup {tick.host}] ELSE tick
         IN  tick' = IF replies /\ d < PingTimeout /\ d < t.left
                     THEN Hear(t, d)
                     ELSE [Spend(t, d) EXCEPT !.pc = "connect"]
  BY DEF Echo
<1> DEFINE t == IF replies /\ d = 0
                THEN [tick EXCEPT !.prompt = @ \cup {tick.host}] ELSE tick
<1>4. /\ t \in Tick /\ t.pc = "echo" /\ t.left = tick.left /\ t.host = tick.host
      /\ t.heard = tick.heard /\ t.link = tick.link /\ t.late = tick.late
      /\ t.prompt = IF replies /\ d = 0 THEN tick.prompt \cup {tick.host} ELSE tick.prompt
  BY <1>1, <1>2 DEF Tick
<1>5. tick' = IF replies /\ d < PingTimeout /\ d < t.left
              THEN Hear(t, d) ELSE [Spend(t, d) EXCEPT !.pc = "connect"]
  BY <1>3
<1> HIDE DEF t
<1>6. d \in Nat /\ d <= PingTimeout
  BY <1>2
<1>7. CASE replies /\ d < PingTimeout /\ d < t.left
  <2>1. /\ tick' \in Tick /\ tick'.heard = t.heard \cup {t.host}
        /\ tick'.prompt = t.prompt /\ tick'.link = t.link
        /\ tick'.late = t.late /\ tick'.left = t.left - d
        /\ IF t.host + 1 <= NTargets
           THEN tick'.pc = "echo" /\ tick'.host = t.host + 1
           ELSE tick'.pc = "settle" /\ tick'.host = t.host
    BY <1>4, <1>5, <1>6, <1>7, HearEffect
  <2>2. InTurn'
    BY <1>1, <1>2, <1>4, <2>1 DEF InTurn, Hosts
  <2>3. TimeForTheFirst'
    BY <1>2, <1>4, <1>6, <1>7, <2>1 DEF TimeForTheFirst
  <2>4. FirstIsHeard'
    BY <1>1, <1>2, <1>4, <2>1 DEF FirstIsHeard, InTurn, Hosts
  <2>5. proc = "up" => GatewayTime'
    BY <1>2, <1>4, <2>1 DEF GatewayTime, Hosts
  <2>6. proc = "up" => GatewayIsHeard'
    BY <1>1, <1>2, <1>4, <1>7, <2>1 DEF GatewayTime, GatewayIsHeard, Hosts
  <2> QED
    BY <1>1, <2>1, <2>2, <2>3, <2>4, <2>5, <2>6 DEF TickInv
<1>8. CASE ~(replies /\ d < PingTimeout /\ d < t.left)
  <2> DEFINE u == Spend(t, d)
  <2>1. /\ u \in Tick /\ Keeps(u, t) /\ u.host = t.host
        /\ u.left = IF d <= t.left THEN t.left - d ELSE 0
    BY <1>4, <1>6, SpendEffect
  <2>2. tick' = [u EXCEPT !.pc = "connect"]
    BY <1>5, <1>8
  <2> HIDE DEF u
  <2>3. /\ tick' \in Tick /\ tick'.pc = "connect" /\ tick'.heard = tick.heard
        /\ tick'.prompt = t.prompt /\ tick'.link = tick.link
        /\ tick'.late = tick.late /\ tick'.host = tick.host
        /\ tick'.left = IF d <= tick.left THEN tick.left - d ELSE 0
    BY <1>4, <2>1, <2>2 DEF Tick, Keeps
  <2>4. replies /\ d = 0 => tick.left = 0
    BY <1>2, <1>4, <1>8
  <2>5. InTurn'
    BY <1>1, <1>2, <1>4, <2>3 DEF InTurn, Hosts
  <2>6. FirstIsHeard'
    BY <1>1, <1>2, <1>4, <2>3, <2>4 DEF FirstIsHeard, TimeForTheFirst, InTurn, Hosts
  <2>7. proc = "up" => GatewayTime'
    BY <1>1, <1>2, <1>6, <2>3 DEF GatewayTime, Hosts
  <2>8. proc = "up" => GatewayIsHeard'
    BY <1>1, <1>2, <1>4, <2>3, <2>4 DEF GatewayTime, GatewayIsHeard, InTurn, Hosts
  <2> QED
    BY <1>1, <2>3, <2>5, <2>6, <2>7, <2>8 DEF TickInv, TimeForTheFirst
<1> QED
  BY <1>7, <1>8

\* A connect that fails, or is not answered in time, passes the turn on.
LEMMA ConnectStep ==
    ASSUME ServiceInv, Connect
    PROVE  tick' \in Tick /\ TickInv'
<1>1. /\ tick \in Tick /\ tick # NoTick /\ tick.pc = "connect" /\ proc' = proc
      /\ InTurn /\ FirstIsHeard
      /\ proc = "up" => GatewayTime /\ GatewayIsHeard
  BY InTick DEF ServiceInv, TickInv, Connect
<1>2. /\ PingTimeout \in Nat \ {0} /\ NTargets \in Nat \ {0} /\ tick.host \in Hosts
      /\ tick.left \in Nat /\ tick.heard \subseteq Hosts /\ tick.prompt \subseteq Hosts
      /\ tick.late \in BOOLEAN
  BY <1>1, ServiceAssumption DEF Tick
<1>3. PICK d \in 0 .. PingTimeout :
         \/ d < PingTimeout /\ d < tick.left /\ proc = "up" /\ tick' = Hear(tick, d)
         \/ tick' = Turn(Spend(tick, IF proc = "up" THEN d ELSE 0), tick.host + 1)
  BY DEF Connect
<1>4. CASE d < tick.left /\ tick' = Hear(tick, d)
  <2>1. /\ tick' \in Tick /\ tick'.heard = tick.heard \cup {tick.host}
        /\ tick'.prompt = tick.prompt /\ tick'.link = tick.link
        /\ tick'.late = tick.late /\ tick'.left = tick.left - d
        /\ IF tick.host + 1 <= NTargets
           THEN tick'.pc = "echo" /\ tick'.host = tick.host + 1
           ELSE tick'.pc = "settle" /\ tick'.host = tick.host
    BY <1>1, <1>4, HearEffect
  <2>2. InTurn'
    BY <1>1, <1>2, <2>1 DEF InTurn, Hosts
  <2>3. TimeForTheFirst'
    BY <1>2, <1>4, <2>1 DEF TimeForTheFirst
  <2>4. FirstIsHeard'
    BY <1>1, <1>2, <2>1 DEF FirstIsHeard, InTurn, Hosts
  <2>5. proc = "up" => GatewayTime'
    BY <1>2, <2>1 DEF GatewayTime, Hosts
  <2>6. proc = "up" => GatewayIsHeard'
    BY <1>1, <1>2, <1>4, <2>1 DEF GatewayTime, GatewayIsHeard, Hosts
  <2> QED
    BY <1>1, <2>1, <2>2, <2>3, <2>4, <2>5, <2>6 DEF TickInv
<1>5. CASE tick' = Turn(Spend(tick, IF proc = "up" THEN d ELSE 0), tick.host + 1)
  <2> DEFINE s == IF proc = "up" THEN d ELSE 0
             u == Spend(tick, s)
  <2>1. s \in Nat
    OBVIOUS
  <2>2. /\ u \in Tick /\ Keeps(u, tick) /\ u.host = tick.host
        /\ u.left = IF s <= tick.left THEN tick.left - s ELSE 0
    <3> HIDE DEF s
    <3> QED
      BY <1>1, <2>1, SpendEffect
  <2>3. tick' = Turn(u, tick.host + 1) /\ tick.host + 1 \in Nat
    BY <1>2, <1>5 DEF Hosts
  <2> HIDE DEF s, u
  <2>4. /\ tick' \in Tick /\ Keeps(tick', u)
        /\ IF tick.host + 1 <= NTargets
           THEN tick'.pc = "echo" /\ tick'.host = tick.host + 1
           ELSE tick'.pc = "settle" /\ tick'.host = u.host
    BY <2>2, <2>3, TurnEffect
  <2>5. /\ tick'.heard = tick.heard /\ tick'.prompt = tick.prompt
        /\ tick'.link = tick.link /\ tick'.late = tick.late
        /\ tick'.left = u.left
    BY <2>2, <2>3, <2>4, TurnEffect DEF Keeps
  <2>6. InTurn'
    BY <1>1, <1>2, <2>2, <2>4, <2>5 DEF InTurn, Hosts
  <2>7. TimeForTheFirst'
    BY <1>1, <1>2, <2>2, <2>4, <2>5 DEF TimeForTheFirst, InTurn, Hosts
  <2>8. FirstIsHeard'
    BY <1>1, <2>5 DEF FirstIsHeard
  <2>9. proc = "up" => GatewayTime'
    BY <1>2, <2>2, <2>4 DEF GatewayTime, Hosts
  <2>10. proc = "up" => GatewayIsHeard'
    BY <1>1, <2>5 DEF GatewayIsHeard
  <2> QED
    BY <1>1, <2>4, <2>6, <2>7, <2>8, <2>9, <2>10 DEF TickInv
<1> QED
  BY <1>3, <1>4, <1>5

-----------------------------------------------------------------------------
(* Every step *)

\* A step of the tick leaves the process and the watchdog alone.
LEMMA TickAlone ==
    ASSUME ServiceInv, UNCHANGED <<proc, exit, watch>>, proc # "down",
           tick' \in Tick \cup {NoTick}, TickInv'
    PROVE  ServiceInv'
BY DEF ServiceInv, TypeOK, DogInv, watch

\* A step of the process or the watchdog leaves the tick alone, and does not
\* bring up a process that has one.
LEMMA ProcAlone ==
    ASSUME TickInv, tick' = tick, proc' # "up" \/ proc = "up" \/ tick = NoTick
    PROVE  TickInv'
<1>1. CASE proc' = "up" => proc = "up"
  BY <1>1 DEF TickInv, InTurn, TimeForTheFirst, FirstIsHeard, GatewayTime, GatewayIsHeard
<1>2. CASE tick = NoTick
  BY <1>2, NoTickKnowsNothing
<1> QED
  BY <1>1, <1>2

\* The process that ends leaves nothing behind.
LEMMA EndsStep ==
    ASSUME ServiceInv, NEW how \in {"clean", "wedged", "killed"}, Ends(how),
           missed' \in 0 .. MaxFailures
    PROVE  ServiceInv'
BY NoTickKnowsNothing, ServiceAssumption DEF ServiceInv, Ends, TypeOK, DogInv

\* A failed probe is one more failure, or the end of the process.
LEMMA MissedStep ==
    ASSUME ServiceInv, NEW next \in {"waiting", "gone"}, Missed(next),
           proc \in {"up", "stopping"}, missed' \in 0 .. MaxFailures,
           proc = "up" => missed' > fails
    PROVE  ServiceInv'
<1>t. /\ fails \in 0 .. MaxFailures - 1 /\ MaxFailures \in Nat \ {0}
      /\ missed \in 0 .. MaxFailures
  BY ServiceAssumption DEF ServiceInv, TypeOK
<1>1. CASE fails + 1 >= MaxFailures
  BY <1>1, EndsStep DEF Missed
<1>2. CASE ~(fails + 1 >= MaxFailures)
  <2>1. fails' = fails + 1 /\ dog' = next /\ UNCHANGED <<proc, exit, server, tick>>
    BY <1>2 DEF Missed
  <2>2. TickInv'
    BY <2>1, ProcAlone DEF ServiceInv
  <2>3. fails' \in 0 .. MaxFailures - 1
    BY <1>t, <1>2, <2>1
  <2>4. DogInv'
    BY <1>t, <2>1 DEF DogInv
  <2> QED
    BY <2>1, <2>2, <2>3, <2>4 DEF ServiceInv, TypeOK
<1> QED
  BY <1>1, <1>2

\* A process that was never started knows nothing.
LEMMA InitService == Init => ServiceInv
<1> SUFFICES ASSUME Init PROVE ServiceInv
  OBVIOUS
<1>1. TypeOK /\ DogInv
  BY ServiceAssumption DEF Init, TypeOK, DogInv
<1>2. TickInv
  BY DEF Init, NoTick, TickInv, InTurn, TimeForTheFirst, FirstIsHeard, GatewayTime,
         GatewayIsHeard
<1> QED
  BY <1>1, <1>2 DEF ServiceInv

\* Every step keeps what a tick and the watchdog know.
LEMMA StepService == ServiceInv /\ [Next]_vars => ServiceInv'
<1> SUFFICES ASSUME ServiceInv, [Next]_vars PROVE ServiceInv'
  OBVIOUS
<1>t. /\ TypeOK /\ TickInv /\ DogInv
      /\ MaxFailures \in Nat \ {0} /\ missed \in 0 .. MaxFailures
      /\ fails \in 0 .. MaxFailures - 1
  BY ServiceAssumption DEF ServiceInv, TypeOK
<1>p. tick.pc \in {"lookups", "echo", "connect", "settle"} => proc # "down"
  BY <1>t DEF TypeOK, NoTick
<1>1. CASE TickBegin
  BY <1>t, <1>1, TickBeginStep, TickAlone DEF TickBegin
<1>2. CASE Lookups
  BY <1>p, <1>2, LookupsStep, TickAlone DEF Lookups
<1>3. CASE Echo
  BY <1>p, <1>3, EchoStep, TickAlone DEF Echo
<1>4. CASE Connect
  BY <1>p, <1>4, ConnectStep, TickAlone DEF Connect
<1>5. CASE Settle
  BY <1>p, <1>5, NoTickKnowsNothing, TickAlone DEF Settle
<1>6. CASE Asks \/ Quits
  <2>1. TickInv'
    BY <1>t, <1>6, ProcAlone DEF Asks, Quits
  <2> QED
    BY <1>t, <1>6, <2>1 DEF Asks, Quits, ServiceInv, TypeOK, DogInv
<1>7. CASE Hears
  <2>1. TickInv'
    BY <1>t, <1>7, ProcAlone DEF Hears
  <2> QED
    BY <1>t, <1>7, <2>1 DEF Hears, ServiceInv, TypeOK, DogInv
<1>8. CASE TimesOut
  <2>1. missed' \in 0 .. MaxFailures /\ missed' > fails
    BY <1>t, <1>8 DEF TimesOut, DogInv
  <2> QED
    BY <1>8, <2>1, MissedStep DEF TimesOut
<1>9. CASE Cancelled
  BY <1>t, <1>9, MissedStep DEF Cancelled
<1>10. CASE Start
  <2>1. tick = NoTick /\ fails = 0
    BY <1>t, <1>10 DEF Start, TypeOK, DogInv
  <2>2. TickInv'
    BY <1>t, <1>10, <2>1, ProcAlone DEF Start
  <2> QED
    BY <1>t, <1>10, <2>1, <2>2 DEF Start, ServiceInv, TypeOK, DogInv
<1>11. CASE Stop
  <2>1. TickInv'
    BY <1>t, <1>11, ProcAlone DEF Stop
  <2> QED
    BY <1>t, <1>11, <2>1 DEF Stop, watch, ServiceInv, TypeOK, DogInv
<1>12. CASE MainReturns \/ Crash
  BY <1>t, <1>12, EndsStep DEF MainReturns, Crash
<1>13. CASE GoesDeaf \/ Recovers
  <2>1. TickInv'
    BY <1>t, <1>13, ProcAlone DEF GoesDeaf, Recovers
  <2> QED
    BY <1>t, <1>13, <2>1 DEF GoesDeaf, Recovers, ServiceInv, TypeOK, DogInv
<1>14. CASE UNCHANGED vars
  <2>1. TickInv'
    BY <1>t, <1>14, ProcAlone DEF vars
  <2> QED
    BY <1>t, <1>14, <2>1 DEF vars, watch, ServiceInv, TypeOK, DogInv
<1> QED
  BY <1>1, <1>2, <1>3, <1>4, <1>5, <1>6, <1>7, <1>8, <1>9, <1>10, <1>11, <1>12,
     <1>13, <1>14 DEF Next

\* The invariant of the tick and the watchdog.
THEOREM ServiceInvHolds == Spec => []ServiceInv
<1> QED
  BY InitService, StepService, PTL DEF Spec

-----------------------------------------------------------------------------
(* What it is for *)

\* The state of the process, its watchdog and its tick is well formed; a
\* process that is down has no tick.
THEOREM ServiceTypeCorrect == Spec => []TypeOK
<1>1. ServiceInv => TypeOK
  BY DEF ServiceInv
<1> QED
  BY <1>1, ServiceInvHolds, PTL

\* What the classifier makes of a silent internet (classify.go).
LEMMA SilentInternet ==
    ASSUME NEW t, t.heard \cap Targets = {}
    PROVE  Verdict(t).class = IF t.link /\ 0 \in t.heard THEN "isp" ELSE "local"
BY DEF Verdict, Classify, Outage

\* An internet that is up is nobody's fault.
LEMMA HeardInternet ==
    ASSUME NEW t, t.heard \cap Targets # {}
    PROVE  Verdict(t).class = ""
BY DEF Verdict, Classify, Outage

\* No outage is held against the ISP while the first target answers echoes at
\* once, however long the commands, the lookups and the gateway took of the tick's deadline.
THEOREM FirstTargetAcquitsHolds == Spec => []FirstTargetAcquits
<1>1. ServiceInv => FirstTargetAcquits
  <2> SUFFICES ASSUME ServiceInv, Settled, 1 \in tick.prompt
               PROVE  ~CountsAgainstISP(Verdict(tick).class)
    BY DEF FirstTargetAcquits
  <2>1. 1 \in tick.heard \/ 0 \notin tick.heard
    BY DEF ServiceInv, TickInv, FirstIsHeard, Settled, NoTick
  <2>2. 1 \in Targets
    BY ServiceAssumption DEF Targets
  <2>3. CASE tick.heard \cap Targets # {}
    BY <2>3, HeardInternet DEF CountsAgainstISP
  <2>4. CASE tick.heard \cap Targets = {}
    BY <2>1, <2>2, <2>4, SilentInternet DEF CountsAgainstISP
  <2> QED
    BY <2>3, <2>4
<1> QED
  BY <1>1, ServiceInvHolds, PTL

\* With a gateway that answers at once and no target that does, the verdict is
\* the ISP's, unless the commands and two lookups took the whole deadline: then
\* nobody had time to answer.
THEOREM OutagesAreSeenHolds == Spec => []OutagesAreSeen
<1>1. ServiceInv => OutagesAreSeen
  <2> SUFFICES ASSUME ServiceInv, Settled, 0 \in tick.prompt,
                      tick.heard \cap Targets = {}
               PROVE  Verdict(tick).class = IF tick.late THEN "local" ELSE "isp"
    BY DEF OutagesAreSeen
  <2>1. tick.link /\ (0 \in tick.heard <=> ~tick.late)
    BY DEF ServiceInv, TickInv, GatewayIsHeard, Settled, NoTick
  <2> QED
    BY <2>1, SilentInternet
<1> QED
  BY <1>1, ServiceInvHolds, PTL

\* The watchdog ends a process that is not stopping only after the server
\* missed all of the last probes.
THEOREM OnlyTheDeafAreKilledHolds == Spec => OnlyTheDeafAreKilled
<1> DEFINE Kill == proc = "up" /\ exit' = "wedged" /\ proc' = "down"
                     => missed' = MaxFailures
<1>1. ServiceInv /\ [Next]_vars => [Kill]_vars
  <2> SUFFICES ASSUME ServiceInv, Next, proc = "up", exit' = "wedged", proc' = "down"
               PROVE  missed' = MaxFailures
    OBVIOUS
  <2>t. /\ MaxFailures \in Nat \ {0} /\ missed \in 0 .. MaxFailures
        /\ fails \in 0 .. MaxFailures - 1 /\ fails <= missed
    BY ServiceAssumption DEF ServiceInv, TypeOK, DogInv
  <2>1. TimesOut
    BY DEF Next, TickBegin, Lookups, Echo, Connect, Settle, Asks, Hears, Cancelled,
           Quits, Start, Stop, MainReturns, Crash, Ends, GoesDeaf, Recovers
  <2>2. fails + 1 >= MaxFailures
    BY <2>1 DEF TimesOut, Missed
  <2> QED
    BY <2>t, <2>1, <2>2 DEF TimesOut
<1> QED
  BY <1>1, ServiceInvHolds, PTL DEF Spec, OnlyTheDeafAreKilled
=============================================================================
