------------------------------ MODULE Service -------------------------------
(***************************************************************************)
(* The running process (cmd/netqa/main.go): the daemon's tick, the server  *)
(* and the watchdog under one context, which SIGTERM cancels, and launchd, *)
(* which starts the process again whenever it ends.  The tick is shown     *)
(* here as what its deadline makes of it (Daemon.tick and reachable,       *)
(* internal/prober/ping.go): the commands that observe the line, the       *)
(* lookups of the network's identity and the probes spend the same ten     *)
(* seconds, each as much as it takes up to its timeout, and what comes     *)
(* after the deadline, or after the context is cancelled, fails at once.   *)
(*                                                                         *)
(* Host 0 is the gateway, the others are the targets in the order of the   *)
(* configuration, given by their addresses.  Times are in whole seconds:   *)
(* an answer "at once" takes none of the time that is left.  What a tick   *)
(* records is in OutageLog, which lets every probe fail.                   *)
(***************************************************************************)
EXTENDS Classifier, Naturals

CONSTANTS
    NTargets,       \* how many targets are configured
    Budget,         \* the deadline of a tick
    PingTimeout,    \* the timeout of an ICMP and of a TCP probe
    LookupTimeout,  \* the timeout of an identity lookup
    MaxFailures     \* failed health probes before the watchdog exits

ASSUME ServiceAssumption ==
    /\ NTargets \in Nat \ {0} /\ MaxFailures \in Nat \ {0}
    /\ Budget \in Nat /\ PingTimeout \in Nat \ {0} /\ LookupTimeout \in Nat

VARIABLES
    proc,     \* the process: down, up, or stopping once ctx is cancelled
    exit,     \* history: how it ended last
    server,   \* whether /healthz is answered: well, or deaf
    dog,      \* the watchdog: waiting, asking or gone
    fails,    \* its count of failed probes
    missed,   \* history: the health probes in a row a deaf server missed
    tick      \* the locals of the tick in progress

watch == <<server, dog, fails, missed>>
vars == <<proc, exit, watch, tick>>

-----------------------------------------------------------------------------
(* Types *)

Hosts == 0 .. NTargets
Targets == 1 .. NTargets

\* left: the time to the deadline.  prompt and late are history: the hosts that
\* would answer an echo at once, and whether the commands and two lookups, each
\* taken once, took all the time there was.
Tick == [pc : {"lookups", "echo", "connect", "settle"}, host : Hosts,
         left : 0 .. Budget, heard : SUBSET Hosts, prompt : SUBSET Hosts,
         link : BOOLEAN, late : BOOLEAN]
NoTick == [pc |-> "idle"]

TypeOK ==
    /\ proc \in {"down", "up", "stopping"}
    /\ exit \in {"none", "clean", "wedged", "killed"}
    /\ server \in {"well", "deaf"}
    /\ dog \in {"waiting", "asking", "gone"}
    /\ fails \in 0 .. MaxFailures - 1
    /\ missed \in 0 .. MaxFailures
    /\ tick \in Tick \cup {NoTick}
    /\ proc = "down" => tick = NoTick

Init ==
    /\ proc = "down" /\ exit = "none"
    /\ server = "well" /\ dog = "waiting" /\ fails = 0 /\ missed = 0
    /\ tick = NoTick

-----------------------------------------------------------------------------
(* The tick *)

\* Mutant: a wait goes on past the deadline.
SpendPast(t, s) == [t EXCEPT !.left = @ - s]

\* A wait of s seconds, or to the deadline.
Spend(t, s) == [t EXCEPT !.left = IF s <= @ THEN @ - s ELSE 0]

\* The next host is probed, with an ICMP echo first.
Turn(t, h) == IF h > NTargets THEN [t EXCEPT !.pc = "settle"]
                              ELSE [t EXCEPT !.pc = "echo", !.host = h]

\* What a wait of up to s seconds may take; a cancelled context ends it at once.
Waits(s) == IF proc = "up" THEN 0 .. s ELSE {0}

\* The ticker fires; Run may prefer it to a cancelled context.  env.Observe
\* runs commands under the deadline, as long as they take; when the context is
\* cancelled they fail and it sees no link.
TickBegin ==
    /\ proc # "down" /\ tick = NoTick
    /\ \E d \in Waits(Budget), link \in IF proc = "up" THEN BOOLEAN ELSE {FALSE} :
          tick' = [pc |-> "lookups", host |-> 0, left |-> Budget - d,
                   heard |-> {}, prompt |-> {}, link |-> link, late |-> FALSE]
    /\ UNCHANGED <<proc, exit, watch>>

\* Whether two lookups of that many seconds leave nothing to the probes.
Late(t, d1, d2) == d1 + d2 >= t.left

\* Mutant: with a link, the gateway is taken to be up.
LookupsAssumeGateway ==
    /\ tick.pc = "lookups"
    /\ \E d1, d2 \in Waits(LookupTimeout) :
          LET t == [Spend(tick, d1 + d2) EXCEPT !.late = Late(tick, d1, d2)]
          IN  tick' = Turn([t EXCEPT !.heard = IF t.link THEN {0} ELSE {}], 1)
    /\ UNCHANGED <<proc, exit, watch>>

\* Mutant: a lookup that times out is tried once more.
LookupsRetry ==
    /\ tick.pc = "lookups"
    /\ \E d1, d2 \in Waits(LookupTimeout) :
          LET more == IF d1 = LookupTimeout THEN LookupTimeout ELSE 0
              t == [Spend(tick, d1 + d2 + more) EXCEPT !.late = Late(tick, d1, d2)]
          IN  tick' = Turn(t, IF t.link THEN 0 ELSE 1)
    /\ UNCHANGED <<proc, exit, watch>>

\* Resolve: a hidden gateway is looked up over the line, an unknown ISP over
\* the default route.  A lookup may answer, or fail, at any time up to its
\* timeout; one that is not made takes none.  Without a link there is no
\* gateway to probe.
Lookups ==
    /\ tick.pc = "lookups"
    /\ \E d1, d2 \in Waits(LookupTimeout) :
          LET t == [Spend(tick, d1 + d2) EXCEPT !.late = Late(tick, d1, d2)]
          IN  tick' = Turn(t, IF t.link THEN 0 ELSE 1)
    /\ UNCHANGED <<proc, exit, watch>>

Hear(t, d) == Turn([Spend(t, d) EXCEPT !.heard = @ \cup {t.host}], t.host + 1)

\* ICMPPinger.Ping: a reply after d seconds, before its timeout and the
\* deadline; or it fails: at once when nothing can be sent, whenever another
\* message comes, at the latest when its time is up.  It heeds the deadline of
\* the context and not its cancellation.
Echo ==
    /\ tick.pc = "echo"
    /\ \E d \in 0 .. PingTimeout, replies \in BOOLEAN :
          LET t == IF replies /\ d = 0
                   THEN [tick EXCEPT !.prompt = @ \cup {tick.host}] ELSE tick
          IN  tick' = IF replies /\ d < PingTimeout /\ d < t.left
                      THEN Hear(t, d)
                      ELSE [Spend(t, d) EXCEPT !.pc = "connect"]
    /\ UNCHANGED <<proc, exit, watch>>

\* TCPPinger.Ping heeds both; a port that refuses fails before the timeout.
Connect ==
    /\ tick.pc = "connect"
    /\ \E d \in 0 .. PingTimeout :
          \/ /\ d < PingTimeout /\ d < tick.left /\ proc = "up"
             /\ tick' = Hear(tick, d)
          \/ tick' = Turn(Spend(tick, IF proc = "up" THEN d ELSE 0), tick.host + 1)
    /\ UNCHANGED <<proc, exit, watch>>

\* What Classify makes of what was heard.
Verdict(t) ==
    Classify([awake |-> TRUE, wifiOn |-> t.link, gatewayUp |-> 0 \in t.heard,
              internetUp |-> t.heard \cap Targets # {}, vpn |-> FALSE,
              pathBreaksPastISP |-> FALSE])

\* The verdict is recorded and the tick is over.
Settle ==
    /\ tick.pc = "settle"
    /\ tick' = NoTick
    /\ UNCHANGED <<proc, exit, watch>>

-----------------------------------------------------------------------------
(* The watchdog *)

\* Mutant: the failures of the past are never forgiven.
HearsAndRemembers ==
    /\ dog = "asking" /\ server = "well"
    /\ dog' = "waiting"
    /\ missed' = 0
    /\ UNCHANGED <<proc, exit, server, fails, tick>>

\* healthOK.
Hears ==
    /\ dog = "asking" /\ server = "well"
    /\ dog' = "waiting" /\ fails' = 0 /\ missed' = 0
    /\ UNCHANGED <<proc, exit, server, tick>>

\* The process ends, and what it remembers with it; what was wedged is not.
Ends(how) ==
    /\ proc' = "down" /\ exit' = how
    /\ server' = "well" /\ dog' = "waiting" /\ fails' = 0
    /\ tick' = NoTick

\* Mutant: a failure counts and is forgotten.
MissedAfresh(next) ==
    IF 1 = MaxFailures THEN Ends("wedged")
    ELSE fails' = 1 /\ dog' = next /\ UNCHANGED <<proc, exit, server, tick>>

\* A probe failed; the last of too many ends the process with os.Exit(1).
Missed(next) ==
    IF fails + 1 >= MaxFailures THEN Ends("wedged")
    ELSE fails' = fails + 1 /\ dog' = next /\ UNCHANGED <<proc, exit, server, tick>>

\* The ticker fires.
Asks ==
    /\ dog = "waiting" /\ proc = "up"
    /\ dog' = "asking"
    /\ UNCHANGED <<proc, exit, server, fails, missed, tick>>

\* The probe's timeout passes on a deaf server.
TimesOut ==
    /\ dog = "asking" /\ server = "deaf" /\ proc = "up"
    /\ missed' = IF missed < MaxFailures THEN missed + 1 ELSE missed
    /\ Missed("waiting")

\* The context of the probe is cancelled, in flight or before it is sent: the
\* select of the watchdog may prefer the ticker to the cancelled context, once.
Cancelled ==
    /\ dog # "gone" /\ proc = "stopping"
    /\ missed' = missed
    /\ Missed("gone")

\* The watchdog sees the cancelled context.
Quits ==
    /\ dog = "waiting" /\ proc = "stopping"
    /\ dog' = "gone"
    /\ UNCHANGED <<proc, exit, server, fails, missed, tick>>

-----------------------------------------------------------------------------
(* The process, the server and launchd *)

\* launchd starts the process.
Start ==
    /\ proc = "down"
    /\ proc' = "up"
    /\ missed' = 0
    /\ UNCHANGED <<exit, server, dog, fails, tick>>

\* SIGTERM or SIGINT.
Stop ==
    /\ proc = "up"
    /\ proc' = "stopping"
    /\ UNCHANGED <<exit, watch, tick>>

\* Shutdown closes the listener, Serve returns and so does main: it waits for
\* neither the open requests nor the tick.
MainReturns ==
    /\ proc = "stopping"
    /\ Ends("clean")
    /\ UNCHANGED missed

Crash ==
    /\ proc # "down"
    /\ Ends("killed")
    /\ UNCHANGED missed

GoesDeaf ==
    /\ proc # "down" /\ server = "well"
    /\ server' = "deaf"
    /\ UNCHANGED <<proc, exit, dog, fails, missed, tick>>

Recovers ==
    /\ server = "deaf"
    /\ server' = "well"
    /\ UNCHANGED <<proc, exit, dog, fails, missed, tick>>

Watchdog == Asks \/ Hears \/ TimesOut \/ Cancelled \/ Quits

Next ==
    \/ TickBegin \/ Lookups \/ Echo \/ Connect \/ Settle
    \/ Asks \/ Hears \/ TimesOut \/ Cancelled \/ Quits
    \/ Start \/ Stop \/ MainReturns \/ Crash
    \/ GoesDeaf \/ Recovers

\* The watchdog's ticker fires and its probe has a timeout; nothing else is
\* needed, not even that the daemon's ticks end.
Fairness == WF_vars(Watchdog)

Spec == Init /\ [][Next]_vars /\ Fairness

-----------------------------------------------------------------------------
(* Properties *)

Settled == tick.pc = "settle" /\ proc = "up"

\* Whatever is slow before it, the first target has its turn in time if the
\* gateway had (Daemon.tick, one deadline for all): no outage is held against
\* the ISP while the first target answers echoes at once.
FirstTargetAcquits ==
    Settled /\ 1 \in tick.prompt => ~CountsAgainstISP(Verdict(tick).class)

\* An outage is seen for what it is: with a gateway that answers at once and no
\* target that does, the verdict is the ISP's, unless observing the line and
\* two lookups took the whole deadline; only then the gateway takes the blame
\* (README.md:20, the rule of the classifier; daemon.go:241-255).
OutagesAreSeen ==
    Settled /\ 0 \in tick.prompt /\ tick.heard \cap Targets = {}
        => Verdict(tick).class = IF tick.late THEN "local" ELSE "isp"

\* "Exit on sustained failure" (main.go:154): outside a shutdown the watchdog
\* ends the process only if the server missed every one of the last probes.
OnlyTheDeafAreKilled ==
    [][proc = "up" /\ exit' = "wedged" /\ proc' = "down"
         => missed' = MaxFailures]_vars

\* A server that stays deaf is replaced, whatever else happens (main.go:172-175).
TheDeafAreReplaced ==
    [](proc = "up" /\ server = "deaf"
         => <>(proc # "up" \/ server = "well"))
=============================================================================
