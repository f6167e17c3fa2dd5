----------------------------- MODULE HiddenKey ------------------------------
(***************************************************************************)
(* Which network a tick writes to where the OS hides the router's MAC, and *)
(* what becomes of the outages of that network (internal/netid/netid.go,   *)
(* manageOutage of internal/daemon/daemon.go).  Private gateway addresses  *)
(* repeat, so the resolver extends them with the AS number of the line,    *)
(* looks it up over the line itself and remembers the answer; the memory   *)
(* dies with the process and the lookup fails during the very outage that  *)
(* is to be recorded.  The machine moves between places, the line and the  *)
(* lookup service come and go, the process exits and launchd starts it     *)
(* again, between any two steps of a tick.                                 *)
(*                                                                         *)
(* Times are left out: OutageLog dates the outages.  The age of the        *)
(* remembered key saturates at its lifetime, so no bound on time is        *)
(* needed.  What lookups that hang leave of a tick is taken from Service.  *)
(* The store does not fail here.                                           *)
(***************************************************************************)
EXTENDS Naturals

CONSTANTS
    Places,     \* the networks the machine can be on
    Gateway,    \* the gateway of a place: its MAC, or its address if hidden
    ISP,        \* the AS number of a place's line
    Hidden,     \* the places whose router MAC the OS hides
    NoASN,      \* a key without an AS number
    NoGateway,  \* the resolver remembers no key
    TTL         \* hiddenKeyTTL, in units of time

ASSUME PlacesAssumption ==
    /\ Hidden \subseteq Places
    /\ NoGateway \notin {Gateway[p] : p \in Places}
    /\ NoASN \notin {ISP[p] : p \in Places}
    /\ TTL \in Nat \ {0}

VARIABLES
    here,       \* where the machine is
    line,       \* its internet line: up, down (what is sent fails at once), or
                \* dark (it is never answered); a dead LAN is to an outage what
                \* a line that is up without the lookup service is
    service,    \* whether the lookup service answers those who reach it
    running,    \* whether the process runs
    cache,      \* Resolver.hidGW, hidASN (with hidKey) and the age of hidAt
    tick,       \* the locals of the tick in progress
    open,       \* the networks with an open outage in the store
    confirmed   \* history: a lookup answered here, since the machine came and
                \* the process started, for an observation made here

vars == <<here, line, service, running, cache, tick, open, confirmed>>

-----------------------------------------------------------------------------
(* Types *)

Gateways == {Gateway[p] : p \in Places}
ASNs == {ISP[p] : p \in Places}

\* The key of a network row, and the row a place should be recorded under.
Row == [gw : Gateways, asn : ASNs \cup {NoASN}]
BareRow(p) == [gw |-> Gateway[p], asn |-> NoASN]
RowOf(p) == IF p \in Hidden THEN [gw |-> Gateway[p], asn |-> ISP[p]]
                            ELSE BareRow(p)

Lines == {"up", "down", "dark"}
NoKey == [gw |-> NoGateway, asn |-> NoASN, age |-> TTL]

\* A tick has observed a place, then resolved it to a row.
Idle == [pc |-> "idle"]
Resolving(p) == [pc |-> "resolve", place |-> p]
\* late: the lookups have spent the time of the probes.
Managing(p, row, late) == [pc |-> "manage", place |-> p, row |-> row, late |-> late]
Ticks == {Idle} \cup [pc : {"resolve"}, place : Places]
                \cup [pc : {"manage"}, place : Places, row : Row, late : BOOLEAN]

TypeOK ==
    /\ here \in Places
    /\ line \in Lines
    /\ service \in BOOLEAN /\ running \in BOOLEAN /\ confirmed \in BOOLEAN
    /\ cache \in {NoKey} \cup [gw : Gateways, asn : ASNs, age : 0 .. TTL]
    /\ tick \in Ticks
    /\ open \subseteq Row

Init ==
    /\ here \in Places
    /\ line \in Lines
    /\ service \in BOOLEAN
    /\ running = FALSE
    /\ cache = NoKey
    /\ tick = Idle
    /\ open = {}
    /\ confirmed = FALSE

-----------------------------------------------------------------------------
(* The resolver *)

\* Mutant: a key, once found, is trusted for good.
TrustedForever(gw) == cache.gw = gw

\* The remembered key is of this gateway and young enough.
Trusted(gw) == cache.gw = gw /\ cache.age < TTL

\* Mutant: the last key, whatever gateway it was of.
AnyLastKey(gw) == [gw |-> IF cache.gw = NoGateway THEN gw ELSE cache.gw,
                   asn |-> cache.asn]

\* A lookup failed: the last key of this gateway, else the bare address.
LastKey(gw) == [gw |-> gw, asn |-> IF cache.gw = gw THEN cache.asn ELSE NoASN]

\* Mutant: an old key of the gateway is kept, its time renewed.
KeepASN(gw, asn) ==
    [gw |-> gw, asn |-> IF cache.gw = gw THEN cache.asn ELSE asn, age |-> 0]

\* Mutant: the AS number itself is not remembered.
ForgetASN(gw, asn) == [cache EXCEPT !.gw = gw, !.age = 0]

\* A lookup answered: the key to remember.
FreshKey(gw, asn) == [gw |-> gw, asn |-> asn, age |-> 0]

\* env.Observe: where the machine is when the tick starts.
Observe ==
    /\ running /\ tick.pc = "idle"
    /\ tick' = Resolving(here)
    /\ UNCHANGED <<here, line, service, running, cache, open, confirmed>>

\* The gateway's MAC is visible: it is the key.
ResolveVisible ==
    /\ tick.pc = "resolve"
    /\ tick.place \notin Hidden
    /\ tick' = Managing(tick.place, BareRow(tick.place), FALSE)
    /\ UNCHANGED <<here, line, service, running, cache, open, confirmed>>

\* hiddenKey with a key still trusted.
ResolveRemembered ==
    /\ tick.pc = "resolve"
    /\ tick.place \in Hidden
    /\ Trusted(Gateway[tick.place])
    /\ tick' = Managing(tick.place, LastKey(Gateway[tick.place]), FALSE)
    /\ UNCHANGED <<here, line, service, running, cache, open, confirmed>>

\* LinkASN answers.  It answers for the line the interface has now, which need
\* not be the one the tick observed.
ResolveLookedUp ==
    /\ tick.pc = "resolve"
    /\ tick.place \in Hidden
    /\ ~Trusted(Gateway[tick.place])
    /\ line = "up" /\ service
    /\ cache' = FreshKey(Gateway[tick.place], ISP[here])
    /\ tick' = Managing(tick.place, [gw |-> cache'.gw, asn |-> cache'.asn], FALSE)
    /\ confirmed' = (confirmed \/ tick.place = here)
    /\ UNCHANGED <<here, line, service, running, open>>

\* Mutant: no identity, no tick.
SkipTick ==
    /\ tick.pc = "resolve"
    /\ tick.place \in Hidden
    /\ ~Trusted(Gateway[tick.place])
    /\ ~(line = "up" /\ service)
    /\ tick' = Idle
    /\ UNCHANGED <<here, line, service, running, cache, open, confirmed>>

\* LinkASN fails, or answers something that is no AS number.  A row without an
\* AS number has its ISP looked up next; two lookups that hang spend the tick.
ResolveUnanswered ==
    /\ tick.pc = "resolve"
    /\ tick.place \in Hidden
    /\ ~Trusted(Gateway[tick.place])
    /\ ~(line = "up" /\ service)
    /\ LET row == LastKey(Gateway[tick.place])
       IN  \E late \in IF row.asn = NoASN /\ line # "down" THEN BOOLEAN ELSE {FALSE} :
              tick' = Managing(tick.place, row, late)
    /\ UNCHANGED <<here, line, service, running, cache, open, confirmed>>

\* The probes and manageOutage: an outage of the row is opened or kept while
\* the line is down behind a gateway that is heard, and closed otherwise.  A gap
\* the daemon closes the outage for reopens it in the same tick, if still down.
Manage ==
    /\ tick.pc = "manage"
    /\ open' = IF line # "up" /\ ~tick.late THEN open \cup {tick.row} ELSE open \ {tick.row}
    /\ tick' = Idle
    /\ UNCHANGED <<here, line, service, running, cache, confirmed>>

-----------------------------------------------------------------------------
(* The process, the machine and the world *)

\* SIGTERM, a crash or the watchdog's exit: the memory is gone, the store stays.
Exit ==
    /\ running
    /\ running' = FALSE
    /\ tick' = Idle
    /\ cache' = NoKey
    /\ confirmed' = FALSE
    /\ UNCHANGED <<here, line, service, open>>

\* launchd keeps the process alive.
Start ==
    /\ ~running
    /\ running' = TRUE
    /\ UNCHANGED <<here, line, service, cache, tick, open, confirmed>>

\* Time passes.  A sleep during which the monotonic clock stands still ages
\* nothing and is no step.
Elapse ==
    /\ cache.gw # NoGateway
    /\ cache.age < TTL
    /\ cache' = [cache EXCEPT !.age = @ + 1]
    /\ UNCHANGED <<here, line, service, running, tick, open, confirmed>>

Move ==
    /\ \E p \in Places \ {here} : here' = p
    /\ line' \in Lines
    /\ confirmed' = FALSE
    /\ UNCHANGED <<service, running, cache, tick, open>>

LineChanges ==
    /\ \E l \in Lines \ {line} : line' = l
    /\ UNCHANGED <<here, service, running, cache, tick, open, confirmed>>

ServiceChanges ==
    /\ service' = ~service
    /\ UNCHANGED <<here, line, running, cache, tick, open, confirmed>>

Resolve ==
    \/ ResolveVisible \/ ResolveRemembered
    \/ ResolveLookedUp \/ ResolveUnanswered

Next ==
    \/ Observe \/ Resolve \/ Manage
    \/ Exit \/ Start \/ Elapse
    \/ Move \/ LineChanges \/ ServiceChanges

\* The ticker fires and every call of a tick has a timeout; launchd restarts
\* the process (KeepAlive); time passes.  Exits, moves and the line are free.
Fairness ==
    /\ WF_vars(Observe) /\ WF_vars(Resolve) /\ WF_vars(Manage)
    /\ WF_vars(Start) /\ WF_vars(Elapse)

Spec == Init /\ [][Next]_vars /\ Fairness

-----------------------------------------------------------------------------
(* Properties *)

\* Whatever is remembered and whatever fails, a tick never writes under another
\* gateway than the one it observed (netid.go:57, 68: both uses of the
\* remembered key compare the gateway).
RowNamesObservedGateway ==
    tick.pc = "manage" => tick.row.gw = Gateway[tick.place]

\* Once a lookup has answered at a place, every tick there is recorded under
\* that place's own network until the machine moves or the process exits, also
\* while the lookup fails again and when the key expires (netid.go:55-70); a
\* neighbour with the same gateway address gets none of it.
ConfirmedRowIsRight ==
    confirmed /\ tick.pc = "manage" => tick.row = RowOf(here)

\* The daemon stays, from now on, at a place whose line works.
Recovered(p) ==
    /\ here = p /\ line = "up" /\ running
    /\ p \in Hidden => service

\* Recovery ends the evidence: an outage recorded under the network of a place
\* is closed for good once the machine stays there with a working line,
\* whatever key the resolver remembered when it came (manageOutage closes the
\* outage of the row the tick resolved to, and of no other; daemon.go:333).
OutagesEnd ==
    \A p \in Places : <>[]Recovered(p) => <>[](RowOf(p) \notin open)

\* The line fails in a way a tick at p sees in time.
SeenDown(p) == \/ line = "down"
               \/ line = "dark" /\ (p \in Hidden => cache.gw = Gateway[p])

\* No outage goes unrecorded for want of a fresh identity: while the line stays
\* down, an outage is open under a key of the gateway (netid.go:66-71).  Only a
\* dark line behind a hidden gateway no key is remembered for goes unseen.
OutagesAreRecorded ==
    \A p \in Places :
        <>[](here = p /\ running /\ SeenDown(p))
            => <>[](\E r \in open : r.gw = Gateway[p])

\* "An outage still open from before the gap is closed" (daemon.go:302):
\* claimed of every outage, refuted for one recorded under the bare address.
\* It is opened when the process starts, or the machine arrives, during the
\* outage; once the line is back the same place resolves to another row.
BareOutagesEnd ==
    \A p \in Hidden : <>[]Recovered(p) => <>[](BareRow(p) \notin open)
=============================================================================
