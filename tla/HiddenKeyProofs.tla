-------------------------- MODULE HiddenKeyProofs ---------------------------
(* The resolver of hidden-MAC networks is right about where it is once a    *)
(* lookup has answered, for every set of places, gateways and providers.    *)
EXTENDS HiddenKey, TLAPS

\* The gateway of the tick in progress is the one it observed.
GatewayKept == tick.pc = "manage" => tick.row.gw = Gateway[tick.place]

\* A confirmed resolver remembers the place it is at, and so does its tick.
RemembersHere ==
    confirmed =>
        /\ here \in Hidden
        /\ cache.gw = Gateway[here] /\ cache.asn = ISP[here]
        /\ tick.pc # "idle" => tick.place = here
        /\ tick.pc = "manage" => tick.row = RowOf(here)

KeyInv == TypeOK /\ GatewayKept /\ RemembersHere

\* What the steps of a tick are made of.
LEMMA TickShapes ==
    ASSUME TypeOK
    PROVE  /\ tick.pc = "resolve" =>
                 tick.place \in Places /\ tick = Resolving(tick.place)
           /\ tick.pc = "manage" =>
                 /\ tick.place \in Places /\ tick.row \in Row
                 /\ tick = Managing(tick.place, tick.row, tick.late)
BY DEF TypeOK, Ticks, Idle, Resolving, Managing

\* The three kinds of tick are well formed.
LEMMA TickTypes ==
    /\ Idle \in Ticks /\ Idle.pc = "idle"
    /\ \A p \in Places : Resolving(p) \in Ticks /\ Resolving(p).pc = "resolve"
                         /\ Resolving(p).place = p
    /\ \A p \in Places, row \in Row, late \in BOOLEAN :
          /\ Managing(p, row, late) \in Ticks
          /\ Managing(p, row, late).pc = "manage"
          /\ Managing(p, row, late).place = p /\ Managing(p, row, late).row = row
BY DEF Ticks, Idle, Resolving, Managing

\* The keys the resolver returns are rows, and of the gateway it was asked for.
LEMMA KeyTypes ==
    ASSUME TypeOK, NEW p \in Places
    PROVE  /\ BareRow(p) \in Row /\ BareRow(p).gw = Gateway[p]
           /\ LastKey(Gateway[p]) \in Row
           /\ LastKey(Gateway[p]).gw = Gateway[p]
<1>1. Gateway[p] \in Gateways /\ Gateway[p] # NoGateway
  BY PlacesAssumption DEF Gateways
<1>2. cache.gw = Gateway[p] => cache.asn \in ASNs
  BY <1>1 DEF TypeOK, NoKey
<1> QED
  BY <1>1, <1>2 DEF BareRow, LastKey, Row

\* The initial state remembers nothing.
LEMMA InitKey == Init => KeyInv
BY TickTypes DEF Init, KeyInv, TypeOK, GatewayKept, RemembersHere, NoKey

\* Every step keeps the resolver right.
LEMMA StepKey == KeyInv /\ [Next]_vars => KeyInv'
<1> SUFFICES ASSUME KeyInv, [Next]_vars PROVE KeyInv'
  OBVIOUS
<1>t. TypeOK /\ GatewayKept /\ RemembersHere
  BY DEF KeyInv
<1>1. CASE Observe
  <2>1. tick' = Resolving(here) /\ here \in Places
    BY <1>1, <1>t DEF Observe, TypeOK
  <2>2. tick' \in Ticks /\ tick'.pc = "resolve" /\ tick'.place = here
    BY <2>1, TickTypes
  <2> QED
    BY <1>1, <1>t, <2>2
       DEF Observe, KeyInv, TypeOK, GatewayKept, RemembersHere, RowOf, BareRow
<1>2. CASE ResolveVisible
  <2>1. tick.place \in Places /\ tick' = Managing(tick.place, BareRow(tick.place), FALSE)
    BY <1>2, <1>t, TickShapes DEF ResolveVisible
  <2>2. /\ tick' \in Ticks /\ tick'.pc = "manage"
        /\ tick'.place = tick.place /\ tick'.row = BareRow(tick.place)
        /\ tick'.row.gw = Gateway[tick.place]
    <3>1. BareRow(tick.place) \in Row /\ BareRow(tick.place).gw = Gateway[tick.place]
      BY <1>t, <2>1, KeyTypes
    <3> QED
      BY <2>1, <3>1, TickTypes
  <2>3. ~confirmed
    BY <1>2, <1>t DEF ResolveVisible, RemembersHere
  <2> QED
    BY <1>2, <1>t, <2>2, <2>3
       DEF ResolveVisible, KeyInv, TypeOK, GatewayKept, RemembersHere
<1>3. CASE ResolveRemembered \/ ResolveUnanswered
  <2>1. /\ tick.place \in Places /\ tick.place \in Hidden /\ tick.pc = "resolve"
    BY <1>3, <1>t, TickShapes DEF ResolveRemembered, ResolveUnanswered
  <2>l. \E late \in BOOLEAN :
           tick' = Managing(tick.place, LastKey(Gateway[tick.place]), late)
    BY <1>3 DEF ResolveRemembered, ResolveUnanswered
  <2>2. /\ tick' \in Ticks /\ tick'.pc = "manage"
        /\ tick'.place = tick.place
        /\ tick'.row = LastKey(Gateway[tick.place])
        /\ tick'.row.gw = Gateway[tick.place]
    <3>1. /\ LastKey(Gateway[tick.place]) \in Row
          /\ LastKey(Gateway[tick.place]).gw = Gateway[tick.place]
      BY <1>t, <2>1, KeyTypes
    <3> QED
      BY <2>1, <2>l, <3>1, TickTypes
  <2>3. confirmed => tick.place = here /\ tick'.row = RowOf(here)
    BY <1>t, <2>1, <2>2 DEF RemembersHere, RowOf, LastKey
  <2>4. UNCHANGED <<here, line, service, running, cache, open, confirmed>>
    BY <1>3 DEF ResolveRemembered, ResolveUnanswered
  <2>5. RowOf(here)' = RowOf(here)
    BY <2>4 DEF RowOf, BareRow
  <2> QED
    BY <1>t, <2>2, <2>3, <2>4, <2>5
       DEF KeyInv, TypeOK, GatewayKept, RemembersHere
<1>4. CASE ResolveLookedUp
  <2> DEFINE row == [gw |-> Gateway[tick.place], asn |-> ISP[here]]
  <2>1. /\ tick.place \in Places /\ tick.place \in Hidden /\ here \in Places
        /\ tick.pc = "resolve"
        /\ cache' = FreshKey(Gateway[tick.place], ISP[here])
        /\ tick' = Managing(tick.place, [gw |-> cache'.gw, asn |-> cache'.asn], FALSE)
        /\ confirmed' = (confirmed \/ tick.place = here)
    BY <1>4, <1>t, TickShapes DEF ResolveLookedUp, TypeOK
  <2>2. /\ cache' \in [gw : Gateways, asn : ASNs, age : 0 .. TTL]
        /\ cache'.gw = Gateway[tick.place] /\ cache'.asn = ISP[here]
    BY <2>1, PlacesAssumption DEF FreshKey, Gateways, ASNs
  <2>3. row \in Row /\ tick' = Managing(tick.place, row, FALSE)
    BY <2>1, <2>2 DEF Row, Gateways, ASNs
  <2>4. /\ tick' \in Ticks /\ tick'.pc = "manage"
        /\ tick'.place = tick.place /\ tick'.row = row
    <3>1. /\ Managing(tick.place, row, FALSE) \in Ticks
          /\ Managing(tick.place, row, FALSE).pc = "manage"
          /\ Managing(tick.place, row, FALSE).place = tick.place
          /\ Managing(tick.place, row, FALSE).row = row
      BY <2>1, <2>3 DEF Managing, Ticks
    <3> QED
      BY <2>3, <3>1
  <2>5. confirmed' => tick.place = here
    BY <1>t, <2>1 DEF RemembersHere
  <2>6. confirmed' \in BOOLEAN
    BY <1>t, <2>1 DEF TypeOK
  <2>7. UNCHANGED <<here, line, service, running, open>>
    BY <1>4 DEF ResolveLookedUp
  <2>8. TypeOK'
    BY <1>t, <2>2, <2>4, <2>6, <2>7 DEF TypeOK
  <2>9. GatewayKept'
    BY <2>4 DEF GatewayKept
  <2>10. RemembersHere'
    BY <2>1, <2>2, <2>4, <2>5, <2>7 DEF RemembersHere, RowOf
  <2> QED
    BY <2>8, <2>9, <2>10 DEF KeyInv
<1>5. CASE Manage
  <2>1. tick.row \in Row
    BY <1>5, <1>t, TickShapes DEF Manage
  <2> QED
    BY <1>5, <1>t, <2>1, TickTypes
       DEF Manage, KeyInv, TypeOK, GatewayKept, RemembersHere
<1>6. CASE Exit
  BY <1>6, <1>t, TickTypes
     DEF Exit, KeyInv, TypeOK, GatewayKept, RemembersHere
<1>7. CASE Elapse
  <2>1. cache \in [gw : Gateways, asn : ASNs, age : 0 .. TTL]
    BY <1>7, <1>t DEF Elapse, TypeOK, NoKey
  <2>2. /\ cache' \in [gw : Gateways, asn : ASNs, age : 0 .. TTL]
        /\ cache'.gw = cache.gw /\ cache'.asn = cache.asn
    BY <1>7, <2>1, PlacesAssumption DEF Elapse
  <2> QED
    BY <1>7, <1>t, <2>2
       DEF Elapse, KeyInv, TypeOK, GatewayKept, RemembersHere, RowOf, BareRow
<1>8. CASE Start \/ LineChanges \/ ServiceChanges \/ UNCHANGED vars
  <2>1. UNCHANGED <<here, cache, tick, open, confirmed>>
    BY <1>8 DEF Start, LineChanges, ServiceChanges, vars
  <2>2. line' \in Lines
    BY <1>8, <1>t DEF Start, LineChanges, ServiceChanges, vars, TypeOK
  <2>3. service' \in BOOLEAN /\ running' \in BOOLEAN
    BY <1>8, <1>t DEF Start, LineChanges, ServiceChanges, vars, TypeOK
  <2>4. RowOf(here)' = RowOf(here)
    BY <2>1 DEF RowOf, BareRow
  <2> QED
    BY <1>t, <2>1, <2>2, <2>3, <2>4
       DEF KeyInv, TypeOK, GatewayKept, RemembersHere
<1>9. CASE Move
  <2>1. here' \in Places /\ confirmed' = FALSE
    BY <1>9 DEF Move
  <2> QED
    BY <1>9, <1>t, <2>1 DEF Move, KeyInv, TypeOK, GatewayKept, RemembersHere
<1> QED
  BY <1>1, <1>2, <1>3, <1>4, <1>5, <1>6, <1>7, <1>8, <1>9 DEF Next, Resolve

THEOREM KeyInvHolds == Spec => []KeyInv
<1> QED
  BY InitKey, StepKey, PTL DEF Spec

\* The resolver's state is well formed.
THEOREM HiddenKeyTypeCorrect == Spec => []TypeOK
<1>1. KeyInv => TypeOK
  BY DEF KeyInv
<1> QED
  BY <1>1, KeyInvHolds, PTL

\* No tick writes under another gateway than the one it observed (hiddenKey
\* compares the gateway before it uses the remembered key).
THEOREM RowNamesObservedGatewayHolds == Spec => []RowNamesObservedGateway
<1>1. KeyInv => RowNamesObservedGateway
  BY DEF KeyInv, GatewayKept, RowNamesObservedGateway
<1> QED
  BY <1>1, KeyInvHolds, PTL

\* After a lookup has answered here, a tick is recorded under this place's own
\* network, however many places share the gateway address.
THEOREM ConfirmedRowIsRightHolds == Spec => []ConfirmedRowIsRight
<1>1. KeyInv => ConfirmedRowIsRight
  BY DEF KeyInv, RemembersHere, ConfirmedRowIsRight
<1> QED
  BY <1>1, KeyInvHolds, PTL
=============================================================================
