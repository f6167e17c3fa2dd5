----------------------- MODULE NetworkIdentityProofs ------------------------
(***************************************************************************)
(* Theorems about NetworkIdentity, for all networks, ISPs and numbers of   *)
(* providers, whether or not writers overlap and the VPN flips: where a    *)
(* property is about behaviours without overlap, its history variable says *)
(* so.                                                                     *)
(***************************************************************************)
EXTENDS NetworkIdentity, FiniteSetTheorems, TLAPS

-----------------------------------------------------------------------------
(* The inductive invariants *)

Ids == 0 .. Len(providers)

\* The tables; a row of one names a row of the other.
StoreTypes ==
    /\ providers \in Seq(Provider) /\ Len(providers) <= MaxProviders
    /\ networks \in [Nets -> Network]
    /\ \A n \in Nets : networks[n].provider \in Ids

\* What a writer remembers is an id of the table, whose rows are never deleted,
\* and a network once it has one to write.
TickTypes ==
    /\ resolver \in Resolving
    /\ resolver.provider \in Ids /\ resolver.row.provider \in Ids
    /\ ResolverRuns => resolver.net \in Nets

BackfillTypes ==
    /\ backfill \in Backfilling
    /\ DOMAIN backfill.known \subseteq DOMAIN providers
    /\ \A n \in Nets : backfill.rows[n].provider \in Ids
    /\ backfill.provider \in Ids /\ backfill.row.provider \in Ids
    /\ backfill.pc \in {"upsert", "write"} => backfill.net \in Nets

ChoiceTypes ==
    /\ chooser \in Choosing
    /\ chooser.provider \in Ids /\ chooser.row.provider \in Ids
    /\ ChooserRuns => chooser.net \in Nets

HistoryTypes ==
    /\ vpn \in BOOLEAN /\ overlap \in BOOLEAN /\ flipped \in BOOLEAN
    /\ chosen \in [Nets -> 0 .. MaxProviders]

TypeInv == StoreTypes /\ TickTypes /\ BackfillTypes /\ ChoiceTypes /\ HistoryTypes

\* No AS number anywhere, in a table or in a writer's hands, is the exit's; a
\* tick that is yet to look up knows whether the VPN is up.
NoExit ==
    /\ \A n \in Nets : networks[n].asn # ExitASN /\ backfill.rows[n].asn # ExitASN
    /\ \A i \in DOMAIN providers : providers[i].asn # ExitASN
    /\ resolver.row.asn # ExitASN /\ resolver.fresh # ExitASN
    /\ backfill.row.asn # ExitASN /\ backfill.fresh # ExitASN
    /\ chooser.row.asn # ExitASN
    /\ resolver.pc \in {"read", "lookup"} => resolver.vpn = vpn

ExitInv == ~flipped => NoExit

\* At most one of the writers runs.
Alone ==
    /\ ~(ResolverRuns /\ BackfillRuns) /\ ~(ResolverRuns /\ ChooserRuns)
    /\ ~(BackfillRuns /\ ChooserRuns)

\* The tick writes to the row it read, and only what that row lacks.
TickIsCurrent ==
    /\ resolver.pc = "read" => resolver.fresh = NoASN /\ resolver.provider = 0
    /\ resolver.pc \in {"lookup", "match", "create", "upsert", "write"} =>
          /\ resolver.row = networks[resolver.net]
          /\ resolver.fresh # NoASN => resolver.row.asn = NoASN
          /\ resolver.provider # 0 \/ resolver.pc \in {"match", "create"}
                => resolver.row.provider = 0

\* So does the backfill, for the row at hand and for those to do.
BackfillIsCurrent ==
    /\ backfill.pc \in {"assign", "upsert", "write"} =>
          \A n \in backfill.todo :
              networks[n].provider = 0 /\ backfill.rows[n] = networks[n]
    /\ backfill.pc \in {"upsert", "write"} =>
          /\ backfill.net \notin backfill.todo
          /\ networks[backfill.net].provider = 0
          /\ backfill.fresh = networks[backfill.net].asn
    /\ backfill.pc = "write" => backfill.row = networks[backfill.net]

\* The request to assign a network writes to the row it was shown.
ChoiceIsCurrent ==
    ChooserRuns => chooser.row = networks[chooser.net] /\ chooser.row.stored

ChoiceStands == \A n \in Nets : chosen[n] # 0 => networks[n].provider = chosen[n]

Undisturbed ==
    Alone /\ TickIsCurrent /\ BackfillIsCurrent /\ ChoiceIsCurrent /\ ChoiceStands

ChoiceInv == ~overlap => Undisturbed

Unregistered(asn) == \A i \in DOMAIN providers : providers[i].asn # asn

\* What a tick is about to register is not there.
TickRegistersTheNew == resolver.pc = "create" => Unregistered(KnownASN)

\* What the backfill knows is the table.
BackfillKnowsTheTable ==
    backfill.pc \in {"networks", "assign", "upsert", "write"} =>
        /\ DOMAIN backfill.known = DOMAIN providers
        /\ \A i \in DOMAIN providers : backfill.known[i] = providers[i]

AutoInv ==
    ~overlap => TickRegistersTheNew /\ BackfillKnowsTheTable /\ AutoProvidersAreUnique

-----------------------------------------------------------------------------
(* What the rules return *)

\* The ways to write an AS number are apart from each other.
LEMMA ASNsDiffer ==
    /\ NoASN \notin RealASNs /\ Garbage \notin RealASNs /\ ExitASN \notin ISPs
    /\ ExitASN # NoASN /\ ExitASN # Garbage /\ {NoASN, Garbage, ExitASN} \subseteq ASNs
    /\ RealASNs \subseteq ASNs /\ ISPs \subseteq ASNs
BY IdentityAssumption DEF RealASNs, ASNs

\* No provider, or one that a rule hit.
LEMMA UniqueHitIsAHit ==
    ASSUME NEW hits, IsFiniteSet(hits)
    PROVE  UniqueHit(hits) = 0 \/ UniqueHit(hits) \in hits
<1>1. CASE Cardinality(hits) = 1
  <2>1. \E i : i \in hits
    BY <1>1, FS_EmptySet
  <2> QED
    BY <1>1, <2>1 DEF UniqueHit
<1> QED
  BY <1>1 DEF UniqueHit

\* The only hit is a row of the table that was matched.
LEMMA HitIsARow ==
    ASSUME NEW ps, NEW n \in Nat, DOMAIN ps \subseteq 1 .. n, NEW net, NEW asn
    PROVE  UniqueHit(Hits(ps, net, asn)) \in {0} \cup DOMAIN ps
<1>1. Hits(ps, net, asn) \subseteq DOMAIN ps
  BY DEF Hits, ByMAC, ByASN
<1>2. IsFiniteSet(1 .. n)
  BY FS_Interval
<1>3. IsFiniteSet(Hits(ps, net, asn))
  BY <1>1, <1>2, FS_Subset
<1> QED
  BY <1>1, <1>3, UniqueHitIsAHit

\* UpsertNetwork writes one row, or none.
LEMMA UpsertEffect ==
    ASSUME NEW net, NEW row, NEW provider, NEW asn, Upsert(net, row, provider, asn)
    PROVE  \/ networks' = networks /\ ~row.stored
           \/ networks' = [networks EXCEPT ![net] = Merge(row, provider, asn)]
BY DEF Upsert

\* What it writes is a row.
LEMMA MergeType ==
    ASSUME NEW row \in Network, NEW provider \in 0 .. MaxProviders, NEW asn \in ASNs
    PROVE  /\ Merge(row, provider, asn) \in Network
           /\ Merge(row, provider, asn).stored
           /\ Merge(row, provider, asn).provider
                = IF provider # 0 THEN provider ELSE row.provider
           /\ Merge(row, provider, asn).asn = IF asn # NoASN THEN asn ELSE row.asn
BY DEF Merge, Network

-----------------------------------------------------------------------------
(* Types *)

\* What stands for nothing.
LEMMA NothingTypes ==
    /\ NoRow \in Network /\ NoRow.provider = 0 /\ NoRow.asn = NoASN
    /\ NotResolving \in Resolving /\ NotResolving.pc = "idle"
    /\ NotResolving.provider = 0 /\ NotResolving.row = NoRow
    /\ NotResolving.fresh = NoASN
    /\ NotBackfilling \in Backfilling /\ NotBackfilling.pc = "idle"
    /\ NotBackfilling.provider = 0 /\ NotBackfilling.row = NoRow
    /\ NotBackfilling.fresh = NoASN /\ DOMAIN NotBackfilling.known = {}
    /\ \A n \in Nets : NotBackfilling.rows[n] = NoRow
    /\ NotChoosing \in Choosing /\ NotChoosing.pc = "idle"
    /\ NotChoosing.provider = 0 /\ NotChoosing.row = NoRow
<1>1. NoRow \in Network /\ NoRow.provider = 0 /\ NoRow.asn = NoASN
  BY ASNsDiffer, IdentityAssumption DEF NoRow, Network
<1>2. 0 \in 0 .. MaxProviders /\ NoASN \in ASNs
  BY ASNsDiffer, IdentityAssumption
<1>3. NotResolving \in Resolving
  BY <1>1, <1>2 DEF NotResolving, Resolving
<1>4. <<>> \in UNION {[ids -> Provider] : ids \in SUBSET (1 .. MaxProviders)}
  <2>1. <<>> \in [{} -> Provider] /\ {} \in SUBSET (1 .. MaxProviders)
    OBVIOUS
  <2> QED
    BY <2>1
<1>5. [n \in Nets |-> NoRow] \in [Nets -> Network]
  BY <1>1
<1>6. NotBackfilling \in Backfilling
  BY <1>1, <1>2, <1>4, <1>5 DEF NotBackfilling, Backfilling
<1>7. NotChoosing \in Choosing
  BY <1>1, <1>2 DEF NotChoosing, Choosing
<1> QED
  BY <1>1, <1>3, <1>6, <1>7 DEF NotResolving, NotBackfilling, NotChoosing
\* Nothing is remembered and nothing is stored.
LEMMA InitType == Init => TypeInv
<1> SUFFICES ASSUME Init PROVE TypeInv
  OBVIOUS
<1>1. providers \in Seq(Provider) /\ Len(providers) = 0 /\ DOMAIN providers = {}
  BY DEF Init
<1>2. MaxProviders \in Nat
  BY IdentityAssumption
<1>3. vpn \in BOOLEAN /\ overlap \in BOOLEAN /\ flipped \in BOOLEAN
  BY Zenon DEF Init
<1>4. StoreTypes
  BY <1>1, <1>2, NothingTypes DEF Init, StoreTypes, Ids
<1>5. TickTypes /\ BackfillTypes /\ ChoiceTypes
  BY <1>1, NothingTypes
     DEF Init, TickTypes, BackfillTypes, ChoiceTypes, Ids, ResolverRuns, ChooserRuns
<1>6. HistoryTypes
  BY <1>2, <1>3 DEF Init, HistoryTypes
<1> QED
  BY <1>4, <1>5, <1>6 DEF TypeInv

\* A table that grew keeps every id that is remembered.
LEMMA GrowthKeepsIds ==
    ASSUME TypeInv, providers' \in Seq(Provider), Len(providers) <= Len(providers')
    PROVE  /\ Ids \subseteq Ids' /\ DOMAIN providers \subseteq DOMAIN providers'
           /\ resolver' = resolver => TickTypes'
           /\ backfill' = backfill => BackfillTypes'
           /\ chooser' = chooser => ChoiceTypes'
<1>1. Len(providers) \in Nat /\ Len(providers') \in Nat
  BY DEF TypeInv, StoreTypes
<1>2. Ids \subseteq Ids'
  BY <1>1 DEF Ids
<1>3. DOMAIN providers \subseteq DOMAIN providers'
  BY <1>1 DEF TypeInv, StoreTypes
<1>4. resolver' = resolver => TickTypes'
  BY <1>2 DEF TypeInv, TickTypes, ResolverRuns
<1>5. backfill' = backfill => BackfillTypes'
  BY <1>2, <1>3 DEF TypeInv, BackfillTypes
<1>6. chooser' = chooser => ChoiceTypes'
  BY <1>2 DEF TypeInv, ChoiceTypes, ChooserRuns
<1> QED
  BY <1>2, <1>3, <1>4, <1>5, <1>6

\* A provider is added at the next id.
LEMMA AppendType ==
    ASSUME TypeInv, NEW p \in Provider, Len(providers) < MaxProviders,
           providers' = Append(providers, p), UNCHANGED networks
    PROVE  /\ StoreTypes' /\ Len(providers) <= Len(providers')
           /\ NewId \in Ids' /\ NewId \in DOMAIN providers' /\ NewId # 0
           /\ NewId \in 1 .. MaxProviders
           /\ DOMAIN providers' = DOMAIN providers \cup {NewId}
           /\ NewId \notin DOMAIN providers
           /\ \A i \in DOMAIN providers : providers'[i] = providers[i]
           /\ providers'[NewId] = p
<1>1. /\ providers \in Seq(Provider) /\ Len(providers) \in Nat
      /\ MaxProviders \in Nat
  BY IdentityAssumption DEF TypeInv, StoreTypes
<1>2. /\ providers' \in Seq(Provider) /\ Len(providers') = Len(providers) + 1
      /\ \A i \in 1 .. Len(providers) : providers'[i] = providers[i]
      /\ providers'[Len(providers) + 1] = p
  BY <1>1
<1>3. Ids \subseteq Ids'
  BY <1>1, <1>2 DEF Ids
<1>4. StoreTypes'
  BY <1>1, <1>2, <1>3 DEF TypeInv, StoreTypes
<1>5. DOMAIN providers = 1 .. Len(providers) /\ DOMAIN providers' = 1 .. Len(providers')
  BY <1>1, <1>2
<1> QED
  BY <1>1, <1>2, <1>4, <1>5 DEF NewId, Ids

\* A row is written with an id of the table.
LEMMA UpsertType ==
    ASSUME TypeInv, NEW net \in Nets, NEW row \in Network, NEW provider \in Ids,
           NEW asn \in ASNs, row.provider \in Ids,
           Upsert(net, row, provider, asn), UNCHANGED providers
    PROVE  StoreTypes'
<1>1. Len(providers) \in Nat /\ MaxProviders \in Nat /\ Len(providers) <= MaxProviders
  BY IdentityAssumption DEF TypeInv, StoreTypes
<1>2. provider \in 0 .. MaxProviders /\ Ids' = Ids
  BY <1>1 DEF Ids
<1>3. /\ Merge(row, provider, asn) \in Network
      /\ Merge(row, provider, asn).provider \in Ids
  BY <1>2, MergeType
<1>4. networks \in [Nets -> Network] /\ \A n \in Nets : networks[n].provider \in Ids
  BY DEF TypeInv, StoreTypes
<1>5. /\ networks' \in [Nets -> Network]
      /\ \A n \in Nets : networks'[n].provider \in Ids
  BY <1>3, <1>4, UpsertEffect
<1> QED
  BY <1>2, <1>5 DEF TypeInv, StoreTypes

-----------------------------------------------------------------------------
(* Types, over the steps of the tick *)

\* The row of a network, and the provider it names.
LEMMA RowType ==
    ASSUME TypeInv, NEW n \in Nets
    PROVE  networks[n] \in Network /\ networks[n].provider \in Ids /\ networks[n].asn \in ASNs
BY DEF TypeInv, StoreTypes, Network

\* What a tick knows of its network.
LEMMA KnownASNType ==
    ASSUME TypeInv PROVE KnownASN \in ASNs /\ resolver.fresh \in ASNs
BY DEF TypeInv, TickTypes, Resolving, Network, KnownASN

\* The steps of the tick keep the tables and its own locals typed.
LEMMA ResolveTypes ==
    ASSUME TypeInv, Resolve
    PROVE  StoreTypes' /\ Len(providers) <= Len(providers') /\ TickTypes'
<1>t. /\ StoreTypes /\ TickTypes
      /\ Len(providers) \in Nat /\ MaxProviders \in Nat
      /\ Len(providers) <= MaxProviders /\ DOMAIN providers = 1 .. Len(providers)
      /\ Ids \subseteq 0 .. MaxProviders /\ 0 \in Ids
  BY IdentityAssumption DEF TypeInv, StoreTypes, Ids
<1>s. UNCHANGED <<providers, networks>> =>
         Len(providers) <= Len(providers') /\ StoreTypes' /\ Ids' = Ids
  BY <1>t DEF StoreTypes, Ids
<1>1. CASE Observe
  <2>1. PICK n \in Nets :
           resolver' = [NotResolving EXCEPT !.pc = "read", !.net = n, !.vpn = vpn]
    BY <1>1 DEF Observe
  <2>2. vpn \in BOOLEAN
    BY Zenon DEF TypeInv, HistoryTypes
  <2>3. /\ resolver' \in Resolving /\ resolver'.net = n
        /\ resolver'.provider = 0 /\ resolver'.row.provider = 0
    BY <2>1, <2>2, NothingTypes DEF Resolving
  <2> QED
    BY <1>1, <1>t, <1>s, <2>3 DEF Observe, TickTypes, ResolverRuns
<1>2. CASE ReadNetwork \/ ReadForUpsert
  <2>1. resolver.net \in Nets
    BY <1>2, <1>t DEF ReadNetwork, ReadForUpsert, TickTypes, ResolverRuns
  <2>2. networks[resolver.net] \in Network /\ networks[resolver.net].provider \in Ids
    BY <2>1, RowType
  <2>3. /\ resolver' \in Resolving /\ resolver'.net = resolver.net
        /\ resolver'.provider = resolver.provider
        /\ resolver'.row = networks[resolver.net]
    BY <1>2, <1>t, <2>2 DEF ReadNetwork, ReadForUpsert, TickTypes, Resolving
  <2> QED
    BY <1>2, <1>t, <1>s, <2>1, <2>2, <2>3
       DEF ReadNetwork, ReadForUpsert, TickTypes, ResolverRuns
<1>3. CASE LookupASN
  <2>1. resolver.net \in Nets
    BY <1>3, <1>t DEF LookupASN, TickTypes, ResolverRuns
  <2>2. Answers \subseteq ASNs /\ NoASN \in ASNs
    BY <2>1, ASNsDiffer, IdentityAssumption DEF Answers, ASNs, RealASNs
  <2>3. PICK answer \in ASNs :
           resolver' = [resolver EXCEPT !.fresh = answer,
                           !.pc = IF NeedsProvider THEN "match" ELSE "upsert"]
    BY <1>3, <2>2 DEF LookupASN
  <2>4. /\ resolver' \in Resolving /\ resolver'.net = resolver.net
        /\ resolver'.provider = resolver.provider /\ resolver'.row = resolver.row
    BY <1>t, <2>3 DEF TickTypes, Resolving
  <2> QED
    BY <1>3, <1>t, <1>s, <2>1, <2>4 DEF LookupASN, TickTypes, ResolverRuns
<1>4. CASE MatchRules
  <2> DEFINE id == UniqueHit(Hits(providers, resolver.net, KnownASN))
  <2>1. id \in Ids /\ id \in 0 .. MaxProviders
    <3>1. id \in {0} \cup DOMAIN providers
      BY <1>t, HitIsARow
    <3> QED
      BY <1>t, <3>1 DEF Ids
  <2>2. PICK pc \in {"create", "upsert"} :
           \/ resolver' = [resolver EXCEPT !.provider = id, !.pc = pc]
           \/ resolver' = [resolver EXCEPT !.pc = pc]
    BY <1>4 DEF MatchRules
  <2> HIDE DEF id
  <2>3. /\ resolver' \in Resolving /\ resolver'.net = resolver.net
        /\ resolver'.provider \in Ids /\ resolver'.row = resolver.row
    BY <1>t, <2>1, <2>2 DEF TickTypes, Resolving
  <2>4. resolver.net \in Nets
    BY <1>4, <1>t DEF MatchRules, TickTypes, ResolverRuns
  <2> QED
    BY <1>4, <1>t, <1>s, <2>3, <2>4 DEF MatchRules, TickTypes, ResolverRuns
<1>5. CASE RegisterProvider
  <2>1. resolver.net \in Nets
    BY <1>5, <1>t DEF RegisterProvider, TickTypes, ResolverRuns
  <2>2. CASE /\ Len(providers) < MaxProviders
             /\ providers' = Append(providers, Registered(KnownASN))
             /\ resolver' = [resolver EXCEPT !.provider = NewId, !.pc = "upsert"]
    <3>1. Registered(KnownASN) \in Provider
      BY KnownASNType DEF Registered, Provider
    <3>2. /\ StoreTypes' /\ Len(providers) <= Len(providers')
          /\ NewId \in Ids' /\ NewId \in 0 .. MaxProviders
      BY <1>5, <2>2, <3>1, AppendType DEF RegisterProvider
    <3>3. Ids \subseteq Ids'
      BY <3>2, GrowthKeepsIds DEF StoreTypes
    <3>4. /\ resolver' \in Resolving /\ resolver'.net = resolver.net
          /\ resolver'.provider = NewId /\ resolver'.row = resolver.row
      BY <1>t, <2>2, <3>2 DEF TickTypes, Resolving
    <3> QED
      BY <1>t, <2>1, <3>2, <3>3, <3>4 DEF TickTypes, ResolverRuns
  <2>3. CASE /\ resolver' = [resolver EXCEPT !.pc = "upsert"]
             /\ UNCHANGED providers
    <3>1. /\ resolver' \in Resolving /\ resolver'.net = resolver.net
          /\ resolver'.provider = resolver.provider /\ resolver'.row = resolver.row
      BY <1>t, <2>3 DEF TickTypes, Resolving
    <3> QED
      BY <1>5, <1>t, <1>s, <2>1, <2>3, <3>1 DEF RegisterProvider, TickTypes, ResolverRuns
  <2> QED
    BY <1>5, <2>2, <2>3 DEF RegisterProvider
<1>6. CASE WriteNetwork
  <2>1. resolver.net \in Nets /\ resolver.row \in Network
    BY <1>6, <1>t DEF WriteNetwork, TickTypes, ResolverRuns, Resolving
  <2>2. StoreTypes'
    BY <1>6, <1>t, <2>1, KnownASNType, UpsertType DEF WriteNetwork, TickTypes
  <2>3. TickTypes'
    BY <1>6, <1>t, NothingTypes DEF WriteNetwork, TickTypes, ResolverRuns, Ids
  <2> QED
    BY <1>6, <1>t, <2>2, <2>3 DEF WriteNetwork
<1> QED
  BY <1>1, <1>2, <1>3, <1>4, <1>5, <1>6 DEF Resolve

-----------------------------------------------------------------------------
(* Types, over the steps of the two requests *)

\* What the backfill knows, with one more provider.
LEMMA KnownType ==
    ASSUME NEW known \in UNION {[ids -> Provider] : ids \in SUBSET (1 .. MaxProviders)},
           NEW id \in 1 .. MaxProviders, NEW p \in Provider
    PROVE  /\ Known(known, id, p)
                \in UNION {[ids -> Provider] : ids \in SUBSET (1 .. MaxProviders)}
           /\ DOMAIN Known(known, id, p) = DOMAIN known \cup {id}
           /\ \A i \in DOMAIN known \cup {id} :
                 Known(known, id, p)[i] = IF i = id THEN p ELSE known[i]
<1>1. PICK ids \in SUBSET (1 .. MaxProviders) : known \in [ids -> Provider]
  OBVIOUS
<1> DEFINE more == ids \cup {id}
<1>2. Known(known, id, p) = [i \in more |-> IF i = id THEN p ELSE known[i]]
  BY <1>1 DEF Known
<1>3. Known(known, id, p) \in [more -> Provider]
  BY <1>1, <1>2
<1>4. more \in SUBSET (1 .. MaxProviders)
  OBVIOUS
<1> QED
  BY <1>1, <1>2, <1>3, <1>4

\* A provider is saved under a new id, or in the place of an old one.
LEMMA SaveProviderTypes ==
    ASSUME TypeInv, SaveProvider
    PROVE  StoreTypes' /\ Len(providers) <= Len(providers') /\ BackfillTypes'
<1>t. /\ StoreTypes /\ BackfillTypes /\ Len(providers) \in Nat
  BY DEF TypeInv, StoreTypes
<1>1. PICK asn \in ISPs \cup {NoASN}, macs \in {{}} \cup {{n} : n \in Nets} :
         LET p == [asn |-> asn, macs |-> macs, auto |-> FALSE]
         IN  \/ Len(providers) < MaxProviders /\ providers' = Append(providers, p)
             \/ \E i \in DOMAIN providers : providers' = [providers EXCEPT ![i] = p]
  BY DEF SaveProvider
<1> DEFINE p == [asn |-> asn, macs |-> macs, auto |-> FALSE]
<1>2. p \in Provider
  BY ASNsDiffer DEF Provider
<1> HIDE DEF p
<1>3. StoreTypes' /\ Len(providers) <= Len(providers')
  <2>1. CASE Len(providers) < MaxProviders /\ providers' = Append(providers, p)
    BY <1>2, <2>1, AppendType DEF SaveProvider
  <2>2. CASE \E i \in DOMAIN providers : providers' = [providers EXCEPT ![i] = p]
    <3>1. PICK i \in DOMAIN providers : providers' = [providers EXCEPT ![i] = p]
      BY <2>2
    <3>2. providers' \in Seq(Provider) /\ Len(providers') = Len(providers)
      BY <1>2, <1>t, <3>1 DEF StoreTypes
    <3> QED
      BY <1>t, <3>2 DEF SaveProvider, StoreTypes, Ids
  <2> QED
    BY <1>1, <2>1, <2>2 DEF p
<1>4. Ids \subseteq Ids' /\ DOMAIN providers \subseteq DOMAIN providers'
  BY <1>3, GrowthKeepsIds DEF StoreTypes
<1>5. /\ backfill' = [backfill EXCEPT !.pc = "providers"]
      /\ backfill' \in Backfilling /\ backfill'.known = backfill.known
      /\ backfill'.rows = backfill.rows /\ backfill'.provider = backfill.provider
      /\ backfill'.row = backfill.row /\ backfill'.pc = "providers"
  BY <1>t DEF SaveProvider, BackfillTypes, Backfilling
<1> QED
  BY <1>t, <1>3, <1>4, <1>5 DEF BackfillTypes

\* So do the steps of the backfill.
LEMMA HandleProvidersTypes ==
    ASSUME TypeInv, HandleProviders
    PROVE  StoreTypes' /\ Len(providers) <= Len(providers') /\ BackfillTypes'
<1>t. /\ StoreTypes /\ BackfillTypes
      /\ Len(providers) \in Nat /\ MaxProviders \in Nat
      /\ Len(providers) <= MaxProviders /\ DOMAIN providers = 1 .. Len(providers)
      /\ Ids \subseteq 0 .. MaxProviders /\ 0 \in Ids
  BY IdentityAssumption DEF TypeInv, StoreTypes, Ids
<1>s. UNCHANGED <<providers, networks>> =>
         /\ Len(providers) <= Len(providers') /\ StoreTypes'
         /\ Ids' = Ids /\ DOMAIN providers' = DOMAIN providers
  BY <1>t DEF StoreTypes, Ids
<1>1. CASE ReadProviders
  <2>1. providers \in UNION {[ids -> Provider] : ids \in SUBSET (1 .. MaxProviders)}
    <3>1. providers \in [1 .. Len(providers) -> Provider]
      BY <1>t DEF StoreTypes
    <3>2. 1 .. Len(providers) \in SUBSET (1 .. MaxProviders)
      BY <1>t
    <3> QED
      BY <3>1, <3>2
  <2>2. /\ backfill' \in Backfilling /\ backfill'.known = providers
        /\ backfill'.rows = backfill.rows /\ backfill'.provider = backfill.provider
        /\ backfill'.row = backfill.row /\ backfill'.pc = "networks"
    BY <1>1, <1>t, <2>1 DEF ReadProviders, BackfillTypes, Backfilling
  <2> QED
    BY <1>1, <1>t, <1>s, <2>2 DEF ReadProviders, BackfillTypes
<1>2. CASE ReadNetworks
  <2>1. Unassigned \subseteq Nets
    BY DEF Unassigned
  <2>2. /\ backfill' \in Backfilling /\ backfill'.known = backfill.known
        /\ backfill'.rows = networks /\ backfill'.provider = backfill.provider
        /\ backfill'.row = backfill.row /\ backfill'.pc = "assign"
    BY <1>2, <1>t, <2>1 DEF ReadNetworks, BackfillTypes, Backfilling, StoreTypes
  <2> QED
    BY <1>2, <1>t, <1>s, <2>2 DEF ReadNetworks, BackfillTypes, StoreTypes
<1>3. CASE AssignNext
  <2>1. PICK n \in backfill.todo :
          LET row == backfill.rows[n]
              hits == Hits(backfill.known, n, row.asn)
              next == [backfill EXCEPT !.todo = @ \ {n}, !.net = n, !.fresh = row.asn]
          IN  \/ /\ Registers(hits, row.asn)
                 /\ Len(providers) < MaxProviders
                 /\ providers' = Append(providers, Registered(row.asn))
                 /\ backfill' = [next EXCEPT !.pc = "upsert", !.provider = NewId,
                                   !.known = Known(@, NewId, Registered(row.asn))]
              \/ /\ ~Registers(hits, row.asn)
                 /\ backfill' = IF UniqueHit(hits) = 0 THEN next
                                ELSE [next EXCEPT !.pc = "upsert",
                                                  !.provider = UniqueHit(hits)]
                 /\ UNCHANGED providers
    BY <1>3 DEF AssignNext
  <2> DEFINE asn == backfill.rows[n].asn
             id == UniqueHit(Hits(backfill.known, n, asn))
             next == [backfill EXCEPT !.todo = @ \ {n}, !.net = n, !.fresh = asn]
  <2>2. n \in Nets /\ asn \in ASNs /\ backfill.known
          \in UNION {[ids -> Provider] : ids \in SUBSET (1 .. MaxProviders)}
    BY <1>t DEF BackfillTypes, Backfilling, Network
  <2>3. id \in Ids /\ id \in 0 .. MaxProviders
    <3>1. id \in {0} \cup DOMAIN backfill.known
      BY <1>t, <2>2, HitIsARow DEF BackfillTypes
    <3> QED
      BY <1>t, <3>1 DEF BackfillTypes, Ids
  <2>4. /\ next \in Backfilling /\ next.known = backfill.known
        /\ next.rows = backfill.rows /\ next.provider = backfill.provider
        /\ next.row = backfill.row /\ next.pc = "assign" /\ next.net = n
    BY <1>3, <1>t, <2>2 DEF AssignNext, BackfillTypes, Backfilling
  <2>5. CASE /\ Len(providers) < MaxProviders
             /\ providers' = Append(providers, Registered(asn))
             /\ backfill' = [next EXCEPT !.pc = "upsert", !.provider = NewId,
                               !.known = Known(@, NewId, Registered(asn))]
    <3> DEFINE known == Known(backfill.known, NewId, Registered(asn))
    <3>1. Registered(asn) \in Provider
      BY <2>2 DEF Registered, Provider
    <3>2. /\ StoreTypes' /\ Len(providers) <= Len(providers')
          /\ NewId \in Ids' /\ NewId \in 1 .. MaxProviders
          /\ NewId \in DOMAIN providers'
      BY <1>3, <2>5, <3>1, AppendType DEF AssignNext
    <3>3. Ids \subseteq Ids' /\ DOMAIN providers \subseteq DOMAIN providers'
      BY <3>2, GrowthKeepsIds DEF StoreTypes
    <3>4. /\ known \in UNION {[ids -> Provider] : ids \in SUBSET (1 .. MaxProviders)}
          /\ DOMAIN known \subseteq DOMAIN providers'
      <4>1. /\ known \in UNION {[ids -> Provider] : ids \in SUBSET (1 .. MaxProviders)}
            /\ DOMAIN known = DOMAIN backfill.known \cup {NewId}
        BY <2>2, <3>1, <3>2, KnownType
      <4> HIDE DEF known
      <4> QED
        BY <1>t, <3>2, <3>3, <4>1 DEF BackfillTypes
    <3>5. backfill' = [next EXCEPT !.pc = "upsert", !.provider = NewId, !.known = known]
      BY <2>4, <2>5
    <3> HIDE DEF known, next, asn
    <3>n. NewId \in 0 .. MaxProviders
      BY <1>t, <3>2
    <3>6. /\ backfill' \in Backfilling /\ backfill'.known = known
          /\ backfill'.rows = next.rows /\ backfill'.provider = NewId
          /\ backfill'.row = next.row /\ backfill'.net = next.net
      BY <2>4, <3>n, <3>4, <3>5 DEF Backfilling
    <3> QED
      BY <1>t, <2>2, <2>4, <3>2, <3>3, <3>4, <3>6 DEF BackfillTypes
  <2>6. CASE /\ \/ backfill' = next
                \/ backfill' = [next EXCEPT !.pc = "upsert", !.provider = id]
             /\ UNCHANGED providers
    <3> HIDE DEF next, id, asn
    <3>1. /\ backfill' \in Backfilling /\ backfill'.known = next.known
          /\ backfill'.rows = next.rows /\ backfill'.provider \in Ids
          /\ backfill'.row = next.row /\ backfill'.net = next.net
      BY <1>t, <2>3, <2>4, <2>6 DEF Backfilling, BackfillTypes
    <3> QED
      BY <1>3, <1>t, <1>s, <2>2, <2>4, <2>6, <3>1 DEF AssignNext, BackfillTypes
  <2> QED
    BY <2>1, <2>5, <2>6
<1>4. CASE ReadForBackfill
  <2>1. backfill.net \in Nets
    BY <1>4, <1>t DEF ReadForBackfill, BackfillTypes
  <2>2. networks[backfill.net] \in Network /\ networks[backfill.net].provider \in Ids
    BY <2>1, RowType
  <2>3. /\ backfill' \in Backfilling /\ backfill'.known = backfill.known
        /\ backfill'.rows = backfill.rows /\ backfill'.provider = backfill.provider
        /\ backfill'.row = networks[backfill.net] /\ backfill'.net = backfill.net
    BY <1>4, <1>t, <2>2 DEF ReadForBackfill, BackfillTypes, Backfilling
  <2> QED
    BY <1>4, <1>t, <1>s, <2>1, <2>2, <2>3 DEF ReadForBackfill, BackfillTypes
<1>5. CASE WriteBackfilled
  <2>1. /\ backfill.net \in Nets /\ backfill.row \in Network /\ backfill.fresh \in ASNs
        /\ backfill.provider \in Ids /\ backfill.row.provider \in Ids
    BY <1>5, <1>t DEF WriteBackfilled, BackfillTypes, Backfilling
  <2>2. StoreTypes' /\ Ids' = Ids
    BY <1>5, <1>t, <2>1, UpsertType DEF WriteBackfilled, Ids
  <2>3. /\ backfill' \in Backfilling /\ backfill'.known = backfill.known
        /\ backfill'.rows = backfill.rows /\ backfill'.provider = backfill.provider
        /\ backfill'.row = backfill.row /\ backfill'.pc = "assign"
    BY <1>5, <1>t DEF WriteBackfilled, BackfillTypes, Backfilling
  <2> QED
    BY <1>5, <1>t, <2>2, <2>3 DEF WriteBackfilled, BackfillTypes
<1>6. CASE BackfillEnds
  BY <1>6, <1>t, <1>s, NothingTypes DEF BackfillEnds, BackfillTypes, Ids
<1> QED
  BY <1>1, <1>2, <1>3, <1>4, <1>5, <1>6, SaveProviderTypes DEF HandleProviders

\* So do the steps of the request to assign a network.
LEMMA HandleNetworksTypes ==
    ASSUME TypeInv, HandleNetworks
    PROVE  StoreTypes' /\ ChoiceTypes' /\ HistoryTypes'
<1>t. /\ StoreTypes /\ ChoiceTypes /\ HistoryTypes
      /\ Len(providers) \in Nat /\ MaxProviders \in Nat
      /\ Len(providers) <= MaxProviders
      /\ Ids \subseteq 0 .. MaxProviders /\ 0 \in Ids
  BY IdentityAssumption DEF TypeInv, StoreTypes, Ids
<1>1. CASE Choose
  <2>1. PICK n \in Nets, p \in 0 .. Len(providers) :
           chooser' = [pc |-> "write", net |-> n, row |-> networks[n], provider |-> p]
    BY <1>1 DEF Choose
  <2>2. networks[n] \in Network /\ networks[n].provider \in Ids
    BY RowType
  <2>3. p \in Ids /\ p \in 0 .. MaxProviders
    BY <1>t DEF Ids
  <2>4. ChoiceTypes'
    BY <1>1, <2>1, <2>2, <2>3 DEF Choose, ChoiceTypes, Choosing, ChooserRuns, Ids
  <2>5. overlap' \in BOOLEAN
    BY <1>1, Zenon DEF Choose, Starts
  <2> QED
    BY <1>1, <1>t, <2>4, <2>5 DEF Choose, StoreTypes, HistoryTypes, Ids
<1>2. CASE WriteChoice
  <2>1. /\ chooser.net \in Nets /\ chooser.row \in Network
        /\ chooser.provider \in Ids /\ chooser.row.provider \in Ids /\ NoASN \in ASNs
    BY <1>2, <1>t, ASNsDiffer DEF WriteChoice, ChoiceTypes, Choosing, ChooserRuns
  <2>2. StoreTypes' /\ Ids' = Ids
    BY <1>2, <1>t, <2>1, UpsertType DEF WriteChoice, Ids
  <2>3. ChoiceTypes'
    BY <1>2, <1>t, <2>2, NothingTypes DEF WriteChoice, ChoiceTypes, ChooserRuns
  <2>4. chosen' \in [Nets -> 0 .. MaxProviders]
    BY <1>2, <1>t, <2>1 DEF WriteChoice, HistoryTypes
  <2> QED
    BY <1>2, <1>t, <2>2, <2>3, <2>4 DEF WriteChoice, HistoryTypes
<1> QED
  BY <1>1, <1>2 DEF HandleNetworks

\* A history variable that the step does not forget keeps its type.
LEMMA HistoryKept ==
    ASSUME TypeInv, chosen' = chosen, vpn' = vpn \/ vpn' = ~vpn,
           overlap' = overlap \/ (\E others : Starts(others)),
           flipped' \in BOOLEAN
    PROVE  HistoryTypes'
<1>1. chosen' \in [Nets -> 0 .. MaxProviders]
  BY DEF TypeInv, HistoryTypes
<1>2. vpn' \in BOOLEAN
  BY Zenon DEF TypeInv, HistoryTypes
<1>3. overlap' \in BOOLEAN
  BY Zenon DEF TypeInv, HistoryTypes, Starts
<1> QED
  BY <1>1, <1>2, <1>3, Zenon DEF HistoryTypes

\* Every step keeps the types.
LEMMA StepType == TypeInv /\ [Next]_vars => TypeInv'
<1> SUFFICES ASSUME TypeInv, [Next]_vars PROVE TypeInv'
  OBVIOUS
<1>t. /\ StoreTypes /\ TickTypes /\ BackfillTypes /\ ChoiceTypes /\ HistoryTypes
      /\ flipped \in BOOLEAN
  BY DEF TypeInv, HistoryTypes
<1>s. UNCHANGED <<providers, networks>> =>
         /\ Len(providers) <= Len(providers') /\ StoreTypes'
         /\ Ids' = Ids /\ DOMAIN providers' = DOMAIN providers
  BY <1>t DEF StoreTypes, Ids
<1>1. CASE Resolve
  <2>1. StoreTypes' /\ Len(providers) <= Len(providers') /\ TickTypes'
    BY <1>1, ResolveTypes
  <2>2. /\ UNCHANGED <<backfill, chooser, chosen, vpn, flipped>>
        /\ overlap' = overlap \/ \E others : Starts(others)
    BY <1>1 DEF Resolve, Observe, ReadNetwork, LookupASN, MatchRules, RegisterProvider,
                ReadForUpsert, WriteNetwork
  <2>3. HistoryTypes'
    BY <1>t, <2>2, HistoryKept
  <2> QED
    BY <2>1, <2>2, <2>3, GrowthKeepsIds DEF TypeInv, StoreTypes
<1>2. CASE HandleProviders
  <2>1. StoreTypes' /\ Len(providers) <= Len(providers') /\ BackfillTypes'
    BY <1>2, HandleProvidersTypes
  <2>2. /\ UNCHANGED <<resolver, chooser, chosen, vpn, flipped>>
        /\ overlap' = overlap \/ \E others : Starts(others)
    BY <1>2 DEF HandleProviders, SaveProvider, ReadProviders, ReadNetworks, AssignNext,
                ReadForBackfill, WriteBackfilled, BackfillEnds
  <2>3. HistoryTypes'
    BY <1>t, <2>2, HistoryKept
  <2> QED
    BY <2>1, <2>2, <2>3, GrowthKeepsIds DEF TypeInv, StoreTypes
<1>3. CASE HandleNetworks
  <2>1. StoreTypes' /\ ChoiceTypes' /\ HistoryTypes'
    BY <1>3, HandleNetworksTypes
  <2>2. UNCHANGED <<providers, resolver, backfill>>
    BY <1>3 DEF HandleNetworks, Choose, WriteChoice
  <2> QED
    BY <1>s, <2>1, <2>2, GrowthKeepsIds DEF TypeInv, StoreTypes
<1>4. CASE StoreFails
  <2>1. /\ resolver' = resolver \/ resolver' = NotResolving
        /\ backfill' = backfill \/ backfill' = NotBackfilling
        /\ chooser' = chooser \/ chooser' = NotChoosing
        /\ UNCHANGED <<providers, networks, vpn, chosen, overlap, flipped>>
    BY <1>4 DEF StoreFails
  <2>2. HistoryTypes'
    BY <1>t, <2>1, HistoryKept
  <2>3. 0 \in Ids
    BY <1>t DEF StoreTypes, Ids
  <2>4. TickTypes'
    BY <1>t, <1>s, <2>1, <2>3, NothingTypes DEF TickTypes, ResolverRuns
  <2>5. BackfillTypes'
    BY <1>t, <1>s, <2>1, <2>3, NothingTypes DEF BackfillTypes
  <2>6. ChoiceTypes'
    BY <1>t, <1>s, <2>1, <2>3, NothingTypes DEF ChoiceTypes, ChooserRuns
  <2> QED
    BY <1>s, <2>1, <2>2, <2>4, <2>5, <2>6 DEF TypeInv
<1>5. CASE Restart
  <2>1. /\ resolver' = NotResolving /\ chooser' = NotChoosing
        /\ backfill' = [NotBackfilling EXCEPT !.pc = "providers", !.boot = TRUE]
        /\ UNCHANGED <<providers, networks, vpn, chosen, overlap, flipped>>
    BY <1>5 DEF Restart
  <2>2. HistoryTypes'
    BY <1>t, <2>1, HistoryKept
  <2>3. 0 \in Ids
    BY <1>t DEF StoreTypes, Ids
  <2>4. /\ backfill' \in Backfilling /\ backfill'.known = NotBackfilling.known
        /\ backfill'.rows = NotBackfilling.rows /\ backfill'.provider = 0
        /\ backfill'.row = NoRow /\ backfill'.pc = "providers"
    BY <2>1, NothingTypes DEF Backfilling
  <2>5. TickTypes' /\ ChoiceTypes'
    BY <1>t, <1>s, <2>1, <2>3, NothingTypes
       DEF TickTypes, ResolverRuns, ChoiceTypes, ChooserRuns
  <2>6. BackfillTypes'
    BY <1>s, <2>1, <2>3, <2>4, NothingTypes DEF BackfillTypes
  <2> QED
    BY <1>s, <2>1, <2>2, <2>5, <2>6 DEF TypeInv
<1>6. CASE ToggleVPN
  <2>1. flipped' \in BOOLEAN
    BY <1>6, Zenon DEF ToggleVPN
  <2>2. HistoryTypes'
    BY <1>6, <2>1, HistoryKept DEF ToggleVPN
  <2> QED
    BY <1>6, <1>s, <2>2, GrowthKeepsIds DEF ToggleVPN, TypeInv, StoreTypes
<1>7. CASE UNCHANGED vars
  <2>1. HistoryTypes'
    BY <1>t, <1>7, HistoryKept DEF vars
  <2> QED
    BY <1>7, <1>s, <2>1, GrowthKeepsIds DEF vars, TypeInv, StoreTypes
<1> QED
  BY <1>1, <1>2, <1>3, <1>4, <1>5, <1>6, <1>7 DEF Next

\* The tables and what the writers remember of them are well formed, and no
\* writer remembers an id that is not in the table.
THEOREM TypeInvCorrect == Spec => []TypeInv
<1> QED
  BY InitType, StepType, PTL DEF Spec

\* The provider of a network exists.
THEOREM IdentityTypeCorrect == Spec => []TypeOK
<1>1. TypeInv => TypeOK
  BY Zenon DEF TypeInv, StoreTypes, TickTypes, BackfillTypes, ChoiceTypes, HistoryTypes,
               Ids, TypeOK
<1> QED
  BY <1>1, TypeInvCorrect, PTL

-----------------------------------------------------------------------------
(* The exit's AS number *)

\* Nothing is stored yet.
LEMMA InitExit == Init => ExitInv
<1> SUFFICES ASSUME Init PROVE NoExit
  BY DEF ExitInv
<1>1. /\ DOMAIN providers = {} /\ \A n \in Nets : networks[n] = NoRow
      /\ resolver = NotResolving /\ backfill = NotBackfilling /\ chooser = NotChoosing
  BY DEF Init
<1> QED
  BY <1>1, NothingTypes, ASNsDiffer DEF NoExit

\* A row written from what is not the exit's is not the exit's.
LEMMA UpsertNoExit ==
    ASSUME TypeInv, NoExit, NEW net \in Nets, NEW row \in Network,
           NEW provider \in Ids, NEW asn \in ASNs,
           row.asn # ExitASN, asn # ExitASN, Upsert(net, row, provider, asn)
    PROVE  \A n \in Nets : networks'[n].asn # ExitASN
<1>1. provider \in 0 .. MaxProviders
  BY IdentityAssumption DEF TypeInv, StoreTypes, Ids
<1>2. Merge(row, provider, asn).asn # ExitASN
  BY <1>1, MergeType
<1> QED
  BY <1>2, UpsertEffect DEF NoExit, TypeInv, StoreTypes

\* A table that got a provider which is not the exit's has none that is.
LEMMA AppendNoExit ==
    ASSUME TypeInv, NoExit, NEW p \in Provider, p.asn # ExitASN,
           Len(providers) < MaxProviders, providers' = Append(providers, p),
           UNCHANGED networks
    PROVE  \A i \in DOMAIN providers' : providers'[i].asn # ExitASN
BY AppendType DEF NoExit

\* A tick that looks up while the VPN is down hears the ISP of its network.
LEMMA ResolveNoExit ==
    ASSUME TypeInv, NoExit, Resolve PROVE NoExit'
<1>t. TickTypes /\ StoreTypes
  BY DEF TypeInv
<1>1. CASE Observe
  <2>1. PICK n \in Nets :
           resolver' = [NotResolving EXCEPT !.pc = "read", !.net = n, !.vpn = vpn]
    BY <1>1 DEF Observe
  <2>2. /\ resolver'.row = NoRow /\ resolver'.fresh = NoASN /\ resolver'.vpn = vpn
    BY <2>1, NothingTypes DEF Resolving
  <2> QED
    BY <1>1, <2>2, NothingTypes, ASNsDiffer DEF Observe, NoExit
<1>2. CASE ReadNetwork \/ ReadForUpsert
  <2>1. resolver.net \in Nets
    BY <1>2, <1>t DEF ReadNetwork, ReadForUpsert, TickTypes, ResolverRuns
  <2>2. /\ resolver'.row = networks[resolver.net] /\ resolver'.fresh = resolver.fresh
        /\ resolver'.vpn = resolver.vpn
        /\ resolver'.pc \in {"read", "lookup"} => resolver.pc = "read"
    BY <1>2, <1>t DEF ReadNetwork, ReadForUpsert, TickTypes, Resolving
  <2> QED
    BY <1>2, <2>1, <2>2 DEF ReadNetwork, ReadForUpsert, NoExit
<1>3. CASE LookupASN
  <2>1. /\ resolver.net \in Nets /\ resolver.vpn = vpn
    BY <1>3, <1>t DEF LookupASN, TickTypes, ResolverRuns, NoExit
  <2>2. ShouldLookupASN => ExitASN \notin Answers
    BY <2>1, ASNsDiffer, IdentityAssumption DEF ShouldLookupASN, Answers
  <2>3. PICK answer : /\ answer # ExitASN
                      /\ resolver' = [resolver EXCEPT !.fresh = answer,
                            !.pc = IF NeedsProvider THEN "match" ELSE "upsert"]
    BY <1>3, <2>2, ASNsDiffer DEF LookupASN
  <2>4. /\ resolver'.fresh = answer /\ resolver'.row = resolver.row
        /\ resolver'.pc \in {"match", "upsert"}
    BY <1>t, <2>3 DEF TickTypes, Resolving
  <2> QED
    BY <1>3, <2>3, <2>4 DEF LookupASN, NoExit
<1>4. CASE MatchRules
  <2>1. /\ resolver'.fresh = resolver.fresh /\ resolver'.row = resolver.row
        /\ resolver'.pc \in {"create", "upsert"}
    BY <1>4, <1>t DEF MatchRules, TickTypes, Resolving
  <2> QED
    BY <1>4, <2>1 DEF MatchRules, NoExit
<1>5. CASE RegisterProvider
  <2>1. /\ resolver'.fresh = resolver.fresh /\ resolver'.row = resolver.row
        /\ resolver'.pc = "upsert"
    BY <1>5, <1>t DEF RegisterProvider, TickTypes, Resolving
  <2>2. /\ Registered(KnownASN) \in Provider
        /\ Registered(KnownASN).asn # ExitASN
    BY KnownASNType DEF Registered, Provider, KnownASN, NoExit
  <2>3. \A i \in DOMAIN providers' : providers'[i].asn # ExitASN
    BY <1>5, <2>2, AppendNoExit DEF RegisterProvider, NoExit
  <2> QED
    BY <1>5, <2>1, <2>3 DEF RegisterProvider, NoExit
<1>6. CASE WriteNetwork
  <2>1. /\ resolver.net \in Nets /\ resolver.row \in Network
        /\ resolver.provider \in Ids
    BY <1>6, <1>t DEF WriteNetwork, TickTypes, ResolverRuns, Resolving
  <2>2. \A n \in Nets : networks'[n].asn # ExitASN
    BY <1>6, <2>1, KnownASNType, UpsertNoExit DEF WriteNetwork, NoExit
  <2> QED
    BY <1>6, <2>2, NothingTypes, ASNsDiffer DEF WriteNetwork, NoExit
<1> QED
  BY <1>1, <1>2, <1>3, <1>4, <1>5, <1>6 DEF Resolve

\* The user names ISPs, and the backfill goes by what is stored.
LEMMA HandleProvidersNoExit ==
    ASSUME TypeInv, NoExit, HandleProviders PROVE NoExit'
<1>t. BackfillTypes /\ StoreTypes
  BY DEF TypeInv
<1>1. CASE SaveProvider
  <2>1. PICK asn \in ISPs \cup {NoASN}, macs \in {{}} \cup {{n} : n \in Nets} :
           LET p == [asn |-> asn, macs |-> macs, auto |-> FALSE]
           IN  \/ Len(providers) < MaxProviders /\ providers' = Append(providers, p)
               \/ \E i \in DOMAIN providers : providers' = [providers EXCEPT ![i] = p]
    BY <1>1 DEF SaveProvider
  <2> DEFINE p == [asn |-> asn, macs |-> macs, auto |-> FALSE]
  <2>2. p \in Provider /\ p.asn # ExitASN
    BY ASNsDiffer DEF Provider
  <2> HIDE DEF p
  <2>3. \A i \in DOMAIN providers' : providers'[i].asn # ExitASN
    <3>1. \/ Len(providers) < MaxProviders /\ providers' = Append(providers, p)
          \/ \E i \in DOMAIN providers : providers' = [providers EXCEPT ![i] = p]
      BY <2>1 DEF p
    <3>2. CASE Len(providers) < MaxProviders /\ providers' = Append(providers, p)
      BY <1>1, <2>2, <3>2, AppendNoExit DEF SaveProvider
    <3>3. CASE \E i \in DOMAIN providers : providers' = [providers EXCEPT ![i] = p]
      BY <1>t, <2>2, <3>3 DEF StoreTypes, NoExit
    <3> QED
      BY <3>1, <3>2, <3>3
  <2>4. /\ backfill'.rows = backfill.rows /\ backfill'.row = backfill.row
        /\ backfill'.fresh = backfill.fresh
    BY <1>1, <1>t DEF SaveProvider, BackfillTypes, Backfilling
  <2> QED
    BY <1>1, <2>3, <2>4 DEF SaveProvider, NoExit
<1>2. CASE ReadProviders
  <2>1. /\ backfill'.rows = backfill.rows /\ backfill'.row = backfill.row
        /\ backfill'.fresh = backfill.fresh
    BY <1>2, <1>t DEF ReadProviders, BackfillTypes, Backfilling
  <2> QED
    BY <1>2, <2>1 DEF ReadProviders, NoExit
<1>3. CASE ReadNetworks
  <2>1. /\ backfill'.rows = networks /\ backfill'.row = backfill.row
        /\ backfill'.fresh = backfill.fresh
    BY <1>3, <1>t DEF ReadNetworks, BackfillTypes, Backfilling
  <2> QED
    BY <1>3, <2>1 DEF ReadNetworks, NoExit
<1>4. CASE AssignNext
  <2>1. PICK n \in backfill.todo :
          /\ \/ /\ Len(providers) < MaxProviders
                /\ providers' = Append(providers, Registered(backfill.rows[n].asn))
             \/ UNCHANGED providers
          /\ backfill'.rows = backfill.rows /\ backfill'.row = backfill.row
          /\ backfill'.fresh = backfill.rows[n].asn
    BY <1>4, <1>t DEF AssignNext, BackfillTypes, Backfilling
  <2>2. n \in Nets /\ backfill.rows[n].asn \in ASNs
    BY <1>t DEF BackfillTypes, Backfilling, Network
  <2>3. /\ Registered(backfill.rows[n].asn) \in Provider
        /\ Registered(backfill.rows[n].asn).asn # ExitASN
    BY <2>2 DEF Registered, Provider, NoExit
  <2>4. \A i \in DOMAIN providers' : providers'[i].asn # ExitASN
    BY <1>4, <2>1, <2>3, AppendNoExit DEF AssignNext, NoExit
  <2> QED
    BY <1>4, <2>1, <2>2, <2>4 DEF AssignNext, NoExit
<1>5. CASE ReadForBackfill
  <2>1. backfill.net \in Nets
    BY <1>5, <1>t DEF ReadForBackfill, BackfillTypes
  <2>2. /\ backfill'.rows = backfill.rows /\ backfill'.row = networks[backfill.net]
        /\ backfill'.fresh = backfill.fresh
    BY <1>5, <1>t DEF ReadForBackfill, BackfillTypes, Backfilling
  <2> QED
    BY <1>5, <2>1, <2>2 DEF ReadForBackfill, NoExit
<1>6. CASE WriteBackfilled
  <2>1. /\ backfill.net \in Nets /\ backfill.row \in Network
        /\ backfill.fresh \in ASNs /\ backfill.provider \in Ids
    BY <1>6, <1>t DEF WriteBackfilled, BackfillTypes, Backfilling
  <2>2. \A n \in Nets : networks'[n].asn # ExitASN
    BY <1>6, <2>1, UpsertNoExit DEF WriteBackfilled, NoExit
  <2>3. /\ backfill'.rows = backfill.rows /\ backfill'.row = backfill.row
        /\ backfill'.fresh = backfill.fresh
    BY <1>6, <1>t DEF WriteBackfilled, BackfillTypes, Backfilling
  <2> QED
    BY <1>6, <2>2, <2>3 DEF WriteBackfilled, NoExit
<1>7. CASE BackfillEnds
  BY <1>7, NothingTypes, ASNsDiffer DEF BackfillEnds, NoExit
<1> QED
  BY <1>1, <1>2, <1>3, <1>4, <1>5, <1>6, <1>7 DEF HandleProviders

\* Every step that does not flip the VPN in the middle of a tick keeps the
\* exit out.
LEMMA StepExit == TypeInv /\ ExitInv /\ [Next]_vars => ExitInv'
<1> SUFFICES ASSUME TypeInv, ExitInv, [Next]_vars, ~flipped' PROVE NoExit'
  BY DEF ExitInv
<1>0. ~flipped
  BY Zenon DEF Next, Resolve, Observe, ReadNetwork, LookupASN, MatchRules,
        RegisterProvider, ReadForUpsert, WriteNetwork, HandleProviders, SaveProvider,
        ReadProviders, ReadNetworks, AssignNext, ReadForBackfill, WriteBackfilled,
        BackfillEnds, HandleNetworks, Choose, WriteChoice, StoreFails, Restart,
        ToggleVPN, vars
<1>t. NoExit
  BY <1>0 DEF ExitInv
<1>1. CASE Resolve
  BY <1>1, <1>t, ResolveNoExit
<1>2. CASE HandleProviders
  BY <1>2, <1>t, HandleProvidersNoExit
<1>3. CASE Choose
  <2>1. \E n \in Nets : chooser'.row = networks[n]
    BY <1>3 DEF Choose
  <2> QED
    BY <1>3, <1>t, <2>1 DEF Choose, NoExit
<1>4. CASE WriteChoice
  <2>1. /\ chooser.net \in Nets /\ chooser.row \in Network /\ chooser.provider \in Ids
    BY <1>4 DEF WriteChoice, TypeInv, ChoiceTypes, Choosing, ChooserRuns
  <2>2. \A n \in Nets : networks'[n].asn # ExitASN
    BY <1>4, <1>t, <2>1, UpsertNoExit, ASNsDiffer DEF WriteChoice, NoExit
  <2> QED
    BY <1>4, <1>t, <2>2, NothingTypes, ASNsDiffer DEF WriteChoice, NoExit
<1>5. CASE StoreFails
  BY <1>5, <1>t, NothingTypes, ASNsDiffer DEF StoreFails, NoExit
<1>6. CASE Restart
  <2>1. /\ backfill'.rows = NotBackfilling.rows /\ backfill'.row = NoRow
        /\ backfill'.fresh = NoASN
    BY <1>6, NothingTypes DEF Restart, Backfilling
  <2> QED
    BY <1>6, <1>t, <2>1, NothingTypes, ASNsDiffer DEF Restart, NoExit
<1>7. CASE ToggleVPN
  <2>1. resolver.pc \notin {"read", "lookup"}
    BY <1>7, Zenon DEF ToggleVPN
  <2> QED
    BY <1>7, <1>t, <2>1 DEF ToggleVPN, NoExit
<1>8. CASE UNCHANGED vars
  BY <1>8, <1>t DEF vars, NoExit
<1> QED
  BY <1>1, <1>2, <1>3, <1>4, <1>5, <1>6, <1>7, <1>8 DEF Next, HandleNetworks

\* Unless the VPN changes between a tick's snapshot and its lookup, the number
\* of the VPN's exit reaches no table: shouldLookupASN keeps it out.
THEOREM ExitIsNeverTheISPHolds == Spec => []ExitIsNeverTheISP
<1>1. ExitInv => ExitIsNeverTheISP
  BY DEF ExitInv, NoExit, ExitIsNeverTheISP
<1> QED
  BY <1>1, InitExit, StepExit, TypeInvCorrect, PTL DEF Spec

-----------------------------------------------------------------------------
(* The user's choice, as long as no two writers overlap *)

\* What KnownFactsAreKept says of a step.
FactsKept ==
    \A n \in Nets :
        /\ networks[n].stored => networks'[n].stored
        /\ networks[n].asn # NoASN => networks'[n].asn = networks[n].asn
        /\ networks[n].provider # 0 => networks'[n].provider # 0

\* Nobody runs and nothing was chosen.
LEMMA InitChoice == Init => ChoiceInv
<1> SUFFICES ASSUME Init PROVE Undisturbed
  BY DEF ChoiceInv
<1>1. /\ resolver.pc = "idle" /\ backfill.pc = "idle" /\ chooser.pc = "idle"
      /\ \A n \in Nets : chosen[n] = 0
  BY NothingTypes DEF Init
<1> QED
  BY <1>1 DEF Undisturbed, Alone, ResolverRuns, BackfillRuns, ChooserRuns, TickIsCurrent,
              BackfillIsCurrent, ChoiceIsCurrent, ChoiceStands

\* A write to the row that was read, of what it lacks, changes no other row and
\* loses nothing of this one.
LEMMA CurrentUpsert ==
    ASSUME TypeInv, NEW net \in Nets, NEW provider \in Ids, NEW asn \in ASNs,
           Upsert(net, networks[net], provider, asn)
    PROVE  /\ \A n \in Nets : n # net => networks'[n] = networks[n]
           /\ networks'[net].stored
           /\ networks'[net].provider
                = IF provider # 0 THEN provider ELSE networks[net].provider
           /\ networks'[net].asn = IF asn # NoASN THEN asn ELSE networks[net].asn
<1>1. provider \in 0 .. MaxProviders /\ networks[net] \in Network
  BY IdentityAssumption, RowType DEF TypeInv, StoreTypes, Ids
<1>2. networks' = [networks EXCEPT ![net] = Merge(networks[net], provider, asn)]
  BY DEF Upsert
<1> QED
  BY <1>1, <1>2, MergeType DEF TypeInv, StoreTypes

\* The tick never changes what it knows, and writes nothing in between.
LEMMA ResolveUndisturbed ==
    ASSUME TypeInv, Undisturbed, Resolve, ~overlap'
    PROVE  Undisturbed' /\ FactsKept
<1>t. /\ TickTypes /\ Alone /\ TickIsCurrent /\ ChoiceStands
      /\ UNCHANGED <<backfill, chooser, chosen>>
  BY DEF TypeInv, Undisturbed, Resolve, Observe, ReadNetwork, LookupASN, MatchRules,
         RegisterProvider, ReadForUpsert, WriteNetwork
<1>1. ResolverRuns \/ ResolverRuns' => ~BackfillRuns' /\ ~ChooserRuns'
  <2>1. CASE ResolverRuns
    BY <1>t, <2>1 DEF Alone, BackfillRuns, ChooserRuns
  <2>2. CASE ~ResolverRuns
    <3>1. Observe
      BY <2>2 DEF ResolverRuns, Resolve, ReadNetwork, LookupASN, MatchRules,
                  RegisterProvider, ReadForUpsert, WriteNetwork
    <3>2. ~(BackfillRuns \/ ChooserRuns)
      BY <3>1, Zenon DEF Observe, Starts
    <3> QED
      BY <1>t, <3>2 DEF BackfillRuns, ChooserRuns
  <2> QED
    BY <2>1, <2>2
<1>2. ResolverRuns \/ ResolverRuns'
  <2>1. CASE Observe
    <3>1. PICK n \in Nets :
             resolver' = [NotResolving EXCEPT !.pc = "read", !.net = n, !.vpn = vpn]
      BY <2>1 DEF Observe
    <3>2. resolver'.pc = "read"
      BY <3>1, NothingTypes DEF Resolving
    <3> QED
      BY <3>2 DEF ResolverRuns
  <2> QED
    BY <2>1 DEF ResolverRuns, Resolve, ReadNetwork, LookupASN, MatchRules,
                RegisterProvider, ReadForUpsert, WriteNetwork
<1>3. Alone' /\ BackfillIsCurrent' /\ ChoiceIsCurrent'
  BY <1>1, <1>2 DEF Alone, BackfillIsCurrent, ChoiceIsCurrent, BackfillRuns, ChooserRuns
<1>4. CASE Observe
  <2>1. PICK n \in Nets :
           resolver' = [NotResolving EXCEPT !.pc = "read", !.net = n, !.vpn = vpn]
    BY <1>4 DEF Observe
  <2>2. resolver'.pc = "read"
    BY <2>1, NothingTypes DEF Resolving
  <2>3. resolver'.fresh = NoASN /\ resolver'.provider = 0
    BY <2>1, NothingTypes DEF Resolving
  <2> QED
    BY <1>4, <1>t, <1>3, <2>2, <2>3
       DEF Observe, Undisturbed, TickIsCurrent, ChoiceStands, FactsKept
<1>5. CASE ReadNetwork \/ ReadForUpsert
  <2>1. /\ resolver'.pc \in {"lookup", "write"} /\ resolver'.row = networks[resolver.net]
        /\ resolver'.net = resolver.net /\ resolver'.fresh = resolver.fresh
        /\ resolver'.provider = resolver.provider
    BY <1>5, <1>t DEF ReadNetwork, ReadForUpsert, TickTypes, Resolving
  <2>2. TickIsCurrent'
    BY <1>5, <1>t, <2>1 DEF ReadNetwork, ReadForUpsert, TickIsCurrent
  <2> QED
    BY <1>5, <1>t, <1>3, <2>2
       DEF ReadNetwork, ReadForUpsert, Undisturbed, ChoiceStands, FactsKept
<1>6. CASE LookupASN
  <2>1. /\ resolver'.row = resolver.row /\ resolver'.net = resolver.net
        /\ resolver'.provider = resolver.provider
        /\ resolver'.pc = IF resolver.row.provider = 0 THEN "match" ELSE "upsert"
        /\ resolver'.fresh # NoASN => resolver.row.asn = NoASN
    BY <1>6, <1>t DEF LookupASN, TickTypes, Resolving, NeedsProvider, ShouldLookupASN
  <2>2. TickIsCurrent'
    BY <1>6, <1>t, <2>1 DEF LookupASN, TickIsCurrent
  <2> QED
    BY <1>6, <1>t, <1>3, <2>2 DEF LookupASN, Undisturbed, ChoiceStands, FactsKept
<1>7. CASE MatchRules \/ RegisterProvider
  <2>1. /\ resolver'.row = resolver.row /\ resolver'.net = resolver.net
        /\ resolver'.fresh = resolver.fresh /\ resolver'.pc \in {"create", "upsert"}
    BY <1>7, <1>t DEF MatchRules, RegisterProvider, TickTypes, Resolving
  <2>2. TickIsCurrent'
    BY <1>7, <1>t, <2>1 DEF MatchRules, RegisterProvider, TickIsCurrent
  <2> QED
    BY <1>7, <1>t, <1>3, <2>2
       DEF MatchRules, RegisterProvider, Undisturbed, ChoiceStands, FactsKept
<1>8. CASE WriteNetwork
  <2> DEFINE net == resolver.net
  <2>1. /\ net \in Nets /\ resolver.provider \in Ids /\ resolver.fresh \in ASNs
        /\ resolver.row = networks[net] /\ resolver'.pc = "idle"
    BY <1>8, <1>t, NothingTypes
       DEF WriteNetwork, TickTypes, Resolving, ResolverRuns, TickIsCurrent
  <2>2. Upsert(net, networks[net], resolver.provider, resolver.fresh)
    BY <1>8, <2>1 DEF WriteNetwork
  <2>3. /\ resolver.fresh # NoASN => networks[net].asn = NoASN
        /\ resolver.provider # 0 => networks[net].provider = 0
    BY <1>8, <1>t, <2>1 DEF WriteNetwork, TickIsCurrent
  <2> HIDE DEF net
  <2>4. /\ \A n \in Nets : n # net => networks'[n] = networks[n]
        /\ networks'[net].stored
        /\ networks'[net].provider
             = IF resolver.provider # 0 THEN resolver.provider ELSE networks[net].provider
        /\ networks'[net].asn
             = IF resolver.fresh # NoASN THEN resolver.fresh ELSE networks[net].asn
    BY <2>1, <2>2, CurrentUpsert
  <2>5. FactsKept
    BY <2>1, <2>3, <2>4 DEF FactsKept
  <2>6. ChoiceStands'
    BY <1>t, <2>1, <2>3, <2>4 DEF ChoiceStands
  <2>7. TickIsCurrent'
    BY <2>1 DEF TickIsCurrent
  <2> QED
    BY <1>3, <2>5, <2>6, <2>7 DEF Undisturbed
<1> QED
  BY <1>4, <1>5, <1>6, <1>7, <1>8 DEF Resolve

\* The backfill writes to networks without a provider, and to each of them once.
LEMMA HandleProvidersUndisturbed ==
    ASSUME TypeInv, Undisturbed, HandleProviders, ~overlap'
    PROVE  Undisturbed' /\ FactsKept
<1>t. /\ BackfillTypes /\ Alone /\ BackfillIsCurrent /\ ChoiceStands
      /\ UNCHANGED <<resolver, chooser, chosen>>
  BY DEF TypeInv, Undisturbed, HandleProviders, SaveProvider, ReadProviders, ReadNetworks,
         AssignNext, ReadForBackfill, WriteBackfilled, BackfillEnds
<1>1. ~ResolverRuns' /\ ~ChooserRuns'
  <2>1. CASE BackfillRuns
    BY <1>t, <2>1 DEF Alone, ResolverRuns, ChooserRuns
  <2>2. CASE ~BackfillRuns
    <3>1. SaveProvider
      BY <2>2 DEF BackfillRuns, HandleProviders, ReadProviders, ReadNetworks,
                  AssignNext, ReadForBackfill, WriteBackfilled, BackfillEnds
    <3>2. ~(ResolverRuns \/ ChooserRuns)
      BY <3>1, Zenon DEF SaveProvider, Starts
    <3> QED
      BY <1>t, <3>2 DEF ResolverRuns, ChooserRuns
  <2> QED
    BY <2>1, <2>2
<1>2. Alone' /\ TickIsCurrent' /\ ChoiceIsCurrent'
  BY <1>1 DEF Alone, TickIsCurrent, ChoiceIsCurrent, ResolverRuns, ChooserRuns
<1>3. CASE SaveProvider \/ ReadProviders \/ BackfillEnds
  <2>1. backfill'.pc \in {"providers", "networks", "idle"}
    BY <1>3, <1>t, NothingTypes
       DEF SaveProvider, ReadProviders, BackfillEnds, BackfillTypes, Backfilling
  <2>2. BackfillIsCurrent'
    BY <2>1 DEF BackfillIsCurrent
  <2>3. networks' = networks
    BY <1>3 DEF SaveProvider, ReadProviders, BackfillEnds
  <2> QED
    BY <1>t, <1>2, <2>2, <2>3 DEF Undisturbed, ChoiceStands, FactsKept
<1>4. CASE ReadNetworks
  <2>1. /\ backfill'.pc = "assign" /\ backfill'.rows = networks
        /\ backfill'.todo = Unassigned
    BY <1>4, <1>t DEF ReadNetworks, BackfillTypes, Backfilling
  <2>2. BackfillIsCurrent'
    BY <1>4, <2>1 DEF ReadNetworks, BackfillIsCurrent, Unassigned
  <2> QED
    BY <1>4, <1>t, <1>2, <2>2 DEF ReadNetworks, Undisturbed, ChoiceStands, FactsKept
<1>5. CASE AssignNext
  <2>1. PICK n \in backfill.todo :
          /\ backfill'.todo = backfill.todo \ {n} /\ backfill'.net = n
          /\ backfill'.rows = backfill.rows /\ backfill'.fresh = backfill.rows[n].asn
          /\ backfill'.pc \in {"assign", "upsert"}
    BY <1>5, <1>t DEF AssignNext, BackfillTypes, Backfilling
  <2>2. BackfillIsCurrent'
    BY <1>5, <1>t, <2>1 DEF AssignNext, BackfillIsCurrent
  <2> QED
    BY <1>5, <1>t, <1>2, <2>2 DEF AssignNext, Undisturbed, ChoiceStands, FactsKept
<1>6. CASE ReadForBackfill
  <2>1. /\ backfill'.todo = backfill.todo /\ backfill'.net = backfill.net
        /\ backfill'.rows = backfill.rows /\ backfill'.fresh = backfill.fresh
        /\ backfill'.row = networks[backfill.net]
    BY <1>6, <1>t DEF ReadForBackfill, BackfillTypes, Backfilling
  <2>2. BackfillIsCurrent'
    BY <1>6, <1>t, <2>1 DEF ReadForBackfill, BackfillIsCurrent
  <2> QED
    BY <1>6, <1>t, <1>2, <2>2 DEF ReadForBackfill, Undisturbed, ChoiceStands, FactsKept
<1>7. CASE WriteBackfilled
  <2> DEFINE net == backfill.net
  <2>1. /\ net \in Nets /\ backfill.provider \in Ids /\ backfill.fresh \in ASNs
        /\ backfill.row = networks[net] /\ backfill.fresh = networks[net].asn
        /\ networks[net].provider = 0 /\ net \notin backfill.todo
    BY <1>7, <1>t DEF WriteBackfilled, BackfillTypes, Backfilling, BackfillIsCurrent
  <2>2. Upsert(net, networks[net], backfill.provider, backfill.fresh)
    BY <1>7, <2>1 DEF WriteBackfilled
  <2>3. /\ backfill'.pc = "assign" /\ backfill'.todo = backfill.todo
        /\ backfill'.rows = backfill.rows /\ backfill.todo \subseteq Nets
    BY <1>7, <1>t DEF WriteBackfilled, BackfillTypes, Backfilling
  <2>c. backfill.pc = "write"
    BY <1>7 DEF WriteBackfilled
  <2> HIDE DEF net
  <2>4. /\ \A n \in Nets : n # net => networks'[n] = networks[n]
        /\ networks'[net].stored
        /\ networks'[net].asn
             = IF backfill.fresh # NoASN THEN backfill.fresh ELSE networks[net].asn
    BY <2>1, <2>2, CurrentUpsert
  <2>5. FactsKept
    BY <2>1, <2>4 DEF FactsKept
  <2>6. ChoiceStands'
    BY <1>t, <2>1, <2>4 DEF ChoiceStands
  <2>7. BackfillIsCurrent'
    BY <1>t, <2>c, <2>1, <2>3, <2>4 DEF BackfillIsCurrent
  <2> QED
    BY <1>2, <2>5, <2>6, <2>7 DEF Undisturbed
<1> QED
  BY <1>3, <1>4, <1>5, <1>6, <1>7 DEF HandleProviders

\* The user's request writes to the row it was shown.
LEMMA HandleNetworksUndisturbed ==
    ASSUME TypeInv, Undisturbed, HandleNetworks, ~overlap'
    PROVE  Undisturbed' /\ FactsKept
<1>t. /\ ChoiceTypes /\ Alone /\ ChoiceIsCurrent /\ ChoiceStands
      /\ UNCHANGED <<resolver, backfill>>
  BY DEF TypeInv, Undisturbed, HandleNetworks, Choose, WriteChoice
<1>1. ~ResolverRuns' /\ ~BackfillRuns'
  <2>1. CASE Choose
    <3>1. ~(ResolverRuns \/ BackfillRuns)
      BY <2>1, Zenon DEF Choose, Starts
    <3> QED
      BY <1>t, <3>1 DEF ResolverRuns, BackfillRuns
  <2>2. CASE WriteChoice
    BY <1>t, <2>2 DEF WriteChoice, Alone, ResolverRuns, BackfillRuns, ChooserRuns
  <2> QED
    BY <2>1, <2>2 DEF HandleNetworks
<1>2. Alone' /\ TickIsCurrent' /\ BackfillIsCurrent'
  BY <1>1 DEF Alone, TickIsCurrent, BackfillIsCurrent, ResolverRuns, BackfillRuns
<1>3. CASE Choose
  <2>1. ChoiceIsCurrent'
    BY <1>3 DEF Choose, ChoiceIsCurrent
  <2> QED
    BY <1>3, <1>t, <1>2, <2>1 DEF Choose, Undisturbed, ChoiceStands, FactsKept
<1>4. CASE WriteChoice
  <2> DEFINE net == chooser.net
  <2>1. /\ net \in Nets /\ chooser.provider \in Ids /\ NoASN \in ASNs
        /\ chooser.row = networks[net] /\ chooser'.pc = "idle"
    BY <1>4, <1>t, NothingTypes, ASNsDiffer
       DEF WriteChoice, ChoiceTypes, Choosing, ChooserRuns, ChoiceIsCurrent
  <2>2. Upsert(net, networks[net], chooser.provider, NoASN)
    BY <1>4, <2>1 DEF WriteChoice
  <2>3. chosen' = [chosen EXCEPT ![net] = chooser.provider]
    BY <1>4 DEF WriteChoice
  <2> HIDE DEF net
  <2>4. /\ \A n \in Nets : n # net => networks'[n] = networks[n]
        /\ networks'[net].stored /\ networks'[net].asn = networks[net].asn
        /\ networks'[net].provider
             = IF chooser.provider # 0 THEN chooser.provider ELSE networks[net].provider
    BY <2>1, <2>2, CurrentUpsert
  <2>5. FactsKept
    BY <2>1, <2>4 DEF FactsKept
  <2>6. ChoiceStands'
    BY <1>t, <2>1, <2>3, <2>4 DEF ChoiceStands, TypeInv, HistoryTypes
  <2>7. ChoiceIsCurrent'
    BY <2>1 DEF ChoiceIsCurrent, ChooserRuns
  <2> QED
    BY <1>2, <2>5, <2>6, <2>7 DEF Undisturbed
<1> QED
  BY <1>3, <1>4 DEF HandleNetworks

\* Writers that have overlapped have overlapped for good.
LEMMA OverlapStays == [Next]_vars => (overlap => overlap')
BY Zenon DEF Next, Resolve, Observe, ReadNetwork, LookupASN, MatchRules, RegisterProvider,
      ReadForUpsert, WriteNetwork, HandleProviders, SaveProvider, ReadProviders,
      ReadNetworks, AssignNext, ReadForBackfill, WriteBackfilled, BackfillEnds,
      HandleNetworks, Choose, WriteChoice, StoreFails, Restart, ToggleVPN, vars, Starts

\* A step without overlap disturbs nobody and forgets nothing.
LEMMA StepChoice ==
    TypeInv /\ ChoiceInv /\ [Next]_vars => ChoiceInv' /\ (~overlap' => FactsKept)
<1> SUFFICES ASSUME TypeInv, ChoiceInv, [Next]_vars, ~overlap'
             PROVE  Undisturbed' /\ FactsKept
  BY DEF ChoiceInv
<1>t. Undisturbed
  BY OverlapStays, Zenon DEF ChoiceInv
<1>1. CASE Resolve
  BY <1>1, <1>t, ResolveUndisturbed
<1>2. CASE HandleProviders
  BY <1>2, <1>t, HandleProvidersUndisturbed
<1>3. CASE HandleNetworks
  BY <1>3, <1>t, HandleNetworksUndisturbed
<1>4. CASE StoreFails
  <2>1. /\ resolver' = resolver \/ resolver'.pc = "idle"
        /\ backfill' = backfill \/ backfill'.pc = "idle"
        /\ chooser' = chooser \/ chooser'.pc = "idle"
        /\ UNCHANGED <<networks, chosen>>
    BY <1>4, NothingTypes DEF StoreFails
  <2> QED
    BY <1>t, <2>1 DEF Undisturbed, Alone, ResolverRuns, BackfillRuns, ChooserRuns,
          TickIsCurrent, BackfillIsCurrent, ChoiceIsCurrent, ChoiceStands, FactsKept
<1>5. CASE Restart
  <2>1. /\ resolver'.pc = "idle" /\ backfill'.pc = "providers" /\ chooser'.pc = "idle"
        /\ UNCHANGED <<networks, chosen>>
    BY <1>5, NothingTypes DEF Restart, Backfilling
  <2> QED
    BY <1>t, <2>1 DEF Undisturbed, Alone, ResolverRuns, BackfillRuns, ChooserRuns,
          TickIsCurrent, BackfillIsCurrent, ChoiceIsCurrent, ChoiceStands, FactsKept
<1>6. CASE ToggleVPN \/ UNCHANGED vars
  <2>1. UNCHANGED <<networks, chosen, resolver, backfill, chooser>>
    BY <1>6 DEF ToggleVPN, vars
  <2> QED
    BY <1>t, <2>1 DEF Undisturbed, Alone, ResolverRuns, BackfillRuns, ChooserRuns,
          TickIsCurrent, BackfillIsCurrent, ChoiceIsCurrent, ChoiceStands, FactsKept
<1> QED
  BY <1>1, <1>2, <1>3, <1>4, <1>5, <1>6 DEF Next

\* Without overlap a network keeps the provider its user last chose, over ticks,
\* backfills, failed calls and restarts.
THEOREM UserChoiceKeptHolds == Spec => []UserChoiceKept
<1>1. ChoiceInv => UserChoiceKept
  BY DEF ChoiceInv, Undisturbed, ChoiceStands, UserChoiceKept
<1> QED
  BY <1>1, InitChoice, StepChoice, TypeInvCorrect, PTL DEF Spec

\* Without overlap UpsertNetwork never loses a network, its AS number or its
\* provider.
THEOREM KnownFactsAreKeptHolds == Spec => KnownFactsAreKept
<1> DEFINE Kept == ~overlap' => \A n \in Nets :
               /\ networks[n].stored => networks'[n].stored
               /\ networks[n].asn # NoASN => networks'[n].asn = networks[n].asn
               /\ networks[n].provider # 0 => networks'[n].provider # 0
<1>1. TypeInv /\ ChoiceInv /\ [Next]_vars => [Kept]_vars
  BY StepChoice DEF FactsKept
<1>2. TypeInv /\ ChoiceInv /\ [Next]_vars => ChoiceInv'
  BY StepChoice
<1> QED
  BY <1>1, <1>2, InitChoice, TypeInvCorrect, PTL DEF Spec, KnownFactsAreKept

-----------------------------------------------------------------------------
(* Registered once, as long as no two writers overlap *)

\* A provider that no rule of a table matches by its AS number is not in it.
LEMMA RegistersTheNew ==
    ASSUME NEW ps, NEW net, NEW asn, Registers(Hits(ps, net, asn), asn)
    PROVE  NamesProvider(asn) /\ \A i \in DOMAIN ps : ps[i].asn # asn
<1>1. ByASN(ps, asn) = {} /\ asn # NoASN
  BY ASNsDiffer DEF Registers, Hits, NamesProvider
<1> QED
  BY <1>1 DEF ByASN, Registers

\* A provider whose AS number is new may be registered.
LEMMA AppendUnique ==
    ASSUME TypeInv, AutoProvidersAreUnique, ~overlap, NEW p \in Provider,
           p.auto => Unregistered(p.asn), Len(providers) < MaxProviders,
           providers' = Append(providers, p), UNCHANGED networks
    PROVE  AutoProvidersAreUnique'
<1>1. /\ DOMAIN providers' = DOMAIN providers \cup {NewId}
      /\ \A i \in DOMAIN providers : providers'[i] = providers[i]
      /\ providers'[NewId] = p
  BY AppendType
<1> QED
  BY <1>1 DEF AutoProvidersAreUnique, Unregistered

\* Nothing is registered.
LEMMA InitAuto == Init => AutoInv
<1> SUFFICES ASSUME Init PROVE AutoInv
  OBVIOUS
<1>1. /\ resolver.pc = "idle" /\ backfill.pc = "idle" /\ chooser.pc = "idle"
      /\ DOMAIN providers = {}
  BY NothingTypes DEF Init
<1> QED
  BY <1>1 DEF AutoInv, TickRegistersTheNew, BackfillKnowsTheTable, AutoProvidersAreUnique

\* A tick registers what it has just found missing.
LEMMA ResolveAuto ==
    ASSUME TypeInv, Undisturbed, ~overlap, TickRegistersTheNew, AutoProvidersAreUnique,
           Resolve, ~overlap'
    PROVE  TickRegistersTheNew' /\ BackfillKnowsTheTable' /\ AutoProvidersAreUnique'
<1>t. TickTypes /\ Alone'
  BY ResolveUndisturbed DEF TypeInv, Undisturbed
<1>1. CASE RegisterProvider
  <2>1. backfill'.pc = "idle"
    BY <1>1, <1>t DEF RegisterProvider, Undisturbed, Alone, ResolverRuns, BackfillRuns
  <2>2. resolver'.pc = "upsert"
    BY <1>1, <1>t DEF RegisterProvider, TickTypes, Resolving
  <2>3. AutoProvidersAreUnique'
    <3>1. CASE UNCHANGED providers
      BY <1>1, <3>1 DEF AutoProvidersAreUnique
    <3>2. CASE /\ Len(providers) < MaxProviders
               /\ providers' = Append(providers, Registered(KnownASN))
      <4>1. /\ Registered(KnownASN) \in Provider
            /\ Registered(KnownASN).asn = KnownASN
        BY KnownASNType DEF Registered, Provider
      <4>2. Unregistered(KnownASN)
        BY <1>1 DEF RegisterProvider, TickRegistersTheNew
      <4> QED
        BY <1>1, <3>2, <4>1, <4>2, AppendUnique DEF RegisterProvider
    <3> QED
      BY <1>1, <3>1, <3>2 DEF RegisterProvider
  <2> QED
    BY <2>1, <2>2, <2>3 DEF TickRegistersTheNew, BackfillKnowsTheTable
<1>2. CASE MatchRules
  <2>1. /\ resolver'.row = resolver.row /\ resolver'.fresh = resolver.fresh
        /\ UNCHANGED providers
        /\ resolver'.pc = "create"
              => Registers(Hits(providers, resolver.net, KnownASN), KnownASN)
    BY <1>2, <1>t DEF MatchRules, TickTypes, Resolving
  <2>2. resolver'.pc = "create" => Unregistered(KnownASN)
    BY <2>1, RegistersTheNew DEF Unregistered
  <2>3. TickRegistersTheNew'
    BY <2>1, <2>2 DEF TickRegistersTheNew, Unregistered, KnownASN
  <2>4. backfill'.pc = "idle"
    BY <1>2 DEF MatchRules, Undisturbed, Alone, ResolverRuns, BackfillRuns
  <2> QED
    BY <2>1, <2>3, <2>4 DEF BackfillKnowsTheTable, AutoProvidersAreUnique
<1>3. CASE Observe \/ ReadNetwork \/ LookupASN \/ ReadForUpsert \/ WriteNetwork
  <2>1. UNCHANGED <<providers, backfill>>
    BY <1>3 DEF Observe, ReadNetwork, LookupASN, ReadForUpsert, WriteNetwork
  <2>2. /\ resolver'.pc # "create"
        /\ resolver'.pc # "idle" \/ resolver.pc # "idle"
    BY <1>3, <1>t, NothingTypes
       DEF Observe, ReadNetwork, LookupASN, ReadForUpsert, WriteNetwork, TickTypes, Resolving
  <2>3. backfill'.pc = "idle"
    BY <1>t, <2>1, <2>2 DEF Undisturbed, Alone, ResolverRuns, BackfillRuns
  <2> QED
    BY <2>1, <2>2, <2>3
       DEF TickRegistersTheNew, BackfillKnowsTheTable, AutoProvidersAreUnique
<1> QED
  BY <1>1, <1>2, <1>3 DEF Resolve

\* The backfill registers what its list lacks, and adds it to the list.
LEMMA HandleProvidersAuto ==
    ASSUME TypeInv, Undisturbed, ~overlap, BackfillKnowsTheTable, AutoProvidersAreUnique,
           HandleProviders, ~overlap'
    PROVE  TickRegistersTheNew' /\ BackfillKnowsTheTable' /\ AutoProvidersAreUnique'
<1>t. BackfillTypes /\ Alone' /\ StoreTypes
  BY HandleProvidersUndisturbed DEF TypeInv, Undisturbed
<1>1. TickRegistersTheNew'
  <2>1. BackfillRuns \/ BackfillRuns'
    BY <1>t, NothingTypes
       DEF HandleProviders, SaveProvider, ReadProviders, ReadNetworks, AssignNext,
           ReadForBackfill, WriteBackfilled, BackfillEnds, BackfillRuns, BackfillTypes,
           Backfilling
  <2>2. resolver' = resolver
    BY DEF HandleProviders, SaveProvider, ReadProviders, ReadNetworks, AssignNext,
           ReadForBackfill, WriteBackfilled, BackfillEnds
  <2>3. resolver'.pc = "idle"
    BY <1>t, <2>1, <2>2 DEF Undisturbed, Alone, ResolverRuns
  <2> QED
    BY <2>3 DEF TickRegistersTheNew
<1>2. CASE SaveProvider
  <2>1. backfill'.pc = "providers"
    BY <1>2, <1>t DEF SaveProvider, BackfillTypes, Backfilling
  <2>2. PICK asn \in ISPs \cup {NoASN}, macs \in {{}} \cup {{n} : n \in Nets} :
           LET p == [asn |-> asn, macs |-> macs, auto |-> FALSE]
           IN  \/ Len(providers) < MaxProviders /\ providers' = Append(providers, p)
               \/ \E i \in DOMAIN providers : providers' = [providers EXCEPT ![i] = p]
    BY <1>2 DEF SaveProvider
  <2> DEFINE p == [asn |-> asn, macs |-> macs, auto |-> FALSE]
  <2>3. p \in Provider /\ ~p.auto
    BY ASNsDiffer DEF Provider
  <2> HIDE DEF p
  <2>4. CASE Len(providers) < MaxProviders /\ providers' = Append(providers, p)
    BY <1>2, <1>1, <2>1, <2>3, <2>4, AppendUnique DEF SaveProvider, BackfillKnowsTheTable
  <2>5. CASE \E i \in DOMAIN providers : providers' = [providers EXCEPT ![i] = p]
    BY <1>1, <1>t, <2>1, <2>3, <2>5
       DEF StoreTypes, BackfillKnowsTheTable, AutoProvidersAreUnique
  <2> QED
    BY <2>2, <2>4, <2>5 DEF p
<1>3. CASE AssignNext
  <2>1. PICK n \in backfill.todo :
          LET row == backfill.rows[n]
              hits == Hits(backfill.known, n, row.asn)
              next == [backfill EXCEPT !.todo = @ \ {n}, !.net = n, !.fresh = row.asn]
          IN  \/ /\ Registers(hits, row.asn)
                 /\ Len(providers) < MaxProviders
                 /\ providers' = Append(providers, Registered(row.asn))
                 /\ backfill' = [next EXCEPT !.pc = "upsert", !.provider = NewId,
                                   !.known = Known(@, NewId, Registered(row.asn))]
              \/ /\ ~Registers(hits, row.asn)
                 /\ backfill' = IF UniqueHit(hits) = 0 THEN next
                                ELSE [next EXCEPT !.pc = "upsert",
                                                  !.provider = UniqueHit(hits)]
                 /\ UNCHANGED providers
    BY <1>3 DEF AssignNext
  <2> DEFINE asn == backfill.rows[n].asn
  <2>2. /\ n \in Nets /\ asn \in ASNs
        /\ backfill.known \in UNION {[ids -> Provider] : ids \in SUBSET (1 .. MaxProviders)}
        /\ DOMAIN backfill.known = DOMAIN providers
        /\ \A i \in DOMAIN providers : backfill.known[i] = providers[i]
    BY <1>3, <1>t DEF AssignNext, BackfillTypes, Backfilling, Network,
                      BackfillKnowsTheTable
  <2>3. \/ UNCHANGED providers /\ backfill'.known = backfill.known
        \/ /\ Registers(Hits(backfill.known, n, asn), asn)
           /\ Len(providers) < MaxProviders
           /\ providers' = Append(providers, Registered(asn))
           /\ backfill'.known = Known(backfill.known, NewId, Registered(asn))
    BY <1>t, <2>1 DEF BackfillTypes, Backfilling
  <2>4. CASE UNCHANGED providers /\ backfill'.known = backfill.known
    BY <1>1, <2>2, <2>4 DEF BackfillKnowsTheTable, AutoProvidersAreUnique
  <2>5. CASE /\ Registers(Hits(backfill.known, n, asn), asn)
             /\ Len(providers) < MaxProviders
             /\ providers' = Append(providers, Registered(asn))
             /\ backfill'.known = Known(backfill.known, NewId, Registered(asn))
    <3> HIDE DEF asn
    <3> DEFINE p == Registered(asn)
    <3>1. p \in Provider /\ p.asn = asn
      BY <2>2 DEF Registered, Provider
    <3>2. Unregistered(asn)
      BY <2>2, <2>5, RegistersTheNew DEF Unregistered
    <3>3. AutoProvidersAreUnique'
      BY <1>3, <2>5, <3>1, <3>2, AppendUnique DEF AssignNext
    <3>4. /\ NewId \in 1 .. MaxProviders /\ NewId \notin DOMAIN providers
          /\ DOMAIN providers' = DOMAIN providers \cup {NewId}
          /\ \A i \in DOMAIN providers : providers'[i] = providers[i]
          /\ providers'[NewId] = p
      BY <1>3, <2>5, <3>1, AppendType DEF AssignNext
    <3> HIDE DEF p
    <3>5. /\ DOMAIN Known(backfill.known, NewId, p) = DOMAIN backfill.known \cup {NewId}
          /\ \A i \in DOMAIN backfill.known \cup {NewId} :
                Known(backfill.known, NewId, p)[i]
                   = IF i = NewId THEN p ELSE backfill.known[i]
      BY DEF Known
    <3>6. backfill'.known = Known(backfill.known, NewId, p)
      BY <2>5 DEF p
    <3>7. BackfillKnowsTheTable'
      BY <2>2, <3>4, <3>5, <3>6 DEF BackfillKnowsTheTable
    <3> QED
      BY <1>1, <3>3, <3>7
  <2> QED
    BY <2>3, <2>4, <2>5
<1>4. CASE ReadProviders
  <2>1. backfill'.known = providers /\ UNCHANGED providers
    BY <1>4, <1>t DEF ReadProviders, BackfillTypes, Backfilling
  <2> QED
    BY <1>1, <2>1 DEF BackfillKnowsTheTable, AutoProvidersAreUnique
<1>5. CASE ReadNetworks \/ ReadForBackfill \/ WriteBackfilled \/ BackfillEnds
  <2>1. /\ \/ backfill'.pc = "idle"
           \/ /\ backfill.pc \in {"networks", "assign", "upsert", "write"}
              /\ backfill'.known = backfill.known
        /\ UNCHANGED providers
    BY <1>5, <1>t, NothingTypes DEF ReadNetworks, ReadForBackfill, WriteBackfilled,
          BackfillEnds, BackfillTypes, Backfilling
  <2> QED
    BY <1>1, <2>1 DEF BackfillKnowsTheTable, AutoProvidersAreUnique
<1> QED
  BY <1>2, <1>3, <1>4, <1>5 DEF HandleProviders

\* Every step without overlap registers an ISP that is not there, or none.
LEMMA StepAuto == TypeInv /\ ChoiceInv /\ AutoInv /\ [Next]_vars => AutoInv'
<1> SUFFICES ASSUME TypeInv, ChoiceInv, AutoInv, [Next]_vars, ~overlap'
             PROVE  TickRegistersTheNew' /\ BackfillKnowsTheTable' /\ AutoProvidersAreUnique'
  BY DEF AutoInv
<1>0. ~overlap
  BY OverlapStays, Zenon
<1>t. /\ Undisturbed /\ TickRegistersTheNew /\ BackfillKnowsTheTable
      /\ AutoProvidersAreUnique
  BY <1>0 DEF ChoiceInv, AutoInv
<1>1. CASE Resolve
  BY <1>0, <1>1, <1>t, ResolveAuto
<1>2. CASE HandleProviders
  BY <1>0, <1>2, <1>t, HandleProvidersAuto
<1>3. CASE HandleNetworks \/ ToggleVPN \/ UNCHANGED vars
  <2>1. UNCHANGED <<providers, resolver, backfill>>
    BY <1>3 DEF HandleNetworks, Choose, WriteChoice, ToggleVPN, vars
  <2> QED
    BY <1>0, <1>t, <2>1 DEF TickRegistersTheNew, BackfillKnowsTheTable,
          AutoProvidersAreUnique, Unregistered, KnownASN
<1>4. CASE StoreFails \/ Restart
  <2>1. /\ resolver' = resolver \/ resolver'.pc = "idle"
        /\ backfill' = backfill \/ backfill'.pc \in {"idle", "providers"}
        /\ UNCHANGED providers
    BY <1>4, NothingTypes DEF StoreFails, Restart, Backfilling
  <2> QED
    BY <1>0, <1>t, <2>1 DEF TickRegistersTheNew, BackfillKnowsTheTable,
          AutoProvidersAreUnique, Unregistered, KnownASN
<1> QED
  BY <1>1, <1>2, <1>3, <1>4 DEF Next

\* Without overlap assignProvider registers an ISP once, over ticks, backfills,
\* failed calls and restarts.
THEOREM AutoProvidersAreUniqueHolds == Spec => []AutoProvidersAreUnique
<1>1. AutoInv => AutoProvidersAreUnique
  BY Zenon DEF AutoInv, AutoProvidersAreUnique
<1> QED
  BY <1>1, InitAuto, StepAuto, InitChoice, StepChoice, TypeInvCorrect, PTL DEF Spec
=============================================================================
