--------------------------- MODULE NetworkIdentity --------------------------
(***************************************************************************)
(* Which provider a network belongs to (internal/netid, the network and    *)
(* provider rows of internal/store, the POST handlers of internal/web).    *)
(* Three writers share the store without a transaction: the tick's         *)
(* Resolver, the dashboard request that assigns a network by hand, and the *)
(* dashboard request that saves a provider and then backfills.  Each of    *)
(* their store calls is one step, and between two steps the others run.    *)
(*                                                                         *)
(* Networks are those with a visible router MAC: their fingerprint is      *)
(* fixed and no interface-bound lookup happens (hiddenKey is not here).    *)
(***************************************************************************)
EXTENDS Naturals, Sequences, FiniteSets

CONSTANTS
    Nets,         \* fingerprints: SSID and gateway MAC
    NoNet,        \* no network
    ISPs,         \* AS numbers of real providers
    IspOf,        \* the real AS number behind each network
    ExitASN,      \* the AS number of the VPN's exit
    Garbage,      \* a lookup answer that is no "AS<num> <org>" line
    NoASN,        \* the empty string
    MayOverlap,   \* whether writers run at the same time in this instance
    MayFlip,      \* whether the VPN may change between two steps of Resolve
    MaxProviders  \* bound: rows of the providers table

RealASNs == ISPs \cup {ExitASN}
ASNs == RealASNs \cup {Garbage, NoASN}

ASSUME IdentityAssumption ==
    /\ IspOf \in [Nets -> ISPs]
    /\ NoNet \notin Nets
    /\ ExitASN # Garbage /\ ExitASN # NoASN /\ Garbage # NoASN
    /\ ISPs \cap {ExitASN, Garbage, NoASN} = {}
    /\ MayOverlap \in BOOLEAN /\ MayFlip \in BOOLEAN
    /\ MaxProviders \in Nat

VARIABLES
    providers,  \* the providers table: an id is a place in this sequence
    networks,   \* the networks table
    vpn,        \* whether the VPN is up
    resolver,   \* the locals of Resolver.Resolve
    backfill,   \* the locals of handleProviders and ReassignUnassigned
    chooser,    \* the locals of handleNetworks
    chosen,     \* history: the provider the user last chose for a network; 0: none
    overlap,    \* history: two writers have run at the same time
    flipped     \* history: the VPN changed during a Resolve

vars == <<providers, networks, vpn, resolver, backfill, chooser, chosen, overlap,
          flipped>>
-----------------------------------------------------------------------------
(* Types *)

\* MatchASN and MatchMACs; "auto" tells a provider registered by assignProvider.
Provider == [asn : ASNs, macs : SUBSET Nets, auto : BOOLEAN]

\* A row of the networks table; provider 0 stands for NULL.
Network == [stored : BOOLEAN, provider : 0 .. MaxProviders, asn : ASNs]
NoRow == [stored |-> FALSE, provider |-> 0, asn |-> NoASN]

Resolving == [pc : {"idle", "read", "lookup", "match", "create", "upsert", "write"},
              net : Nets \cup {NoNet}, vpn : BOOLEAN, row : Network, fresh : ASNs,
              provider : 0 .. MaxProviders]
Backfilling == [pc : {"idle", "providers", "networks", "assign", "upsert", "write"},
                known : UNION {[ids -> Provider] : ids \in SUBSET (1 .. MaxProviders)},
                rows : [Nets -> Network], todo : SUBSET Nets,
                net : Nets \cup {NoNet}, fresh : ASNs, row : Network,
                provider : 0 .. MaxProviders, boot : BOOLEAN]
Choosing == [pc : {"idle", "write"}, net : Nets \cup {NoNet}, row : Network,
             provider : 0 .. MaxProviders]

NotResolving == [pc |-> "idle", net |-> NoNet, vpn |-> FALSE, row |-> NoRow,
                 fresh |-> NoASN, provider |-> 0]
NotBackfilling == [pc |-> "idle", known |-> <<>>, rows |-> [n \in Nets |-> NoRow],
                   todo |-> {}, net |-> NoNet, fresh |-> NoASN, row |-> NoRow,
                   provider |-> 0, boot |-> FALSE]
NotChoosing == [pc |-> "idle", net |-> NoNet, row |-> NoRow, provider |-> 0]

\* The provider of a network exists: provider_id REFERENCES providers(id).
TypeOK ==
    /\ providers \in Seq(Provider)
    /\ networks \in [Nets -> Network]
    /\ \A n \in Nets : networks[n].provider \in 0 .. Len(providers)
    /\ vpn \in BOOLEAN
    /\ resolver \in Resolving
    /\ backfill \in Backfilling
    /\ chooser \in Choosing
    /\ chosen \in [Nets -> 0 .. MaxProviders]
    /\ overlap \in BOOLEAN /\ flipped \in BOOLEAN

Init ==
    /\ providers = <<>>
    /\ networks = [n \in Nets |-> NoRow]
    /\ vpn \in BOOLEAN
    /\ resolver = NotResolving
    /\ backfill = NotBackfilling
    /\ chooser = NotChoosing
    /\ chosen = [n \in Nets |-> 0]
    /\ overlap = FALSE
    /\ flipped = FALSE

-----------------------------------------------------------------------------
(* Rules *)

ByMAC(ps, net) == {i \in DOMAIN ps : net \in ps[i].macs}
ByASN(ps, asn) == {i \in DOMAIN ps : asn # NoASN /\ ps[i].asn = asn}

\* matchHits: a MAC rule that fires decides alone.
Hits(ps, net, asn) ==
    IF ByMAC(ps, net) # {} THEN ByMAC(ps, net) ELSE ByASN(ps, asn)

\* providerFromASN: only an "AS<num> <org>" line names one.
NamesProvider(asn) == asn \in RealASNs

\* assignProvider registers a provider only where no rule matches at all.
Registers(hits, asn) == hits = {} /\ NamesProvider(asn)

\* The only hit, or none: an ambiguous match is not guessed.
UniqueHit(hits) == IF Cardinality(hits) = 1 THEN CHOOSE i \in hits : TRUE ELSE 0

\* Mutant: the id of the row after the inserted one.
IdAfter == Len(providers) + 2
\* LastInsertId of the next row.
NewId == Len(providers) + 1

Registered(asn) == [asn |-> asn, macs |-> {}, auto |-> TRUE]

-----------------------------------------------------------------------------
(* UpsertNetwork: a read and a write, each a statement of its own *)

\* Mutant: a blank ASN is written like any other.
MergeAll(row, provider, asn) ==
    [stored |-> TRUE, provider |-> IF provider # 0 THEN provider ELSE row.provider,
     asn |-> asn]
\* The written row: a blank value leaves what was read.
Merge(row, provider, asn) ==
    [stored |-> TRUE, provider |-> IF provider # 0 THEN provider ELSE row.provider,
     asn |-> IF asn # NoASN THEN asn ELSE row.asn]

\* An INSERT after a read that found nothing fails if the row exists by now.
Upsert(net, row, provider, asn) ==
    IF ~row.stored /\ networks[net].stored
    THEN UNCHANGED networks
    ELSE networks' = [networks EXCEPT ![net] = Merge(row, provider, asn)]

-----------------------------------------------------------------------------
(* Who runs at the same time *)

Starts(others) ==
    /\ others => MayOverlap
    /\ overlap' = (overlap \/ others)

ResolverRuns == resolver.pc # "idle"
BackfillRuns == backfill.pc # "idle"
ChooserRuns == chooser.pc # "idle"

-----------------------------------------------------------------------------
(* The tick: Resolver.Resolve *)

\* env.Observe took the snapshot; the VPN is judged here and not again.
Observe ==
    /\ ~ResolverRuns
    /\ Starts(BackfillRuns \/ ChooserRuns)
    /\ \E n \in Nets :
          resolver' = [NotResolving EXCEPT !.pc = "read", !.net = n, !.vpn = vpn]
    /\ UNCHANGED <<providers, networks, vpn, backfill, chooser, chosen, flipped>>

\* NetworkByFingerprint
ReadNetwork ==
    /\ resolver.pc = "read"
    /\ resolver' = [resolver EXCEPT !.pc = "lookup", !.row = networks[resolver.net]]
    /\ UNCHANGED <<providers, networks, vpn, backfill, chooser, chosen, overlap, flipped>>

\* Mutant: a lookup is worthwhile whatever answers it.
ShouldLookupAlways == resolver.row.asn = NoASN
\* shouldLookupASN
ShouldLookupASN == ~resolver.vpn /\ resolver.row.asn = NoASN

\* Fetcher.ASN: whoever carries the traffic now answers, or nobody, or an error
\* page does.
Answers == {NoASN, Garbage, IF vpn THEN ExitASN ELSE IspOf[resolver.net]}

\* Mutant: whether the network has a provider is not asked.
NeedsProviderAlways == TRUE
\* alreadyAssigned
NeedsProvider == resolver.row.provider = 0

LookupASN ==
    /\ resolver.pc = "lookup"
    /\ \E answer \in IF ShouldLookupASN THEN Answers ELSE {NoASN} :
          resolver' = [resolver EXCEPT !.fresh = answer,
                          !.pc = IF NeedsProvider THEN "match" ELSE "upsert"]
    /\ UNCHANGED <<providers, networks, vpn, backfill, chooser, chosen, overlap, flipped>>

KnownASN == IF resolver.fresh # NoASN THEN resolver.fresh ELSE resolver.row.asn

\* The providers are read and matched; a failed read assigns nothing.
MatchRules ==
    /\ resolver.pc = "match"
    /\ LET hits == Hits(providers, resolver.net, KnownASN)
       IN  \/ resolver' = [resolver EXCEPT !.provider = UniqueHit(hits),
                              !.pc = IF Registers(hits, KnownASN) THEN "create"
                                     ELSE "upsert"]
           \/ resolver' = [resolver EXCEPT !.pc = "upsert"]
    /\ UNCHANGED <<providers, networks, vpn, backfill, chooser, chosen, overlap, flipped>>

\* UpsertProvider for an ASN no rule matched; a failure is only logged.
RegisterProvider ==
    /\ resolver.pc = "create"
    /\ \/ /\ Len(providers) < MaxProviders
          /\ providers' = Append(providers, Registered(KnownASN))
          /\ resolver' = [resolver EXCEPT !.provider = NewId, !.pc = "upsert"]
       \/ /\ resolver' = [resolver EXCEPT !.pc = "upsert"]
          /\ UNCHANGED providers
    /\ UNCHANGED <<networks, vpn, backfill, chooser, chosen, overlap, flipped>>

ReadForUpsert ==
    /\ resolver.pc = "upsert"
    /\ resolver' = [resolver EXCEPT !.pc = "write", !.row = networks[resolver.net]]
    /\ UNCHANGED <<providers, networks, vpn, backfill, chooser, chosen, overlap, flipped>>

WriteNetwork ==
    /\ resolver.pc = "write"
    /\ Upsert(resolver.net, resolver.row, resolver.provider, resolver.fresh)
    /\ resolver' = NotResolving
    /\ UNCHANGED <<providers, vpn, backfill, chooser, chosen, overlap, flipped>>

-----------------------------------------------------------------------------
(* POST /api/providers: handleProviders, then ReassignUnassigned *)

\* A provider is added, or one is given other rules and is the user's from then.
SaveProvider ==
    /\ ~BackfillRuns
    /\ Starts(ResolverRuns \/ ChooserRuns)
    /\ \E asn \in ISPs \cup {NoASN}, macs \in {{}} \cup {{n} : n \in Nets} :
          LET p == [asn |-> asn, macs |-> macs, auto |-> FALSE]
          IN  \/ Len(providers) < MaxProviders /\ providers' = Append(providers, p)
              \/ \E i \in DOMAIN providers : providers' = [providers EXCEPT ![i] = p]
    /\ backfill' = [backfill EXCEPT !.pc = "providers"]
    /\ UNCHANGED <<networks, vpn, resolver, chooser, chosen, flipped>>

ReadProviders ==
    /\ backfill.pc = "providers"
    /\ backfill' = [backfill EXCEPT !.pc = "networks", !.known = providers]
    /\ UNCHANGED <<providers, networks, vpn, resolver, chooser, chosen, overlap, flipped>>

\* Mutant: networks that have a provider are assigned again.
AllStored == {n \in Nets : networks[n].stored}
Unassigned == {n \in Nets : networks[n].stored /\ networks[n].provider = 0}

ReadNetworks ==
    /\ backfill.pc = "networks"
    /\ backfill' = [backfill EXCEPT !.pc = "assign", !.rows = networks,
                                    !.todo = Unassigned]
    /\ UNCHANGED <<providers, networks, vpn, resolver, chooser, chosen, overlap, flipped>>

\* Mutant: a provider registered for one network is not known to the next.
KnownAsRead(known, id, p) == known
\* assignProvider appends what it registered to the list of its caller.
Known(known, id, p) == [i \in DOMAIN known \cup {id} |-> IF i = id THEN p ELSE known[i]]

\* assignProvider for the next network, from the rows that were read.
AssignNext ==
    /\ backfill.pc = "assign"
    /\ \E n \in backfill.todo :
          LET row == backfill.rows[n]
              hits == Hits(backfill.known, n, row.asn)
              next == [backfill EXCEPT !.todo = @ \ {n}, !.net = n, !.fresh = row.asn]
          IN  \/ /\ Registers(hits, row.asn)
                 /\ Len(providers) < MaxProviders
                 /\ providers' = Append(providers, Registered(row.asn))
                 /\ backfill' = [next EXCEPT !.pc = "upsert", !.provider = NewId,
                                   !.known = Known(@, NewId, Registered(row.asn))]
              \/ /\ ~Registers(hits, row.asn)
                 /\ backfill' = IF UniqueHit(hits) = 0 THEN next
                                ELSE [next EXCEPT !.pc = "upsert",
                                                  !.provider = UniqueHit(hits)]
                 /\ UNCHANGED providers
    /\ UNCHANGED <<networks, vpn, resolver, chooser, chosen, overlap, flipped>>

ReadForBackfill ==
    /\ backfill.pc = "upsert"
    /\ backfill' = [backfill EXCEPT !.pc = "write", !.row = networks[backfill.net]]
    /\ UNCHANGED <<providers, networks, vpn, resolver, chooser, chosen, overlap, flipped>>

WriteBackfilled ==
    /\ backfill.pc = "write"
    /\ Upsert(backfill.net, backfill.row, backfill.provider, backfill.fresh)
    /\ backfill' = [backfill EXCEPT !.pc = "assign"]
    /\ UNCHANGED <<providers, vpn, resolver, chooser, chosen, overlap, flipped>>

BackfillEnds ==
    /\ backfill.pc = "assign"
    /\ backfill.todo = {}
    /\ backfill' = NotBackfilling
    /\ UNCHANGED <<providers, networks, vpn, resolver, chooser, chosen, overlap, flipped>>

-----------------------------------------------------------------------------
(* POST /api/networks: handleNetworks *)

\* The user picks a provider for a listed network, or none; UpsertNetwork reads.
Choose ==
    /\ ~ChooserRuns
    /\ ~backfill.boot
    /\ Starts(ResolverRuns \/ BackfillRuns)
    /\ \E n \in Nets, p \in 0 .. Len(providers) :
          /\ networks[n].stored
          /\ chooser' = [pc |-> "write", net |-> n, row |-> networks[n], provider |-> p]
    /\ UNCHANGED <<providers, networks, vpn, resolver, backfill, chosen, flipped>>

WriteChoice ==
    /\ chooser.pc = "write"
    /\ Upsert(chooser.net, chooser.row, chooser.provider, NoASN)
    /\ chosen' = [chosen EXCEPT ![chooser.net] = chooser.provider]
    /\ chooser' = NotChoosing
    /\ UNCHANGED <<providers, vpn, resolver, backfill, overlap, flipped>>

-----------------------------------------------------------------------------
(* Failures and the environment *)

\* A store call fails: the tick is skipped, the backfill stops where it is, the
\* request is answered with an error.
StoreFails ==
    /\ \/ /\ resolver.pc \in {"read", "upsert", "write"}
          /\ resolver' = NotResolving
          /\ UNCHANGED <<backfill, chooser>>
       \/ /\ BackfillRuns
          /\ backfill' = NotBackfilling
          /\ UNCHANGED <<resolver, chooser>>
       \/ /\ ChooserRuns
          /\ chooser' = NotChoosing
          /\ UNCHANGED <<resolver, backfill>>
    /\ UNCHANGED <<providers, networks, vpn, chosen, overlap, flipped>>

\* The process exits between any two steps; mustServe then backfills before it
\* ticks or serves requests (`netqa speedtest` may still resolve).
Restart ==
    /\ resolver' = NotResolving
    /\ chooser' = NotChoosing
    /\ backfill' = [NotBackfilling EXCEPT !.pc = "providers", !.boot = TRUE]
    /\ UNCHANGED <<providers, networks, vpn, chosen, overlap, flipped>>

\* Only a change between Observe and the lookup can matter to Resolve.
ToggleVPN ==
    /\ resolver.pc \in {"read", "lookup"} => MayFlip
    /\ vpn' = ~vpn
    /\ flipped' = (flipped \/ resolver.pc \in {"read", "lookup"})
    /\ UNCHANGED <<providers, networks, resolver, backfill, chooser, chosen, overlap>>

Resolve == Observe \/ ReadNetwork \/ LookupASN \/ MatchRules \/ RegisterProvider
           \/ ReadForUpsert \/ WriteNetwork
HandleProviders == SaveProvider \/ ReadProviders \/ ReadNetworks \/ AssignNext
                   \/ ReadForBackfill \/ WriteBackfilled \/ BackfillEnds
HandleNetworks == Choose \/ WriteChoice

Next == Resolve \/ HandleProviders \/ HandleNetworks \/ StoreFails \/ Restart \/ ToggleVPN

Spec == Init /\ [][Next]_vars

-----------------------------------------------------------------------------
(* Properties *)

\* As long as no two writers have run at the same time, a network has the
\* provider its user last chose: neither a later tick nor a backfill, whatever
\* rules were added meanwhile, replaces it.
UserChoiceKept ==
    ~overlap => \A n \in Nets :
        chosen[n] # 0 => networks[n].provider = chosen[n]

\* As long as no two writers have run at the same time, one real ISP is
\* registered at most once, over ticks, backfills, failed calls and restarts.
AutoProvidersAreUnique ==
    ~overlap => \A i, j \in DOMAIN providers :
        providers[i].auto /\ providers[j].auto /\ providers[i].asn = providers[j].asn
            => i = j

\* Unless the VPN comes up in the middle of a tick, neither a network nor a
\* provider registered for one carries the AS number of the VPN's exit.
ExitIsNeverTheISP ==
    ~flipped => /\ \A n \in Nets : networks[n].asn # ExitASN
                /\ \A i \in DOMAIN providers : providers[i].asn # ExitASN

\* As long as no two writers have run at the same time, no step forgets a
\* network, its AS number or its provider: blank values never wipe known ones.
KnownFactsAreKept ==
    [][~overlap' => \A n \in Nets :
          /\ networks[n].stored => networks'[n].stored
          /\ networks[n].asn # NoASN => networks'[n].asn = networks[n].asn
          /\ networks[n].provider # 0 => networks'[n].provider # 0]_vars

-----------------------------------------------------------------------------
(* What the comments promise without the restrictions *)

\* internal/netid/netid.go: "An existing manual assignment is left untouched."
ManualAssignmentUntouched ==
    \A n \in Nets : chosen[n] # 0 => networks[n].provider = chosen[n]
=============================================================================
