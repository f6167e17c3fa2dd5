------------------------------- MODULE Ledger -------------------------------
(***************************************************************************)
(* What the outages table promises a reader of the evidence, with nothing  *)
(* of the tick that writes it: a log of outages per network to which one   *)
(* outage at a time is opened, later than all the network had, and whose   *)
(* open outage is closed once, at a time that has come.  OutageLog         *)
(* implements it (OutageLog!Ledger).                                       *)
(***************************************************************************)
EXTENDS Naturals

CONSTANT Places     \* the networks an outage may be of

VARIABLES
    log,       \* the outages, [net, start, end]; end = 0 while it lasts
    now,       \* the wall clock
    trouble    \* whether the store has ever refused a call

vars == <<log, now, trouble>>

Init ==
    /\ log = {}
    /\ now \in Nat
    /\ trouble = FALSE

\* A new outage follows the closed outages of its network.  Only a store that
\* refused to close one leaves two of a network open.
Open(new) ==
    /\ new.net \in Places
    /\ new.start \in 1 .. now
    /\ new.end = 0
    /\ \A r \in log : r.net = new.net =>
          /\ r.start < new.start
          /\ \/ r.end # 0 /\ r.end <= new.start
             \/ trouble
    /\ log' = log \cup {new}
    /\ UNCHANGED <<now, trouble>>

\* The newest outage its network has open ends, not before it started and not
\* in the future; nothing else changes.
Close(old, new) ==
    /\ old.end = 0
    /\ \A r \in log : r.net = old.net /\ r.end = 0 => r.start <= old.start
    /\ new.end \in old.start .. now
    /\ new = [old EXCEPT !.end = new.end]
    /\ log' = (log \ {old}) \cup {new}
    /\ UNCHANGED <<now, trouble>>

\* Time passes.
Pass ==
    /\ now < now'
    /\ UNCHANGED <<log, trouble>>

\* The store refuses a call.
Refuse ==
    /\ trouble' = TRUE
    /\ UNCHANGED <<log, now>>

Next ==
    \/ Pass
    \/ Refuse
    \/ \E new \in log' \ log : \/ Open(new)
                               \/ \E old \in log : Close(old, new)

Spec == Init /\ [][Next]_vars
=============================================================================
