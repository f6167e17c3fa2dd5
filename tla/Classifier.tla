----------------------------- MODULE Classifier -----------------------------
(***************************************************************************)
(* The connectivity-gap classifier (internal/outage/classify.go): whether  *)
(* one observation of the line is an outage, and whose fault it is.        *)
(* The daemon calls it once per tick; OutageLog uses it the same way.      *)
(***************************************************************************)

\* OutageClass; "" is the class of an observation that is no outage.
Classes == {"", "local", "isp", "upstream"}

\* The measured environment at one decision point.
LineState == [awake : BOOLEAN, wifiOn : BOOLEAN, gatewayUp : BOOLEAN,
              internetUp : BOOLEAN, vpn : BOOLEAN, pathBreaksPastISP : BOOLEAN]

Outage(class) == [isOut |-> class # "", class |-> class]

\* The switch of the code is ordered: an earlier arm wins.
Classify(s) ==
    IF s.internetUp THEN Outage("")
    ELSE IF ~s.awake \/ ~s.wifiOn \/ ~s.gatewayUp THEN Outage("local")
    ELSE IF s.pathBreaksPastISP THEN Outage("upstream")
    ELSE Outage("isp")

CountsAgainstISP(class) == class \in {"isp", "upstream"}

\* What the daemon records as evidence (daemon.go, manageOutage and tick).
IsEvidence(s) == LET c == Classify(s)
                 IN  c.isOut /\ CountsAgainstISP(c.class)
=============================================================================
