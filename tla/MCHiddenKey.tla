---------------------------- MODULE MCHiddenKey -----------------------------
(* Places for HiddenKey: two with the same gateway address and different    *)
(* lines, a third with another gateway and the first one's provider, and    *)
(* one whose router shows its MAC.                                          *)
EXTENDS HiddenKey
CONSTANTS Home, Abroad, Office, Cafe, RouterIP, OfficeIP, CafeMAC, AS1, AS2

MCGateway == [p \in Places |-> CASE p \in {Home, Abroad} -> RouterIP
                                 [] p = Office -> OfficeIP
                                 [] OTHER -> CafeMAC]
MCISP == [p \in Places |-> IF p = Abroad THEN AS2 ELSE AS1]
=============================================================================
