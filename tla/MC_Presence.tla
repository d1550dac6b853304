----------------------------- MODULE MC_Presence ------------------------------
(* Instances of Presence: two users, the first with two tabs, on one API     *)
(* process or on the two replicas of the Kubernetes deployment.             *)
EXTENDS Presence, TLC

CONSTANTS ana, bruno, t1, t2, t3, api1, api2

TwoTabsAndOne == t1 :> ana @@ t2 :> ana @@ t3 :> bruno
TwoTabs       == t1 :> ana @@ t2 :> ana
AllOnOne      == [s \in Sockets |-> api1]
TabsApart     == [s \in Sockets |-> IF s = t2 THEN api2 ELSE api1]
===============================================================================
