------------------------------- MODULE MessageLog -------------------------------
(***************************************************************************)
(* What a channel promises its readers about a message: it appears once,      *)
(* only its author changes it, and once removed it is a tombstone for good.   *)
(* Messaging implements this specification.                                  *)
(***************************************************************************)
CONSTANTS Users, Msgs, Texts, Absent, Tombstone

VARIABLES
    owner,    \* who posted each message
    by,       \* who last changed it
    visible   \* what readers see of it

vars == <<owner, by, visible>>

Init == /\ owner = [m \in Msgs |-> Absent]
        /\ by = [m \in Msgs |-> Absent]
        /\ visible = [m \in Msgs |-> Absent]

Post(u, m, t) ==
    /\ visible[m] = Absent
    /\ owner' = [owner EXCEPT ![m] = u]
    /\ by' = [by EXCEPT ![m] = u]
    /\ visible' = [visible EXCEPT ![m] = t]

Edit(u, m, t) ==
    /\ owner[m] = u /\ visible[m] \notin {Absent, Tombstone}
    /\ by' = [by EXCEPT ![m] = u]
    /\ visible' = [visible EXCEPT ![m] = t]
    /\ UNCHANGED owner

Remove(u, m) ==
    /\ owner[m] = u /\ visible[m] # Absent
    /\ by' = [by EXCEPT ![m] = u]
    /\ visible' = [visible EXCEPT ![m] = Tombstone]
    /\ UNCHANGED owner

Next == \E u \in Users, m \in Msgs :
            Remove(u, m) \/ \E t \in Texts : Post(u, m, t) \/ Edit(u, m, t)

Spec == Init /\ [][Next]_vars
===============================================================================
