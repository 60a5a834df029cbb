-------------------------- MODULE ReplicatedService --------------------------
(***************************************************************************)
(* What the replication manager promises about a set of replicated         *)
(* processes: as soon as one of them is complete there is exactly one      *)
(* primary, it is complete, and when it goes away another complete one     *)
(* takes over at once.                                                     *)
(***************************************************************************)
CONSTANTS Locations, NoLocation

VARIABLES
    complete,            \* the locations that hold a member of every group
    primary              \* the one that serves, or NoLocation

vars == <<complete, primary>>

Init == complete = {} /\ primary = NoLocation

\* The first complete location serves.
Start(l) ==
    /\ complete = {}
    /\ complete' = {l}
    /\ primary' = l

\* The others follow.
Join(l) ==
    /\ complete # {}
    /\ l \notin complete
    /\ complete' = complete \cup {l}
    /\ UNCHANGED primary

\* A location fails or is withdrawn; a complete one replaces the primary.
Leave(l) ==
    /\ l \in complete
    /\ complete' = complete \ {l}
    /\ \/ primary # l /\ UNCHANGED primary
       \/ primary = l /\ complete' # {} /\ primary' \in complete'
       \/ primary = l /\ complete' = {} /\ primary' = NoLocation

Next == \E l \in Locations : Start(l) \/ Join(l) \/ Leave(l)

Spec == Init /\ [][Next]_vars

TypeOK ==
    /\ complete \in SUBSET Locations
    /\ primary \in Locations \cup {NoLocation}

\* Somebody serves exactly when somebody can.
Served == IF complete = {} THEN primary = NoLocation ELSE primary \in complete
=============================================================================
