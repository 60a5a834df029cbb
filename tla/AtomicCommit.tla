---------------------------- MODULE AtomicCommit ----------------------------
(***************************************************************************)
(* What the transaction engine promises to the callers of a replicated     *)
(* data store, whatever messages and timers are behind it: a change is     *)
(* loaded by the surviving locations or refused by them, never both; a     *)
(* caller that is told yes finds the change everywhere it survives, a      *)
(* caller that is told no finds it nowhere.  Agreement is among survivors: *)
(* what only crashed locations had loaded may be refused afterwards.       *)
(* TwoPhaseCommit implements it.                                           *)
(***************************************************************************)
CONSTANTS Tx, Locations, NoLocation

VARIABLES
    up,                  \* the locations that have not crashed
    primary,             \* the one that serves the callers, or NoLocation
    holders,             \* holders[t]: the locations that have loaded t
    refusers,            \* refusers[t]: those up that know t as aborted
    told                 \* what the caller of t has been told

vars == <<up, primary, holders, refusers, told>>

Backups == up \ {primary}

TypeOK ==
    /\ up \subseteq Locations
    /\ primary \in Locations \cup {NoLocation}
    /\ holders \in [Tx -> SUBSET Locations]
    /\ refusers \in [Tx -> SUBSET up]
    /\ told \in [Tx -> {"nothing", "yes", "no"}]

Init ==
    /\ up = Locations
    /\ primary \in Locations
    /\ holders = [t \in Tx |-> {}]
    /\ refusers = [t \in Tx |-> {}]
    /\ told = [t \in Tx |-> "nothing"]

\* The next values of the variables of transaction t.
Becomes(t, h, r, a) ==
    /\ holders'[t] = h
    /\ refusers'[t] = r
    /\ told'[t] = a

Load(t, l) ==
    /\ refusers[t] = {}
    /\ told[t] # "no"
    /\ Becomes(t, holders[t] \cup {l}, {}, told[t])

Refuse(t, l) ==
    /\ holders[t] \cap up = {}
    /\ told[t] # "yes"
    /\ Becomes(t, holders[t], refusers[t] \cup {l}, told[t])

\* A backup that could not take part is asked again, perhaps in vain because
\* the request comes late; a primary that has decided to abort never changes
\* its mind.
Reconsider(t, l) ==
    /\ l \in refusers[t] \cap Backups
    /\ Becomes(t, holders[t], refusers[t] \ {l}, told[t])

\* The caller's own replica, the primary's, loads the change last.
SayYes(t) ==
    /\ primary \in up
    /\ told[t] = "nothing"
    /\ refusers[t] = {}
    /\ Backups \subseteq holders[t]
    /\ Becomes(t, holders[t] \cup {primary}, {}, "yes")

\* The request is refused before it starts, or aborted by all that take part.
SayNo(t) ==
    /\ told[t] = "nothing"
    /\ holders[t] = {}
    /\ Becomes(t, {}, refusers[t], "no")

Idle(t) == Becomes(t, holders[t], refusers[t], told[t])

\* The failure of a location may settle several transactions in one step.
Work ==
    /\ \A t \in Tx : \/ Idle(t)
                     \/ SayYes(t)
                     \/ SayNo(t)
                     \/ \E l \in up : \/ Load(t, l)
                                       \/ Refuse(t, l)
                                       \/ Reconsider(t, l)
    /\ holders' \in [Tx -> SUBSET Locations]
    /\ refusers' \in [Tx -> SUBSET Locations]
    /\ told' \in [Tx -> {"nothing", "yes", "no"}]
    /\ UNCHANGED <<up, primary>>

Crash(l) ==
    /\ l \in up
    /\ up' = up \ {l}
    /\ primary' = IF primary = l THEN NoLocation ELSE primary
    /\ refusers' = [t \in Tx |-> refusers[t] \ {l}]
    /\ UNCHANGED <<holders, told>>

\* Any location that is up may take over, and knows what it knew as a backup.
TakeOver(l) ==
    /\ primary = NoLocation
    /\ l \in up
    /\ primary' = l
    /\ UNCHANGED <<up, holders, refusers, told>>

Next ==
    \/ Work
    \/ \E l \in Locations : Crash(l) \/ TakeOver(l)

Spec == Init /\ [][Next]_vars

---------------------------------------------------------------------------
(* What the promise amounts to for a client: the survivors never disagree  *)
(* on a transaction, a change reported as committed is held by whoever may *)
(* become primary, and one reported as aborted by nobody.                  *)
SurvivorsAgree == \A t \in Tx : refusers[t] # {} => holders[t] \cap up = {}

Durable ==
    \A t \in Tx : told[t] = "yes" => up \subseteq holders[t]

NoMeansNowhere == \A t \in Tx : told[t] = "no" => holders[t] = {}

Inv == TypeOK /\ SurvivorsAgree /\ Durable /\ NoMeansNowhere
=============================================================================
