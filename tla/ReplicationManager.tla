------------------------- MODULE ReplicationManager -------------------------
(***************************************************************************)
(* ReplicationManager_impl with its Location and ObjectGroup contexts: the *)
(* groups of one application, all replicated on the same locations         *)
(* (processes).  Every handler runs under m_mutex, so each is one step;    *)
(* between two of them processes crash and start again, and the notices of *)
(* the fault detector arrive late.                                         *)
(*                                                                         *)
(* A location context has two copies of its state: sm is the state of the  *)
(* generated machine (_fsm), state is m_fsm_state, set by the Entry of a   *)
(* state.  They differ after an action of a transition has thrown, as the  *)
(* machine is then in the new state but no Entry has run.  A handler that  *)
(* throws keeps what it did to the contexts and saves no ObjectGroupData.  *)
(*                                                                         *)
(* Locations are statefull ones, named by numbers in the order of the      *)
(* std::map of their names.                                                *)
(***************************************************************************)
EXTENDS Integers, FiniteSets

CONSTANTS
    Locations,
    GroupCount,          \* groups are 1..GroupCount, in order of creation
    NoLocation,
    MinMembers,          \* org.omg.ft.MinimumNumberReplicas
    InitOutcomes,        \* of init_primary/backup_data_stores: TRUE is success
    MaxCrashes           \* bound: number of crashes

ASSUME ConstantsAssumption ==
    /\ IsFiniteSet(Locations) /\ Locations \subseteq Nat
    /\ NoLocation \notin Locations
    /\ GroupCount \in Nat \ {0}
    /\ MinMembers \in Nat /\ MinMembers >= 2
    /\ InitOutcomes \subseteq {TRUE, FALSE}
    /\ MaxCrashes \in Nat

Groups == 1 .. GroupCount

LocationStates == {"INITIAL", "INSERTING_PRIMARY", "PRIMARY",
                   "INSERTING_BACKUP", "BACKUP", "FAILED"}
GroupStates == {"INITIAL", "COMPLETE_FAILURE", "LOST_REDUNDANCY",
                "DEGRADED_REDUNDANCY", "FULLY_REDUNDANT"}
Inserting == {"INSERTING_PRIMARY", "INSERTING_BACKUP"}
Running == {"PRIMARY", "BACKUP"}

VARIABLES
    created,             \* number of groups that create_object has made
    sm, state,           \* location: _fsm and m_fsm_state
    count, exp,          \* ... m_members_count and m_exp_add_member
    backup,              \* ... m_is_backup
    firstBackup,         \* ... m_first_backup
    admin,               \* ... has_members_admin of its LocationInfo
    present,             \* group: the locations with an object in m_infos
    gstate, gcount,      \* ... its machine and m_members_count
    members,             \* ... the locations in ObjectGroupData.members
    primaryLoc,          \* ... its primary location property
    told,                \* the primary that the members admin was told of
    misled,              \* ... those that a withdrawal told last (history)
    proc,                \* the process of a location (external)
    notices,             \* crash notices of the fault detector on their way
    crashes              \* number of crashes

locationVars == <<sm, state, count, exp, backup, firstBackup, admin>>
groupVars == <<present, gstate, gcount, members, primaryLoc>>
envVars == <<proc, notices, crashes>>
vars == <<created, locationVars, groupVars, told, misled, envVars>>

Init ==
    /\ created = 0
    /\ sm = [l \in Locations |-> "INITIAL"] /\ state = sm
    /\ count = [l \in Locations |-> 0] /\ exp = count
    /\ backup = [l \in Locations |-> TRUE]
    /\ firstBackup = [l \in Locations |-> FALSE] /\ admin = firstBackup
    /\ present = [g \in Groups |-> {}] /\ members = present
    /\ gstate = [g \in Groups |-> "INITIAL"]
    /\ gcount = [g \in Groups |-> 0]
    /\ primaryLoc = [g \in Groups |-> NoLocation]
    /\ told = [l \in Locations |-> NoLocation] /\ misled = {}
    /\ proc = [l \in Locations |-> "up"]
    /\ notices = [l \in Locations |-> 0]
    /\ crashes = 0

-----------------------------------------------------------------------------
(* Processes, their failures and the fault detector (external).  Locations *)
(* are inserted and withdrawn one at a time, when every failure so far has *)
(* been handled, and none fails during the insertion of another.           *)

Alive(l) == proc[l] = "registered"

\* No other location is between its first and its last add_member.
Alone(l) == \A p \in Locations \ {l} : sm[p] \notin Inserting

\* ... and no crash of another is still to be noticed.
Calm(l) == Alone(l) /\ \A p \in Locations \ {l} : notices[p] = 0

Crash(l) ==
    /\ Alive(l)
    /\ crashes < MaxCrashes
    /\ Alone(l)
    /\ proc' = [proc EXCEPT ![l] = "down"]
    /\ notices' = [notices EXCEPT ![l] = @ + 1]
    /\ crashes' = crashes + 1
    /\ UNCHANGED <<created, locationVars, groupVars, told, misled>>

Restart(l) ==
    /\ proc[l] = "down"
    /\ proc' = [proc EXCEPT ![l] = "up"]
    /\ UNCHANGED <<created, locationVars, groupVars, told, misled, notices, crashes>>

-----------------------------------------------------------------------------
(* Location and ObjectGroup contexts.                                      *)

\* get_peer_locations: those with an object in the first group.
Peers == present[1]

IsPrimary(l) == state[l] \in {"PRIMARY", "INSERTING_PRIMARY"}

\* Mutants of ExpectAgain: the members it had are forgotten; taken as negative.
ExpectOnlyTheRest(l) == exp
ExpectFewer(l) == [exp EXCEPT ![l] = @ - count[l]]

\* Location::reset expects the members it had, and those it still lacked.
ExpectAgain(l) == [exp EXCEPT ![l] = count[l] + @]

\* Mutant of Tell: only the backups are told, not the new primary.
TellBackups(ps, q) ==
    [p \in Locations |->
        IF p \in ps /\ admin[p] /\ state[p] \in Running /\ ~IsPrimary(p)
           /\ state'[p] = "BACKUP" /\ Alive(p)
        THEN q ELSE told[p]]

\* Location::update_primary for a set of locations: q is sent to the admins
\* of those that are PRIMARY or BACKUP; a process that is down misses it.
Tell(ps, q) ==
    [p \in Locations |->
        IF p \in ps /\ admin[p] /\ state'[p] \in Running /\ Alive(p)
        THEN q ELSE told[p]]

Unflag(ps) == [p \in Locations |-> p \notin ps /\ firstBackup[p]]

\* The machine of the location takes ev_add_member as that of a backup.  In
\* INITIAL this is m_is_backup, which add_member clears when there is no peer.
AsBackup(l) ==
    \/ sm[l] = "INITIAL" /\ backup[l] /\ Peers # {}
    \/ sm[l] = "INSERTING_BACKUP"

\* The state that it then enters: the last member expected completes it.
AfterAddMember(l) ==
    IF AsBackup(l) THEN IF exp[l] > 1 THEN "INSERTING_BACKUP" ELSE "BACKUP"
                   ELSE IF exp[l] > 1 THEN "INSERTING_PRIMARY" ELSE "PRIMARY"

ReadyForPrimary(g) == gstate[g] \in {"INITIAL", "COMPLETE_FAILURE"}

AfterBackupReady(g) ==
    IF gstate[g] = "FULLY_REDUNDANT" \/ gcount[g] + 1 >= MinMembers
    THEN "FULLY_REDUNDANT" ELSE "DEGRADED_REDUNDANCY"

\* The machine of the group has a transition for ev_member_removed ...
RemovalDefined(g) ==
    \/ gstate[g] = "LOST_REDUNDANCY" /\ gcount[g] = 1
    \/ gstate[g] = "DEGRADED_REDUNDANCY"
       /\ (gcount[g] = 2 \/ gcount[g] < MinMembers)
    \/ gstate[g] = "FULLY_REDUNDANT"
       /\ (gcount[g] >= MinMembers \/ gcount[g] = 2)

\* Mutant of AfterRemoval: >= where FULLY_REDUNDANT tests >.
AfterRemovalOffByOne(g) ==
    IF gstate[g] = "LOST_REDUNDANCY" THEN "COMPLETE_FAILURE"
    ELSE IF gstate[g] = "FULLY_REDUNDANT" /\ gcount[g] >= MinMembers
    THEN "FULLY_REDUNDANT"
    ELSE IF gcount[g] = 2 THEN "LOST_REDUNDANCY" ELSE "DEGRADED_REDUNDANCY"

\* ... to this state.
AfterRemoval(g) ==
    IF gstate[g] = "LOST_REDUNDANCY" THEN "COMPLETE_FAILURE"
    ELSE IF gstate[g] = "FULLY_REDUNDANT" /\ gcount[g] > MinMembers
    THEN "FULLY_REDUNDANT"
    ELSE IF gcount[g] = 2 THEN "LOST_REDUNDANCY" ELSE "DEGRADED_REDUNDANCY"

\* ObjectGroup::remove_member throws for an object that is not a member.
Irremovable(l) ==
    {g \in Groups : l \in present[g] /\ ~(l \in members[g] /\ RemovalDefined(g))}

\* The groups that Location::remove_members reaches, in order.
Reached(l) ==
    {g \in Groups : l \in present[g] /\ \A s \in Irremovable(l) : g < s}

\* Location::remove_members; saved: the handler returns without an exception.
RemoveMembers(l, saved) ==
    LET gs == Reached(l) IN
    /\ present' = [g \in Groups |-> IF g \in gs THEN present[g] \ {l} ELSE present[g]]
    /\ gstate' = [g \in Groups |-> IF g \in gs THEN AfterRemoval(g) ELSE gstate[g]]
    /\ gcount' = [g \in Groups |-> IF g \in gs THEN gcount[g] - 1 ELSE gcount[g]]
    /\ members' = [g \in Groups |->
                      IF saved /\ g \in gs THEN members[g] \ {l} ELSE members[g]]

LowestIn(S) == CHOOSE p \in S : \A q \in S : p <= q

\* Mutants of ElectAPrimaryLocation: whoever is not failed; nobody.
ElectAnyLocation(l) ==
    LET candidates == {p \in Locations \ {l} : state[p] # "FAILED"}
    IN  IF candidates # {} THEN LowestIn(candidates) ELSE NoLocation
ElectNobody(l) == NoLocation

ElectAPrimaryLocation(l) ==
    LET candidates == {p \in Peers \ {l} : state[p] = "BACKUP"}
        flagged == {p \in candidates : firstBackup[p]}
    IN  IF flagged # {} THEN LowestIn(flagged)
        ELSE IF candidates # {} THEN LowestIn(candidates) ELSE NoLocation

\* Who replaces l, if anybody has to.
Successor(l) == IF IsPrimary(l) THEN ElectAPrimaryLocation(l) ELSE NoLocation

\* Location::set_primary throws for an object that has never become a backup.
Promotable(e) == \A g \in Groups : e \in present[g] => e \in members[g]

-----------------------------------------------------------------------------
(* The operations of the replication manager.                              *)

\* Outside INITIAL and INSERTING a location has no ev_create_object: the
\* application creates its groups before the locations are complete.
CreateObject ==
    /\ created < GroupCount
    /\ \A l \in Locations : sm[l] \in Inserting \cup {"INITIAL"}
    /\ created' = created + 1
    /\ exp' = [l \in Locations |-> exp[l] + 1]
    /\ UNCHANGED <<sm, state, count, backup, firstBackup, admin>>
    /\ UNCHANGED <<groupVars, told, misled, envVars>>

\* register_statefull_location; TRANSIENT while the location is still running.
RegisterLocation(l) ==
    /\ proc[l] = "up"
    /\ state[l] \in {"INITIAL", "FAILED"}
    /\ exp' = ExpectAgain(l)
    /\ count' = [count EXCEPT ![l] = 0]
    /\ backup' = [backup EXCEPT ![l] = TRUE]
    /\ sm' = [sm EXCEPT ![l] = "INITIAL"]
    /\ state' = [state EXCEPT ![l] = "INITIAL"]
    /\ admin' = [admin EXCEPT ![l] = TRUE]
    /\ present' = [g \in Groups |-> present[g] \ {l}]
    /\ told' = [told EXCEPT ![l] = NoLocation] /\ misled' = misled \ {l}
    /\ proc' = [proc EXCEPT ![l] = "registered"]
    /\ UNCHANGED <<created, firstBackup, gstate, gcount, members, primaryLoc>>
    /\ UNCHANGED <<notices, crashes>>

\* add_member up to the call of ev_add_member, the transition of the machine
\* with add_primary or add_backup, and the announcements that follow.
AddMember(l, g) ==
    \E initialised \in InitOutcomes :
    LET primary == IF members[g] = {} THEN l ELSE primaryLoc[g]
        asBackup == AsBackup(l)
        asPrimary == ~asBackup /\ sm[l] \in {"INITIAL", "INSERTING_PRIMARY"}
        defined == exp[l] >= 1 /\ (asBackup \/ asPrimary)
        target == AfterAddMember(l)
        added == defined /\ initialised /\ (asPrimary <=> ReadyForPrimary(g))
        everybody == IF added /\ target = "PRIMARY" THEN Locations ELSE {}
    IN
    /\ Alive(l) /\ admin[l]
    /\ Calm(l)
    /\ g <= created
    /\ l \notin members[g]
    /\ present' = [present EXCEPT ![g] = @ \cup {l}]
    /\ backup' = [backup EXCEPT ![l] = @ /\ Peers # {}]
    /\ sm' = [sm EXCEPT ![l] = IF defined THEN target ELSE @]
    /\ count' = [count EXCEPT ![l] = IF defined THEN @ + 1 ELSE @]
    /\ exp' = [exp EXCEPT ![l] = IF defined THEN @ - 1 ELSE @]
    /\ state' = [state EXCEPT ![l] = IF added THEN target ELSE @]
    /\ gstate' = [gstate EXCEPT ![g] =
                     IF ~added THEN @
                     ELSE IF asPrimary THEN "LOST_REDUNDANCY" ELSE AfterBackupReady(g)]
    /\ gcount' = [gcount EXCEPT ![g] =
                     IF ~added THEN @ ELSE IF asPrimary THEN 1 ELSE @ + 1]
    /\ members' = [members EXCEPT ![g] =
                     IF ~added THEN @ ELSE IF asPrimary THEN {l} ELSE @ \cup {l}]
    /\ primaryLoc' = [primaryLoc EXCEPT ![g] = IF added THEN primary ELSE @]
    /\ firstBackup' = Unflag(everybody)
    /\ told' = IF asBackup /\ defined THEN [told EXCEPT ![l] = primary]
               ELSE Tell(everybody, primary)
    /\ misled' = misled \ (everybody \cup {l})
    /\ UNCHANGED <<created, admin, envVars>>

\* handle_process_failure for a location that is known and not FAILED.
HandleProcessFailure(l) ==
    LET e == Successor(l)
        stuck == Irremovable(l) # {}
        done == ~stuck /\ Promotable(e)
        others == IF done /\ e # NoLocation THEN Peers \ {l} ELSE {}
    IN
    /\ notices[l] > 0
    /\ notices' = [notices EXCEPT ![l] = @ - 1]
    /\ created > 0 \/ admin[l]
    /\ state[l] # "FAILED"
    /\ RemoveMembers(l, done)
    /\ sm' = [p \in Locations |->
                 IF p = e /\ ~stuck THEN "PRIMARY"
                 ELSE IF p = l /\ done THEN "FAILED" ELSE sm[p]]
    /\ state' = [p \in Locations |-> IF done /\ p \in {e, l} THEN sm'[p] ELSE state[p]]
    /\ primaryLoc' = [g \in Groups |-> IF done /\ e \in present[g] THEN e ELSE primaryLoc[g]]
    /\ told' = Tell(others, e) /\ misled' = misled \ others
    /\ firstBackup' = Unflag(others)
    /\ exp' = IF done THEN ExpectAgain(l) ELSE exp
    /\ count' = [count EXCEPT ![l] = IF done THEN 0 ELSE @]
    /\ backup' = [backup EXCEPT ![l] = done \/ @]
    /\ admin' = [admin EXCEPT ![l] = ~done /\ @]
    /\ UNCHANGED <<created, proc, crashes>>

\* push_structured_event for an unknown location, or for one that is FAILED.
IgnoreNotice(l) ==
    /\ notices[l] > 0
    /\ state[l] = "FAILED" \/ (created = 0 /\ ~admin[l])
    /\ notices' = [notices EXCEPT ![l] = @ - 1]
    /\ UNCHANGED <<created, locationVars, groupVars, told, misled, proc, crashes>>

\* remove_member withdraws the location from all its groups.  After an
\* election the other locations are told of the removed location; without
\* one their views are updated, which throws when a process is down.
RemoveMember(l) ==
    LET e == Successor(l)
        reset == Irremovable(l) = {}
        replaced == reset /\ e # NoLocation
        elected == replaced /\ Promotable(e)
        unseen == ~IsPrimary(l) /\ \E p \in Peers \ {l} : state[p] \in Running /\ ~Alive(p)
        saved == reset /\ Promotable(e) /\ ~unseen
        others == IF elected /\ Cardinality(Locations) > 2 THEN Peers \ {e, l} ELSE {}
    IN
    /\ created > 0 /\ admin[l]
    /\ Calm(l)
    /\ RemoveMembers(l, saved)
    /\ sm' = [p \in Locations |->
                 IF replaced /\ p = e THEN "PRIMARY"
                 ELSE IF reset /\ p = l THEN "INITIAL" ELSE sm[p]]
    /\ state' = [p \in Locations |->
                 IF elected /\ p = e THEN "PRIMARY"
                 ELSE IF reset /\ p = l THEN "INITIAL" ELSE state[p]]
    /\ exp' = IF reset THEN ExpectAgain(l) ELSE exp
    /\ count' = [count EXCEPT ![l] = IF reset THEN 0 ELSE @]
    /\ backup' = [backup EXCEPT ![l] = reset \/ @]
    /\ primaryLoc' = [g \in Groups |-> IF elected /\ e \in present[g] THEN e ELSE primaryLoc[g]]
    /\ firstBackup' = Unflag((IF replaced THEN {l} ELSE {}) \cup (IF elected THEN {e} ELSE {}) \cup others)
    /\ told' = [p \in Locations |->
                   IF p = e /\ elected /\ Alive(e) THEN e
                   ELSE IF p = l /\ replaced /\ Alive(l) /\ state[l] = "PRIMARY" THEN e
                   ELSE Tell(others, l)[p]]
    /\ misled' = (IF elected THEN misled \ {e} ELSE misled) \cup others
    /\ UNCHANGED <<created, admin, envVars>>

SetFirstBackup(l) ==
    /\ state[l] \in {"BACKUP", "INSERTING_BACKUP"}
    /\ firstBackup' = [p \in Locations |-> IF p \in Peers THEN p = l ELSE firstBackup[p]]
    /\ UNCHANGED <<created, sm, state, count, exp, backup, admin>>
    /\ UNCHANGED <<groupVars, told, misled, envVars>>

Next ==
    \/ CreateObject
    \/ \E l \in Locations :
          \/ Crash(l) \/ Restart(l)
          \/ RegisterLocation(l)
          \/ \E g \in Groups : AddMember(l, g)
          \/ HandleProcessFailure(l) \/ IgnoreNotice(l)
          \/ RemoveMember(l)
          \/ SetFirstBackup(l)

\* The fault detector delivers every notice.
Fairness ==
    \A l \in Locations : WF_vars(HandleProcessFailure(l) \/ IgnoreNotice(l))

Spec == Init /\ [][Next]_vars
FairSpec == Spec /\ Fairness

-----------------------------------------------------------------------------
TypeOK ==
    /\ created \in 0 .. GroupCount
    /\ sm \in [Locations -> LocationStates] /\ state \in [Locations -> LocationStates]
    /\ count \in [Locations -> Nat] /\ exp \in [Locations -> Nat]
    /\ backup \in [Locations -> BOOLEAN] /\ firstBackup \in [Locations -> BOOLEAN]
    /\ admin \in [Locations -> BOOLEAN]
    /\ present \in [Groups -> SUBSET Locations] /\ members \in [Groups -> SUBSET Locations]
    /\ gstate \in [Groups -> GroupStates] /\ gcount \in [Groups -> Nat]
    /\ primaryLoc \in [Groups -> Locations \cup {NoLocation}]
    /\ told \in [Locations -> Locations \cup {NoLocation}] /\ misled \subseteq Locations
    /\ proc \in [Locations -> {"down", "up", "registered"}]
    /\ notices \in [Locations -> Nat] /\ crashes \in Nat

\* add_member: "if all location are in isitial or failed status, the
\* add_member is the first -> it will be the primary".
AtMostOnePrimary ==
    \A l, p \in Locations : IsPrimary(l) /\ IsPrimary(p) => l = p

\* The three records of who is a member agree: the objects of the contexts,
\* the saved ObjectGroupData and the count of the group's machine, whose state
\* is the redundancy that the observers are told.
RecordsAgree ==
    \A g \in Groups :
        LET n == Cardinality(members[g]) IN
        /\ present[g] = members[g]
        /\ gcount[g] = n
        /\ CASE n = 0 -> gstate[g] \in {"INITIAL", "COMPLETE_FAILURE"}
             [] n = 1 -> gstate[g] = "LOST_REDUNDANCY"
             [] n > 1 /\ n < MinMembers -> gstate[g] = "DEGRADED_REDUNDANCY"
             [] OTHER -> gstate[g] = "FULLY_REDUNDANT"

\* A location that may be elected, or is primary, has a member of every group;
\* however often it was withdrawn, its counters tell when that will be so.
CompleteMeansAll ==
    \A l \in Locations :
        /\ count[l] = Cardinality({g \in Groups : l \in members[g]})
        /\ count[l] + exp[l] = created
        /\ state[l] \in Running => exp[l] = 0 /\ created > 0
        /\ state[l] \in Inserting => count[l] > 0 /\ exp[l] > 0
        /\ state[l] \in {"INITIAL", "FAILED"} => count[l] = 0

\* When a location is primary, the data of every group names it, and so was
\* every location told that runs, whatever failed before and however late it
\* was noticed: all but those whom a withdrawal of the primary has told, and no
\* failure since.  remove_member sends these the location that it removes.
PrimaryIsKnown ==
    \A q \in Locations : state[q] = "PRIMARY" =>
        /\ \A g \in 1 .. created : primaryLoc[g] = q
        /\ \A p \in Locations \ misled :
              state[p] \in Running /\ Alive(p) => told[p] = q

\* The manager keeps the promise of ReplicatedService.
CompleteLocations == {l \in Locations : state[l] \in Running}
CurrentPrimary ==
    IF \E l \in Locations : state[l] = "PRIMARY"
    THEN CHOOSE l \in Locations : state[l] = "PRIMARY" ELSE NoLocation

Service == INSTANCE ReplicatedService
               WITH complete <- CompleteLocations, primary <- CurrentPrimary

ImplementsService == Service!Spec

\* A primary that died is replaced by a living one, as long as one is left.
ServiceRecovers ==
    (\E l \in Locations : state[l] = "PRIMARY" /\ ~Alive(l))
        ~> \/ \E l \in Locations : state[l] = "PRIMARY" /\ Alive(l)
           \/ \A l \in CompleteLocations : ~Alive(l)
=============================================================================
