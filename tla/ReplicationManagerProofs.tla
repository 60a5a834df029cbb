----------------------- MODULE ReplicationManagerProofs -----------------------
(***************************************************************************)
(* Proofs about the replication manager, for any finite set of locations   *)
(* and any number of groups, crashes and minimum of members.  That the     *)
(* state is well-typed needs nothing else.  The rest is proved where       *)
(* init_primary_data_stores and init_backup_data_stores succeed; where     *)
(* they do not, the properties fail.                                       *)
(***************************************************************************)
EXTENDS ReplicationManager, TLAPS, FiniteSetTheorems, WellFoundedInduction

InitialisationSucceeds == InitOutcomes \subseteq {TRUE}

-----------------------------------------------------------------------------
(* The inductive invariant.                                                *)

Withdrawn == {"INITIAL", "FAILED"}

\* The machine of a group: what its state says of its counter.
GroupMachine ==
    \A g \in Groups :
        CASE gstate[g] \in {"INITIAL", "COMPLETE_FAILURE"} -> gcount[g] = 0
          [] gstate[g] = "LOST_REDUNDANCY" -> gcount[g] = 1
          [] OTHER -> gcount[g] >= 2

\* No transition and no handler stops half-way: the copies of a location's
\* state agree, and who takes part has an admin, who has failed has none.
Contexts ==
    /\ sm = state
    /\ \A g \in Groups : members[g] # {} => g <= created
    /\ \A l \in Locations :
          /\ state[l] \in Inserting \cup Running => admin[l]
          /\ state[l] = "FAILED" => ~admin[l]
          /\ state[l] = "INITIAL" => backup[l]

\* An insertion is disturbed by nobody but the inserted location itself.
Undisturbed ==
    \A p \in Locations : state[p] \in Inserting =>
        \A q \in Locations \ {p} : state[q] \notin Inserting /\ notices[q] = 0

\* The crash of a location that takes part is still to be noticed.
FailuresNoticed ==
    \A p \in Locations :
        state[p] \in Inserting \cup Running /\ ~Alive(p) => notices[p] > 0

\* Backups follow a primary.
Led ==
    \A l \in Locations : state[l] \in {"BACKUP", "INSERTING_BACKUP"} =>
        \E q \in Locations : state[q] = "PRIMARY"

\* The groups with a member at the primary name it.
Named ==
    \A q \in Locations : IsPrimary(q) =>
        \A g \in Groups : q \in members[g] => primaryLoc[g] = q

Base == TypeOK /\ GroupMachine

IInv ==
    /\ Base /\ Contexts /\ RecordsAgree /\ CompleteMeansAll
    /\ Undisturbed /\ FailuresNoticed
    /\ AtMostOnePrimary /\ Led /\ Named

\* ... and who was not told last by a withdrawal was told of the primary.
Told ==
    \A q \in Locations : state[q] = "PRIMARY" =>
        \A p \in Locations \ misled :
            state[p] \in Running /\ Alive(p) => told[p] = q

KInv == IInv /\ Told
-----------------------------------------------------------------------------
(* The election.                                                           *)

\* std::map order: the lowest of some locations is one of them.
LEMMA LowestFact ==
    ASSUME NEW S \in SUBSET Locations, S # {}
    PROVE  LowestIn(S) \in S
<1>1. S \subseteq Nat
  BY ConstantsAssumption
<1>2. PICK p \in S : \A q \in S : ~(<<q, p>> \in OpToRel(<, Nat))
  BY <1>1, NatLessThanWellFounded, WFMin
<1>3. \A q \in S : <<q, p>> \in OpToRel(<, Nat) <=> q < p
  BY <1>1 DEF OpToRel
<1>4. \A q \in S : p <= q
  <2> SUFFICES ASSUME NEW q \in S PROVE p <= q
    OBVIOUS
  <2>1. ~(q < p)
    BY <1>2, <1>3
  <2>2. p \in Nat /\ q \in Nat
    BY <1>1
  <2> QED BY ONLY <2>1, <2>2
<1> QED BY <1>4 DEF LowestIn

\* Whoever is elected is a backup and not the location itself; nobody is only
\* if there is no backup.
LEMMA ElectFact ==
    ASSUME TypeOK, NEW l \in Locations
    PROVE  /\ ElectAPrimaryLocation(l) \in Locations \cup {NoLocation}
           /\ ElectAPrimaryLocation(l) # NoLocation
                 => /\ ElectAPrimaryLocation(l) \in Peers \ {l}
                    /\ state[ElectAPrimaryLocation(l)] = "BACKUP"
           /\ ElectAPrimaryLocation(l) = NoLocation
                 => \A p \in Peers \ {l} : state[p] # "BACKUP"
<1> DEFINE candidates == {p \in Peers \ {l} : state[p] = "BACKUP"}
           flagged == {p \in candidates : firstBackup[p]}
<1>1. candidates \subseteq Locations /\ flagged \subseteq candidates
  BY ConstantsAssumption DEF TypeOK, Peers, Groups
<1>2. flagged # {} => LowestIn(flagged) \in flagged
  BY <1>1, LowestFact
<1>3. candidates # {} => LowestIn(candidates) \in candidates
  BY <1>1, LowestFact
<1>4. ElectAPrimaryLocation(l) =
        IF flagged # {} THEN LowestIn(flagged)
        ELSE IF candidates # {} THEN LowestIn(candidates) ELSE NoLocation
  BY DEF ElectAPrimaryLocation
<1>5. NoLocation \notin Locations
  BY ConstantsAssumption
<1>6. CASE flagged # {}
  BY <1>1, <1>2, <1>4, <1>5, <1>6
<1>7. CASE flagged = {} /\ candidates # {}
  BY <1>1, <1>3, <1>4, <1>5, <1>7
<1>8. CASE candidates = {}
  BY <1>1, <1>4, <1>8
<1> QED BY <1>6, <1>7, <1>8

\* Only a location that is primary has a successor.
LEMMA SuccessorFact ==
    ASSUME TypeOK, NEW l \in Locations
    PROVE  /\ Successor(l) \in Locations \cup {NoLocation}
           /\ Successor(l) # NoLocation
                 => /\ IsPrimary(l)
                    /\ Successor(l) \in Peers \ {l} /\ state[Successor(l)] = "BACKUP"
           /\ IsPrimary(l) /\ Successor(l) = NoLocation
                 => \A p \in Peers \ {l} : state[p] # "BACKUP"
BY ElectFact DEF Successor

-----------------------------------------------------------------------------
(* Types, and the machine of the groups: for all outcomes of initialisation *)
(* and all removals.                                                       *)

\* What update_primary leaves in told.
LEMMA TellType ==
    ASSUME TypeOK, NEW ps, NEW q \in Locations \cup {NoLocation}
    PROVE  Tell(ps, q) \in [Locations -> Locations \cup {NoLocation}]
BY DEF TypeOK, Tell

\* The groups that a removal reaches take ev_member_removed.
LEMMA ReachedFact ==
    ASSUME NEW l \in Locations, NEW g \in Reached(l)
    PROVE  g \in Groups /\ l \in present[g] /\ l \in members[g] /\ RemovalDefined(g)
<1>1. g \in Groups /\ l \in present[g] /\ g \in Nat
  BY ConstantsAssumption DEF Reached, Groups
<1>2. g \notin Irremovable(l)
  BY <1>1 DEF Reached
<1> QED BY <1>1, <1>2 DEF Irremovable

\* The groups that a location leaves: each machine is driven once.
LEMMA RemoveMembersBase ==
    ASSUME Base, NEW l \in Locations, NEW saved \in BOOLEAN, RemoveMembers(l, saved)
    PROVE  /\ present' \in [Groups -> SUBSET Locations]
           /\ members' \in [Groups -> SUBSET Locations]
           /\ gstate' \in [Groups -> GroupStates] /\ gcount' \in [Groups -> Nat]
           /\ GroupMachine'
<1>1. \A g \in Groups :
         /\ gstate[g] \in GroupStates /\ gcount[g] \in Nat
         /\ gstate'[g] = IF g \in Reached(l) THEN AfterRemoval(g) ELSE gstate[g]
         /\ gcount'[g] = IF g \in Reached(l) THEN gcount[g] - 1 ELSE gcount[g]
  BY DEF Base, TypeOK, RemoveMembers
<1>2. MinMembers \in Nat /\ MinMembers >= 2
  BY ConstantsAssumption
<1>3. ASSUME NEW g \in Groups
      PROVE  /\ gstate'[g] \in GroupStates /\ gcount'[g] \in Nat
             /\ (CASE gstate[g] \in {"INITIAL", "COMPLETE_FAILURE"} -> gcount[g] = 0
                   [] gstate[g] = "LOST_REDUNDANCY" -> gcount[g] = 1
                   [] OTHER -> gcount[g] >= 2)'
  <2>1. CASE g \in Reached(l)
    BY <1>1, <1>2, <2>1, ReachedFact DEF Base, GroupMachine, GroupStates, RemovalDefined, AfterRemoval
  <2>2. CASE g \notin Reached(l)
    BY <1>1, <2>2 DEF Base, GroupMachine
  <2> QED BY <2>1, <2>2
<1>4. GroupMachine'
  BY <1>3 DEF GroupMachine
<1>5. gstate' \in [Groups -> GroupStates] /\ gcount' \in [Groups -> Nat]
  BY <1>3 DEF RemoveMembers
<1>6. present' \in [Groups -> SUBSET Locations] /\ members' \in [Groups -> SUBSET Locations]
  BY DEF Base, TypeOK, RemoveMembers
<1> QED BY <1>4, <1>5, <1>6
\* The operations that only move one location, a process or the clients.
LEMMA SmallStepsBase ==
    ASSUME Base, NEW l \in Locations,
           \/ CreateObject \/ Crash(l) \/ Restart(l) \/ RegisterLocation(l)
           \/ IgnoreNotice(l) \/ SetFirstBackup(l)
    PROVE  Base'
<1>a. GroupCount \in Nat
  BY ConstantsAssumption
<1>1. CASE CreateObject
  <2>1. created' \in 0 .. GroupCount /\ exp' \in [Locations -> Nat]
    BY <1>1, <1>a DEF CreateObject, Base, TypeOK
  <2> QED BY <1>1, <2>1 DEF CreateObject, Base, TypeOK, GroupMachine, groupVars, envVars
<1>2. CASE Crash(l) \/ Restart(l)
  <2>1. /\ proc' \in [Locations -> {"down", "up", "registered"}]
        /\ notices' \in [Locations -> Nat] /\ crashes' \in Nat
    BY <1>2 DEF Crash, Restart, Base, TypeOK
  <2> QED BY <1>2, <2>1 DEF Crash, Restart, Base, TypeOK, GroupMachine, groupVars, locationVars
<1>3. CASE RegisterLocation(l)
  <2>1. /\ sm' \in [Locations -> LocationStates] /\ state' \in [Locations -> LocationStates]
        /\ proc' \in [Locations -> {"down", "up", "registered"}]
    BY <1>3 DEF RegisterLocation, Base, TypeOK, LocationStates
  <2>2. count' \in [Locations -> Nat] /\ exp' \in [Locations -> Nat]
    BY <1>3 DEF RegisterLocation, ExpectAgain, Base, TypeOK
  <2>3. /\ backup' \in [Locations -> BOOLEAN] /\ admin' \in [Locations -> BOOLEAN]
        /\ present' \in [Groups -> SUBSET Locations]
        /\ told' \in [Locations -> Locations \cup {NoLocation}] /\ misled' \subseteq Locations
    BY <1>3 DEF RegisterLocation, Base, TypeOK
  <2>4. UNCHANGED <<created, firstBackup, gstate, gcount, members, primaryLoc, notices, crashes>>
    BY <1>3 DEF RegisterLocation
  <2> QED BY <2>1, <2>2, <2>3, <2>4 DEF Base, TypeOK, GroupMachine
<1>4. CASE IgnoreNotice(l)
  <2>1. notices' \in [Locations -> Nat]
    BY <1>4 DEF IgnoreNotice, Base, TypeOK
  <2> QED BY <1>4, <2>1 DEF IgnoreNotice, Base, TypeOK, GroupMachine, groupVars, locationVars
<1>5. CASE SetFirstBackup(l)
  <2>1. firstBackup' \in [Locations -> BOOLEAN]
    BY <1>5 DEF SetFirstBackup, Base, TypeOK
  <2> QED BY <1>5, <2>1 DEF SetFirstBackup, Base, TypeOK, GroupMachine, groupVars, envVars
<1> QED BY <1>1, <1>2, <1>3, <1>4, <1>5

\* add_member, whether or not the initialisation succeeds.
LEMMA AddMemberBase ==
    ASSUME Base, NEW l \in Locations, NEW g \in Groups, AddMember(l, g)
    PROVE  Base'
<1>1. PICK initialised \in InitOutcomes :
        LET primary == IF members[g] = {} THEN l ELSE primaryLoc[g]
            asBackup == AsBackup(l)
            asPrimary == ~asBackup /\ sm[l] \in {"INITIAL", "INSERTING_PRIMARY"}
            defined == exp[l] >= 1 /\ (asBackup \/ asPrimary)
            target == AfterAddMember(l)
            added == defined /\ initialised /\ (asPrimary <=> ReadyForPrimary(g))
            everybody == IF added /\ target = "PRIMARY" THEN Locations ELSE {}
        IN
        /\ present' = [present EXCEPT ![g] = @ \cup {l}]
        /\ backup' = [backup EXCEPT ![l] = @ /\ Peers # {}]
        /\ sm' = [sm EXCEPT ![l] = IF defined THEN target ELSE @]
        /\ count' = [count EXCEPT ![l] = IF defined THEN @ + 1 ELSE @]
        /\ exp' = [exp EXCEPT ![l] = IF defined THEN @ - 1 ELSE @]
        /\ state' = [state EXCEPT ![l] = IF added THEN target ELSE @]
        /\ gstate' = [gstate EXCEPT ![g] =
                         IF ~added THEN @
                         ELSE IF asPrimary THEN "LOST_REDUNDANCY" ELSE AfterBackupReady(g)]
        /\ gcount' = [gcount EXCEPT ![g] =
                         IF ~added THEN @ ELSE IF asPrimary THEN 1 ELSE @ + 1]
        /\ members' = [members EXCEPT ![g] =
                         IF ~added THEN @ ELSE IF asPrimary THEN {l} ELSE @ \cup {l}]
        /\ primaryLoc' = [primaryLoc EXCEPT ![g] = IF added THEN primary ELSE @]
        /\ firstBackup' = Unflag(everybody)
        /\ told' = IF asBackup /\ defined THEN [told EXCEPT ![l] = primary]
                   ELSE Tell(everybody, primary)
        /\ misled' = misled \ (everybody \cup {l})
  BY DEF AddMember
<1> DEFINE primary == IF members[g] = {} THEN l ELSE primaryLoc[g]
           asBackup == AsBackup(l)
           asPrimary == ~asBackup /\ sm[l] \in {"INITIAL", "INSERTING_PRIMARY"}
           defined == exp[l] >= 1 /\ (asBackup \/ asPrimary)
           target == AfterAddMember(l)
           added == defined /\ initialised /\ (asPrimary <=> ReadyForPrimary(g))
           everybody == IF added /\ target = "PRIMARY" THEN Locations ELSE {}
<1>2. UNCHANGED <<created, admin, envVars>>
  BY DEF AddMember
<1>3. target \in LocationStates /\ primary \in Locations \cup {NoLocation}
  BY DEF AfterAddMember, LocationStates, Base, TypeOK
<1>4. sm' \in [Locations -> LocationStates] /\ state' \in [Locations -> LocationStates]
  <2>1. sm' = [sm EXCEPT ![l] = IF defined THEN target ELSE @]
    BY <1>1
  <2>2. state' = [state EXCEPT ![l] = IF added THEN target ELSE @]
    BY <1>1
  <2> HIDE DEF defined, target, added
  <2> QED BY <1>3, <2>1, <2>2 DEF Base, TypeOK
<1>5. count' \in [Locations -> Nat] /\ exp' \in [Locations -> Nat]
  <2>1. count' = [count EXCEPT ![l] = IF defined THEN @ + 1 ELSE @]
    BY <1>1
  <2>2. exp' = [exp EXCEPT ![l] = IF defined THEN @ - 1 ELSE @]
    BY <1>1
  <2>3. defined => exp[l] >= 1
    OBVIOUS
  <2> HIDE DEF defined
  <2> QED BY <2>1, <2>2, <2>3 DEF Base, TypeOK
<1>6. /\ backup' \in [Locations -> BOOLEAN] /\ firstBackup' \in [Locations -> BOOLEAN]
      /\ present' \in [Groups -> SUBSET Locations]
  <2>1. /\ present' = [present EXCEPT ![g] = @ \cup {l}]
        /\ backup' = [backup EXCEPT ![l] = @ /\ Peers # {}]
        /\ firstBackup' = Unflag(everybody)
    BY <1>1
  <2> HIDE DEF everybody
  <2>2. backup' \in [Locations -> BOOLEAN] /\ present' \in [Groups -> SUBSET Locations]
    BY <2>1 DEF Base, TypeOK
  <2>3. firstBackup' \in [Locations -> BOOLEAN]
    BY <2>1 DEF Base, TypeOK, Unflag
  <2> QED BY <2>2, <2>3
<1>7. members' \in [Groups -> SUBSET Locations]
  <2>1. members' = [members EXCEPT ![g] =
                      IF ~added THEN @ ELSE IF asPrimary THEN {l} ELSE @ \cup {l}]
    BY <1>1
  <2> HIDE DEF added, asPrimary
  <2> QED BY <2>1 DEF Base, TypeOK
<1>8. primaryLoc' \in [Groups -> Locations \cup {NoLocation}]
  <2>1. primaryLoc' = [primaryLoc EXCEPT ![g] = IF added THEN primary ELSE @]
    BY <1>1
  <2> HIDE DEF added, primary
  <2> QED BY <1>3, <2>1 DEF Base, TypeOK
<1>9. told' \in [Locations -> Locations \cup {NoLocation}]
  <2>1. told' = IF asBackup /\ defined THEN [told EXCEPT ![l] = primary]
                ELSE Tell(everybody, primary)
    BY <1>1
  <2> HIDE DEF asBackup, defined, everybody, primary
  <2>2. Tell(everybody, primary) \in [Locations -> Locations \cup {NoLocation}]
    BY <1>3, TellType DEF Base
  <2> QED BY <1>3, <2>1, <2>2 DEF Base, TypeOK
<1>12. misled' \subseteq Locations
  BY <1>1 DEF Base, TypeOK
<1>10. gstate' \in [Groups -> GroupStates] /\ gcount' \in [Groups -> Nat] /\ GroupMachine'
  <2>1. /\ gstate' = [gstate EXCEPT ![g] =
                         IF ~added THEN @
                         ELSE IF asPrimary THEN "LOST_REDUNDANCY" ELSE AfterBackupReady(g)]
        /\ gcount' = [gcount EXCEPT ![g] =
                         IF ~added THEN @ ELSE IF asPrimary THEN 1 ELSE @ + 1]
    BY <1>1
  <2>2. added => (asPrimary <=> ReadyForPrimary(g))
    OBVIOUS
  <2> HIDE DEF added, asPrimary
  <2>3. gstate \in [Groups -> GroupStates] /\ gcount \in [Groups -> Nat]
    BY DEF Base, TypeOK
  <2>4. AfterBackupReady(g) \in {"DEGRADED_REDUNDANCY", "FULLY_REDUNDANT"}
    BY DEF AfterBackupReady
  <2>5. gstate' \in [Groups -> GroupStates] /\ gcount' \in [Groups -> Nat]
    BY <2>1, <2>3, <2>4 DEF GroupStates
  <2>6. \A h \in Groups \ {g} : gstate'[h] = gstate[h] /\ gcount'[h] = gcount[h]
    BY <2>1, <2>3
  <2>7. CASE ~added
    BY <2>1, <2>3, <2>6, <2>7 DEF Base, GroupMachine
  <2>8. CASE added /\ asPrimary
    <3>1. gcount'[g] = 1 /\ gstate'[g] = "LOST_REDUNDANCY"
      BY <2>1, <2>3, <2>8
    <3>2. ASSUME NEW h \in Groups
          PROVE  (CASE gstate[h] \in {"INITIAL", "COMPLETE_FAILURE"} -> gcount[h] = 0
                    [] gstate[h] = "LOST_REDUNDANCY" -> gcount[h] = 1
                    [] OTHER -> gcount[h] >= 2)'
      BY <2>6, <3>1 DEF Base, GroupMachine
    <3> QED BY <3>2, <2>5 DEF GroupMachine
  <2>9. CASE added /\ ~asPrimary
    <3>1. gcount[g] >= 1 /\ gcount[g] \in Nat
      BY <2>2, <2>3, <2>9 DEF ReadyForPrimary, Base, GroupMachine, GroupStates
    <3>2. gcount'[g] >= 2 /\ gstate'[g] \in {"DEGRADED_REDUNDANCY", "FULLY_REDUNDANT"}
      BY <2>1, <2>3, <2>4, <2>9, <3>1
    <3>3. ASSUME NEW h \in Groups
          PROVE  (CASE gstate[h] \in {"INITIAL", "COMPLETE_FAILURE"} -> gcount[h] = 0
                    [] gstate[h] = "LOST_REDUNDANCY" -> gcount[h] = 1
                    [] OTHER -> gcount[h] >= 2)'
      BY <2>6, <3>2 DEF Base, GroupMachine
    <3> QED BY <3>3, <2>5 DEF GroupMachine
  <2> QED BY <2>5, <2>7, <2>8, <2>9
<1> QED BY <1>2, <1>4, <1>5, <1>6, <1>7, <1>8, <1>9, <1>10, <1>12 DEF Base, TypeOK, envVars
\* A failure and a withdrawal: what they do to the counters of the location.
LEMMA ExpectAgainType ==
    ASSUME TypeOK, NEW l \in Locations
    PROVE  ExpectAgain(l) \in [Locations -> Nat]
BY DEF TypeOK, ExpectAgain

\* The notice of a failure, complete or stopped half-way.
LEMMA HandleProcessFailureBase ==
    ASSUME Base, NEW l \in Locations, HandleProcessFailure(l)
    PROVE  Base'
<1> DEFINE e == Successor(l)
           stuck == Irremovable(l) # {}
           done == ~stuck /\ Promotable(e)
           others == IF done /\ e # NoLocation THEN Peers \ {l} ELSE {}
<1>1. /\ notices[l] > 0
      /\ notices' = [notices EXCEPT ![l] = @ - 1]
      /\ RemoveMembers(l, done)
      /\ sm' = [p \in Locations |->
                   IF p = e /\ ~stuck THEN "PRIMARY"
                   ELSE IF p = l /\ done THEN "FAILED" ELSE sm[p]]
      /\ state' = [p \in Locations |-> IF done /\ p \in {e, l} THEN sm'[p] ELSE state[p]]
      /\ primaryLoc' = [g \in Groups |-> IF done /\ e \in present[g] THEN e ELSE primaryLoc[g]]
      /\ told' = Tell(others, e) /\ misled' = misled \ others
      /\ firstBackup' = Unflag(others)
      /\ exp' = IF done THEN ExpectAgain(l) ELSE exp
      /\ count' = [count EXCEPT ![l] = IF done THEN 0 ELSE @]
      /\ backup' = [backup EXCEPT ![l] = done \/ @]
      /\ admin' = [admin EXCEPT ![l] = ~done /\ @]
      /\ UNCHANGED <<created, proc, crashes>>
  BY DEF HandleProcessFailure
<1>2. TypeOK /\ e \in Locations \cup {NoLocation} /\ stuck \in BOOLEAN /\ done \in BOOLEAN
  BY SuccessorFact DEF Base
<1> HIDE DEF e, stuck, done, others
<1>3. /\ present' \in [Groups -> SUBSET Locations]
      /\ members' \in [Groups -> SUBSET Locations]
      /\ gstate' \in [Groups -> GroupStates] /\ gcount' \in [Groups -> Nat]
      /\ GroupMachine'
  BY <1>1, <1>2, RemoveMembersBase
<1>4. sm' \in [Locations -> LocationStates] /\ state' \in [Locations -> LocationStates]
  <2>1. sm' \in [Locations -> LocationStates]
    BY <1>1, <1>2 DEF TypeOK, LocationStates
  <2> QED BY <1>1, <1>2, <2>1 DEF TypeOK
<1>5. primaryLoc' \in [Groups -> Locations \cup {NoLocation}]
  BY <1>1, <1>2 DEF TypeOK
<1>6. told' \in [Locations -> Locations \cup {NoLocation}]
  BY <1>1, <1>2, TellType
<1>11. misled' \subseteq Locations
  BY <1>1, <1>2 DEF TypeOK
<1>7. exp' \in [Locations -> Nat] /\ count' \in [Locations -> Nat]
  BY <1>1, <1>2, ExpectAgainType DEF TypeOK
<1>8. firstBackup' \in [Locations -> BOOLEAN]
  BY <1>1, <1>2 DEF TypeOK, Unflag
<1>9. backup' \in [Locations -> BOOLEAN] /\ admin' \in [Locations -> BOOLEAN]
  BY <1>1, <1>2 DEF TypeOK
<1>10. notices' \in [Locations -> Nat]
  BY <1>1, <1>2 DEF TypeOK
<1> QED BY <1>1, <1>2, <1>3, <1>4, <1>5, <1>6, <1>7, <1>8, <1>9, <1>10, <1>11 DEF Base, TypeOK

\* remove_member, complete or stopped half-way.
LEMMA RemoveMemberBase ==
    ASSUME Base, NEW l \in Locations, RemoveMember(l)
    PROVE  Base'
<1> DEFINE e == Successor(l)
           reset == Irremovable(l) = {}
           replaced == reset /\ e # NoLocation
           elected == replaced /\ Promotable(e)
           unseen == ~IsPrimary(l) /\ \E p \in Peers \ {l} : state[p] \in Running /\ ~Alive(p)
           saved == reset /\ Promotable(e) /\ ~unseen
           others == IF elected /\ Cardinality(Locations) > 2 THEN Peers \ {e, l} ELSE {}
           unflagged == (IF replaced THEN {l} ELSE {}) \cup (IF elected THEN {e} ELSE {}) \cup others
<1>1. /\ RemoveMembers(l, saved)
      /\ sm' = [p \in Locations |->
                   IF replaced /\ p = e THEN "PRIMARY"
                   ELSE IF reset /\ p = l THEN "INITIAL" ELSE sm[p]]
      /\ state' = [p \in Locations |->
                   IF elected /\ p = e THEN "PRIMARY"
                   ELSE IF reset /\ p = l THEN "INITIAL" ELSE state[p]]
      /\ exp' = IF reset THEN ExpectAgain(l) ELSE exp
      /\ count' = [count EXCEPT ![l] = IF reset THEN 0 ELSE @]
      /\ backup' = [backup EXCEPT ![l] = reset \/ @]
      /\ primaryLoc' = [g \in Groups |-> IF elected /\ e \in present[g] THEN e ELSE primaryLoc[g]]
      /\ firstBackup' = Unflag(unflagged)
      /\ told' = [p \in Locations |->
                     IF p = e /\ elected /\ Alive(e) THEN e
                     ELSE IF p = l /\ replaced /\ Alive(l) /\ state[l] = "PRIMARY" THEN e
                     ELSE Tell(others, l)[p]]
      /\ misled' = (IF elected THEN misled \ {e} ELSE misled) \cup others
      /\ UNCHANGED <<created, admin, envVars>>
  BY DEF RemoveMember
<1>2. /\ TypeOK /\ e \in Locations \cup {NoLocation}
      /\ reset \in BOOLEAN /\ saved \in BOOLEAN
  BY SuccessorFact DEF Base
<1>10. others \subseteq Locations
  <2>1. 1 \in Groups
    BY ConstantsAssumption DEF Groups
  <2>2. Peers \subseteq Locations
    BY <1>2, <2>1 DEF Peers, TypeOK
  <2> QED BY ONLY <2>2
<1> HIDE DEF e, reset, replaced, elected, unseen, saved, others, unflagged
<1>3. /\ present' \in [Groups -> SUBSET Locations]
      /\ members' \in [Groups -> SUBSET Locations]
      /\ gstate' \in [Groups -> GroupStates] /\ gcount' \in [Groups -> Nat]
      /\ GroupMachine'
  BY <1>1, <1>2, RemoveMembersBase
<1>4. sm' \in [Locations -> LocationStates] /\ state' \in [Locations -> LocationStates]
  BY <1>1, <1>2 DEF TypeOK, LocationStates
<1>5. primaryLoc' \in [Groups -> Locations \cup {NoLocation}]
  BY <1>1, <1>2 DEF TypeOK
<1>6. told' \in [Locations -> Locations \cup {NoLocation}]
  <2>1. Tell(others, l) \in [Locations -> Locations \cup {NoLocation}]
    BY <1>2, TellType
  <2> QED BY <1>1, <1>2, <2>1
<1>11. misled' \subseteq Locations
  BY <1>1, <1>2, <1>10 DEF TypeOK
<1>7. exp' \in [Locations -> Nat] /\ count' \in [Locations -> Nat]
  BY <1>1, <1>2, ExpectAgainType DEF TypeOK
<1>8. firstBackup' \in [Locations -> BOOLEAN]
  BY <1>1, <1>2 DEF TypeOK, Unflag
<1>9. backup' \in [Locations -> BOOLEAN]
  BY <1>1, <1>2 DEF TypeOK
<1> QED BY <1>1, <1>2, <1>3, <1>4, <1>5, <1>6, <1>7, <1>8, <1>9, <1>11 DEF Base, TypeOK, envVars

\* Types and group machines are kept by every step.
LEMMA BaseStep ==
    ASSUME Base, [Next]_vars
    PROVE  Base'
<1>1. CASE UNCHANGED vars
  BY <1>1 DEF Base, TypeOK, GroupMachine, vars, locationVars, groupVars, envVars
<1>2. CASE CreateObject
  <2>1. CASE Locations = {}
    <3>1. created' \in 0 .. GroupCount /\ exp' \in [Locations -> Nat]
      BY <1>2, ConstantsAssumption DEF CreateObject, Base, TypeOK
    <3> QED BY <1>2, <3>1 DEF CreateObject, Base, TypeOK, GroupMachine, groupVars, envVars
  <2>2. CASE Locations # {}
    BY <1>2, <2>2, SmallStepsBase
  <2> QED BY <2>1, <2>2
<1>3. ASSUME NEW l \in Locations,
             \/ Crash(l) \/ Restart(l) \/ RegisterLocation(l)
             \/ IgnoreNotice(l) \/ SetFirstBackup(l)
      PROVE  Base'
  BY <1>3, SmallStepsBase
<1>4. ASSUME NEW l \in Locations, NEW g \in Groups, AddMember(l, g)
      PROVE  Base'
  BY <1>4, AddMemberBase
<1>5. ASSUME NEW l \in Locations, HandleProcessFailure(l) \/ RemoveMember(l)
      PROVE  Base'
  BY <1>5, HandleProcessFailureBase, RemoveMemberBase
<1> QED BY <1>1, <1>2, <1>3, <1>4, <1>5 DEF Next

\* The state is well-typed, whatever the outcomes of initialisation: no
\* counter of a location or of a group goes below zero.
THEOREM TypesHold == Spec => []TypeOK
<1>1. Init => Base
  <2> SUFFICES ASSUME Init PROVE Base
    OBVIOUS
  <2>1. GroupCount \in Nat
    BY ConstantsAssumption
  <2>2. TypeOK
    BY <2>1 DEF Init, TypeOK, LocationStates, GroupStates
  <2> QED BY <2>2 DEF Base, GroupMachine, Init
<1>2. Base /\ [Next]_vars => Base'
  BY BaseStep
<1>3. Base => TypeOK
  BY DEF Base
<1> QED BY <1>1, <1>2, <1>3, PTL DEF Spec
-----------------------------------------------------------------------------
(* What the invariant says of one location and of one group.               *)

\* RecordsAgree of one group.
GroupAgrees(g) ==
    LET n == Cardinality(members[g]) IN
    /\ present[g] = members[g]
    /\ gcount[g] = n
    /\ CASE n = 0 -> gstate[g] \in {"INITIAL", "COMPLETE_FAILURE"}
         [] n = 1 -> gstate[g] = "LOST_REDUNDANCY"
         [] n > 1 /\ n < MinMembers -> gstate[g] = "DEGRADED_REDUNDANCY"
         [] OTHER -> gstate[g] = "FULLY_REDUNDANT"

\* CompleteMeansAll of one location.
MemberOf(l) == {g \in Groups : l \in members[g]}

LocationCounts(l) ==
    /\ count[l] = Cardinality(MemberOf(l))
    /\ count[l] + exp[l] = created
    /\ state[l] \in Running => exp[l] = 0 /\ created > 0
    /\ state[l] \in Inserting => count[l] > 0 /\ exp[l] > 0
    /\ state[l] \in {"INITIAL", "FAILED"} => count[l] = 0

\* The two properties, group by group and location by location.
LEMMA Parts ==
    /\ RecordsAgree <=> \A g \in Groups : GroupAgrees(g)
    /\ CompleteMeansAll <=> \A l \in Locations : LocationCounts(l)
BY DEF RecordsAgree, GroupAgrees, CompleteMeansAll, LocationCounts, MemberOf

\* A set with one more member counts one more: what joining a group does to
\* the counts that ReplicationManager_impl keeps.
LEMMA OneMore ==
    ASSUME NEW S, NEW x, IsFiniteSet(S), x \notin S
    PROVE  IsFiniteSet(S \cup {x}) /\ Cardinality(S \cup {x}) = Cardinality(S) + 1
<1>1. /\ IsFiniteSet(S \cup {x})
      /\ Cardinality(S \cup {x}) = IF x \in S THEN Cardinality(S) ELSE Cardinality(S) + 1
  BY ONLY IsFiniteSet(S), FS_AddElement
<1> QED BY ONLY <1>1, x \notin S

\* Three different things make a set of three.
LEMMA ThreeOfThem ==
    ASSUME NEW x, NEW y, NEW z, x # y, x # z, y # z
    PROVE  Cardinality({x, y, z}) = 3
<1> DEFINE A == {} \cup {x}
           B == A \cup {y}
           C == B \cup {z}
<1>1. IsFiniteSet({}) /\ Cardinality({}) = 0 /\ x \notin {}
  BY FS_EmptySet
<1>2. y \notin A /\ z \notin B /\ C = {x, y, z}
  OBVIOUS
<1>3. IsFiniteSet(A) /\ Cardinality(A) = 0 + 1
  BY ONLY <1>1, OneMore
<1> HIDE DEF A
<1>4. IsFiniteSet(B) /\ Cardinality(B) = Cardinality(A) + 1
  BY ONLY <1>2, <1>3, OneMore
<1> HIDE DEF B
<1>5. Cardinality(C) = Cardinality(B) + 1
  BY ONLY <1>2, <1>4, OneMore
<1> HIDE DEF C
<1>6. Cardinality(C) = 3
  BY ONLY <1>3, <1>4, <1>5
<1> QED BY ONLY <1>2, <1>6

\* Groups and locations are finitely many, and so are their members.
LEMMA Finiteness ==
    ASSUME TypeOK
    PROVE  /\ \A g \in Groups : /\ IsFiniteSet(members[g])
                                /\ Cardinality(members[g]) \in Nat
                                /\ Cardinality(members[g]) = 0 <=> members[g] = {}
           /\ \A l \in Locations : /\ IsFiniteSet(MemberOf(l))
                                   /\ Cardinality(MemberOf(l)) \in Nat
                                   /\ Cardinality(MemberOf(l)) = 0 <=> MemberOf(l) = {}
<1>1. ASSUME NEW S, IsFiniteSet(S)
      PROVE  Cardinality(S) \in Nat /\ (Cardinality(S) = 0 <=> S = {})
  BY <1>1, FS_CardinalityType, FS_EmptySet
<1>2. ASSUME NEW g \in Groups
      PROVE  IsFiniteSet(members[g])
  BY ConstantsAssumption, FS_Subset DEF TypeOK
<1>3. ASSUME NEW l \in Locations
      PROVE  IsFiniteSet(MemberOf(l))
  <2>1. IsFiniteSet(Groups)
    BY ConstantsAssumption, FS_Interval DEF Groups
  <2>2. MemberOf(l) \in SUBSET Groups
    BY DEF MemberOf
  <2> QED BY <2>1, <2>2, FS_Subset
<1> QED BY <1>1, <1>2, <1>3

\* A location that has counted all groups is a member of all, one that has
\* counted none of none.
LEMMA Membership ==
    ASSUME IInv, NEW l \in Locations
    PROVE  /\ state[l] \in Running => \A g \in Groups : g <= created => l \in members[g]
           /\ state[l] \in Withdrawn => \A g \in Groups : l \notin members[g]
           /\ state[l] \in Inserting => \E g \in Groups : l \in members[g]
<1>1. TypeOK /\ LocationCounts(l)
  BY Parts DEF IInv, Base
<1>2. created \in Nat /\ count[l] \in Nat /\ exp[l] \in Nat
  BY <1>1, ConstantsAssumption DEF TypeOK
<1>3. IsFiniteSet(MemberOf(l)) /\ (Cardinality(MemberOf(l)) = 0 <=> MemberOf(l) = {})
  BY <1>1, Finiteness
<1>4. ASSUME state[l] \in Running, NEW g \in Groups, g <= created
      PROVE  l \in members[g]
  <2>1. MemberOf(l) \in SUBSET (1 .. created)
    BY <1>2 DEF MemberOf, IInv, Contexts, Groups
  <2>2. IsFiniteSet(1 .. created) /\ Cardinality(1 .. created) = created
    <3>1. /\ IsFiniteSet(1 .. created)
          /\ Cardinality(1 .. created) = IF 1 > created THEN 0 ELSE created - 1 + 1
      <4>1. 1 \in Int /\ created \in Int
        BY <1>2
      <4> QED BY ONLY <4>1, FS_Interval
    <3> QED BY ONLY <3>1, <1>2
  <2>3. Cardinality(MemberOf(l)) = created
    BY <1>1, <1>2, <1>4 DEF LocationCounts
  <2>4. MemberOf(l) = 1 .. created
    BY <2>1, <2>2, <2>3, FS_Subset
  <2>5. g \in 1 .. created
    BY <1>2, <1>4 DEF Groups
  <2> QED BY <2>4, <2>5 DEF MemberOf
<1>5. ASSUME state[l] \in Withdrawn
      PROVE  \A g \in Groups : l \notin members[g]
  BY <1>1, <1>3, <1>5 DEF LocationCounts, MemberOf, Withdrawn
<1>6. ASSUME state[l] \in Inserting
      PROVE  \E g \in Groups : l \in members[g]
  BY <1>1, <1>2, <1>3, <1>6 DEF LocationCounts, MemberOf
<1> QED BY <1>4, <1>5, <1>6

\* The first group has a member at every location that runs.
LEMMA FirstGroup ==
    ASSUME IInv
    PROVE  /\ 1 \in Groups /\ Peers = members[1] /\ Peers \subseteq Locations
           /\ \A l \in Locations : state[l] \in Running => l \in Peers
           /\ \A l \in Peers : state[l] \in Running \cup Inserting
<1>1. 1 \in Groups
  BY ConstantsAssumption DEF Groups
<1>2. Peers = members[1] /\ Peers \subseteq Locations
  BY <1>1 DEF IInv, Base, TypeOK, RecordsAgree, Peers
<1>3. ASSUME NEW l \in Locations, state[l] \in Running
      PROVE  l \in Peers
  <2>1. created > 0 /\ created \in Nat
    BY <1>3, Parts, ConstantsAssumption DEF IInv, LocationCounts, Base, TypeOK
  <2> QED BY <1>1, <1>2, <1>3, <2>1, Membership
<1>4. ASSUME NEW l \in Peers
      PROVE  state[l] \in Running \cup Inserting
  <2>1. l \in Locations /\ l \in members[1] /\ state[l] \in LocationStates
    BY <1>2, <1>4 DEF IInv, Base, TypeOK
  <2>2. state[l] \notin Withdrawn
    BY <1>1, <2>1, Membership
  <2> QED BY <2>1, <2>2 DEF LocationStates, Withdrawn, Running, Inserting
<1> QED BY <1>1, <1>2, <1>3, <1>4

\* The machine of a group lets every member go, and lets a primary in exactly
\* when there is no member.
LEMMA GroupFact ==
    ASSUME IInv, NEW g \in Groups
    PROVE  /\ members[g] # {} => RemovalDefined(g)
           /\ ReadyForPrimary(g) <=> members[g] = {}
<1>1. TypeOK /\ GroupAgrees(g)
  BY Parts DEF IInv, Base
<1>2. /\ Cardinality(members[g]) \in Nat
      /\ Cardinality(members[g]) = 0 <=> members[g] = {}
  BY <1>1, Finiteness
<1>3. MinMembers \in Nat /\ MinMembers >= 2
  BY ConstantsAssumption
<1> QED BY <1>1, <1>2, <1>3 DEF GroupAgrees, RemovalDefined, ReadyForPrimary

\* So no removal stops half-way.
LEMMA NothingStuck ==
    ASSUME IInv, NEW l \in Locations
    PROVE  Irremovable(l) = {} /\ Reached(l) = MemberOf(l)
<1>1. \A g \in Groups : present[g] = members[g]
  BY DEF IInv, RecordsAgree
<1>2. Irremovable(l) = {}
  BY <1>1, GroupFact DEF Irremovable
<1> QED BY <1>1, <1>2 DEF Reached, MemberOf

\* While there is no complete primary, nobody else takes part.
LEMMA NobodyElse ==
    ASSUME IInv, NEW l \in Locations, state[l] \in {"INITIAL", "FAILED", "INSERTING_PRIMARY"},
           \A p \in Locations \ {l} : state[p] \notin Inserting,
           \A p \in Locations \ {l} : state[p] # "PRIMARY"
    PROVE  \A p \in Locations \ {l} : state[p] \in Withdrawn
BY DEF IInv, Led, Base, TypeOK, LocationStates, Inserting, Withdrawn
\* A group's record when it gets a member, loses one, or is left alone.
LEMMA GroupJoins ==
    ASSUME IInv, NEW g \in Groups, NEW l \in Locations, l \notin members[g],
           members'[g] = members[g] \cup {l}, present'[g] = members'[g],
           gcount'[g] = gcount[g] + 1,
           gstate'[g] = IF members[g] = {} THEN "LOST_REDUNDANCY" ELSE AfterBackupReady(g)
    PROVE  GroupAgrees(g)'
<1>1. TypeOK /\ GroupAgrees(g)
  BY Parts DEF IInv, Base
<1>2. /\ IsFiniteSet(members[g]) /\ Cardinality(members[g]) \in Nat
      /\ Cardinality(members[g]) = 0 <=> members[g] = {}
  BY <1>1, Finiteness
<1>3. Cardinality(members'[g]) = Cardinality(members[g]) + 1
  <2>1. IsFiniteSet(members[g]) /\ l \notin members[g]
    BY <1>2
  <2>2. Cardinality(members[g] \cup {l}) = Cardinality(members[g]) + 1
    BY ONLY <2>1, OneMore
  <2> QED BY <2>2
<1>4. MinMembers \in Nat /\ MinMembers >= 2
  BY ConstantsAssumption
<1> DEFINE n == Cardinality(members[g])
<1>5. gcount[g] = n /\ n \in Nat /\ (n = 0 <=> members[g] = {})
  BY <1>1, <1>2 DEF GroupAgrees
<1>6. CASE members[g] = {}
  BY <1>3, <1>4, <1>5, <1>6 DEF GroupAgrees
<1>7. CASE members[g] # {}
  BY <1>1, <1>3, <1>4, <1>5, <1>7 DEF GroupAgrees, AfterBackupReady
<1> QED BY <1>6, <1>7

\* A group that loses one member still agrees with its machine.
LEMMA GroupLoses ==
    ASSUME IInv, NEW g \in Groups, NEW l \in Locations, l \in members[g],
           members'[g] = members[g] \ {l}, present'[g] = members'[g],
           gcount'[g] = gcount[g] - 1, gstate'[g] = AfterRemoval(g)
    PROVE  GroupAgrees(g)'
<1>1. TypeOK /\ GroupAgrees(g)
  BY Parts DEF IInv, Base
<1>2. /\ IsFiniteSet(members[g]) /\ Cardinality(members[g]) \in Nat
      /\ Cardinality(members[g]) = 0 <=> members[g] = {}
  BY <1>1, Finiteness
<1>3. Cardinality(members'[g]) = Cardinality(members[g]) - 1
  <2>1. Cardinality(members[g] \ {l}) =
            IF l \in members[g] THEN Cardinality(members[g]) - 1
                                ELSE Cardinality(members[g])
    BY <1>2, FS_RemoveElement
  <2> QED BY <2>1
<1>4. MinMembers \in Nat /\ MinMembers >= 2
  BY ConstantsAssumption
<1> QED BY <1>1, <1>2, <1>3, <1>4 DEF GroupAgrees, AfterRemoval

\* A group that nobody touches still agrees.
LEMMA GroupStays ==
    ASSUME IInv, NEW g \in Groups,
           members'[g] = members[g], present'[g] = present[g],
           gcount'[g] = gcount[g], gstate'[g] = gstate[g]
    PROVE  GroupAgrees(g)'
<1>1. GroupAgrees(g)
  BY Parts DEF IInv
<1> QED BY <1>1 DEF GroupAgrees

-----------------------------------------------------------------------------
(* add_member.                                                             *)

\* What a successful add_member does to the contexts and the group's data: the
\* location becomes s.
Inserted(l, g, s) ==
    /\ sm' = [sm EXCEPT ![l] = s] /\ state' = [state EXCEPT ![l] = s]
    /\ members' = [members EXCEPT ![g] = members[g] \cup {l}]
    /\ present' = [present EXCEPT ![g] = present[g] \cup {l}]
    /\ count' = [count EXCEPT ![l] = count[l] + 1]
    /\ exp' = [exp EXCEPT ![l] = exp[l] - 1]
    /\ gcount' = [gcount EXCEPT ![g] = gcount[g] + 1]
    /\ gstate' = [gstate EXCEPT ![g] = IF members[g] = {} THEN "LOST_REDUNDANCY"
                                       ELSE AfterBackupReady(g)]
    /\ primaryLoc' = [primaryLoc EXCEPT ![g] = IF members[g] = {} THEN l ELSE primaryLoc[g]]
    /\ \A p \in Locations \ {l} : backup'[p] = backup[p]
    /\ UNCHANGED <<created, admin, proc, notices>>

\* The guards of add_member.
MayInsert(l, g) ==
    /\ Alive(l) /\ admin[l]
    /\ g <= created /\ l \notin members[g]
    /\ \A p \in Locations \ {l} : state[p] \notin Inserting /\ notices[p] = 0
    /\ state[l] \in Inserting \cup {"INITIAL"} /\ exp[l] >= 1

\* As a primary: everybody else is out.
AddPrimary(l, g, s) ==
    /\ Inserted(l, g, s) /\ MayInsert(l, g)
    /\ s = IF exp[l] > 1 THEN "INSERTING_PRIMARY" ELSE "PRIMARY"
    /\ state[l] \in {"INITIAL", "INSERTING_PRIMARY"}
    /\ \A p \in Locations \ {l} : state[p] \in Withdrawn
    /\ told' = Tell(IF s = "PRIMARY" THEN Locations ELSE {}, l)

\* As a backup of the primary q.
AddBackup(l, g, s, q) ==
    /\ Inserted(l, g, s) /\ MayInsert(l, g)
    /\ s = IF exp[l] > 1 THEN "INSERTING_BACKUP" ELSE "BACKUP"
    /\ state[l] \in {"INITIAL", "INSERTING_BACKUP"}
    /\ q \in Locations \ {l} /\ state[q] = "PRIMARY"
    /\ members[g] # {} /\ primaryLoc[g] = q
    /\ told' = [told EXCEPT ![l] = q] /\ misled' = misled \ {l}

\* A member that may be added is not yet complete, nor failed.
LEMMA MayInsertFact ==
    ASSUME IInv, NEW l \in Locations, NEW g \in Groups,
           Alive(l) /\ admin[l], Calm(l), g <= created, l \notin members[g]
    PROVE  MayInsert(l, g)
<1>1. state[l] \in LocationStates /\ sm = state
  BY DEF IInv, Base, TypeOK, Contexts
<1>2. state[l] \in Inserting \cup {"INITIAL"}
  <2>1. state[l] \notin Running
    BY Membership
  <2>2. state[l] # "FAILED"
    BY DEF IInv, Contexts
  <2> QED BY <1>1, <2>1, <2>2 DEF LocationStates, Inserting, Running
<1>3. exp[l] >= 1
  <2>1. LocationCounts(l) /\ created \in Nat /\ exp[l] \in Nat /\ count[l] \in Nat
    BY Parts, ConstantsAssumption DEF IInv, Base, TypeOK
  <2>2. g >= 1
    BY DEF Groups
  <2>3. g \in Nat
    BY ConstantsAssumption DEF Groups
  <2>4. CASE state[l] \in Inserting
    BY <2>1, <2>4 DEF LocationCounts
  <2>5. CASE state[l] = "INITIAL"
    BY <2>1, <2>2, <2>3, <2>5 DEF LocationCounts
  <2> QED BY <1>2, <2>4, <2>5
<1> QED BY <1>1, <1>2, <1>3 DEF MayInsert, Calm, Alone
\* With stores that initialise, add_member makes a primary or a backup.
LEMMA AddMemberCases ==
    ASSUME IInv, InitialisationSucceeds, NEW l \in Locations, NEW g \in Groups,
           AddMember(l, g)
    PROVE  \/ \E s : AddPrimary(l, g, s)
           \/ \E s, q : AddBackup(l, g, s, q)
<1>a. /\ Alive(l) /\ admin[l] /\ Calm(l) /\ g <= created /\ l \notin members[g]
      /\ UNCHANGED <<created, admin, envVars>>
  BY DEF AddMember
<1>b. MayInsert(l, g)
  BY <1>a, MayInsertFact
<1>c. TypeOK /\ sm = state /\ l \in Locations
  BY DEF IInv, Base, Contexts
<1> DEFINE primary == IF members[g] = {} THEN l ELSE primaryLoc[g]
           asBackup == AsBackup(l)
           asPrimary == ~asBackup /\ sm[l] \in {"INITIAL", "INSERTING_PRIMARY"}
           defined == exp[l] >= 1 /\ (asBackup \/ asPrimary)
           target == AfterAddMember(l)
           added == defined /\ (asPrimary <=> ReadyForPrimary(g))
           everybody == IF added /\ target = "PRIMARY" THEN Locations ELSE {}
<1>1. /\ present' = [present EXCEPT ![g] = @ \cup {l}]
      /\ backup' = [backup EXCEPT ![l] = @ /\ Peers # {}]
      /\ sm' = [sm EXCEPT ![l] = IF defined THEN target ELSE @]
      /\ count' = [count EXCEPT ![l] = IF defined THEN @ + 1 ELSE @]
      /\ exp' = [exp EXCEPT ![l] = IF defined THEN @ - 1 ELSE @]
      /\ state' = [state EXCEPT ![l] = IF added THEN target ELSE @]
      /\ gstate' = [gstate EXCEPT ![g] =
                       IF ~added THEN @
                       ELSE IF asPrimary THEN "LOST_REDUNDANCY" ELSE AfterBackupReady(g)]
      /\ gcount' = [gcount EXCEPT ![g] =
                       IF ~added THEN @ ELSE IF asPrimary THEN 1 ELSE @ + 1]
      /\ members' = [members EXCEPT ![g] =
                       IF ~added THEN @ ELSE IF asPrimary THEN {l} ELSE @ \cup {l}]
      /\ primaryLoc' = [primaryLoc EXCEPT ![g] = IF added THEN primary ELSE @]
      /\ firstBackup' = Unflag(everybody)
      /\ told' = IF asBackup /\ defined THEN [told EXCEPT ![l] = primary]
                 ELSE Tell(everybody, primary)
      /\ misled' = misled \ (everybody \cup {l})
  <2>1. \A initialised \in InitOutcomes : initialised = TRUE
    BY DEF InitialisationSucceeds
  <2> QED BY <2>1 DEF AddMember
<1>2. ReadyForPrimary(g) <=> members[g] = {}
  BY GroupFact
<1>3. exp[l] >= 1 /\ state[l] \in Inserting \cup {"INITIAL"}
  BY <1>b DEF MayInsert
<1>4. UNCHANGED <<created, admin, proc, notices>>
  BY <1>a DEF envVars
<1>5. CASE AsBackup(l)
  <2>1. PICK q \in Locations : state[q] = "PRIMARY"
    <3>1. CASE sm[l] = "INITIAL" /\ Peers # {}
      <4>1. PICK p \in Peers : p \in Locations /\ state[p] \in Running \cup Inserting
        BY <3>1, FirstGroup
      <4>2. p # l
        BY <3>1, <4>1, <1>c DEF Running, Inserting
      <4>3. state[p] \in Running
        BY <4>1, <4>2, <1>b DEF MayInsert
      <4> QED BY <4>1, <4>3 DEF Running, IInv, Led
    <3>2. CASE sm[l] = "INSERTING_BACKUP"
      BY <3>2, <1>c DEF IInv, Led
    <3> QED BY <3>1, <3>2, <1>5 DEF AsBackup
  <2>2. q # l
    BY <2>1, <1>3 DEF Inserting
  <2>3. q \in members[g]
    BY <2>1, <1>a, Membership DEF Running
  <2>4. primaryLoc[g] = q
    BY <2>1, <2>3 DEF IInv, Named, IsPrimary
  <2>5. /\ defined /\ ~asPrimary /\ added /\ primary = q
        /\ everybody = {}
        /\ target = IF exp[l] > 1 THEN "INSERTING_BACKUP" ELSE "BACKUP"
    BY <1>2, <1>3, <1>5, <2>3, <2>4 DEF AfterAddMember
  <2>6. asBackup
    BY <1>5
  <2>7. state[l] \in {"INITIAL", "INSERTING_BACKUP"} /\ members[g] # {}
    BY <1>5, <1>c, <2>3 DEF AsBackup
  <2> DEFINE s == IF exp[l] > 1 THEN "INSERTING_BACKUP" ELSE "BACKUP"
  <2> HIDE DEF primary, asBackup, asPrimary, defined, target, added, everybody
  <2>8. /\ sm' = [sm EXCEPT ![l] = s] /\ state' = [state EXCEPT ![l] = s]
        /\ told' = [told EXCEPT ![l] = q] /\ misled' = misled \ {l}
    BY <1>1, <2>5, <2>6
  <2>9. /\ members' = [members EXCEPT ![g] = members[g] \cup {l}]
        /\ present' = [present EXCEPT ![g] = present[g] \cup {l}]
        /\ count' = [count EXCEPT ![l] = count[l] + 1]
        /\ exp' = [exp EXCEPT ![l] = exp[l] - 1]
        /\ gcount' = [gcount EXCEPT ![g] = gcount[g] + 1]
    BY <1>1, <2>5
  <2>10. /\ gstate' = [gstate EXCEPT ![g] = AfterBackupReady(g)]
         /\ primaryLoc' = [primaryLoc EXCEPT ![g] = primaryLoc[g]]
    BY <1>1, <2>4, <2>5
  <2>11. \A p \in Locations \ {l} : backup'[p] = backup[p]
    BY <1>1, <1>c DEF TypeOK
  <2>12. Inserted(l, g, s)
    BY <1>4, <2>7, <2>8, <2>9, <2>10, <2>11 DEF Inserted
  <2>13. AddBackup(l, g, s, q)
    BY <1>b, <2>1, <2>2, <2>4, <2>7, <2>8, <2>12 DEF AddBackup
  <2> QED BY <2>13
<1>6. CASE ~AsBackup(l)
  <2>1. state[l] \in {"INITIAL", "INSERTING_PRIMARY"}
    BY <1>3, <1>6, <1>c DEF AsBackup, Inserting
  <2>2. \A p \in Locations \ {l} : state[p] \notin Inserting
    BY <1>b DEF MayInsert
  <2>3. \A p \in Locations \ {l} : state[p] # "PRIMARY"
    <3>1. CASE state[l] = "INITIAL"
      <4>1. Peers = {}
        BY <1>6, <1>c, <3>1 DEF AsBackup, IInv, Contexts
      <4> QED BY <4>1, FirstGroup DEF Running
    <3>2. CASE state[l] = "INSERTING_PRIMARY"
      BY <3>2 DEF IInv, AtMostOnePrimary, IsPrimary
    <3> QED BY <2>1, <3>1, <3>2
  <2>4. \A p \in Locations \ {l} : state[p] \in Withdrawn
    BY <2>1, <2>2, <2>3, NobodyElse
  <2>5. members[g] = {}
    BY <1>a, <1>c, <2>4, Membership DEF TypeOK
  <2>6. /\ defined /\ asPrimary /\ added /\ primary = l
        /\ target = IF exp[l] > 1 THEN "INSERTING_PRIMARY" ELSE "PRIMARY"
        /\ everybody = IF target = "PRIMARY" THEN Locations ELSE {}
    BY <1>2, <1>3, <1>6, <1>c, <2>1, <2>5 DEF AfterAddMember
  <2>7. ~asBackup
    BY <1>6
  <2>8. gcount[g] = 0 /\ present[g] = {}
    BY <2>5, FS_EmptySet DEF IInv, RecordsAgree
  <2> DEFINE s == IF exp[l] > 1 THEN "INSERTING_PRIMARY" ELSE "PRIMARY"
  <2> HIDE DEF primary, asBackup, asPrimary, defined, target, added, everybody
  <2>9. /\ sm' = [sm EXCEPT ![l] = s] /\ state' = [state EXCEPT ![l] = s]
        /\ told' = Tell(IF s = "PRIMARY" THEN Locations ELSE {}, l)
    BY <1>1, <2>6, <2>7
  <2>10. /\ members' = [members EXCEPT ![g] = members[g] \cup {l}]
         /\ present' = [present EXCEPT ![g] = present[g] \cup {l}]
         /\ gcount' = [gcount EXCEPT ![g] = gcount[g] + 1]
    <3>1. members[g] \cup {l} = {l} /\ gcount[g] + 1 = 1
      BY <2>5, <2>8
    <3> QED BY <1>1, <2>6, <3>1
  <2>11. /\ count' = [count EXCEPT ![l] = count[l] + 1]
         /\ exp' = [exp EXCEPT ![l] = exp[l] - 1]
    BY <1>1, <2>6
  <2>12. /\ gstate' = [gstate EXCEPT ![g] = "LOST_REDUNDANCY"]
         /\ primaryLoc' = [primaryLoc EXCEPT ![g] = l]
    BY <1>1, <2>6
  <2>13. \A p \in Locations \ {l} : backup'[p] = backup[p]
    BY <1>1, <1>c DEF TypeOK
  <2>14. Inserted(l, g, s)
    BY <1>4, <2>5, <2>9, <2>10, <2>11, <2>12, <2>13 DEF Inserted
  <2>15. AddPrimary(l, g, s)
    BY <1>b, <2>1, <2>4, <2>9, <2>14 DEF AddPrimary
  <2> QED BY <2>15
<1> QED BY <1>5, <1>6
\* The records, counters and contexts after add_member.
LEMMA InsertedKeeps ==
    ASSUME IInv, NEW l \in Locations, NEW g \in Groups, NEW s \in Inserting \cup Running,
           Inserted(l, g, s), MayInsert(l, g), s \in Inserting <=> exp[l] > 1
    PROVE  RecordsAgree' /\ CompleteMeansAll' /\ Contexts' /\ Undisturbed' /\ FailuresNoticed'
<1>a. TypeOK /\ sm = state
  BY DEF IInv, Base, Contexts
<1>b. \A p \in Locations :
         /\ state'[p] = IF p = l THEN s ELSE state[p]
         /\ count'[p] = IF p = l THEN count[l] + 1 ELSE count[p]
         /\ exp'[p] = IF p = l THEN exp[l] - 1 ELSE exp[p]
         /\ p # l => backup'[p] = backup[p]
         /\ admin'[p] = admin[p] /\ notices'[p] = notices[p] /\ proc'[p] = proc[p]
  BY <1>a DEF Inserted, TypeOK
<1>c. \A h \in Groups :
         /\ members'[h] = IF h = g THEN members[g] \cup {l} ELSE members[h]
         /\ present'[h] = IF h = g THEN present[g] \cup {l} ELSE present[h]
         /\ gcount'[h] = IF h = g THEN gcount[g] + 1 ELSE gcount[h]
         /\ h # g => gstate'[h] = gstate[h]
  BY <1>a DEF Inserted, TypeOK
<1>d. gstate'[g] = IF members[g] = {} THEN "LOST_REDUNDANCY" ELSE AfterBackupReady(g)
  BY <1>a DEF Inserted, TypeOK
<1>e. g <= created /\ created' = created /\ l \notin members[g]
  BY DEF MayInsert, Inserted
<1>f. s \in {"INSERTING_PRIMARY", "INSERTING_BACKUP", "PRIMARY", "BACKUP"}
  BY DEF Inserting, Running
<1>1. RecordsAgree'
  <2>1. present[g] = members[g]
    BY DEF IInv, RecordsAgree
  <2>2. GroupAgrees(g)'
    BY <1>c, <1>d, <1>e, <2>1, GroupJoins
  <2>3. \A h \in Groups \ {g} : GroupAgrees(h)'
    BY <1>c, GroupStays
  <2>4. \A h \in Groups : GroupAgrees(h)'
    BY <2>2, <2>3
  <2> QED BY <2>4 DEF RecordsAgree, GroupAgrees
<1>2. CompleteMeansAll'
  <2>1. /\ MemberOf(l)' = MemberOf(l) \cup {g} /\ g \notin MemberOf(l)
        /\ \A p \in Locations \ {l} : MemberOf(p)' = MemberOf(p)
    BY <1>c, <1>e DEF MemberOf
  <2>2. IsFiniteSet(MemberOf(l)) /\ Cardinality(MemberOf(l)) \in Nat
    BY <1>a, Finiteness
  <2>3. Cardinality(MemberOf(l)') = Cardinality(MemberOf(l)) + 1
    <3>1. Cardinality(MemberOf(l) \cup {g}) = Cardinality(MemberOf(l)) + 1
      BY ONLY <2>1, <2>2, OneMore
    <3> QED BY <2>1, <3>1
  <2>4. count[l] \in Nat /\ exp[l] \in Nat /\ created \in Nat
    BY <1>a, ConstantsAssumption DEF TypeOK
  <2>5. \A p \in Locations : LocationCounts(p)
    BY Parts DEF IInv
  <2>6. LocationCounts(l)'
    <3>1. state'[l] = s /\ count'[l] = count[l] + 1 /\ exp'[l] = exp[l] - 1 /\ exp[l] >= 1
      BY <1>b DEF MayInsert
    <3>2. count[l] = Cardinality(MemberOf(l)) /\ count[l] + exp[l] = created
      BY <2>5 DEF LocationCounts
    <3>3. s \notin {"INITIAL", "FAILED"} /\ (s \in Running => ~(s \in Inserting))
      BY <1>f DEF Running, Inserting
    <3> QED BY <1>e, <2>3, <2>4, <3>1, <3>2, <3>3 DEF LocationCounts
  <2>7. \A p \in Locations \ {l} : LocationCounts(p)'
    BY <1>b, <1>e, <2>1, <2>5 DEF LocationCounts
  <2>8. \A p \in Locations : LocationCounts(p)'
    BY <2>6, <2>7
  <2> QED BY <2>8 DEF CompleteMeansAll, LocationCounts, MemberOf
<1>3. Contexts'
  <2>1. sm' = state'
    BY <1>a DEF Inserted
  <2>2. \A h \in Groups : members'[h] # {} => h <= created
    BY <1>c, <1>e DEF IInv, Contexts
  <2>3. admin'[l] /\ state'[l] \notin {"INITIAL", "FAILED"}
    BY <1>b, <1>f DEF MayInsert
  <2>4. ASSUME NEW p \in Locations
        PROVE  (/\ state[p] \in Inserting \cup Running => admin[p]
                /\ state[p] = "FAILED" => ~admin[p]
                /\ state[p] = "INITIAL" => backup[p])'
    BY <1>b, <2>3 DEF IInv, Contexts
  <2> QED BY <1>e, <2>1, <2>2, <2>4 DEF Contexts
<1>4. Undisturbed'
  BY <1>b DEF IInv, Undisturbed, MayInsert
<1>5. FailuresNoticed'
  BY <1>b DEF IInv, FailuresNoticed, Alive, MayInsert
<1> QED BY <1>1, <1>2, <1>3, <1>4, <1>5

\* add_member keeps the invariant, and everybody who runs knows the primary.
LEMMA AddMemberKeeps ==
    ASSUME IInv, InitialisationSucceeds, NEW l \in Locations, NEW g \in Groups,
           AddMember(l, g)
    PROVE  IInv' /\ (Told => Told')
<1>a. TypeOK /\ Base'
  BY AddMemberBase DEF IInv, Base
<1>1. ASSUME NEW s, AddPrimary(l, g, s)
      PROVE  IInv' /\ (Told => Told')
  <2>a. /\ s \in Inserting \cup Running /\ (s \in Inserting <=> exp[l] > 1)
        /\ s \in {"INSERTING_PRIMARY", "PRIMARY"}
    BY <1>1 DEF AddPrimary, Inserting, Running
  <2>b. \A p \in Locations : state'[p] = IF p = l THEN s ELSE state[p]
    BY <1>1, <1>a DEF AddPrimary, Inserted, TypeOK
  <2>c. \A p \in Locations \ {l} : state'[p] \in {"INITIAL", "FAILED"}
    BY <1>1, <2>b DEF AddPrimary, Withdrawn
  <2>1. RecordsAgree' /\ CompleteMeansAll' /\ Contexts' /\ Undisturbed' /\ FailuresNoticed'
    BY <1>1, <2>a, InsertedKeeps DEF AddPrimary
  <2>2. AtMostOnePrimary'
    BY <2>c DEF AtMostOnePrimary, IsPrimary
  <2>3. Led'
    BY <2>a, <2>b, <2>c DEF Led
  <2>4. Named'
    <3>1. ASSUME NEW h \in Groups, l \in members'[h]
          PROVE  primaryLoc'[h] = l
      <4>1. CASE h = g
        <5>1. members[g] = {}
          <6>1. \A p \in Locations \ {l} : p \notin members[g]
            BY <1>1, Membership DEF AddPrimary
          <6> QED BY <1>1, <1>a, <6>1 DEF AddPrimary, MayInsert, TypeOK
        <5> QED BY <1>1, <1>a, <4>1, <5>1 DEF AddPrimary, Inserted, TypeOK
      <4>2. CASE h # g
        <5>1. l \in members[h]
          BY <1>1, <1>a, <3>1, <4>2 DEF AddPrimary, Inserted, TypeOK
        <5>2. state[l] = "INSERTING_PRIMARY"
          BY <1>1, <5>1, Membership DEF AddPrimary, Withdrawn
        <5>3. primaryLoc[h] = l
          BY <5>1, <5>2 DEF IInv, Named, IsPrimary
        <5> QED BY <1>1, <1>a, <4>2, <5>3 DEF AddPrimary, Inserted, TypeOK
      <4> QED BY <4>1, <4>2
    <3> QED BY <2>c, <3>1 DEF Named, IsPrimary
  <2>5. Told'
    <3>1. s = "PRIMARY" => told'[l] = l
      <4>1. ASSUME s = "PRIMARY" PROVE told'[l] = l
        <5>1. told' = Tell(Locations, l)
          BY <1>1, <4>1 DEF AddPrimary
        <5>2. admin[l] /\ Alive(l) /\ state'[l] \in Running
          BY <1>1, <2>b, <4>1 DEF AddPrimary, MayInsert, Running
        <5> QED BY <5>1, <5>2 DEF Tell
      <4> QED BY <4>1
    <3> QED BY <2>b, <2>c, <3>1 DEF Told, Running
  <2> QED BY <1>a, <2>1, <2>2, <2>3, <2>4, <2>5 DEF IInv
<1>2. ASSUME NEW s, NEW q, AddBackup(l, g, s, q)
      PROVE  IInv' /\ (Told => Told')
  <2>a. /\ s \in Inserting \cup Running /\ (s \in Inserting <=> exp[l] > 1)
        /\ s \in {"INSERTING_BACKUP", "BACKUP"}
    BY <1>2 DEF AddBackup, Inserting, Running
  <2>b. \A p \in Locations : state'[p] = IF p = l THEN s ELSE state[p]
    BY <1>2, <1>a DEF AddBackup, Inserted, TypeOK
  <2>c. q \in Locations /\ q # l /\ state[q] = "PRIMARY" /\ state'[q] = "PRIMARY"
    BY <1>2, <2>b DEF AddBackup
  <2>1. RecordsAgree' /\ CompleteMeansAll' /\ Contexts' /\ Undisturbed' /\ FailuresNoticed'
    BY <1>2, <2>a, InsertedKeeps DEF AddBackup
  <2>2. AtMostOnePrimary'
    BY <2>a, <2>b DEF IInv, AtMostOnePrimary, IsPrimary
  <2>3. Led'
    BY <2>c DEF Led
  <2>4. Named'
    <3>1. primaryLoc' = primaryLoc
      BY <1>2, <1>a DEF AddBackup, Inserted, TypeOK
    <3>2. \A p \in Locations \ {l} : \A h \in Groups : p \in members'[h] => p \in members[h]
      BY <1>2, <1>a DEF AddBackup, Inserted, TypeOK
    <3> QED BY <2>a, <2>b, <3>1, <3>2 DEF IInv, Named, IsPrimary
  <2>5. ASSUME Told PROVE Told'
    <3>1. \A p \in Locations : told'[p] = IF p = l THEN q ELSE told[p]
      BY <1>2, <1>a DEF AddBackup, TypeOK
    <3>2. \A p \in Locations : state'[p] = "PRIMARY" => p = q
      BY <2>a, <2>b, <2>c DEF IInv, AtMostOnePrimary, IsPrimary
    <3>3. \A p \in Locations \ {l} :
             p \notin misled' /\ state[p] \in Running /\ Alive(p) => told[p] = q
      BY <1>2, <2>c, <2>5 DEF Told, AddBackup
    <3>4. \A p \in Locations : Alive(p)' = Alive(p)
      BY <1>2 DEF AddBackup, Inserted, Alive
    <3>5. ASSUME NEW r \in Locations, state'[r] = "PRIMARY",
                 NEW p \in Locations, p \notin misled', state'[p] \in Running, Alive(p)'
          PROVE  told'[p] = r
      BY <2>b, <3>1, <3>2, <3>3, <3>4, <3>5
    <3> QED BY <3>5 DEF Told
  <2> QED BY <1>a, <2>1, <2>2, <2>3, <2>4, <2>5 DEF IInv
<1> QED BY <1>1, <1>2, AddMemberCases
-----------------------------------------------------------------------------
(* handle_process_failure and remove_member.                               *)

\* A location leaves all its groups and becomes s; e, if there is one, takes
\* over from it.
Left(l, e, s) ==
    /\ state' = [p \in Locations |-> IF p = l THEN s ELSE IF p = e THEN "PRIMARY" ELSE state[p]]
    /\ sm' = state'
    /\ members' = [g \in Groups |-> members[g] \ {l}]
    /\ present' = [g \in Groups |-> present[g] \ {l}]
    /\ gcount' = [g \in Groups |-> IF l \in members[g] THEN gcount[g] - 1 ELSE gcount[g]]
    /\ gstate' = [g \in Groups |-> IF l \in members[g] THEN AfterRemoval(g) ELSE gstate[g]]
    /\ primaryLoc' = [g \in Groups |-> IF e \in members[g] THEN e ELSE primaryLoc[g]]
    /\ count' = [count EXCEPT ![l] = 0]
    /\ exp' = [exp EXCEPT ![l] = created]
    /\ backup'[l] = TRUE
    /\ s = "FAILED" => ~admin'[l]
    /\ \A p \in Locations \ {l} :
          backup'[p] = backup[p] /\ admin'[p] = admin[p] /\ notices'[p] = notices[p]
    /\ UNCHANGED <<created, proc>>

\* What remove_members does when nothing stops it.
LEMMA RemoveMembersFact ==
    ASSUME IInv, NEW l \in Locations, RemoveMembers(l, TRUE)
    PROVE  /\ members' = [g \in Groups |-> members[g] \ {l}]
           /\ present' = [g \in Groups |-> present[g] \ {l}]
           /\ gcount' = [g \in Groups |-> IF l \in members[g] THEN gcount[g] - 1 ELSE gcount[g]]
           /\ gstate' = [g \in Groups |-> IF l \in members[g] THEN AfterRemoval(g) ELSE gstate[g]]
<1>1. \A g \in Groups : g \in Reached(l) <=> l \in members[g]
  BY NothingStuck DEF MemberOf
<1>2. \A g \in Groups : present[g] = members[g]
  BY DEF IInv, RecordsAgree
<1>3. \A g \in Groups : l \notin members[g] => members[g] \ {l} = members[g]
  OBVIOUS
<1> QED BY <1>1, <1>2, <1>3 DEF RemoveMembers

\* Whoever is elected has become a backup of every group it is in.
LEMMA PromotableFact ==
    ASSUME IInv, NEW e \in Locations \cup {NoLocation}
    PROVE  Promotable(e)
BY DEF Promotable, IInv, RecordsAgree

\* The counters of a location that leaves: everything is expected again.
LEMMA ExpectAgainFact ==
    ASSUME IInv, NEW l \in Locations
    PROVE  ExpectAgain(l) = [exp EXCEPT ![l] = created]
<1>1. count[l] + exp[l] = created
  BY Parts DEF IInv, LocationCounts
<1> QED BY <1>1 DEF ExpectAgain

\* A noticed failure disturbs no insertion, and stops nowhere.
LEMMA FailureLeaves ==
    ASSUME IInv, NEW l \in Locations, HandleProcessFailure(l)
    PROVE  /\ Left(l, Successor(l), "FAILED")
           /\ \A p \in Locations \ {l} : state[p] \notin Inserting
           /\ told' = Tell(IF Successor(l) # NoLocation THEN Peers \ {l} ELSE {}, Successor(l))
           /\ Successor(l) = NoLocation => misled' = misled
<1> DEFINE e == Successor(l)
           stuck == Irremovable(l) # {}
           done == ~stuck /\ Promotable(e)
           others == IF done /\ e # NoLocation THEN Peers \ {l} ELSE {}
<1>1. /\ notices[l] > 0
      /\ notices' = [notices EXCEPT ![l] = @ - 1]
      /\ RemoveMembers(l, done)
      /\ sm' = [p \in Locations |->
                   IF p = e /\ ~stuck THEN "PRIMARY"
                   ELSE IF p = l /\ done THEN "FAILED" ELSE sm[p]]
      /\ state' = [p \in Locations |-> IF done /\ p \in {e, l} THEN sm'[p] ELSE state[p]]
      /\ primaryLoc' = [g \in Groups |-> IF done /\ e \in present[g] THEN e ELSE primaryLoc[g]]
      /\ told' = Tell(others, e) /\ misled' = misled \ others
      /\ exp' = IF done THEN ExpectAgain(l) ELSE exp
      /\ count' = [count EXCEPT ![l] = IF done THEN 0 ELSE @]
      /\ backup' = [backup EXCEPT ![l] = done \/ @]
      /\ admin' = [admin EXCEPT ![l] = ~done /\ @]
      /\ UNCHANGED <<created, proc, crashes>>
  BY DEF HandleProcessFailure
<1>2. TypeOK /\ sm = state
  BY DEF IInv, Base, Contexts
<1>3. e \in Locations \cup {NoLocation} /\ e # l /\ ~stuck /\ done
  BY <1>2, SuccessorFact, NothingStuck, PromotableFact, ConstantsAssumption
<1>4. others = IF e # NoLocation THEN Peers \ {l} ELSE {}
  BY <1>3
<1> HIDE DEF e, stuck, done, others
<1>5. /\ sm' = [p \in Locations |-> IF p = l THEN "FAILED" ELSE IF p = e THEN "PRIMARY" ELSE state[p]]
      /\ state' = sm'
  BY <1>1, <1>2, <1>3
<1>6. /\ members' = [g \in Groups |-> members[g] \ {l}]
      /\ present' = [g \in Groups |-> present[g] \ {l}]
      /\ gcount' = [g \in Groups |-> IF l \in members[g] THEN gcount[g] - 1 ELSE gcount[g]]
      /\ gstate' = [g \in Groups |-> IF l \in members[g] THEN AfterRemoval(g) ELSE gstate[g]]
  <2>1. RemoveMembers(l, TRUE)
    BY <1>1, <1>3
  <2> QED BY <2>1, RemoveMembersFact
<1>7. primaryLoc' = [g \in Groups |-> IF e \in members[g] THEN e ELSE primaryLoc[g]]
  <2>1. \A g \in Groups : present[g] = members[g]
    BY DEF IInv, RecordsAgree
  <2> QED BY <1>1, <1>3, <2>1
<1>8. exp' = [exp EXCEPT ![l] = created] /\ count' = [count EXCEPT ![l] = 0]
  BY <1>1, <1>3, ExpectAgainFact
<1>9. /\ backup'[l] = TRUE /\ ~admin'[l]
      /\ \A p \in Locations \ {l} :
            backup'[p] = backup[p] /\ admin'[p] = admin[p] /\ notices'[p] = notices[p]
  BY <1>1, <1>2, <1>3 DEF TypeOK
<1>10. \A p \in Locations \ {l} : state[p] \notin Inserting
  BY <1>1 DEF IInv, Undisturbed
<1>11. e = NoLocation => misled' = misled
  BY <1>1, <1>4
<1> QED BY <1>1, <1>4, <1>11, <1>5, <1>6, <1>7, <1>8, <1>9, <1>10 DEF Left, e

\* So does a withdrawal.
LEMMA WithdrawalLeaves ==
    ASSUME IInv, NEW l \in Locations, RemoveMember(l)
    PROVE  /\ Left(l, Successor(l), "INITIAL")
           /\ \A p \in Locations \ {l} : state[p] \notin Inserting
           /\ Successor(l) # NoLocation /\ Alive(Successor(l))
                 => told'[Successor(l)] = Successor(l)
           /\ Successor(l) # NoLocation /\ Cardinality(Locations) > 2
                 => Peers \ {Successor(l), l} \subseteq misled'
           /\ Successor(l) = NoLocation => told' = told /\ misled' = misled
<1> DEFINE e == Successor(l)
           reset == Irremovable(l) = {}
           replaced == reset /\ e # NoLocation
           elected == replaced /\ Promotable(e)
           unseen == ~IsPrimary(l) /\ \E p \in Peers \ {l} : state[p] \in Running /\ ~Alive(p)
           saved == reset /\ Promotable(e) /\ ~unseen
           others == IF elected /\ Cardinality(Locations) > 2 THEN Peers \ {e, l} ELSE {}
<1>1. /\ admin[l] /\ Calm(l)
      /\ RemoveMembers(l, saved)
      /\ sm' = [p \in Locations |->
                   IF replaced /\ p = e THEN "PRIMARY"
                   ELSE IF reset /\ p = l THEN "INITIAL" ELSE sm[p]]
      /\ state' = [p \in Locations |->
                   IF elected /\ p = e THEN "PRIMARY"
                   ELSE IF reset /\ p = l THEN "INITIAL" ELSE state[p]]
      /\ exp' = IF reset THEN ExpectAgain(l) ELSE exp
      /\ count' = [count EXCEPT ![l] = IF reset THEN 0 ELSE @]
      /\ backup' = [backup EXCEPT ![l] = reset \/ @]
      /\ primaryLoc' = [g \in Groups |-> IF elected /\ e \in present[g] THEN e ELSE primaryLoc[g]]
      /\ told' = [p \in Locations |->
                     IF p = e /\ elected /\ Alive(e) THEN e
                     ELSE IF p = l /\ replaced /\ Alive(l) /\ state[l] = "PRIMARY" THEN e
                     ELSE Tell(others, l)[p]]
      /\ misled' = (IF elected THEN misled \ {e} ELSE misled) \cup others
      /\ UNCHANGED <<created, admin, envVars>>
  BY DEF RemoveMember
<1>2. TypeOK /\ sm = state /\ NoLocation \notin Locations
  BY ConstantsAssumption DEF IInv, Base, Contexts
<1>3. e \in Locations \cup {NoLocation} /\ e # l /\ reset /\ Promotable(e)
  BY <1>2, SuccessorFact, NothingStuck, PromotableFact
<1>4. (elected <=> e # NoLocation) /\ (replaced <=> e # NoLocation)
  BY <1>3
<1>5. saved = TRUE
  <2>1. ASSUME NEW p \in Peers \ {l}, state[p] \in Running, ~Alive(p)
        PROVE  FALSE
    <3>1. p \in Locations /\ notices[p] > 0
      BY <2>1, FirstGroup DEF IInv, FailuresNoticed
    <3>2. notices[p] = 0
      BY <1>1, <2>1, <3>1 DEF Calm
    <3> QED BY <3>1, <3>2
  <2> QED BY <1>3, <2>1
<1>6. /\ e = NoLocation => others = {}
      /\ e # NoLocation /\ Cardinality(Locations) > 2 => others = Peers \ {e, l}
  BY <1>4
<1> HIDE DEF e, reset, replaced, elected, unseen, saved, others
<1>7. /\ sm' = [p \in Locations |-> IF p = l THEN "INITIAL" ELSE IF p = e THEN "PRIMARY" ELSE state[p]]
      /\ state' = sm'
  BY <1>1, <1>2, <1>3, <1>4
<1>8. /\ members' = [g \in Groups |-> members[g] \ {l}]
      /\ present' = [g \in Groups |-> present[g] \ {l}]
      /\ gcount' = [g \in Groups |-> IF l \in members[g] THEN gcount[g] - 1 ELSE gcount[g]]
      /\ gstate' = [g \in Groups |-> IF l \in members[g] THEN AfterRemoval(g) ELSE gstate[g]]
  <2>1. RemoveMembers(l, TRUE)
    BY <1>1, <1>5
  <2> QED BY <2>1, RemoveMembersFact
<1>9. primaryLoc' = [g \in Groups |-> IF e \in members[g] THEN e ELSE primaryLoc[g]]
  <2>1. \A g \in Groups : present[g] = members[g] /\ members[g] \subseteq Locations
    BY <1>2 DEF IInv, RecordsAgree, TypeOK
  <2> QED BY <1>1, <1>2, <1>4, <2>1
<1>10. exp' = [exp EXCEPT ![l] = created] /\ count' = [count EXCEPT ![l] = 0]
  BY <1>1, <1>3, ExpectAgainFact
<1>11. /\ backup'[l] = TRUE
       /\ \A p \in Locations \ {l} :
            backup'[p] = backup[p] /\ admin'[p] = admin[p] /\ notices'[p] = notices[p]
  BY <1>1, <1>2, <1>3 DEF TypeOK, envVars
<1>12. \A p \in Locations \ {l} : state[p] \notin Inserting
  BY <1>1, <1>2 DEF Calm, Alone
<1>13. e # NoLocation /\ Alive(e) => told'[e] = e
  BY <1>1, <1>3, <1>4
<1>14. e = NoLocation => told' = told
  <2>1. ASSUME e = NoLocation PROVE told' = told
    <3>1. told' = [p \in Locations |-> Tell({}, l)[p]]
      BY <1>1, <1>4, <1>6, <2>1
    <3> QED BY <1>2, <3>1 DEF Tell, TypeOK
  <2> QED BY <2>1
<1>16. e = NoLocation => misled' = misled
  BY <1>1, <1>4, <1>6
<1>17. e # NoLocation /\ Cardinality(Locations) > 2 => Peers \ {e, l} \subseteq misled'
  BY <1>1, <1>6
<1>15. UNCHANGED <<created, proc>>
  BY <1>1 DEF envVars
<1> QED BY <1>1, <1>7, <1>8, <1>9, <1>10, <1>11, <1>12, <1>13, <1>14, <1>15, <1>16, <1>17 DEF Left, e
\* Only a complete primary has a successor: while one is inserted there is no
\* backup.
LEMMA SuccessorOfPrimary ==
    ASSUME IInv, NEW l \in Locations, Successor(l) # NoLocation
    PROVE  state[l] = "PRIMARY"
<1>1. TypeOK
  BY DEF IInv, Base
<1>2. IsPrimary(l) /\ Successor(l) \in Locations /\ state[Successor(l)] = "BACKUP"
  BY <1>1, SuccessorFact
<1>3. PICK r \in Locations : state[r] = "PRIMARY"
  BY <1>2 DEF IInv, Led
<1>4. r = l
  BY <1>2, <1>3 DEF IInv, AtMostOnePrimary, IsPrimary
<1> QED BY <1>3, <1>4

\* A location that leaves does so without a trace in the records, and another
\* primary takes over if there is a backup.
LEMMA LeftKeeps ==
    ASSUME IInv, Base', NEW l \in Locations, NEW s \in Withdrawn,
           Left(l, Successor(l), s),
           \A p \in Locations \ {l} : state[p] \notin Inserting
    PROVE  IInv'
<1> DEFINE e == Successor(l)
<1>a. /\ TypeOK /\ sm = state /\ NoLocation \notin Locations
      /\ created \in Nat /\ \A p \in Locations : count[p] \in Nat /\ exp[p] \in Nat
  BY ConstantsAssumption DEF IInv, Base, Contexts, TypeOK
<1>b. /\ e \in Locations \cup {NoLocation}
      /\ e # NoLocation => IsPrimary(l) /\ e \in Peers \ {l} /\ state[e] = "BACKUP"
      /\ IsPrimary(l) /\ e = NoLocation => \A p \in Peers \ {l} : state[p] # "BACKUP"
  BY <1>a, SuccessorFact
<1>c. s \in {"INITIAL", "FAILED"}
  BY DEF Withdrawn
<1> HIDE DEF e
<1>d. \A p \in Locations :
         /\ state'[p] = IF p = l THEN s ELSE IF p = e THEN "PRIMARY" ELSE state[p]
         /\ count'[p] = IF p = l THEN 0 ELSE count[p]
         /\ exp'[p] = IF p = l THEN created ELSE exp[p]
         /\ p # l => backup'[p] = backup[p] /\ admin'[p] = admin[p] /\ notices'[p] = notices[p]
         /\ proc'[p] = proc[p]
  BY <1>a DEF Left, TypeOK, e
<1>e. \A g \in Groups :
         /\ members'[g] = members[g] \ {l} /\ present'[g] = present[g] \ {l}
         /\ gcount'[g] = IF l \in members[g] THEN gcount[g] - 1 ELSE gcount[g]
         /\ gstate'[g] = IF l \in members[g] THEN AfterRemoval(g) ELSE gstate[g]
         /\ primaryLoc'[g] = IF e \in members[g] THEN e ELSE primaryLoc[g]
  BY DEF Left, e
<1>f. created' = created /\ sm' = state'
  BY DEF Left
<1>g. e # l
  BY <1>a, <1>b
<1>1. RecordsAgree'
  <2>1. \A g \in Groups : present[g] = members[g]
    BY DEF IInv, RecordsAgree
  <2>2. ASSUME NEW g \in Groups PROVE GroupAgrees(g)'
    <3>1. CASE l \in members[g]
      BY <1>e, <2>1, <3>1, GroupLoses
    <3>2. CASE l \notin members[g]
      <4>1. members'[g] = members[g] /\ present'[g] = present[g]
        <5>1. members[g] \ {l} = members[g]
          BY <3>2
        <5> QED BY <1>e, <2>1, <5>1
      <4> QED BY <1>e, <3>2, <4>1, GroupStays
    <3> QED BY <3>1, <3>2
  <2> QED BY <2>2 DEF RecordsAgree, GroupAgrees
<1>2. CompleteMeansAll'
  <2>1. /\ MemberOf(l)' = {}
        /\ \A p \in Locations \ {l} : MemberOf(p)' = MemberOf(p)
    BY <1>e DEF MemberOf
  <2>2. Cardinality({}) = 0
    BY FS_EmptySet
  <2>3. \A p \in Locations : LocationCounts(p)
    BY Parts DEF IInv
  <2>4. LocationCounts(l)'
    BY <1>a, <1>c, <1>d, <1>f, <2>1, <2>2 DEF LocationCounts, Running, Inserting
  <2>5. ASSUME NEW p \in Locations \ {l} PROVE LocationCounts(p)'
    <3>1. CASE p = e
      BY <1>a, <1>b, <1>d, <1>f, <2>1, <2>3, <3>1 DEF LocationCounts, Running, Inserting
    <3>2. CASE p # e
      BY <1>d, <1>f, <2>1, <2>3, <3>2 DEF LocationCounts
    <3> QED BY <3>1, <3>2
  <2>6. \A p \in Locations : LocationCounts(p)'
    BY <2>4, <2>5
  <2> QED BY <2>6 DEF CompleteMeansAll, LocationCounts, MemberOf
<1>3. Contexts'
  <2>1. \A g \in Groups : members'[g] # {} => g <= created'
    BY <1>e, <1>f DEF IInv, Contexts
  <2>2. ASSUME NEW p \in Locations
        PROVE  (/\ state[p] \in Inserting \cup Running => admin[p]
                /\ state[p] = "FAILED" => ~admin[p]
                /\ state[p] = "INITIAL" => backup[p])'
    <3>1. CASE p = l
      BY <1>c, <1>d, <3>1 DEF Left, Inserting, Running
    <3>2. CASE p # l
      <4>1. state[p] \in Running \/ state'[p] = state[p]
        BY <1>a, <1>b, <1>d, <3>2 DEF Running
      <4>2. p = e => state[p] = "BACKUP"
        BY <1>a, <1>b
      <4> QED BY <1>d, <3>2, <4>1, <4>2 DEF IInv, Contexts, Inserting, Running
    <3> QED BY <3>1, <3>2
  <2> QED BY <1>f, <2>1, <2>2 DEF Contexts
<1>4. Undisturbed'
  BY <1>c, <1>d DEF Undisturbed, Inserting
<1>5. FailuresNoticed'
  <2>1. \A p \in Locations \ {l} :
           state'[p] \in Inserting \cup Running => state[p] \in Inserting \cup Running
    BY <1>a, <1>b, <1>d DEF Running
  <2>2. state'[l] \notin Inserting \cup Running
    BY <1>c, <1>d DEF Inserting, Running
  <2> QED BY <1>d, <2>1, <2>2 DEF IInv, FailuresNoticed, Alive
<1>6. AtMostOnePrimary'
  <2>1. \A p \in Locations : IsPrimary(p)' => p # l /\ (p = e \/ IsPrimary(p))
    BY <1>c, <1>d DEF IsPrimary
  <2>2. \A p \in Locations \ {l} : e # NoLocation => ~IsPrimary(p)
    BY <1>b DEF IInv, AtMostOnePrimary
  <2> QED BY <1>a, <2>1, <2>2 DEF IInv, AtMostOnePrimary
<1>7. Led'
  <2> SUFFICES ASSUME NEW p \in Locations, state'[p] \in {"BACKUP", "INSERTING_BACKUP"}
               PROVE  \E q \in Locations : state'[q] = "PRIMARY"
    BY DEF Led
  <2>1. p # l /\ state[p] = "BACKUP"
    BY <1>c, <1>d DEF Inserting
  <2>2. PICK q \in Locations : state[q] = "PRIMARY"
    BY <2>1 DEF IInv, Led
  <2>3. CASE q # l
    BY <1>d, <2>2, <2>3
  <2>4. CASE q = l
    <3>1. p \in Peers
      BY <2>1, FirstGroup DEF Running
    <3>2. e # NoLocation
      BY <1>b, <2>1, <2>2, <2>4, <3>1 DEF IsPrimary
    <3>3. e \in Locations /\ state'[e] = "PRIMARY"
      BY <1>b, <1>d, <1>g, <3>2
    <3> QED BY <3>3
  <2> QED BY <2>3, <2>4
<1>8. Named'
  <2> SUFFICES ASSUME NEW q \in Locations, IsPrimary(q)', NEW g \in Groups, q \in members'[g]
               PROVE  primaryLoc'[g] = q
    BY DEF Named
  <2>1. q # l /\ q \in members[g]
    BY <1>e
  <2>2. CASE q = e
    BY <1>e, <2>1, <2>2
  <2>3. CASE q # e
    <3>1. IsPrimary(q)
      BY <1>d, <2>1, <2>3 DEF IsPrimary
    <3>2. e = NoLocation
      BY <1>b, <2>1, <3>1 DEF IInv, AtMostOnePrimary
    <3>3. e \notin members[g]
      BY <1>a, <3>2 DEF TypeOK
    <3> QED BY <1>e, <2>1, <3>1, <3>3 DEF IInv, Named
  <2> QED BY <2>2, <2>3
<1> QED BY <1>1, <1>2, <1>3, <1>4, <1>5, <1>6, <1>7, <1>8 DEF IInv

\* After the failure of the primary all that run are told of its successor.
LEMMA FailureTells ==
    ASSUME IInv, Told, NEW l \in Locations, HandleProcessFailure(l)
    PROVE  Told'
<1> DEFINE e == Successor(l)
<1>1. /\ Left(l, e, "FAILED")
      /\ told' = Tell(IF e # NoLocation THEN Peers \ {l} ELSE {}, e)
      /\ e = NoLocation => misled' = misled
  BY FailureLeaves
<1>2. TypeOK
  BY DEF IInv, Base
<1>3. /\ e \in Locations \cup {NoLocation}
      /\ e # NoLocation => IsPrimary(l) /\ e \in Peers \ {l} /\ state[e] = "BACKUP"
  BY <1>2, SuccessorFact
<1> HIDE DEF e
<1>4. /\ \A p \in Locations : state'[p] = IF p = l THEN "FAILED" ELSE IF p = e THEN "PRIMARY" ELSE state[p]
      /\ \A p \in Locations : Alive(p)' = Alive(p)
  BY <1>1 DEF Left, Alive
<1> SUFFICES ASSUME NEW q \in Locations, state'[q] = "PRIMARY",
                    NEW p \in Locations \ misled', state'[p] \in Running, Alive(p)'
             PROVE  told'[p] = q
  BY DEF Told
<1>5. q # l /\ p # l /\ Alive(p)
  BY <1>4 DEF Running
<1>6. state[p] \in Running
  BY <1>3, <1>4, <1>5, ConstantsAssumption DEF Running
<1>7. CASE e # NoLocation
  <2>1. q = e
    <3>1. q # e => IsPrimary(q)
      BY <1>4, <1>5 DEF IsPrimary
    <3> QED BY <1>3, <1>5, <1>7, <3>1 DEF IInv, AtMostOnePrimary
  <2>2. p \in Peers \ {l} /\ admin[p]
    BY <1>5, <1>6, FirstGroup DEF IInv, Contexts
  <2>3. told'[p] = e
    BY <1>1, <1>5, <1>7, <2>2 DEF Tell
  <2> QED BY <2>1, <2>3
<1>8. CASE e = NoLocation
  <2>1. told'[p] = told[p]
    BY <1>1, <1>8 DEF Tell
  <2>2. state[q] = "PRIMARY"
    BY <1>4, <1>5, <1>8, ConstantsAssumption
  <2> QED BY <1>1, <1>5, <1>6, <1>8, <2>1, <2>2 DEF Told
<1> QED BY <1>7, <1>8

\* When the primary is withdrawn, its successor is told of itself: of those that
\* run it is the only one that is not misled.
LEMMA WithdrawalTells ==
    ASSUME IInv, Told, NEW l \in Locations, RemoveMember(l)
    PROVE  Told'
<1> DEFINE e == Successor(l)
<1>1. /\ Left(l, e, "INITIAL")
      /\ e # NoLocation /\ Alive(e) => told'[e] = e
      /\ e # NoLocation /\ Cardinality(Locations) > 2 => Peers \ {e, l} \subseteq misled'
      /\ e = NoLocation => told' = told /\ misled' = misled
  BY WithdrawalLeaves
<1>2. TypeOK
  BY DEF IInv, Base
<1>3. /\ e \in Locations \cup {NoLocation}
      /\ e # NoLocation => IsPrimary(l) /\ e \in Peers \ {l} /\ state[e] = "BACKUP"
  BY <1>2, SuccessorFact
<1> HIDE DEF e
<1>4. /\ \A p \in Locations : state'[p] = IF p = l THEN "INITIAL" ELSE IF p = e THEN "PRIMARY" ELSE state[p]
      /\ \A p \in Locations : Alive(p)' = Alive(p)
  BY <1>1 DEF Left, Alive
<1> SUFFICES ASSUME NEW q \in Locations, state'[q] = "PRIMARY",
                    NEW p \in Locations \ misled', state'[p] \in Running, Alive(p)'
             PROVE  told'[p] = q
  BY DEF Told
<1>5. q # l /\ p # l /\ Alive(p)
  BY <1>4 DEF Running
<1>6. state[p] \in Running
  BY <1>3, <1>4, <1>5, ConstantsAssumption DEF Running
<1>7. CASE e # NoLocation
  <2>1. q = e
    <3>1. q # e => IsPrimary(q)
      BY <1>4, <1>5 DEF IsPrimary
    <3> QED BY <1>3, <1>5, <1>7, <3>1 DEF IInv, AtMostOnePrimary
  <2>2. p \in Peers /\ e \in Locations
    BY <1>3, <1>6, <1>7, FirstGroup
  <2>5. p = e
    <3> SUFFICES ASSUME p # e PROVE FALSE
      OBVIOUS
    <3>1. e # l /\ p # l
      BY <1>3, <1>5, <1>7
    <3> DEFINE S == {p, e, l}
    <3>2. S \in SUBSET Locations
      BY <2>2
    <3>3. Cardinality(S) <= Cardinality(Locations)
      BY <3>2, FS_Subset, ConstantsAssumption
    <3>4. Cardinality(S) = 3
      BY <3>1, ThreeOfThem
    <3>5. Cardinality(Locations) \in Nat
      BY FS_CardinalityType, ConstantsAssumption
    <3> HIDE DEF S
    <3>6. Cardinality(Locations) > 2
      BY <3>3, <3>4, <3>5
    <3> QED BY <1>1, <1>5, <1>7, <2>2, <3>1, <3>6
  <2> QED BY <1>1, <1>5, <1>7, <2>1, <2>5
<1>8. CASE e = NoLocation
  <2>1. state[q] = "PRIMARY"
    BY <1>4, <1>5, <1>8, ConstantsAssumption
  <2> QED BY <1>1, <1>5, <1>6, <1>8, <2>1 DEF Told
<1> QED BY <1>7, <1>8
-----------------------------------------------------------------------------
(* The other steps.                                                        *)

\* Groups are created before any location is complete.
LEMMA CreateObjectKeeps ==
    ASSUME IInv, CreateObject
    PROVE  IInv' /\ Told'
<1>a. TypeOK /\ created \in Nat
  BY ConstantsAssumption DEF IInv, Base, TypeOK
<1>b. /\ created' = created + 1
      /\ \A l \in Locations : exp'[l] = exp[l] + 1 /\ exp[l] \in Nat /\ count[l] \in Nat
      /\ \A l \in Locations : state[l] \in Inserting \cup {"INITIAL"}
      /\ UNCHANGED <<sm, state, count, backup, firstBackup, admin, groupVars, told, envVars>>
  <2>1. exp' = [l \in Locations |-> exp[l] + 1]
    BY DEF CreateObject
  <2>2. \A l \in Locations : exp'[l] = exp[l] + 1
    BY <2>1
  <2>3. \A l \in Locations : exp[l] \in Nat /\ count[l] \in Nat
    BY <1>a DEF TypeOK
  <2>4. /\ created' = created + 1
        /\ \A l \in Locations : state[l] \in Inserting \cup {"INITIAL"}
        /\ UNCHANGED <<sm, state, count, backup, firstBackup, admin, groupVars, told, envVars>>
    BY DEF CreateObject, IInv, Contexts
  <2> QED BY ONLY <2>2, <2>3, <2>4
<1>1. Base'
  BY BaseStep DEF IInv, Next
<1>2. RecordsAgree' /\ Undisturbed' /\ FailuresNoticed' /\ AtMostOnePrimary' /\ Led' /\ Named'
  BY <1>b DEF IInv, RecordsAgree, Undisturbed, FailuresNoticed, AtMostOnePrimary, Led, Named,
     IsPrimary, Alive, groupVars, envVars
<1>3. CompleteMeansAll'
  <2>1. ASSUME NEW l \in Locations PROVE LocationCounts(l)'
    <3>1. LocationCounts(l) /\ MemberOf(l)' = MemberOf(l)
      BY <1>b, Parts DEF IInv, MemberOf, groupVars
    <3>2. state[l] \notin Running
      BY <1>b DEF Inserting, Running
    <3> QED BY <1>a, <1>b, <3>1, <3>2 DEF LocationCounts
  <2> QED BY <2>1 DEF CompleteMeansAll, LocationCounts, MemberOf
<1>4. Contexts'
  <2>1. \A g \in Groups : g <= created => g <= created + 1
    BY <1>a DEF Groups
  <2> QED BY <1>b, <2>1 DEF IInv, Contexts, groupVars
<1>5. Told'
  BY <1>b DEF Told, Inserting
<1> QED BY <1>1, <1>2, <1>3, <1>4, <1>5 DEF IInv

\* Steps that leave the contexts alone.
LEMMA ContextsStay ==
    ASSUME IInv, Base', UNCHANGED <<created, sm, state, count, exp, backup, admin, groupVars>>,
           Undisturbed', FailuresNoticed'
    PROVE  IInv'
<1>1. RecordsAgree' /\ AtMostOnePrimary' /\ Led' /\ Named'
  BY DEF IInv, RecordsAgree, AtMostOnePrimary, Led, Named, IsPrimary, groupVars
<1>2. CompleteMeansAll' /\ Contexts'
  BY DEF IInv, CompleteMeansAll, Contexts, groupVars
<1> QED BY <1>1, <1>2 DEF IInv

\* Crashes, restarts, notices without effect and set_first_backup.
LEMMA EnvironmentKeeps ==
    ASSUME IInv, NEW l \in Locations,
           Crash(l) \/ Restart(l) \/ IgnoreNotice(l) \/ SetFirstBackup(l)
    PROVE  IInv' /\ (Told => Told')
<1>a. /\ sm = state
      /\ proc \in [Locations -> {"down", "up", "registered"}]
      /\ notices \in [Locations -> Nat]
  BY DEF IInv, Base, TypeOK, Contexts
<1>b. /\ UNCHANGED <<created, sm, state, count, exp, backup, admin, groupVars, told, misled>>
      /\ \A p \in Locations : Alive(p)' => Alive(p)
  BY <1>a DEF Crash, Restart, IgnoreNotice, SetFirstBackup, locationVars, envVars, Alive
<1>1. Base'
  BY BaseStep DEF IInv, Next
<1>2. Undisturbed'
  <2>1. \A p \in Locations : notices'[p] > notices[p] => p = l /\ Alone(l)
    BY <1>a DEF Crash, Restart, IgnoreNotice, SetFirstBackup, locationVars, envVars
  <2>2. \A p \in Locations : notices'[p] \in Nat /\ notices[p] \in Nat
    BY <1>1, <1>a DEF Base, TypeOK
  <2> QED BY <1>a, <1>b, <2>1, <2>2 DEF IInv, Undisturbed, Alone
<1>3. FailuresNoticed'
  <2>1. CASE Crash(l)
    BY <1>a, <1>b, <2>1 DEF Crash, IInv, FailuresNoticed, Alive
  <2>2. CASE Restart(l)
    BY <1>a, <1>b, <2>2 DEF Restart, IInv, FailuresNoticed, Alive
  <2>3. CASE IgnoreNotice(l)
    <3>1. state[l] \notin Inserting \cup Running
      <4>1. CASE state[l] = "FAILED"
        BY <4>1 DEF Inserting, Running
      <4>2. CASE ~admin[l]
        BY <4>2 DEF IInv, Contexts
      <4> QED BY <2>3, <4>1, <4>2 DEF IgnoreNotice
    <3>2. \A p \in Locations \ {l} : notices'[p] = notices[p]
      BY <1>a, <2>3 DEF IgnoreNotice
    <3> QED BY <1>b, <2>3, <3>1, <3>2 DEF IgnoreNotice, IInv, FailuresNoticed, Alive
  <2>4. CASE SetFirstBackup(l)
    BY <1>b, <2>4 DEF SetFirstBackup, IInv, FailuresNoticed, envVars, Alive
  <2> QED BY <2>1, <2>2, <2>3, <2>4
<1>4. Told => Told'
  BY <1>b DEF Told
<1> QED BY <1>1, <1>2, <1>3, <1>4, <1>b, ContextsStay

\* A location that registers has nothing to lose.
LEMMA RegisterLocationKeeps ==
    ASSUME IInv, NEW l \in Locations, RegisterLocation(l)
    PROVE  IInv' /\ (Told => Told')
<1>a. TypeOK /\ sm = state /\ created \in Nat
  BY ConstantsAssumption DEF IInv, Base, Contexts, TypeOK
<1>b. state[l] \in Withdrawn /\ LocationCounts(l) /\ count[l] \in Nat /\ exp[l] \in Nat
  BY <1>a, Parts DEF RegisterLocation, IInv, Withdrawn, TypeOK
<1>c. \A p \in Locations :
         /\ state'[p] = IF p = l THEN "INITIAL" ELSE state[p]
         /\ count'[p] = IF p = l THEN 0 ELSE count[p]
         /\ exp'[p] = IF p = l THEN count[l] + exp[l] ELSE exp[p]
         /\ backup'[p] = IF p = l THEN TRUE ELSE backup[p]
         /\ p # l => admin'[p] = admin[p] /\ told'[p] = told[p] /\ proc'[p] = proc[p]
         /\ p # l => (p \in misled' <=> p \in misled)
  BY <1>a DEF RegisterLocation, ExpectAgain, TypeOK
<1>d. present' = present
  <2>1. \A g \in Groups : present[g] \ {l} = present[g]
    BY <1>b, Membership DEF IInv, RecordsAgree
  <2> QED BY <1>a, <2>1 DEF RegisterLocation, TypeOK
<1>e. UNCHANGED <<created, gstate, gcount, members, primaryLoc, notices>> /\ sm' = state'
  BY <1>a DEF RegisterLocation
<1>1. Base'
  BY BaseStep DEF IInv, Next
<1>2. RecordsAgree'
  BY <1>d, <1>e DEF IInv, RecordsAgree
<1>3. CompleteMeansAll'
  <2>1. ASSUME NEW p \in Locations PROVE LocationCounts(p)'
    <3>1. LocationCounts(p) /\ MemberOf(p)' = MemberOf(p)
      BY <1>e, Parts DEF IInv, MemberOf
    <3>2. CASE p # l
      BY <1>c, <1>e, <3>1, <3>2 DEF LocationCounts
    <3>3. CASE p = l
      <4>1. count[l] = 0
        BY <1>b DEF LocationCounts, Withdrawn
      <4>2. count'[l] = 0 /\ exp'[l] = exp[l] /\ state'[l] = "INITIAL" /\ created' = created
        <5>1. count[l] + exp[l] = exp[l]
          BY <1>b, <4>1
        <5> QED BY <1>c, <1>e, <5>1
      <4>3. 0 = Cardinality(MemberOf(l)) /\ 0 + exp[l] = created
        BY <1>b, <4>1 DEF LocationCounts
      <4>4. "INITIAL" \notin Running /\ "INITIAL" \notin Inserting
        BY DEF Running, Inserting
      <4> QED BY <3>1, <3>3, <4>2, <4>3, <4>4 DEF LocationCounts
    <3> QED BY <3>2, <3>3
  <2> QED BY <2>1 DEF CompleteMeansAll, LocationCounts, MemberOf
<1>4. Contexts'
  <2>1. ASSUME NEW p \in Locations
        PROVE  (/\ state[p] \in Inserting \cup Running => admin[p]
                /\ state[p] = "FAILED" => ~admin[p]
                /\ state[p] = "INITIAL" => backup[p])'
    <3>1. CASE p = l
      BY <1>c, <3>1 DEF Inserting, Running
    <3>2. CASE p # l
      BY <1>c, <3>2 DEF IInv, Contexts
    <3> QED BY <3>1, <3>2
  <2>2. \A g \in Groups : members'[g] # {} => g <= created'
    BY <1>e DEF IInv, Contexts
  <2> QED BY <1>e, <2>1, <2>2 DEF Contexts
<1>5. Undisturbed' /\ FailuresNoticed'
  BY <1>c, <1>e DEF IInv, Undisturbed, FailuresNoticed, Alive, Inserting, Running
<1>6. AtMostOnePrimary' /\ Named'
  BY <1>c, <1>e DEF IInv, AtMostOnePrimary, Named, IsPrimary
<1>7. Led'
  BY <1>b, <1>c DEF IInv, Led, Withdrawn
<1>8. Told => Told'
  <2> SUFFICES ASSUME Told,
                      NEW q \in Locations, state'[q] = "PRIMARY",
                      NEW p \in Locations \ misled', state'[p] \in Running, Alive(p)'
               PROVE  told'[p] = q
    BY DEF Told
  <2>1. p # l /\ q # l
    BY <1>c DEF Running
  <2>2. state[q] = "PRIMARY" /\ state[p] \in Running /\ told'[p] = told[p]
       /\ p \notin misled
    BY ONLY <1>c, <2>1, state'[q] = "PRIMARY", state'[p] \in Running,
            q \in Locations, p \in Locations \ misled'
  <2>3. Alive(p)
    BY <1>c, <2>1 DEF Alive
  <2> QED BY ONLY <2>2, <2>3, Told, q \in Locations, p \in Locations \ misled' DEF Told
<1> QED BY <1>1, <1>2, <1>3, <1>4, <1>5, <1>6, <1>7, <1>8 DEF IInv
-----------------------------------------------------------------------------
(* The theorems.                                                           *)

\* At first nobody takes part.
LEMMA InitInv == Init => IInv /\ Told
<1> SUFFICES ASSUME Init PROVE IInv /\ Told
  OBVIOUS
<1>1. Base
  <2>1. GroupCount \in Nat
    BY ConstantsAssumption
  <2>2. TypeOK
    BY <2>1 DEF Init, TypeOK, LocationStates, GroupStates
  <2> QED BY <2>2 DEF Base, GroupMachine, Init
<1>2. \A l \in Locations : state[l] = "INITIAL" /\ sm[l] = "INITIAL"
  BY DEF Init
<1>3. \A g \in Groups : members[g] = {} /\ present[g] = {} /\ gcount[g] = 0 /\ gstate[g] = "INITIAL"
  BY DEF Init
<1>4. RecordsAgree
  <2>1. Cardinality({}) = 0
    BY FS_EmptySet
  <2> QED BY <1>3, <2>1 DEF RecordsAgree
<1>5. CompleteMeansAll
  <2>1. Cardinality({}) = 0
    BY FS_EmptySet
  <2>2. ASSUME NEW l \in Locations PROVE LocationCounts(l)
    <3>1. MemberOf(l) = {}
      BY <1>3 DEF MemberOf
    <3>2. count[l] = 0 /\ exp[l] = 0 /\ created = 0
      BY DEF Init
    <3> QED BY <1>2, <2>1, <3>1, <3>2 DEF LocationCounts, Running, Inserting
  <2> QED BY <2>2, Parts
<1>6. Contexts
  BY <1>2, <1>3 DEF Init, Contexts, Inserting, Running
<1>7. Undisturbed /\ FailuresNoticed /\ AtMostOnePrimary /\ Led /\ Named /\ Told
  BY <1>2 DEF Undisturbed, FailuresNoticed, AtMostOnePrimary, Led, Named, Told,
     IsPrimary, Inserting, Running
<1> QED BY <1>1, <1>4, <1>5, <1>6, <1>7 DEF IInv

\* The invariant is kept by every step.
LEMMA Step ==
    ASSUME IInv, InitialisationSucceeds, [Next]_vars
    PROVE  /\ IInv'
           /\ Told => Told'
<1>1. CASE UNCHANGED vars
  <2>1. Base'
    BY <1>1, BaseStep DEF IInv
  <2>2. Undisturbed' /\ FailuresNoticed' /\ (Told => Told')
    BY <1>1 DEF IInv, Undisturbed, FailuresNoticed, Told, Alive, vars, locationVars, envVars
  <2> QED BY <1>1, <2>1, <2>2, ContextsStay DEF vars, locationVars
<1>2. CASE CreateObject
  BY <1>2, CreateObjectKeeps
<1>3. ASSUME NEW l \in Locations,
             Crash(l) \/ Restart(l) \/ IgnoreNotice(l) \/ SetFirstBackup(l)
      PROVE  IInv' /\ (Told => Told')
  BY <1>3, EnvironmentKeeps
<1>4. ASSUME NEW l \in Locations, RegisterLocation(l)
      PROVE  IInv' /\ (Told => Told')
  BY <1>4, RegisterLocationKeeps
<1>5. ASSUME NEW l \in Locations, NEW g \in Groups, AddMember(l, g)
      PROVE  IInv' /\ (Told => Told')
  BY <1>5, AddMemberKeeps
<1>6. ASSUME NEW l \in Locations, HandleProcessFailure(l)
      PROVE  IInv' /\ (Told => Told')
  <2>1. Base'
    BY <1>6, HandleProcessFailureBase DEF IInv
  <2> QED BY <1>6, <2>1, FailureLeaves, LeftKeeps, FailureTells DEF Withdrawn
<1>7. ASSUME NEW l \in Locations, RemoveMember(l)
      PROVE  IInv' /\ (Told => Told')
  <2>1. Base'
    BY <1>7, RemoveMemberBase DEF IInv
  <2> QED BY <1>7, <2>1, WithdrawalLeaves, LeftKeeps, WithdrawalTells DEF Withdrawn
<1> QED BY <1>1, <1>2, <1>3, <1>4, <1>5, <1>6, <1>7 DEF Next

\* The inductive invariant holds when initialisation succeeds.
THEOREM IInvHolds ==
    ASSUME InitialisationSucceeds
    PROVE  Spec => []IInv
<1>1. Init => IInv
  BY InitInv
<1>2. IInv /\ [Next]_vars => IInv'
  BY Step
<1> QED BY <1>1, <1>2, PTL DEF Spec

\* Through every sequence of insertions, withdrawals, crashes, restarts and
\* late notices, at most one location is, or is becoming, the primary.
THEOREM OnePrimary ==
    ASSUME InitialisationSucceeds
    PROVE  Spec => []AtMostOnePrimary
<1>1. IInv => AtMostOnePrimary
  BY DEF IInv
<1> QED BY <1>1, IInvHolds, PTL

\* The objects in the contexts, the saved ObjectGroupData and the machine that
\* tells the observers the redundancy agree on the members of every group.
THEOREM RecordsStayInStep ==
    ASSUME InitialisationSucceeds
    PROVE  Spec => []RecordsAgree
<1>1. IInv => RecordsAgree
  BY DEF IInv
<1> QED BY <1>1, IInvHolds, PTL

\* A location is primary or backup exactly when the counters say that it has a
\* member of every group, however often it was withdrawn or failed.
THEOREM CompleteIsAll ==
    ASSUME InitialisationSucceeds
    PROVE  Spec => []CompleteMeansAll
<1>1. IInv => CompleteMeansAll
  BY DEF IInv
<1> QED BY <1>1, IInvHolds, PTL

\* Every group's data names the primary, and every location that runs and can
\* be called was told of it, through any failures with late notices: all but
\* those whom remove_member told last, of the location that it withdrew.
THEOREM EverybodyKnows ==
    ASSUME InitialisationSucceeds
    PROVE  Spec => []PrimaryIsKnown
<1>1. Init => IInv /\ Told
  BY InitInv
<1>2. (IInv /\ Told) /\ [Next]_vars => (IInv /\ Told)'
  BY Step
<1>3. IInv /\ Told => PrimaryIsKnown
  <2> SUFFICES ASSUME IInv, Told, NEW q \in Locations, state[q] = "PRIMARY"
               PROVE  /\ \A g \in 1 .. created : primaryLoc[g] = q
                      /\ \A p \in Locations \ misled :
                            state[p] \in Running /\ Alive(p) => told[p] = q
    BY DEF PrimaryIsKnown
  <2>1. ASSUME NEW g \in 1 .. created PROVE primaryLoc[g] = q
    <3>1. g \in Groups /\ g <= created
      BY ConstantsAssumption DEF IInv, Base, TypeOK, Groups
    <3>2. q \in members[g]
      BY <3>1, Membership DEF Running
    <3> QED BY <3>1, <3>2 DEF IInv, Named, IsPrimary
  <2> QED BY <2>1 DEF Told
<1> QED BY <1>1, <1>2, <1>3, PTL DEF Spec
-----------------------------------------------------------------------------
(* The refinement of ReplicatedService.                                    *)

\* CompleteLocations and CurrentPrimary of any states of the locations.
CompleteIn(st) == {l \in Locations : st[l] \in Running}
PrimaryIn(st) ==
    IF \E l \in Locations : st[l] = "PRIMARY"
    THEN CHOOSE l \in Locations : st[l] = "PRIMARY" ELSE NoLocation

\* The refinement mapping depends on the states of the locations alone.
LEMMA Mapping ==
    /\ CompleteLocations = CompleteIn(state) /\ CurrentPrimary = PrimaryIn(state)
    /\ CompleteLocations' = CompleteIn(state') /\ CurrentPrimary' = PrimaryIn(state')
BY DEF CompleteLocations, CurrentPrimary, CompleteIn, PrimaryIn

\* The one location in state PRIMARY is the current primary.
LEMMA PrimaryInFact ==
    ASSUME NEW st
    PROVE  /\ \A q \in Locations :
                 st[q] = "PRIMARY" /\ (\A p \in Locations : st[p] = "PRIMARY" => p = q)
                    => PrimaryIn(st) = q
           /\ (\A q \in Locations : st[q] # "PRIMARY") => PrimaryIn(st) = NoLocation
BY DEF PrimaryIn

\* Nothing changes for the service if the same locations run, and the same one
\* is primary.
LEMMA Unnoticed ==
    ASSUME \A p \in Locations : /\ state'[p] \in Running <=> state[p] \in Running
                                /\ state'[p] = "PRIMARY" <=> state[p] = "PRIMARY"
    PROVE  UNCHANGED Service!vars
<1>1. CompleteIn(state') = CompleteIn(state)
  BY DEF CompleteIn
<1>2. PrimaryIn(state') = PrimaryIn(state)
  BY DEF PrimaryIn
<1> QED BY <1>1, <1>2, Mapping DEF Service!vars

\* An insertion completes a location, or the service sees nothing of it.
LEMMA AddMemberRefines ==
    ASSUME IInv, InitialisationSucceeds, NEW l \in Locations, NEW g \in Groups,
           AddMember(l, g)
    PROVE  Service!Next \/ UNCHANGED Service!vars
<1>1. ASSUME NEW s, AddPrimary(l, g, s)
      PROVE  Service!Next \/ UNCHANGED Service!vars
  <2>1. \A p \in Locations : state'[p] = IF p = l THEN s ELSE state[p]
    BY <1>1 DEF AddPrimary, Inserted, IInv, Base, TypeOK
  <2>2. /\ state[l] \notin Running
        /\ \A p \in Locations \ {l} : state[p] \notin Running /\ state[p] # "PRIMARY"
    BY <1>1 DEF AddPrimary, Withdrawn, Running
  <2>3. CASE s = "INSERTING_PRIMARY"
    BY <2>1, <2>2, <2>3, Unnoticed DEF Running
  <2>4. CASE s = "PRIMARY"
    <3>1. CompleteIn(state) = {} /\ CompleteIn(state') = {l}
      BY <2>1, <2>2, <2>4 DEF CompleteIn, Running
    <3>2. PrimaryIn(state') = l
      BY <2>1, <2>2, <2>4, PrimaryInFact
    <3>3. Service!Start(l)
      BY <3>1, <3>2, Mapping DEF Service!Start
    <3> QED BY <3>3 DEF Service!Next
  <2> QED BY <1>1, <2>3, <2>4 DEF AddPrimary
<1>2. ASSUME NEW s, NEW q, AddBackup(l, g, s, q)
      PROVE  Service!Next \/ UNCHANGED Service!vars
  <2>1. \A p \in Locations : state'[p] = IF p = l THEN s ELSE state[p]
    BY <1>2 DEF AddBackup, Inserted, IInv, Base, TypeOK
  <2>2. state[l] \notin Running /\ q \in Locations \ {l} /\ state[q] = "PRIMARY"
    BY <1>2 DEF AddBackup, Running
  <2>3. CASE s = "INSERTING_BACKUP"
    BY <2>1, <2>2, <2>3, Unnoticed DEF Running
  <2>4. CASE s = "BACKUP"
    <3>1. /\ q \in CompleteIn(state) /\ l \notin CompleteIn(state)
          /\ CompleteIn(state') = CompleteIn(state) \cup {l}
      BY <2>1, <2>2, <2>4 DEF CompleteIn, Running
    <3>2. \A p \in Locations : state[p] = "PRIMARY" => p = q
      BY <2>2 DEF IInv, AtMostOnePrimary, IsPrimary
    <3>3. \A p \in Locations : state'[p] = "PRIMARY" <=> state[p] = "PRIMARY"
      BY <2>1, <2>2, <2>4 DEF Running
    <3>4. PrimaryIn(state) = q /\ PrimaryIn(state') = q
      BY <2>2, <3>2, <3>3, PrimaryInFact
    <3>5. Service!Join(l)
      BY <3>1, <3>4, Mapping DEF Service!Join
    <3> QED BY <3>5 DEF Service!Next
  <2> QED BY <1>2, <2>3, <2>4 DEF AddBackup
<1> QED BY <1>1, <1>2, AddMemberCases

\* A failure or a withdrawal of a complete location is a Leave, with the
\* elected one in its place if it was the primary.
LEMMA LeftRefines ==
    ASSUME IInv, NEW l \in Locations, NEW s \in Withdrawn, Left(l, Successor(l), s)
    PROVE  Service!Next \/ UNCHANGED Service!vars
<1> DEFINE e == Successor(l)
<1>a. TypeOK /\ NoLocation \notin Locations
  BY ConstantsAssumption DEF IInv, Base
<1>b. /\ e \in Locations \cup {NoLocation}
      /\ e # NoLocation => state[l] = "PRIMARY" /\ e \in Peers \ {l} /\ state[e] = "BACKUP"
      /\ IsPrimary(l) /\ e = NoLocation => \A p \in Peers \ {l} : state[p] # "BACKUP"
  BY <1>a, SuccessorFact, SuccessorOfPrimary
<1>c. \A p \in Locations :
         state'[p] = IF p = l THEN s ELSE IF p = e THEN "PRIMARY" ELSE state[p]
  BY DEF Left
<1>d. s \notin Running /\ s # "PRIMARY"
  BY DEF Withdrawn, Running
<1> HIDE DEF e
<1>e. e \in Locations => state[e] \in Running
  BY <1>a, <1>b DEF Running
<1>1. CASE state[l] \notin Running
  <2>1. e = NoLocation /\ state[l] # "PRIMARY"
    BY <1>1, <1>b DEF Running
  <2>2. \A p \in Locations \ {l} : state'[p] = state[p]
    BY <1>a, <1>c, <2>1
  <2> QED BY <1>1, <1>c, <1>d, <2>1, <2>2, Unnoticed
<1>2. CASE state[l] \in Running
  <2>1. l \in CompleteIn(state) /\ CompleteIn(state') = CompleteIn(state) \ {l}
    BY <1>2, <1>c, <1>d, <1>e DEF CompleteIn, Running
  <2>2. CASE state[l] = "PRIMARY"
    <3>1. \A p \in Locations : state[p] = "PRIMARY" => p = l
      BY <2>2 DEF IInv, AtMostOnePrimary, IsPrimary
    <3>2. PrimaryIn(state) = l
      BY <2>2, <3>1, PrimaryInFact
    <3>3. CASE e # NoLocation
      <4>1. e \in Locations /\ e # l /\ state'[e] = "PRIMARY"
        BY <1>b, <1>c, <3>3
      <4>2. \A p \in Locations : state'[p] = "PRIMARY" => p = e
        BY <1>c, <1>d, <3>1
      <4>3. PrimaryIn(state') = e
        BY <4>1, <4>2, PrimaryInFact
      <4>4. e \in CompleteIn(state')
        BY <4>1 DEF CompleteIn, Running
      <4>5. Service!Leave(l)
        BY <2>1, <3>2, <4>3, <4>4, Mapping DEF Service!Leave
      <4> QED BY <4>5 DEF Service!Next
    <3>4. CASE e = NoLocation
      <4>1. \A p \in Locations \ {l} : state[p] \notin Running
        <5>1. \A p \in Locations \ {l} : state[p] # "BACKUP"
          BY <1>b, <2>2, <3>4, FirstGroup DEF IsPrimary, Running
        <5> QED BY <3>1, <5>1 DEF Running
      <4>2. CompleteIn(state') = {}
        BY <1>a, <1>c, <1>d, <3>4, <4>1 DEF CompleteIn
      <4>3. \A q \in Locations : state'[q] # "PRIMARY"
        BY <4>2 DEF CompleteIn, Running
      <4>4. PrimaryIn(state') = NoLocation
        BY <4>3, PrimaryInFact
      <4>5. Service!Leave(l)
        BY <2>1, <3>2, <4>2, <4>4, Mapping DEF Service!Leave
      <4> QED BY <4>5 DEF Service!Next
    <3> QED BY <3>3, <3>4
  <2>3. CASE state[l] # "PRIMARY"
    <3>1. e = NoLocation
      BY <1>b, <2>3
    <3>2. PICK q \in Locations : state[q] = "PRIMARY"
      BY <1>2, <2>3 DEF Running, IInv, Led
    <3>3. q # l /\ \A p \in Locations : state[p] = "PRIMARY" => p = q
      BY <2>3, <3>2 DEF IInv, AtMostOnePrimary, IsPrimary
    <3>4. \A p \in Locations : state'[p] = "PRIMARY" <=> state[p] = "PRIMARY"
      BY <1>a, <1>c, <1>d, <2>3, <3>1
    <3>5. PrimaryIn(state) = q /\ PrimaryIn(state') = q
      BY <3>2, <3>3, <3>4, PrimaryInFact
    <3>6. Service!Leave(l)
      BY <2>1, <3>3, <3>5, Mapping DEF Service!Leave
    <3> QED BY <3>6 DEF Service!Next
  <2> QED BY <2>2, <2>3
<1> QED BY <1>1, <1>2

\* The replication manager implements ReplicatedService: as soon as a location
\* is complete there is one primary, it is complete, and when it goes another
\* complete one takes over in the same step, if there is one.
THEOREM ImplementsReplicatedService ==
    ASSUME InitialisationSucceeds
    PROVE  Spec => ImplementsService
<1>1. Init => Service!Init
  <2> SUFFICES ASSUME Init PROVE Service!Init
    OBVIOUS
  <2>1. \A l \in Locations : state[l] = "INITIAL"
    BY DEF Init
  <2>2. CompleteIn(state) = {} /\ PrimaryIn(state) = NoLocation
    BY <2>1, PrimaryInFact DEF CompleteIn, Running
  <2> QED BY <2>2, Mapping DEF Service!Init
<1>2. IInv /\ [Next]_vars => [Service!Next]_(Service!vars)
  <2> SUFFICES ASSUME IInv, [Next]_vars
               PROVE  Service!Next \/ UNCHANGED Service!vars
    OBVIOUS
  <2>1. ASSUME UNCHANGED state
        PROVE  UNCHANGED Service!vars
    BY <2>1, Unnoticed
  <2>2. CASE UNCHANGED vars
    BY <2>1, <2>2 DEF vars, locationVars
  <2>3. CASE CreateObject
    BY <2>1, <2>3 DEF CreateObject
  <2>4. ASSUME NEW l \in Locations,
               Crash(l) \/ Restart(l) \/ IgnoreNotice(l) \/ SetFirstBackup(l)
        PROVE  UNCHANGED Service!vars
    BY <2>1, <2>4 DEF Crash, Restart, IgnoreNotice, SetFirstBackup, locationVars
  <2>5. ASSUME NEW l \in Locations, RegisterLocation(l)
        PROVE  UNCHANGED Service!vars
    <3>1. \A p \in Locations : state'[p] = IF p = l THEN "INITIAL" ELSE state[p]
      BY <2>5 DEF RegisterLocation, IInv, Base, TypeOK
    <3>2. state[l] \in {"INITIAL", "FAILED"}
      BY <2>5 DEF RegisterLocation
    <3> QED BY <3>1, <3>2, Unnoticed DEF Running
  <2>6. ASSUME NEW l \in Locations, NEW g \in Groups, AddMember(l, g)
        PROVE  Service!Next \/ UNCHANGED Service!vars
    BY <2>6, AddMemberRefines
  <2>7. ASSUME NEW l \in Locations, HandleProcessFailure(l) \/ RemoveMember(l)
        PROVE  Service!Next \/ UNCHANGED Service!vars
    BY <2>7, FailureLeaves, WithdrawalLeaves, LeftRefines DEF Withdrawn
  <2> QED BY <2>2, <2>3, <2>4, <2>5, <2>6, <2>7 DEF Next
<1> QED BY <1>1, <1>2, IInvHolds, PTL DEF Spec, ImplementsService, Service!Spec
=============================================================================
