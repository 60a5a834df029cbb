----------------------- MODULE TwoPhaseCommitAtomicity -----------------------
(***************************************************************************)
(* Why the engine is atomic although its coordinator changes: what one     *)
(* location has committed no other reports as aborted, and who has not     *)
(* committed it yet still can.  Two conditions, both needed: the timers    *)
(* are longer than the delays of the network, and no record of a finished  *)
(* transaction is dropped.                                                 *)
(***************************************************************************)
EXTENDS TwoPhaseCommitRounds

-----------------------------------------------------------------------------
(* The inductive invariant, for each transaction.                          *)

\* Somebody may tell that t is committed: a survivor has loaded it, the
\* coordinator or its client knows it, or a message that will be heeded says so.
Won(t) ==
    \/ \E l \in alive : applied[l][t] > 0
    \/ get_transaction_status(t) = "COMMITTED"
    \/ caller[t] = "committed"
    \/ \E m \in net : m.tx = t /\ SaysCommitted(m) /\ Heeded(m)

\* The messages by which somebody learns that t is aborted.
SaysAborted(m) ==
    GivesUp(m) \/ (m.type = "status" /\ m.status = "ABORTED" /\ Heeded(m))

\* Somebody may tell that t is aborted.
Lost(t) ==
    \/ Refusers(t) # {}
    \/ \E m \in net : m.tx = t /\ SaysAborted(m)

\* Of a transaction that has won nobody tells that it is lost, and every backup
\* holds it or can still load it; nor will it be prepared once more.
Atomic(t) ==
    Won(t) => /\ ~Lost(t)
              /\ \A l \in Backups : t \in prepared[l] \/ applied[l][t] > 0
              /\ \A m \in net : m.tx = t => m.type # "prepare"

\* What a cohort is sent about a decision.
Decides(m) ==
    \/ m.type \in {"prepare", "commit", "rollback"}
    \/ m.type = "set_status" /\ m.status \in {"COMMITTED", "ABORTED"}

\* While a new primary recovers t no decision is on its way, it has t prepared
\* itself, and a backup that holds t does not say that it does not.
Recovering(t) ==
    /\ Backups \subseteq DOMAIN resp[t]
    /\ \A m \in net : m.tx = t => ~Decides(m)
    /\ t \in prepared[active] /\ ~(applied[active][t] > 0)
    /\ caller[t] \notin {"idle", "waiting", "committed"}
    /\ \A l \in Backups : applied[l][t] > 0 =>
          /\ resp[t][l] # "SET_TO_NOT_DONE"
          /\ \A m \in net : m.tx = t /\ m.type = "status" /\ m.loc = l
                                => m.status = "COMMITTED"

\* The records are true: a commit was loaded, a backup that has loaded t has
\* recorded it, and there is no record of a transaction not requested yet.
Recorded(t) ==
    /\ \A l \in Locations : DoneStatus(done[l], t) = "COMMITTED" =>
          t \notin prepared[l] /\ applied[l][t] > 0
    /\ \A l \in Backups : applied[l][t] > 0 => DoneStatus(done[l], t) = "COMMITTED"
    /\ caller[t] = "idle" =>
          /\ DoneStatus(cdone, t) = "UNKNOWN"
          /\ \A l \in Locations : DoneStatus(done[l], t) = "UNKNOWN"

\* The primary holds what has won, or will: its client is about to apply it, or
\* it recovers it.
PrimaryKnows(t) ==
    Won(t) /\ active # NoLocation =>
        \/ applied[active][t] > 0
        \/ caller[t] \in {"waiting", "committed"}
        \/ tstate[t] = "RECOVERING"

Sound(t) ==
    /\ Atomic(t)
    /\ tstate[t] = "RECOVERING" => Recovering(t)
    /\ Recorded(t)
    /\ PrimaryKnows(t)

SInv == \A t \in Tx : Sound(t)

-----------------------------------------------------------------------------
(* Where the locations are.                                                *)
LEMMA WhereFact ==
    ASSUME IInv
    PROVE  /\ alive \subseteq Locations
           /\ Backups \subseteq alive /\ Backups \subseteq Locations
           /\ active # NoLocation => active \in alive /\ active \in Locations
           /\ NoLocation \notin Locations
           /\ \A l \in alive : l \in Backups \/ l = active
BY ConstantsAssumption DEF IInv, TypeOK, Backups, Coordinated

(* Only what a coordinator has decided to commit can win.                  *)
LEMMA NotWon ==
    IInv => \A t \in Tx : "COMMITTED" \notin decided[t] => ~Won(t)
<1> SUFFICES ASSUME IInv, NEW t \in Tx, Won(t)
             PROVE  "COMMITTED" \in decided[t]
    OBVIOUS
<1>1. alive \subseteq Locations  BY WhereFact
<1> QED  BY <1>1, StatusFact
         DEF Won, IInv, CommitsDecided, OnlyCommittedIsApplied

\* Nor can it in the next state.
LEMMA NotWonNext == (IInv => \A t \in Tx : "COMMITTED" \notin decided[t] => ~Won(t))'
BY NotWon, PTL

\* What everybody knows of t stays as it is; a backup that holds t is still
\* heard when the primary recovers it.
Kept(t) ==
    /\ UNCHANGED <<alive, active>>
    /\ tstate'[t] = tstate[t] /\ caller'[t] = caller[t]
    /\ DoneStatus(cdone', t) = DoneStatus(cdone, t)
    /\ DOMAIN resp'[t] \subseteq DOMAIN resp[t]
    /\ tstate[t] = "RECOVERING" =>
          \A l \in Backups :
              /\ l \in DOMAIN resp'[t]
              /\ applied[l][t] > 0 => resp'[t][l] # "SET_TO_NOT_DONE"

\* It does when the coordinator does nothing.
LEMMA KeptFact ==
    ASSUME SInv, UNCHANGED <<coordVars, alive, active>>
    PROVE  \A t \in Tx : Kept(t)
BY DEF Kept, coordVars, SInv, Sound, Recovering

KeptAt(l, t) ==
    /\ t \in prepared'[l] <=> t \in prepared[l]
    /\ applied'[l][t] > 0 <=> applied[l][t] > 0
    /\ DoneStatus(done'[l], t) = DoneStatus(done[l], t)

\* A message that tells no more than is known.
Harmless(m) ==
    /\ m.type = "prepare" => ~Won(m.tx)
    /\ SaysCommitted(m) /\ Heeded(m) => Won(m.tx)
    /\ SaysAborted(m) => Lost(m.tx)
    /\ tstate[m.tx] = "RECOVERING" =>
          /\ ~Decides(m)
          /\ m.type = "status" /\ m.loc \in Backups /\ applied[m.loc][m.tx] > 0
                => m.status = "COMMITTED"

(* Of a transaction about which only such messages are sent nothing has to *)
(* be proved again.                                                        *)
LEMMA KeptSound ==
    ASSUME IInv, NEW t \in Tx, Sound(t), Kept(t),
           \A l \in Locations : KeptAt(l, t),
           \A m \in net' : m.tx = t => m \in net \/ Harmless(m)
    PROVE  Sound(t)'
<1>0. /\ alive \subseteq Locations
      /\ Backups \subseteq alive /\ Backups \subseteq Locations
      /\ active # NoLocation => active \in alive /\ active \in Locations
      BY WhereFact
<1>1. /\ alive' = alive /\ active' = active /\ Backups' = Backups
      /\ get_transaction_status(t)' = get_transaction_status(t)
      /\ \A m : m.tx = t => (Heeded(m)' => Heeded(m))
      BY DEF Kept, Backups, get_transaction_status, Heeded
<1>2. /\ \A m : SaysCommitted(m)' <=> SaysCommitted(m)
      /\ \A m : GivesUp(m)' <=> GivesUp(m)
      /\ \A m : Decides(m)' <=> Decides(m)
      /\ \A m : m.tx = t => (SaysAborted(m)' => SaysAborted(m))
      BY <1>1 DEF SaysCommitted, GivesUp, Decides, SaysAborted
<1>3. Won(t)' => Won(t)
  <2> SUFFICES ASSUME Won(t)' PROVE Won(t)
      OBVIOUS
  <2>1. CASE \E l \in alive' : applied'[l][t] > 0
        BY <1>0, <1>1, <2>1 DEF Won, KeptAt
  <2>2. CASE get_transaction_status(t)' = "COMMITTED" \/ caller'[t] = "committed"
        BY <1>1, <2>2 DEF Won, Kept
  <2>3. CASE \E m \in net' : m.tx = t /\ SaysCommitted(m) /\ Heeded(m)'
        BY <1>1, <2>3 DEF Won, Harmless
  <2> QED  BY <1>2, <2>1, <2>2, <2>3 DEF Won
<1>4. Lost(t)' => Lost(t)
  <2>1. Refusers(t)' = Refusers(t)
        BY <1>0, <1>1 DEF Refusers, KeptAt
  <2> QED  BY <1>2, <2>1 DEF Lost, Harmless
<1>5. Atomic(t)'
      BY <1>0, <1>1, <1>3, <1>4 DEF Sound, Atomic, KeptAt, Harmless
<1>6. tstate'[t] = "RECOVERING" => Recovering(t)'
  <2> SUFFICES ASSUME tstate[t] = "RECOVERING" PROVE Recovering(t)'
      BY DEF Kept
  <2>1. Recovering(t)  BY DEF Sound
  <2>2. active \in Locations
        BY <1>0 DEF IInv, Coordinated
  <2>3. \A m \in net' : m.tx = t => ~Decides(m)
        BY <2>1 DEF Recovering, Harmless
  <2>4. ASSUME NEW l \in Backups, applied'[l][t] > 0
        PROVE  /\ resp'[t][l] # "SET_TO_NOT_DONE"
               /\ \A m \in net' : m.tx = t /\ m.type = "status" /\ m.loc = l
                                      => m.status = "COMMITTED"
    <3>1. applied[l][t] > 0  BY <1>0, <2>4 DEF KeptAt
    <3>2. resp'[t][l] # "SET_TO_NOT_DONE"  BY <3>1 DEF Kept
    <3> QED  BY <2>1, <3>1, <3>2 DEF Recovering, Harmless
  <2>5. t \in prepared'[active] /\ ~(applied'[active][t] > 0)
        BY <2>1, <2>2 DEF Recovering, KeptAt
  <2>6. /\ \A l \in Backups : l \in DOMAIN resp'[t]
        /\ caller'[t] \notin {"idle", "waiting", "committed"}
        BY <2>1 DEF Recovering, Kept
  <2> QED  BY <1>1, <1>2, <2>3, <2>4, <2>5, <2>6 DEF Recovering
<1>7. Recorded(t)'
      BY <1>0, <1>1 DEF Sound, Recorded, Kept, KeptAt
<1>8. PrimaryKnows(t)'
      BY <1>0, <1>1, <1>3 DEF Sound, PrimaryKnows, Kept, KeptAt
<1> QED  BY <1>5, <1>6, <1>7, <1>8 DEF Sound

-----------------------------------------------------------------------------
(* The cohorts.                                                            *)

\* What a cohort says when it has dealt with a request.
Reply(m) == m.type \in {"yes", "no", "end"}

\* t ends at location l, as it does elsewhere, or is prepared there.
Ending(l, t) ==
    \/ /\ Won(t) /\ t \in prepared[l]
       /\ t \notin prepared'[l] /\ applied'[l][t] > 0
       /\ l \in Backups => DoneStatus(done'[l], t) = "COMMITTED"
       /\ DoneStatus(done'[l], t) \in {"COMMITTED", "ABORTED"}
    \/ /\ ~Won(t)
       /\ applied'[l][t] > 0 <=> applied[l][t] > 0
       /\ \/ DoneStatus(done'[l], t) = "ABORTED"
          \/ DoneStatus(done'[l], t) = DoneStatus(done[l], t)

(* That keeps the invariant for t.                                         *)
LEMMA EndingSound ==
    ASSUME IInv, NEW t \in Tx, Sound(t), Kept(t), NEW l \in alive,
           \A k \in Locations \ {l} : KeptAt(k, t), Ending(l, t),
           \A m \in net' : m.tx = t => m \in net \/ Reply(m),
           tstate[t] # "RECOVERING", caller[t] # "idle"
    PROVE  Sound(t)'
<1>0. /\ alive \subseteq Locations
      /\ Backups \subseteq alive /\ Backups \subseteq Locations
      /\ active # NoLocation => active \in alive /\ active \in Locations
      BY WhereFact
<1>1. /\ alive' = alive /\ active' = active /\ Backups' = Backups
      /\ get_transaction_status(t)' = get_transaction_status(t)
      /\ \A m : m.tx = t => (Heeded(m)' => Heeded(m))
      BY DEF Kept, Backups, get_transaction_status, Heeded
<1>2. /\ \A m : SaysCommitted(m)' <=> SaysCommitted(m)
      /\ \A m : m.tx = t => (SaysAborted(m)' => SaysAborted(m))
      /\ \A m : Reply(m) => ~SaysCommitted(m) /\ ~SaysAborted(m) /\ m.type # "prepare"
      BY <1>1 DEF SaysCommitted, GivesUp, SaysAborted, Reply
<1>3. \A k \in Locations : applied[k][t] > 0 => applied'[k][t] > 0
      BY DEF KeptAt, Ending
<1>4. Won(t)' => Won(t)
  <2> SUFFICES ASSUME Won(t)', ~Won(t) PROVE FALSE
      OBVIOUS
  <2>1. \A k \in Locations : applied'[k][t] > 0 => applied[k][t] > 0
        BY DEF KeptAt, Ending
  <2>2. ~\E k \in alive' : applied'[k][t] > 0
        BY <1>0, <1>1, <2>1 DEF Won
  <2>3. ~(get_transaction_status(t)' = "COMMITTED" \/ caller'[t] = "committed")
        BY <1>1 DEF Won, Kept
  <2>4. ~\E m \in net' : m.tx = t /\ SaysCommitted(m) /\ Heeded(m)'
        BY <1>1, <1>2 DEF Won
  <2> QED  BY <1>2, <2>2, <2>3, <2>4 DEF Won
<1>5. Atomic(t)'
  <2> SUFFICES ASSUME Won(t)
               PROVE  /\ ~Lost(t)'
                      /\ \A k \in Backups : t \in prepared'[k] \/ applied'[k][t] > 0
                      /\ \A m \in net' : m.tx = t => m.type # "prepare"
      BY <1>1, <1>4 DEF Atomic
  <2>1. /\ ~Lost(t)
        /\ \A k \in Backups : t \in prepared[k] \/ applied[k][t] > 0
        /\ \A m \in net : m.tx = t => m.type # "prepare"
        BY DEF Sound, Atomic
  <2>2. applied'[l][t] > 0 /\ (l \in Backups => DoneStatus(done'[l], t) = "COMMITTED")
        BY DEF Ending
  <2>3. Refusers(t)' \subseteq Refusers(t)
        BY <1>0, <1>1, <2>2 DEF Refusers, KeptAt
  <2>4. ~Lost(t)'
        BY <1>2, <2>1, <2>3 DEF Lost
  <2>5. \A k \in Backups : t \in prepared'[k] \/ applied'[k][t] > 0
        BY <1>0, <1>3, <2>1, <2>2 DEF KeptAt
  <2> QED  BY <1>2, <2>1, <2>4, <2>5
<1>6. Recorded(t)'
  <2>1. ASSUME NEW k \in Locations, DoneStatus(done'[k], t) = "COMMITTED"
        PROVE  t \notin prepared'[k] /\ applied'[k][t] > 0
    <3>1. CASE k # l
          BY <2>1, <3>1 DEF KeptAt, Sound, Recorded
    <3>2. CASE k = l /\ Won(t)  BY <3>2 DEF Ending
    <3>3. CASE k = l /\ ~Won(t)
      <4>1. DoneStatus(done[l], t) = "COMMITTED"  BY <2>1, <3>3 DEF Ending
      <4>2. applied[l][t] > 0  BY <1>0, <4>1 DEF Sound, Recorded
      <4> QED  BY <3>3, <4>2 DEF Won
    <3> QED  BY <3>1, <3>2, <3>3
  <2>2. ASSUME NEW k \in Backups, applied'[k][t] > 0
        PROVE  DoneStatus(done'[k], t) = "COMMITTED"
    <3>1. CASE k # l
          BY <1>0, <2>2, <3>1 DEF KeptAt, Sound, Recorded
    <3>2. CASE k = l /\ Won(t)  BY <2>2, <3>2 DEF Ending
    <3>3. CASE k = l /\ ~Won(t)  BY <2>2, <3>3 DEF Ending, Won
    <3> QED  BY <3>1, <3>2, <3>3
  <2> QED  BY <1>1, <2>1, <2>2 DEF Recorded, Kept
<1>7. PrimaryKnows(t)'
      BY <1>0, <1>1, <1>3, <1>4 DEF Sound, PrimaryKnows, Kept
<1> QED  BY <1>5, <1>6, <1>7 DEF Sound, Kept

(* The end of t at location l, with the outcome s that it was told.        *)
LEMMA ResolveEffect ==
    ASSUME IInv, RecordsKept, NEW l \in alive, NEW t \in Tx, NEW s,
           Resolve(l, t, s), t \in prepared[l], s \in {"COMMITTED", "ABORTED"}
    PROVE  /\ \A k \in Locations, u \in Tx : k # l \/ u # t => KeptAt(k, u)
           /\ t \notin prepared'[l]
           /\ s = "COMMITTED" => applied'[l][t] > 0
           /\ s = "ABORTED" => (applied'[l][t] > 0 <=> applied[l][t] > 0)
           /\ DoneStatus(done'[l], t) =
                 IF s = "COMMITTED" /\ validate(store[l], change[t])
                 THEN "COMMITTED" ELSE "ABORTED"
<1> DEFINE d == IF s = "COMMITTED" /\ validate(store[l], change[t])
                THEN "COMMITTED" ELSE "ABORTED"
<1>0. l \in Locations  BY WhereFact
<1>1. /\ Finish(l, t, d)
      /\ s = "COMMITTED" => Load(l, t, change[t])
      /\ s = "ABORTED" => UNCHANGED dataVars
      BY DEF Resolve, commit_i, rollback_i
<1>2. d \in Statuses  BY DEF Statuses
<1> HIDE DEF d
<1>3. /\ \A k \in Locations : prepared'[k] =
            IF k = l THEN prepared[k] \ {t} ELSE prepared[k]
      /\ \A k \in Locations : done'[k] =
            IF k = l THEN SaveTrans(done[k], t, d) ELSE done[k]
      BY <1>1 DEF Finish, IInv, TypeOK
<1>4. \A u \in Tx : DoneStatus(done'[l], u) = IF u = t THEN d
                                              ELSE DoneStatus(done[l], u)
  <2>1. done[l] \in Seq(Records) /\ Len(done[l]) < MaxDone
        BY <1>0 DEF IInv, TypeOK, RecordsKept
  <2> QED  BY <1>0, <1>2, <1>3, <2>1, SaveTransStatus
<1>5. /\ s = "COMMITTED" => LoadedOnly(l, t)
      /\ s = "ABORTED" => applied' = applied
      BY <1>0, <1>1, AppliedFact DEF IInv, dataVars
<1>6. ASSUME NEW k \in Locations, NEW u \in Tx, k # l \/ u # t
      PROVE  KeptAt(k, u)
  <2>1. u \in prepared'[k] <=> u \in prepared[k]  BY <1>3, <1>6
  <2>2. applied'[k][u] = applied[k][u]  BY <1>5, <1>6 DEF LoadedOnly
  <2>3. DoneStatus(done'[k], u) = DoneStatus(done[k], u)
        BY <1>3, <1>4, <1>6
  <2> QED  BY <2>1, <2>2, <2>3 DEF KeptAt
<1>7. t \notin prepared'[l]  BY <1>0, <1>3
<1>8. s = "COMMITTED" => applied'[l][t] > 0  BY <1>5 DEF LoadedOnly
<1>9. s = "ABORTED" => (applied'[l][t] > 0 <=> applied[l][t] > 0)  BY <1>5
<1>10. DoneStatus(done'[l], t) = d  BY <1>4
<1> QED  BY <1>6, <1>7, <1>8, <1>9, <1>10 DEF d

\* t ends at location l, if it has it prepared, as others know that it does.
Resolved(l, t) ==
    /\ l \in alive /\ t \in Tx
    /\ \E s : /\ Resolve(l, t, s)
              /\ s = "COMMITTED" => Won(t)
              /\ s = "ABORTED" => Lost(t)
              /\ s \in {"COMMITTED", "ABORTED"} => tstate[t] # "RECOVERING"

(* Such an end keeps the invariant.                                        *)
LEMMA ResolveSound ==
    ASSUME IInv, SInv, RecordsKept, NEW l, NEW t, Resolved(l, t),
           UNCHANGED <<coordVars, alive, active>>,
           \A m \in net' : m \in net \/ (m.tx = t /\ Reply(m))
    PROVE  SInv'
<1> PICK s : /\ Resolve(l, t, s)
             /\ s = "COMMITTED" => Won(t)
             /\ s = "ABORTED" => Lost(t)
             /\ s \in {"COMMITTED", "ABORTED"} => tstate[t] # "RECOVERING"
    BY DEF Resolved
<1>0. l \in alive /\ t \in Tx /\ \A u \in Tx : Kept(u)
      BY KeptFact DEF Resolved
<1>1. CASE t \in prepared[l] /\ s \in {"COMMITTED", "ABORTED"}
  <2>1. /\ \A k \in Locations, u \in Tx : k # l \/ u # t => KeptAt(k, u)
        /\ t \notin prepared'[l]
        /\ s = "COMMITTED" => applied'[l][t] > 0
        /\ s = "ABORTED" => (applied'[l][t] > 0 <=> applied[l][t] > 0)
        /\ DoneStatus(done'[l], t) =
                 IF s = "COMMITTED" /\ validate(store[l], change[t])
                 THEN "COMMITTED" ELSE "ABORTED"
        BY <1>0, <1>1, ResolveEffect
  <2>2. ASSUME NEW u \in Tx, u # t
        PROVE  Sound(u)'
        BY <1>0, <2>1, <2>2, KeptSound DEF SInv
  <2>3. Sound(t)'
    <3>1. l \in Locations /\ (l \in Backups => validate(store[l], change[t]))
          BY <1>0, <1>1, WhereFact DEF IInv, CohortsReady
    <3>2. Ending(l, t)
      <4>1. CASE s = "COMMITTED"  BY <1>1, <2>1, <3>1, <4>1 DEF Ending
      <4>2. CASE s = "ABORTED"
        <5>1. ~Won(t)  BY <1>0, <4>2 DEF SInv, Sound, Atomic
        <5> QED  BY <2>1, <4>2, <5>1 DEF Ending
      <4> QED  BY <1>1, <4>1, <4>2
    <3>3. caller[t] # "idle"
          BY <1>0, <1>1, <3>1 DEF IInv, Coordinated, Unborn
    <3> QED  BY <1>0, <1>1, <2>1, <3>1, <3>2, <3>3, EndingSound DEF SInv
  <2> QED  BY <2>2, <2>3 DEF SInv
<1>2. CASE ~(t \in prepared[l] /\ s \in {"COMMITTED", "ABORTED"})
  <2>1. UNCHANGED <<cohortVars, dataVars>>
        BY <1>2 DEF Resolve, commit_i, rollback_i
  <2>2. \A k \in Locations, u \in Tx : KeptAt(k, u)
        BY <2>1 DEF KeptAt, cohortVars, dataVars
  <2>3. \A m : Reply(m) => Harmless(m)
        BY DEF Reply, Harmless, SaysCommitted, SaysAborted, GivesUp, Decides
  <2> QED  BY <1>0, <2>2, <2>3, KeptSound DEF SInv
<1> QED  BY <1>1, <1>2

-----------------------------------------------------------------------------
(* One lemma for every action of a cohort.  A prepare changes nothing but   *)
(* what the cohort has prepared and recorded of its transaction,           *)
LEMMA PrepareEffect ==
    ASSUME IInv, RInv, RecordsKept, NEW m \in net, prepare_i(m)
    PROVE  /\ applied' = applied
           /\ \A k \in Locations, u \in Tx : k # m.loc \/ u # m.tx => KeptAt(k, u)
           /\ \/ DoneStatus(done'[m.loc], m.tx) = "ABORTED"
              \/ DoneStatus(done'[m.loc], m.tx) = DoneStatus(done[m.loc], m.tx)
<1> DEFINE l == m.loc
           t == m.tx
<1>1. t \in Tx /\ l \in alive /\ l \in Locations
      BY MessageFact, WhereFact DEF RInv, Addressed, prepare_i, Requests
<1>2. applied' = applied  BY DEF prepare_i, dataVars
<1>3. CASE MayPrepare(l, t)
  <2>1. done' = done /\ prepared' = [prepared EXCEPT ![l] = @ \cup {t}]
        BY <1>3 DEF prepare_i
  <2>2. \A k \in Locations : prepared'[k] =
            IF k = l THEN prepared[k] \cup {t} ELSE prepared[k]
        BY <2>1 DEF IInv, TypeOK
  <2> QED  BY <1>2, <2>1, <2>2 DEF KeptAt
<1>4. CASE ~MayPrepare(l, t)
  <2>1. prepared' = prepared /\ done' = [done EXCEPT ![l] = SaveTrans(@, t, "ABORTED")]
        BY <1>4 DEF prepare_i
  <2>2. \A k \in Locations : done'[k] =
            IF k = l THEN SaveTrans(done[k], t, "ABORTED") ELSE done[k]
        BY <2>1 DEF IInv, TypeOK
  <2>3. done[l] \in Seq(Records) /\ Len(done[l]) < MaxDone /\ "ABORTED" \in Statuses
        BY <1>1 DEF IInv, TypeOK, RecordsKept, Statuses
  <2>4. \A u \in Tx : DoneStatus(SaveTrans(done[l], t, "ABORTED"), u) =
                          IF u = t THEN "ABORTED" ELSE DoneStatus(done[l], u)
        BY <1>1, <2>3, SaveTransStatus
  <2> HIDE DEF l, t
  <2>5. \A k \in Locations, u \in Tx : k # l \/ u # t =>
            DoneStatus(done'[k], u) = DoneStatus(done[k], u)
        BY <2>2, <2>4
  <2>6. DoneStatus(done'[l], t) = "ABORTED"  BY <1>1, <2>2, <2>4
  <2>7. \A k \in Locations, u \in Tx : k # l \/ u # t => KeptAt(k, u)
        BY <1>2, <2>1, <2>5 DEF KeptAt
  <2> QED  BY <1>2, <2>6, <2>7 DEF l, t
<1> QED  BY <1>3, <1>4

\* and while it is on its way nobody has won.
LEMMA PrepareLoses ==
    ASSUME IInv, RInv, SInv, NEW m \in net, m.type = "prepare"
    PROVE  /\ m.tx \in Tx /\ m.loc \in Backups /\ m.loc \in alive
           /\ ~Won(m.tx) /\ tstate[m.tx] # "RECOVERING"
<1>1. m.tx \in Tx /\ m.loc \in Backups /\ m.loc \in alive
      BY MessageFact, WhereFact DEF RInv, Addressed, Requests
<1> QED  BY <1>1 DEF SInv, Sound, Atomic, Recovering, Decides

\* So it keeps the invariant.
LEMMA PrepareSound ==
    ASSUME IInv, RInv, SInv, RecordsKept, NEW m \in net, prepare_i(m)
    PROVE  SInv'
<1> DEFINE l == m.loc
           t == m.tx
<1>1. /\ t \in Tx /\ l \in alive /\ ~Won(t) /\ tstate[t] # "RECOVERING"
      /\ caller[t] # "idle"
      BY MessageFact, PrepareLoses DEF prepare_i
<1>2. \A u \in Tx : Kept(u)
      BY KeptFact DEF prepare_i, envVars
<1>3. \A x \in net' : x \in net \/ (x.tx = t /\ Reply(x))
      BY <1>1, MessageFact, AnswerType DEF prepare_i, Reply, Answers, Statuses
<1>4. /\ \A k \in Locations, u \in Tx : k # l \/ u # t => KeptAt(k, u)
      /\ Ending(l, t)
      BY <1>1, PrepareEffect DEF Ending
<1> HIDE DEF l, t
<1>5. Sound(t)'
      BY <1>1, <1>2, <1>3, <1>4, EndingSound DEF SInv
<1>6. ASSUME NEW u \in Tx, u # t
      PROVE  Sound(u)'
      BY <1>2, <1>3, <1>4, <1>6, KeptSound DEF SInv
<1> QED  BY <1>5, <1>6 DEF SInv

\* A decision on its way says who has won.
LEMMA DecisionResolves ==
    ASSUME IInv, RInv, SInv, NEW m \in net,
           commit(m) \/ rollback(m) \/ set_transaction_status_i(m)
    PROVE  /\ Resolved(m.loc, m.tx)
           /\ UNCHANGED <<coordVars, change, envVars>>
           /\ \A x \in net' : x \in net \/ (x.tx = m.tx /\ Reply(x))
<1>1. /\ m.tx \in Tx /\ m.loc \in alive /\ m.loc \in Locations
      BY MessageFact, WhereFact
         DEF RInv, Addressed, commit, rollback, set_transaction_status_i, Requests
<1>2. Recovering(m.tx) => ~Decides(m)  BY DEF Recovering
<1>3. tstate[m.tx] = "RECOVERING" => ~Decides(m)
      BY <1>1, <1>2 DEF SInv, Sound
<1>4. ASSUME commit(m) PROVE Resolved(m.loc, m.tx)
  <2>1. Resolve(m.loc, m.tx, "COMMITTED") /\ m.type = "commit"
        BY <1>4 DEF commit, Resolve
  <2>2. Won(m.tx)  BY <2>1 DEF Won, SaysCommitted, Heeded
  <2>3. tstate[m.tx] # "RECOVERING"  BY <1>3, <2>1 DEF Decides
  <2> QED  BY <1>1, <2>1, <2>2, <2>3 DEF Resolved
<1>5. ASSUME rollback(m) PROVE Resolved(m.loc, m.tx)
  <2>1. Resolve(m.loc, m.tx, "ABORTED") /\ m.type = "rollback"
        BY <1>5 DEF rollback, Resolve
  <2>2. Lost(m.tx)  BY <2>1 DEF Lost, SaysAborted, GivesUp
  <2>3. tstate[m.tx] # "RECOVERING"  BY <1>3, <2>1 DEF Decides
  <2> QED  BY <1>1, <2>1, <2>2, <2>3 DEF Resolved
<1>6. ASSUME set_transaction_status_i(m) PROVE Resolved(m.loc, m.tx)
  <2>1. Resolve(m.loc, m.tx, m.status) /\ m.type = "set_status"
        BY <1>6 DEF set_transaction_status_i
  <2>2. /\ m.status = "COMMITTED" => Won(m.tx)
        /\ m.status = "ABORTED" => Lost(m.tx)
        BY <2>1 DEF Won, SaysCommitted, Heeded, Lost, SaysAborted, GivesUp
  <2>3. m.status \in {"COMMITTED", "ABORTED"} => tstate[m.tx] # "RECOVERING"
        BY <1>3, <2>1 DEF Decides
  <2> QED  BY <1>1, <2>1, <2>2, <2>3 DEF Resolved
<1>7. UNCHANGED <<coordVars, change, envVars>>
      BY DEF commit, rollback, set_transaction_status_i
<1>8. \A x \in net' : x \in net \/ (x.tx = m.tx /\ Reply(x))
      BY <1>1, AnswerType
         DEF commit, rollback, set_transaction_status_i, Reply, Answers, Statuses
<1> QED  BY <1>4, <1>5, <1>6, <1>7, <1>8

\* So a decision that is delivered keeps the invariant.
LEMMA DecisionSound ==
    ASSUME IInv, RInv, SInv, RecordsKept, NEW m \in net,
           commit(m) \/ rollback(m) \/ set_transaction_status_i(m)
    PROVE  SInv'
BY DecisionResolves, ResolveSound DEF envVars

\* A step that changes no data, and sends no more than what is known.
LEMMA IdleSound ==
    ASSUME IInv, SInv,
           UNCHANGED <<coordVars, alive, active, prepared, done, applied>>,
           \A x \in net' : x \in net \/ Harmless(x)
    PROVE  SInv'
<1>1. \A u \in Tx : Kept(u) /\ \A k \in Locations : KeptAt(k, u)
      BY KeptFact DEF KeptAt
<1> QED  BY <1>1, KeptSound DEF SInv

\* A cohort answers a new primary with what it knows.
LEMMA GetStatusSound ==
    ASSUME IInv, RInv, SInv, NEW m \in net, get_transaction_status_i(m)
    PROVE  SInv'
<1> DEFINE l == m.loc
           t == m.tx
           s == IF t \in prepared[l] THEN "PREPARED" ELSE DoneStatus(done[l], t)
<1>1. t \in Tx /\ l \in Backups /\ l \in alive /\ l \in Locations
      BY MessageFact, WhereFact
         DEF RInv, Addressed, get_transaction_status_i, Requests
<1>2. s = "COMMITTED" => Won(t)
      BY <1>1 DEF SInv, Sound, Recorded, Won
<1>3. s = "ABORTED" => Lost(t)
      BY <1>1 DEF Lost, Refusers
<1>4. applied[l][t] > 0 => s = "COMMITTED"
      BY <1>1 DEF SInv, Sound, Recorded
<1>5. /\ UNCHANGED <<coordVars, alive, active, prepared, done, applied>>
      /\ net' = (net \ {m}) \cup Answer("status", t, l, s)
      BY DEF get_transaction_status_i, envVars, cohortVars, dataVars
<1> HIDE DEF s, l, t
<1>6. ASSUME NEW x \in Answer("status", t, l, s)
      PROVE  Harmless(x)
  <2>1. x = Message("status", t, l, 0, s)  BY DEF Answer
  <2>2. x.type = "status" /\ x.tx = t /\ x.loc = l /\ x.status = s
        BY <2>1 DEF Message
  <2> QED  BY <1>2, <1>3, <1>4, <2>2
           DEF Harmless, SaysCommitted, SaysAborted, GivesUp, Decides
<1> QED  BY <1>5, <1>6, IdleSound

\* The coordinator is a winner or a loser itself when it says so.
LEMMA PrimarySays ==
    ASSUME IInv, NEW t \in Tx, active # NoLocation
    PROVE  /\ get_transaction_status(t) = "COMMITTED" => Won(t)
           /\ get_transaction_status(t) = "ABORTED" => Lost(t)
           /\ tstate[t] = "RECOVERING" => get_transaction_status(t) = "UNKNOWN"
BY WhereFact DEF Won, Lost, Refusers, get_transaction_status

\* It answers the query of a cohort, and a cohort applies the answer.
LEMMA AskSound ==
    ASSUME IInv, RInv, SInv, NEW m \in net, send_get_transaction_status(m)
    PROVE  SInv'
<1> DEFINE s == get_transaction_status(m.tx)
<1>1. m.tx \in Tx /\ active # NoLocation
      BY MessageFact DEF RInv, Addressed, send_get_transaction_status, Answers
<1>2. /\ s = "COMMITTED" => Won(m.tx)
      /\ s = "ABORTED" => Lost(m.tx)
      /\ tstate[m.tx] = "RECOVERING" => s = "UNKNOWN"
      BY <1>1, PrimarySays
<1>3. /\ UNCHANGED <<coordVars, alive, active, prepared, done, applied>>
      /\ net' = (net \ {m}) \cup
              {Message("set_status", m.tx, l, 0, s) : l \in alive \ {active}}
      BY DEF send_get_transaction_status, envVars, cohortVars, dataVars
<1> HIDE DEF s
<1>4. ASSUME NEW l \in alive \ {active}
      PROVE  Harmless(Message("set_status", m.tx, l, 0, s))
  <2> DEFINE x == Message("set_status", m.tx, l, 0, s)
  <2>1. x.type = "set_status" /\ x.tx = m.tx /\ x.status = s
        BY DEF Message
  <2> HIDE DEF x
  <2>2. Harmless(x)
        BY <1>2, <2>1 DEF Harmless, SaysCommitted, SaysAborted, GivesUp, Decides
  <2> QED  BY <2>2 DEF x
<1> QED  BY <1>3, <1>4, IdleSound

\* A timer expires: the cohort learns what the coordinator says, or asks.
LEMMA TimerResolves ==
    ASSUME IInv, RInv, SInv, NEW l \in Locations, NEW t \in Tx, on_timeout(l, t)
    PROVE  /\ UNCHANGED <<coordVars, change, envVars>>
           /\ \/ Resolved(l, t) /\ net' = net
              \/ /\ UNCHANGED <<prepared, done, dataVars>>
                 /\ \A x \in net' : x \in net \/ Harmless(x)
<1> DEFINE s == IF active = NoLocation THEN "UNKNOWN"
                ELSE get_transaction_status(t)
<1>1. l \in alive /\ UNCHANGED <<coordVars, change, envVars>>
      BY DEF on_timeout
<1>2. CASE synch /\ s \in {"COMMITTED", "ABORTED"}
  <2>1. Resolve(l, t, s) /\ net' = net /\ active # NoLocation
        BY <1>2 DEF on_timeout
  <2>2. s = get_transaction_status(t)  BY <1>2
  <2>3. /\ s = "COMMITTED" => Won(t)
        /\ s = "ABORTED" => Lost(t)
        /\ tstate[t] # "RECOVERING"
        BY <1>2, <2>1, <2>2, PrimarySays
  <2> HIDE DEF s
  <2> QED  BY <1>1, <2>1, <2>3 DEF Resolved
<1>3. CASE synch /\ s \notin {"COMMITTED", "ABORTED"}
      BY <1>1, <1>3 DEF on_timeout
<1>4. CASE ~synch
  <2>1. /\ UNCHANGED <<prepared, done, dataVars>>
        /\ net' = net \cup Answer("ask_status", t, l, "UNKNOWN")
        BY <1>4 DEF on_timeout, cohortVars
  <2>2. ASSUME NEW x \in Answer("ask_status", t, l, "UNKNOWN")
        PROVE  Harmless(x)
    <3>1. x.type = "ask_status"  BY AnswerType DEF Answers, Statuses
    <3> QED  BY <3>1 DEF Harmless, SaysCommitted, SaysAborted, GivesUp, Decides
  <2> QED  BY <1>1, <2>1, <2>2
<1> QED  BY <1>2, <1>3, <1>4

\* So the timer of a cohort keeps the invariant.
LEMMA TimerSound ==
    ASSUME IInv, RInv, SInv, RecordsKept, NEW l \in Locations, NEW t \in Tx,
           on_timeout(l, t)
    PROVE  SInv'
<1>1. UNCHANGED <<coordVars, alive, active>>
      BY TimerResolves DEF envVars
<1>2. CASE Resolved(l, t) /\ net' = net
      BY <1>1, <1>2, ResolveSound
<1>3. CASE /\ UNCHANGED <<prepared, done, dataVars>>
           /\ \A x \in net' : x \in net \/ Harmless(x)
      BY <1>1, <1>3, IdleSound DEF dataVars
<1> QED  BY <1>2, <1>3, TimerResolves

-----------------------------------------------------------------------------
(* The coordinator.  What a step of it does to a transaction, and what it   *)
(* leaves alone.                                                            *)
Seen(t, rs, n, R) ==
    /\ UNCHANGED <<alive, active>> /\ Backups' = Backups /\ active # NoLocation
    /\ Stepped(t, rs[t]) /\ Answered(t, rs[t]) /\ Heard(t, rs[t])
    /\ n \subseteq net
    /\ \A m \in net' : m \in n \/ Sending(m, R)
    /\ t \in R => \A m \in net : m.tx # t
    /\ DoneStatus(cdone', t) = IF tstate[t] # "NONE" /\ tstate'[t] = "NONE"
                               THEN tstate[t] ELSE DoneStatus(cdone, t)
    /\ \A l \in Backups : KeptAt(l, t)
    /\ \A l \in Locations : /\ prepared'[l] = prepared[l] /\ done'[l] = done[l]
                            /\ applied[l][t] > 0 => applied'[l][t] > 0
    /\ \A l \in Locations : applied'[l][t] > 0 =>
          \/ applied[l][t] > 0
          \/ l = active /\ tstate[t] = "RECOVERING" /\ tstate'[t] = "COMMITTED"
    /\ decided'[t] = decided[t] \cup ({tstate'[t]} \cap {"COMMITTED", "ABORTED"})
    /\ tstate[t] \in TransactionStates
    /\ ~TimerOverlaps

\* Every handler of the coordinator makes such a step.
LEMMA SeenFact ==
    ASSUME IInv, RecordsKept, NEW rs, NEW n, NEW R, Performed(rs, n, R),
           NEW t \in Tx
    PROVE  Seen(t, rs, n, R)
<1>1. /\ CoordinatorStep(rs, n) /\ CoordinatorFrame /\ Dispatched(n, R)
      /\ Triggered(rs, n, R) /\ Heard(t, rs[t])
      /\ Stepped(t, rs[t]) /\ ~TimerOverlaps
      /\ decided'[t] = decided[t] \cup ({tstate'[t]} \cap {"COMMITTED", "ABORTED"})
      BY DEF Performed
<1>2. /\ UNCHANGED <<alive, active>> /\ Backups' = Backups /\ active # NoLocation
      /\ prepared' = prepared /\ done' = done
      /\ \A l \in Locations : applied[l][t] > 0 => applied'[l][t] > 0
      BY <1>1 DEF CoordinatorFrame, Backups, cohortVars
<1>3. Answered(t, rs[t])  BY <1>1 DEF CoordinatorStep
<1>4. /\ n \subseteq net
      /\ t \in R => \A m \in net : m.tx # t
      /\ \A l \in Locations : applied'[l][t] > 0 =>
          \/ applied[l][t] > 0
          \/ l = active /\ tstate[t] = "RECOVERING" /\ tstate'[t] = "COMMITTED"
      BY <1>1 DEF Triggered
<1>5. /\ \A m \in net' : m \in n \/ Sending(m, R)
      /\ DoneStatus(cdone', t) = IF tstate[t] # "NONE" /\ tstate'[t] = "NONE"
                                 THEN tstate[t] ELSE DoneStatus(cdone, t)
      BY <1>1 DEF Dispatched
<1>6. \A l \in Backups : l \in Locations /\ l # active
      BY WhereFact DEF Backups
<1>7. \A l \in Backups : KeptAt(l, t)
      BY <1>2, <1>4, <1>6 DEF KeptAt
<1>8. tstate[t] \in TransactionStates  BY DEF IInv, TypeOK
<1> QED  BY <1>1, <1>2, <1>3, <1>4, <1>5, <1>7, <1>8 DEF Seen

\* The records stay true.
LEMMA SeenRecorded ==
    ASSUME IInv, NEW t \in Tx, NEW rs, NEW n, NEW R, Seen(t, rs, n, R),
           Sound(t)
    PROVE  Recorded(t)'
<1>1. \A l \in Backups : l \in Locations  BY WhereFact
<1>2. caller'[t] = "idle" => /\ caller[t] = "idle" /\ tstate[t] = "NONE"
                             /\ DoneStatus(cdone', t) = DoneStatus(cdone, t)
      BY DEF Seen, Stepped, Stays, Enters, Ended, IInv, Coordinated, Unborn
<1> QED  BY <1>1, <1>2 DEF Seen, Sound, Recorded, KeptAt

\* Of a transaction that has not won there is no more to say.
LEMMA LoserSound ==
    ASSUME NEW t \in Tx, ~Won(t)', Recorded(t)', tstate'[t] # "RECOVERING"
    PROVE  Sound(t)'
BY DEF Sound, Atomic, PrimaryKnows

\* A transaction that stays in its state, whose request may be sent again.
LEMMA StaysSound ==
    ASSUME IInv, RInv, SInv, NEW t \in Tx, NEW rs, NEW n, NEW R,
           Seen(t, rs, n, R), Triggered(rs, n, R), Stays(t)
    PROVE  Sound(t)'
<1>0. /\ Sound(t) /\ tstate'[t] = tstate[t] /\ caller'[t] = caller[t]
      /\ \A l \in Backups : l \in Locations
      BY WhereFact DEF SInv, Stays
<1>1. \A l \in Locations : KeptAt(l, t)
      BY <1>0 DEF Seen, KeptAt
<1>2. ASSUME tstate[t] = "RECOVERING", NEW l \in Backups
      PROVE  /\ l \in DOMAIN resp'[t]
             /\ applied[l][t] > 0 => resp'[t][l] # "SET_TO_NOT_DONE"
  <2>1. /\ Backups \subseteq DOMAIN resp[t]
        /\ applied[l][t] > 0 =>
              /\ resp[t][l] # "SET_TO_NOT_DONE"
              /\ \A m \in net : m.tx = t /\ m.type = "status" /\ m.loc = l
                                    => m.status = "COMMITTED"
        BY <1>0, <1>2 DEF Sound, Recovering
  <2>2. l \in DOMAIN rs[t] /\ l \in DOMAIN resp'[t]
        BY <1>0, <1>2, <2>1 DEF Seen, Heard, Answered, Backups
  <2>3. applied[l][t] > 0 => rs[t][l] = resp[t][l]
        BY <1>2, <2>1, <2>2 DEF Triggered
  <2>4. resp'[t][l] \in {"UNKNOWN", rs[t][l]}
        BY <1>0, <1>2, <2>2 DEF Seen, Answered
  <2> QED  BY <2>1, <2>2, <2>3, <2>4
<1>3. Kept(t)
  <2>1. DOMAIN resp'[t] \subseteq DOMAIN resp[t]
        BY DEF Seen, Answered, Heard
  <2>2. DoneStatus(cdone', t) = DoneStatus(cdone, t)
        BY <1>0 DEF Seen
  <2> QED  BY <1>0, <1>2, <2>1, <2>2 DEF Kept, Seen
<1>4. ASSUME NEW m \in net', m.tx = t, m \notin net
      PROVE  Harmless(m)
  <2>1. Sending(m, R)  BY <1>4 DEF Seen
  <2>2. /\ m.type = RequestOf[tstate[t]] /\ m.status = "UNKNOWN"
        /\ tstate[t] \in {"COLLECTING", "COMMITTED", "ABORTED", "RECOVERING"}
        BY <1>0, <1>4, <2>1 DEF Sending, Message
  <2>3. active # NoLocation  BY DEF Seen
  <2>4. CASE tstate[t] = "COLLECTING"
    <3>1. "COMMITTED" \notin decided[t]
          BY <2>4 DEF IInv, CallersMatch, RefusalsKept, Seen
    <3>2. ~Won(t)  BY <3>1, NotWon
    <3> QED  BY <1>4, <2>2, <2>4, <3>2, RequestFact
             DEF Harmless, SaysCommitted, SaysAborted, GivesUp
  <2>5. CASE tstate[t] = "COMMITTED"
    <3>1. Won(t)  BY <2>5 DEF Won, get_transaction_status
    <3> QED  BY <1>4, <2>2, <2>5, <3>1, RequestFact
             DEF Harmless, SaysCommitted, SaysAborted, GivesUp
  <2>6. CASE tstate[t] = "ABORTED"
    <3>1. Lost(t)  BY <2>3, <2>6, PrimarySays DEF get_transaction_status
    <3> QED  BY <1>4, <2>2, <2>6, <3>1, RequestFact
             DEF Harmless, SaysCommitted, SaysAborted, GivesUp
  <2>7. CASE tstate[t] = "RECOVERING"
        BY <1>4, <2>2, <2>7, RequestFact
           DEF Harmless, SaysCommitted, SaysAborted, GivesUp, Decides
  <2> QED  BY <2>2, <2>4, <2>5, <2>6, <2>7
<1> QED  BY <1>0, <1>1, <1>3, <1>4, KeptSound

\* A transaction that is aborted, or only starts: nobody had won.
LEMMA UndecidedSound ==
    ASSUME IInv, IInv', SInv, NEW t \in Tx, NEW rs, NEW n, NEW R,
           Seen(t, rs, n, R),
           \/ Enters(t, "COLLECTING", "ABORTED")
           \/ Enters(t, "WAITING", "COLLECTING")
    PROVE  Sound(t)'
<1>1. "COMMITTED" \notin decided[t]
      BY DEF Enters, IInv, CallersMatch, RefusalsKept, Seen
<1>2. "COMMITTED" \notin decided'[t] /\ tstate'[t] # "RECOVERING"
      BY <1>1 DEF Seen, Enters
<1>3. (IInv => \A u \in Tx : "COMMITTED" \notin decided[u] => ~Won(u))'
      BY NotWonNext
<1>4. ~Won(t)'  BY <1>2, <1>3
<1> QED  BY <1>2, <1>4, SeenRecorded, LoserSound DEF SInv

\* A transaction that ends: the record says what the state said.
LEMMA EndedSound ==
    ASSUME IInv, SInv, NEW t \in Tx, NEW rs, NEW n, NEW R, Seen(t, rs, n, R),
           \/ Ended(t, "COMMITTED", "committed")
           \/ Ended(t, "ABORTED", "aborted")
    PROVE  Sound(t)'
<1>0. /\ tstate'[t] = "NONE" /\ tstate[t] \in {"COMMITTED", "ABORTED"}
      /\ DoneStatus(cdone', t) = tstate[t]
      BY DEF Ended, Seen
<1>1. /\ get_transaction_status(t) = tstate[t]
      /\ get_transaction_status(t)' = tstate[t]
      /\ alive' = alive /\ active' = active /\ Backups' = Backups
      /\ active # NoLocation
      /\ \A l \in Locations : applied'[l][t] > 0 <=> applied[l][t] > 0
      /\ \A m \in net' : m.tx = t => m \in net
      BY <1>0 DEF get_transaction_status, Seen, Sending
<1>2. \A m : m.tx = t => (Heeded(m)' => Heeded(m))
      BY <1>0 DEF Heeded
<1>3. /\ \A m : SaysCommitted(m)' <=> SaysCommitted(m)
      /\ \A m : m.tx = t => (SaysAborted(m)' => SaysAborted(m))
      BY <1>2 DEF SaysCommitted, SaysAborted, GivesUp
<1>4. Recorded(t)'  BY SeenRecorded DEF SInv
<1>5. CASE Ended(t, "ABORTED", "aborted")
  <2>1. ~Won(t)
    <3>1. Lost(t)  BY <1>1, <1>5, PrimarySays DEF Ended
    <3> QED  BY <3>1 DEF SInv, Sound, Atomic
  <2>2. ~Won(t)'
    <3>1. ~\E l \in alive' : applied'[l][t] > 0
          BY <1>1, <2>1, WhereFact DEF Won
    <3>2. get_transaction_status(t)' # "COMMITTED"  BY <1>1, <1>5 DEF Ended
    <3>3. caller'[t] # "committed"  BY <1>5, <2>1 DEF Ended, Won
    <3>4. ~\E m \in net' : m.tx = t /\ SaysCommitted(m) /\ Heeded(m)'
          BY <1>1, <1>2, <2>1 DEF Won
    <3> QED  BY <1>3, <3>1, <3>2, <3>3, <3>4 DEF Won
  <2> QED  BY <1>0, <1>4, <2>2, LoserSound
<1>6. CASE Ended(t, "COMMITTED", "committed")
  <2>1. Won(t)  BY <1>1, <1>6 DEF Won, Ended
  <2>2. /\ ~Lost(t)
        /\ \A l \in Backups : t \in prepared[l] \/ applied[l][t] > 0
        /\ \A m \in net : m.tx = t => m.type # "prepare"
        BY <2>1 DEF SInv, Sound, Atomic
  <2>3. ~Lost(t)'
    <3>1. Refusers(t)' = Refusers(t)  BY <1>1 DEF Refusers, Seen, KeptAt
    <3>2. \A m \in net' : m.tx = t => ~SaysAborted(m)'
          BY <1>1, <1>3, <2>2 DEF Lost
    <3> QED  BY <2>2, <3>1, <3>2 DEF Lost
  <2>4. Atomic(t)'
        BY <1>1, <2>2, <2>3 DEF Atomic, Seen, KeptAt
  <2>5. PrimaryKnows(t)'
    <3>1. \/ applied[active][t] > 0
          \/ caller[t] \in {"waiting", "committed"}
          BY <1>1, <1>6, <2>1 DEF SInv, Sound, PrimaryKnows, Ended
    <3>2. active \in Locations  BY <1>1, WhereFact
    <3> QED  BY <1>1, <1>6, <3>1, <3>2 DEF PrimaryKnows, Ended
  <2> QED  BY <1>0, <1>4, <2>4, <2>5 DEF Sound
<1> QED  BY <1>5, <1>6

\* A transaction that the coordinator has come to commit, when nobody has given
\* it up.
LEMMA WinnerSound ==
    ASSUME IInv, SInv, NEW t \in Tx, NEW rs, NEW n, NEW R, Seen(t, rs, n, R),
           tstate'[t] = "COMMITTED",
           \A l \in Backups : \/ applied[l][t] > 0
                              \/ t \in prepared[l],
           \A l \in Backups : t \notin prepared[l] =>
                                  DoneStatus(done[l], t) # "ABORTED",
           \A m \in n : m.tx = t => ~GivesUp(m) /\ m.type # "prepare",
           applied'[active][t] > 0 \/ caller'[t] = "waiting"
    PROVE  Sound(t)'
<1>1. /\ get_transaction_status(t)' = "COMMITTED"
      /\ alive' = alive /\ active' = active /\ Backups' = Backups
      BY DEF get_transaction_status, Seen
<1>2. ASSUME NEW m \in net', m.tx = t
      PROVE  ~GivesUp(m) /\ m.type # "prepare"
  <2>1. CASE m \in n  BY <1>2, <2>1
  <2>2. CASE Sending(m, R)
    <3>1. m.type = "commit"  BY <1>2, <2>2, RequestFact DEF Sending, Message
    <3> QED  BY <3>1 DEF GivesUp
  <2> QED  BY <2>1, <2>2 DEF Seen
<1>3. ~Lost(t)'
  <2>1. Refusers(t)' = {}
        BY <1>1 DEF Refusers, Seen, KeptAt
  <2>2. \A m \in net' : m.tx = t => ~SaysAborted(m)'
        BY <1>2 DEF SaysAborted, GivesUp, Heeded
  <2> QED  BY <2>1, <2>2 DEF Lost
<1>4. Atomic(t)'
      BY <1>1, <1>2, <1>3 DEF Atomic, Seen, KeptAt
<1>5. PrimaryKnows(t)'  BY <1>1 DEF PrimaryKnows
<1> QED  BY <1>4, <1>5, SeenRecorded DEF Sound, SInv

\* The coordinator commits on the votes of all the cohorts, none of which has
\* heard of t but by its own prepare.
LEMMA VotedSound ==
    ASSUME IInv, IInv', RInv, SInv, NEW t \in Tx, NEW rs, NEW n, NEW R,
           Seen(t, rs, n, R), Triggered(rs, n, R),
           Enters(t, "COLLECTING", "COMMITTED"), AllAre(rs[t], "YES")
    PROVE  Sound(t)'
<1>1. /\ caller[t] = "waiting" /\ caller'[t] = "waiting"
      /\ tstate[t] = "COLLECTING" /\ tstate'[t] = "COMMITTED"
      BY DEF Enters, IInv, CallersMatch
<1>0. ~TimerOverlaps  BY DEF Seen
<1>2. ~Won(t)
  <2>1. "COMMITTED" \notin decided[t]  BY <1>0, <1>1 DEF IInv, RefusalsKept
  <2> QED  BY <2>1, NotWon
<1>3. \A l \in Backups : t \in prepared[l]
  <2>1. Committing(t)'  BY <1>0, <1>1 DEF IInv, VotesKnown
  <2>2. \A l \in Backups' : t \in prepared'[l] \/ applied'[l][t] > 0
        BY <2>1 DEF Committing
  <2>3. \A l \in Backups : ~(applied[l][t] > 0)
        BY <1>2, WhereFact DEF Won
  <2> QED  BY <2>2, <2>3 DEF Seen, KeptAt
<1>4. \A m \in net' : m.tx = t => ~GivesUp(m)'
  <2>1. Committing(t)'  BY <1>0, <1>1 DEF IInv, VotesKnown
  <2> QED  BY <2>1 DEF Committing
<1>5. ASSUME NEW m \in n, m.tx = t
      PROVE  ~GivesUp(m) /\ m.type # "prepare"
  <2>1. m \in net  BY DEF Seen
  <2>2. ~GivesUp(m)
    <3>1. Collecting(t)  BY <1>0, <1>1 DEF IInv, VotesKnown
    <3> QED  BY <1>5, <2>1, <3>1 DEF Collecting, Ends, GivesUp
  <2>3. ASSUME m.type = "prepare"
        PROVE  FALSE
    <3>1. m.loc \in Backups
          BY <2>1, <2>3 DEF RInv, Addressed, Requests
    <3>2. m.loc \in DOMAIN resp[t] /\ m.loc \in DOMAIN rs[t]
          BY <1>0, <1>1, <3>1 DEF IInv, VotesKnown, Seen, Heard, Backups
    <3>3. rs[t][m.loc] = "YES"  BY <3>2 DEF AllAre
    <3>4. resp[t][m.loc] = "UNKNOWN"
          BY <1>1, <1>5, <2>1, <2>3, <3>2 DEF RInv, OneVote, Vote
    <3>5. PICK k \in net \ n : k.tx = t /\ k.loc = m.loc /\ k.type = "yes"
          BY <1>1, <3>2, <3>3, <3>4 DEF Triggered
    <3>6. k = m
          BY <1>1, <1>5, <2>1, <2>3, <3>5 DEF RInv, OneVote, Vote
    <3> QED  BY <2>3, <3>5, <3>6
  <2> QED  BY <2>2, <2>3
<1> QED  BY <1>1, <1>3, <1>5, WinnerSound

\* The coordinator commits because it has no cohort left.
LEMMA AloneSound ==
    ASSUME IInv, RInv, SInv, NEW t \in Tx, NEW rs, NEW n, NEW R,
           Seen(t, rs, n, R), Enters(t, "WAITING", "COMMITTED"), DOMAIN rs[t] = {}
    PROVE  Sound(t)'
<1>1. /\ caller[t] = "waiting" /\ caller'[t] = "waiting"
      /\ tstate'[t] = "COMMITTED"
      BY DEF Enters, IInv, CallersMatch
<1>0. ~TimerOverlaps  BY DEF Seen
<1>2. Backups = {}
  <2>1. Backups \subseteq DOMAIN resp[t] /\ Backups \subseteq alive
        BY <1>0, <1>1 DEF IInv, VotesKnown, Backups
  <2> QED  BY <2>1 DEF Seen, Heard
<1>3. \A m \in n : ~GivesUp(m) /\ m.type # "prepare"
      BY <1>2 DEF Seen, RInv, Addressed, Requests, GivesUp
<1> QED  BY <1>1, <1>2, <1>3, WinnerSound

\* The coordinator commits what a cohort has told it is committed.
LEMMA LearntSound ==
    ASSUME IInv, SInv, NEW t \in Tx, NEW rs, NEW n, NEW R,
           Seen(t, rs, n, R), Triggered(rs, n, R),
           Enters(t, "RECOVERING", "COMMITTED")
    PROVE  Sound(t)'
<1>1. tstate[t] = "RECOVERING" /\ tstate'[t] = "COMMITTED"  BY DEF Enters
<1>2. /\ \E m \in net : /\ m.tx = t /\ m.type = "status" /\ Heeded(m)
                        /\ m.status = "COMMITTED"
      /\ applied'[active][t] > 0
      BY <1>1 DEF Triggered
<1>3. Won(t)  BY <1>2 DEF Won, SaysCommitted
<1>4. /\ ~Lost(t)
      /\ \A l \in Backups : t \in prepared[l] \/ applied[l][t] > 0
      /\ \A m \in net : m.tx = t => m.type # "prepare"
      BY <1>3 DEF SInv, Sound, Atomic
<1>5. \A l \in Backups : t \notin prepared[l] => DoneStatus(done[l], t) # "ABORTED"
      BY <1>4 DEF Lost, Refusers
<1>6. \A m \in n : m.tx = t => ~GivesUp(m) /\ m.type # "prepare"
      BY <1>4 DEF Lost, SaysAborted, Seen
<1> QED  BY <1>1, <1>2, <1>4, <1>5, <1>6, WinnerSound

\* The coordinator aborts what a cohort has told it is aborted, or what no other
\* cohort has loaded.
LEMMA ForgottenSound ==
    ASSUME IInv, SInv, NEW t \in Tx, NEW rs, NEW n, NEW R,
           Seen(t, rs, n, R), Triggered(rs, n, R),
           Enters(t, "RECOVERING", "ABORTED")
    PROVE  Sound(t)'
<1>1. /\ tstate[t] = "RECOVERING" /\ tstate'[t] = "ABORTED"
      /\ caller'[t] = caller[t] /\ Recovering(t) /\ Atomic(t)
      BY DEF Enters, SInv, Sound
<1>2. ASSUME NEW l \in Backups
      PROVE  ~(applied[l][t] > 0)
  <2>1. CASE AllAre(rs[t], "SET_TO_NOT_DONE")
    <3>1. SUFFICES ASSUME applied[l][t] > 0 PROVE FALSE
          OBVIOUS
    <3>2. /\ l \in DOMAIN resp[t] /\ resp[t][l] # "SET_TO_NOT_DONE"
          /\ \A m \in net : m.tx = t /\ m.type = "status" /\ m.loc = l
                                => m.status = "COMMITTED"
          BY <1>1, <3>1 DEF Recovering
    <3>3. l \in DOMAIN rs[t]  BY <3>2 DEF Seen, Heard, Backups
    <3>4. rs[t][l] # resp[t][l]  BY <2>1, <3>2, <3>3 DEF AllAre
    <3> QED  BY <1>1, <3>2, <3>3, <3>4 DEF Triggered
  <2>2. CASE ~AllAre(rs[t], "SET_TO_NOT_DONE")
    <3>1. \E m \in net : /\ m.tx = t /\ m.type = "status" /\ Heeded(m)
                         /\ m.status = "ABORTED"
          BY <1>1, <2>2 DEF Triggered
    <3>2. ~Won(t)  BY <1>1, <3>1 DEF Lost, SaysAborted, Atomic
    <3> QED  BY <3>2, WhereFact DEF Won
  <2> QED  BY <2>1, <2>2
<1>3. \A l \in alive : ~(applied'[l][t] > 0)
      BY <1>1, <1>2, WhereFact DEF Seen, Recovering
<1>4. ~Won(t)'
  <2>1. ~\E l \in alive' : applied'[l][t] > 0  BY <1>3 DEF Seen
  <2>2. get_transaction_status(t)' # "COMMITTED"
        BY <1>1 DEF get_transaction_status
  <2>3. caller'[t] # "committed"  BY <1>1 DEF Recovering
  <2>4. ASSUME NEW m \in net', m.tx = t
        PROVE  ~(SaysCommitted(m) /\ Heeded(m)')
    <3>1. m.type = "status" => ~Heeded(m)'  BY <1>1, <2>4 DEF Heeded
    <3>2. m \in n => ~Decides(m)  BY <1>1, <2>4 DEF Recovering, Seen
    <3>3. Sending(m, R) => m.type = "rollback"
          BY <1>1, <2>4, RequestFact DEF Sending, Message
    <3> QED  BY <3>1, <3>2, <3>3 DEF Seen, SaysCommitted, Decides
  <2>5. \A m : SaysCommitted(m)' <=> SaysCommitted(m)  BY DEF SaysCommitted
  <2> QED  BY <2>1, <2>2, <2>3, <2>4, <2>5 DEF Won
<1> QED  BY <1>1, <1>4, SeenRecorded, LoserSound DEF SInv

(* Every step of the coordinator keeps the invariant.                      *)
LEMMA PerformedSound ==
    ASSUME IInv, IInv', RInv, SInv, RecordsKept, NEW rs, NEW n, NEW R,
           Performed(rs, n, R)
    PROVE  SInv'
<1> SUFFICES ASSUME NEW t \in Tx PROVE Sound(t)'
    BY DEF SInv
<1>1. Seen(t, rs, n, R)  BY SeenFact
<1>2. Triggered(rs, n, R)  BY DEF Performed
<1>3. Stepped(t, rs[t])  BY <1>1 DEF Seen
<1>4. CASE Stays(t)  BY <1>1, <1>2, <1>4, StaysSound
<1>5. CASE Enters(t, "RECOVERING", "ABORTED")
      BY <1>1, <1>2, <1>5, ForgottenSound
<1>6. CASE Enters(t, "RECOVERING", "COMMITTED")
      BY <1>1, <1>2, <1>6, LearntSound
<1>7. CASE Enters(t, "COLLECTING", "COMMITTED") /\ AllAre(rs[t], "YES")
      BY <1>1, <1>2, <1>7, VotedSound
<1>8. CASE \/ Enters(t, "COLLECTING", "ABORTED")
           \/ Enters(t, "WAITING", "COLLECTING")
      BY <1>1, <1>8, UndecidedSound
<1>9. CASE \/ Ended(t, "COMMITTED", "committed")
           \/ Ended(t, "ABORTED", "aborted")
      BY <1>1, <1>9, EndedSound
<1>10. CASE Enters(t, "WAITING", "COMMITTED") /\ DOMAIN rs[t] = {}
       BY <1>1, <1>10, AloneSound
<1> QED  BY <1>3, <1>4, <1>5, <1>6, <1>7, <1>8, <1>9, <1>10 DEF Stepped

\* So does an answer that is dropped.
LEMMA ActsSound ==
    ASSUME IInv, IInv', RInv, SInv, RecordsKept, CoordinatorActs
    PROVE  SInv'
<1>1. ASSUME NEW m \in net, Dropped(m)
      PROVE  SInv'
      BY <1>1, IdleSound DEF Dropped, cohortVars, dataVars
<1> QED  BY <1>1, PerformedSound DEF CoordinatorActs

-----------------------------------------------------------------------------
(* The clients, the crashes and the next primary.                          *)

\* An empty list has no record.
LEMMA EmptyStatus == \A t : DoneStatus(<<>>, t) = "UNKNOWN"
<1>1. <<>> \in Seq(Records) /\ DOMAIN <<>> = {}  OBVIOUS
<1> QED  BY <1>1, DoneStatusFirst

\* At the start nobody has won.
LEMMA InitSound == Init => SInv
<1> SUFFICES ASSUME Init, NEW t \in Tx PROVE Sound(t)
    BY DEF SInv
<1>1. /\ tstate[t] = "NONE" /\ caller[t] = "idle" /\ cdone = <<>> /\ net = {}
      /\ \A l \in Locations : done[l] = <<>> /\ ~(applied[l][t] > 0)
      /\ alive = Locations
      BY DEF Init
<1>2. ~Won(t)  BY <1>1, EmptyStatus DEF Won, get_transaction_status
<1> QED  BY <1>1, <1>2, EmptyStatus
         DEF Sound, Atomic, Recorded, PrimaryKnows, Backups

\* The transactions whose client does not move.
LEMMA BystanderSound ==
    ASSUME IInv, SInv, NEW t \in Tx,
           UNCHANGED <<alive, active, cdone, prepared, done>>,
           tstate'[t] = tstate[t], caller'[t] = caller[t], resp'[t] = resp[t],
           \A l \in Locations : applied'[l][t] = applied[l][t],
           \A m \in net' : m.tx = t => m \in net
    PROVE  Sound(t)'
<1>1. Kept(t)  BY DEF Kept, SInv, Sound, Recovering
<1>2. \A l \in Locations : KeptAt(l, t)  BY DEF KeptAt
<1> QED  BY <1>1, <1>2, KeptSound DEF SInv

\* The transaction of a client that is only asking, or refused.
LEMMA NewSound ==
    ASSUME IInv, IInv', SInv, NEW t \in Tx, caller[t] = "idle",
           caller'[t] # "idle", tstate'[t] # "RECOVERING",
           UNCHANGED <<alive, active, done, applied, decided>>
    PROVE  Sound(t)'
<1>1. /\ decided[t] = {} /\ Recorded(t)
      /\ \A l \in Locations : /\ DoneStatus(done[l], t) = "UNKNOWN"
                              /\ ~(applied[l][t] > 0)
      BY DEF IInv, Coordinated, Unborn, SInv, Sound, Recorded
<1>2. ~Won(t)'  BY <1>1, NotWonNext
<1>3. Recorded(t)'
  <2>1. \A l \in Backups' : l \in Locations  BY WhereFact DEF Backups
  <2> QED  BY <1>1, <2>1 DEF Recorded
<1> QED  BY <1>2, <1>3, LoserSound

\* What a request does to its transaction, and what it leaves alone.
LEMMA RequestEffect ==
    ASSUME TypeOK, NEW t \in Tx, NEW c, Request(t, c)
    PROVE  /\ UNCHANGED <<alive, active, cdone, prepared, done, applied, decided>>
           /\ caller[t] = "idle" /\ caller'[t] \in {"refused", "waiting"}
           /\ tstate'[t] \in {tstate[t], "COLLECTING", "WAITING"}
           /\ \A u \in Tx : u # t => /\ tstate'[u] = tstate[u]
                                     /\ caller'[u] = caller[u]
                                     /\ resp'[u] = resp[u]
           /\ \A m \in net' : m \in net \/ m \in Sent(t, "prepare", members, 1)
<1>1. /\ caller \in [Tx -> Callers] /\ tstate \in [Tx -> TransactionStates]
      /\ DOMAIN resp = Tx
      BY DEF TypeOK
<1>2. /\ UNCHANGED <<alive, active, cdone, prepared, done, applied, decided>>
      /\ caller[t] = "idle"
      BY DEF Request, NextTx, cohortVars, envVars, dataVars
<1>3. \/ /\ caller' = [caller EXCEPT ![t] = "refused"]
         /\ UNCHANGED <<tstate, resp, net>>
      \/ /\ caller' = [caller EXCEPT ![t] = "waiting"]
         /\ \E x \in {"COLLECTING", "WAITING"} : tstate' = [tstate EXCEPT ![t] = x]
         /\ \E x : resp' = [resp EXCEPT ![t] = x]
         /\ net' \in {net, net \cup Sent(t, "prepare", members, 1)}
      BY DEF Request
<1>4. caller'[t] \in {"refused", "waiting"} /\ \A u \in Tx : u # t => caller'[u] = caller[u]
      BY ONLY <1>1, <1>3
<1>5. /\ tstate'[t] \in {tstate[t], "COLLECTING", "WAITING"}
      /\ \A u \in Tx : u # t => tstate'[u] = tstate[u]
      BY ONLY <1>1, <1>3
<1>6. \A u \in Tx : u # t => resp'[u] = resp[u]
      BY ONLY <1>1, <1>3
<1>7. \A m \in net' : m \in net \/ m \in Sent(t, "prepare", members, 1)
      BY ONLY <1>3
<1> QED  BY <1>2, <1>4, <1>5, <1>6, <1>7

\* A client asks for a change.
LEMMA RequestSound ==
    ASSUME IInv, IInv', SInv, NEW t \in Tx, NEW c \in Changes, Request(t, c)
    PROVE  SInv'
<1>1. /\ UNCHANGED <<alive, active, cdone, prepared, done, applied, decided>>
      /\ caller[t] = "idle"
      BY RequestEffect DEF IInv
<1>2. /\ caller'[t] \in {"refused", "waiting"}
      /\ tstate'[t] \in {tstate[t], "COLLECTING", "WAITING"}
      /\ \A u \in Tx : u # t => /\ tstate'[u] = tstate[u]
                                /\ caller'[u] = caller[u]
                                /\ resp'[u] = resp[u]
      /\ \A m \in net' : m \in net \/ m \in Sent(t, "prepare", members, 1)
      BY RequestEffect DEF IInv
<1>3. tstate'[t] # "RECOVERING"
      BY <1>1, <1>2 DEF IInv, Coordinated, Unborn
<1>4. \A m \in Sent(t, "prepare", members, 1) : m.tx = t
      BY DEF Sent, Message
<1>5. Sound(t)'  BY <1>1, <1>2, <1>3, NewSound
<1>6. ASSUME NEW u \in Tx, u # t
      PROVE  Sound(u)'
  <2>1. \A m \in net' : m.tx = u => m \in net  BY <1>2, <1>4, <1>6
  <2> QED  BY <1>1, <1>2, <1>6, <2>1, BystanderSound
<1> QED  BY <1>5, <1>6 DEF SInv

\* A client without cohorts: nobody else holds the data.
LEMMA RequestLocalSound ==
    ASSUME IInv, IInv', SInv, NEW t \in Tx, NEW c \in Changes, RequestLocal(t, c)
    PROVE  SInv'
<1>1. /\ UNCHANGED <<alive, active, cdone, prepared, done, tstate, resp, net>>
      /\ caller[t] = "idle" /\ active # NoLocation /\ members = {}
      BY DEF RequestLocal, NextTx, cohortVars, envVars
<1>2. /\ \A u \in Tx : u # t => caller'[u] = caller[u]
      /\ \/ caller'[t] = "refused" /\ applied' = applied /\ decided' = decided
         \/ caller'[t] = "returned" /\ Load(active, t, c)
      BY DEF RequestLocal, dataVars, IInv, TypeOK
<1>3. active \in alive /\ active \in Locations /\ Backups = {}
      BY <1>1, WhereFact DEF IInv, Coordinated, Backups
<1>4. \A u \in Tx, l \in Locations : u # t => applied'[l][u] = applied[l][u]
      BY <1>2, <1>3, AppliedFact DEF LoadedOnly, IInv
<1>5. ASSUME NEW u \in Tx, u # t
      PROVE  Sound(u)'
      BY <1>1, <1>2, <1>4, <1>5, BystanderSound
<1>6. Unborn(t) /\ Recorded(t)
      BY <1>1 DEF IInv, Coordinated, SInv, Sound
<1>7. Sound(t)'
  <2>1. CASE caller'[t] = "refused"
        BY <1>1, <1>2, <1>6, <2>1, NewSound DEF Unborn
  <2>2. CASE caller'[t] = "returned" /\ Load(active, t, c)
    <3>1. LoadedOnly(active, t)  BY <1>3, <2>2, AppliedFact DEF IInv
    <3>2. /\ Backups' = {} /\ tstate'[t] = "NONE"
          /\ \A m \in net' : m.tx # t
          /\ get_transaction_status(t)' = "UNKNOWN"
          /\ \A l \in Locations : DoneStatus(done'[l], t) = "UNKNOWN"
          BY <1>1, <1>3, <1>6
             DEF Backups, Unborn, get_transaction_status, Recorded
    <3>3. Refusers(t)' = {}  BY <3>2 DEF Refusers
    <3>4. Atomic(t)'  BY <3>2, <3>3 DEF Atomic, Lost
    <3>5. PrimaryKnows(t)'  BY <1>1, <3>1 DEF PrimaryKnows, LoadedOnly
    <3>6. Recorded(t)'  BY <2>2, <3>2 DEF Recorded
    <3> QED  BY <3>2, <3>4, <3>5, <3>6 DEF Sound
  <2> QED  BY <1>2, <2>1, <2>2
<1> QED  BY <1>5, <1>7 DEF SInv

\* A client that was told that its change is committed applies it.
LEMMA LocalApplySound ==
    ASSUME IInv, SInv, NEW t \in Tx, LocalApply(t)
    PROVE  SInv'
<1>1. /\ UNCHANGED <<alive, active, cdone, prepared, done, tstate, resp, net>>
      /\ caller[t] = "committed" /\ Load(active, t, change[t])
      /\ caller' = [caller EXCEPT ![t] = "returned"]
      BY DEF LocalApply, cohortVars, envVars
<1>2. caller'[t] = "returned" /\ \A u \in Tx : u # t => caller'[u] = caller[u]
      BY <1>1 DEF IInv, TypeOK
<1>3. active # NoLocation /\ active \in Locations /\ active \notin Backups
      BY <1>1, WhereFact DEF IInv, Coordinated, Backups
<1>4. LoadedOnly(active, t)  BY <1>1, <1>3, AppliedFact DEF IInv
<1>5. ASSUME NEW u \in Tx, u # t
      PROVE  Sound(u)'
      BY <1>1, <1>2, <1>4, <1>5, BystanderSound DEF LoadedOnly
<1>6. Sound(t)'
  <2>1. /\ Won(t) /\ Sound(t) /\ tstate[t] # "RECOVERING"
        BY <1>1 DEF Won, SInv, Sound, Recovering
  <2>2. /\ ~Lost(t)
        /\ \A l \in Backups : t \in prepared[l] \/ applied[l][t] > 0
        /\ \A m \in net : m.tx = t => m.type # "prepare"
        BY <2>1 DEF Sound, Atomic
  <2>3. Backups' = Backups /\ \A l \in Backups : l \in Locations
        BY <1>1, WhereFact DEF Backups
  <2>4. \A l \in Backups : applied'[l][t] > 0 <=> applied[l][t] > 0
    <3>1. ASSUME NEW l \in Backups PROVE applied'[l][t] = applied[l][t]
          BY <1>3, <1>4, <2>3, <3>1 DEF LoadedOnly
    <3> QED  BY <3>1
  <2>5. ~Lost(t)'
    <3>1. Refusers(t)' = Refusers(t)
          BY <1>1, <2>3 DEF Refusers, get_transaction_status
    <3>2. \A m : SaysAborted(m)' <=> SaysAborted(m)
          BY <1>1 DEF SaysAborted, GivesUp, Heeded
    <3> QED  BY <1>1, <2>2, <3>1, <3>2 DEF Lost
  <2>6. Atomic(t)'  BY <1>1, <2>2, <2>3, <2>4, <2>5 DEF Atomic
  <2>7. PrimaryKnows(t)'  BY <1>1, <1>4 DEF PrimaryKnows, LoadedOnly
  <2>8. Recorded(t)'
    <3>1. \A l \in Locations : applied[l][t] > 0 => applied'[l][t] > 0
          BY <1>4 DEF LoadedOnly
    <3> QED  BY <1>1, <1>2, <2>1, <2>3, <2>4, <3>1 DEF Sound, Recorded
  <2> QED  BY <1>1, <2>1, <2>6, <2>7, <2>8 DEF Sound
<1> QED  BY <1>5, <1>6 DEF SInv

\* The cohort that crashes says no more; its record stays on its disk.
LEMMA GoneSound ==
    ASSUME IInv, SInv, NEW x \in Locations, Gone(x)
    PROVE  SInv'
<1> SUFFICES ASSUME NEW t \in Tx PROVE Sound(t)'
    BY DEF SInv
<1>1. /\ UNCHANGED <<active, cdone, done, applied, tstate, resp, caller>>
      /\ alive' = alive \ {x} /\ net' \subseteq net
      /\ prepared' = [prepared EXCEPT ![x] = {}] /\ x # active
      BY DEF Gone, EndProcess, coordVars, dataVars
<1>2. /\ Backups' = Backups \ {x} /\ Backups \subseteq Locations
      /\ get_transaction_status(t)' = get_transaction_status(t)
      /\ \A l \in Locations : prepared'[l] = IF l = x THEN {} ELSE prepared[l]
      BY <1>1, WhereFact DEF Backups, get_transaction_status, IInv, TypeOK
<1>3. /\ \A m : SaysCommitted(m)' <=> SaysCommitted(m)
      /\ \A m : SaysAborted(m)' <=> SaysAborted(m)
      /\ \A m : Heeded(m)' <=> Heeded(m)
      /\ \A m : Decides(m)' <=> Decides(m)
      BY <1>1 DEF SaysCommitted, SaysAborted, GivesUp, Heeded, Decides
<1>4. Sound(t)  BY DEF SInv
<1>5. Won(t)' => Won(t)  BY <1>1, <1>2, <1>3 DEF Won
<1>6. Lost(t)' => Lost(t)
  <2>1. Refusers(t)' \subseteq Refusers(t)  BY <1>1, <1>2 DEF Refusers
  <2> QED  BY <1>1, <1>3, <2>1 DEF Lost
<1>7. Atomic(t)'  BY <1>1, <1>2, <1>4, <1>5, <1>6 DEF Sound, Atomic
<1>8. tstate[t] = "RECOVERING" => Recovering(t)'
  <2>1. tstate[t] = "RECOVERING" => active \in Locations
        BY WhereFact DEF IInv, Coordinated
  <2> QED  BY <1>1, <1>2, <1>3, <1>4, <2>1 DEF Sound, Recovering
<1>9. Recorded(t)'  BY <1>1, <1>2, <1>4 DEF Sound, Recorded
<1>10. PrimaryKnows(t)'  BY <1>1, <1>4, <1>5 DEF Sound, PrimaryKnows
<1> QED  BY <1>1, <1>7, <1>8, <1>9, <1>10 DEF Sound

\* The primary that crashes takes what it knows with it.
LEMMA CrashCoordinatorSound ==
    ASSUME IInv, SInv, CrashCoordinator
    PROVE  SInv'
<1> SUFFICES ASSUME NEW t \in Tx PROVE Sound(t)'
    BY DEF SInv
<1>1. /\ UNCHANGED <<done, applied>> /\ cdone' = <<>> /\ tstate'[t] = "NONE"
      /\ alive' = alive \ {active} /\ active' = NoLocation
      /\ net' \subseteq {m \in net : m.type \in Requests}
      /\ prepared' = [prepared EXCEPT ![active] = {}]
      /\ caller'[t] = IF caller[t] \in {"waiting", "committed"}
                      THEN "lost" ELSE caller[t]
      BY DEF CrashCoordinator, dataVars
<1>2. /\ Backups' = Backups /\ Backups \subseteq Locations
      /\ get_transaction_status(t)' = "UNKNOWN"
      /\ \A l \in Locations : prepared'[l] = IF l = active THEN {} ELSE prepared[l]
      BY <1>1, WhereFact, EmptyStatus
         DEF Backups, get_transaction_status, IInv, TypeOK
<1>3. \A m \in net' : /\ m \in net
                      /\ SaysCommitted(m)' => SaysCommitted(m) /\ Heeded(m)
                      /\ SaysAborted(m)' => SaysAborted(m)
      BY <1>1 DEF SaysCommitted, SaysAborted, GivesUp, Heeded, Requests
<1>4. Sound(t)  BY DEF SInv
<1>5. Won(t)' => Won(t)  BY <1>1, <1>2, <1>3 DEF Won
<1>6. Lost(t)' => Lost(t)
  <2>1. Refusers(t)' \subseteq Refusers(t)
        BY <1>1, <1>2, WhereFact DEF Refusers, Backups
  <2> QED  BY <1>3, <2>1 DEF Lost
<1>7. Atomic(t)'
      BY <1>1, <1>2, <1>3, <1>4, <1>5, <1>6 DEF Sound, Atomic, Backups
<1>8. Recorded(t)'
      BY <1>1, <1>2, <1>4, EmptyStatus DEF Sound, Recorded
<1>9. PrimaryKnows(t)'  BY <1>1 DEF PrimaryKnows
<1> QED  BY <1>1, <1>7, <1>8, <1>9 DEF Sound

\* The next primary holds what has won, or asks for it.
LEMMA ActivateSound ==
    ASSUME IInv, SInv, NEW x \in Locations, activate(x)
    PROVE  SInv'
<1> SUFFICES ASSUME NEW t \in Tx PROVE Sound(t)'
    BY DEF SInv
<1>1. /\ UNCHANGED <<done, applied, caller, prepared, alive>>
      /\ x \in alive /\ net = {} /\ active = NoLocation /\ active' = x
      /\ cdone' = done[x] /\ alive \ {x} \subseteq members'
      /\ tstate'[t] = IF t \in prepared[x] THEN "RECOVERING" ELSE "NONE"
      /\ resp'[t] = IF t \in prepared[x] THEN [k \in members' |-> "UNKNOWN"]
                                         ELSE NoResponses
      /\ net' = UNION {Sent(u, "get_status", members', 1) : u \in prepared[x]}
      BY DEF activate, cohortVars, dataVars
<1>2. /\ Backups' = alive \ {x} /\ Backups = alive /\ alive \subseteq Locations
      /\ get_transaction_status(t)' = IF t \in prepared[x] THEN "UNKNOWN"
                                      ELSE DoneStatus(done[x], t)
      /\ caller[t] \notin {"waiting", "committed"}
      BY <1>1, WhereFact
         DEF Backups, get_transaction_status, IInv, Coordinated
<1>3. ASSUME NEW m \in net'
      PROVE  m.type = "get_status"
  <2>1. PICK u \in prepared[x] : m \in Sent(u, "get_status", members', 1)
        BY <1>1
  <2> QED  BY <2>1 DEF Sent, Message
<1>4. \A m \in net' : ~SaysCommitted(m)' /\ ~SaysAborted(m)' /\ ~Decides(m)'
      BY <1>3 DEF SaysCommitted, SaysAborted, GivesUp, Decides
<1>5. Sound(t)  BY DEF SInv
<1>6. Won(t)' => Won(t)
      BY <1>1, <1>2, <1>4, <1>5 DEF Won, Sound, Recorded
<1>7. Lost(t)' => Lost(t)
  <2>1. Refusers(t)' \subseteq Refusers(t)  BY <1>1, <1>2 DEF Refusers
  <2> QED  BY <1>4, <2>1 DEF Lost
<1>8. Atomic(t)'
      BY <1>1, <1>2, <1>3, <1>5, <1>6, <1>7 DEF Sound, Atomic
<1>9. ASSUME t \in prepared[x]
      PROVE  Recovering(t)'
  <2>1. ~(applied[x][t] > 0)
        BY <1>1, <1>2, <1>5, <1>9 DEF Sound, Recorded
  <2>2. caller[t] # "idle"  BY <1>9 DEF IInv, Coordinated, Unborn
  <2> QED  BY <1>1, <1>2, <1>3, <1>4, <1>9, <2>1, <2>2 DEF Recovering
<1>10. Recorded(t)'  BY <1>1, <1>2, <1>5 DEF Sound, Recorded
<1>11. PrimaryKnows(t)'
       BY <1>1, <1>2, <1>5, <1>6 DEF Sound, PrimaryKnows, Atomic
<1> QED  BY <1>1, <1>8, <1>9, <1>10, <1>11 DEF Sound

(* Every step keeps the invariant while there is room for the records.     *)
LEMMA NextSound ==
    ASSUME TimelyNetwork, IInv, IInv', RInv, SInv, RecordsKept, [Next]_vars
    PROVE  SInv'
<1>1. CASE UNCHANGED vars
      BY <1>1, IdleSound DEF vars, coordVars
<1>2. ASSUME NEW t \in Tx, NEW c \in Changes, Request(t, c) PROVE SInv'
      BY <1>2, RequestSound
<1>3. ASSUME NEW t \in Tx, NEW c \in Changes, RequestLocal(t, c) PROVE SInv'
      BY <1>3, RequestLocalSound
<1>4. ASSUME NEW t \in Tx, LocalApply(t) PROVE SInv'
      BY <1>4, LocalApplySound
<1>5. ASSUME NEW t \in Tx, handle_timeout(t) PROVE SInv'
      BY <1>5, TimeoutActs, ActsSound
<1>6. ASSUME NEW m \in net, ToCoordinator(m) PROVE SInv'
      BY <1>6, YesActs, NoActs, EndActs, StatusAnswerActs, ActsSound, AskSound
         DEF ToCoordinator
<1>7. ASSUME NEW m \in net, ToCohort(m) PROVE SInv'
      BY <1>7, PrepareSound, DecisionSound, GetStatusSound DEF ToCohort
<1>8. ASSUME NEW m \in net, Lose(m) PROVE SInv'
      BY <1>8, LossActs, ActsSound
<1>9. ASSUME NEW l \in Locations, NEW t \in Tx, on_timeout(l, t) PROVE SInv'
      BY <1>9, TimerSound
<1>10. ASSUME NEW l \in Locations,
              CrashCohort(l) \/ \E t \in Tx : on_timeout_uncaught(l, t)
       PROVE  SInv'
      BY <1>10, GoneFact, GoneSound
<1>11. ASSUME NEW l \in Locations, on_failure(l) PROVE SInv'
      BY <1>11, FailureActs, ActsSound
<1>12. ASSUME NEW l \in Locations, activate(l) PROVE SInv'
      BY <1>12, ActivateSound
<1>13. CASE CrashCoordinator  BY <1>13, CrashCoordinatorSound
<1>14. CASE EraseLocation
      BY <1>14, IdleSound DEF EraseLocation, cohortVars, dataVars
<1> QED  BY <1>1, <1>2, <1>3, <1>4, <1>5, <1>6, <1>7, <1>8, <1>9, <1>10,
            <1>11, <1>12, <1>13, <1>14 DEF Next

(* The engine is sound: timers longer than the delays of the network, and  *)
(* lists of finished transactions that are long enough, keep a committed   *)
(* transaction from being aborted anywhere, whoever crashes.               *)
THEOREM SoundHolds ==
    ASSUME TimelyNetwork
    PROVE  Spec /\ []RecordsKept => []SInv
<1>1. IInv /\ IInv' /\ RInv /\ SInv /\ RecordsKept /\ [Next]_vars => SInv'
      BY NextSound
<1> QED  BY <1>1, IInvHolds, RoundsHold, InitSound, PTL DEF Spec

(* What a surviving location has loaded no other reports as aborted.       *)
THEOREM AgreementHolds ==
    ASSUME TimelyNetwork
    PROVE  Spec /\ []RecordsKept => []Agreement
<1>1. IInv /\ SInv => Agreement
      BY WhereFact DEF Agreement, SInv, Sound, Atomic, Won, Lost
<1> QED  BY <1>1, IInvHolds, SoundHolds, PTL

(* Once nothing is pending every surviving location has loaded a change,   *)
(* or none has.                                                            *)
THEOREM AtomicityHolds ==
    ASSUME TimelyNetwork
    PROVE  Spec /\ []RecordsKept => []AllOrNothing
<1>1. ASSUME IInv, SInv
      PROVE  AllOrNothing
  <2> SUFFICES ASSUME Quiescent, NEW t \in Tx, NEW k \in alive,
                      applied[k][t] # 0, NEW l \in alive
               PROVE  applied[l][t] > 0
      BY DEF AllOrNothing
  <2>1. applied[k][t] > 0
    <3>1. k \in Locations /\ t \in Tx  BY <1>1, WhereFact
    <3>2. applied[k][t] \in 0 .. 2  BY <1>1, <3>1 DEF IInv, TypeOK
    <3> QED  BY <3>2
  <2>2. Won(t) /\ Sound(t)  BY <1>1, <2>1 DEF Won, SInv
  <2>3. CASE l \in Backups  BY <2>2, <2>3 DEF Quiescent, Sound, Atomic
  <2>4. CASE l \notin Backups
    <3>1. l = active /\ active # NoLocation  BY <1>1, <2>4, WhereFact
    <3>2. tstate[t] = "NONE" /\ caller[t] \notin {"waiting", "committed"}
          BY <1>1 DEF Quiescent, Live, IInv, CallersMatch
    <3> QED  BY <2>2, <3>1, <3>2 DEF Sound, PrimaryKnows
  <2> QED  BY <2>3, <2>4
<1> QED  BY <1>1, IInvHolds, SoundHolds, PTL

-----------------------------------------------------------------------------
(* The records.  A transaction that ends at location k has no record there *)
(* of a commit, and no other record is hidden.                             *)
LEMMA ResolveRecords ==
    ASSUME IInv, SInv, RecordsKept, NEW k, NEW u, Resolved(k, u),
           NEW l \in Locations, NEW t \in Tx,
           DoneStatus(done[l], t) = "COMMITTED"
    PROVE  DoneStatus(done'[l], t) = "COMMITTED"
<1> PICK s : Resolve(k, u, s)  BY DEF Resolved
<1>0. k \in alive /\ u \in Tx  BY DEF Resolved
<1>1. CASE u \in prepared[k] /\ s \in {"COMMITTED", "ABORTED"}
  <2>1. l # k \/ t # u
        BY <1>1 DEF SInv, Sound, Recorded
  <2>2. KeptAt(l, t)  BY <1>0, <1>1, <2>1, ResolveEffect
  <2> QED  BY <2>2 DEF KeptAt
<1>2. CASE ~(u \in prepared[k] /\ s \in {"COMMITTED", "ABORTED"})
      BY <1>2 DEF Resolve, commit_i, rollback_i, cohortVars
<1> QED  BY <1>1, <1>2

\* Whatever the engine does next, the record of a commit is not hidden.
LEMMA NextRecords ==
    ASSUME IInv, RInv, SInv, RecordsKept, [Next]_vars,
           NEW l \in Locations, NEW t \in Tx, DoneStatus(done[l], t) = "COMMITTED"
    PROVE  DoneStatus(done'[l], t) = "COMMITTED"
<1>1. CASE done' = done  BY <1>1
<1>2. ASSUME NEW m \in net, prepare_i(m)
      PROVE  DoneStatus(done'[l], t) = "COMMITTED"
  <2>1. ~Won(m.tx) /\ m.loc \in alive  BY <1>2, PrepareLoses DEF prepare_i
  <2>2. applied[l][t] > 0  BY DEF SInv, Sound, Recorded
  <2>3. l # m.loc \/ t # m.tx  BY <2>1, <2>2 DEF Won
  <2>4. KeptAt(l, t)  BY <1>2, <2>3, PrepareEffect
  <2> QED  BY <2>4 DEF KeptAt
<1>3. ASSUME NEW m \in net,
             commit(m) \/ rollback(m) \/ set_transaction_status_i(m)
      PROVE  DoneStatus(done'[l], t) = "COMMITTED"
      BY <1>3, DecisionResolves, ResolveRecords
<1>4. ASSUME NEW k \in Locations, NEW u \in Tx, on_timeout(k, u)
      PROVE  DoneStatus(done'[l], t) = "COMMITTED"
      BY <1>1, <1>4, TimerResolves, ResolveRecords
<1>5. CASE UNCHANGED vars  BY <1>1, <1>5 DEF vars
<1>6. ASSUME NEW u \in Tx, NEW c \in Changes, Request(u, c) \/ RequestLocal(u, c)
      PROVE  done' = done
      BY <1>6 DEF Request, RequestLocal, cohortVars
<1>7. ASSUME NEW u \in Tx, LocalApply(u) \/ handle_timeout(u)
      PROVE  done' = done
      BY <1>7 DEF LocalApply, handle_timeout, cohortVars
<1>8. ASSUME NEW m, ToCoordinator(m) \/ Lose(m) \/ get_transaction_status_i(m)
      PROVE  done' = done
      BY <1>8 DEF ToCoordinator, send_yes, send_no, send_end, Lose,
             send_set_transaction_status, send_get_transaction_status,
             get_transaction_status_i, cohortVars
<1>9. ASSUME NEW k, \/ CrashCohort(k) \/ on_failure(k) \/ activate(k)
                   \/ \E u \in Tx : on_timeout_uncaught(k, u)
      PROVE  done' = done
      BY <1>9 DEF CrashCohort, on_timeout_uncaught, EndProcess, on_failure,
             activate, cohortVars
<1>10. CrashCoordinator \/ EraseLocation => done' = done
       BY DEF CrashCoordinator, EraseLocation, cohortVars
<1> QED  BY <1>1, <1>2, <1>3, <1>4, <1>5, <1>6, <1>7, <1>8, <1>9, <1>10
         DEF Next, ToCohort

(* What a cohort has recorded as committed it never reports as aborted.    *)
THEOREM CommitRecordsFinal ==
    ASSUME TimelyNetwork
    PROVE  Spec /\ []RecordsKept => CommitRecordIsFinal
<1>1. IInv /\ RInv /\ SInv /\ RecordsKept /\ [Next]_vars =>
          [\A l \in Locations, t \in Tx :
              DoneStatus(done[l], t) = "COMMITTED"
                  => DoneStatus(done'[l], t) # "ABORTED"]_vars
      BY NextRecords
<1> QED  BY <1>1, IInvHolds, RoundsHold, SoundHolds, PTL
         DEF Spec, CommitRecordIsFinal

-----------------------------------------------------------------------------
(* The data of the backups.  They load the changes in different orders, but *)
(* a change that one has loaded and another has still to load is the last   *)
(* one on its oids at the first, and no two such changes are in a different *)
(* order.                                                                   *)

\* What a change makes of an oid.
Touches(t, o) == \E i \in DOMAIN change[t] : change[t][i].oid = o

Effect(t, o) ==
    IF \E i \in DOMAIN change[t] : change[t][i].oid = o /\ change[t][i].op = "REMOVAL"
    THEN Absent ELSE t

\* Backup k has still to load t, which backup l has loaded.
Behind(k, l, t) == t \in prepared[k] /\ applied[l][t] > 0

LastOnItsOids ==
    \A k, l \in Backups, t \in Tx, o \in Oids :
        Behind(k, l, t) /\ Touches(t, o) => store[l][o] = Effect(t, o)

SameOrder ==
    \A k, l \in Backups, t, u \in Tx :
        t # u /\ oids_match(change[t], change[u]) =>
            ~(Behind(k, l, t) /\ Behind(l, k, u))

Converging ==
    \A k, l \in Backups, o \in Oids :
        \/ store[k][o] = store[l][o]
        \/ \E t \in Tx : Touches(t, o) /\ (Behind(k, l, t) \/ Behind(l, k, t))

DInv == LastOnItsOids /\ SameOrder /\ Converging

\* A change that applies is loaded on all of its oids, and on no other.
LEMMA LoadedData ==
    ASSUME TypeOK, NEW t \in Tx, NEW s \in [Oids -> Values], NEW o \in Oids,
           validate(s, change[t])
    PROVE  load_state(s, t, change[t])[o] = IF Touches(t, o) THEN Effect(t, o)
                                                             ELSE s[o]
<1> DEFINE c == change[t]
<1>1. c \in Seq([oid : Oids, op : Kinds])  BY ChangeType
<1>2. \A i \in DOMAIN c : \A j \in 1 .. i : Applicable(s, c[j])
      BY <1>1 DEF validate
<1> QED  BY <1>2 DEF load_state, Touches, Effect

\* Two transactions on one oid conflict.
LEMMA TouchMatch ==
    ASSUME NEW t, NEW u, NEW o, Touches(t, o), Touches(u, o)
    PROVE  oids_match(change[t], change[u])
BY DEF Touches, oids_match

\* A step that loads nothing at a backup, and by which a backup prepares or
\* gives up only what no backup has loaded.
DataFrame ==
    /\ Backups' \subseteq Backups
    /\ \A l \in Backups' :
          /\ store'[l] = store[l]
          /\ \A t \in Tx :
                /\ applied'[l][t] > 0 <=> applied[l][t] > 0
                /\ \/ t \in prepared'[l] <=> t \in prepared[l]
                   \/ \A k \in Backups : ~(applied[k][t] > 0)
    /\ \A t \in Tx : change'[t] = change[t] \/ caller[t] = "idle"

\* Such a step keeps the data converging.
LEMMA FrameData ==
    ASSUME IInv, DInv, DataFrame
    PROVE  DInv'
<1>1. ASSUME NEW k \in Backups', NEW l \in Backups', NEW t \in Tx
      PROVE  /\ k \in Backups /\ l \in Backups
             /\ Behind(k, l, t)' <=> Behind(k, l, t)
             /\ Behind(k, l, t) => change'[t] = change[t]
  <2>1. k \in Backups /\ l \in Backups /\ k \in Locations /\ l \in Locations
        BY WhereFact DEF DataFrame
  <2>2. Behind(k, l, t)' <=> Behind(k, l, t)
        BY <2>1 DEF DataFrame, Behind
  <2>3. Behind(k, l, t) => change'[t] = change[t]
        BY <2>1 DEF DataFrame, Behind, IInv, Coordinated, Unborn
  <2> QED  BY <2>1, <2>2, <2>3
<1>2. \A t \in Tx : \A o : change'[t] = change[t] =>
          (Touches(t, o)' <=> Touches(t, o)) /\ Effect(t, o)' = Effect(t, o)
      BY DEF Touches, Effect
<1>3. \A l \in Backups' : store'[l] = store[l]  BY DEF DataFrame
<1>4. LastOnItsOids'
      BY <1>1, <1>2, <1>3 DEF DInv, LastOnItsOids
<1>5. SameOrder'
      BY <1>1 DEF DInv, SameOrder
<1>6. ASSUME NEW k \in Backups', NEW l \in Backups', NEW o \in Oids,
             store'[k][o] # store'[l][o]
      PROVE  \E t \in Tx : Touches(t, o)' /\ (Behind(k, l, t)' \/ Behind(l, k, t)')
  <2>1. k \in Backups /\ l \in Backups
        BY WhereFact DEF DataFrame
  <2>2. store[k][o] # store[l][o]  BY <1>3, <1>6
  <2>3. PICK t \in Tx : Touches(t, o) /\ (Behind(k, l, t) \/ Behind(l, k, t))
        BY <2>1, <2>2 DEF DInv, Converging
  <2>4. /\ Behind(k, l, t)' <=> Behind(k, l, t)
        /\ Behind(l, k, t)' <=> Behind(l, k, t)
        /\ change'[t] = change[t]
        BY <1>1, <2>3
  <2> QED  BY <1>2, <2>3, <2>4
<1>7. Converging'
      BY <1>6 DEF Converging
<1> QED  BY <1>4, <1>5, <1>7 DEF DInv

\* Backup x loads the change of t, which is a winner.
LEMMA LoadData ==
    ASSUME IInv, SInv, DInv, NEW x \in Backups, NEW t \in Tx, t \in prepared[x],
           Won(t), Backups' = Backups, change' = change,
           store' = [store EXCEPT ![x] = load_state(@, t, change[t])],
           LoadedOnly(x, t),
           prepared' = [prepared EXCEPT ![x] = @ \ {t}]
    PROVE  DInv'
<1>1. /\ Backups \subseteq Locations /\ x \in Locations
      /\ \A l \in Locations : prepared'[l] = IF l = x THEN prepared[l] \ {t}
                                                      ELSE prepared[l]
      /\ \A l \in Locations : l # x => store'[l] = store[l]
      /\ store'[x] = load_state(store[x], t, change[t])
      /\ store[x] \in [Oids -> Values]
      BY WhereFact DEF IInv, TypeOK
<1>2. /\ \A o, u : Touches(u, o)' <=> Touches(u, o)
      /\ \A o, u : Effect(u, o)' = Effect(u, o)
      BY DEF Touches, Effect
<1>3. \A o \in Oids : store'[x][o] = IF Touches(t, o) THEN Effect(t, o)
                                                      ELSE store[x][o]
  <2>1. validate(store[x], change[t])
        BY <1>1 DEF IInv, CohortsReady
  <2> QED  BY <1>1, <2>1, LoadedData DEF IInv
\* What is prepared with t at a backup has no oid in common with it.
<1>4. \A l \in Backups : \A u \in prepared[l] : u # t /\ t \in prepared[l] =>
          ~oids_match(change[t], change[u])
  <2>1. \A l \in Locations : \A v, u \in prepared[l] :
            v # u => ~oids_match(change[v], change[u])
        BY DEF IInv, CohortsReady
  <2> QED  BY <1>1, <2>1
<1>5. \A l \in Backups : t \in prepared[l] \/ applied[l][t] > 0
      BY DEF SInv, Sound, Atomic
<1>6. \A l \in Backups, u \in Tx : l # x \/ u # t =>
          applied'[l][u] = applied[l][u]
      BY <1>1 DEF LoadedOnly
<1>7. \A k, l \in Backups, u \in Tx :
          /\ Behind(k, l, u)' => Behind(k, l, u) \/ (l = x /\ u = t)
          /\ u # t => (Behind(k, l, u)' <=> Behind(k, l, u))
      BY <1>1, <1>6 DEF Behind
<1>8. LastOnItsOids'
  <2> SUFFICES ASSUME NEW k \in Backups, NEW l \in Backups, NEW u \in Tx,
                      NEW o \in Oids, Behind(k, l, u)', Touches(u, o)
               PROVE  store'[l][o] = Effect(u, o)
      BY <1>2 DEF LastOnItsOids
  <2>1. CASE l = x /\ u = t  BY <1>3, <2>1
  <2>2. CASE l = x /\ u # t
    <3>1. Behind(k, x, u) /\ store[x][o] = Effect(u, o)
          BY <1>7, <2>2 DEF DInv, LastOnItsOids
    <3>2. ~Touches(t, o)
      <4> SUFFICES ASSUME Touches(t, o) PROVE FALSE
          OBVIOUS
      <4>1. oids_match(change[t], change[u])  BY TouchMatch
      <4>2. t \notin prepared[k]  BY <1>4, <2>2, <3>1, <4>1 DEF Behind
      <4>3. applied[k][t] > 0  BY <1>5, <4>2
      <4>4. Behind(x, k, t)  BY <4>3 DEF Behind
      <4> QED  BY <2>2, <3>1, <4>1, <4>4 DEF DInv, SameOrder
    <3> QED  BY <1>3, <2>2, <3>1, <3>2
  <2>3. CASE l # x
    <3>1. Behind(k, l, u)  BY <1>7, <2>3
    <3> QED  BY <1>1, <2>3, <3>1 DEF DInv, LastOnItsOids
  <2> QED  BY <2>1, <2>2, <2>3
<1>9. SameOrder'
  <2> SUFFICES ASSUME NEW k \in Backups, NEW l \in Backups, NEW u \in Tx,
                      NEW v \in Tx, u # v, oids_match(change[u], change[v]),
                      Behind(k, l, u)', Behind(l, k, v)'
               PROVE  FALSE
      BY DEF SameOrder
  <2>1. oids_match(change[v], change[u])  BY MatchSymmetric
  <2>2. u \in prepared[k] /\ v \in prepared[l]
        BY <1>1 DEF Behind
  <2>3. ~(l = x /\ u = t)  BY <1>4, <2>2
  <2>4. ~(k = x /\ v = t)  BY <1>4, <2>1, <2>2
  <2>5. Behind(k, l, u) /\ Behind(l, k, v)  BY <1>7, <2>3, <2>4
  <2> QED  BY <2>5 DEF DInv, SameOrder
<1>10. Converging'
  <2> SUFFICES ASSUME NEW k \in Backups, NEW l \in Backups, NEW o \in Oids,
                      store'[k][o] # store'[l][o]
               PROVE  \E u \in Tx : /\ Touches(u, o)
                                    /\ Behind(k, l, u)' \/ Behind(l, k, u)'
      BY <1>2 DEF Converging
  <2>1. ASSUME NEW y \in Backups, y # x, store'[x][o] # store'[y][o]
        PROVE  \E u \in Tx : /\ Touches(u, o)
                             /\ Behind(x, y, u)' \/ Behind(y, x, u)'
    <3>1. store'[y] = store[y]  BY <1>1, <2>1
    <3>2. CASE Touches(t, o)
      <4>1. store'[x][o] = Effect(t, o)  BY <1>3, <3>2
      <4>2. ~(applied[y][t] > 0)
        <5>1. applied[y][t] > 0 => Behind(x, y, t)  BY DEF Behind
        <5> QED  BY <2>1, <3>1, <3>2, <4>1, <5>1 DEF DInv, LastOnItsOids
      <4>3. t \in prepared'[y] /\ applied'[x][t] > 0
            BY <1>1, <1>5, <2>1, <4>2 DEF LoadedOnly
      <4> QED  BY <3>2, <4>3 DEF Behind
    <3>3. CASE ~Touches(t, o)
      <4>1. store[x][o] # store[y][o]  BY <1>3, <2>1, <3>1, <3>3
      <4>2. PICK u \in Tx : /\ Touches(u, o)
                            /\ Behind(x, y, u) \/ Behind(y, x, u)
            BY <4>1 DEF DInv, Converging
      <4> QED  BY <1>7, <3>3, <4>2
    <3> QED  BY <3>2, <3>3
  <2>2. CASE k = x \/ l = x  BY <2>1, <2>2
  <2>3. CASE k # x /\ l # x
    <3>1. store[k][o] # store[l][o]  BY <1>1, <2>3
    <3>2. PICK u \in Tx : /\ Touches(u, o)
                          /\ Behind(k, l, u) \/ Behind(l, k, u)
          BY <3>1 DEF DInv, Converging
    <3>3. /\ Behind(k, l, u) => Behind(k, l, u)'
          /\ Behind(l, k, u) => Behind(l, k, u)'
          BY <1>1, <1>6, <2>3 DEF Behind
    <3> QED  BY <3>2, <3>3
  <2> QED  BY <2>2, <2>3
<1> QED  BY <1>8, <1>9, <1>10 DEF DInv

\* The end of a transaction at a location.
LEMMA ResolveData ==
    ASSUME IInv, SInv, DInv, RecordsKept, NEW l, NEW t, Resolved(l, t),
           UNCHANGED <<change, alive, active>>
    PROVE  DInv'
<1> PICK s : /\ Resolve(l, t, s)
             /\ s = "COMMITTED" => Won(t)
             /\ s = "ABORTED" => Lost(t)
    BY DEF Resolved
<1>0. /\ l \in alive /\ t \in Tx /\ l \in Locations /\ Backups' = Backups
      /\ \A k \in Backups : k \in alive /\ k \in Locations
      BY WhereFact DEF Resolved, Backups
<1>1. CASE t \notin prepared[l] \/ s \notin {"COMMITTED", "ABORTED"}
  <2>1. UNCHANGED <<prepared, store, applied>>
        BY <1>1 DEF Resolve, commit_i, rollback_i, cohortVars, dataVars
  <2> QED  BY <1>0, <2>1, FrameData DEF DataFrame
<1>2. CASE t \in prepared[l] /\ s = "ABORTED"
  <2>1. /\ \A k \in Locations, u \in Tx : k # l \/ u # t => KeptAt(k, u)
        /\ applied'[l][t] > 0 <=> applied[l][t] > 0
        BY <1>0, <1>2, ResolveEffect
  <2>2. store' = store
        BY <1>2 DEF Resolve, rollback_i, dataVars
  <2>3. ~Won(t)  BY <1>0, <1>2 DEF SInv, Sound, Atomic
  <2>4. \A k \in Backups : ~(applied[k][t] > 0)
        BY <1>0, <2>3 DEF Won
  <2> QED  BY <1>0, <2>1, <2>2, <2>4, FrameData DEF DataFrame, KeptAt
<1>3. CASE t \in prepared[l] /\ s = "COMMITTED"
  <2>1. /\ store' = [store EXCEPT ![l] = load_state(@, t, change[t])]
        /\ LoadedOnly(l, t)
        /\ prepared' = [prepared EXCEPT ![l] = @ \ {t}]
    <3>1. Load(l, t, change[t])
          BY <1>3 DEF Resolve, commit_i
    <3>2. prepared' = [prepared EXCEPT ![l] = @ \ {t}]
          BY <1>3 DEF Resolve, commit_i, Finish
    <3> QED  BY <1>0, <3>1, <3>2, AppliedFact DEF IInv, Load
  <2>2. CASE l \in Backups
        BY <1>0, <1>3, <2>1, <2>2, LoadData
  <2>3. CASE l \notin Backups
    <3>1. \A k \in Backups : /\ store'[k] = store[k]
                             /\ prepared'[k] = prepared[k]
                             /\ \A u \in Tx : applied'[k][u] = applied[k][u]
          BY <1>0, <2>1, <2>3 DEF LoadedOnly, IInv, TypeOK
    <3> QED  BY <1>0, <3>1, FrameData DEF DataFrame
  <2> QED  BY <2>2, <2>3
<1> QED  BY <1>1, <1>2, <1>3

\* A prepare concerns a transaction that no backup has loaded.
LEMMA PrepareData ==
    ASSUME IInv, RInv, SInv, DInv, RecordsKept, NEW m \in net, prepare_i(m)
    PROVE  DInv'
<1>1. /\ m.tx \in Tx /\ m.loc \in Backups /\ ~Won(m.tx)
      /\ UNCHANGED <<change, store, applied, alive, active>>
      BY PrepareLoses DEF prepare_i, envVars, dataVars
<1>2. \A k \in Backups : k \in alive /\ k \in Locations  BY WhereFact
<1>3. \A k \in Backups : ~(applied[k][m.tx] > 0)  BY <1>1, <1>2 DEF Won
<1>4. \A k \in Locations, u \in Tx : k # m.loc \/ u # m.tx => KeptAt(k, u)
      BY PrepareEffect
<1> QED  BY <1>1, <1>2, <1>3, <1>4, FrameData DEF DataFrame, Backups, KeptAt

\* The steps that touch no data of a backup.
LEMMA StillData ==
    ASSUME IInv, DInv, UNCHANGED prepared, Backups' \subseteq Backups,
           \A l \in Backups : /\ store'[l] = store[l]
                              /\ \A t \in Tx : applied'[l][t] > 0 <=> applied[l][t] > 0,
           \A t \in Tx : change'[t] = change[t] \/ caller[t] = "idle"
    PROVE  DInv'
BY FrameData DEF DataFrame

\* The coordinator loads nothing at a backup.
LEMMA ActsData ==
    ASSUME IInv, SInv, DInv, RecordsKept, CoordinatorActs
    PROVE  DInv'
<1>1. ASSUME NEW m \in net, Dropped(m)
      PROVE  DInv'
      BY <1>1, StillData DEF Dropped, cohortVars, dataVars, Backups
<1>2. ASSUME NEW rs, NEW n, NEW R, Performed(rs, n, R)
      PROVE  DInv'
  <2>1. /\ UNCHANGED prepared /\ change' = change
        /\ \A l \in Backups : store'[l] = store[l]
        BY <1>2 DEF Performed, CoordinatorFrame, cohortVars
  <2>2. \A t \in Tx : Seen(t, rs, n, R)  BY <1>2, SeenFact
  <2>3. Backups' = Backups
        BY <1>2 DEF Performed, CoordinatorFrame, Backups
  <2> QED  BY <2>1, <2>2, <2>3, StillData DEF Seen, KeptAt
<1> QED  BY <1>1, <1>2 DEF CoordinatorActs

\* The clients load at the primary, which is no backup.
LEMMA ClientData ==
    ASSUME IInv, DInv, NEW t \in Tx,
           \/ \E c \in Changes : Request(t, c) \/ RequestLocal(t, c)
           \/ LocalApply(t)
    PROVE  DInv'
<1>1. /\ UNCHANGED <<prepared, alive, active>> /\ Backups' = Backups
      /\ \A u \in Tx : change'[u] = change[u] \/ caller[u] = "idle"
      BY DEF Request, RequestLocal, LocalApply, NextTx, cohortVars, envVars,
             Backups, IInv, TypeOK
<1>2. UNCHANGED dataVars \/ \E c : Load(active, t, c)
      BY DEF Request, RequestLocal, LocalApply
<1>3. \A l \in Backups : l \in Locations /\ l # active
      BY WhereFact DEF Backups
<1>4. ASSUME NEW l \in Backups
      PROVE  /\ store'[l] = store[l]
             /\ \A u \in Tx : applied'[l][u] = applied[l][u]
      BY <1>2, <1>3 DEF Load, dataVars, IInv, TypeOK
<1> QED  BY <1>1, <1>4, StillData

\* A crash leaves fewer backups to agree, and so does the next primary.
LEMMA CrashData ==
    ASSUME IInv, DInv,
           \/ \E l \in Locations : Gone(l) \/ activate(l)
           \/ CrashCoordinator
    PROVE  DInv'
<1>1. UNCHANGED <<change, store, applied>>
      BY DEF Gone, EndProcess, activate, CrashCoordinator, dataVars
<1>2. Backups' \subseteq Backups
      BY WhereFact, ConstantsAssumption
         DEF Gone, EndProcess, activate, CrashCoordinator, Backups
<1>3. \A l \in Backups' : prepared'[l] = prepared[l]
  <2>1. ASSUME NEW x \in Locations, Gone(x) PROVE \A l \in Backups' : l # x
        BY <2>1 DEF Gone, EndProcess, Backups
  <2>2. CrashCoordinator => \A l \in Backups' : l # active
        BY DEF CrashCoordinator, Backups
  <2>3. \A l \in Backups' : l \in Locations  BY <1>2, WhereFact
  <2>4. ASSUME NEW x \in Locations, Gone(x)
        PROVE  \A l \in Backups' : prepared'[l] = prepared[l]
        BY <2>1, <2>3, <2>4 DEF Gone, EndProcess, IInv, TypeOK
  <2>5. CrashCoordinator => \A l \in Backups' : prepared'[l] = prepared[l]
        BY <2>2, <2>3 DEF CrashCoordinator, IInv, TypeOK
  <2>6. ASSUME NEW x \in Locations, activate(x) PROVE prepared' = prepared
        BY <2>6 DEF activate, cohortVars
  <2> QED  BY <2>4, <2>5, <2>6
<1> QED  BY <1>1, <1>2, <1>3, FrameData DEF DataFrame

\* At the start the replicas hold the same data.
LEMMA InitData == Init => DInv
<1> SUFFICES ASSUME Init PROVE DInv
    OBVIOUS
<1>1. /\ \A l \in Locations : prepared[l] = {}
      /\ \A k, l \in Locations : store[k] = store[l]
      /\ Backups \subseteq Locations
      BY DEF Init, Backups
<1> QED  BY <1>1 DEF DInv, LastOnItsOids, SameOrder, Converging, Behind

\* Every step keeps the data converging.
LEMMA NextData ==
    ASSUME TimelyNetwork, IInv, RInv, SInv, DInv, RecordsKept, [Next]_vars
    PROVE  DInv'
<1>1. CASE UNCHANGED vars
      BY <1>1, StillData DEF vars, Backups
<1>2. ASSUME NEW t \in Tx, NEW c \in Changes, Request(t, c) \/ RequestLocal(t, c)
      PROVE  DInv'
      BY <1>2, ClientData
<1>3. ASSUME NEW t \in Tx, LocalApply(t) PROVE DInv'
      BY <1>3, ClientData
<1>5. ASSUME NEW t \in Tx, handle_timeout(t) PROVE DInv'
      BY <1>5, TimeoutActs, ActsData
<1>6. ASSUME NEW m \in net, ToCoordinator(m) PROVE DInv'
  <2>1. CASE send_get_transaction_status(m)
        BY <2>1, StillData
           DEF send_get_transaction_status, cohortVars, envVars, dataVars, Backups
  <2> QED  BY <1>6, <2>1, YesActs, NoActs, EndActs, StatusAnswerActs, ActsData
           DEF ToCoordinator
<1>7. ASSUME NEW m \in net, ToCohort(m) PROVE DInv'
  <2>1. CASE get_transaction_status_i(m)
        BY <2>1, StillData
           DEF get_transaction_status_i, cohortVars, envVars, dataVars, Backups
  <2>2. CASE commit(m) \/ rollback(m) \/ set_transaction_status_i(m)
        BY <2>2, DecisionResolves, ResolveData DEF envVars
  <2> QED  BY <1>7, <2>1, <2>2, PrepareData DEF ToCohort
<1>8. ASSUME NEW m \in net, Lose(m) PROVE DInv'
      BY <1>8, LossActs, ActsData
<1>9. ASSUME NEW l \in Locations, NEW t \in Tx, on_timeout(l, t) PROVE DInv'
  <2>1. UNCHANGED <<change, alive, active>>
        BY <1>9, TimerResolves DEF envVars
  <2>2. CASE Resolved(l, t)  BY <2>1, <2>2, ResolveData
  <2>3. CASE UNCHANGED <<prepared, done, dataVars>>
        BY <2>1, <2>3, StillData DEF dataVars, Backups
  <2> QED  BY <1>9, <2>2, <2>3, TimerResolves
<1>10. ASSUME NEW l \in Locations,
              \/ CrashCohort(l) \/ activate(l)
              \/ \E t \in Tx : on_timeout_uncaught(l, t)
       PROVE  DInv'
       BY <1>10, GoneFact, CrashData
<1>11. ASSUME NEW l \in Locations, on_failure(l) PROVE DInv'
       BY <1>11, FailureActs, ActsData
<1>12. CASE CrashCoordinator  BY <1>12, CrashData
<1>13. CASE EraseLocation
       BY <1>13, StillData DEF EraseLocation, cohortVars, dataVars, Backups
<1> QED  BY <1>1, <1>2, <1>3, <1>5, <1>6, <1>7, <1>8, <1>9, <1>10,
            <1>11, <1>12, <1>13 DEF Next

(* Once nothing is pending the backups hold the same data, in whatever     *)
(* order they have loaded the changes.                                     *)
THEOREM BackupsConverge ==
    ASSUME TimelyNetwork
    PROVE  Spec /\ []RecordsKept => []BackupsEqual
<1>1. IInv /\ RInv /\ SInv /\ DInv /\ RecordsKept /\ [Next]_vars => DInv'
      BY NextData
<1>2. ASSUME IInv, DInv
      PROVE  BackupsEqual
  <2> SUFFICES ASSUME Quiescent, NEW k \in Backups, NEW l \in Backups
               PROVE  store[k] = store[l]
      BY DEF BackupsEqual
  <2>1. \A o \in Oids : store[k][o] = store[l][o]
        BY <1>2 DEF Quiescent, DInv, Converging, Behind
  <2>2. store[k] \in [Oids -> Values] /\ store[l] \in [Oids -> Values]
        BY <1>2, WhereFact DEF IInv, TypeOK
  <2> QED  BY <2>1, <2>2
<1> QED  BY <1>1, <1>2, IInvHolds, RoundsHold, SoundHolds, InitData, PTL
         DEF Spec

-----------------------------------------------------------------------------
(* The engine implements AtomicCommit: what the locations hold, refuse and  *)
(* tell the caller of a transaction, and how a step may change it.          *)
Holders(t) == {l \in Locations : applied[l][t] > 0}

Verdict(t) == CASE caller[t] = "returned" -> "yes"
             [] caller[t] \in {"aborted", "refused"} -> "no"
             [] OTHER -> "nothing"

Moved(t) == \/ AC!Idle(t) \/ AC!SayYes(t) \/ AC!SayNo(t)
            \/ \E l \in alive : AC!Load(t, l) \/ AC!Refuse(t, l) \/ AC!Reconsider(t, l)

\* The refinement mapping, for one transaction.
LEMMA Mapped ==
    ASSUME NEW t \in Tx
    PROVE  /\ AC!Idle(t) <=> /\ Holders(t)' = Holders(t)
                             /\ Refusers(t)' = Refusers(t)
                             /\ Verdict(t)' = Verdict(t)
           /\ \A l : AC!Load(t, l) <=>
                 /\ Refusers(t) = {} /\ Verdict(t) # "no"
                 /\ Holders(t)' = Holders(t) \cup {l}
                 /\ Refusers(t)' = {} /\ Verdict(t)' = Verdict(t)
           /\ \A l : AC!Refuse(t, l) <=>
                 /\ Holders(t) \cap alive = {} /\ Verdict(t) # "yes"
                 /\ Holders(t)' = Holders(t)
                 /\ Refusers(t)' = Refusers(t) \cup {l} /\ Verdict(t)' = Verdict(t)
           /\ \A l : AC!Reconsider(t, l) <=>
                 /\ l \in Refusers(t) \cap Backups
                 /\ Holders(t)' = Holders(t)
                 /\ Refusers(t)' = Refusers(t) \ {l} /\ Verdict(t)' = Verdict(t)
           /\ AC!SayYes(t) <=>
                 /\ active \in alive /\ Verdict(t) = "nothing"
                 /\ Refusers(t) = {} /\ Backups \subseteq Holders(t)
                 /\ Holders(t)' = Holders(t) \cup {active}
                 /\ Refusers(t)' = {} /\ Verdict(t)' = "yes"
           /\ AC!SayNo(t) <=>
                 /\ Verdict(t) = "nothing" /\ Holders(t) = {}
                 /\ Holders(t)' = {}
                 /\ Refusers(t)' = Refusers(t) /\ Verdict(t)' = "no"
<1> DEFINE h == [u \in Tx |-> {l \in Locations : applied[l][u] > 0}]
           r == [u \in Tx |-> Refusers(u)]
           a == [u \in Tx |-> CASE caller[u] = "returned" -> "yes"
                                [] caller[u] \in {"aborted", "refused"} -> "no"
                                [] OTHER -> "nothing"]
<1>1. /\ h[t] = Holders(t) /\ r[t] = Refusers(t) /\ a[t] = Verdict(t)
      /\ h'[t] = Holders(t)' /\ r'[t] = Refusers(t)' /\ a'[t] = Verdict(t)'
      BY DEF Holders, Verdict
<1>2. Backups = AC!Backups  BY DEF Backups, AC!Backups
<1> HIDE DEF h, r, a
<1> QED  BY <1>1, <1>2
         DEF AC!Becomes, AC!Idle, AC!Load, AC!Refuse, AC!Reconsider, AC!SayYes,
             AC!SayNo, h, r, a

\* Nothing happens to what is known of t.
LEMMA IdleMoves ==
    ASSUME NEW t \in Tx, Holders(t)' = Holders(t), Refusers(t)' = Refusers(t),
           Verdict(t)' = Verdict(t)
    PROVE  Moved(t)
BY Mapped DEF Moved

\* A survivor loads a transaction that has won.
LEMMA LoadMoves ==
    ASSUME ~TimerOverlaps,
           IInv', SInv, SInv', NEW t \in Tx, NEW l \in alive, l \in Locations,
           alive' = alive, Won(t), Holders(t)' = Holders(t) \cup {l},
           caller'[t] = caller[t]
    PROVE  Moved(t)
<1>1. applied'[l][t] > 0  BY DEF Holders
<1>2. Refusers(t) = {}  BY DEF SInv, Sound, Atomic, Lost
<1>3. Refusers(t)' = {}  BY <1>1 DEF SInv, Sound, Atomic, Lost, Won
<1>4. Verdict(t)' = Verdict(t)  BY DEF Verdict
<1>5. Verdict(t) # "no"
  <2>1. caller'[t] \notin {"aborted", "refused"}
        BY <1>1 DEF IInv, RefusalsKept, CommitsDecided, OnlyCommittedIsApplied
  <2> QED  BY <2>1 DEF Verdict
<1>6. AC!Load(t, l)
      BY <1>2, <1>3, <1>4, <1>5, Mapped
<1> QED  BY <1>6 DEF Moved

\* A survivor learns that t is aborted.
LEMMA RefuseMoves ==
    ASSUME ~TimerOverlaps, IInv', SInv', NEW t \in Tx, NEW l \in alive, alive' = alive,
           Holders(t)' = Holders(t), Refusers(t)' = Refusers(t) \cup {l},
           Verdict(t)' = Verdict(t)
    PROVE  Moved(t)
<1>1. ~Won(t)'  BY DEF SInv, Sound, Atomic, Lost
<1>2. \A k \in alive : ~(applied'[k][t] > 0)  BY <1>1 DEF Won
<1>3. Holders(t) \cap alive = {}  BY <1>2 DEF Holders
<1>4. caller'[t] # "returned"  BY <1>2 DEF IInv, VotesKnown
<1>5. Verdict(t) # "yes"  BY <1>4 DEF Verdict
<1>6. AC!Refuse(t, l)
      BY <1>3, <1>5, Mapped
<1> QED  BY <1>6 DEF Moved

\* The caller of t is told that nobody has loaded it.
LEMMA SayNoMoves ==
    ASSUME ~TimerOverlaps, IInv', NEW t \in Tx, Holders(t)' = Holders(t),
           Refusers(t)' = Refusers(t), Verdict(t) = "nothing",
           caller'[t] \in {"aborted", "refused"}
    PROVE  Moved(t)
<1>1. Verdict(t)' = "no"  BY DEF Verdict
<1>2. Holders(t)' = {}
      BY DEF IInv, RefusalsKept, CommitsDecided, OnlyCommittedIsApplied, Holders
<1>3. AC!SayNo(t)
      BY <1>1, <1>2, Mapped
<1> QED  BY <1>3 DEF Moved

\* The caller of t is told that every survivor has loaded it.
LEMMA SayYesMoves ==
    ASSUME ~TimerOverlaps, IInv', SInv', NEW t \in Tx, UNCHANGED <<alive, active>>,
           active \in alive, active \in Locations, alive \subseteq Locations,
           Refusers(t) = {}, Verdict(t) = "nothing", caller'[t] = "returned",
           Holders(t)' = Holders(t) \cup {active}
    PROVE  Moved(t)
<1>1. \A k \in alive : applied'[k][t] > 0  BY DEF IInv, VotesKnown
<1>2. Verdict(t)' = "yes"  BY DEF Verdict
<1>3. Refusers(t)' = {}  BY <1>1 DEF SInv, Sound, Atomic, Lost, Won
<1>4. Backups \subseteq Holders(t)
      BY <1>1 DEF Holders, Backups
<1>5. AC!SayYes(t)
      BY <1>2, <1>3, <1>4, Mapped
<1> QED  BY <1>5 DEF Moved

\* Such moves of the transactions are a step of AtomicCommit.
LEMMA MovesStep ==
    ASSUME IInv', UNCHANGED <<alive, active>>, \A t \in Tx : Moved(t)
    PROVE  AC!Next
<1>1. \A t \in Tx : Refusers(t)' \subseteq Locations
      BY DEF IInv, TypeOK, Refusers, Backups
<1>2. AC!Work
      BY <1>1 DEF AC!Work, Moved
<1> QED  BY <1>2 DEF AC!Next

\* What the locations answer about t changes by their records only.
LEMMA RefusersFact ==
    ASSUME NEW t \in Tx, UNCHANGED <<alive, active>>,
           get_transaction_status(t)' = get_transaction_status(t),
           \A l \in Backups : KeptAt(l, t)
    PROVE  Refusers(t)' = Refusers(t)
BY DEF Refusers, Backups, KeptAt

\* ... by the state of the coordinator,
LEMMA DecisionRefusers ==
    ASSUME NEW t \in Tx, UNCHANGED <<alive, active>>, active \in alive,
           get_transaction_status(t)' = "ABORTED",
           \A l \in Backups : KeptAt(l, t)
    PROVE  Refusers(t)' = Refusers(t) \cup {active}
BY DEF Refusers, Backups, KeptAt

\* A step by which nobody learns or tells anything.
LEMMA StillMoves ==
    ASSUME IInv', UNCHANGED <<coordVars, alive, active, prepared, done, applied>>
    PROVE  AC!Next
<1>1. ASSUME NEW t \in Tx PROVE Moved(t)
  <2>1. Holders(t)' = Holders(t) /\ Verdict(t)' = Verdict(t)
        BY DEF Holders, Verdict, coordVars
  <2>2. Refusers(t)' = Refusers(t)
        BY DEF Refusers, Backups, get_transaction_status, coordVars
  <2> QED  BY <2>1, <2>2, IdleMoves
<1> QED  BY <1>1, MovesStep

\* A step of the coordinator: a transaction that is aborted is refused by the
\* primary, one that it learns to be committed is loaded by it, a client whose
\* transaction has ended aborted is told no; the rest is internal.
LEMMA PerformedMoves ==
    ASSUME IInv, IInv', RInv, SInv, SInv', RecordsKept, NEW rs, NEW n, NEW R,
           Performed(rs, n, R)
    PROVE  AC!Next
<1> SUFFICES ASSUME NEW t \in Tx PROVE Moved(t)
    BY MovesStep DEF Performed, CoordinatorFrame
<1>1. Seen(t, rs, n, R) /\ Triggered(rs, n, R) /\ ~TimerOverlaps
      BY SeenFact DEF Performed
<1>2. /\ UNCHANGED <<alive, active>> /\ active \in alive /\ active \in Locations
      /\ \A l \in Backups : KeptAt(l, t)
      /\ Stepped(t, rs[t])
      /\ DoneStatus(cdone', t) = IF tstate[t] # "NONE" /\ tstate'[t] = "NONE"
                                 THEN tstate[t] ELSE DoneStatus(cdone, t)
      BY <1>1, WhereFact DEF Seen
<1>3. \/ Holders(t)' = Holders(t)
      \/ tstate[t] = "RECOVERING" /\ tstate'[t] = "COMMITTED"
      BY <1>1 DEF Seen, Holders
<1>4. CASE Stays(t)
  <2>1. Holders(t)' = Holders(t) /\ Verdict(t)' = Verdict(t)
        BY <1>3, <1>4 DEF Stays, Verdict
  <2>2. get_transaction_status(t)' = get_transaction_status(t)
        BY <1>2, <1>4 DEF Stays, get_transaction_status
  <2> QED  BY <1>2, <2>1, <2>2, RefusersFact, IdleMoves
<1>5. CASE \/ Enters(t, "RECOVERING", "ABORTED")
           \/ Enters(t, "COLLECTING", "ABORTED")
  <2>1. Holders(t)' = Holders(t) /\ Verdict(t)' = Verdict(t)
        BY <1>3, <1>5 DEF Enters, Verdict
  <2>2. get_transaction_status(t)' = "ABORTED"
        BY <1>5 DEF Enters, get_transaction_status
  <2> QED  BY <1>1, <1>2, <2>1, <2>2, DecisionRefusers, RefuseMoves
<1>6. CASE Enters(t, "RECOVERING", "COMMITTED")
  <2>1. PICK m \in net : /\ m.tx = t /\ m.type = "status" /\ Heeded(m)
                         /\ m.status = "COMMITTED"
        BY <1>1, <1>6 DEF Triggered, Enters
  <2>2. Won(t)  BY <2>1 DEF Won, SaysCommitted
  <2>3. applied'[active][t] > 0  BY <1>1, <1>6 DEF Triggered, Enters
  <2>4. Holders(t)' = Holders(t) \cup {active}
        BY <1>1, <1>2, <2>3 DEF Seen, Holders
  <2> QED  BY <1>1, <1>2, <1>6, <2>2, <2>4, LoadMoves DEF Enters
<1>7. CASE \/ Enters(t, "COLLECTING", "COMMITTED")
           \/ Enters(t, "WAITING", "COLLECTING")
           \/ Enters(t, "WAITING", "COMMITTED")
  <2>1. Holders(t)' = Holders(t) /\ Verdict(t)' = Verdict(t)
        BY <1>3, <1>7 DEF Enters, Verdict
  <2>2. get_transaction_status(t) # "ABORTED" /\ get_transaction_status(t)' # "ABORTED"
        BY <1>7 DEF Enters, get_transaction_status
  <2>3. Refusers(t)' = Refusers(t)
        BY <1>2, <2>2 DEF Refusers, Backups, KeptAt
  <2> QED  BY <2>1, <2>3, IdleMoves
<1>8. CASE Ended(t, "COMMITTED", "committed") \/ Ended(t, "ABORTED", "aborted")
  <2>1. Holders(t)' = Holders(t)  BY <1>3, <1>8 DEF Ended
  <2>2. get_transaction_status(t)' = get_transaction_status(t)
        BY <1>2, <1>8 DEF Ended, get_transaction_status
  <2>3. Refusers(t)' = Refusers(t)  BY <1>2, <2>2, RefusersFact
  <2>4. CASE caller[t] = "waiting" /\ Ended(t, "ABORTED", "aborted")
    <3>1. Verdict(t) = "nothing" /\ caller'[t] = "aborted"
          BY <2>4 DEF Ended, Verdict
    <3> QED  BY <1>1, <2>1, <2>3, <3>1, SayNoMoves
  <2>5. CASE ~(caller[t] = "waiting" /\ Ended(t, "ABORTED", "aborted"))
    <3>1. Verdict(t)' = Verdict(t)  BY <1>8, <2>5 DEF Ended, Verdict
    <3> QED  BY <2>1, <2>3, <3>1, IdleMoves
  <2> QED  BY <2>4, <2>5
<1> QED  BY <1>2, <1>4, <1>5, <1>6, <1>7, <1>8 DEF Stepped

\* So does an answer that is dropped: it is no step of AtomicCommit.
LEMMA ActsMoves ==
    ASSUME IInv, IInv', RInv, SInv, SInv', RecordsKept, CoordinatorActs
    PROVE  AC!Next
<1>1. ASSUME NEW m \in net, Dropped(m)
      PROVE  AC!Next
      BY <1>1, StillMoves DEF Dropped, cohortVars, dataVars
<1> QED  BY <1>1, PerformedMoves DEF CoordinatorActs

\* A cohort ends t: it loads what has won, or refuses what is lost.
LEMMA ResolveMoves ==
    ASSUME ~TimerOverlaps,
           IInv, IInv', SInv, SInv', RecordsKept, NEW l, NEW t, Resolved(l, t),
           UNCHANGED <<coordVars, alive, active>>
    PROVE  AC!Next
<1> PICK s : /\ Resolve(l, t, s)
             /\ s = "COMMITTED" => Won(t)
             /\ s = "ABORTED" => Lost(t)
    BY DEF Resolved
<1>0. l \in alive /\ l \in Locations /\ t \in Tx
      BY WhereFact DEF Resolved
<1>1. CASE ~(t \in prepared[l] /\ s \in {"COMMITTED", "ABORTED"})
  <2>1. UNCHANGED <<cohortVars, dataVars>>
        BY <1>1 DEF Resolve, commit_i, rollback_i
  <2> QED  BY <2>1, StillMoves DEF cohortVars, dataVars
<1>2. CASE t \in prepared[l] /\ s \in {"COMMITTED", "ABORTED"}
  <2>1. /\ \A k \in Locations, u \in Tx : k # l \/ u # t => KeptAt(k, u)
        /\ t \notin prepared'[l]
        /\ s = "COMMITTED" => applied'[l][t] > 0
        /\ s = "ABORTED" => (applied'[l][t] > 0 <=> applied[l][t] > 0)
        /\ s = "ABORTED" => DoneStatus(done'[l], t) = "ABORTED"
        BY <1>0, <1>2, ResolveEffect
  <2>2. \A k \in Backups : k \in Locations  BY WhereFact
  <2>3. \A u \in Tx : /\ Verdict(u)' = Verdict(u) /\ caller'[u] = caller[u]
                      /\ get_transaction_status(u)' = get_transaction_status(u)
        BY DEF Verdict, get_transaction_status, coordVars
  <2>4. ASSUME NEW u \in Tx, u # t PROVE Moved(u)
    <3>1. Holders(u)' = Holders(u)  BY <2>1, <2>4 DEF Holders, KeptAt
    <3>2. Refusers(u)' = Refusers(u)
          BY <2>1, <2>2, <2>3, <2>4, RefusersFact
    <3> QED  BY <2>3, <3>1, <3>2, IdleMoves
  <2>5. CASE s = "COMMITTED"
    <3>1. Holders(t)' = Holders(t) \cup {l}
          BY <1>0, <2>1, <2>5 DEF Holders, KeptAt
    <3>2. Moved(t)  BY <1>0, <2>3, <2>5, <3>1, LoadMoves
    <3> QED  BY <2>4, <3>2, MovesStep
  <2>6. CASE s = "ABORTED"
    <3>1. Holders(t)' = Holders(t)
          BY <1>0, <2>1, <2>6 DEF Holders, KeptAt
    <3>2. CASE l \in Backups
      <4>1. Refusers(t)' = Refusers(t) \cup {l}
            BY <1>0, <2>1, <2>2, <2>3, <2>6, <3>2 DEF Refusers, Backups, KeptAt
      <4>2. Moved(t)  BY <1>0, <2>3, <3>1, <4>1, RefuseMoves
      <4> QED  BY <2>4, <4>2, MovesStep
    <3>3. CASE l \notin Backups
      <4>1. Refusers(t)' = Refusers(t)
            BY <1>0, <2>1, <2>2, <2>3, <3>3, RefusersFact
      <4>2. Moved(t)  BY <1>0, <2>3, <3>1, <4>1, IdleMoves
      <4> QED  BY <2>4, <4>2, MovesStep
    <3> QED  BY <3>2, <3>3
  <2> QED  BY <1>2, <2>5, <2>6
<1> QED  BY <1>1, <1>2

\* A cohort that prepares t reconsiders it, one that cannot refuses it.
LEMMA PrepareMoves ==
    ASSUME ~TimerOverlaps,
           IInv, IInv', RInv, SInv, SInv', RecordsKept, NEW m \in net, prepare_i(m)
    PROVE  AC!Next
<1> DEFINE l == m.loc
           t == m.tx
<1>1. /\ t \in Tx /\ l \in Backups /\ l \in alive /\ l \in Locations
      /\ \A k \in Backups : k \in Locations
      BY PrepareLoses, WhereFact DEF prepare_i
<1>2. /\ applied' = applied
      /\ \A k \in Locations, u \in Tx : k # l \/ u # t => KeptAt(k, u)
      BY PrepareEffect
<1>3. /\ UNCHANGED <<coordVars, alive, active>>
      BY DEF prepare_i, envVars
<1>4. \A u \in Tx : /\ Holders(u)' = Holders(u) /\ Verdict(u)' = Verdict(u)
                    /\ get_transaction_status(u)' = get_transaction_status(u)
      BY <1>2, <1>3 DEF Holders, Verdict, get_transaction_status, coordVars
<1>5. t \in prepared'[l] \/ DoneStatus(done'[l], t) = "ABORTED"
  <2>1. CASE MayPrepare(l, t)
        BY <1>1, <2>1 DEF prepare_i, IInv, TypeOK
  <2>2. CASE ~MayPrepare(l, t)
    <3>1. done'[l] = SaveTrans(done[l], t, "ABORTED")
          BY <1>1, <2>2 DEF prepare_i, IInv, TypeOK
    <3>2. done[l] \in Seq(Records) /\ Len(done[l]) < MaxDone /\ "ABORTED" \in Statuses
          BY <1>1 DEF IInv, TypeOK, RecordsKept, Statuses
    <3> QED  BY <1>1, <3>1, <3>2, SaveTransStatus
  <2> QED  BY <2>1, <2>2
<1> HIDE DEF l, t
<1>6. ASSUME NEW u \in Tx, u # t PROVE Moved(u)
  <2>1. Refusers(u)' = Refusers(u)
        BY <1>1, <1>2, <1>3, <1>4, <1>6, RefusersFact
  <2> QED  BY <1>4, <1>6, <2>1, IdleMoves
<1>7. CASE t \notin prepared'[l]
  <2>1. Refusers(t)' = Refusers(t) \cup {l}
        BY <1>1, <1>2, <1>3, <1>4, <1>5, <1>7 DEF Refusers, Backups, KeptAt
  <2>2. Moved(t)  BY <1>1, <1>3, <1>4, <2>1, RefuseMoves
  <2> QED  BY <1>3, <1>6, <2>2, MovesStep
<1>8. CASE t \in prepared'[l]
  <2>1. Refusers(t)' = Refusers(t) \ {l}
        BY <1>1, <1>2, <1>3, <1>4, <1>8 DEF Refusers, Backups, KeptAt
  <2>2. CASE l \in Refusers(t)
    <3>1. AC!Reconsider(t, l)  BY <1>1, <1>4, <2>1, <2>2, Mapped
    <3>2. Moved(t)  BY <1>1, <3>1 DEF Moved
    <3> QED  BY <1>3, <1>6, <3>2, MovesStep
  <2>3. CASE l \notin Refusers(t)
    <3>1. Refusers(t)' = Refusers(t)  BY <2>1, <2>3
    <3>2. Moved(t)  BY <1>1, <1>4, <3>1, IdleMoves
    <3> QED  BY <1>3, <1>6, <3>2, MovesStep
  <2> QED  BY <2>2, <2>3
<1> QED  BY <1>7, <1>8

\* A client is refused, waits, or is told yes where nobody else holds the data.
LEMMA ClientMoves ==
    ASSUME ~TimerOverlaps, IInv, IInv', SInv, SInv', NEW t \in Tx,
           \/ \E c \in Changes : Request(t, c) \/ RequestLocal(t, c)
           \/ LocalApply(t)
    PROVE  AC!Next
<1>1. /\ UNCHANGED <<alive, active, cdone, prepared, done>>
      /\ active \in alive /\ active \in Locations /\ alive \subseteq Locations
      /\ \A u \in Tx : u # t => caller'[u] = caller[u] /\ tstate'[u] = tstate[u]
  <2>1. UNCHANGED <<alive, active, cdone, prepared, done>>
        BY DEF Request, RequestLocal, LocalApply, cohortVars, envVars
  <2>2. active # NoLocation
        BY DEF Request, RequestLocal, LocalApply, IInv, Coordinated
  <2>3. \A c : Request(t, c) =>
            \A u \in Tx : u # t => caller'[u] = caller[u] /\ tstate'[u] = tstate[u]
        BY RequestEffect DEF IInv
  <2>4. \A c : RequestLocal(t, c) =>
            \A u \in Tx : u # t => caller'[u] = caller[u] /\ tstate'[u] = tstate[u]
        BY DEF RequestLocal, IInv, TypeOK
  <2>5. LocalApply(t) =>
            \A u \in Tx : u # t => caller'[u] = caller[u] /\ tstate'[u] = tstate[u]
        BY DEF LocalApply, IInv, TypeOK
  <2> QED  BY <2>1, <2>2, <2>3, <2>4, <2>5, WhereFact
<1>2. \/ /\ caller[t] = "idle" /\ applied' = applied
         /\ caller'[t] \in {"refused", "waiting"}
         /\ tstate'[t] \in {tstate[t], "COLLECTING", "WAITING"}
      \/ /\ caller[t] \in {"idle", "committed"} /\ LoadedOnly(active, t)
         /\ caller'[t] = "returned"
  <2>1. ASSUME NEW c \in Changes, Request(t, c)
        PROVE  /\ caller[t] = "idle" /\ applied' = applied
               /\ caller'[t] \in {"refused", "waiting"}
               /\ tstate'[t] \in {tstate[t], "COLLECTING", "WAITING"}
        BY <2>1, RequestEffect DEF IInv
  <2>2. ASSUME NEW c \in Changes, RequestLocal(t, c)
        PROVE  /\ caller[t] = "idle" /\ tstate' = tstate
               /\ \/ caller'[t] = "refused" /\ applied' = applied
                  \/ caller'[t] = "returned" /\ Load(active, t, c)
        BY <2>2 DEF RequestLocal, NextTx, dataVars, IInv, TypeOK
  <2>3. LocalApply(t) => /\ caller[t] = "committed" /\ caller'[t] = "returned"
                         /\ Load(active, t, change[t])
        BY DEF LocalApply, IInv, TypeOK
  <2>4. \A c : Load(active, t, c) => LoadedOnly(active, t)
        BY <1>1, AppliedFact DEF IInv
  <2> QED  BY <2>1, <2>2, <2>3, <2>4
<1>3. ASSUME NEW u \in Tx, u # t PROVE Moved(u)
  <2>1. \A l \in Locations : applied'[l][u] = applied[l][u]
        BY <1>1, <1>2, <1>3 DEF LoadedOnly
  <2>2. Holders(u)' = Holders(u) /\ Verdict(u)' = Verdict(u)
        BY <1>1, <1>3, <2>1 DEF Holders, Verdict
  <2>3. Refusers(u)' = Refusers(u)
        BY <1>1, <1>3 DEF Refusers, Backups, get_transaction_status
  <2> QED  BY <2>2, <2>3, IdleMoves
<1>4. caller[t] = "idle" =>
          /\ get_transaction_status(t) = "UNKNOWN" /\ Refusers(t) = {}
          /\ tstate[t] = "NONE" /\ DoneStatus(cdone, t) = "UNKNOWN"
          /\ \A l \in Backups : DoneStatus(done[l], t) = "UNKNOWN"
      BY WhereFact DEF IInv, Coordinated, Unborn, SInv, Sound, Recorded,
                       get_transaction_status, Refusers
<1>5. CASE /\ caller[t] = "idle" /\ applied' = applied
           /\ caller'[t] \in {"refused", "waiting"}
           /\ tstate'[t] \in {tstate[t], "COLLECTING", "WAITING"}
  <2>1. Holders(t)' = Holders(t) /\ Verdict(t) = "nothing"
        BY <1>5 DEF Holders, Verdict
  <2>2. get_transaction_status(t)' # "ABORTED"
        BY <1>1, <1>4, <1>5 DEF get_transaction_status
  <2>3. Refusers(t)' = Refusers(t)
        BY <1>1, <1>4, <1>5, <2>2 DEF Refusers, Backups
  <2>4. caller'[t] = "refused" => Moved(t)
        BY <2>1, <2>3, SayNoMoves
  <2>5. caller'[t] = "waiting" => Verdict(t)' = Verdict(t)
        BY <2>1 DEF Verdict
  <2>6. Moved(t)  BY <1>5, <2>1, <2>3, <2>4, <2>5, IdleMoves
  <2> QED  BY <1>1, <1>3, <2>6, MovesStep
<1>6. CASE /\ caller[t] \in {"idle", "committed"} /\ LoadedOnly(active, t)
           /\ caller'[t] = "returned"
  <2>1. Verdict(t) = "nothing"  BY <1>6 DEF Verdict
  <2>2. Refusers(t) = {}
        BY <1>4, <1>6 DEF SInv, Sound, Atomic, Lost, Won
  <2>3. Holders(t)' = Holders(t) \cup {active}
    <3>1. \A l \in Locations : applied'[l][t] > 0 <=> applied[l][t] > 0 \/ l = active
          BY <1>1, <1>6 DEF LoadedOnly
    <3> QED  BY <1>1, <3>1 DEF Holders
  <2>4. Moved(t)  BY <1>1, <1>6, <2>1, <2>2, <2>3, SayYesMoves
  <2> QED  BY <1>1, <1>3, <2>4, MovesStep
<1> QED  BY <1>2, <1>5, <1>6

\* A location crashes.
LEMMA CrashMoves ==
    ASSUME IInv, NEW l \in Locations, Gone(l) \/ (CrashCoordinator /\ l = active)
    PROVE  AC!Next
<1>1. /\ l \in alive /\ alive' = alive \ {l}
      /\ active' = IF active = l THEN NoLocation ELSE active
      /\ UNCHANGED <<done, applied>>
      /\ Backups' = Backups \ {l}
      /\ \A k \in Locations : k # l => prepared'[k] = prepared[k]
  <2>1. CASE Gone(l)
    <3>1. /\ l \in alive /\ l # active /\ alive' = alive \ {l}
          /\ UNCHANGED <<active, done, applied>>
          BY <2>1 DEF Gone, EndProcess, dataVars
    <3>2. \A k \in Locations : k # l => prepared'[k] = prepared[k]
          BY <2>1 DEF Gone, EndProcess, IInv, TypeOK
    <3> QED  BY <3>1, <3>2 DEF Backups
  <2>2. CASE CrashCoordinator /\ l = active
    <3>1. /\ l \in alive /\ alive' = alive \ {l} /\ active' = NoLocation
          /\ UNCHANGED <<done, applied>>
          BY <2>2, WhereFact DEF CrashCoordinator, dataVars
    <3>2. \A k \in Locations : k # l => prepared'[k] = prepared[k]
          BY <2>2 DEF CrashCoordinator, IInv, TypeOK
    <3>3. NoLocation \notin alive  BY WhereFact
    <3> QED  BY <2>2, <3>1, <3>2, <3>3 DEF Backups
  <2> QED  BY <2>1, <2>2
<1>2. \A t \in Tx : /\ Holders(t)' = Holders(t) /\ Verdict(t)' = Verdict(t)
                    /\ active # l => get_transaction_status(t)' = get_transaction_status(t)
  <2>1. \A t \in Tx : Holders(t)' = Holders(t)  BY <1>1 DEF Holders
  <2>2. \A t \in Tx : Verdict(t)' = Verdict(t)
        BY DEF Gone, EndProcess, CrashCoordinator, coordVars, Verdict
  <2>3. ASSUME active # l, NEW t \in Tx
        PROVE  get_transaction_status(t)' = get_transaction_status(t)
        BY <2>3 DEF Gone, EndProcess, coordVars, get_transaction_status
  <2> QED  BY <2>1, <2>2, <2>3
<1>3. \A t \in Tx : Refusers(t)' = Refusers(t) \ {l}
      BY <1>1, <1>2, WhereFact DEF Refusers
<1>4. AC!Crash(l)
      BY <1>1, <1>2, <1>3 DEF AC!Crash, Holders, Verdict
<1> QED  BY <1>1, <1>4 DEF AC!Next

\* A survivor takes over.
LEMMA ActivateMoves ==
    ASSUME IInv, NEW x \in Locations, activate(x)
    PROVE  AC!Next
<1>1. /\ UNCHANGED <<done, applied, caller, prepared, alive>>
      /\ x \in alive /\ active = NoLocation /\ active' = x
      BY DEF activate, cohortVars, dataVars
<1>2. \A t \in Tx : get_transaction_status(t)' = IF t \in prepared[x] THEN "UNKNOWN"
                                                 ELSE DoneStatus(done[x], t)
      BY DEF activate, get_transaction_status
<1>3. \A t \in Tx : Refusers(t)' = Refusers(t)
      BY <1>1, <1>2, WhereFact DEF Refusers, Backups
<1>4. AC!TakeOver(x)
      BY <1>1, <1>3 DEF AC!TakeOver
<1> QED  BY <1>4 DEF AC!Next

\* The initial states are initial states of AtomicCommit.
LEMMA InitMoves == Init => AC!Init
<1> SUFFICES ASSUME Init PROVE AC!Init
    OBVIOUS
<1>1. ASSUME NEW t \in Tx
      PROVE  Holders(t) = {} /\ Refusers(t) = {} /\ Verdict(t) = "nothing"
      BY EmptyStatus DEF Init, Holders, Refusers, Backups, Verdict,
                         get_transaction_status
<1> QED  BY <1>1, ConstantsAssumption DEF Init, AC!Init, Holders, Verdict

\* Every step of the engine is a step of AtomicCommit, or none.
LEMMA NextMoves ==
    ASSUME TimelyNetwork, IInv, IInv', RInv, SInv, SInv', RecordsKept, [Next]_vars
    PROVE  [AC!Next]_AC!vars
<1>0. ~TimerOverlaps  BY ConstantsAssumption
<1>1. CASE UNCHANGED vars
      BY <1>1, StillMoves DEF vars, coordVars
<1>2. ASSUME NEW t \in Tx, NEW c \in Changes, Request(t, c) \/ RequestLocal(t, c)
      PROVE  AC!Next
      BY <1>0, <1>2, ClientMoves
<1>3. ASSUME NEW t \in Tx, LocalApply(t) PROVE AC!Next
      BY <1>0, <1>3, ClientMoves
<1>4. ASSUME NEW t \in Tx, handle_timeout(t) PROVE AC!Next
      BY <1>4, TimeoutActs, ActsMoves
<1>5. ASSUME NEW m \in net, ToCoordinator(m) PROVE AC!Next
  <2>1. CASE send_get_transaction_status(m)
        BY <2>1, StillMoves
           DEF send_get_transaction_status, cohortVars, envVars, dataVars
  <2> QED  BY <1>5, <2>1, YesActs, NoActs, EndActs, StatusAnswerActs, ActsMoves
           DEF ToCoordinator
<1>6. ASSUME NEW m \in net, ToCohort(m) PROVE AC!Next
  <2>1. CASE get_transaction_status_i(m)
        BY <2>1, StillMoves
           DEF get_transaction_status_i, cohortVars, envVars, dataVars
  <2>2. CASE commit(m) \/ rollback(m) \/ set_transaction_status_i(m)
        BY <1>0, <2>2, DecisionResolves, ResolveMoves DEF envVars
  <2> QED  BY <1>0, <1>6, <2>1, <2>2, PrepareMoves DEF ToCohort
<1>7. ASSUME NEW m \in net, Lose(m) PROVE AC!Next
      BY <1>7, LossActs, ActsMoves
<1>8. ASSUME NEW l \in Locations, NEW t \in Tx, on_timeout(l, t) PROVE AC!Next
  <2>1. UNCHANGED <<coordVars, alive, active>>
        BY <1>8, TimerResolves DEF envVars
  <2>2. CASE Resolved(l, t)  BY <1>0, <2>1, <2>2, ResolveMoves
  <2>3. CASE UNCHANGED <<prepared, done, dataVars>>
        BY <2>1, <2>3, StillMoves DEF dataVars
  <2> QED  BY <1>8, <2>2, <2>3, TimerResolves
<1>9. ASSUME NEW l \in Locations,
             CrashCohort(l) \/ \E t \in Tx : on_timeout_uncaught(l, t)
      PROVE  AC!Next
      BY <1>9, GoneFact, CrashMoves
<1>10. CASE CrashCoordinator
       BY <1>10, CrashMoves, WhereFact DEF CrashCoordinator
<1>11. ASSUME NEW l \in Locations, on_failure(l) PROVE AC!Next
       BY <1>11, FailureActs, ActsMoves
<1>12. ASSUME NEW l \in Locations, activate(l) PROVE AC!Next
       BY <1>12, ActivateMoves
<1>13. CASE EraseLocation
       BY <1>13, StillMoves DEF EraseLocation, cohortVars, dataVars
<1> QED  BY <1>1, <1>2, <1>3, <1>4, <1>5, <1>6, <1>7, <1>8, <1>9, <1>10,
            <1>11, <1>12, <1>13 DEF Next

(* The engine implements atomic commitment among the survivors, under the  *)
(* same two conditions: whatever a client sees of it, AtomicCommit allows. *)
THEOREM AtomicCommitImplemented ==
    ASSUME TimelyNetwork
    PROVE  Spec /\ []RecordsKept => ImplementsAtomicCommit
<1>1. /\ IInv /\ IInv' /\ RInv /\ SInv /\ SInv' /\ RecordsKept /\ [Next]_vars
          => [AC!Next]_AC!vars
      BY NextMoves
<1> QED  BY <1>1, InitMoves, IInvHolds, RoundsHold, SoundHolds, PTL
         DEF Spec, ImplementsAtomicCommit, AC!Spec
=============================================================================
