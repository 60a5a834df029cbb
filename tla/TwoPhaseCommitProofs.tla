------------------------ MODULE TwoPhaseCommitProofs ------------------------
(***************************************************************************)
(* Proofs about the transaction engine, for any number of locations and    *)
(* transactions, whatever is lost, delayed, duplicated or crashes, and     *)
(* however short the lists of finished transactions are.                   *)
(***************************************************************************)
EXTENDS TwoPhaseCommit, TLAPS, FiniteSetTheorems, WellFoundedInduction

-----------------------------------------------------------------------------
(* The inductive invariant.                                                *)

\* Nothing is known anywhere of a transaction that was not requested yet.
Unborn(t) ==
    /\ tstate[t] = "NONE"
    /\ decided[t] = {}
    /\ \A l \in Locations : t \notin prepared[l] /\ applied[l][t] = 0
    /\ \A m \in net : m.tx # t

\* The primary is up and has every other location that is up as a cohort;
\* without a primary nobody coordinates anything or waits for it.
Coordinated ==
    /\ active # NoLocation => /\ active \in alive
                              /\ active \notin members
                              /\ alive \ {active} \subseteq members
    /\ active = NoLocation => \A t \in Tx : /\ tstate[t] = "NONE"
                                            /\ caller[t] \notin {"waiting", "committed"}
    /\ \A t \in Tx : caller[t] = "idle" => Unborn(t)
    /\ \A l \in Locations : timer[l] \subseteq prepared[l]
    /\ failing \notin alive

\* A transaction that waits or collects has its caller waiting, and a caller
\* that waits has a transaction that was requested here.
CallersMatch ==
    \A t \in Tx :
        /\ tstate[t] \in {"WAITING", "COLLECTING"} => caller[t] = "waiting"
        /\ caller[t] = "waiting" =>
               tstate[t] \in {"WAITING", "COLLECTING", "COMMITTED", "ABORTED"}

\* Of two transactions on one oid one blocks the other, and only a waiting
\* transaction is blocked.
BlockersKnown ==
    /\ \A t, u \in Live :
           t # u /\ oids_match(change[t], change[u])
               => t \in blockers[u] \/ u \in blockers[t]
    /\ \A t \in Tx : blockers[t] # {} => tstate[t] = "WAITING"

\* What a cohort has prepared does not conflict, and applies.
CohortsReady ==
    \A l \in Locations :
        /\ \A t, u \in prepared[l] : t # u => ~oids_match(change[t], change[u])
        /\ l \in Backups => \A t \in prepared[l] : validate(store[l], change[t])

\* Whoever says COMMITTED has it from a decision.
SaysCommitted(m) ==
    \/ m.type = "commit"
    \/ m.type \in {"status", "set_status"} /\ m.status = "COMMITTED"

CommitsDecided ==
    /\ \A t \in Tx : tstate[t] = "COMMITTED" \/ caller[t] = "committed"
                         => "COMMITTED" \in decided[t]
    /\ \A i \in DOMAIN cdone :
           cdone[i].status = "COMMITTED" => "COMMITTED" \in decided[cdone[i].tx]
    /\ \A l \in Locations : \A i \in DOMAIN done[l] :
           done[l][i].status = "COMMITTED" => "COMMITTED" \in decided[done[l][i].tx]
    /\ \A m \in net : SaysCommitted(m) => "COMMITTED" \in decided[m.tx]
    /\ OnlyCommittedIsApplied

\* Nobody has decided to commit what was refused, or is not decided yet.  This
\* and VotesKnown need a timer that keeps out of the handlers: StatusPutBack
\* takes back a decision that has been sent already.
RefusalsKept ==
    ~TimerOverlaps => \A t \in Tx :
        \/ caller[t] \in {"aborted", "refused"}
        \/ caller[t] = "waiting" /\ tstate[t] # "COMMITTED"
        => "COMMITTED" \notin decided[t]

\* The messages by which a cohort gives up, or has ended, a transaction.
GivesUp(m) ==
    \/ m.type = "rollback"
    \/ m.type = "set_status" /\ m.status = "ABORTED"

Ends(m) ==
    \/ m.type \in {"commit", "rollback", "end"}
    \/ m.type = "set_status" /\ m.status \in {"COMMITTED", "ABORTED"}

\* While the coordinator collects, nobody has heard of a decision, and who has
\* said yes is prepared.
Collecting(t) ==
    /\ \A m \in net : m.tx = t => ~Ends(m)
    /\ \A m \in net : m.tx = t /\ m.type = "yes" /\ m.loc \in Backups
                          => t \in prepared[m.loc]
    /\ \A l \in Backups : resp[t][l] = "YES" => t \in prepared[l]

\* After the decision to commit nobody gives up, who is not prepared any more
\* has loaded the change, and so has who says so.
Committing(t) ==
    /\ \A m \in net : m.tx = t => ~GivesUp(m)
    /\ \A l \in Backups : t \in prepared[l] \/ applied[l][t] > 0
    /\ \A m \in net : m.tx = t /\ m.type = "end" /\ m.loc \in Backups
                          => applied[m.loc][t] > 0
    /\ \A l \in Backups : resp[t][l] = "END" => applied[l][t] > 0

VotesKnown ==
    ~TimerOverlaps => \A t \in Tx :
        /\ caller[t] = "waiting" =>
               /\ Backups \subseteq DOMAIN resp[t]
               /\ tstate[t] \in {"WAITING", "COLLECTING"} => Collecting(t)
               /\ tstate[t] = "COMMITTED" => Committing(t)
        /\ caller[t] = "committed" => \A l \in Backups : applied[l][t] > 0
        /\ caller[t] = "returned" => \A l \in alive : applied[l][t] > 0

IInv ==
    /\ TypeOK
    /\ Coordinated
    /\ CallersMatch
    /\ BlockersKnown
    /\ CohortsReady
    /\ CommitsDecided
    /\ RefusalsKept
    /\ VotesKnown

-----------------------------------------------------------------------------
(* An element of a sequence is of its type.                                *)
LEMMA SeqElement ==
    ASSUME NEW S, NEW s \in Seq(S), NEW i \in DOMAIN s
    PROVE  s[i] \in S
OBVIOUS

(* The data: oids_match is symmetric,                                      *)
LEMMA MatchSymmetric ==
    ASSUME NEW c, NEW d
    PROVE  oids_match(c, d) <=> oids_match(d, c)
BY DEF oids_match

(* loading a change writes its own oids only,                              *)
LEMMA LoadElsewhere ==
    ASSUME NEW s \in [Oids -> Values], NEW t, NEW c, NEW o \in Oids,
           \A i \in DOMAIN c : c[i].oid # o
    PROVE  load_state(s, t, c)[o] = s[o]
BY DEF load_state

(* so that a change that applied still applies if it has no oid in common; *)
LEMMA LoadKeepsValid ==
    ASSUME NEW s \in [Oids -> Values], NEW t,
           NEW c \in Seq([oid : Oids, op : Kinds]),
           NEW d \in Seq([oid : Oids, op : Kinds]),
           ~oids_match(c, d), validate(s, d)
    PROVE  validate(load_state(s, t, c), d)
<1> SUFFICES ASSUME NEW i \in DOMAIN d
             PROVE  Applicable(load_state(s, t, c), d[i])
    BY DEF validate
<1>1. d[i].oid \in Oids
  <2>1. d[i] \in [oid : Oids, op : Kinds]  BY SeqElement
  <2> QED  BY <2>1
<1>2. \A j \in DOMAIN c : c[j].oid # d[i].oid  BY DEF oids_match
<1>3. load_state(s, t, c)[d[i].oid] = s[d[i].oid]
      BY <1>1, <1>2, LoadElsewhere
<1>4. Applicable(s, d[i])  BY DEF validate
<1> QED  BY <1>3, <1>4 DEF Applicable

(* the data keeps its type;                                                *)
LEMMA LoadType ==
    ASSUME NEW s \in [Oids -> Values], NEW t \in Tx, NEW c
    PROVE  load_state(s, t, c) \in [Oids -> Values]
<1>1. t \in Values /\ Absent \in Values
      BY ConstantsAssumption DEF Values, Absent, Tx
<1> QED  BY <1>1 DEF load_state

-----------------------------------------------------------------------------
(* The lists of finished transactions: what is left of a list was in it,   *)
LEMMA TrimFact ==
    ASSUME NEW d \in Seq(Records)
    PROVE  /\ Trim(d) \in Seq(Records)
           /\ Len(Trim(d)) <= MaxDone
           /\ \A i \in DOMAIN Trim(d) : i \in DOMAIN d /\ Trim(d)[i] = d[i]
<1>1. MaxDone \in Nat  BY ConstantsAssumption
<1>2. CASE Len(d) > MaxDone
  <2>1. /\ SubSeq(d, 1, MaxDone) \in Seq(Records)
        /\ Len(SubSeq(d, 1, MaxDone)) = MaxDone
        /\ \A i \in 1 .. MaxDone : SubSeq(d, 1, MaxDone)[i] = d[i]
        BY <1>1, <1>2
  <2> QED  BY <1>1, <1>2, <2>1 DEF Trim
<1>3. CASE Len(d) <= MaxDone  BY <1>1, <1>3 DEF Trim
<1> QED  BY <1>1, <1>2, <1>3

(* and an entry of the new list is the new entry or an old one.            *)
LEMMA SaveTransFact ==
    ASSUME NEW d \in Seq(Records), NEW t \in Tx, NEW s \in Statuses
    PROVE  /\ SaveTrans(d, t, s) \in Seq(Records)
           /\ Len(SaveTrans(d, t, s)) <= MaxDone
           /\ \A i \in DOMAIN SaveTrans(d, t, s) :
                 \/ SaveTrans(d, t, s)[i] = [tx |-> t, status |-> s]
                 \/ \E j \in DOMAIN d : SaveTrans(d, t, s)[i] = d[j]
<1> DEFINE e == [tx |-> t, status |-> s]
           n == <<e>> \o d
<1>1. e \in Records  BY DEF Records
<1>2. n \in Seq(Records)  BY <1>1
<1>3. \A i \in DOMAIN n : n[i] = e \/ \E j \in DOMAIN d : n[i] = d[j]
  <2> SUFFICES ASSUME NEW i \in DOMAIN n, i # 1
               PROVE  n[i] = d[i - 1] /\ i - 1 \in DOMAIN d
      BY <1>1
  <2> QED  BY <1>1
<1>4. SaveTrans(d, t, s) = Trim(n)  BY DEF SaveTrans
<1> HIDE DEF n
<1> QED  BY <1>2, <1>3, <1>4, TrimFact

\* What saving several outcomes at once leaves in a list of finished
\* transactions: new records of those, or old ones, and no more than MaxDone.
LEMMA SavedAllFact ==
    ASSUME NEW d \in Seq(Records), NEW S \in SUBSET Tx,
           NEW st \in [S -> Statuses], NEW new, SavedAll(d, S, st, new)
    PROVE  /\ new \in Seq(Records)
           /\ Len(new) <= MaxDone
           /\ \A i \in DOMAIN new :
                 \/ \E t \in S : new[i] = [tx |-> t, status |-> st[t]]
                 \/ \E j \in DOMAIN d : new[i] = d[j]
<1>1. PICK order \in [1 .. Cardinality(S) -> S] :
          new = Trim([i \in DOMAIN order |->
                        [tx |-> order[i], status |-> st[order[i]]]] \o d)
      BY DEF SavedAll
<1> DEFINE N == Cardinality(S)
           e == [i \in DOMAIN order |->
                    [tx |-> order[i], status |-> st[order[i]]]]
           n == e \o d
<1>2. N \in Nat
  <2>1. IsFiniteSet(Tx)  BY ConstantsAssumption, FS_Interval DEF Tx
  <2> QED  BY <2>1, FS_Subset, FS_CardinalityType
<1> HIDE DEF N
<1>3. DOMAIN order = 1 .. N  BY DEF N
<1>4. e \in Seq(Records) /\ Len(e) = N
  <2>1. \A i \in 1 .. N : order[i] \in S  BY <1>3 DEF N
  <2>2. \A i \in 1 .. N : e[i] \in Records  BY <1>3, <2>1 DEF Records
  <2>3. e \in [1 .. N -> Records]  BY <1>3, <2>2
  <2> HIDE DEF e
  <2> QED  BY <1>2, <2>3
<1>5. \A i \in 1 .. N :
          order[i] \in S /\ e[i] = [tx |-> order[i], status |-> st[order[i]]]
      BY <1>3 DEF N
<1> HIDE DEF e
<1>6. n \in Seq(Records)  BY <1>4
<1>7. ASSUME NEW i \in DOMAIN n
      PROVE  \/ \E t \in S : n[i] = [tx |-> t, status |-> st[t]]
             \/ \E j \in DOMAIN d : n[i] = d[j]
  <2>1. CASE i \in 1 .. N
    <3>1. n[i] = e[i]  BY <1>2, <1>4, <2>1
    <3> QED  BY <1>5, <2>1, <3>1
  <2>2. CASE i \notin 1 .. N
    <3>1. n[i] = d[i - N] /\ i - N \in DOMAIN d  BY <1>2, <1>4, <2>2
    <3> QED  BY <3>1
  <2> QED  BY <2>1, <2>2
<1>8. new = Trim(n)  BY <1>1 DEF e
<1> HIDE DEF n
<1> QED  BY <1>6, <1>7, <1>8, TrimFact

(* A nonempty set of naturals has a minimum.                              *)
LEMMA MinFact ==
    ASSUME NEW I \in SUBSET Nat, I # {}
    PROVE  Min(I) \in I /\ \A y \in I : Min(I) <= y
<1>1. PICK x \in I : \A y \in I : ~(<<y, x>> \in OpToRel(<, Nat))
      BY NatLessThanWellFounded, WFMin
<1>2. \A y \in I : <<y, x>> \in OpToRel(<, Nat) <=> y < x
      BY DEF OpToRel
<1>3. \A y \in I : x <= y
  <2> SUFFICES ASSUME NEW y \in I PROVE x <= y
      OBVIOUS
  <2>1. ~(y < x)  BY <1>1, <1>2
  <2>2. x \in Nat /\ y \in Nat  OBVIOUS
  <2> QED  BY ONLY <2>1, <2>2
<1> QED  BY <1>3 DEF Min

(* A status that is not UNKNOWN is the one of an entry of the list.        *)
LEMMA DoneStatusFact ==
    ASSUME NEW d \in Seq(Records), NEW t \in Tx
    PROVE  /\ DoneStatus(d, t) \in Statuses
           /\ DoneStatus(d, t) # "UNKNOWN" =>
                 \E i \in DOMAIN d : d[i].tx = t /\ d[i].status = DoneStatus(d, t)
<1> DEFINE I == {i \in 1 .. Len(d) : d[i].tx = t}
<1>0. I # {} => Min(I) \in I
  <2>1. I \in SUBSET Nat  OBVIOUS
  <2> HIDE DEF I
  <2> QED  BY <2>1, MinFact
<1>1. DoneStatus(d, t) = IF I = {} THEN "UNKNOWN" ELSE d[Min(I)].status
  <2>1. SelectInSeq(d, LAMBDA e : e.tx = t) = IF I # {} THEN Min(I) ELSE 0
        BY DEF SelectInSeq
  <2> QED  BY <1>0, <2>1 DEF DoneStatus
<1>3. ASSUME NEW i \in I
      PROVE  i \in DOMAIN d /\ d[i].tx = t /\ d[i].status \in Statuses
  <2>1. i \in DOMAIN d /\ d[i] \in Records  OBVIOUS
  <2> QED  BY <2>1 DEF Records
<1> HIDE DEF I
<1> QED  BY <1>0, <1>1, <1>3 DEF Statuses

-----------------------------------------------------------------------------
(* The coordinator: the responses of a transaction are a function of some  *)
(* locations.                                                              *)
LEMMA RespType ==
    ASSUME NEW f, DOMAIN f = Tx, f = [t \in Tx |-> f[t]]
    PROVE  f \in [Tx -> UNION {[L -> Responses] : L \in SUBSET Locations}]
               <=> \A t \in Tx : /\ DOMAIN f[t] \subseteq Locations
                                 /\ f[t] \in [DOMAIN f[t] -> Responses]
<1> DEFINE Some == UNION {[L -> Responses] : L \in SUBSET Locations}
<1>1. ASSUME NEW g
      PROVE  g \in Some <=> /\ DOMAIN g \subseteq Locations
                            /\ g \in [DOMAIN g -> Responses]
      OBVIOUS
<1> HIDE DEF Some
<1>2. f \in [Tx -> Some] <=> \A t \in Tx : f[t] \in Some
      OBVIOUS
<1> QED  BY <1>1, <1>2 DEF Some

\* x is a state that transaction t may go to when its responses are r.
Move(t, x, r) ==
    \/ x = tstate[t]
    \/ tstate[t] = "RECOVERING" /\ x = "ABORTED"
    \/ tstate[t] = "RECOVERING" /\ x = "COMMITTED" /\ "COMMITTED" \in decided[t]
    \/ tstate[t] = "COLLECTING" /\ x = "COMMITTED" /\ AllAre(r, "YES")
    \/ tstate[t] = "COLLECTING" /\ x = "ABORTED"
    \/ tstate[t] = "COMMITTED" /\ x = "DONE_COMMITTED" /\ AllAre(r, "END")
    \/ tstate[t] = "ABORTED" /\ x = "DONE_ABORTED"

(* check_status_change makes such moves only.                              *)
LEMMA CheckMoves ==
    ASSUME NEW t \in Tx, NEW r
    PROVE  Move(t, check_status_change(tstate[t], r), r)
BY DEF Move, check_status_change

(* Every state in which a request is sent has one.                         *)
LEMMA RequestFact ==
    /\ RequestOf["COLLECTING"] = "prepare"
    /\ RequestOf["COMMITTED"] = "commit"
    /\ RequestOf["ABORTED"] = "rollback"
    /\ RequestOf["RECOVERING"] = "get_status"
BY DEF RequestOf

\* The responses r of t are those it had, of all the locations that are up,
\* and perhaps an answer that was on its way.
Heard(t, r) ==
    /\ r \in [DOMAIN r -> Responses]
    /\ DOMAIN r \subseteq DOMAIN resp[t]
    /\ DOMAIN resp[t] \cap alive \subseteq DOMAIN r
    /\ \A l \in DOMAIN r :
          \/ r[l] = resp[t][l]
          \/ r[l] = "SET_TO_NOT_DONE"
          \/ \E m \in net : /\ m.tx = t /\ m.loc = l
                            /\ \/ m.type = "yes" /\ r[l] = "YES"
                               \/ m.type = "end" /\ r[l] = "END"

\* What set_internal_status does to transaction t.
Stays(t) == tstate'[t] = tstate[t] /\ caller'[t] = caller[t]

Enters(t, s, x) ==
    tstate[t] = s /\ tstate'[t] = x /\ caller'[t] = caller[t]

Ended(t, s, c) ==
    /\ tstate[t] = s /\ tstate'[t] = "NONE"
    /\ caller'[t] = IF caller[t] = "waiting" THEN c ELSE caller[t]

Stepped(t, r) ==
    \/ Stays(t)
    \/ Enters(t, "RECOVERING", "ABORTED")
    \/ Enters(t, "RECOVERING", "COMMITTED") /\ "COMMITTED" \in decided[t]
    \/ Enters(t, "COLLECTING", "COMMITTED") /\ AllAre(r, "YES")
    \/ Enters(t, "COLLECTING", "ABORTED")
    \/ Ended(t, "COMMITTED", "committed") /\ AllAre(r, "END")
    \/ Ended(t, "ABORTED", "aborted")
    \/ Enters(t, "WAITING", "COLLECTING")
    \/ Enters(t, "WAITING", "COMMITTED") /\ DOMAIN r = {}

\* ... to its responses r,
Answered(t, r) ==
    /\ resp'[t] \in [DOMAIN resp'[t] -> Responses]
    /\ DOMAIN resp'[t] \subseteq DOMAIN r
    /\ \/ tstate[t] # "NONE" /\ tstate'[t] = "NONE"
       \/ /\ DOMAIN resp'[t] = DOMAIN r
          /\ \A l \in DOMAIN r : \/ resp'[t][l] = "UNKNOWN"
                                 \/ /\ tstate'[t] = tstate[t]
                                    /\ resp'[t][l] = r[l]

\* ... and what it sends.
Requested(m) ==
    /\ m \in Messages
    /\ tstate'[m.tx] \in {"COLLECTING", "COMMITTED", "ABORTED", "RECOVERING"}
    /\ m.type = RequestOf[tstate'[m.tx]]
    /\ m.status = "UNKNOWN"

\* ... unless the timer puts the status back: then the caller may be released,
PutBack(t) ==
    /\ TimerOverlaps
    /\ tstate'[t] = tstate[t]
    /\ \/ tstate[t] = "COMMITTED" /\ caller'[t] = "committed"
       \/ tstate[t] = "ABORTED" /\ caller'[t] = "aborted"
    /\ caller[t] = "waiting"

\* and one decision more has been taken,
DecidedMore(t) ==
    LET now == {tstate'[t]} \cap {"COMMITTED", "ABORTED"}
    IN  \/ decided'[t] = decided[t] \cup now
        \/ /\ TimerOverlaps
           /\ tstate[t] # "NONE"
           /\ decided[t] \cup now \subseteq decided'[t]

\* and sent by the one that is second to send.
Repeated(m) ==
    /\ TimerOverlaps
    /\ m \in Messages
    /\ tstate[m.tx] # "NONE"
    /\ SaysCommitted(m) => "COMMITTED" \in decided'[m.tx]

\* The transactions that set_internal_status moves, their responses and the
\* messages.
EnteredStep(ts, rs, n) ==
    /\ tstate' \in [Tx -> TransactionStates]
    /\ \A t \in Tx :
          /\ t \in Finished(ts) => /\ tstate'[t] = "NONE"
                                   /\ tstate[t] \in {"COMMITTED", "ABORTED"}
          /\ t \notin Finished(ts) =>
                \/ tstate'[t] = ts[t]
                \/ /\ tstate[t] = "WAITING"
                   /\ \/ tstate'[t] = "COLLECTING"
                      \/ tstate'[t] = "COMMITTED" /\ DOMAIN rs[t] = {}
    /\ DOMAIN resp' = Tx /\ resp' = [t \in Tx |-> resp'[t]]
    /\ \A t \in Tx : Answered(t, rs[t])
    /\ blockers' = [t \in Tx |->
          {u \in blockers[t] : ~(tstate[u] # "NONE" /\ tstate'[u] = "NONE")}]
    /\ \A t \in Tx : blockers'[t] # {} => tstate'[t] = "WAITING"
    /\ att' \in [Tx -> 0 .. MaxAttempts]
    /\ \A m \in net' : m \in n \/ Requested(m)
    /\ cdone' \in Seq(Records) /\ Len(cdone') <= MaxDone
    /\ \A i \in DOMAIN cdone' :
          \/ cdone'[i].status = "COMMITTED" => tstate[cdone'[i].tx] = "COMMITTED"
          \/ \E j \in DOMAIN cdone : cdone'[i] = cdone[j]

\* The step of the coordinator that a handler makes.
CoordinatorStep(rs, n) ==
    /\ tstate' \in [Tx -> TransactionStates]
    /\ caller' \in [Tx -> Callers]
    /\ \A t \in Tx : Stepped(t, rs[t]) \/ PutBack(t)
    /\ DOMAIN resp' = Tx /\ resp' = [t \in Tx |-> resp'[t]]
    /\ \A t \in Tx : Answered(t, rs[t])
    /\ blockers' = [t \in Tx |->
          {u \in blockers[t] : ~(tstate[u] # "NONE" /\ tstate'[u] = "NONE")}]
    /\ \A t \in Tx : blockers'[t] # {} => tstate'[t] = "WAITING"
    /\ att' \in [Tx -> 0 .. MaxAttempts]
    /\ \A m \in net' : m \in n \/ Requested(m)
    /\ cdone' \in Seq(Records) /\ Len(cdone') <= MaxDone
    /\ \A i \in DOMAIN cdone' :
          \/ cdone'[i].status = "COMMITTED" => tstate[cdone'[i].tx] = "COMMITTED"
          \/ \E j \in DOMAIN cdone : cdone'[i] = cdone[j]
    /\ decided' \in [Tx -> SUBSET {"COMMITTED", "ABORTED"}]
    /\ \A t \in Tx : DecidedMore(t)

(* A handler that has computed legal states and responses moves every      *)
(* transaction to a legal state.                                           *)
LEMMA EnteredFacts ==
    ASSUME TypeOK, BlockersKnown, NEW ts, NEW rs, NEW R \in SUBSET Tx,
           NEW n \in SUBSET Messages,
           \A t \in Tx : Move(t, ts[t], rs[t]),
           \A t \in Tx : Heard(t, rs[t]),
           Entered(ts, rs, R, n)
    PROVE  EnteredStep(ts, rs, n)
<1> DEFINE F == Finished(ts)
           NS(t) == NextState(ts, rs, t)
           entered == {t \in Tx \ F : NS(t) # tstate[t]}
           sending == {t \in entered \cup R : NS(t) \notin {"NONE", "WAITING"}}
<1>0. /\ \A t \in Tx : tstate[t] \in TransactionStates
      /\ \A t \in Tx : caller[t] \in Callers
      /\ \A t \in Tx : /\ DOMAIN resp[t] \subseteq Locations
                       /\ resp[t] \in [DOMAIN resp[t] -> Responses]
      BY RespType DEF TypeOK
<1>1. F \subseteq Tx /\ \A t \in Tx : t \in F <=> ts[t] \in {"DONE_COMMITTED", "DONE_ABORTED"}
      BY DEF Finished
<1>2. \A t \in Tx : tstate'[t] = NS(t)
      BY DEF Entered
<1>3. ASSUME NEW t \in Tx
      PROVE  /\ t \in F => tstate'[t] = "NONE" /\ tstate[t] \in {"COMMITTED", "ABORTED"}
             /\ t \notin F => \/ tstate'[t] = ts[t] /\ t \notin Unblocked(ts)
                              \/ /\ t \in Unblocked(ts)
                                 /\ tstate[t] = "WAITING"
                                 /\ \/ tstate'[t] = "COLLECTING"
                                    \/ tstate'[t] = "COMMITTED" /\ DOMAIN rs[t] = {}
  <2>1. t \in F => tstate[t] \in {"COMMITTED", "ABORTED"}
        BY <1>0, <1>1 DEF Move, TransactionStates
  <2>2. t \in F => tstate'[t] = "NONE"
        BY <1>2 DEF NextState
  <2>3. rs[t] = NoResponses => DOMAIN rs[t] = {}
        BY DEF NoResponses
  <2>4. t \in Unblocked(ts) => tstate[t] = "WAITING"
        BY DEF Unblocked
  <2> QED  BY <1>2, <2>1, <2>2, <2>3, <2>4 DEF NextState
<1>4. \A t \in Tx : t \in F <=> tstate[t] # "NONE" /\ tstate'[t] = "NONE"
      BY <1>1, <1>3, <1>0 DEF Move, TransactionStates
<1>5. \A t \in Tx : tstate'[t] \in TransactionStates
      BY <1>0, <1>1, <1>3 DEF Move, TransactionStates
<1>8. ASSUME NEW t \in Tx
      PROVE  resp'[t] = IF t \in F THEN NoResponses
                        ELSE IF t \in entered \cup R THEN clean_responses(rs[t])
                        ELSE rs[t]
      BY DEF Entered
<1>9. \A t \in Tx : Answered(t, rs[t])
  <2> SUFFICES ASSUME NEW t \in Tx PROVE Answered(t, rs[t])
      OBVIOUS
  <2>1. CASE t \in F
        BY <1>4, <1>8, <2>1 DEF Answered, NoResponses
  <2>2. CASE t \notin F /\ t \in entered \cup R
    <3>1. resp'[t] = [l \in DOMAIN rs[t] |-> "UNKNOWN"]
          BY <1>8, <2>2 DEF clean_responses
    <3> QED  BY <3>1 DEF Answered, Responses
  <2>3. CASE t \notin F /\ t \notin entered \cup R
    <3>1. resp'[t] = rs[t]  BY <1>8, <2>3
    <3>2. tstate'[t] = tstate[t]  BY <1>2, <2>3
    <3> QED  BY <3>1, <3>2 DEF Answered, Heard
  <2> QED  BY <2>1, <2>2, <2>3
<1>10. blockers' = [t \in Tx |->
          {u \in blockers[t] : ~(tstate[u] # "NONE" /\ tstate'[u] = "NONE")}]
  <2>1. \A t \in Tx : blockers[t] \subseteq Tx  BY DEF TypeOK
  <2>2. blockers' = [t \in Tx |-> blockers[t] \ F]
        BY DEF Entered
  <2>3. \A t \in Tx : blockers[t] \ F =
          {u \in blockers[t] : ~(tstate[u] # "NONE" /\ tstate'[u] = "NONE")}
        BY <1>4, <2>1
  <2> HIDE DEF F
  <2> QED  BY <2>2, <2>3
<1>11. \A t \in Tx : blockers'[t] # {} => tstate'[t] = "WAITING"
  <2> SUFFICES ASSUME NEW t \in Tx, blockers'[t] # {}
               PROVE  tstate'[t] = "WAITING"
      OBVIOUS
  <2>1. blockers'[t] = blockers[t] \ F
        BY DEF Entered
  <2>2. tstate[t] = "WAITING"  BY <2>1 DEF BlockersKnown
  <2>3. t \notin Unblocked(ts)  BY <2>1 DEF Unblocked
  <2>4. ts[t] = "WAITING"  BY <2>2 DEF Move
  <2> QED  BY <1>1, <1>3, <2>3, <2>4
<1>12. att' \in [Tx -> 0 .. MaxAttempts]
  <2>1. MaxAttempts \in Nat /\ MaxAttempts >= 1  BY ConstantsAssumption
  <2>2. \A t \in Tx : att[t] \in 0 .. MaxAttempts  BY DEF TypeOK
  <2>3. att' = [t \in Tx |-> IF t \in F THEN 0
                             ELSE IF t \in entered THEN 1
                             ELSE IF t \in R /\ att[t] < MaxAttempts
                                  THEN att[t] + 1 ELSE att[t]]
        BY DEF Entered
  <2> HIDE DEF F, entered
  <2> QED  BY <2>1, <2>2, <2>3
<1>13. \A m \in net' : m \in n \/ Requested(m)
  <2> SUFFICES ASSUME NEW m \in net', m \notin n
               PROVE  Requested(m)
      OBVIOUS
  <2>1. net' = n \cup UNION {Sent(t, RequestOf[NS(t)], DOMAIN rs[t], att'[t]) :
                                t \in sending}
        BY DEF Entered
  <2>2. PICK t \in sending : m \in Sent(t, RequestOf[NS(t)], DOMAIN rs[t], att'[t])
        BY <2>1
  <2>3. t \in Tx /\ t \notin F /\ NS(t) \notin {"NONE", "WAITING"}
        BY <1>2, <1>3, <2>2
  <2>4. NS(t) = tstate'[t]  BY <1>2, <2>3
  <2>5. tstate'[t] \in {"COLLECTING", "COMMITTED", "ABORTED", "RECOVERING"}
        BY <1>5, <2>3, <2>4 DEF TransactionStates
  <2>6. PICK l \in DOMAIN rs[t] \cap alive :
            m = Message(RequestOf[tstate'[t]], t, l, att'[t], "UNKNOWN")
        BY <2>2, <2>4 DEF Sent
  <2>7. l \in Locations /\ att'[t] \in 0 .. MaxAttempts
        BY <1>0, <1>12, <2>3, <2>6 DEF Heard
  <2>8. RequestOf[tstate'[t]] \in Requests
        BY <2>5, RequestFact DEF Requests
  <2> HIDE DEF NS, F, sending
  <2> QED  BY <2>3, <2>5, <2>6, <2>7, <2>8 DEF Requested, Message, Messages, Statuses
<1>14. /\ cdone' \in Seq(Records) /\ Len(cdone') <= MaxDone
       /\ \A i \in DOMAIN cdone' :
             \/ cdone'[i].status = "COMMITTED" => tstate[cdone'[i].tx] = "COMMITTED"
             \/ \E j \in DOMAIN cdone : cdone'[i] = cdone[j]
  <2> DEFINE st == [t \in F |-> Outcome(ts[t])]
  <2>1. SavedAll(cdone, F, st, cdone')  BY DEF Entered
  <2>2. st \in [F -> Statuses]  BY DEF Outcome, Statuses
  <2>3. \A t \in F : st[t] = "COMMITTED" => tstate[t] = "COMMITTED"
        BY <1>0, <1>1 DEF Outcome, Move, TransactionStates
  <2>4. cdone \in Seq(Records)  BY DEF TypeOK
  <2> HIDE DEF st
  <2>5. /\ cdone' \in Seq(Records)
        /\ Len(cdone') <= MaxDone
        /\ \A i \in DOMAIN cdone' :
             \/ \E t \in F : cdone'[i] = [tx |-> t, status |-> st[t]]
             \/ \E j \in DOMAIN cdone : cdone'[i] = cdone[j]
    <3>1. F \in SUBSET Tx  BY DEF Finished
    <3> HIDE DEF F
    <3>2. \A new :
              SavedAll(cdone, F, st, new) =>
                 /\ new \in Seq(Records)
                 /\ Len(new) <= MaxDone
                 /\ \A i \in DOMAIN new :
                       \/ \E t \in F : new[i] = [tx |-> t, status |-> st[t]]
                       \/ \E j \in DOMAIN cdone : new[i] = cdone[j]
          BY <2>2, <2>4, <3>1, SavedAllFact
    <3> QED  BY ONLY <2>1, <3>2
  <2> HIDE DEF F
  <2> QED  BY <2>3, <2>5
<1>16. /\ tstate' \in [Tx -> TransactionStates]
       /\ DOMAIN resp' = Tx /\ resp' = [t \in Tx |-> resp'[t]]
  <2>1. tstate' \in [Tx -> TransactionStates]
    <3>1. tstate' = [t \in Tx |-> tstate'[t]]  BY DEF Entered
    <3> QED  BY <1>5, <3>1
  <2>2. DOMAIN resp' = Tx /\ resp' = [t \in Tx |-> resp'[t]]
        BY DEF Entered
  <2> QED  BY <2>1, <2>2
<1> HIDE DEF NS, entered, sending
<1> QED  BY <1>3, <1>9, <1>10, <1>11, <1>12, <1>13, <1>14, <1>16
         DEF EnteredStep

(* It releases the callers of what it has finished.                        *)
LEMMA StatusFacts ==
    ASSUME TypeOK, BlockersKnown, NEW ts, NEW rs, NEW R \in SUBSET Tx,
           NEW n \in SUBSET Messages,
           \A t \in Tx : Move(t, ts[t], rs[t]),
           \A t \in Tx : Heard(t, rs[t]),
           set_internal_status(ts, rs, R, n)
    PROVE  /\ CoordinatorStep(rs, n)
           /\ \A t \in Tx : Stepped(t, rs[t])
           /\ decided' = [t \in Tx |-> decided[t] \cup
                             ({tstate'[t]} \cap {"COMMITTED", "ABORTED"})]
<1> DEFINE F == Finished(ts)
<1>0. /\ \A t \in Tx : tstate[t] \in TransactionStates
      /\ \A t \in Tx : caller[t] \in Callers
      /\ decided \in [Tx -> SUBSET {"COMMITTED", "ABORTED"}]
      BY DEF TypeOK
<1>1. /\ F \subseteq Tx
      /\ \A t \in Tx : t \in F <=> ts[t] \in {"DONE_COMMITTED", "DONE_ABORTED"}
      BY DEF Finished
<1>2. EnteredStep(ts, rs, n)  BY EnteredFacts DEF set_internal_status
<1>3. ASSUME NEW t \in Tx
      PROVE  /\ t \in F => tstate'[t] = "NONE" /\ tstate[t] \in {"COMMITTED", "ABORTED"}
             /\ t \notin F => \/ tstate'[t] = ts[t]
                              \/ /\ tstate[t] = "WAITING"
                                 /\ \/ tstate'[t] = "COLLECTING"
                                    \/ tstate'[t] = "COMMITTED" /\ DOMAIN rs[t] = {}
      BY <1>2 DEF EnteredStep
<1>4. ASSUME NEW t \in Tx
      PROVE  caller'[t] = IF t \in F /\ caller[t] = "waiting"
                          THEN IF ts[t] = "DONE_COMMITTED" THEN "committed"
                                                           ELSE "aborted"
                          ELSE caller[t]
      BY DEF set_internal_status, Released, Outcome
<1>5. ASSUME NEW t \in Tx PROVE Stepped(t, rs[t])
  <2>1. CASE t \in F
        BY <1>1, <1>3, <1>4, <2>1, <1>0 DEF Stepped, Ended, Move, TransactionStates
  <2>2. CASE t \notin F /\ tstate'[t] = ts[t]
    <3>1. caller'[t] = caller[t]  BY <1>4, <2>2
    <3> QED  BY <1>1, <2>2, <3>1 DEF Stepped, Enters, Stays, Move
  <2>3. CASE t \notin F /\ tstate'[t] # ts[t]
    <3>1. caller'[t] = caller[t]  BY <1>4, <2>3
    <3>2. /\ tstate[t] = "WAITING"
          /\ \/ tstate'[t] = "COLLECTING"
             \/ tstate'[t] = "COMMITTED" /\ DOMAIN rs[t] = {}
          BY <1>3, <2>3
    <3> QED  BY <3>1, <3>2 DEF Stepped, Enters
  <2> QED  BY <2>1, <2>2, <2>3
<1>6. decided' = [t \in Tx |-> decided[t] \cup
                                  ({tstate'[t]} \cap {"COMMITTED", "ABORTED"})]
  <2>1. \A t \in Tx : tstate'[t] = NextState(ts, rs, t)
        BY DEF set_internal_status, Entered
  <2> QED  BY <2>1 DEF set_internal_status
<1>7. caller' \in [Tx -> Callers]
  <2>1. caller' = [t \in Tx |-> caller'[t]]
        BY DEF set_internal_status, Released
  <2>2. \A t \in Tx : caller'[t] \in Callers  BY <1>0, <1>4 DEF Callers
  <2> QED  BY <2>1, <2>2
<1>8. /\ decided' \in [Tx -> SUBSET {"COMMITTED", "ABORTED"}]
      /\ \A t \in Tx : DecidedMore(t)
      BY <1>0, <1>6 DEF DecidedMore
<1> QED  BY <1>2, <1>5, <1>6, <1>7, <1>8 DEF EnteredStep, CoordinatorStep

(* What the second of a handler and a timer sends.                         *)
LEMMA AgainFact ==
    ASSUME TypeOK, NEW rs, NEW t \in Tx, att[t] < MaxAttempts, NEW s,
           NEW m \in SentAgain(t, s, rs)
    PROVE  /\ m \in Messages /\ m.tx = t /\ m.status = "UNKNOWN"
           /\ m.type = "commit" => s = "COMMITTED"
           /\ m.type # "status" /\ m.type # "set_status"
<1>1. /\ t \in Tx /\ att[t] + 1 \in 0 .. MaxAttempts
  <2>1. MaxAttempts \in Nat  BY ConstantsAssumption
  <2>2. att[t] \in 0 .. MaxAttempts  BY DEF TypeOK
  <2> QED  BY <2>1, <2>2
<1>2. s \in {"COLLECTING", "COMMITTED", "ABORTED", "RECOVERING"}
      BY DEF SentAgain, RequestOf
<1>3. PICK l \in DOMAIN rs[t] \cap alive :
            m = Message(RequestOf[s], t, l, att[t] + 1, "UNKNOWN")
      BY DEF SentAgain, Sent
<1>4. l \in Locations  BY <1>3 DEF TypeOK
<1>5. RequestOf[s] \in {"prepare", "commit", "rollback", "get_status"}
      BY <1>2, RequestFact
<1>6. /\ m \in Messages /\ m.tx = t /\ m.type = RequestOf[s]
      /\ m.status = "UNKNOWN"
      BY <1>1, <1>3, <1>4, <1>5 DEF Message, Messages, Requests, Statuses
<1> QED  BY <1>2, <1>5, <1>6, RequestFact

(* The same when the timer puts the status of t back.                      *)
LEMMA PutBackFacts ==
    ASSUME TypeOK, BlockersKnown, CommitsDecided, NEW ts, NEW rs,
           NEW t \in Expiring(ts), NEW n \in SUBSET Messages,
           DOMAIN ts = Tx,
           \A u \in Tx : Move(u, ts[u], rs[u]),
           \A u \in Tx : Heard(u, rs[u]),
           StatusPutBack(t, ts, rs, n)
    PROVE  \E k \in SUBSET Messages :
              /\ CoordinatorStep(rs, k)
              /\ \A m \in k : m \in n \/ Repeated(m)
<1> DEFINE back == [ts EXCEPT ![t] = tstate[t]]
           again == SentAgain(t, ts[t], rs)
           F == Finished(ts)
<1>0. /\ \A u \in Tx : tstate[u] \in TransactionStates
      /\ \A u \in Tx : caller[u] \in Callers
      /\ decided \in [Tx -> SUBSET {"COMMITTED", "ABORTED"}]
      BY DEF TypeOK
<1>1. /\ t \in Tx /\ TimerOverlaps
      /\ tstate[t] \in {"COLLECTING", "COMMITTED", "ABORTED", "RECOVERING"}
      BY DEF Expiring, RequestOf
<1>2. \A u \in Tx : back[u] = IF u = t THEN tstate[t] ELSE ts[u]
      BY <1>1
<1>3. ASSUME NEW m \in again
      PROVE  /\ m \in Messages /\ m.tx = t
             /\ m.type = "commit" => ts[t] = "COMMITTED"
             /\ m.type # "status" /\ m.type # "set_status"
  <2>1. t \in Tx /\ att[t] < MaxAttempts  BY DEF Expiring
  <2> QED  BY <2>1, AgainFact
<1>4. /\ Entered(back, rs, {t}, n \cup again)
      /\ Released(ts)
      /\ decided' = [u \in Tx |->
                        decided[u] \cup
                            ({ts[u], NextState(back, rs, u)}
                                \cap {"COMMITTED", "ABORTED"})]
      BY DEF StatusPutBack
<1>5. \A u \in Tx : tstate'[u] = NextState(back, rs, u)
      BY <1>4 DEF Entered
<1>6. EnteredStep(back, rs, n \cup again)
  <2>1. \A u \in Tx : Move(u, back[u], rs[u])  BY <1>2 DEF Move
  <2>2. n \cup again \in SUBSET Messages  BY <1>3
  <2>3. {t} \in SUBSET Tx  BY <1>1
  <2> HIDE DEF back, again
  <2> QED  BY <1>4, <2>1, <2>2, <2>3, EnteredFacts
<1> HIDE DEF back, again
<1>7. ASSUME NEW u \in Tx
      PROVE  /\ u \in F <=> ts[u] \in {"DONE_COMMITTED", "DONE_ABORTED"}
             /\ u \in Finished(back) <=> u \in F /\ u # t
  <2>1. u \in F <=> ts[u] \in {"DONE_COMMITTED", "DONE_ABORTED"}
        BY DEF Finished
  <2>2. u \in Finished(back) <=> back[u] \in {"DONE_COMMITTED", "DONE_ABORTED"}
        BY DEF Finished
  <2> QED  BY <1>1, <1>2, <2>1, <2>2
<1>8. ASSUME NEW u \in Tx
      PROVE  caller'[u] = IF u \in F /\ caller[u] = "waiting"
                          THEN IF ts[u] = "DONE_COMMITTED" THEN "committed"
                                                           ELSE "aborted"
                          ELSE caller[u]
      BY <1>4 DEF Released, Outcome
<1>9. ASSUME NEW u \in Tx
      PROVE  /\ u \in Finished(back) => /\ tstate'[u] = "NONE"
                                        /\ tstate[u] \in {"COMMITTED", "ABORTED"}
             /\ u \notin Finished(back) =>
                    \/ tstate'[u] = back[u]
                    \/ /\ tstate[u] = "WAITING"
                       /\ \/ tstate'[u] = "COLLECTING"
                          \/ tstate'[u] = "COMMITTED" /\ DOMAIN rs[u] = {}
      BY <1>6 DEF EnteredStep
<1>10. ASSUME NEW u \in Tx, u # t
       PROVE  Stepped(u, rs[u])
  <2>0. Move(u, ts[u], rs[u]) /\ back[u] = ts[u]  BY <1>2, <1>10
  <2>1. CASE u \in F
        BY <1>0, <1>7, <1>8, <1>9, <1>10, <2>0, <2>1
           DEF Stepped, Ended, Move, TransactionStates
  <2>2. CASE u \notin F /\ tstate'[u] = ts[u]
    <3>1. caller'[u] = caller[u]  BY <1>8, <2>2
    <3> QED  BY <1>7, <2>0, <2>2, <3>1 DEF Stepped, Enters, Stays, Move
  <2>3. CASE u \notin F /\ tstate'[u] # ts[u]
    <3>1. caller'[u] = caller[u]  BY <1>8, <2>3
    <3>2. /\ tstate[u] = "WAITING"
          /\ \/ tstate'[u] = "COLLECTING"
             \/ tstate'[u] = "COMMITTED" /\ DOMAIN rs[u] = {}
          BY <1>7, <1>9, <2>0, <2>3
    <3> QED  BY <3>1, <3>2 DEF Stepped, Enters
  <2> QED  BY <2>1, <2>2, <2>3
<1>11. Stays(t) \/ PutBack(t)
  <2>1. tstate'[t] = tstate[t]  BY <1>1, <1>2, <1>7, <1>9
  <2>2. CASE t \notin F \/ caller[t] # "waiting"
        BY <1>1, <1>8, <2>1, <2>2 DEF Stays
  <2>3. CASE t \in F /\ caller[t] = "waiting"
    <3>1. \/ ts[t] = "DONE_COMMITTED" /\ tstate[t] = "COMMITTED"
          \/ ts[t] = "DONE_ABORTED" /\ tstate[t] = "ABORTED"
          BY <1>0, <1>1, <1>7, <2>3 DEF Move
    <3> QED  BY <1>1, <1>8, <2>1, <2>3, <3>1 DEF PutBack
  <2> QED  BY <2>2, <2>3
<1>12. \A u \in Tx : Stepped(u, rs[u]) \/ PutBack(u)
       BY <1>10, <1>11 DEF Stepped
<1>13. /\ decided' \in [Tx -> SUBSET {"COMMITTED", "ABORTED"}]
       /\ \A u \in Tx : DecidedMore(u)
  <2>1. \A u \in Tx : decided'[u] = decided[u] \cup
            ({ts[u], tstate'[u]} \cap {"COMMITTED", "ABORTED"})
        BY <1>4, <1>5
  <2>2. ASSUME NEW u \in Tx, tstate[u] = "NONE"
        PROVE  ts[u] = "NONE"
        BY <2>2 DEF Move
  <2>3. decided' \in [Tx -> SUBSET {"COMMITTED", "ABORTED"}]
        BY <1>0, <1>4
  <2> QED  BY <1>1, <2>1, <2>2, <2>3 DEF DecidedMore
<1>14. caller' \in [Tx -> Callers]
  <2>1. caller' = [u \in Tx |-> caller'[u]]  BY <1>4 DEF Released
  <2>2. \A u \in Tx : caller'[u] \in Callers  BY <1>0, <1>8 DEF Callers
  <2> QED  BY <2>1, <2>2
<1>15. CoordinatorStep(rs, n \cup again)
       BY <1>6, <1>12, <1>13, <1>14 DEF EnteredStep, CoordinatorStep
<1>16. ASSUME NEW m \in again PROVE Repeated(m)
  <2>1. ts[t] = "COMMITTED" => "COMMITTED" \in decided'[t]
        BY <1>1, <1>4
  <2> QED  BY <1>1, <1>3, <2>1 DEF Repeated, SaysCommitted
<1>17. n \cup again \in SUBSET Messages  BY <1>3
<1> QED  BY <1>15, <1>16, <1>17

\* What such a step leaves alone: the cohorts, and the data of the backups.  The
\* coordinator may load what is decided.
CoordinatorFrame ==
    /\ active # NoLocation
    /\ UNCHANGED <<change, cohortVars, synch, alive, active, members, losses,
                   crashes>>
    /\ failing' \in Locations \cup {NoLocation} /\ failing' \notin alive
    /\ store' \in [Locations -> [Oids -> Values]]
    /\ applied' \in [Locations -> [Tx -> 0 .. 2]]
    /\ \A l \in Backups : store'[l] = store[l]
    /\ \A l \in Locations, t \in Tx :
          /\ applied[l][t] > 0 => applied'[l][t] > 0
          /\ applied'[l][t] > 0 => applied[l][t] > 0 \/ "COMMITTED" \in decided[t]

(* A step of the coordinator keeps the invariant, one conjunct after the   *)
(* other.                                                                  *)
LEMMA CoordinatorKeeps ==
    ASSUME IInv, NEW rs, NEW n, \A m \in n : m \in net \/ Repeated(m),
           \A t \in Tx : Heard(t, rs[t]),
           CoordinatorStep(rs, n), CoordinatorFrame
    PROVE  IInv'
<1> USE DEF IInv
<1>0. /\ \A t \in Tx : tstate[t] \in TransactionStates
      /\ \A t \in Tx : caller[t] \in Callers
      /\ \A t \in Tx : Stepped(t, rs[t]) \/ PutBack(t)
      /\ \A t \in Tx : Answered(t, rs[t])
      /\ \A m \in net' : m \in net \/ Requested(m) \/ Repeated(m)
      /\ \A t \in Tx : decided[t] \subseteq decided'[t]
      /\ \A m \in net : m \in Messages
      /\ UNCHANGED <<change, prepared, timer, done, synch, alive, active,
                     members, losses, crashes>>
  <2>1. /\ \A t \in Tx : tstate[t] \in TransactionStates
        /\ \A t \in Tx : caller[t] \in Callers
        /\ \A m \in net : m \in Messages
        BY DEF TypeOK
  <2>2. \A t \in Tx : Stepped(t, rs[t]) \/ PutBack(t)  BY DEF CoordinatorStep
  <2>3. \A t \in Tx : Answered(t, rs[t])  BY DEF CoordinatorStep
  <2>4. \A m \in net' : m \in net \/ Requested(m) \/ Repeated(m)
    <3>1. \A m \in net' : m \in n \/ Requested(m)  BY DEF CoordinatorStep
    <3> QED  BY <3>1
  <2>5. \A t \in Tx : decided[t] \subseteq decided'[t]
    <3>1. \A t \in Tx : DecidedMore(t)  BY DEF CoordinatorStep
    <3> QED  BY <3>1 DEF DecidedMore
  <2>6. UNCHANGED <<change, prepared, timer, done, synch, alive, active,
                    members, losses, crashes>>
        BY DEF CoordinatorFrame, cohortVars
  <2> QED  BY ONLY <2>1, <2>2, <2>3, <2>4, <2>5, <2>6
<1>1. ASSUME NEW m, Requested(m)
      PROVE  /\ m \in Messages /\ m.tx \in Tx /\ m.status = "UNKNOWN"
             /\ m.type \in {"prepare", "commit", "rollback", "get_status"}
             /\ m.type = "commit" => tstate'[m.tx] = "COMMITTED"
             /\ m.type = "rollback" => tstate'[m.tx] = "ABORTED"
             /\ tstate'[m.tx] # "NONE"
      BY <1>1, RequestFact DEF Requested, Messages
<1>2. TypeOK'
  <2>1. resp' \in [Tx -> UNION {[L -> Responses] : L \in SUBSET Locations}]
    <3>1. \A t \in Tx : DOMAIN resp[t] \subseteq Locations
          BY RespType DEF TypeOK
    <3>2. \A t \in Tx : /\ DOMAIN resp'[t] \subseteq Locations
                        /\ resp'[t] \in [DOMAIN resp'[t] -> Responses]
          BY <1>0, <3>1 DEF Answered, Heard
    <3>3. DOMAIN resp' = Tx /\ resp' = [t \in Tx |-> resp'[t]]
          BY DEF CoordinatorStep
    <3> HIDE DEF IInv
    <3> QED  BY ONLY <3>2, <3>3, RespType
  <2>2. blockers' \in [Tx -> SUBSET Tx]
        BY DEF CoordinatorStep, TypeOK
  <2>3. net' \subseteq Messages  BY <1>0, <1>1 DEF Repeated
  <2>4. decided' \in [Tx -> SUBSET {"COMMITTED", "ABORTED"}]
        BY DEF CoordinatorStep
  <2>5. /\ tstate' \in [Tx -> TransactionStates]
        /\ caller' \in [Tx -> Callers]
        /\ att' \in [Tx -> 0 .. MaxAttempts]
        /\ cdone' \in Seq(Records) /\ Len(cdone') <= MaxDone
        BY DEF CoordinatorStep
  <2>6. /\ failing' \in Locations \cup {NoLocation}
        /\ store' \in [Locations -> [Oids -> Values]]
        /\ applied' \in [Locations -> [Tx -> 0 .. 2]]
        BY DEF CoordinatorFrame
  <2> QED  BY <1>0, <2>1, <2>2, <2>3, <2>4, <2>5, <2>6 DEF TypeOK
<1>3. Coordinated'
  <2>1. ASSUME NEW t \in Tx, caller'[t] = "idle"
        PROVE  Unborn(t)'
    <3>1. caller[t] = "idle"
          BY <1>0, <2>1 DEF Stepped, Stays, Enters, Ended, PutBack
    <3>2. Unborn(t)  BY <3>1 DEF Coordinated
    <3>3. tstate'[t] = "NONE"
          BY <1>0, <3>2 DEF Unborn, Stepped, Stays, Enters, Ended, PutBack
    <3>4. decided'[t] = {}
          BY <3>2, <3>3 DEF Unborn, CoordinatorStep, DecidedMore
    <3>5. \A l \in Locations : t \notin prepared'[l] /\ applied'[l][t] = 0
          BY <1>0, <3>2 DEF Unborn, CoordinatorFrame
    <3>6. \A m \in net' : m.tx # t
          BY <1>0, <1>1, <3>2, <3>3 DEF Unborn, Repeated
    <3> QED  BY <3>3, <3>4, <3>5, <3>6 DEF Unborn
  <2> QED  BY <1>0, <2>1 DEF Coordinated, CoordinatorFrame
<1>4. CallersMatch'
  <2> SUFFICES ASSUME NEW t \in Tx
               PROVE  /\ tstate'[t] \in {"WAITING", "COLLECTING"} => caller'[t] = "waiting"
                      /\ caller'[t] = "waiting" =>
                            tstate'[t] \in {"WAITING", "COLLECTING", "COMMITTED", "ABORTED"}
      BY DEF CallersMatch
  <2> QED  BY <1>0 DEF CallersMatch, Stepped, Stays, Enters, Ended, PutBack
<1>5. BlockersKnown'
  <2>1. ASSUME NEW t \in Live', NEW u \in Live', t # u,
               oids_match(change'[t], change'[u])
        PROVE  t \in blockers'[u] \/ u \in blockers'[t]
    <3>1. /\ t \in Tx /\ tstate'[t] # "NONE"
          /\ u \in Tx /\ tstate'[u] # "NONE"
          BY DEF Live
    <3>2. t \in Live /\ u \in Live
          BY <1>0, <3>1 DEF Live, Stepped, Stays, Enters, Ended, PutBack
    <3>3. t \in blockers[u] \/ u \in blockers[t]
          BY <1>0, <2>1, <3>2 DEF BlockersKnown
    <3> QED  BY <3>1, <3>3 DEF CoordinatorStep
  <2>2. \A t \in Tx : blockers'[t] # {} => tstate'[t] = "WAITING"
        BY DEF CoordinatorStep
  <2> QED  BY <2>1, <2>2 DEF BlockersKnown
<1>6. CohortsReady'
      BY <1>0 DEF CohortsReady, CoordinatorFrame, Backups
<1>7. CommitsDecided'
  <2>1. /\ \A t \in Tx : tstate'[t] = "COMMITTED" => "COMMITTED" \in decided'[t]
        /\ \A t \in Tx : caller'[t] = "committed" => "COMMITTED" \in decided'[t]
    <3>1. \A t \in Tx : caller'[t] = "committed" =>
              caller[t] = "committed" \/ tstate[t] = "COMMITTED"
          BY <1>0 DEF Stepped, Stays, Enters, Ended, PutBack
    <3>2. ASSUME NEW t \in Tx, tstate'[t] = "COMMITTED"
          PROVE  "COMMITTED" \in decided'[t]
      <4>1. DecidedMore(t)  BY DEF CoordinatorStep
      <4> QED  BY <3>2, <4>1 DEF DecidedMore
    <3> QED  BY <1>0, <3>1, <3>2 DEF CommitsDecided
  <2>2. ASSUME NEW i \in DOMAIN cdone', cdone'[i].status = "COMMITTED"
        PROVE  "COMMITTED" \in decided'[cdone'[i].tx]
    <3>1. cdone'[i] \in Records  BY SeqElement DEF CoordinatorStep
    <3>2. cdone'[i].tx \in Tx  BY <3>1 DEF Records
    <3>3. "COMMITTED" \in decided[cdone'[i].tx]
      <4>1. \/ tstate[cdone'[i].tx] = "COMMITTED"
            \/ \E j \in DOMAIN cdone : cdone'[i] = cdone[j]
            BY <2>2 DEF CoordinatorStep
      <4> QED  BY <2>2, <3>2, <4>1 DEF CommitsDecided
    <3> QED  BY <1>0, <3>2, <3>3
  <2>3. ASSUME NEW l \in Locations, NEW i \in DOMAIN done'[l],
               done'[l][i].status = "COMMITTED"
        PROVE  "COMMITTED" \in decided'[done'[l][i].tx]
    <3>1. done[l] \in Seq(Records)  BY DEF TypeOK
    <3>2. i \in DOMAIN done[l] /\ done'[l] = done[l]  BY <1>0
    <3>3. done[l][i] \in Records  BY <3>1, <3>2, SeqElement
    <3>4. done[l][i].tx \in Tx  BY <3>3 DEF Records
    <3>5. "COMMITTED" \in decided[done[l][i].tx]
          BY <2>3, <3>2 DEF CommitsDecided
    <3> QED  BY <1>0, <3>2, <3>4, <3>5
  <2>4. ASSUME NEW m \in net', SaysCommitted(m)
        PROVE  "COMMITTED" \in decided'[m.tx]
    <3>1. CASE m \in net
      <4>1. "COMMITTED" \in decided[m.tx] /\ m.tx \in Tx
            BY <1>0, <2>4, <3>1 DEF CommitsDecided, Messages
      <4> QED  BY <1>0, <4>1
    <3>2. CASE Requested(m)
          BY <1>1, <2>1, <2>4, <3>2 DEF SaysCommitted
    <3> QED  BY <1>0, <2>4, <3>1, <3>2 DEF Repeated
  <2>5. OnlyCommittedIsApplied'
        BY <1>0 DEF CommitsDecided, OnlyCommittedIsApplied, CoordinatorFrame
  <2> QED  BY <2>1, <2>2, <2>3, <2>4, <2>5 DEF CommitsDecided
<1>8. RefusalsKept'
  <2> SUFFICES ASSUME ~TimerOverlaps, NEW t \in Tx,
                      \/ caller'[t] \in {"aborted", "refused"}
                      \/ caller'[t] = "waiting" /\ tstate'[t] # "COMMITTED"
               PROVE  "COMMITTED" \notin decided'[t]
      BY DEF RefusalsKept
  <2>0. /\ Stepped(t, rs[t])
        /\ decided'[t] = decided[t] \cup
                            ({tstate'[t]} \cap {"COMMITTED", "ABORTED"})
        BY <1>0 DEF PutBack, CoordinatorStep, DecidedMore
  <2>1. /\ \/ caller[t] \in {"aborted", "refused"}
           \/ caller[t] = "waiting" /\ tstate[t] # "COMMITTED"
        /\ tstate'[t] = "COMMITTED" =>
              tstate[t] = "COMMITTED" \/ "COMMITTED" \in decided[t]
        BY <2>0 DEF Stepped, Stays, Enters, Ended, CallersMatch
  <2>2. "COMMITTED" \notin decided[t]  BY <2>1 DEF RefusalsKept
  <2>3. tstate[t] # "COMMITTED"  BY <2>2 DEF CommitsDecided
  <2> QED  BY <2>0, <2>1, <2>2, <2>3
<1>9. VotesKnown'
  <2> SUFFICES ASSUME ~TimerOverlaps, NEW t \in Tx
               PROVE  /\ caller'[t] = "waiting" =>
                         /\ Backups' \subseteq DOMAIN resp'[t]
                         /\ tstate'[t] \in {"WAITING", "COLLECTING"} => Collecting(t)'
                         /\ tstate'[t] = "COMMITTED" => Committing(t)'
                      /\ caller'[t] = "committed" =>
                            \A l \in Backups' : applied'[l][t] > 0
                      /\ caller'[t] = "returned" =>
                            \A l \in alive' : applied'[l][t] > 0
      BY DEF VotesKnown
  <2>0. /\ Backups' = Backups /\ Backups \subseteq alive
        /\ Backups \subseteq Locations /\ alive \subseteq Locations
        /\ \A l \in Locations, u \in Tx : applied[l][u] > 0 => applied'[l][u] > 0
        /\ Stepped(t, rs[t])
        /\ \A m \in net' : m \in net \/ Requested(m)
        BY <1>0 DEF Backups, TypeOK, CoordinatorFrame, PutBack, Repeated
  <2>1. ASSUME caller'[t] = "waiting"
        PROVE  /\ Backups' \subseteq DOMAIN resp'[t]
               /\ tstate'[t] \in {"WAITING", "COLLECTING"} => Collecting(t)'
               /\ tstate'[t] = "COMMITTED" => Committing(t)'
    <3>1. /\ caller[t] = "waiting"
          /\ tstate'[t] # "NONE"
          BY <2>0, <1>4, <2>1 DEF Stepped, Stays, Enters, Ended, CallersMatch
    <3>2. /\ DOMAIN resp'[t] = DOMAIN rs[t]
          /\ \A l \in DOMAIN rs[t] : \/ resp'[t][l] = "UNKNOWN"
                                     \/ /\ tstate'[t] = tstate[t]
                                        /\ resp'[t][l] = rs[t][l]
          BY <1>0, <3>1 DEF Answered
    <3>3. Backups \subseteq DOMAIN rs[t]
          BY <2>0, <3>1 DEF VotesKnown, Heard
    <3>4. ASSUME tstate'[t] \in {"WAITING", "COLLECTING"}
          PROVE  Collecting(t)'
      <4>1. Collecting(t)
            BY <2>0, <3>1, <3>4 DEF VotesKnown, Stepped, Stays, Enters, Ended
      <4>2. \A m \in net' : m.tx = t => ~Ends(m)
            BY <2>0, <1>1, <3>4, <4>1 DEF Collecting, Ends
      <4>3. \A m \in net' : m.tx = t /\ m.type = "yes" /\ m.loc \in Backups
                               => t \in prepared[m.loc]
            BY <2>0, <1>1, <4>1 DEF Collecting
      <4>4. ASSUME NEW l \in Backups, resp'[t][l] = "YES"
            PROVE  t \in prepared[l]
        <5>1. rs[t][l] = "YES" /\ l \in DOMAIN rs[t]  BY <3>2, <3>3, <4>4
        <5> QED  BY <4>1, <5>1 DEF Heard, Collecting
      <4> QED  BY <1>0, <2>0, <4>2, <4>3, <4>4 DEF Collecting
    <3>5. ASSUME tstate'[t] = "COMMITTED"
          PROVE  Committing(t)'
      <4>1. \/ tstate[t] = "COMMITTED"
            \/ tstate[t] = "COLLECTING" /\ AllAre(rs[t], "YES")
            \/ tstate[t] = "WAITING" /\ DOMAIN rs[t] = {}
            BY <2>0, <3>1, <3>5 DEF CallersMatch, Stepped, Stays, Enters, Ended
      <4>2. \/ Committing(t)
            \/ /\ Collecting(t)
               /\ \A l \in Backups : rs[t][l] = "YES"
            BY <3>1, <3>3, <4>1 DEF VotesKnown, AllAre
      <4>3. \A m \in net' : m.tx = t => ~GivesUp(m)
        <5>1. \A m \in net : m.tx = t => ~GivesUp(m)
              BY <4>2 DEF Committing, Collecting, Ends, GivesUp
        <5> QED  BY <2>0, <1>1, <3>5, <5>1 DEF GivesUp
      <4>4. \A l \in Backups : t \in prepared[l] \/ applied[l][t] > 0
        <5>1. CASE Committing(t)  BY <5>1 DEF Committing
        <5>2. CASE Collecting(t) /\ \A l \in Backups : rs[t][l] = "YES"
          <6> SUFFICES ASSUME NEW l \in Backups PROVE t \in prepared[l]
              OBVIOUS
          <6>1. rs[t][l] = "YES" /\ l \in DOMAIN rs[t]  BY <3>3, <5>2
          <6> QED  BY <5>2, <6>1 DEF Heard, Collecting
        <5> QED  BY <4>2, <5>1, <5>2
      <4>5. \A m \in net' : m.tx = t /\ m.type = "end" /\ m.loc \in Backups
                               => applied[m.loc][t] > 0
            BY <2>0, <1>1, <4>2 DEF Committing, Collecting, Ends
      <4>6. ASSUME NEW l \in Backups, resp'[t][l] = "END"
            PROVE  applied[l][t] > 0
        <5>1. rs[t][l] = "END" /\ l \in DOMAIN rs[t] /\ tstate[t] = "COMMITTED"
              BY <3>2, <3>3, <3>5, <4>6
        <5>2. Committing(t)  BY <3>1, <5>1 DEF VotesKnown
        <5> QED  BY <5>1, <5>2 DEF Heard, Committing
      <4> QED  BY <1>0, <2>0, <4>3, <4>4, <4>5, <4>6 DEF Committing
    <3> QED  BY <2>0, <3>2, <3>3, <3>4, <3>5
  <2>2. ASSUME caller'[t] = "committed", NEW l \in Backups'
        PROVE  applied'[l][t] > 0
    <3>1. CASE caller[t] = "committed"  BY <2>0, <3>1 DEF VotesKnown
    <3>2. CASE caller[t] # "committed"
      <4>1. /\ caller[t] = "waiting" /\ tstate[t] = "COMMITTED"
            /\ AllAre(rs[t], "END")
            BY <2>0, <2>2, <3>2 DEF Stepped, Stays, Enters, Ended
      <4>2. Committing(t) /\ l \in DOMAIN rs[t]
            BY <2>0, <4>1 DEF VotesKnown, Heard
      <4>3. applied[l][t] > 0
            BY <2>0, <4>1, <4>2 DEF Heard, AllAre, Committing
      <4> QED  BY <2>0, <4>3
    <3> QED  BY <3>1, <3>2
  <2>3. ASSUME caller'[t] = "returned", NEW l \in alive'
        PROVE  applied'[l][t] > 0
    <3>1. caller[t] = "returned"
          BY <2>0, <2>3 DEF Stepped, Stays, Enters, Ended
    <3> QED  BY <1>0, <2>0, <3>1 DEF VotesKnown
  <2> QED  BY <2>1, <2>2, <2>3
<1> QED  BY <1>2, <1>3, <1>4, <1>5, <1>6, <1>7, <1>8, <1>9

-----------------------------------------------------------------------------
(* The cohorts.                                                            *)

\* What a step may do to the cohorts and their data: what is prepared keeps
\* applying, what is loaded stays and was decided, and a cohort does not drop
\* what the coordinator still needs.
CohortData ==
    /\ prepared' \in [Locations -> SUBSET Tx]
    /\ timer' \in [Locations -> SUBSET Tx]
    /\ \A l \in Locations : timer'[l] \subseteq prepared'[l]
    /\ done' \in [Locations -> Seq(Records)]
    /\ \A l \in Locations : Len(done'[l]) <= MaxDone
    /\ store' \in [Locations -> [Oids -> Values]]
    /\ applied' \in [Locations -> [Tx -> 0 .. 2]]
    /\ CohortsReady'
    /\ \A l \in Locations : \A i \in DOMAIN done'[l] :
          done'[l][i].status = "COMMITTED" => "COMMITTED" \in decided[done'[l][i].tx]
    /\ \A l \in Locations, t \in Tx :
          /\ applied[l][t] > 0 => applied'[l][t] > 0
          /\ applied'[l][t] > 0 => applied[l][t] > 0 \/ "COMMITTED" \in decided[t]
          /\ caller[t] = "idle" => t \notin prepared'[l] /\ applied'[l][t] = 0
          /\ /\ t \in prepared[l] /\ t \notin prepared'[l]
             /\ caller[t] = "waiting" /\ ~TimerOverlaps
             =>
                /\ tstate[t] \notin {"WAITING", "COLLECTING"}
                /\ tstate[t] = "COMMITTED" => applied'[l][t] > 0

\* What it may send.
Told(m) ==
    /\ m \in Messages
    /\ caller[m.tx] # "idle"
    /\ SaysCommitted(m) => "COMMITTED" \in decided[m.tx]
    /\ /\ caller[m.tx] = "waiting" /\ ~TimerOverlaps
       /\ tstate[m.tx] \in {"WAITING", "COLLECTING"}
       =>
          /\ ~Ends(m)
          /\ m.type = "yes" /\ m.loc \in Backups => m.tx \in prepared'[m.loc]
    /\ /\ caller[m.tx] = "waiting" /\ ~TimerOverlaps
       /\ tstate[m.tx] = "COMMITTED"
       =>
          /\ ~GivesUp(m)
          /\ m.type = "end" /\ m.loc \in Backups => applied'[m.loc][m.tx] > 0

CohortFrame ==
    /\ UNCHANGED <<coordVars, change, synch, alive, active, members, failing,
                   crashes>>
    /\ losses' \in 0 .. MaxLosses
    /\ \A m \in net' : m \in net \/ Told(m)

(* A step of a cohort keeps the invariant.                                 *)
LEMMA CohortKeeps ==
    ASSUME IInv, CohortData, CohortFrame
    PROVE  IInv'
<1> USE DEF IInv
<1>0. /\ UNCHANGED <<tstate, resp, blockers, att, cdone, caller, decided, change,
                     synch, alive, active, members, failing, crashes>>
      /\ \A m \in net : m \in Messages
      /\ \A m \in net' : m \in net \/ Told(m)
      BY DEF TypeOK, CohortFrame, coordVars
<1>1. TypeOK'
      BY <1>0 DEF TypeOK, CohortData, CohortFrame, Told
<1>2. Coordinated'
  <2>1. ASSUME NEW t \in Tx, caller[t] = "idle"
        PROVE  Unborn(t)'
    <3>1. Unborn(t)  BY <2>1 DEF Coordinated
    <3> QED  BY <1>0, <2>1, <3>1 DEF Unborn, CohortData, Told
  <2> QED  BY <1>0, <2>1 DEF Coordinated, CohortData
<1>3. CallersMatch'  BY <1>0 DEF CallersMatch
<1>4. BlockersKnown'  BY <1>0 DEF BlockersKnown, Live
<1>5. CohortsReady'  BY DEF CohortData
<1>6. CommitsDecided'
  <2>1. OnlyCommittedIsApplied'
        BY <1>0 DEF CommitsDecided, OnlyCommittedIsApplied, CohortData
  <2> QED  BY <1>0, <2>1 DEF CommitsDecided, CohortData, Told, SaysCommitted
<1>7. RefusalsKept'  BY <1>0 DEF RefusalsKept
<1>8. VotesKnown'
  <2> SUFFICES ASSUME ~TimerOverlaps, NEW t \in Tx
               PROVE  /\ caller[t] = "waiting" =>
                         /\ Backups \subseteq DOMAIN resp[t]
                         /\ tstate[t] \in {"WAITING", "COLLECTING"} => Collecting(t)'
                         /\ tstate[t] = "COMMITTED" => Committing(t)'
                      /\ caller[t] = "committed" =>
                            \A l \in Backups : applied'[l][t] > 0
                      /\ caller[t] = "returned" =>
                            \A l \in alive : applied'[l][t] > 0
      BY <1>0 DEF VotesKnown, Backups
  <2>0. /\ Backups' = Backups /\ Backups \subseteq Locations
        /\ alive \subseteq Locations
        BY <1>0 DEF Backups, TypeOK
  <2>1. ASSUME caller[t] = "waiting", tstate[t] \in {"WAITING", "COLLECTING"}
        PROVE  Collecting(t)'
    <3>1. Collecting(t)  BY <2>1 DEF VotesKnown
    <3>2. \A l \in Locations : t \in prepared[l] => t \in prepared'[l]
          BY <2>1 DEF CohortData
    <3>3. \A m \in net' : m.tx = t => ~Ends(m)
          BY <1>0, <2>1, <3>1 DEF Collecting, Told
    <3>4. \A m \in net' : m.tx = t /\ m.type = "yes" /\ m.loc \in Backups
                             => t \in prepared'[m.loc]
          BY <1>0, <2>0, <2>1, <3>1, <3>2 DEF Collecting, Told
    <3>5. \A l \in Backups : resp[t][l] = "YES" => t \in prepared'[l]
          BY <2>0, <3>1, <3>2 DEF Collecting
    <3> QED  BY <1>0, <2>0, <3>3, <3>4, <3>5 DEF Collecting, Ends
  <2>2. ASSUME caller[t] = "waiting", tstate[t] = "COMMITTED"
        PROVE  Committing(t)'
    <3>1. Committing(t)  BY <2>2 DEF VotesKnown
    <3>2. \A l \in Locations : applied[l][t] > 0 => applied'[l][t] > 0
          BY DEF CohortData
    <3>3. \A m \in net' : m.tx = t => ~GivesUp(m)
          BY <1>0, <2>2, <3>1 DEF Committing, Told
    <3>4. \A l \in Backups : t \in prepared'[l] \/ applied'[l][t] > 0
          BY <2>0, <2>2, <3>1, <3>2 DEF Committing, CohortData
    <3>5. \A m \in net' : m.tx = t /\ m.type = "end" /\ m.loc \in Backups
                             => applied'[m.loc][t] > 0
          BY <1>0, <2>0, <2>2, <3>1, <3>2 DEF Committing, Told
    <3>6. \A l \in Backups : resp[t][l] = "END" => applied'[l][t] > 0
          BY <2>0, <3>1, <3>2 DEF Committing
    <3> QED  BY <1>0, <2>0, <3>3, <3>4, <3>5, <3>6 DEF Committing, GivesUp
  <2>3. \A l \in Locations : applied[l][t] > 0 => applied'[l][t] > 0
        BY DEF CohortData
  <2> QED  BY <2>0, <2>1, <2>2, <2>3 DEF VotesKnown
<1> QED  BY <1>1, <1>2, <1>3, <1>4, <1>5, <1>6, <1>7, <1>8

(* A change is a sequence of records.                                      *)
LEMMA ChangeType ==
    ASSUME TypeOK, NEW t \in Tx
    PROVE  change[t] \in Seq([oid : Oids, op : Kinds])
<1>1. change[t] \in Changes \/ change[t] = <<>>  BY DEF TypeOK, NoChange
<1>2. CASE change[t] \in Changes  BY <1>2, ConstantsAssumption
<1>3. CASE change[t] = <<>>  BY <1>3
<1> QED  BY <1>1, <1>2, <1>3

(* A step that leaves the cohorts alone is one.                            *)
LEMMA CohortIdle ==
    ASSUME IInv, UNCHANGED <<cohortVars, dataVars, change, active, alive>>
    PROVE  CohortData
<1>1. UNCHANGED <<prepared, timer, done, store, applied, change, active, alive>>
      BY DEF cohortVars, dataVars
<1>2. CohortsReady'  BY <1>1 DEF IInv, CohortsReady, Backups
<1>3. ASSUME NEW t \in Tx, caller[t] = "idle", NEW l \in Locations
      PROVE  t \notin prepared[l] /\ applied[l][t] = 0
      BY <1>3 DEF IInv, Coordinated, Unborn
<1> QED  BY <1>1, <1>2, <1>3
         DEF CohortData, IInv, TypeOK, Coordinated, CommitsDecided

(* ... and so does the end of a transaction at cohort l with status s, which *)
(* a decision to commit precedes and which the coordinator does not         *)
(* contradict.                                                              *)
LEMMA ResolveFact ==
    ASSUME IInv, NEW l \in Locations, NEW t \in Tx, NEW s \in Statuses,
           Resolve(l, t, s), UNCHANGED <<active, alive, change>>,
           s = "COMMITTED" => "COMMITTED" \in decided[t],
           caller[t] = "waiting" /\ ~TimerOverlaps =>
               /\ s \in {"COMMITTED", "ABORTED"} =>
                     tstate[t] \notin {"WAITING", "COLLECTING"}
               /\ s = "ABORTED" => tstate[t] # "COMMITTED"
    PROVE  /\ CohortData
           /\ s = "COMMITTED" /\ t \in prepared[l] => applied'[l][t] > 0
<1> USE DEF IInv
<1>1. CASE t \notin prepared[l] \/ s \notin {"COMMITTED", "ABORTED"}
  <2>1. UNCHANGED <<cohortVars, dataVars>>
        BY <1>1 DEF Resolve, commit_i, rollback_i
  <2> QED  BY <1>1, <2>1, CohortIdle
<1>2. CASE t \in prepared[l] /\ s \in {"COMMITTED", "ABORTED"}
  <2> DEFINE d == IF s = "COMMITTED" /\ validate(store[l], change[t])
                  THEN "COMMITTED" ELSE "ABORTED"
  <2>1. /\ Finish(l, t, d)
        /\ s = "COMMITTED" => Load(l, t, change[t])
        /\ s = "ABORTED" => UNCHANGED dataVars
        BY <1>2 DEF Resolve, commit_i, rollback_i
  <2>2. /\ prepared \in [Locations -> SUBSET Tx]
        /\ timer \in [Locations -> SUBSET Tx]
        /\ done \in [Locations -> Seq(Records)]
        /\ \A k \in Locations : Len(done[k]) <= MaxDone
        /\ store \in [Locations -> [Oids -> Values]]
        /\ applied \in [Locations -> [Tx -> 0 .. 2]]
        BY DEF TypeOK
  <2>3. /\ d \in Statuses
        /\ d = "COMMITTED" => s = "COMMITTED"
        BY DEF Statuses
  <2> HIDE DEF d
  <2>4. /\ prepared' \in [Locations -> SUBSET Tx]
        /\ \A k \in Locations : prepared'[k] =
              IF k = l THEN prepared[k] \ {t} ELSE prepared[k]
        BY <2>1, <2>2 DEF Finish
  <2>5. /\ timer' \in [Locations -> SUBSET Tx]
        /\ \A k \in Locations : timer'[k] \subseteq prepared'[k]
    <3>1. /\ timer' \in [Locations -> SUBSET Tx]
          /\ \A k \in Locations : timer'[k] =
                IF k = l THEN timer[k] \ {t} ELSE timer[k]
          BY <2>1, <2>2 DEF Finish
    <3> QED  BY <2>4, <3>1 DEF Coordinated
  <2>6. /\ done' \in [Locations -> Seq(Records)]
        /\ \A k \in Locations : Len(done'[k]) <= MaxDone
        /\ \A k \in Locations : \A i \in DOMAIN done'[k] :
              done'[k][i].status = "COMMITTED" => "COMMITTED" \in decided[done'[k][i].tx]
    <3>1. /\ SaveTrans(done[l], t, d) \in Seq(Records)
          /\ Len(SaveTrans(done[l], t, d)) <= MaxDone
          /\ \A i \in DOMAIN SaveTrans(done[l], t, d) :
                \/ SaveTrans(done[l], t, d)[i] = [tx |-> t, status |-> d]
                \/ \E j \in DOMAIN done[l] : SaveTrans(done[l], t, d)[i] = done[l][j]
          BY <2>2, <2>3, SaveTransFact
    <3>2. /\ done' \in [Locations -> Seq(Records)]
          /\ \A k \in Locations : done'[k] =
                IF k = l THEN SaveTrans(done[l], t, d) ELSE done[k]
          BY <2>1, <2>2, <3>1 DEF Finish
    <3>3. ASSUME NEW k \in Locations, NEW i \in DOMAIN done'[k],
                 done'[k][i].status = "COMMITTED"
          PROVE  "COMMITTED" \in decided[done'[k][i].tx]
      <4>1. CASE done'[k][i] = [tx |-> t, status |-> d]
            BY <2>3, <3>3, <4>1
      <4>2. CASE \E j \in DOMAIN done[k] : done'[k][i] = done[k][j]
            BY <3>3, <4>2 DEF CommitsDecided
      <4>3. CASE k = l
        <5>1. done'[k] = SaveTrans(done[l], t, d)  BY <3>2, <4>3
        <5> QED  BY <3>1, <4>1, <4>2, <4>3, <5>1
      <4>4. CASE k # l
        <5>1. done'[k] = done[k]  BY <3>2, <4>4
        <5> QED  BY <4>2, <5>1
      <4> QED  BY <4>3, <4>4
    <3> QED  BY <2>2, <3>1, <3>2, <3>3
  <2>7. /\ store' \in [Locations -> [Oids -> Values]]
        /\ \A k \in Locations : store'[k] =
              IF k = l /\ s = "COMMITTED" THEN load_state(store[l], t, change[t])
              ELSE store[k]
    <3>1. CASE s = "COMMITTED"
      <4>1. store' = [store EXCEPT ![l] = load_state(@, t, change[t])]
            BY <2>1, <3>1 DEF Load
      <4>2. load_state(store[l], t, change[t]) \in [Oids -> Values]
            BY <2>2, LoadType
      <4> QED  BY <2>2, <3>1, <4>1, <4>2
    <3>2. CASE s = "ABORTED"  BY <2>1, <2>2, <3>2 DEF dataVars
    <3> QED  BY <1>2, <3>1, <3>2
  <2>8. /\ applied' \in [Locations -> [Tx -> 0 .. 2]]
        /\ \A k \in Locations, u \in Tx : applied'[k][u] =
              IF k = l /\ u = t /\ s = "COMMITTED" /\ applied[k][u] # 2
              THEN applied[k][u] + 1 ELSE applied[k][u]
    <3>1. CASE s = "COMMITTED"
      <4>1. applied' = [applied EXCEPT ![l][t] = IF @ = 2 THEN 2 ELSE @ + 1]
            BY <2>1, <3>1 DEF Load
      <4>2. applied[l][t] \in 0 .. 2  BY <2>2
      <4>3. (IF applied[l][t] = 2 THEN 2 ELSE applied[l][t] + 1) \in 0 .. 2
            BY <4>2
      <4> QED  BY <2>2, <3>1, <4>1, <4>3
    <3>2. CASE s = "ABORTED"  BY <2>1, <2>2, <3>2 DEF dataVars
    <3> QED  BY <1>2, <3>1, <3>2
  <2>9. \A k \in Locations, u \in Tx :
          /\ applied[k][u] \in 0 .. 2
          /\ applied[k][u] > 0 => applied'[k][u] > 0
          /\ applied'[k][u] > 0 => applied[k][u] > 0 \/ "COMMITTED" \in decided[u]
          /\ k = l /\ u = t /\ s = "COMMITTED" => applied'[k][u] > 0
        BY <2>2, <2>8
  <2>10. CohortsReady'
    <3> SUFFICES ASSUME NEW k \in Locations, NEW u \in prepared'[k]
                 PROVE  /\ \A v \in prepared'[k] :
                              v # u => ~oids_match(change[u], change[v])
                        /\ k \in Backups => validate(store'[k], change[u])
        BY DEF CohortsReady, Backups
    <3>1. u \in prepared[k] /\ u \in Tx /\ (k = l => u # t)  BY <2>2, <2>4
    <3>2. \A v \in prepared'[k] : v # u => ~oids_match(change[u], change[v])
          BY <2>4, <3>1 DEF CohortsReady
    <3>3. k \in Backups => validate(store[k], change[u])
          BY <3>1 DEF CohortsReady
    <3>4. k = l => ~oids_match(change[t], change[u])
          BY <1>2, <3>1 DEF CohortsReady
    <3>5. ASSUME k = l, k \in Backups
          PROVE  validate(load_state(store[l], t, change[t]), change[u])
          BY <2>2, <3>1, <3>3, <3>4, <3>5, ChangeType, LoadKeepsValid
    <3> QED  BY <2>7, <3>2, <3>3, <3>5
  <2>11. caller[t] # "idle"  BY <1>2 DEF Coordinated, Unborn
  <2>12. \A k \in Locations, u \in Tx : caller[u] = "idle" =>
            u \notin prepared[k] /\ applied[k][u] = 0
         BY DEF Coordinated, Unborn
  <2>13. ASSUME NEW k \in Locations, NEW u \in Tx
         PROVE  /\ applied[k][u] > 0 => applied'[k][u] > 0
                /\ applied'[k][u] > 0 => applied[k][u] > 0 \/ "COMMITTED" \in decided[u]
                /\ caller[u] = "idle" => u \notin prepared'[k] /\ applied'[k][u] = 0
                /\ /\ u \in prepared[k] /\ u \notin prepared'[k]
                   /\ caller[u] = "waiting" /\ ~TimerOverlaps
                   =>
                      /\ tstate[u] \notin {"WAITING", "COLLECTING"}
                      /\ tstate[u] = "COMMITTED" => applied'[k][u] > 0
    <3>1. caller[u] = "idle" => u \notin prepared'[k] /\ applied'[k][u] = 0
      <4>1. SUFFICES ASSUME caller[u] = "idle"
                     PROVE  u \notin prepared'[k] /\ applied'[k][u] = 0
            OBVIOUS
      <4>2. u # t /\ u \notin prepared[k] /\ applied[k][u] = 0
            BY ONLY <2>11, <2>12, <4>1, k \in Locations, u \in Tx
      <4> QED  BY ONLY <2>4, <2>8, <4>2, k \in Locations, u \in Tx
    <3>2. ASSUME u \in prepared[k], u \notin prepared'[k], caller[u] = "waiting",
                 ~TimerOverlaps
          PROVE  /\ tstate[u] \notin {"WAITING", "COLLECTING"}
                 /\ tstate[u] = "COMMITTED" => applied'[k][u] > 0
      <4>1. k = l /\ u = t
            BY ONLY <2>4, <3>2, k \in Locations
      <4>2. /\ tstate[t] \notin {"WAITING", "COLLECTING"}
            /\ s = "ABORTED" => tstate[t] # "COMMITTED"
            BY <1>2, <3>2, <4>1
      <4> QED  BY ONLY <1>2, <2>9, <4>1, <4>2, k \in Locations, u \in Tx
    <3> QED  BY ONLY <2>9, <3>1, <3>2, k \in Locations, u \in Tx
  <2>14. s = "COMMITTED" /\ t \in prepared[l] => applied'[l][t] > 0
         BY ONLY <2>9, l \in Locations, t \in Tx
  <2>15. CohortData
         BY ONLY <2>4, <2>5, <2>6, <2>7, <2>8, <2>10, <2>13 DEF CohortData
  <2> QED  BY ONLY <2>14, <2>15
<1> QED  BY <1>1, <1>2

-----------------------------------------------------------------------------
(* One lemma for every action.  A cohort prepares a change that applies and *)
(* does not conflict, and only then says yes.                              *)
LEMMA PrepareKeeps ==
    ASSUME IInv, NEW m \in net, prepare_i(m)
    PROVE  IInv'
<1> USE DEF IInv
<1> DEFINE l == m.loc
           t == m.tx
<1>1. /\ m \in Messages /\ l \in Locations /\ t \in Tx /\ m.type = "prepare"
      /\ caller[t] # "idle"
      BY DEF TypeOK, Messages, prepare_i, Coordinated, Unborn
<1>2. /\ prepared \in [Locations -> SUBSET Tx]
      /\ timer \in [Locations -> SUBSET Tx]
      /\ done \in [Locations -> Seq(Records)]
      /\ \A k \in Locations : Len(done[k]) <= MaxDone
      /\ UNCHANGED <<coordVars, change, envVars, dataVars>>
      /\ UNCHANGED <<store, applied, decided, tstate, caller, change, alive, active>>
      BY DEF TypeOK, prepare_i, coordVars, envVars, dataVars
<1>3. CASE MayPrepare(l, t)
  <2>1. /\ prepared' = [prepared EXCEPT ![l] = @ \cup {t}]
        /\ timer' = [timer EXCEPT ![l] = @ \cup {t}]
        /\ net' = (net \ {m}) \cup Answer("yes", t, l, "UNKNOWN")
        /\ UNCHANGED done
        BY <1>3 DEF prepare_i
  <2>2. /\ prepared' \in [Locations -> SUBSET Tx]
        /\ timer' \in [Locations -> SUBSET Tx]
        /\ \A k \in Locations : prepared'[k] =
              IF k = l THEN prepared[k] \cup {t} ELSE prepared[k]
        /\ \A k \in Locations : timer'[k] =
              IF k = l THEN timer[k] \cup {t} ELSE timer[k]
        BY <1>1, <1>2, <2>1
  <2>3. CohortsReady'
    <3>1. validate(store[l], change[t])  BY <1>3 DEF MayPrepare
    <3>2. \A u \in prepared[l] : u # t => ~oids_match(change[t], change[u])
          BY <1>1, <1>3 DEF MayPrepare, CohortsReady
    <3>3. \A u \in prepared[l] : u # t => ~oids_match(change[u], change[t])
          BY <3>2, MatchSymmetric
    <3>4. Backups' = Backups  BY <1>2 DEF Backups
    <3>5. \A k \in Locations : \A u, v \in prepared'[k] :
              u # v => ~oids_match(change[u], change[v])
          BY <1>1, <2>2, <3>2, <3>3 DEF CohortsReady
    <3>6. \A k \in Locations : k \in Backups =>
              \A u \in prepared'[k] : validate(store[k], change[u])
          BY <1>1, <2>2, <3>1 DEF CohortsReady
    <3> QED  BY <1>2, <3>4, <3>5, <3>6 DEF CohortsReady
  <2>4. CohortData
    <3>1. \A k \in Locations : timer'[k] \subseteq prepared'[k]
          BY <2>2 DEF Coordinated
    <3>2. \A k \in Locations, u \in Tx : caller[u] = "idle" =>
              u \notin prepared'[k] /\ applied[k][u] = 0
          BY <1>1, <2>2 DEF Coordinated, Unborn
    <3> QED  BY <1>2, <2>1, <2>2, <2>3, <3>1, <3>2
             DEF CohortData, TypeOK, CommitsDecided
  <2>5. ASSUME NEW x \in Answer("yes", t, l, "UNKNOWN")
        PROVE  Told(x)
    <3>1. x = Message("yes", t, l, 0, "UNKNOWN")  BY DEF Answer
    <3>2. 0 \in 0 .. MaxAttempts  BY ConstantsAssumption
    <3>3. x \in Messages /\ x.type = "yes" /\ x.tx = t /\ x.loc = l
          BY <1>1, <3>1, <3>2 DEF Messages, Message, Answers, Statuses
    <3> QED  BY <1>1, <2>2, <3>3 DEF Told, SaysCommitted, Ends, GivesUp
  <2>6. CohortFrame
        BY <1>2, <2>1, <2>5 DEF CohortFrame, envVars, TypeOK
  <2> QED  BY <2>4, <2>6, CohortKeeps
<1>4. CASE ~MayPrepare(l, t)
  <2>1. /\ done' = [done EXCEPT ![l] = SaveTrans(@, t, "ABORTED")]
        /\ net' = (net \ {m}) \cup Answer("no", t, l, "UNKNOWN")
        /\ UNCHANGED <<prepared, timer>>
        BY <1>4 DEF prepare_i
  <2>2. /\ SaveTrans(done[l], t, "ABORTED") \in Seq(Records)
        /\ Len(SaveTrans(done[l], t, "ABORTED")) <= MaxDone
        /\ \A i \in DOMAIN SaveTrans(done[l], t, "ABORTED") :
              \/ SaveTrans(done[l], t, "ABORTED")[i] = [tx |-> t, status |-> "ABORTED"]
              \/ \E j \in DOMAIN done[l] :
                    SaveTrans(done[l], t, "ABORTED")[i] = done[l][j]
    <3>1. done[l] \in Seq(Records) /\ "ABORTED" \in Statuses
          BY <1>1, <1>2 DEF Statuses
    <3> QED  BY <1>1, <3>1, SaveTransFact
  <2>3. /\ done' \in [Locations -> Seq(Records)]
        /\ \A k \in Locations : done'[k] =
              IF k = l THEN SaveTrans(done[l], t, "ABORTED") ELSE done[k]
        BY <1>1, <1>2, <2>1, <2>2
  <2>4. ASSUME NEW k \in Locations, NEW i \in DOMAIN done'[k],
               done'[k][i].status = "COMMITTED"
        PROVE  "COMMITTED" \in decided[done'[k][i].tx]
    <3>1. \E j \in DOMAIN done[k] : done'[k][i] = done[k][j]
          BY <2>2, <2>3, <2>4
    <3> QED  BY <2>4, <3>1 DEF CommitsDecided
  <2>5. CohortsReady'  BY <1>2, <2>1 DEF CohortsReady, Backups
  <2>6. CohortData
    <3>1. \A k \in Locations, u \in Tx : caller[u] = "idle" =>
              u \notin prepared[k] /\ applied[k][u] = 0
          BY DEF Coordinated, Unborn
    <3>2. \A k \in Locations : Len(done'[k]) <= MaxDone
          BY <2>2, <2>3 DEF TypeOK
    <3>3. /\ prepared' \in [Locations -> SUBSET Tx]
          /\ timer' \in [Locations -> SUBSET Tx]
          /\ store' \in [Locations -> [Oids -> Values]]
          /\ applied' \in [Locations -> [Tx -> 0 .. 2]]
          BY <1>2, <2>1 DEF TypeOK
    <3>4. \A k \in Locations : timer'[k] \subseteq prepared'[k]
          BY <2>1 DEF Coordinated
    <3> QED  BY <1>2, <2>1, <2>3, <2>4, <2>5, <3>1, <3>2, <3>3, <3>4
             DEF CohortData
  <2>7. ASSUME NEW x \in Answer("no", t, l, "UNKNOWN")
        PROVE  Told(x)
    <3>1. x = Message("no", t, l, 0, "UNKNOWN")  BY DEF Answer
    <3>2. 0 \in 0 .. MaxAttempts  BY ConstantsAssumption
    <3>3. x \in Messages /\ x.type = "no" /\ x.tx = t
          BY <1>1, <3>1, <3>2 DEF Messages, Message, Answers, Statuses
    <3> QED  BY <1>1, <3>3 DEF Told, SaysCommitted, Ends, GivesUp
  <2>8. CohortFrame
        BY <1>2, <2>1, <2>7 DEF CohortFrame, envVars, TypeOK
  <2> QED  BY <2>6, <2>8, CohortKeeps
<1> QED  BY <1>3, <1>4

(* What the coordinator answers to a status query agrees with what it does. *)
LEMMA StatusFact ==
    ASSUME IInv, NEW t \in Tx
    PROVE  /\ get_transaction_status(t) \in Statuses
           /\ get_transaction_status(t) = "COMMITTED" => "COMMITTED" \in decided[t]
           /\ caller[t] = "waiting" =>
                 /\ get_transaction_status(t) \in {"COMMITTED", "ABORTED"} =>
                       tstate[t] \notin {"WAITING", "COLLECTING"}
                 /\ get_transaction_status(t) = "ABORTED" => tstate[t] # "COMMITTED"
<1> USE DEF IInv
<1>1. tstate[t] \in TransactionStates /\ cdone \in Seq(Records)
      BY DEF TypeOK
<1>2. /\ DoneStatus(cdone, t) \in Statuses
      /\ DoneStatus(cdone, t) # "UNKNOWN" =>
            \E i \in DOMAIN cdone :
               cdone[i].tx = t /\ cdone[i].status = DoneStatus(cdone, t)
      BY <1>1, DoneStatusFact
<1>3. DoneStatus(cdone, t) = "COMMITTED" => "COMMITTED" \in decided[t]
      BY <1>2 DEF CommitsDecided
<1>4. tstate[t] = "COMMITTED" => "COMMITTED" \in decided[t]
      BY DEF CommitsDecided
<1>5. \/ tstate[t] \in {"WAITING", "RECOVERING"}
            /\ get_transaction_status(t) = "UNKNOWN"
      \/ tstate[t] = "COLLECTING" /\ get_transaction_status(t) = "PREPARED"
      \/ tstate[t] \in {"COMMITTED", "ABORTED"}
            /\ get_transaction_status(t) = tstate[t]
      \/ tstate[t] = "NONE" /\ get_transaction_status(t) = DoneStatus(cdone, t)
      BY <1>1 DEF get_transaction_status, TransactionStates
<1> QED  BY <1>2, <1>3, <1>4, <1>5 DEF Statuses, CallersMatch

(* A message is about a transaction that was requested.                    *)
LEMMA MessageFact ==
    ASSUME IInv, NEW m \in net
    PROVE  /\ m \in Messages /\ m.tx \in Tx /\ m.loc \in Locations
           /\ m.status \in Statuses
           /\ caller[m.tx] # "idle"
BY DEF IInv, TypeOK, Messages, Coordinated, Unborn

(* What is sent is of the type of messages.                                *)
LEMMA MessageType ==
    ASSUME NEW type \in Requests \cup Answers, NEW t \in Tx,
           NEW l \in Locations, NEW s \in Statuses
    PROVE  /\ Message(type, t, l, 0, s) \in Messages
           /\ Message(type, t, l, 0, s).type = type
           /\ Message(type, t, l, 0, s).tx = t
           /\ Message(type, t, l, 0, s).loc = l
           /\ Message(type, t, l, 0, s).status = s
<1>1. 0 \in 0 .. MaxAttempts  BY ConstantsAssumption
<1> QED  BY <1>1 DEF Message, Messages

\* An answer, if it is not lost, carries what it was given.
LEMMA AnswerType ==
    ASSUME NEW type \in Answers, NEW t \in Tx, NEW l \in Locations,
           NEW s \in Statuses, NEW x \in Answer(type, t, l, s)
    PROVE  /\ x \in Messages /\ x.type = type /\ x.tx = t /\ x.loc = l
           /\ x.status = s
BY MessageType DEF Answer

\* One lemma per handler of a cohort: commit,
LEMMA CommitKeeps ==
    ASSUME IInv, NEW m \in net, commit(m)
    PROVE  IInv'
<1>1. /\ m.tx \in Tx /\ m.loc \in Locations /\ caller[m.tx] # "idle"
      /\ m.type = "commit"
      BY MessageFact DEF commit
<1>2. /\ "COMMITTED" \in decided[m.tx]
      /\ caller[m.tx] = "waiting" /\ ~TimerOverlaps
            => tstate[m.tx] \notin {"WAITING", "COLLECTING"}
  <2>1. SaysCommitted(m) /\ Ends(m)  BY <1>1 DEF SaysCommitted, Ends
  <2> QED  BY <1>1, <2>1 DEF IInv, CommitsDecided, VotesKnown, Collecting
<1>3. Resolve(m.loc, m.tx, "COMMITTED")  BY DEF commit, Resolve
<1>4. /\ UNCHANGED <<coordVars, change, envVars>>
      /\ UNCHANGED <<active, alive, change>>
      /\ net' = (net \ {m}) \cup Answer("end", m.tx, m.loc, "UNKNOWN")
      BY DEF commit, envVars
<1>5. /\ CohortData
      /\ m.tx \in prepared[m.loc] => applied'[m.loc][m.tx] > 0
  <2>1. "COMMITTED" \in Statuses  BY DEF Statuses
  <2> QED  BY <1>1, <1>2, <1>3, <1>4, <2>1, ResolveFact
<1>6. ASSUME NEW x \in Answer("end", m.tx, m.loc, "UNKNOWN")
      PROVE  Told(x)
  <2>1. x \in Messages /\ x.type = "end" /\ x.tx = m.tx /\ x.loc = m.loc
        BY <1>1, AnswerType DEF Answers, Statuses
  <2>2. ASSUME caller[m.tx] = "waiting", ~TimerOverlaps,
               tstate[m.tx] = "COMMITTED", m.loc \in Backups
        PROVE  applied'[m.loc][m.tx] > 0
    <3>1. m.tx \in prepared[m.loc] \/ applied[m.loc][m.tx] > 0
          BY <1>1, <2>2 DEF IInv, VotesKnown, Committing
    <3> QED  BY <1>1, <1>5, <3>1 DEF CohortData
  <2> QED  BY <1>1, <1>2, <2>1, <2>2 DEF Told, SaysCommitted, GivesUp
<1>7. CohortFrame
      BY <1>4, <1>6 DEF CohortFrame, envVars, IInv, TypeOK
<1> QED  BY <1>5, <1>7, CohortKeeps

\* rollback,
LEMMA RollbackKeeps ==
    ASSUME IInv, NEW m \in net, rollback(m)
    PROVE  IInv'
<1>1. /\ m.tx \in Tx /\ m.loc \in Locations /\ caller[m.tx] # "idle"
      /\ m.type = "rollback"
      BY MessageFact DEF rollback
<1>2. caller[m.tx] = "waiting" /\ ~TimerOverlaps =>
          tstate[m.tx] \notin {"WAITING", "COLLECTING", "COMMITTED"}
  <2>1. GivesUp(m) /\ Ends(m)  BY <1>1 DEF GivesUp, Ends
  <2> QED  BY <1>1, <2>1 DEF IInv, VotesKnown, Collecting, Committing
<1>3. Resolve(m.loc, m.tx, "ABORTED")  BY DEF rollback, Resolve
<1>4. /\ UNCHANGED <<coordVars, change, envVars>>
      /\ UNCHANGED <<active, alive, change>>
      /\ net' = (net \ {m}) \cup Answer("end", m.tx, m.loc, "UNKNOWN")
      BY DEF rollback, envVars
<1>5. CohortData
  <2>1. "ABORTED" \in Statuses  BY DEF Statuses
  <2> QED  BY <1>1, <1>2, <1>3, <1>4, <2>1, ResolveFact
<1>6. ASSUME NEW x \in Answer("end", m.tx, m.loc, "UNKNOWN")
      PROVE  Told(x)
  <2>1. x \in Messages /\ x.type = "end" /\ x.tx = m.tx /\ x.loc = m.loc
        BY <1>1, AnswerType DEF Answers, Statuses
  <2> QED  BY <1>1, <1>2, <2>1 DEF Told, SaysCommitted
<1>7. CohortFrame
      BY <1>4, <1>6 DEF CohortFrame, envVars, IInv, TypeOK
<1> QED  BY <1>5, <1>7, CohortKeeps

\* the answer of the coordinator to a status query,
LEMMA SetStatusKeeps ==
    ASSUME IInv, NEW m \in net, set_transaction_status_i(m)
    PROVE  IInv'
<1>1. /\ m.tx \in Tx /\ m.loc \in Locations /\ caller[m.tx] # "idle"
      /\ m.status \in Statuses /\ m.type = "set_status"
      BY MessageFact DEF set_transaction_status_i
<1>2. /\ m.status = "COMMITTED" => "COMMITTED" \in decided[m.tx]
      /\ caller[m.tx] = "waiting" /\ ~TimerOverlaps =>
            /\ m.status \in {"COMMITTED", "ABORTED"} =>
                  tstate[m.tx] \notin {"WAITING", "COLLECTING"}
            /\ m.status = "ABORTED" => tstate[m.tx] # "COMMITTED"
  <2>1. /\ m.status = "COMMITTED" => SaysCommitted(m)
        /\ m.status \in {"COMMITTED", "ABORTED"} => Ends(m)
        /\ m.status = "ABORTED" => GivesUp(m)
        BY <1>1 DEF SaysCommitted, Ends, GivesUp
  <2> QED  BY <1>1, <2>1
           DEF IInv, CommitsDecided, VotesKnown, Collecting, Committing
<1>3. Resolve(m.loc, m.tx, m.status)  BY DEF set_transaction_status_i
<1>4. /\ UNCHANGED <<coordVars, change, envVars>>
      /\ UNCHANGED <<active, alive, change>>
      /\ net' = (net \ {m}) \cup
                   (IF m.status \in {"COMMITTED", "ABORTED"}
                       /\ m.tx \in prepared[m.loc]
                    THEN Answer("end", m.tx, m.loc, "UNKNOWN") ELSE {})
      BY DEF set_transaction_status_i, envVars
<1>5. /\ CohortData
      /\ m.status = "COMMITTED" /\ m.tx \in prepared[m.loc]
            => applied'[m.loc][m.tx] > 0
      BY <1>1, <1>2, <1>3, <1>4, ResolveFact
<1>6. ASSUME NEW x \in Answer("end", m.tx, m.loc, "UNKNOWN"),
             m.status \in {"COMMITTED", "ABORTED"}, m.tx \in prepared[m.loc]
      PROVE  Told(x)
  <2>1. x \in Messages /\ x.type = "end" /\ x.tx = m.tx /\ x.loc = m.loc
        BY <1>1, AnswerType DEF Answers, Statuses
  <2> QED  BY <1>1, <1>2, <1>5, <1>6, <2>1 DEF Told, SaysCommitted, GivesUp
<1>7. CohortFrame
      BY <1>4, <1>6 DEF CohortFrame, envVars, IInv, TypeOK
<1> QED  BY <1>5, <1>7, CohortKeeps

\* the query of a new primary,
LEMMA GetStatusKeeps ==
    ASSUME IInv, NEW m \in net, get_transaction_status_i(m)
    PROVE  IInv'
<1> DEFINE s == IF m.tx \in prepared[m.loc] THEN "PREPARED"
                ELSE DoneStatus(done[m.loc], m.tx)
<1>1. m.tx \in Tx /\ m.loc \in Locations /\ caller[m.tx] # "idle"
      BY MessageFact
<1>2. /\ UNCHANGED <<coordVars, change, cohortVars, envVars, dataVars>>
      /\ UNCHANGED <<active, alive, change>>
      /\ net' = (net \ {m}) \cup Answer("status", m.tx, m.loc, s)
      BY DEF get_transaction_status_i, envVars
<1>3. CohortData  BY <1>2, CohortIdle
<1>4. /\ s \in Statuses
      /\ s = "COMMITTED" => "COMMITTED" \in decided[m.tx]
  <2>1. done[m.loc] \in Seq(Records)  BY <1>1 DEF IInv, TypeOK
  <2>2. /\ DoneStatus(done[m.loc], m.tx) \in Statuses
        /\ DoneStatus(done[m.loc], m.tx) # "UNKNOWN" =>
              \E i \in DOMAIN done[m.loc] :
                 /\ done[m.loc][i].tx = m.tx
                 /\ done[m.loc][i].status = DoneStatus(done[m.loc], m.tx)
        BY <1>1, <2>1, DoneStatusFact
  <2> QED  BY <1>1, <2>2 DEF IInv, CommitsDecided, Statuses
<1> HIDE DEF s
<1>5. ASSUME NEW x \in Answer("status", m.tx, m.loc, s)
      PROVE  Told(x)
  <2>1. x \in Messages /\ x.type = "status" /\ x.tx = m.tx /\ x.status = s
        BY <1>1, <1>4, AnswerType DEF Answers
  <2> QED  BY <1>1, <1>4, <2>1 DEF Told, SaysCommitted, Ends, GivesUp
<1>6. CohortFrame
      BY <1>2, <1>5 DEF CohortFrame, envVars, IInv, TypeOK
<1> QED  BY <1>3, <1>6, CohortKeeps

\* the timer of a cohort, and
LEMMA CohortTimeoutKeeps ==
    ASSUME IInv, NEW l \in Locations, NEW t \in Tx, on_timeout(l, t)
    PROVE  IInv'
<1>1. /\ t \in timer[l] /\ t \in prepared[l] /\ caller[t] # "idle"
      /\ UNCHANGED <<coordVars, change, envVars>>
      /\ UNCHANGED <<active, alive, change, decided, caller, tstate>>
      BY DEF on_timeout, envVars, coordVars, IInv, Coordinated, Unborn
<1> DEFINE s == IF active = NoLocation THEN "UNKNOWN"
                ELSE get_transaction_status(t)
<1>2. CASE synch /\ s \in {"COMMITTED", "ABORTED"}
  <2>1. Resolve(l, t, s) /\ net' = net  BY <1>2 DEF on_timeout
  <2>2. s = get_transaction_status(t)  BY <1>2
  <2>3. CohortData
        BY <1>1, <1>2, <2>1, <2>2, StatusFact, ResolveFact
  <2>4. CohortFrame
        BY <1>1, <2>1 DEF CohortFrame, envVars, IInv, TypeOK
  <2> QED  BY <2>3, <2>4, CohortKeeps
<1>3. CASE synch /\ s \notin {"COMMITTED", "ABORTED"}
  <2>1. /\ timer' = [timer EXCEPT ![l] = @ \ {t}]
        /\ UNCHANGED <<prepared, done, dataVars, net>>
        BY <1>3 DEF on_timeout
  <2>2. CohortsReady'  BY <1>1, <2>1 DEF IInv, CohortsReady, Backups, dataVars
  <2>3. /\ timer' \in [Locations -> SUBSET Tx]
        /\ \A k \in Locations : timer'[k] \subseteq timer[k]
        BY <2>1 DEF IInv, TypeOK
  <2>4. \A k \in Locations, u \in Tx : caller[u] = "idle" =>
              u \notin prepared[k] /\ applied[k][u] = 0
          BY DEF IInv, Coordinated, Unborn
  <2>5. CohortData
        BY <2>1, <2>2, <2>3, <2>4
           DEF CohortData, IInv, TypeOK, Coordinated, CommitsDecided, dataVars
  <2>6. CohortFrame
        BY <1>1, <2>1 DEF CohortFrame, envVars, IInv, TypeOK
  <2> QED  BY <2>5, <2>6, CohortKeeps
<1>4. CASE ~synch
  <2>1. /\ net' = net \cup Answer("ask_status", t, l, "UNKNOWN")
        /\ UNCHANGED <<cohortVars, dataVars>>
        BY <1>4 DEF on_timeout
  <2>2. CohortData  BY <1>1, <2>1, CohortIdle
  <2>3. ASSUME NEW x \in Answer("ask_status", t, l, "UNKNOWN")
        PROVE  Told(x)
    <3>1. x \in Messages /\ x.type = "ask_status" /\ x.tx = t
          BY AnswerType DEF Answers, Statuses
    <3> QED  BY <1>1, <3>1 DEF Told, SaysCommitted, Ends, GivesUp
  <2>4. CohortFrame
        BY <1>1, <2>1, <2>3 DEF CohortFrame, envVars, IInv, TypeOK
  <2> QED  BY <2>2, <2>4, CohortKeeps
<1> QED  BY <1>2, <1>3, <1>4

(* The coordinator answers a status query with what it knows.              *)
LEMMA AskStatusKeeps ==
    ASSUME IInv, NEW m \in net, send_get_transaction_status(m)
    PROVE  IInv'
<1> DEFINE s == get_transaction_status(m.tx)
<1>1. m.tx \in Tx /\ caller[m.tx] # "idle"  BY MessageFact
<1>2. /\ UNCHANGED <<coordVars, change, cohortVars, envVars, dataVars>>
      /\ UNCHANGED <<active, alive, change>>
      /\ net' = (net \ {m}) \cup
              {Message("set_status", m.tx, l, 0, s) : l \in alive \ {active}}
      BY DEF send_get_transaction_status, envVars
<1>3. CohortData  BY <1>2, CohortIdle
<1>4. /\ s \in Statuses
      /\ s = "COMMITTED" => "COMMITTED" \in decided[m.tx]
      /\ caller[m.tx] = "waiting" =>
            /\ s \in {"COMMITTED", "ABORTED"} =>
                  tstate[m.tx] \notin {"WAITING", "COLLECTING"}
            /\ s = "ABORTED" => tstate[m.tx] # "COMMITTED"
      BY <1>1, StatusFact
<1> HIDE DEF s
<1>5. ASSUME NEW l \in alive \ {active}
      PROVE  Told(Message("set_status", m.tx, l, 0, s))
  <2> DEFINE x == Message("set_status", m.tx, l, 0, s)
  <2>1. l \in Locations  BY DEF IInv, TypeOK
  <2>2. x \in Messages /\ x.type = "set_status" /\ x.tx = m.tx /\ x.status = s
        BY <1>1, <1>4, <2>1, MessageType DEF Requests
  <2> HIDE DEF x
  <2>3. Told(x)
        BY <1>1, <1>4, <2>2 DEF Told, SaysCommitted, Ends, GivesUp
  <2> QED  BY <2>3 DEF x
<1>6. CohortFrame
      BY <1>2, <1>5 DEF CohortFrame, envVars, IInv, TypeOK
<1> QED  BY <1>3, <1>6, CohortKeeps

(* A message that is lost, or dropped by its receiver, changes nothing.    *)
LEMMA DropKeeps ==
    ASSUME IInv, NEW m \in net, net' = net \ {m},
           UNCHANGED <<coordVars, change, cohortVars, dataVars, synch, alive,
                       active, members, failing, crashes>>,
           losses' \in 0 .. MaxLosses
    PROVE  IInv'
<1>1. CohortData  BY CohortIdle
<1>2. CohortFrame  BY DEF CohortFrame
<1> QED  BY <1>1, <1>2, CohortKeeps

\* the loss of a message.
LEMMA LoseKeeps ==
    ASSUME IInv, NEW m \in net, Lose(m)
    PROVE  IInv'
<1>1. losses' \in 0 .. MaxLosses
      BY ConstantsAssumption DEF Lose, IInv, TypeOK
<1> QED  BY <1>1, DropKeeps DEF Lose

\* The change of transaction t is loaded at location l, and nothing else.
LoadedOnly(l, t) ==
    /\ applied' \in [Locations -> [Tx -> 0 .. 2]]
    /\ applied'[l][t] > 0
    /\ \A k \in Locations, u \in Tx :
          /\ applied[k][u] > 0 => applied'[k][u] > 0
          /\ k # l \/ u # t => applied'[k][u] = applied[k][u]

\* load_state counts the loading and leaves the other counts alone.
LEMMA AppliedFact ==
    ASSUME TypeOK, NEW l \in Locations, NEW t \in Tx, NEW c, Load(l, t, c)
    PROVE  LoadedOnly(l, t)
<1>1. applied \in [Locations -> [Tx -> 0 .. 2]]  BY DEF TypeOK
<1>2. applied[l][t] \in 0 .. 2  BY <1>1
<1> DEFINE n == IF applied[l][t] = 2 THEN 2 ELSE applied[l][t] + 1
<1>3. n \in 0 .. 2 /\ n > 0  BY <1>2
<1>4. applied' = [applied EXCEPT ![l][t] = n]  BY DEF Load
<1> HIDE DEF n
<1>5. /\ applied' \in [Locations -> [Tx -> 0 .. 2]]
      /\ \A k \in Locations, u \in Tx : applied'[k][u] =
            IF k = l /\ u = t THEN n ELSE applied[k][u]
      BY <1>1, <1>3, <1>4
<1> QED  BY <1>3, <1>5 DEF LoadedOnly

(* A handler of the coordinator that has computed legal states and         *)
(* responses keeps the invariant.                                          *)
LEMMA HandlerKeeps ==
    ASSUME IInv, NEW ts, NEW rs, NEW R \in SUBSET Tx, NEW n \in SUBSET Messages,
           \A m \in n : m \in net \/ Repeated(m),
           \A t \in Tx : Move(t, ts[t], rs[t]),
           \A t \in Tx : Heard(t, rs[t]),
           set_internal_status(ts, rs, R, n), CoordinatorFrame
    PROVE  IInv'
<1>1. CoordinatorStep(rs, n)  BY StatusFacts DEF IInv
<1> QED  BY <1>1, CoordinatorKeeps

(* So does one during which the timer of a transaction expires.            *)
LEMMA HandledKeeps ==
    ASSUME IInv, NEW ts, NEW rs, NEW n \in SUBSET net, DOMAIN ts = Tx,
           \A t \in Tx : Move(t, ts[t], rs[t]),
           \A t \in Tx : Heard(t, rs[t]),
           Handled(ts, rs, n), CoordinatorFrame
    PROVE  IInv'
<1>0. n \in SUBSET Messages /\ {} \in SUBSET Tx  BY DEF IInv, TypeOK
<1>1. CASE set_internal_status(ts, rs, {}, n)
      BY <1>0, <1>1, HandlerKeeps
<1>2. ASSUME NEW t \in Expiring(ts), HandlerWritesLast(t, ts, rs, n)
      PROVE  IInv'
  <2> DEFINE k == n \cup SentAgain(t, tstate[t], rs)
  <2>1. t \in Tx /\ TimerOverlaps /\ tstate[t] # "NONE"
        BY DEF Expiring, RequestOf
  <2>2. set_internal_status(ts, rs, {}, k)  BY <1>2 DEF HandlerWritesLast
  <2>3. ASSUME NEW m \in SentAgain(t, tstate[t], rs)
        PROVE  m \in Messages /\ Repeated(m)
    <3>1. /\ m \in Messages /\ m.tx = t
          /\ m.type = "commit" => tstate[t] = "COMMITTED"
          /\ m.type # "status" /\ m.type # "set_status"
      <4>1. TypeOK /\ t \in Tx /\ att[t] < MaxAttempts
            BY DEF IInv, Expiring
      <4> QED  BY <4>1, AgainFact
    <3>2. tstate[t] = "COMMITTED" => "COMMITTED" \in decided[t]
          BY <2>1 DEF IInv, CommitsDecided
    <3>3. decided[t] \subseteq decided'[t]
          BY <2>1, <2>2 DEF set_internal_status
    <3> QED  BY <2>1, <3>1, <3>2, <3>3 DEF Repeated, SaysCommitted
  <2>4. k \in SUBSET Messages /\ \A m \in k : m \in net \/ Repeated(m)
        BY <1>0, <2>3
  <2> HIDE DEF k
  <2> QED  BY <1>0, <2>2, <2>4, HandlerKeeps
<1>3. ASSUME NEW t \in Expiring(ts), AnswerForgotten(t, ts, rs, n)
      PROVE  IInv'
  <2> DEFINE back == [ts EXCEPT ![t] = tstate[t]]
  <2>1. t \in Tx  BY DEF Expiring
  <2>2. \A u \in Tx : Move(u, back[u], rs[u])  BY <2>1 DEF Move
  <2>3. set_internal_status(back, rs, {t}, n)  BY <1>3 DEF AnswerForgotten
  <2> HIDE DEF back
  <2> QED  BY <1>0, <2>1, <2>2, <2>3, HandlerKeeps
<1>4. ASSUME NEW t \in Expiring(ts), StatusPutBack(t, ts, rs, n)
      PROVE  IInv'
  <2>1. PICK k \in SUBSET Messages : /\ CoordinatorStep(rs, k)
                                     /\ \A m \in k : m \in n \/ Repeated(m)
        BY <1>0, <1>4, PutBackFacts DEF IInv
  <2>2. \A m \in k : m \in net \/ Repeated(m)  BY <2>1
  <2> QED  BY <2>1, <2>2, CoordinatorKeeps
<1> QED  BY <1>1, <1>2, <1>3, <1>4 DEF Handled

(* The responses a transaction has were heard.                             *)
LEMMA HeardBefore ==
    ASSUME TypeOK
    PROVE  /\ DOMAIN resp = Tx
           /\ \A t \in Tx : /\ DOMAIN resp[t] \subseteq Locations
                            /\ Heard(t, resp[t])
<1>1. DOMAIN resp = Tx /\ resp = [t \in Tx |-> resp[t]]  BY DEF TypeOK
<1>2. \A t \in Tx : /\ DOMAIN resp[t] \subseteq Locations
                    /\ resp[t] \in [DOMAIN resp[t] -> Responses]
      BY <1>1, RespType DEF TypeOK
<1> QED  BY <1>1, <1>2 DEF Heard

(* A handler leaves the cohorts and the data alone.                        *)
LEMMA FrameFact ==
    ASSUME IInv, active # NoLocation,
           UNCHANGED <<change, cohortVars, envVars, dataVars>>
    PROVE  CoordinatorFrame
BY DEF CoordinatorFrame, envVars, dataVars, IInv, TypeOK, Coordinated

\* The responses and the states that the answer of the sender of m makes.
RespondedResp(m, answer) == [resp EXCEPT ![m.tx][m.loc] = answer]
RespondedState(m, answer) ==
    [tstate EXCEPT ![m.tx] =
        check_status_change(@, RespondedResp(m, answer)[m.tx])]

(* They are legal: only one response changes, and what was said was heard. *)
LEMMA RespondComputes ==
    ASSUME IInv, NEW m \in net, NEW answer \in Responses,
           m.loc \in DOMAIN resp[m.tx],
           \/ answer = "SET_TO_NOT_DONE"
           \/ answer = "YES" /\ m.type = "yes"
           \/ answer = "END" /\ m.type = "end",
           NEW t \in Tx
    PROVE  /\ Move(t, RespondedState(m, answer)[t], RespondedResp(m, answer)[t])
           /\ Heard(t, RespondedResp(m, answer)[t])
           /\ RespondedState(m, answer)[t] =
                 IF t = m.tx
                 THEN check_status_change(tstate[t], RespondedResp(m, answer)[t])
                 ELSE tstate[t]
           /\ DOMAIN RespondedResp(m, answer)[t] = DOMAIN resp[t]
           /\ \A l \in DOMAIN resp[t] : RespondedResp(m, answer)[t][l] =
                 IF t = m.tx /\ l = m.loc THEN answer ELSE resp[t][l]
<1> DEFINE rs == RespondedResp(m, answer)
           ts == RespondedState(m, answer)
<1>0. m.tx \in Tx  BY MessageFact
<1>1. /\ DOMAIN resp = Tx /\ Heard(t, resp[t])
      /\ DOMAIN tstate = Tx
      BY HeardBefore DEF IInv, TypeOK
<1>2. rs[t] = IF t = m.tx THEN [resp[t] EXCEPT ![m.loc] = answer]
                          ELSE resp[t]
      BY <1>0, <1>1 DEF RespondedResp
<1>3. ts[t] = IF t = m.tx THEN check_status_change(tstate[t], rs[t])
                          ELSE tstate[t]
      BY <1>0, <1>1 DEF RespondedState
<1> HIDE DEF rs, ts
<1>4. Move(t, ts[t], rs[t])
  <2>1. CASE t = m.tx
    <3>1. Move(t, check_status_change(tstate[t], rs[t]), rs[t])
          BY CheckMoves
    <3> QED  BY <1>3, <2>1, <3>1
  <2>2. CASE t # m.tx  BY <1>3, <2>2 DEF Move
  <2> QED  BY <2>1, <2>2
<1>5. /\ Heard(t, rs[t])
      /\ DOMAIN rs[t] = DOMAIN resp[t]
      /\ \A l \in DOMAIN resp[t] : rs[t][l] =
            IF t = m.tx /\ l = m.loc THEN answer ELSE resp[t][l]
  <2>1. CASE t = m.tx
    <3>1. /\ DOMAIN rs[t] = DOMAIN resp[t]
          /\ \A l \in DOMAIN resp[t] :
                rs[t][l] = IF l = m.loc THEN answer ELSE resp[t][l]
          /\ rs[t] = [l \in DOMAIN resp[t] |->
                         IF l = m.loc THEN answer ELSE resp[t][l]]
          BY <1>1, <1>2, <2>1 DEF Heard
    <3>2. rs[t] \in [DOMAIN rs[t] -> Responses]
          BY <1>1, <3>1 DEF Heard
    <3> QED  BY <2>1, <3>1, <3>2 DEF Heard
  <2>2. CASE t # m.tx  BY <1>1, <1>2, <2>2
  <2> QED  BY <2>1, <2>2
<1> QED  BY <1>3, <1>4, <1>5 DEF rs, ts

\* Every answer that lets the coordinator check for the next state.
LEMMA RespondKeeps ==
    ASSUME IInv, NEW m \in net, NEW states, NEW answer \in Responses,
           "NONE" \notin states, Respond(m, states, answer),
           \/ answer = "SET_TO_NOT_DONE"
           \/ answer = "YES" /\ m.type = "yes"
           \/ answer = "END" /\ m.type = "end",
           UNCHANGED <<change, cohortVars, envVars, dataVars>>
    PROVE  IInv'
<1> DEFINE rs == RespondedResp(m, answer)
           ts == RespondedState(m, answer)
<1>0. m.tx \in Tx  BY MessageFact
<1>1. CASE tstate[m.tx] \in states /\ m.loc \in DOMAIN resp[m.tx]
  <2>1. Handled(ts, rs, net \ {m}) /\ DOMAIN ts = Tx
        BY <1>1 DEF Respond, RespondedResp, RespondedState, IInv, TypeOK
  <2>2. \A t \in Tx : Move(t, ts[t], rs[t]) /\ Heard(t, rs[t])
        BY <1>1, RespondComputes
  <2>3. active # NoLocation  BY <1>0, <1>1 DEF IInv, Coordinated
  <2>4. CoordinatorFrame  BY <2>3, FrameFact
  <2> HIDE DEF rs, ts
  <2> QED  BY <2>1, <2>2, <2>4, HandledKeeps
<1>2. CASE ~(tstate[m.tx] \in states /\ m.loc \in DOMAIN resp[m.tx])
  <2>1. net' = net \ {m} /\ UNCHANGED coordVars  BY <1>2 DEF Respond
  <2> QED  BY <2>1, DropKeeps DEF envVars, IInv, TypeOK
<1> QED  BY <1>1, <1>2

\* A cohort has prepared.
LEMMA YesKeeps ==
    ASSUME IInv, NEW m \in net, send_yes(m)
    PROVE  IInv'
BY RespondKeeps DEF send_yes, Responses

\* A cohort has committed or rolled back.
LEMMA EndKeeps ==
    ASSUME IInv, NEW m \in net, send_end(m)
    PROVE  IInv'
BY RespondKeeps DEF send_end, Responses

\* The states when the transaction of m goes to x.
DecidedState(m, x) == [tstate EXCEPT ![m.tx] = x]

(* They are legal if the coordinator may go there.                         *)
LEMMA DecideComputes ==
    ASSUME IInv, NEW m \in net, NEW x, Move(m.tx, x, resp[m.tx]), NEW t \in Tx
    PROVE  /\ Move(t, DecidedState(m, x)[t], resp[t])
           /\ Heard(t, resp[t])
           /\ DecidedState(m, x)[t] = IF t = m.tx THEN x ELSE tstate[t]
<1>1. m.tx \in Tx /\ DOMAIN tstate = Tx  BY MessageFact DEF IInv, TypeOK
<1>2. DecidedState(m, x)[t] = IF t = m.tx THEN x ELSE tstate[t]
      BY <1>1 DEF DecidedState
<1>3. Heard(t, resp[t])  BY HeardBefore DEF IInv
<1> QED  BY <1>2, <1>3 DEF Move

(* A decision for one transaction.                                         *)
LEMMA DecideKeeps ==
    ASSUME IInv, NEW m \in net, NEW x,
           tstate[m.tx] # "NONE", Move(m.tx, x, resp[m.tx]),
           Handled([tstate EXCEPT ![m.tx] = x], resp, net \ {m}),
           CoordinatorFrame
    PROVE  IInv'
<1>1. \A t \in Tx : Move(t, DecidedState(m, x)[t], resp[t]) /\ Heard(t, resp[t])
      BY DecideComputes
<1>2. /\ Handled(DecidedState(m, x), resp, net \ {m})
      /\ DOMAIN DecidedState(m, x) = Tx
      BY DEF DecidedState, IInv, TypeOK
<1> QED  BY <1>1, <1>2, HandledKeeps

\* A cohort refuses: the transaction is aborted.
LEMMA NoKeeps ==
    ASSUME IInv, NEW m \in net, send_no(m)
    PROVE  IInv'
<1>1. CASE tstate[m.tx] = "COLLECTING" /\ m.loc \in DOMAIN resp[m.tx]
  <2>1. Handled([tstate EXCEPT ![m.tx] = "ABORTED"], resp, net \ {m})
        BY <1>1 DEF send_no
  <2>2. active # NoLocation  BY <1>1, MessageFact DEF IInv, Coordinated
  <2>3. CoordinatorFrame  BY <2>2, FrameFact DEF send_no
  <2>4. Move(m.tx, "ABORTED", resp[m.tx])  BY <1>1 DEF Move
  <2> QED  BY <1>1, <2>1, <2>3, <2>4, DecideKeeps
<1>2. CASE ~(tstate[m.tx] = "COLLECTING" /\ m.loc \in DOMAIN resp[m.tx])
  <2>1. net' = net \ {m} /\ UNCHANGED coordVars  BY <1>2 DEF send_no
  <2> QED  BY <2>1, DropKeeps DEF send_no, envVars, IInv, TypeOK
<1> QED  BY <1>1, <1>2

(* The answer of a cohort to a recovering coordinator: the one action in    *)
(* which the coordinator loads a change itself.                            *)
LEMMA StatusAnswerKeeps ==
    ASSUME IInv, NEW m \in net, send_set_transaction_status(m)
    PROVE  IInv'
<1> DEFINE heard == tstate[m.tx] = "RECOVERING" /\ m.loc \in DOMAIN resp[m.tx]
           t == m.tx
<1>0. /\ t \in Tx /\ m.type = "status" /\ m.status \in Statuses
      /\ UNCHANGED <<change, cohortVars, envVars>>
      BY MessageFact DEF send_set_transaction_status
<1>1. CASE ~heard
  <2>1. net' = net \ {m} /\ UNCHANGED coordVars /\ UNCHANGED dataVars
        BY <1>1 DEF send_set_transaction_status
  <2> QED  BY <1>0, <2>1, DropKeeps DEF envVars, IInv, TypeOK
<1>2. CASE heard /\ m.status \notin {"COMMITTED", "ABORTED"}
  <2>1. Respond(m, {"RECOVERING"}, "SET_TO_NOT_DONE") /\ UNCHANGED dataVars
        BY <1>2 DEF send_set_transaction_status
  <2>2. "SET_TO_NOT_DONE" \in Responses /\ "NONE" \notin {"RECOVERING"}
        BY DEF Responses
  <2> QED  BY <1>0, <2>1, <2>2, RespondKeeps
<1>3. CASE heard /\ m.status \in {"COMMITTED", "ABORTED"}
  <2>1. Handled([tstate EXCEPT ![t] = m.status], resp, net \ {m})
        BY <1>3 DEF send_set_transaction_status
  <2>2. /\ active # NoLocation /\ active \in Locations
        /\ tstate[t] = "RECOVERING"
        BY <1>0, <1>3 DEF IInv, Coordinated, TypeOK
  <2>3. m.status = "COMMITTED" => "COMMITTED" \in decided[t]
        BY <1>0 DEF IInv, CommitsDecided, SaysCommitted
  <2>4. Move(t, m.status, resp[t])  BY <1>3, <2>2, <2>3 DEF Move
  <2>5. CoordinatorFrame
    <3>1. CASE m.status = "ABORTED"
      <4>1. UNCHANGED dataVars  BY <3>1 DEF send_set_transaction_status
      <4> QED  BY <1>0, <2>2, <4>1, FrameFact
    <3>2. CASE m.status = "COMMITTED"
      <4>1. Load(active, t, change[t])
            BY <1>3, <3>2 DEF send_set_transaction_status
      <4>2. /\ store \in [Locations -> [Oids -> Values]]
            /\ applied \in [Locations -> [Tx -> 0 .. 2]]
            BY DEF IInv, TypeOK
      <4>3. /\ store' \in [Locations -> [Oids -> Values]]
            /\ \A l \in Locations : l # active => store'[l] = store[l]
        <5>1. load_state(store[active], t, change[t]) \in [Oids -> Values]
              BY <1>0, <2>2, <4>2, LoadType
        <5> QED  BY <4>1, <4>2, <5>1 DEF Load
      <4>4. LoadedOnly(active, t)
            BY <1>0, <2>2, <4>1, AppliedFact DEF IInv
      <4> QED  BY <1>0, <2>2, <2>3, <3>2, <4>2, <4>3, <4>4
               DEF CoordinatorFrame, LoadedOnly, envVars, Backups, IInv, TypeOK,
                   Coordinated
    <3> QED  BY <1>3, <3>1, <3>2
  <2> QED  BY <2>1, <2>2, <2>4, <2>5, DecideKeeps
<1> QED  BY <1>1, <1>2, <1>3

\* The coordinator asks everybody again.
LEMMA CoordinatorTimeoutKeeps ==
    ASSUME IInv, NEW t \in Tx, handle_timeout(t)
    PROVE  IInv'
<1>1. CoordinatorFrame  BY FrameFact DEF handle_timeout
<1>2. \A u \in Tx : Heard(u, resp[u])  BY HeardBefore DEF IInv
<1>3. \A u \in Tx : Move(u, tstate[u], resp[u])  BY DEF Move
<1>4. set_internal_status(tstate, resp, {t}, net)  BY DEF handle_timeout
<1>5. net \in SUBSET Messages  BY DEF IInv, TypeOK
<1> QED  BY <1>1, <1>2, <1>3, <1>4, <1>5, HandlerKeeps

\* The responses without those of x, and the states they make.
RespWithout(x) == [t \in Tx |-> [l \in DOMAIN resp[t] \ {x} |-> resp[t][l]]]
StateWithout(x) ==
    [t \in Tx |-> IF t \in {u \in Live : x \in DOMAIN resp[u]}
                  THEN check_status_change(tstate[t], RespWithout(x)[t])
                  ELSE tstate[t]]

(* They are legal when x has failed.                                       *)
LEMMA FailureComputes ==
    ASSUME IInv, NEW x, x \notin alive, NEW t \in Tx
    PROVE  /\ Move(t, StateWithout(x)[t], RespWithout(x)[t])
           /\ Heard(t, RespWithout(x)[t])
           /\ \/ StateWithout(x)[t] = tstate[t]
              \/ StateWithout(x)[t] =
                    check_status_change(tstate[t], RespWithout(x)[t])
           /\ DOMAIN RespWithout(x)[t] \subseteq DOMAIN resp[t]
           /\ \A l \in DOMAIN RespWithout(x)[t] :
                 RespWithout(x)[t][l] = resp[t][l]
<1> DEFINE rs == RespWithout(x)
           ts == StateWithout(x)
<1>1. Heard(t, resp[t])  BY HeardBefore DEF IInv
<1>2. ts[t] = check_status_change(tstate[t], rs[t]) \/ ts[t] = tstate[t]
      BY DEF StateWithout
<1>3. rs[t] = [l \in DOMAIN resp[t] \ {x} |-> resp[t][l]]
      BY DEF RespWithout
<1> HIDE DEF rs, ts
<1>4. Move(t, ts[t], rs[t])
  <2>1. Move(t, check_status_change(tstate[t], rs[t]), rs[t])
        BY CheckMoves
  <2> QED  BY <1>2, <2>1 DEF Move
<1>5. /\ DOMAIN rs[t] = DOMAIN resp[t] \ {x}
      /\ \A l \in DOMAIN rs[t] : rs[t][l] = resp[t][l]
      BY <1>3
<1>6. Heard(t, rs[t])
  <2>1. rs[t] \in [DOMAIN rs[t] -> Responses]
        BY <1>1, <1>3, <1>5 DEF Heard
  <2> QED  BY <1>1, <1>5, <2>1 DEF Heard
<1> QED  BY <1>2, <1>4, <1>5, <1>6 DEF rs, ts

\* A failed location is not waited for any more.
LEMMA FailureKeeps ==
    ASSUME IInv, NEW x \in Locations, on_failure(x)
    PROVE  IInv'
<1> DEFINE rs == RespWithout(x)
           ts == StateWithout(x)
<1>1. /\ Handled(ts, rs, net) /\ DOMAIN ts = Tx
      /\ x \notin alive /\ x \in Locations
      BY DEF on_failure, RespWithout, StateWithout
<1>2. \A t \in Tx : Move(t, ts[t], rs[t]) /\ Heard(t, rs[t])
      BY <1>1, FailureComputes
<1>3. CoordinatorFrame
      BY <1>1 DEF CoordinatorFrame, on_failure, dataVars, IInv, TypeOK
<1> HIDE DEF ts, rs
<1> QED  BY <1>1, <1>2, <1>3, HandledKeeps

-----------------------------------------------------------------------------
(* The clients.  A new request of t leaves the changes of the others alone, *)
(* and nothing was known of t before.                                      *)
LEMMA NewChange ==
    ASSUME IInv, NEW t \in Tx, NextTx(t), NEW c \in Changes,
           change' = [change EXCEPT ![t] = c], UNCHANGED <<prepared, store, alive, active>>
    PROVE  /\ change' \in [Tx -> Changes \cup {NoChange}]
           /\ change'[t] = c
           /\ \A u \in Tx : u # t => change'[u] = change[u]
           /\ Unborn(t)
           /\ caller[t] = "idle"
           /\ CohortsReady'
<1>1. /\ change' \in [Tx -> Changes \cup {NoChange}]
      /\ change'[t] = c
      /\ \A u \in Tx : u # t => change'[u] = change[u]
      BY DEF IInv, TypeOK
<1>2. caller[t] = "idle"  BY DEF NextTx
<1>3. Unborn(t)  BY <1>2 DEF IInv, Coordinated
<1>4. \A l \in Locations : \A u \in prepared[l] : u \in Tx /\ u # t
      BY <1>3 DEF Unborn, IInv, TypeOK
<1>5. CohortsReady'  BY <1>1, <1>4 DEF CohortsReady, IInv, Backups
<1> QED  BY <1>1, <1>2, <1>3, <1>5

(* Only the change of t and what its caller is told: t is no transaction of *)
(* the coordinator.                                                        *)
LEMMA RefusedKeeps ==
    ASSUME IInv, NEW t \in Tx, NextTx(t), NEW c \in Changes,
           change' = [change EXCEPT ![t] = c],
           caller' = [caller EXCEPT ![t] = "refused"],
           UNCHANGED <<tstate, resp, blockers, att, cdone, decided, cohortVars,
                       envVars, dataVars, net>>
    PROVE  IInv'
<1>0. /\ change' \in [Tx -> Changes \cup {NoChange}]
      /\ \A u \in Tx : u # t => change'[u] = change[u]
      /\ Unborn(t) /\ caller[t] = "idle"
      /\ CohortsReady'
      BY NewChange DEF cohortVars, envVars, dataVars
<1>1. /\ caller' \in [Tx -> Callers]
      /\ \A u \in Tx : caller'[u] = IF u = t THEN "refused" ELSE caller[u]
      BY DEF IInv, TypeOK, Callers
<1>2. UNCHANGED <<tstate, resp, blockers, att, cdone, decided, prepared, timer,
                  done, synch, alive, active, members, failing, losses, crashes,
                  store, applied, net>>
      BY DEF cohortVars, envVars, dataVars
<1>3. TypeOK'  BY <1>0, <1>1, <1>2 DEF IInv, TypeOK
<1>4. Coordinated'  BY <1>0, <1>1, <1>2 DEF IInv, Coordinated, Unborn
<1>5. CallersMatch'  BY <1>0, <1>1, <1>2 DEF IInv, CallersMatch, Unborn
<1>6. BlockersKnown'
      BY <1>0, <1>2 DEF IInv, BlockersKnown, Unborn, Live
<1>7. CommitsDecided'
      BY <1>0, <1>1, <1>2 DEF IInv, CommitsDecided, SaysCommitted, OnlyCommittedIsApplied
<1>8. RefusalsKept'  BY <1>0, <1>1, <1>2 DEF IInv, RefusalsKept, Unborn
<1>9. VotesKnown'
      BY <1>0, <1>1, <1>2
         DEF IInv, VotesKnown, Collecting, Committing, Ends, GivesUp, Backups
<1> QED  BY <1>0, <1>3, <1>4, <1>5, <1>6, <1>7, <1>8, <1>9 DEF IInv

\* A request without cohorts is carried out by the primary alone.
LEMMA RequestLocalKeeps ==
    ASSUME IInv, NEW t \in Tx, NEW c \in Changes, RequestLocal(t, c)
    PROVE  IInv'
<1>0. /\ NextTx(t) /\ active # NoLocation /\ members = {}
      /\ change' = [change EXCEPT ![t] = c]
      /\ UNCHANGED <<tstate, resp, blockers, att, cdone, cohortVars, envVars, net>>
      BY DEF RequestLocal
<1>1. CASE ~validate(store[active], c)
      BY <1>0, <1>1, RefusedKeeps DEF RequestLocal
<1>2. CASE validate(store[active], c)
  <2>1. /\ caller' = [caller EXCEPT ![t] = "returned"]
        /\ decided' = [decided EXCEPT ![t] = {"COMMITTED"}]
        /\ Load(active, t, c)
        BY <1>2 DEF RequestLocal
  <2>2. /\ caller' \in [Tx -> Callers]
        /\ \A u \in Tx : caller'[u] = IF u = t THEN "returned" ELSE caller[u]
        /\ decided' \in [Tx -> SUBSET {"COMMITTED", "ABORTED"}]
        /\ \A u \in Tx : decided'[u] = IF u = t THEN {"COMMITTED"} ELSE decided[u]
        BY <2>1 DEF IInv, TypeOK, Callers
  <2>3. active \in Locations /\ alive = {active} /\ Backups = {}
        BY <1>0 DEF IInv, Coordinated, TypeOK, Backups
  <2>4. UNCHANGED <<tstate, resp, blockers, att, cdone, prepared, timer,
                    done, synch, alive, active, members, failing, losses,
                    crashes, net>>
        BY <1>0 DEF cohortVars, envVars
  <2>5. store' \in [Locations -> [Oids -> Values]]
    <3>1. store[active] \in [Oids -> Values]  BY <2>3 DEF IInv, TypeOK
    <3>2. load_state(store[active], t, c) \in [Oids -> Values]
          BY <3>1, LoadType
    <3> QED  BY <2>1, <2>3, <3>2 DEF Load, IInv, TypeOK
  <2>6. LoadedOnly(active, t)  BY <2>1, <2>3, AppliedFact DEF IInv
  <2>7. /\ change' \in [Tx -> Changes \cup {NoChange}]
        /\ \A u \in Tx : u # t => change'[u] = change[u]
    <3>1. change \in [Tx -> Changes \cup {NoChange}]  BY DEF IInv, TypeOK
    <3> QED  BY <1>0, <3>1
  <2>8. Unborn(t) /\ caller[t] = "idle"
        BY <1>0 DEF NextTx, IInv, Coordinated
  <2>9. TypeOK'
        BY <2>2, <2>4, <2>5, <2>6, <2>7 DEF IInv, TypeOK, LoadedOnly
  <2>10. Coordinated'
         BY <2>2, <2>4, <2>6, <2>8 DEF IInv, Coordinated, Unborn, LoadedOnly
  <2>11. CallersMatch'  BY <2>2, <2>4, <2>8 DEF IInv, CallersMatch, Unborn
  <2>12. BlockersKnown'
         BY <2>4, <2>7, <2>8 DEF IInv, BlockersKnown, Unborn, Live
  <2>13. CohortsReady'
    <3>1. \A l \in Locations : \A u \in prepared[l] : u \in Tx /\ u # t
          BY <2>8 DEF Unborn, IInv, TypeOK
    <3> QED  BY <2>3, <2>4, <2>7, <3>1 DEF CohortsReady, IInv, Backups
  <2>14. CommitsDecided'
    <3>1. \A u \in Tx : decided[u] \subseteq decided'[u]
          BY <2>2, <2>8 DEF Unborn
    <3>2. /\ \A i \in DOMAIN cdone : cdone[i].tx \in Tx
          /\ \A l \in Locations : \A i \in DOMAIN done[l] : done[l][i].tx \in Tx
      <4>1. ASSUME NEW d \in Seq(Records), NEW i \in DOMAIN d
            PROVE  d[i].tx \in Tx
        <5>1. d[i] \in Records  BY SeqElement
        <5> QED  BY <5>1 DEF Records
      <4> QED  BY <4>1 DEF IInv, TypeOK
    <3>3. \A m \in net : m.tx \in Tx  BY MessageFact
    <3>4. OnlyCommittedIsApplied'
          BY <2>2, <2>3, <2>6, <3>1
             DEF IInv, CommitsDecided, OnlyCommittedIsApplied, LoadedOnly
    <3>5. \A u \in Tx : tstate'[u] = "COMMITTED" \/ caller'[u] = "committed"
              => "COMMITTED" \in decided'[u]
          BY <2>2, <2>4, <2>8, <3>1 DEF IInv, CommitsDecided
    <3> QED  BY <2>4, <3>1, <3>2, <3>3, <3>4, <3>5
             DEF IInv, CommitsDecided, SaysCommitted
  <2>15. RefusalsKept'  BY <2>2, <2>4, <2>8 DEF IInv, RefusalsKept
  <2>16. VotesKnown'
    <3> SUFFICES ASSUME ~TimerOverlaps, NEW u \in Tx
                 PROVE  /\ caller'[u] = "waiting" =>
                           /\ Backups \subseteq DOMAIN resp[u]
                           /\ tstate[u] \in {"WAITING", "COLLECTING"} => Collecting(u)'
                           /\ tstate[u] = "COMMITTED" => Committing(u)'
                        /\ caller'[u] = "returned" =>
                              \A l \in alive : applied'[l][u] > 0
        BY <2>3, <2>4 DEF VotesKnown, Backups
    <3>1. Collecting(u) => Collecting(u)'
          BY <2>3, <2>4 DEF Collecting, Ends, Backups
    <3>2. Committing(u) => Committing(u)'
          BY <2>3, <2>4 DEF Committing, GivesUp, Backups
    <3>3. \A l \in alive : applied[l][u] > 0 => applied'[l][u] > 0
          BY <2>3, <2>6 DEF LoadedOnly
    <3>4. u = t => \A l \in alive : applied'[l][u] > 0
          BY <2>3, <2>6 DEF LoadedOnly
    <3> QED  BY <2>2, <2>3, <3>1, <3>2, <3>3, <3>4 DEF IInv, VotesKnown
  <2> QED  BY <2>9, <2>10, <2>11, <2>12, <2>13, <2>14, <2>15, <2>16 DEF IInv
<1> QED  BY <1>1, <1>2

\* A request that is sent to the cohorts, or waits for those that block it.
LEMMA RequestKeeps ==
    ASSUME IInv, NEW t \in Tx, NEW c \in Changes, Request(t, c)
    PROVE  IInv'
<1> DEFINE wait == Blocking(c)
           state == IF wait = {} THEN "COLLECTING" ELSE "WAITING"
<1>0. /\ NextTx(t) /\ active # NoLocation
      /\ change' = [change EXCEPT ![t] = c]
      /\ UNCHANGED <<cdone, decided, cohortVars, envVars, dataVars>>
      BY DEF Request
<1>1. CASE wait = {} /\ ~validate(store[active], c)
      BY <1>0, <1>1, RefusedKeeps DEF Request
<1>2. CASE ~(wait = {} /\ ~validate(store[active], c))
  <2>1. /\ caller' = [caller EXCEPT ![t] = "waiting"]
        /\ tstate' = [tstate EXCEPT ![t] = state]
        /\ resp' = [resp EXCEPT ![t] = [l \in members |-> "UNKNOWN"]]
        /\ blockers' = [blockers EXCEPT ![t] = wait]
        /\ att' = [att EXCEPT ![t] = 1]
        /\ net' = IF wait = {}
                  THEN net \cup Sent(t, "prepare", members, 1)
                  ELSE net
        BY <1>2 DEF Request
  <2>2. /\ change' \in [Tx -> Changes \cup {NoChange}]
        /\ change'[t] = c
        /\ \A u \in Tx : u # t => change'[u] = change[u]
        /\ Unborn(t) /\ caller[t] = "idle"
        /\ CohortsReady'
        BY <1>0, NewChange DEF cohortVars, envVars, dataVars
  <2>3. UNCHANGED <<cdone, decided, prepared, timer, done, synch, alive, active,
                    members, failing, losses, crashes, store, applied>>
        BY <1>0 DEF cohortVars, envVars, dataVars
  <2>4. /\ caller' \in [Tx -> Callers]
        /\ \A u \in Tx : caller'[u] = IF u = t THEN "waiting" ELSE caller[u]
        BY <2>1 DEF IInv, TypeOK, Callers
  <2>5. /\ tstate' \in [Tx -> TransactionStates]
        /\ \A u \in Tx : tstate'[u] = IF u = t THEN state ELSE tstate[u]
        BY <2>1 DEF IInv, TypeOK, TransactionStates
  <2>6. /\ DOMAIN resp' = Tx /\ resp' = [u \in Tx |-> resp'[u]]
        /\ resp'[t] = [l \in members |-> "UNKNOWN"]
        /\ \A u \in Tx : u # t => resp'[u] = resp[u]
        BY <2>1 DEF IInv, TypeOK
  <2>7. /\ wait \subseteq Tx
        /\ blockers' \in [Tx -> SUBSET Tx]
        /\ \A u \in Tx : blockers'[u] = IF u = t THEN wait ELSE blockers[u]
    <3>1. wait \subseteq Tx  BY DEF Blocking, Live
    <3> HIDE DEF wait
    <3> QED  BY <2>1, <3>1 DEF IInv, TypeOK
  <2>8. \A u \in Live : oids_match(c, change[u]) => u \in wait
        BY DEF Blocking
  <2>9. ASSUME NEW m \in net', m \notin net
        PROVE  /\ m \in Messages /\ m.tx = t /\ m.type = "prepare"
               /\ state = "COLLECTING"
    <3>1. PICK l \in members : m = Message("prepare", t, l, 1, "UNKNOWN")
          BY <2>1, <2>9 DEF Sent
    <3>2. l \in Locations /\ 1 \in 0 .. MaxAttempts
          BY ConstantsAssumption DEF IInv, TypeOK
    <3> QED  BY <2>1, <2>9, <3>1, <3>2 DEF Message, Messages, Requests, Statuses
  <2>10. state \in {"WAITING", "COLLECTING"} /\ (wait # {} => state = "WAITING")
         OBVIOUS
  <2> HIDE DEF wait, state
  <2>11. TypeOK'
    <3>1. resp' \in [Tx -> UNION {[L -> Responses] : L \in SUBSET Locations}]
      <4>1. \A u \in Tx : /\ DOMAIN resp[u] \subseteq Locations
                          /\ resp[u] \in [DOMAIN resp[u] -> Responses]
            BY HeardBefore DEF Heard, IInv
      <4>2. members \subseteq Locations  BY DEF IInv, TypeOK
      <4>3. /\ DOMAIN resp'[t] \subseteq Locations
            /\ resp'[t] \in [DOMAIN resp'[t] -> Responses]
            BY <2>6, <4>2 DEF Responses
      <4>4. \A u \in Tx : /\ DOMAIN resp'[u] \subseteq Locations
                          /\ resp'[u] \in [DOMAIN resp'[u] -> Responses]
            BY <2>6, <4>1, <4>3
      <4> QED  BY ONLY <2>6, <4>4, RespType
    <3>2. att' \in [Tx -> 0 .. MaxAttempts]
          BY <2>1, ConstantsAssumption DEF IInv, TypeOK
    <3>3. net' \subseteq Messages  BY <2>9 DEF IInv, TypeOK
    <3> QED  BY <2>2, <2>3, <2>4, <2>5, <2>7, <3>1, <3>2, <3>3 DEF IInv, TypeOK
  <2>12. Coordinated'
    <3>1. ASSUME NEW u \in Tx, caller'[u] = "idle"
          PROVE  Unborn(u)'
          BY <2>3, <2>4, <2>5, <2>9, <3>1 DEF IInv, Coordinated, Unborn
    <3> QED  BY <1>0, <2>3, <3>1 DEF IInv, Coordinated
  <2>13. CallersMatch'
         BY <2>4, <2>5, <2>10 DEF IInv, CallersMatch
  <2>14. BlockersKnown'
    <3>1. ASSUME NEW u \in Live', NEW v \in Live', u # v,
                 oids_match(change'[u], change'[v])
          PROVE  u \in blockers'[v] \/ v \in blockers'[u]
      <4>1. /\ u \in Tx /\ v \in Tx
            /\ u # t => u \in Live
            /\ v # t => v \in Live
            BY <2>5, <3>1 DEF Live
      <4>2. CASE u = t
            BY <2>2, <2>7, <2>8, <3>1, <4>1, <4>2
      <4>3. CASE v = t
        <5>1. oids_match(change'[v], change'[u])  BY <3>1, MatchSymmetric
        <5> QED  BY <2>2, <2>7, <2>8, <3>1, <4>1, <4>3, <5>1
      <4>4. CASE u # t /\ v # t
            BY <2>2, <2>7, <3>1, <4>1, <4>4 DEF IInv, BlockersKnown
      <4> QED  BY <4>2, <4>3, <4>4
    <3>2. \A u \in Tx : blockers'[u] # {} => tstate'[u] = "WAITING"
          BY <2>5, <2>7, <2>10 DEF IInv, BlockersKnown
    <3> QED  BY <3>1, <3>2 DEF BlockersKnown
  <2>15. CommitsDecided'
    <3>1. \A m \in net' : SaysCommitted(m) => "COMMITTED" \in decided[m.tx]
          BY <2>9 DEF IInv, CommitsDecided, SaysCommitted
    <3>2. \A u \in Tx : tstate'[u] = "COMMITTED" \/ caller'[u] = "committed"
              => "COMMITTED" \in decided[u]
          BY <2>4, <2>5, <2>10 DEF IInv, CommitsDecided
    <3> QED  BY <2>3, <3>1, <3>2
             DEF IInv, CommitsDecided, OnlyCommittedIsApplied, SaysCommitted
  <2>16. RefusalsKept'
         BY <2>2, <2>3, <2>4, <2>5 DEF IInv, RefusalsKept, Unborn
  <2>17. VotesKnown'
    <3> SUFFICES ASSUME ~TimerOverlaps, NEW u \in Tx
                 PROVE  /\ caller'[u] = "waiting" =>
                           /\ Backups' \subseteq DOMAIN resp'[u]
                           /\ tstate'[u] \in {"WAITING", "COLLECTING"} => Collecting(u)'
                           /\ tstate'[u] = "COMMITTED" => Committing(u)'
                        /\ caller'[u] = "committed" =>
                              \A l \in Backups' : applied'[l][u] > 0
                        /\ caller'[u] = "returned" =>
                              \A l \in alive' : applied'[l][u] > 0
        BY DEF VotesKnown
    <3>0. Backups' = Backups /\ Backups \subseteq members
          BY <1>0, <2>3 DEF Backups, IInv, Coordinated
    <3>1. CASE u = t
      <4>1. \A m \in net' : m.tx = t => m.type = "prepare"
            BY <2>2, <2>9 DEF Unborn
      <4>2. \A l \in Backups : resp'[t][l] = "UNKNOWN"
            BY <2>6, <3>0
      <4>3. Collecting(t)'
            BY <3>0, <4>1, <4>2 DEF Collecting, Ends
      <4> QED  BY <2>4, <2>5, <2>6, <2>10, <3>0, <3>1, <4>3
    <3>2. CASE u # t
      <4>1. \A m \in net' : m.tx = u => m \in net  BY <2>9, <3>2
      <4>2. Collecting(u) => Collecting(u)'
            BY <2>3, <2>6, <3>0, <3>2, <4>1 DEF Collecting, Ends
      <4>3. Committing(u) => Committing(u)'
            BY <2>3, <2>6, <3>0, <3>2, <4>1 DEF Committing, GivesUp
      <4> QED  BY <2>3, <2>4, <2>5, <2>6, <3>0, <3>2, <4>2, <4>3
               DEF IInv, VotesKnown
    <3> QED  BY <3>1, <3>2
  <2> QED  BY <2>2, <2>11, <2>12, <2>13, <2>14, <2>15, <2>16, <2>17 DEF IInv
<1> QED  BY <1>1, <1>2

\* The primary applies what has been committed and the caller returns.
LEMMA LocalApplyKeeps ==
    ASSUME IInv, NEW t \in Tx, LocalApply(t)
    PROVE  IInv'
<1>1. /\ caller[t] = "committed"
      /\ caller' = [caller EXCEPT ![t] = "returned"]
      /\ Load(active, t, change[t])
      /\ UNCHANGED <<change, tstate, resp, blockers, att, cdone, decided, prepared,
                     timer, done, synch, alive, active, members, failing, losses,
                     crashes, net>>
      BY DEF LocalApply, cohortVars, envVars
<1>2. active # NoLocation /\ active \in Locations /\ active \in alive
      BY <1>1 DEF IInv, Coordinated, TypeOK
<1>3. /\ caller' \in [Tx -> Callers]
      /\ \A u \in Tx : caller'[u] = IF u = t THEN "returned" ELSE caller[u]
      BY <1>1 DEF IInv, TypeOK, Callers
<1>4. /\ store' \in [Locations -> [Oids -> Values]]
      /\ \A l \in Backups : store'[l] = store[l]
  <2>1. load_state(store[active], t, change[t]) \in [Oids -> Values]
        BY <1>2, LoadType DEF IInv, TypeOK
  <2> QED  BY <1>1, <1>2, <2>1 DEF Load, IInv, TypeOK, Backups
<1>5. LoadedOnly(active, t)  BY <1>1, <1>2, AppliedFact DEF IInv
<1>6. Backups' = Backups /\ Backups \subseteq Locations /\ alive \subseteq Locations
      BY <1>1 DEF Backups, IInv, TypeOK
<1>7. TypeOK'  BY <1>1, <1>3, <1>4, <1>5 DEF IInv, TypeOK, LoadedOnly
<1>8. Coordinated'
      BY <1>1, <1>2, <1>3, <1>5 DEF IInv, Coordinated, Unborn, LoadedOnly
<1>9. CallersMatch'  BY <1>1, <1>3 DEF IInv, CallersMatch
<1>10. BlockersKnown'  BY <1>1 DEF IInv, BlockersKnown, Live
<1>11. CohortsReady'  BY <1>1, <1>4, <1>6 DEF IInv, CohortsReady
<1>12. CommitsDecided'
  <2>1. "COMMITTED" \in decided[t]  BY <1>1 DEF IInv, CommitsDecided
  <2>2. OnlyCommittedIsApplied'
        BY <1>1, <1>5, <2>1
           DEF IInv, CommitsDecided, OnlyCommittedIsApplied, LoadedOnly
  <2>3. \A u \in Tx : tstate'[u] = "COMMITTED" \/ caller'[u] = "committed"
            => "COMMITTED" \in decided'[u]
        BY <1>1, <1>3 DEF IInv, CommitsDecided
  <2> QED  BY <1>1, <2>2, <2>3 DEF IInv, CommitsDecided, SaysCommitted
<1>13. RefusalsKept'  BY <1>1, <1>3 DEF IInv, RefusalsKept
<1>14. VotesKnown'
  <2> SUFFICES ASSUME ~TimerOverlaps, NEW u \in Tx
               PROVE  /\ caller'[u] = "waiting" =>
                         /\ Backups \subseteq DOMAIN resp[u]
                         /\ tstate[u] \in {"WAITING", "COLLECTING"} => Collecting(u)'
                         /\ tstate[u] = "COMMITTED" => Committing(u)'
                      /\ caller'[u] = "committed" =>
                            \A l \in Backups : applied'[l][u] > 0
                      /\ caller'[u] = "returned" =>
                            \A l \in alive : applied'[l][u] > 0
      BY <1>1, <1>6 DEF VotesKnown
  <2>1. \A l \in Locations : applied[l][u] > 0 => applied'[l][u] > 0
        BY <1>5 DEF LoadedOnly
  <2>2. Collecting(u) => Collecting(u)'
        BY <1>1, <1>6 DEF Collecting, Ends
  <2>3. Committing(u) => Committing(u)'
        BY <1>1, <1>6, <2>1 DEF Committing, GivesUp
  <2>4. ASSUME u = t, NEW l \in alive
        PROVE  applied'[l][u] > 0
    <3>1. CASE l = active  BY <1>5, <2>4, <3>1 DEF LoadedOnly
    <3>2. CASE l # active
          BY <1>1, <1>6, <2>1, <2>4, <3>2 DEF IInv, VotesKnown, Backups
    <3> QED  BY <3>1, <3>2
  <2> QED  BY <1>3, <1>6, <2>1, <2>2, <2>3, <2>4 DEF IInv, VotesKnown
<1> QED  BY <1>7, <1>8, <1>9, <1>10, <1>11, <1>12, <1>13, <1>14 DEF IInv

-----------------------------------------------------------------------------
(* Failures.                                                               *)
LEMMA EraseKeeps ==
    ASSUME IInv, EraseLocation
    PROVE  IInv'
<1>1. /\ UNCHANGED <<tstate, resp, blockers, att, cdone, caller, decided, change,
                     prepared, timer, done, store, applied, net, synch, alive,
                     active, losses, crashes>>
      /\ members' = members \ {failing}
      /\ failing' = NoLocation
      BY DEF EraseLocation, coordVars, cohortVars, dataVars
<1>2. TypeOK'  BY <1>1 DEF IInv, TypeOK
<1>3. NoLocation \notin alive
      BY ConstantsAssumption DEF IInv, TypeOK
<1>4. Coordinated'  BY <1>1, <1>3 DEF IInv, Coordinated, Unborn
<1>5. CallersMatch'  BY <1>1 DEF IInv, CallersMatch
<1>6. BlockersKnown'  BY <1>1 DEF IInv, BlockersKnown, Live
<1>7. CohortsReady'  BY <1>1 DEF IInv, CohortsReady, Backups
<1>8. CommitsDecided'
      BY <1>1 DEF IInv, CommitsDecided, SaysCommitted, OnlyCommittedIsApplied
<1>9. RefusalsKept'  BY <1>1 DEF IInv, RefusalsKept
<1>10. VotesKnown'
       BY <1>1 DEF IInv, VotesKnown, Collecting, Committing, Ends, GivesUp, Backups
<1> QED  BY <1>2, <1>4, <1>5, <1>6, <1>7, <1>8, <1>9, <1>10 DEF IInv

\* The process of a backup ends.
LEMMA EndProcessKeeps ==
    ASSUME IInv, NEW l \in alive \ {active}, EndProcess(l),
           crashes' \in 0 .. MaxCrashes
    PROVE  IInv'
<1>1. /\ UNCHANGED <<tstate, resp, blockers, att, cdone, caller, decided, change,
                     done, store, applied, synch, active, members, failing, losses>>
      /\ alive' = alive \ {l}
      /\ net' \subseteq net
      /\ prepared' = [prepared EXCEPT ![l] = {}]
      /\ timer' = [timer EXCEPT ![l] = {}]
      BY DEF EndProcess, coordVars, dataVars
<1>2. /\ prepared' \in [Locations -> SUBSET Tx]
      /\ timer' \in [Locations -> SUBSET Tx]
      /\ \A k \in Locations : prepared'[k] = IF k = l THEN {} ELSE prepared[k]
      /\ \A k \in Locations : timer'[k] = IF k = l THEN {} ELSE timer[k]
      BY <1>1 DEF IInv, TypeOK
<1>3. /\ Backups' \subseteq Backups /\ l \notin Backups'
      /\ Backups \subseteq Locations
      BY <1>1 DEF Backups, IInv, TypeOK
<1>4. TypeOK'  BY <1>1, <1>2 DEF IInv, TypeOK
<1>5. Coordinated'  BY <1>1, <1>2 DEF IInv, Coordinated, Unborn
<1>6. CallersMatch'  BY <1>1 DEF IInv, CallersMatch
<1>7. BlockersKnown'  BY <1>1 DEF IInv, BlockersKnown, Live
<1>8. CohortsReady'  BY <1>1, <1>2, <1>3 DEF IInv, CohortsReady
<1>9. CommitsDecided'
      BY <1>1 DEF IInv, CommitsDecided, SaysCommitted, OnlyCommittedIsApplied
<1>10. RefusalsKept'  BY <1>1 DEF IInv, RefusalsKept
<1>11. VotesKnown'
  <2>1. ASSUME NEW t \in Tx, Collecting(t)
        PROVE  Collecting(t)'
        BY <1>1, <1>2, <1>3, <2>1 DEF Collecting, Ends
  <2>2. ASSUME NEW t \in Tx, Committing(t)
        PROVE  Committing(t)'
        BY <1>1, <1>2, <1>3, <2>2 DEF Committing, GivesUp
  <2> QED  BY <1>1, <1>3, <2>1, <2>2 DEF IInv, VotesKnown
<1> QED  BY <1>4, <1>5, <1>6, <1>7, <1>8, <1>9, <1>10, <1>11 DEF IInv

\* It crashes,
LEMMA CrashCohortKeeps ==
    ASSUME IInv, NEW l \in Locations, CrashCohort(l)
    PROVE  IInv'
<1>1. crashes' \in 0 .. MaxCrashes
      BY ConstantsAssumption DEF CrashCohort, IInv, TypeOK
<1> QED  BY <1>1, EndProcessKeeps DEF CrashCohort

\* or an exception that its timer thread does not catch ends it.
LEMMA UncaughtKeeps ==
    ASSUME IInv, NEW l \in Locations, NEW t \in Tx, on_timeout_uncaught(l, t)
    PROVE  IInv'
<1>1. l \in alive \ {active}
      BY ConstantsAssumption DEF on_timeout_uncaught
<1>2. crashes' \in 0 .. MaxCrashes
      BY DEF on_timeout_uncaught, IInv, TypeOK
<1> QED  BY <1>1, <1>2, EndProcessKeeps DEF on_timeout_uncaught

\* The primary fails, with all that its coordinator knew.
LEMMA CrashCoordinatorKeeps ==
    ASSUME IInv, CrashCoordinator
    PROVE  IInv'
<1>1. /\ UNCHANGED <<change, done, store, applied, synch, losses, decided>>
      /\ crashes < MaxCrashes /\ crashes' = crashes + 1
      /\ active # NoLocation /\ active' = NoLocation
      /\ alive' = alive \ {active}
      /\ members' = {} /\ failing' = NoLocation
      /\ net' \subseteq net
      /\ caller' = [t \in Tx |-> IF caller[t] \in {"waiting", "committed"}
                                 THEN "lost" ELSE caller[t]]
      /\ tstate' = [t \in Tx |-> "NONE"]
      /\ resp' = [t \in Tx |-> NoResponses]
      /\ blockers' = [t \in Tx |-> {}]
      /\ att' = [t \in Tx |-> 0]
      /\ cdone' = <<>>
      /\ prepared' = [prepared EXCEPT ![active] = {}]
      /\ timer' = [timer EXCEPT ![active] = {}]
      BY DEF CrashCoordinator, dataVars
<1>2. active \in Locations /\ active \in alive
      BY <1>1 DEF IInv, Coordinated, TypeOK
<1>3. /\ prepared' \in [Locations -> SUBSET Tx]
      /\ timer' \in [Locations -> SUBSET Tx]
      /\ \A k \in Locations : prepared'[k] = IF k = active THEN {} ELSE prepared[k]
      /\ \A k \in Locations : timer'[k] = IF k = active THEN {} ELSE timer[k]
      BY <1>1, <1>2 DEF IInv, TypeOK
<1>4. NoLocation \notin Locations  BY ConstantsAssumption
<1>5. Backups' = Backups /\ active \notin Backups
      BY <1>1, <1>4 DEF Backups, IInv, TypeOK
<1>6. TypeOK'
  <2>1. crashes' \in 0 .. MaxCrashes
        BY <1>1, ConstantsAssumption DEF IInv, TypeOK
  <2>2. resp' \in [Tx -> UNION {[L -> Responses] : L \in SUBSET Locations}]
    <3>1. /\ DOMAIN resp' = Tx /\ resp' = [t \in Tx |-> resp'[t]]
          /\ \A t \in Tx : /\ DOMAIN resp'[t] \subseteq Locations
                           /\ resp'[t] \in [DOMAIN resp'[t] -> Responses]
          BY <1>1 DEF NoResponses
    <3> QED  BY ONLY <3>1, RespType
  <2>3. caller' \in [Tx -> Callers]  BY <1>1 DEF Callers, IInv, TypeOK
  <2>4. /\ cdone' \in Seq(Records) /\ Len(cdone') <= MaxDone
        /\ att' \in [Tx -> 0 .. MaxAttempts]
        BY <1>1, ConstantsAssumption
  <2>5. /\ tstate' \in [Tx -> TransactionStates]
        /\ blockers' \in [Tx -> SUBSET Tx]
        BY <1>1 DEF TransactionStates
  <2> QED  BY <1>1, <1>3, <2>1, <2>2, <2>3, <2>4, <2>5 DEF IInv, TypeOK
<1>7. Coordinated'
  <2>1. \A t \in Tx : caller'[t] = "idle" => caller[t] = "idle"
        BY <1>1
  <2>2. \A t \in Tx : caller'[t] \notin {"waiting", "committed"} /\ tstate'[t] = "NONE"
        BY <1>1
  <2>3. ASSUME NEW t \in Tx, caller'[t] = "idle"
        PROVE  Unborn(t)'
        BY <1>1, <1>3, <2>1, <2>2, <2>3 DEF IInv, Coordinated, Unborn
  <2>4. NoLocation \notin alive'  BY <1>1, <1>4 DEF IInv, TypeOK
  <2> QED  BY <1>1, <1>3, <2>2, <2>3, <2>4 DEF IInv, Coordinated
<1>8. CallersMatch'  BY <1>1 DEF CallersMatch
<1>9. BlockersKnown'  BY <1>1 DEF BlockersKnown, Live
<1>10. CohortsReady'  BY <1>1, <1>3, <1>5 DEF IInv, CohortsReady
<1>11. CommitsDecided'
  <2>1. \A t \in Tx : tstate'[t] # "COMMITTED" /\ caller'[t] # "committed"
        BY <1>1
  <2>2. DOMAIN cdone' = {}  BY <1>1
  <2> QED  BY <1>1, <2>1, <2>2
           DEF IInv, CommitsDecided, SaysCommitted, OnlyCommittedIsApplied
<1>12. RefusalsKept'  BY <1>1 DEF IInv, RefusalsKept
<1>13. VotesKnown'  BY <1>1 DEF IInv, VotesKnown
<1> QED  BY <1>6, <1>7, <1>8, <1>9, <1>10, <1>11, <1>12, <1>13 DEF IInv

\* A backup becomes primary and recovers what it had prepared.
LEMMA ActivateKeeps ==
    ASSUME IInv, NEW l \in Locations, activate(l)
    PROVE  IInv'
<1>1. /\ UNCHANGED <<caller, change, blockers, decided, prepared, timer, done,
                     store, applied, synch, alive, failing, losses, crashes>>
      /\ active = NoLocation /\ active' = l /\ l \in alive
      /\ tstate' = [t \in Tx |-> IF t \in prepared[l] THEN "RECOVERING" ELSE "NONE"]
      /\ resp' = [t \in Tx |-> IF t \in prepared[l]
                               THEN [k \in members' |-> "UNKNOWN"]
                               ELSE NoResponses]
      /\ att' = [t \in Tx |-> IF t \in prepared[l] THEN 1 ELSE 0]
      /\ net' = UNION {Sent(t, "get_status", members', 1) : t \in prepared[l]}
      /\ cdone' = done[l]
      BY DEF activate, cohortVars, dataVars
<1>2. PICK unnoticed \in SUBSET (Locations \ (alive \cup {InitialCoordinator})) :
          members' = (alive \ {l}) \cup unnoticed
      BY DEF activate
<1>3. /\ alive \subseteq Locations /\ NoLocation \notin Locations
      /\ prepared[l] \subseteq Tx
      BY ConstantsAssumption DEF IInv, TypeOK
<1>4. /\ members' \subseteq Locations /\ l \notin members'
      /\ alive \ {l} \subseteq members'
      BY <1>1, <1>2, <1>3
<1>5. ASSUME NEW m \in net'
      PROVE  /\ m \in Messages /\ m.type = "get_status"
             /\ m.tx \in prepared[l]
  <2>1. PICK t \in prepared[l], k \in members' :
            m = Message("get_status", t, k, 1, "UNKNOWN")
        BY <1>1 DEF Sent
  <2>2. 1 \in 0 .. MaxAttempts  BY ConstantsAssumption
  <2> QED  BY <1>3, <1>4, <2>1, <2>2 DEF Message, Messages, Requests, Statuses
<1>6. /\ \A t \in Tx : caller[t] \notin {"waiting", "committed"}
      /\ \A t \in Tx : blockers[t] = {}
      /\ \A t \in Tx : caller[t] = "idle" => t \notin prepared[l]
      BY <1>1 DEF IInv, Coordinated, BlockersKnown, Unborn
<1>7. Backups' \subseteq Backups /\ l \notin Backups'
      BY <1>1, <1>3 DEF Backups
<1>8. TypeOK'
  <2>1. resp' \in [Tx -> UNION {[L -> Responses] : L \in SUBSET Locations}]
    <3>1. /\ DOMAIN resp' = Tx /\ resp' = [t \in Tx |-> resp'[t]]
          BY <1>1
    <3>2. \A t \in Tx : /\ DOMAIN resp'[t] \subseteq Locations
                        /\ resp'[t] \in [DOMAIN resp'[t] -> Responses]
          BY <1>1, <1>4 DEF NoResponses, Responses
    <3> QED  BY ONLY <3>1, <3>2, RespType
  <2>2. tstate' \in [Tx -> TransactionStates]  BY <1>1 DEF TransactionStates
  <2>3. att' \in [Tx -> 0 .. MaxAttempts]  BY <1>1, ConstantsAssumption
  <2>4. cdone' \in Seq(Records) /\ Len(cdone') <= MaxDone
        BY <1>1 DEF IInv, TypeOK
  <2>5. net' \subseteq Messages  BY <1>5
  <2> QED  BY <1>1, <1>4, <2>1, <2>2, <2>3, <2>4, <2>5 DEF IInv, TypeOK
<1>9. Coordinated'
  <2>1. ASSUME NEW t \in Tx, caller[t] = "idle"
        PROVE  Unborn(t)'
    <3>1. Unborn(t) /\ t \notin prepared[l]  BY <1>6, <2>1 DEF IInv, Coordinated
    <3>2. tstate'[t] = "NONE"  BY <1>1, <3>1
    <3>3. \A m \in net' : m.tx # t  BY <1>5, <3>1
    <3> QED  BY <1>1, <3>1, <3>2, <3>3 DEF Unborn
  <2>2. active' # NoLocation  BY <1>1, <1>3
  <2> QED  BY <1>1, <1>4, <2>1, <2>2 DEF IInv, Coordinated
<1>10. CallersMatch'  BY <1>1, <1>6 DEF CallersMatch
<1>11. BlockersKnown'
  <2>1. Live' = prepared[l]  BY <1>1, <1>3 DEF Live
  <2> QED  BY <1>1, <1>6, <2>1 DEF IInv, BlockersKnown, CohortsReady
<1>12. CohortsReady'  BY <1>1, <1>7 DEF IInv, CohortsReady
<1>13. CommitsDecided'
  <2>1. \A t \in Tx : tstate'[t] # "COMMITTED" /\ caller'[t] # "committed"
        BY <1>1, <1>6
  <2>2. \A m \in net' : ~SaysCommitted(m)  BY <1>5 DEF SaysCommitted
  <2>3. \A i \in DOMAIN cdone' : cdone'[i].status = "COMMITTED" =>
            "COMMITTED" \in decided'[cdone'[i].tx]
        BY <1>1 DEF IInv, CommitsDecided
  <2> QED  BY <1>1, <2>1, <2>2, <2>3
           DEF IInv, CommitsDecided, SaysCommitted, OnlyCommittedIsApplied
<1>14. RefusalsKept'  BY <1>1, <1>6 DEF IInv, RefusalsKept
<1>15. VotesKnown'  BY <1>1, <1>6 DEF IInv, VotesKnown
<1> QED  BY <1>8, <1>9, <1>10, <1>11, <1>12, <1>13, <1>14, <1>15 DEF IInv

-----------------------------------------------------------------------------
(* The theorems.                                                           *)

\* At first nothing has been requested.
LEMMA InitHolds == Init => IInv
<1> SUFFICES ASSUME Init PROVE IInv
    OBVIOUS
<1>1. TypeOK
  <2>1. resp \in [Tx -> UNION {[L -> Responses] : L \in SUBSET Locations}]
    <3>1. /\ DOMAIN resp = Tx /\ resp = [t \in Tx |-> resp[t]]
          /\ \A t \in Tx : /\ DOMAIN resp[t] \subseteq Locations
                           /\ resp[t] \in [DOMAIN resp[t] -> Responses]
          BY DEF Init, NoResponses
    <3> QED  BY ONLY <3>1, RespType
  <2>2. store \in [Locations -> [Oids -> Values]]
    <3>1. Initial \in Values /\ Absent \in Values
          BY ConstantsAssumption DEF Initial, Absent, Values
    <3> HIDE DEF Initial, Absent, Values
    <3> QED  BY <3>1 DEF Init
  <2> QED  BY <2>1, <2>2, ConstantsAssumption
           DEF Init, TypeOK, Callers, TransactionStates
<1>2. Coordinated
      BY ConstantsAssumption DEF Init, Coordinated, Unborn
<1>3. CallersMatch  BY DEF Init, CallersMatch
<1>4. BlockersKnown  BY DEF Init, BlockersKnown, Live
<1>5. CohortsReady  BY DEF Init, CohortsReady, Backups
<1>6. CommitsDecided
      BY DEF Init, CommitsDecided, OnlyCommittedIsApplied
<1>7. RefusalsKept  BY DEF Init, RefusalsKept
<1>8. VotesKnown  BY DEF Init, VotesKnown
<1> QED  BY <1>1, <1>2, <1>3, <1>4, <1>5, <1>6, <1>7, <1>8 DEF IInv

\* A step of somebody else.
LEMMA StutterKeeps ==
    ASSUME IInv, UNCHANGED vars
    PROVE  IInv'
<1>1. UNCHANGED <<coordVars, change, cohortVars, dataVars, synch, alive, active,
                  members, failing, crashes, losses, net>>
      BY DEF vars, coordVars, cohortVars, dataVars
<1>2. CohortData  BY <1>1, CohortIdle
<1>3. CohortFrame  BY <1>1 DEF CohortFrame, IInv, TypeOK
<1> QED  BY <1>2, <1>3, CohortKeeps

(* Every reachable state satisfies the inductive invariant.                *)
THEOREM IInvHolds == Spec => []IInv
<1>1. Init => IInv  BY InitHolds
<1>2. IInv /\ [Next]_vars => IInv'
  <2> SUFFICES ASSUME IInv, [Next]_vars PROVE IInv'
      OBVIOUS
  <2>1. ASSUME NEW t \in Tx, NEW c \in Changes, Request(t, c) \/ RequestLocal(t, c)
        PROVE  IInv'
        BY <2>1, RequestKeeps, RequestLocalKeeps
  <2>2. ASSUME NEW t \in Tx, LocalApply(t) \/ handle_timeout(t)
        PROVE  IInv'
        BY <2>2, LocalApplyKeeps, CoordinatorTimeoutKeeps
  <2>3. ASSUME NEW m \in net, ToCoordinator(m)
        PROVE  IInv'
        BY <2>3, YesKeeps, NoKeeps, EndKeeps, StatusAnswerKeeps, AskStatusKeeps
           DEF ToCoordinator
  <2>4. ASSUME NEW m \in net, ToCohort(m)
        PROVE  IInv'
        BY <2>4, PrepareKeeps, CommitKeeps, RollbackKeeps, GetStatusKeeps,
           SetStatusKeeps DEF ToCohort
  <2>5. ASSUME NEW m \in net, Lose(m)
        PROVE  IInv'
        BY <2>5, LoseKeeps
  <2>6. ASSUME NEW l \in Locations, NEW t \in Tx,
               on_timeout(l, t) \/ on_timeout_uncaught(l, t)
        PROVE  IInv'
        BY <2>6, CohortTimeoutKeeps, UncaughtKeeps
  <2>7. ASSUME NEW l \in Locations, CrashCohort(l) \/ on_failure(l) \/ activate(l)
        PROVE  IInv'
        BY <2>7, CrashCohortKeeps, FailureKeeps, ActivateKeeps
  <2>8. CASE CrashCoordinator  BY <2>8, CrashCoordinatorKeeps
  <2>9. CASE EraseLocation  BY <2>9, EraseKeeps
  <2>10. CASE UNCHANGED vars  BY <2>10, StutterKeeps
  <2> QED  BY <2>1, <2>2, <2>3, <2>4, <2>5, <2>6, <2>7, <2>8, <2>9, <2>10 DEF Next
<1> QED  BY <1>1, <1>2, PTL DEF Spec

(* Every variable keeps its type; in particular the lists of finished      *)
(* transactions never grow beyond m_max_transaction_done.                  *)
THEOREM TypesHold == Spec => []TypeOK
BY IInvHolds, PTL DEF IInv

(* A replica holds a change only after a decision to commit.               *)
THEOREM CommittedOnly == Spec => []OnlyCommittedIsApplied
<1>1. IInv => OnlyCommittedIsApplied  BY DEF IInv, CommitsDecided
<1> QED  BY <1>1, IInvHolds, PTL

(* Two transactions that the coordinator works on touch no common oid.     *)
THEOREM ConflictsAreSerialized == Spec => []ConflictsSerialized
<1>1. IInv => ConflictsSerialized
      BY DEF IInv, BlockersKnown, ConflictsSerialized, Live
<1> QED  BY <1>1, IInvHolds, PTL

(* A prepared change stays applicable until it is resolved: a commit of a  *)
(* backup never fails.                                                     *)
THEOREM PreparedApplies == Spec => []PreparedStaysApplicable
<1>1. IInv => PreparedStaysApplicable
      BY DEF IInv, CohortsReady, PreparedStaysApplicable, Backups, TypeOK
<1> QED  BY <1>1, IInvHolds, PTL

(* What request() told its caller is what happened, as long as the timer    *)
(* of a transaction keeps out of the handlers that change it.  Nothing in   *)
(* the code keeps it out (TransactionCoordinator::handle_timeout takes no   *)
(* m_transactionMapMutex): with TimerOverlaps a change that has been loaded *)
(* may be reported as refused.                                             *)
THEOREM OutcomeIsHonest ==
    ASSUME ~TimerOverlaps
    PROVE  Spec => []HonestOutcome
<1>1. IInv => HonestOutcome
  <2> SUFFICES ASSUME IInv, NEW t \in Tx
               PROVE  /\ caller[t] = "committed" =>
                            \A l \in Backups : applied[l][t] > 0
                      /\ caller[t] \in {"aborted", "refused"} =>
                            \A l \in Locations : applied[l][t] = 0
      BY DEF HonestOutcome
  <2>1. \A l \in Locations : applied[l][t] \in 0 .. 2  BY DEF IInv, TypeOK
  <2> QED  BY <2>1 DEF IInv, VotesKnown, RefusalsKept, CommitsDecided,
                       OnlyCommittedIsApplied
<1> QED  BY <1>1, IInvHolds, PTL

(* On the same condition a change that was reported as committed is held by *)
(* every survivor, so by whichever becomes the primary.  With TimerOverlaps *)
(* the END of a rollback may be counted for a commit.                      *)
THEOREM CommitsSurvive ==
    ASSUME ~TimerOverlaps
    PROVE  Spec => []CommittedSurvives
<1>1. IInv => CommittedSurvives
      BY DEF IInv, VotesKnown, CommittedSurvives
<1> QED  BY <1>1, IInvHolds, PTL
=============================================================================
