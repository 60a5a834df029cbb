--------------------------- MODULE TwoPhaseCommit ---------------------------
(***************************************************************************)
(* The transaction engine of FaultTolerance/ftstatemanager: the replicas   *)
(* of a data store are kept equal by a two-phase commit between the        *)
(* location of the primary (TransactionEngineCoordinator, one              *)
(* TransactionCoordinator per transaction) and the locations of the        *)
(* backups (TransactionEngineCohort).                                      *)
(*                                                                         *)
(* Granularity.  The coordinator's handlers run under m_transactionMapMutex*)
(* and the cohort's under m_mutex, so a handler is one action.  What lies  *)
(* outside the locks is a step of its own: the way of a call to its        *)
(* receiver, the local application of a change after request() returned,   *)
(* and the two halves of DataStoreContext::on_failure.  The coordinator's  *)
(* timer takes no m_transactionMapMutex: its expiry is an action of its own*)
(* and may also run within a handler that changes the same transaction     *)
(* (Handled).                                                              *)
(*                                                                         *)
(* Transport.  With synch (m_is_synch) a request to a cohort is a          *)
(* Method_Request run by a worker thread of the Scheduler, which also      *)
(* delivers the answer; otherwise both are MIOP multicasts.  Either way a  *)
(* request or its answer may be lost (every exception in a Method_Request  *)
(* is ignored), and there are several worker threads, so that requests may *)
(* overtake each other.                                                    *)
(***************************************************************************)
EXTENDS Naturals, FiniteSets, SequencesExt

CONSTANTS
    Locations,           \* the locations that hold a replica
    NoLocation,
    InitialCoordinator,  \* the location activated first
    Oids,
    InitialOids,         \* the oids present in every replica at the start
    Changes,             \* the StateChanges a client may request
    MaxTx,               \* bound: number of requests
    SynchModes,          \* the values m_is_synch may be given
    TimelyNetwork,       \* timers only fire when nothing is in flight
    TimerOverlaps,       \* the timer thread may run within a handler
    MaxInProgress,       \* m_max_transaction_in_progress
    MaxDone,             \* m_max_transaction_done
    MaxAttempts,         \* bound: copies in flight of a resent request
    MaxLosses,           \* bound: lost requests and answers
    MaxCrashes           \* bound: crashed locations

Tx == 1 .. MaxTx
Kinds == {"INSERTION", "UPDATE", "REMOVAL"}

\* A change is a sequence of records on distinct oids (a DataStore operation
\* has one record, a TXManager transaction keeps one per oid and store).
ASSUME ConstantsAssumption ==
    /\ InitialCoordinator \in Locations
    /\ NoLocation \notin Locations
    /\ InitialOids \subseteq Oids
    /\ Changes \subseteq Seq([oid : Oids, op : Kinds])
    /\ \A c \in Changes : \A i, j \in DOMAIN c : c[i].oid = c[j].oid => i = j
    /\ {MaxTx, MaxInProgress, MaxDone, MaxAttempts, MaxLosses, MaxCrashes}
           \subseteq Nat
    /\ MaxAttempts >= 1
    /\ SynchModes \subseteq BOOLEAN
    /\ TimelyNetwork \in BOOLEAN
    /\ TimerOverlaps \in BOOLEAN
    /\ TimelyNetwork => ~TimerOverlaps

VARIABLES
    synch,               \* m_is_synch: IIOP calls (TRUE) or MIOP multicasts
    alive,               \* the locations that have not crashed
    active,              \* the location whose coordinator is activated
    members,             \* its m_cohortsMap
    failing,             \* the location its on_failure is processing
    caller,              \* the thread inside DataStore::insert/update/remove
    change,              \* the change of each transaction
    tstate,              \* m_status of each transaction in m_transactionMap
    resp,                \* m_cohorts_responses (its domain is m_cohorts)
    blockers,            \* the transactions counted in m_blocking_count
    att,                 \* how often the current request has been sent
    cdone,               \* m_doneTransactionList of the coordinator
    prepared,            \* m_transactionMap of each cohort
    timer,               \* the cohort timers that are armed
    done,                \* m_doneTransactionList of each cohort
    store,               \* m_data of each replica
    net,                 \* requests and answers on their way
    losses, crashes,     \* counters of the two bounds
    decided,             \* history: the decisions taken for a transaction
    applied              \* history: how often a location loaded a change

coordVars == <<tstate, resp, blockers, att, cdone, caller, decided>>
cohortVars == <<prepared, timer, done>>
envVars == <<synch, alive, active, members, failing, losses, crashes>>
dataVars == <<store, applied>>
vars == <<synch, alive, active, members, failing, caller, change, tstate,
          resp, blockers, att, cdone, prepared, timer, done, store, net, losses,
          crashes, decided, applied>>

Statuses == {"UNKNOWN", "PREPARED", "COMMITTED", "ABORTED"}
TransactionStates == {"NONE", "WAITING", "RECOVERING", "COLLECTING",
                      "COMMITTED", "ABORTED"}
Responses == {"UNKNOWN", "YES", "NO", "END", "SET_TO_NOT_DONE"}
Callers == {"idle", "waiting", "committed", "aborted", "returned", "refused",
            "lost"}
Requests == {"prepare", "commit", "rollback", "get_status", "set_status"}
Answers == {"yes", "no", "end", "status", "ask_status"}

\* The data of an oid is the transaction that wrote it last.
Initial == 0
Absent == MaxTx + 1
Values == 0 .. MaxTx + 1

Message(type, t, l, a, s) ==
    [type |-> type, tx |-> t, loc |-> l, att |-> a, status |-> s]
Messages == [type : Requests \cup Answers, tx : Tx, loc : Locations,
             att : 0 .. MaxAttempts, status : Statuses]

\* The entries of the lists of finished transactions.
Records == [tx : Tx, status : Statuses]

NoResponses == [l \in {} |-> "UNKNOWN"]
NoChange == <<>>

(* One type invariant.                                                     *)
TypeOK ==
    /\ synch \in SynchModes
    /\ alive \subseteq Locations
    /\ active \in Locations \cup {NoLocation}
    /\ members \subseteq Locations
    /\ failing \in Locations \cup {NoLocation}
    /\ caller \in [Tx -> Callers]
    /\ change \in [Tx -> Changes \cup {NoChange}]
    /\ tstate \in [Tx -> TransactionStates]
    /\ resp \in [Tx -> UNION {[L -> Responses] : L \in SUBSET Locations}]
    /\ blockers \in [Tx -> SUBSET Tx]
    /\ att \in [Tx -> 0 .. MaxAttempts]
    /\ prepared \in [Locations -> SUBSET Tx]
    /\ timer \in [Locations -> SUBSET Tx]
    /\ cdone \in Seq(Records) /\ Len(cdone) <= MaxDone
    /\ done \in [Locations -> Seq(Records)]
    /\ \A l \in Locations : Len(done[l]) <= MaxDone
    /\ store \in [Locations -> [Oids -> Values]]
    /\ net \subseteq Messages
    /\ losses \in 0 .. MaxLosses
    /\ crashes \in 0 .. MaxCrashes
    /\ decided \in [Tx -> SUBSET {"COMMITTED", "ABORTED"}]
    /\ applied \in [Locations -> [Tx -> 0 .. 2]]

Init ==
    /\ synch \in SynchModes
    /\ alive = Locations
    /\ active = InitialCoordinator
    /\ members = Locations \ {InitialCoordinator}
    /\ failing = NoLocation
    /\ caller = [t \in Tx |-> "idle"]
    /\ change = [t \in Tx |-> NoChange]
    /\ tstate = [t \in Tx |-> "NONE"]
    /\ resp = [t \in Tx |-> NoResponses]
    /\ blockers = [t \in Tx |-> {}]
    /\ att = [t \in Tx |-> 0]
    /\ cdone = <<>>
    /\ prepared = [l \in Locations |-> {}]
    /\ timer = [l \in Locations |-> {}]
    /\ done = [l \in Locations |-> <<>>]
    /\ store = [l \in Locations |->
                  [o \in Oids |-> IF o \in InitialOids THEN Initial
                                                       ELSE Absent]]
    /\ net = {}
    /\ losses = 0
    /\ crashes = 0
    /\ decided = [t \in Tx |-> {}]
    /\ applied = [l \in Locations |-> [t \in Tx |-> 0]]

---------------------------------------------------------------------------
(* Data stores.  A record may be applied to the data s when its oid is     *)
(* absent (insertion) or present (update, removal).                        *)

Applicable(s, r) == (r.op = "INSERTION") <=> (s[r.oid] = Absent)

validate(s, c) == \A i \in DOMAIN c : Applicable(s, c[i])

oids_match(c1, c2) ==
    \E i \in DOMAIN c1, j \in DOMAIN c2 : c1[i].oid = c2[j].oid

\* load_state applies the records one by one; the first that does not apply
\* throws, and the ones before it stay applied.
load_state(s, t, c) ==
    [o \in DOMAIN s |->
        IF \E i \in DOMAIN c : /\ c[i].oid = o
                               /\ \A j \in 1 .. i : Applicable(s, c[j])
        THEN IF \E i \in DOMAIN c : c[i].oid = o /\ c[i].op = "REMOVAL"
             THEN Absent ELSE t
        ELSE s[o]]

\* Location l loads the change c of t.
Load(l, t, c) ==
    /\ store' = [store EXCEPT ![l] = load_state(@, t, c)]
    /\ applied' = [applied EXCEPT ![l][t] = IF @ = 2 THEN 2 ELSE @ + 1]

---------------------------------------------------------------------------
(* The lists of finished transactions, newest first.                       *)

\* Mutant of SaveTrans: the oldest entry is not dropped.
SaveTransUnbounded(d, t, s) == <<[tx |-> t, status |-> s]>> \o d

\* The list d without its oldest entries, if it is longer than the maximum.
Trim(d) == IF Len(d) > MaxDone THEN SubSeq(d, 1, MaxDone) ELSE d

\* save_committed_trans and save_aborted_trans
SaveTrans(d, t, s) == Trim(<<[tx |-> t, status |-> s]>> \o d)

\* ... for the transactions in S one after the other, with the statuses st.
SavedAll(d, S, st, new) ==
    \E order \in [1 .. Cardinality(S) -> S] :
        /\ \A i, j \in DOMAIN order : i < j => order[i] > order[j]
        /\ new = Trim([i \in DOMAIN order |->
                          [tx |-> order[i], status |-> st[order[i]]]] \o d)

DoneStatus(d, t) ==
    LET i == SelectInSeq(d, LAMBDA e : e.tx = t)
    IN  IF i = 0 THEN "UNKNOWN" ELSE d[i].status

---------------------------------------------------------------------------
(* The transport.                                                          *)

\* What the coordinator sends on entering a state.
RequestOf == [COLLECTING |-> "prepare", COMMITTED |-> "commit",
              ABORTED |-> "rollback", RECOVERING |-> "get_status"]

Sent(t, type, dest, a) ==
    {Message(type, t, l, a, "UNKNOWN") : l \in dest \cap alive}

\* An answer finds its coordinator activated or is ignored.
Answer(type, t, l, s) ==
    IF active = NoLocation THEN {} ELSE {Message(type, t, l, 0, s)}

\* Bounds on the timers: TimelyNetwork stands for timeouts longer than the
\* delays of the network.  Otherwise a timer may fire at any time, but a
\* request is sent at most MaxAttempts times and one query of a status is in
\* flight at a time.
InFlight(t) == \E m \in net : m.tx = t
Asking(t) == \E m \in net : m.tx = t /\ m.type \in {"ask_status", "set_status"}

---------------------------------------------------------------------------
(* The coordinator.                                                        *)

Live == {t \in Tx : tstate[t] # "NONE"}

AllAre(r, answer) == \A l \in DOMAIN r : r[l] = answer

clean_responses(r) == [l \in DOMAIN r |-> "UNKNOWN"]

\* Mutant of check_status_change: one YES is enough.
check_status_change_one_yes(s, r) ==
    CASE s = "RECOVERING" /\ AllAre(r, "SET_TO_NOT_DONE") -> "ABORTED"
      [] s = "COLLECTING" /\ \E l \in DOMAIN r : r[l] = "YES" -> "COMMITTED"
      [] s = "COMMITTED" /\ AllAre(r, "END") -> "DONE_COMMITTED"
      [] s = "ABORTED" /\ AllAre(r, "END") -> "DONE_ABORTED"
      [] OTHER -> s

\* Mutant of check_status_change: one END is enough.
check_status_change_one_end(s, r) ==
    CASE s = "RECOVERING" /\ AllAre(r, "SET_TO_NOT_DONE") -> "ABORTED"
      [] s = "COLLECTING" /\ AllAre(r, "YES") -> "COMMITTED"
      [] s = "COMMITTED" /\ \E l \in DOMAIN r : r[l] = "END" -> "DONE_COMMITTED"
      [] s = "ABORTED" /\ AllAre(r, "END") -> "DONE_ABORTED"
      [] OTHER -> s

\* Mutant of check_status_change: a recovering transaction waits for a
\* definite answer.
check_status_change_no_abort(s, r) ==
    CASE s = "COLLECTING" /\ AllAre(r, "YES") -> "COMMITTED"
      [] s = "COMMITTED" /\ AllAre(r, "END") -> "DONE_COMMITTED"
      [] s = "ABORTED" /\ AllAre(r, "END") -> "DONE_ABORTED"
      [] OTHER -> s

\* The state a transaction in state s goes to when its responses are r.
check_status_change(s, r) ==
    CASE s = "RECOVERING" /\ AllAre(r, "SET_TO_NOT_DONE") -> "ABORTED"
      [] s = "COLLECTING" /\ AllAre(r, "YES") -> "COMMITTED"
      [] s = "COMMITTED" /\ AllAre(r, "END") -> "DONE_COMMITTED"
      [] s = "ABORTED" /\ AllAre(r, "END") -> "DONE_ABORTED"
      [] OTHER -> s

\* The transactions that have reached a final state in ts, and how they ended.
Finished(ts) == {t \in Tx : ts[t] \in {"DONE_COMMITTED", "DONE_ABORTED"}}

Outcome(s) == IF s = "DONE_COMMITTED" THEN "COMMITTED" ELSE "ABORTED"

\* The transactions that only finished ones were blocking.
Unblocked(ts) ==
    {t \in Tx : /\ tstate[t] = "WAITING"
                /\ blockers[t] # {}
                /\ blockers[t] \subseteq Finished(ts)}

\* The state of t after a handler has computed the states ts and the responses
\* rs.  (A transaction unblocked by on_failure is itself visited later in the
\* same loop: if its last cohort has just been removed it goes on to COMMITTED.)
NextState(ts, rs, t) ==
    IF t \in Finished(ts) THEN "NONE"
    ELSE IF t \in Unblocked(ts)
         THEN IF rs[t] = NoResponses /\ resp[t] # NoResponses
              THEN "COMMITTED" ELSE "COLLECTING"
         ELSE ts[t]

\* The states ts are entered with the responses rs; the requests of resent are
\* sent again and the messages n are left in flight.  Entering a state cleans
\* the responses and sends the request of the state.  A finished transaction
\* is saved and deleted, and its destructor lets the transactions that only it
\* was blocking start collecting.
Entered(ts, rs, resent, n) ==
    LET finished == Finished(ts)
        entered == {t \in Tx \ finished : NextState(ts, rs, t) # tstate[t]}
        sending == {t \in entered \cup resent :
                       NextState(ts, rs, t) \notin {"NONE", "WAITING"}}
    IN  /\ tstate' = [t \in Tx |-> NextState(ts, rs, t)]
        /\ resp' = [t \in Tx |-> IF t \in finished THEN NoResponses
                                 ELSE IF t \in entered \cup resent
                                      THEN clean_responses(rs[t])
                                      ELSE rs[t]]
        /\ blockers' = [t \in Tx |-> blockers[t] \ finished]
        /\ att' = [t \in Tx |-> IF t \in finished THEN 0
                                ELSE IF t \in entered THEN 1
                                ELSE IF t \in resent /\ att[t] < MaxAttempts
                                     THEN att[t] + 1 ELSE att[t]]
        /\ net' = n \cup UNION {Sent(t, RequestOf[NextState(ts, rs, t)],
                                     DOMAIN rs[t], att'[t]) : t \in sending}
        /\ SavedAll(cdone, finished, [t \in finished |-> Outcome(ts[t])], cdone')

\* m_trResult releases the callers of the transactions that ts finishes.
Released(ts) ==
    caller' = [t \in Tx |-> IF t \in Finished(ts) /\ caller[t] = "waiting"
                            THEN IF Outcome(ts[t]) = "COMMITTED"
                                 THEN "committed" ELSE "aborted"
                            ELSE caller[t]]

\* Every handler of the coordinator ends here, with the states ts and the
\* responses rs it has computed.
set_internal_status(ts, rs, resent, n) ==
    /\ Entered(ts, rs, resent, n)
    /\ Released(ts)
    /\ decided' = [t \in Tx |->
                      decided[t] \cup
                          ({NextState(ts, rs, t)} \cap {"COMMITTED", "ABORTED"})]

\* The transactions whose timer may expire while a handler takes them to ts.
\* The timer thread holds the lock of the timer queue from its test of m_status
\* to the end of handle_timeout, and the handler that has written m_status
\* needs that lock for cancel_timer: the two leave off in a state that depends
\* only on who writes m_status last.
Expiring(ts) ==
    {t \in Tx : /\ TimerOverlaps
                /\ tstate[t] \in DOMAIN RequestOf
                /\ ts[t] # tstate[t]
                /\ att[t] < MaxAttempts}

\* The request of state s, sent by the second of the two.
SentAgain(t, s, rs) ==
    IF s \in DOMAIN RequestOf
    THEN Sent(t, RequestOf[s], DOMAIN rs[t], att[t] + 1) ELSE {}

\* The handler writes last: the old request is in flight once more.
HandlerWritesLast(t, ts, rs, n) ==
    set_internal_status(ts, rs, {}, n \cup SentAgain(t, tstate[t], rs))

\* The timer cleans the responses after the handler has recorded an answer and
\* before it counts them: the status stays and the answer is forgotten.
AnswerForgotten(t, ts, rs, n) ==
    /\ rs[t] # resp[t]
    /\ set_internal_status([ts EXCEPT ![t] = tstate[t]], rs, {t}, n)

\* The timer writes last: the status is put back, but the new request is sent
\* too, and the caller of a finished transaction, which is then not found to be
\* finished, has been released.
StatusPutBack(t, ts, rs, n) ==
    LET back == [ts EXCEPT ![t] = tstate[t]]
    IN  /\ Entered(back, rs, {t}, n \cup SentAgain(t, ts[t], rs))
        /\ Released(ts)
        /\ decided' = [u \in Tx |->
                          decided[u] \cup
                              ({ts[u], NextState(back, rs, u)}
                                  \cap {"COMMITTED", "ABORTED"})]

\* The end of a handler that an answer or a failure has called.
Handled(ts, rs, n) ==
    \/ set_internal_status(ts, rs, {}, n)
    \/ \E t \in Expiring(ts) : \/ HandlerWritesLast(t, ts, rs, n)
                              \/ AnswerForgotten(t, ts, rs, n)
                              \/ StatusPutBack(t, ts, rs, n)

\* The status another location is given for t.
get_transaction_status(t) ==
    CASE tstate[t] \in {"WAITING", "RECOVERING"} -> "UNKNOWN"
      [] tstate[t] = "COLLECTING" -> "PREPARED"
      [] tstate[t] \in {"COMMITTED", "ABORTED"} -> tstate[t]
      [] OTHER -> DoneStatus(cdone, t)

\* A client thread calls insert, update or remove (or commits a TXManager
\* transaction) with change c.  Transactions are numbered by next_counter in
\* the order of their requests.  Without cohorts the change is only local;
\* TransactionCounterGuard holds the thread back at the maximum.
NextTx(t) == /\ caller[t] = "idle"
             /\ \A u \in Tx : u < t => caller[u] # "idle"

RequestLocal(t, c) ==
    /\ NextTx(t)
    /\ active # NoLocation
    /\ members = {}
    /\ change' = [change EXCEPT ![t] = c]
    /\ IF validate(store[active], c)
       THEN /\ caller' = [caller EXCEPT ![t] = "returned"]
            /\ decided' = [decided EXCEPT ![t] = {"COMMITTED"}]
            /\ Load(active, t, c)
       ELSE /\ caller' = [caller EXCEPT ![t] = "refused"]
            /\ UNCHANGED <<decided, dataVars>>
    /\ UNCHANGED <<tstate, resp, blockers, att, cdone, cohortVars, envVars,
                   net>>

\* Mutant of Blocking: a transaction that is decided no longer blocks.
BlockingUndecided(c) ==
    {u \in Live : tstate[u] \in {"WAITING", "COLLECTING"}
                    /\ oids_match(c, change[u])}

\* get_transactions_with_matching_oid
Blocking(c) == {u \in Live : oids_match(c, change[u])}

Request(t, c) ==
    /\ NextTx(t)
    /\ active # NoLocation
    /\ members # {}
    /\ Cardinality({u \in Tx : caller[u] = "waiting"}) < MaxInProgress
    /\ change' = [change EXCEPT ![t] = c]
    /\ LET wait == Blocking(c)
           new  == IF wait = {} THEN "COLLECTING" ELSE "WAITING"
       IN  IF wait = {} /\ ~validate(store[active], c)
           THEN /\ caller' = [caller EXCEPT ![t] = "refused"]
                /\ UNCHANGED <<tstate, resp, blockers, att, net>>
           ELSE /\ caller' = [caller EXCEPT ![t] = "waiting"]
                /\ tstate' = [tstate EXCEPT ![t] = new]
                /\ resp' = [resp EXCEPT ![t] = [l \in members |-> "UNKNOWN"]]
                /\ blockers' = [blockers EXCEPT ![t] = wait]
                /\ att' = [att EXCEPT ![t] = 1]
                /\ net' = IF wait = {}
                          THEN net \cup Sent(t, "prepare", members, 1)
                          ELSE net
    /\ UNCHANGED <<cdone, decided, cohortVars, envVars, dataVars>>

\* request() has returned true: the caller applies the change to its own
\* replica, with no lock that orders it with the other callers.
LocalApply(t) ==
    /\ caller[t] = "committed"
    /\ caller' = [caller EXCEPT ![t] = "returned"]
    /\ Load(active, t, change[t])
    /\ UNCHANGED <<change, tstate, resp, blockers, att, cdone, decided,
                   cohortVars, envVars, net>>

\* The answer m of a cohort changes a response of a transaction in state s.
Respond(m, states, answer) ==
    LET rs == [resp EXCEPT ![m.tx][m.loc] = answer]
    IN  IF tstate[m.tx] \in states /\ m.loc \in DOMAIN resp[m.tx]
        THEN Handled([tstate EXCEPT ![m.tx] = check_status_change(@, rs[m.tx])],
                     rs, net \ {m})
        ELSE net' = net \ {m} /\ UNCHANGED coordVars

send_yes(m) ==
    /\ m.type = "yes"
    /\ Respond(m, {"COLLECTING"}, "YES")
    /\ UNCHANGED <<change, cohortVars, envVars, dataVars>>

send_no(m) ==
    /\ m.type = "no"
    /\ IF tstate[m.tx] = "COLLECTING" /\ m.loc \in DOMAIN resp[m.tx]
       THEN Handled([tstate EXCEPT ![m.tx] = "ABORTED"], resp, net \ {m})
       ELSE net' = net \ {m} /\ UNCHANGED coordVars
    /\ UNCHANGED <<change, cohortVars, envVars, dataVars>>

send_end(m) ==
    /\ m.type = "end"
    /\ Respond(m, {"COMMITTED", "ABORTED"}, "END")
    /\ UNCHANGED <<change, cohortVars, envVars, dataVars>>

\* Mutant of send_set_transaction_status: commit_local is forgotten.
send_set_transaction_status_not_local(m) ==
    /\ m.type = "status"
    /\ IF tstate[m.tx] = "RECOVERING" /\ m.loc \in DOMAIN resp[m.tx]
       THEN IF m.status \in {"COMMITTED", "ABORTED"}
            THEN Handled([tstate EXCEPT ![m.tx] = m.status], resp, net \ {m})
            ELSE Respond(m, {"RECOVERING"}, "SET_TO_NOT_DONE")
       ELSE net' = net \ {m} /\ UNCHANGED coordVars
    /\ UNCHANGED <<change, cohortVars, envVars, dataVars>>

\* A cohort tells a recovering coordinator what it knows of m.tx.  On
\* COMMITTED the coordinator loads the change, which only its own cohort had.
send_set_transaction_status(m) ==
    /\ m.type = "status"
    /\ IF tstate[m.tx] = "RECOVERING" /\ m.loc \in DOMAIN resp[m.tx]
       THEN IF m.status \in {"COMMITTED", "ABORTED"}
            THEN Handled([tstate EXCEPT ![m.tx] = m.status], resp, net \ {m})
            ELSE Respond(m, {"RECOVERING"}, "SET_TO_NOT_DONE")
       ELSE net' = net \ {m} /\ UNCHANGED coordVars
    /\ IF /\ tstate[m.tx] = "RECOVERING" /\ m.loc \in DOMAIN resp[m.tx]
          /\ m.status = "COMMITTED"
       THEN Load(active, m.tx, change[m.tx])
       ELSE UNCHANGED dataVars
    /\ UNCHANGED <<change, cohortVars, envVars>>

\* A cohort asks for the status of m.tx; the answer is multicast.
send_get_transaction_status(m) ==
    /\ m.type = "ask_status"
    /\ net' = (net \ {m}) \cup
              {Message("set_status", m.tx, l, 0, get_transaction_status(m.tx)) :
                  l \in alive \ {active}}
    /\ UNCHANGED <<coordVars, change, cohortVars, envVars, dataVars>>

\* Mutant of handle_timeout: a decision is not sent again.
handle_timeout_undecided(t) ==
    /\ active # NoLocation
    /\ tstate[t] \in {"RECOVERING", "COLLECTING"}
    /\ IF TimelyNetwork THEN ~InFlight(t) ELSE att[t] < MaxAttempts
    /\ set_internal_status(tstate, resp, {t}, net)
    /\ UNCHANGED <<change, cohortVars, envVars, dataVars>>

\* TransactionCoordinator::handle_timeout: the request is sent again.
handle_timeout(t) ==
    /\ active # NoLocation
    /\ tstate[t] \in {"RECOVERING", "COLLECTING", "COMMITTED", "ABORTED"}
    /\ IF TimelyNetwork THEN ~InFlight(t) ELSE att[t] < MaxAttempts
    /\ set_internal_status(tstate, resp, {t}, net)
    /\ UNCHANGED <<change, cohortVars, envVars, dataVars>>

---------------------------------------------------------------------------
(* The cohorts.                                                            *)

\* Mutant of MayPrepare: changes on the same oids are not looked for.
MayPrepareConflicting(l, t) ==
    /\ validate(store[l], change[t])
    /\ \/ t \in prepared[l]
       \/ Cardinality(prepared[l]) <= MaxInProgress

MayPrepare(l, t) ==
    /\ validate(store[l], change[t])
    /\ \/ t \in prepared[l]
       \/ /\ \A u \in prepared[l] : ~oids_match(change[t], change[u])
          /\ Cardinality(prepared[l]) <= MaxInProgress

prepare_i(m) ==
    LET l == m.loc
        t == m.tx
    IN  /\ m.type = "prepare"
        /\ IF MayPrepare(l, t)
           THEN /\ prepared' = [prepared EXCEPT ![l] = @ \cup {t}]
                /\ timer' = [timer EXCEPT ![l] = @ \cup {t}]
                /\ net' = (net \ {m}) \cup Answer("yes", t, l, "UNKNOWN")
                /\ UNCHANGED done
           ELSE /\ done' = [done EXCEPT ![l] = SaveTrans(@, t, "ABORTED")]
                /\ net' = (net \ {m}) \cup Answer("no", t, l, "UNKNOWN")
                /\ UNCHANGED <<prepared, timer>>
        /\ UNCHANGED <<coordVars, change, envVars, dataVars>>

\* Mutant of Finish: the transaction is not erased from m_transactionMap.
FinishKeepsPrepared(l, t, s) ==
    /\ UNCHANGED prepared
    /\ timer' = [timer EXCEPT ![l] = @ \ {t}]
    /\ done' = [done EXCEPT ![l] = SaveTrans(@, t, s)]

\* The end of t at cohort l: the timer is cancelled, the outcome recorded.
Finish(l, t, s) ==
    /\ prepared' = [prepared EXCEPT ![l] = @ \ {t}]
    /\ timer' = [timer EXCEPT ![l] = @ \ {t}]
    /\ done' = [done EXCEPT ![l] = SaveTrans(@, t, s)]

\* An exception of load_state is recorded as an abort.
commit_i(l, t) ==
    IF t \in prepared[l]
    THEN /\ Load(l, t, change[t])
         /\ Finish(l, t, IF validate(store[l], change[t]) THEN "COMMITTED"
                                                          ELSE "ABORTED")
    ELSE UNCHANGED <<cohortVars, dataVars>>

rollback_i(l, t) ==
    IF t \in prepared[l]
    THEN Finish(l, t, "ABORTED") /\ UNCHANGED dataVars
    ELSE UNCHANGED <<cohortVars, dataVars>>

commit(m) ==
    /\ m.type = "commit"
    /\ commit_i(m.loc, m.tx)
    /\ net' = (net \ {m}) \cup Answer("end", m.tx, m.loc, "UNKNOWN")
    /\ UNCHANGED <<coordVars, change, envVars>>

rollback(m) ==
    /\ m.type = "rollback"
    /\ rollback_i(m.loc, m.tx)
    /\ net' = (net \ {m}) \cup Answer("end", m.tx, m.loc, "UNKNOWN")
    /\ UNCHANGED <<coordVars, change, envVars>>

get_transaction_status_i(m) ==
    /\ m.type = "get_status"
    /\ net' = (net \ {m}) \cup
              Answer("status", m.tx, m.loc,
                     IF m.tx \in prepared[m.loc] THEN "PREPARED"
                     ELSE DoneStatus(done[m.loc], m.tx))
    /\ UNCHANGED <<coordVars, change, cohortVars, envVars, dataVars>>

\* Mutant of Resolve: the answer PREPARED is taken for a decision.
ResolvePreparedCommits(l, t, s) ==
    CASE s \in {"PREPARED", "COMMITTED"} -> commit_i(l, t)
      [] s = "ABORTED" -> rollback_i(l, t)
      [] OTHER -> UNCHANGED <<cohortVars, dataVars>>

\* set_transaction_status_i: only a prepared transaction is concerned.
Resolve(l, t, s) ==
    CASE s = "COMMITTED" -> commit_i(l, t)
      [] s = "ABORTED" -> rollback_i(l, t)
      [] OTHER -> UNCHANGED <<cohortVars, dataVars>>

set_transaction_status_i(m) ==
    /\ m.type = "set_status"
    /\ Resolve(m.loc, m.tx, m.status)
    /\ net' = (net \ {m}) \cup
              (IF m.status \in {"COMMITTED", "ABORTED"}
                  /\ m.tx \in prepared[m.loc]
               THEN Answer("end", m.tx, m.loc, "UNKNOWN") ELSE {})
    /\ UNCHANGED <<coordVars, change, envVars>>

\* Mutant of on_timeout: a cohort that hears nothing presumes an abort.
on_timeout_presumes_abort(l, t) ==
    /\ l \in alive \ {active}
    /\ t \in timer[l]
    /\ IF TimelyNetwork THEN ~InFlight(t) ELSE ~Asking(t)
    /\ rollback_i(l, t)
    /\ UNCHANGED <<coordVars, change, envVars, net>>

\* The timer of a prepared transaction expires.  MIOP: the timer is started
\* again and the coordinators are asked.  IIOP: the coordinator is called, its
\* answer is applied at once and the timer is not started again; without a
\* reference to a coordinator nothing happens.  The timer thread of a location
\* that has just become coordinator runs one more round, and asks its own
\* coordinator.
on_timeout(l, t) ==
    /\ l \in alive
    /\ t \in timer[l]
    /\ IF TimelyNetwork THEN ~InFlight(t) ELSE ~Asking(t)
    /\ IF synch
       THEN LET s == IF active = NoLocation THEN "UNKNOWN"
                     ELSE get_transaction_status(t)
            IN  /\ IF s \in {"COMMITTED", "ABORTED"}
                   THEN Resolve(l, t, s)
                   ELSE /\ timer' = [timer EXCEPT ![l] = @ \ {t}]
                        /\ UNCHANGED <<prepared, done, dataVars>>
                /\ UNCHANGED net
       ELSE /\ l # active
            /\ net' = net \cup Answer("ask_status", t, l, "UNKNOWN")
            /\ UNCHANGED <<cohortVars, dataVars>>
    /\ UNCHANGED <<coordVars, change, envVars>>

\* The process of l ends; what has not reached it yet is lost.
EndProcess(l) ==
    /\ alive' = alive \ {l}
    /\ net' = {m \in net : m.type \in Answers \/ m.loc # l}
    /\ prepared' = [prepared EXCEPT ![l] = {}]
    /\ timer' = [timer EXCEPT ![l] = {}]
    /\ UNCHANGED <<coordVars, change, done, dataVars, synch, active, members,
                   failing, losses>>

\* IIOP: the coordinator is dead and its reference has not been erased yet.  The
\* call raises a CORBA system exception, on_timeout catches NotFoundException
\* only, and the exception leaves the timer thread and ends the process.
on_timeout_uncaught(l, t) ==
    /\ synch
    /\ active = NoLocation
    /\ l \in alive
    /\ t \in timer[l]
    /\ IF TimelyNetwork THEN ~InFlight(t) ELSE ~Asking(t)
    /\ EndProcess(l)
    /\ UNCHANGED crashes

---------------------------------------------------------------------------
(* Failures.                                                               *)

Lose(m) ==
    /\ losses < MaxLosses
    /\ losses' = losses + 1
    /\ net' = net \ {m}
    /\ UNCHANGED <<coordVars, change, cohortVars, dataVars, synch, alive,
                   active, members, failing, crashes>>

CrashCohort(l) ==
    /\ crashes < MaxCrashes
    /\ l \in alive \ {active}
    /\ crashes' = crashes + 1
    /\ EndProcess(l)

\* The requests that have left the coordinator may still arrive, the ones
\* that are still queued in it are lost.
CrashCoordinator ==
    /\ crashes < MaxCrashes
    /\ active # NoLocation
    /\ crashes' = crashes + 1
    /\ alive' = alive \ {active}
    /\ active' = NoLocation
    /\ members' = {}
    /\ failing' = NoLocation
    /\ net' \in SUBSET {m \in net : m.type \in Requests}
    /\ caller' = [t \in Tx |-> IF caller[t] \in {"waiting", "committed"}
                               THEN "lost" ELSE caller[t]]
    /\ tstate' = [t \in Tx |-> "NONE"]
    /\ resp' = [t \in Tx |-> NoResponses]
    /\ blockers' = [t \in Tx |-> {}]
    /\ att' = [t \in Tx |-> 0]
    /\ cdone' = <<>>
    /\ prepared' = [prepared EXCEPT ![active] = {}]
    /\ timer' = [timer EXCEPT ![active] = {}]
    /\ UNCHANGED <<change, done, dataVars, synch, losses, decided>>

\* DataStoreContext::on_failure, first half: the engine removes location x
\* from its transactions, which may complete a phase of some of them.
on_failure(x) ==
    /\ active # NoLocation
    /\ failing = NoLocation
    /\ x \in members \ alive
    /\ failing' = x
    /\ LET waits == {t \in Live : x \in DOMAIN resp[t]}
           rs == [t \in Tx |-> [l \in DOMAIN resp[t] \ {x} |-> resp[t][l]]]
       IN  Handled([t \in Tx |-> IF t \in waits
                                 THEN check_status_change(tstate[t], rs[t])
                                 ELSE tstate[t]],
                   rs, net)
    /\ UNCHANGED <<change, cohortVars, dataVars, synch, alive, active,
                   members, losses, crashes>>

\* Second half, after m_transactionMapMutex has been released: the location
\* leaves m_cohortsMap.
EraseLocation ==
    /\ failing # NoLocation
    /\ members' = members \ {failing}
    /\ failing' = NoLocation
    /\ UNCHANGED <<coordVars, change, cohortVars, dataVars, net, synch,
                   alive, active, losses, crashes>>

\* Location l becomes the primary.  Its cohort is deactivated, the
\* transactions it had prepared are recovered by asking the other members
\* (some of which may have failed unnoticed).  Assumption: fault detection is
\* slower than the network, so that nothing the old coordinator sent is still
\* in flight.
activate(l) ==
    /\ active = NoLocation
    /\ l \in alive
    /\ net = {}
    /\ active' = l
    /\ \E unnoticed \in SUBSET (Locations \ (alive \cup {InitialCoordinator})) :
          members' = (alive \ {l}) \cup unnoticed
    /\ tstate' = [t \in Tx |-> IF t \in prepared[l] THEN "RECOVERING"
                                                    ELSE "NONE"]
    /\ resp' = [t \in Tx |-> IF t \in prepared[l]
                             THEN [k \in members' |-> "UNKNOWN"]
                             ELSE NoResponses]
    /\ att' = [t \in Tx |-> IF t \in prepared[l] THEN 1 ELSE 0]
    /\ net' = UNION {Sent(t, "get_status", members', 1) : t \in prepared[l]}
    /\ cdone' = done[l]
    /\ UNCHANGED <<caller, change, blockers, decided, cohortVars, dataVars,
                   synch, alive, failing, losses, crashes>>

---------------------------------------------------------------------------
ToCoordinator(m) ==
    send_yes(m) \/ send_no(m) \/ send_end(m)
        \/ send_set_transaction_status(m) \/ send_get_transaction_status(m)

ToCohort(m) ==
    prepare_i(m) \/ commit(m) \/ rollback(m)
        \/ get_transaction_status_i(m) \/ set_transaction_status_i(m)

Next ==
    \/ \E t \in Tx, c \in Changes : Request(t, c) \/ RequestLocal(t, c)
    \/ \E t \in Tx : LocalApply(t) \/ handle_timeout(t)
    \/ \E m \in net : ToCoordinator(m) \/ ToCohort(m) \/ Lose(m)
    \/ \E l \in Locations, t \in Tx : on_timeout(l, t) \/ on_timeout_uncaught(l, t)
    \/ \E l \in Locations : CrashCohort(l) \/ on_failure(l) \/ activate(l)
    \/ CrashCoordinator
    \/ EraseLocation

Spec == Init /\ [][Next]_vars

\* The worker threads and the ORB deliver what is not lost, a timer that stays
\* armed expires in the end (strong fairness, because TimelyNetwork disables
\* it while other messages pass), and the failure of a location is reported
\* and processed.
Fairness ==
    /\ \A l \in Locations, t \in Tx :
          /\ WF_vars(\E m \in net : /\ m.tx = t
                                    /\ m.loc = l
                                    /\ ToCoordinator(m) \/ ToCohort(m))
          /\ SF_vars(on_timeout(l, t))
    /\ \A t \in Tx : SF_vars(handle_timeout(t)) /\ WF_vars(LocalApply(t))
    /\ \A l \in Locations : WF_vars(on_failure(l))
    /\ WF_vars(EraseLocation)
    /\ WF_vars(\E l \in Locations : activate(l))

FairSpec == Spec /\ Fairness

---------------------------------------------------------------------------
(* Properties.                                                             *)

Backups == alive \ {active}

\* The locations that answer ABORTED to a query of the status of t: a backup
\* by what it has prepared and recorded, the primary by its coordinator.  (A
\* prepare that was refused counts until a later one is accepted.)
Refusers(t) ==
    {l \in Backups : t \notin prepared[l] /\ DoneStatus(done[l], t) = "ABORTED"}
        \cup {l \in alive \cap {active} : get_transaction_status(t) = "ABORTED"}

(* No location answers that a transaction is aborted when a surviving one  *)
(* has loaded its change, however often the coordinator changes.           *)
Agreement ==
    \A t \in Tx : (\E l \in alive : applied[l][t] > 0) => Refusers(t) = {}

(* A replica holds a change only after a decision to commit: neither an    *)
(* old request, nor the answer to a status query, nor a recovery loads the *)
(* change of a transaction that no coordinator decided to commit.          *)
OnlyCommittedIsApplied ==
    \A l \in Locations, t \in Tx :
        applied[l][t] > 0 => "COMMITTED" \in decided[t]

(* What request() told its caller is what happened: after true every       *)
(* backup that is still up has loaded the change, after false none has.    *)
(* (Only without TimerOverlaps: after StatusPutBack a cohort that has      *)
(* loaded the change may refuse the prepare, and the caller is told false.)*)
HonestOutcome ==
    \A t \in Tx :
        /\ caller[t] = "committed" =>
               \A l \in Backups : applied[l][t] > 0
        /\ caller[t] \in {"aborted", "refused"} =>
               \A l \in Locations : applied[l][t] = 0

(* A change that was reported as committed outlives its coordinator: the   *)
(* location activated next has loaded it.                                  *)
CommittedSurvives ==
    \A t \in Tx : caller[t] = "returned" =>
        \A l \in alive : applied[l][t] > 0

(* The engine implements atomic commitment among the survivors.  A caller  *)
(* is told yes when insert, update or remove returns, and nothing if its   *)
(* location crashes first.                                                 *)
AC == INSTANCE AtomicCommit WITH
    up <- alive,
    primary <- active,
    holders <- [t \in Tx |-> {l \in Locations : applied[l][t] > 0}],
    refusers <- [t \in Tx |-> Refusers(t)],
    told <- [t \in Tx |-> CASE caller[t] = "returned" -> "yes"
                            [] caller[t] \in {"aborted", "refused"} -> "no"
                            [] OTHER -> "nothing"]

ImplementsAtomicCommit == AC!Spec

(* A prepared change stays applicable until it is resolved: the catch      *)
(* branch of commit_i, which answers END and records ABORTED, is never     *)
(* taken.                                                                  *)
PreparedStaysApplicable ==
    \A l \in Backups : \A t \in prepared[l] : validate(store[l], change[t])

(* Two transactions that the coordinator has started on touch no common    *)
(* oid.                                                                    *)
ConflictsSerialized ==
    \A t, u \in Live \ {v \in Tx : tstate[v] = "WAITING"} :
        t # u => ~oids_match(change[t], change[u])

Quiescent ==
    /\ Live = {}
    /\ net = {}
    /\ \A l \in Backups : prepared[l] = {}
    /\ \A t \in Tx : caller[t] # "committed"

(* Atomicity: once nothing is pending, a change has been loaded by all the *)
(* surviving locations or by none.                                         *)
AllOrNothing ==
    Quiescent => \A t \in Tx : \/ \A l \in alive : applied[l][t] > 0
                               \/ \A l \in alive : applied[l][t] = 0

(* Once nothing is pending the backups hold the same data: they loaded     *)
(* conflicting changes in the same order.                                  *)
BackupsEqual == Quiescent => \A k, l \in Backups : store[k] = store[l]

(* Once nothing is pending all the replicas hold the same data, the one of *)
(* the primary included.                                                   *)
ReplicasEqual == Quiescent => \A k, l \in alive : store[k] = store[l]

(* A cohort that has recorded a commit never answers a status query with   *)
(* ABORTED.                                                                *)
CommitRecordIsFinal ==
    [][\A l \in Locations, t \in Tx :
          DoneStatus(done[l], t) = "COMMITTED"
              => DoneStatus(done'[l], t) # "ABORTED"]_vars

\* Some transaction waits for a location that has left m_cohortsMap already: it
\* was requested between the two halves of DataStoreContext::on_failure.
WaitsForStranger ==
    failing = NoLocation /\ \E t \in Tx : ~(DOMAIN resp[t] \subseteq members)

(* No request blocks its caller for ever, whether messages are lost or a   *)
(* location fails, unless it (or one it waits for) was issued in the       *)
(* middle of DataStoreContext::on_failure.                                 *)
RequestAnswered ==
    \A t \in Tx : caller[t] = "waiting"
                     ~> (caller[t] # "waiting" \/ WaitsForStranger)

\* Some transaction has no cohort left: no answer can come that would call
\* check_status_change again.
NobodyToAsk == \E t \in Live : resp[t] = NoResponses

(* As long as every transaction has a cohort that is not known to have     *)
(* failed, no request blocks its caller for ever: RequestAnswered without  *)
(* the case of the last cohort.                                            *)
RequestAnsweredByCohorts ==
    \A t \in Tx : caller[t] = "waiting"
                     ~> (caller[t] # "waiting" \/ WaitsForStranger \/ NobodyToAsk)

(* A recovered transaction is decided, unless nobody is left who could be  *)
(* asked: then it is RECOVERING for ever.                                  *)
RecoveryTerminates ==
    \A t \in Tx : tstate[t] = "RECOVERING"
                     ~> (tstate[t] # "RECOVERING" \/ resp[t] = NoResponses)

(* A transaction whose coordinator has failed does not stay prepared at a  *)
(* backup for ever.                                                        *)
OrphanResolved ==
    \A l \in Locations, t \in Tx :
        t \in prepared[l] /\ caller[t] = "lost"
            ~> (t \notin prepared[l] \/ l = active)

(* While the coordinator of a transaction lives no backup keeps the oids   *)
(* reserved for ever.                                                      *)
PreparedResolved ==
    \A l \in Locations, t \in Tx :
        t \in prepared[l] ~> \/ t \notin prepared[l]
                             \/ caller[t] = "lost"
                             \/ WaitsForStranger
=============================================================================
