---------------------------- MODULE StateTransfer ----------------------------
(***************************************************************************)
(* A new backup joins: DataStoreContext::update_with_coordinator at the    *)
(* joining location pulls the data of the primary through a                *)
(* RecordIterator_impl, which drives one DataStoreRecordIterator, while    *)
(* client threads of the primary go on calling insert, update and remove.  *)
(*                                                                         *)
(* The iterator starts with an insertion per oid and is told of every      *)
(* change as a backup observer; it keeps the changes that the joining      *)
(* location still lacks in m_map and m_updates.  A step is what runs under *)
(* one lock: the records are taken under the iterator's mutex, but encoded *)
(* one by one with a read lock of the data only.                           *)
(*                                                                         *)
(* A record is loaded by the joining location when it is encoded here: the *)
(* joining location does nothing else before destroy() has returned, and   *)
(* nobody reads its data.  The two-phase commit of a client's request is   *)
(* one step (TwoPhaseCommit has its details).  Clients that change the     *)
(* same oid take turns.                                                    *)
(*                                                                         *)
(* What is exclusive by a lock is one step, and what waits for a lock is   *)
(* delayed here only by m_cohorts_mutex and by destroy()'s hold of the     *)
(* iterator's mutex.  The read/write lock of the data and                  *)
(* m_transactionMapMutex delay more in the code: the steps below are all   *)
(* the code's steps and some orders that these locks forbid, so that the   *)
(* safety properties carry over.  Whether destroy() ever returns depends   *)
(* on these locks, and is not stated.                                      *)
(***************************************************************************)
EXTENDS Integers, FiniteSets

CONSTANTS
    Clients,             \* application threads of the primary
    Oids,
    InitialOids,
    IteratorIncrement,   \* m_iterator_increment
    FreezeThreshold,     \* m_freeze_threshold
    MaxOps               \* bound: number of client operations

ASSUME ConstantsAssumption ==
    /\ IsFiniteSet(Oids)
    /\ Oids # {}
    /\ InitialOids \subseteq Oids
    /\ IteratorIncrement \in Nat \ {0}
    /\ FreezeThreshold \in Nat
    /\ MaxOps \in Nat

VARIABLES
    miop,                \* m_is_miop: cohorts are reached by multicast
    others,              \* there are backups besides the joining location
    member,              \* the joining location is in m_cohortsMap
    refKnown,            \* ... and in m_transactionEngineRefMap
    data,                \* m_data of the primary
    jdata,               \* m_data of the joining location
    pc, op, withJ,       \* each client: where it is, its operation, whether
                         \* its transaction has the joining location as cohort
    ops,                 \* number of operations started
    tstep,               \* where the transfer is
    map, updates,        \* m_map and m_updates of the iterator
    batch,               \* the records taken and not yet encoded
    needed,              \* records the current next_n may still return
    remaining,           \* what DataStoreRecordIterator::next_n returned
    registered,          \* the iterator is in m_backup_observers
    iterKnown,           \* the iterator is in m_iter_map of the data store
    destroyed,           \* m_is_destroyed of the iterator
    iterFrozen,          \* m_frozen of RecordIterator_impl
    frozen               \* m_freeze_locations is not empty

clientVars == <<pc, op, withJ, ops>>
iterVars == <<map, updates, batch>>
pullVars == <<needed, remaining, iterFrozen>>
statusVars == <<registered, iterKnown, destroyed>>
memberVars == <<miop, others, member, refKnown>>
vars == <<memberVars, data, jdata, clientVars, tstep, iterVars, pullVars,
          statusVars, frozen>>

Absent == MaxOps + 1
Values == 0 .. MaxOps + 1
Kinds == {"INSERTION", "UPDATE", "REMOVAL"}
Operations == [kind : Kinds, oid : Oids, val : 0 .. MaxOps]
TransferSteps == {"none", "call", "take", "encode", "wait", "measure",
                  "measure_map", "measure_updates", "freeze",
                  "destroy", "adding", "cleanup", "add_ref", "unfreeze",
                  "joined", "failed", "terminated"}
ClientSteps == {"idle", "frozen", "entered", "requesting", "running",
                "committed", "aborted", "local"}

(* One type invariant.                                                     *)
TypeOK ==
    /\ miop \in BOOLEAN /\ others \in BOOLEAN
    /\ member \in BOOLEAN /\ refKnown \in BOOLEAN
    /\ registered \in BOOLEAN /\ iterKnown \in BOOLEAN
    /\ destroyed \in BOOLEAN
    /\ iterFrozen \in BOOLEAN /\ frozen \in BOOLEAN
    /\ data \in [Oids -> Values]
    /\ jdata \in [Oids -> Values]
    /\ pc \in [Clients -> ClientSteps]
    /\ op \in [Clients -> Operations]
    /\ withJ \in [Clients -> BOOLEAN]
    /\ ops \in 0 .. MaxOps
    /\ tstep \in TransferSteps
    /\ map \in [Oids -> {"NONE", "INSERTION", "REMOVAL"}]
    /\ updates \subseteq Oids
    /\ batch \in [Oids -> Kinds \cup {"NONE"}]
    /\ needed \in 0 .. IteratorIncrement
    /\ remaining \in Nat

Init ==
    /\ miop \in BOOLEAN
    /\ others \in BOOLEAN
    /\ member = FALSE
    /\ refKnown = FALSE
    /\ data = [o \in Oids |-> IF o \in InitialOids THEN 0 ELSE Absent]
    /\ jdata = [o \in Oids |-> Absent]
    /\ pc = [c \in Clients |-> "idle"]
    /\ op = [c \in Clients |-> [kind |-> "UPDATE", val |-> 0,
                                oid |-> CHOOSE o \in Oids : TRUE]]
    /\ withJ = [c \in Clients |-> FALSE]
    /\ ops = 0
    /\ tstep = "none"
    /\ map = [o \in Oids |-> "NONE"]
    /\ updates = {}
    /\ batch = [o \in Oids |-> "NONE"]
    /\ needed = 0
    /\ remaining = 0
    /\ registered = FALSE
    /\ iterKnown = FALSE
    /\ destroyed = FALSE
    /\ iterFrozen = FALSE
    /\ frozen = FALSE

Up == tstep # "terminated"

\* An operation may be applied to the data d: the oid is absent (insertion) or
\* present (update, removal).
Applicable(d, r) == (r.kind = "INSERTION") <=> (d[r.oid] = Absent)

Applied(d, r) ==
    [d EXCEPT ![r.oid] = IF r.kind = "REMOVAL" THEN Absent ELSE r.val]

---------------------------------------------------------------------------
(* The clients of the primary.                                             *)

\* A thread enters insert, update or remove: freeze_check lets it pass or
\* starts the timer of the freeze and blocks it.
Enter(c, k, o) ==
    /\ pc[c] = "idle"
    /\ ops < MaxOps
    /\ \A d \in Clients : pc[d] # "idle" => op[d].oid # o
    /\ ops' = ops + 1
    /\ op' = [op EXCEPT ![c] = [kind |-> k, oid |-> o, val |-> ops + 1]]
    /\ pc' = [pc EXCEPT ![c] = IF frozen THEN "frozen" ELSE "entered"]
    /\ UNCHANGED <<withJ, memberVars, data, jdata, tstep, iterVars, pullVars,
                   statusVars, frozen>>

\* freeze_check returns after unfreeze or the timeout.
Thaw(c) ==
    /\ pc[c] = "frozen"
    /\ ~frozen
    /\ pc' = [pc EXCEPT ![c] = "entered"]
    /\ UNCHANGED <<op, withJ, ops, memberVars, data, jdata, tstep, iterVars,
                   pullVars, statusVars, frozen>>

\* get_locations(dsid).empty(): the change is only local, or a transaction.
Route(c) ==
    /\ pc[c] = "entered"
    /\ pc' = [pc EXCEPT ![c] = IF others \/ member THEN "requesting"
                                                   ELSE "local"]
    /\ UNCHANGED <<op, withJ, ops, memberVars, data, jdata, tstep, iterVars,
                   pullVars, statusVars, frozen>>

\* m_current_transaction_number counts these.
Counted == {c \in Clients : pc[c] \in {"running", "committed", "aborted"}}

\* request(): the transaction is counted, the change is validated, the
\* TransactionCoordinator takes the locations of this moment as cohorts and a
\* read lock of m_cohorts_mutex.  The write lock of m_transactionMapMutex, held
\* throughout, and the read lock of the data in validate are released within.
Request(c) ==
    /\ pc[c] = "requesting"
    /\ IF Applicable(data, op[c])
       THEN /\ pc' = [pc EXCEPT ![c] = "running"]
            /\ withJ' = [withJ EXCEPT ![c] = member]
       ELSE /\ pc' = [pc EXCEPT ![c] = "idle"]
            /\ UNCHANGED withJ
    /\ UNCHANGED <<op, ops, memberVars, data, jdata, tstep, iterVars, pullVars,
                   statusVars, frozen>>

\* Over IIOP a prepare cannot be sent to a location without a reference.
Reachable(c) == withJ[c] => miop \/ refKnown

\* The cohorts commit or abort; the transaction is deleted and its lock of
\* m_cohorts_mutex released.  request() has not returned yet.
Commit(c) ==
    /\ pc[c] = "running"
    /\ Reachable(c)
    /\ withJ[c] => Applicable(jdata, op[c])
    /\ pc' = [pc EXCEPT ![c] = "committed"]
    /\ jdata' = IF withJ[c] THEN Applied(jdata, op[c]) ELSE jdata
    /\ UNCHANGED <<op, withJ, ops, memberVars, data, tstep, iterVars, pullVars,
                   statusVars, frozen>>

Abort(c) ==
    /\ pc[c] = "running"
    /\ Reachable(c)
    /\ pc' = [pc EXCEPT ![c] = "aborted"]
    /\ UNCHANGED <<op, withJ, ops, memberVars, data, jdata, tstep, iterVars,
                   pullVars, statusVars, frozen>>

\* request() returns, and the destructor of TransactionCounterGuard counts the
\* transaction out.  After a commit the caller is about to apply its change.
Return(c) ==
    /\ pc[c] \in {"committed", "aborted"}
    /\ pc' = [pc EXCEPT ![c] = IF pc[c] = "committed" THEN "local" ELSE "idle"]
    /\ UNCHANGED <<op, withJ, ops, memberVars, data, jdata, tstep, iterVars,
                   pullVars, statusVars, frozen>>

---------------------------------------------------------------------------
(* The callbacks of the iterator.                                          *)

\* Mutant of on_insert: an oid that was removed before becomes an insertion.
on_insert_again(o) ==
    /\ map' = [map EXCEPT ![o] = "INSERTION"]
    /\ UNCHANGED updates

on_insert(o) ==
    IF map[o] # "NONE"
    THEN /\ map' = [map EXCEPT ![o] = "NONE"]
         /\ updates' = updates \cup {o}
    ELSE /\ map' = [map EXCEPT ![o] = "INSERTION"]
         /\ UNCHANGED updates

\* Mutant of on_update: an oid without an entry is taken for one not yet sent.
on_update_unsent(o) == UNCHANGED <<map, updates>>

on_update(o) ==
    /\ updates' = IF map[o] = "NONE" THEN updates \cup {o} ELSE updates
    /\ UNCHANGED map

on_remove(o) ==
    IF map[o] = "INSERTION"
    THEN /\ map' = [map EXCEPT ![o] = "NONE"]
         /\ UNCHANGED updates
    ELSE /\ map' = [map EXCEPT ![o] = "REMOVAL"]
         /\ updates' = updates \ {o}

\* The loop over the observers.
Callback(r) ==
    \/ r.kind = "INSERTION" /\ on_insert(r.oid)
    \/ r.kind = "UPDATE" /\ on_update(r.oid)
    \/ r.kind = "REMOVAL" /\ on_remove(r.oid)

\* insert_local, update_local or remove_local: the data is changed and the
\* observers are called under the write lock of the data.  destroy() holds the
\* iterator's mutex, which the callbacks need; the write lock of the data that
\* is held while one waits for it is not modelled.  A change that does not
\* apply throws.
LocalApply(c) ==
    /\ pc[c] = "local"
    /\ registered => tstep \notin {"adding", "cleanup"}
    /\ pc' = [pc EXCEPT ![c] = "idle"]
    /\ IF Applicable(data, op[c])
       THEN /\ data' = Applied(data, op[c])
            /\ IF registered THEN Callback(op[c])
                             ELSE UNCHANGED <<map, updates>>
       ELSE UNCHANGED <<data, map, updates>>
    /\ UNCHANGED <<op, withJ, ops, memberVars, jdata, tstep, batch, pullVars,
                   statusVars, frozen>>

---------------------------------------------------------------------------
(* The transfer.                                                           *)

get_record_iterator ==
    /\ tstep = "none"
    /\ tstep' = "call"
    /\ map' = [o \in Oids |-> IF data[o] = Absent THEN "NONE"
                                                  ELSE "INSERTION"]
    /\ registered' = TRUE
    /\ iterKnown' = TRUE
    /\ UNCHANGED <<memberVars, data, jdata, clientVars, updates, batch,
                   pullVars, destroyed, frozen>>

\* RecordIterator_impl::next_n is called for the next IteratorIncrement
\* records, or the joining location fails in between.
next_n ==
    /\ tstep = "call"
    /\ tstep' = "take"
    /\ needed' = IteratorIncrement
    /\ UNCHANGED <<memberVars, data, jdata, clientVars, iterVars, remaining,
                   iterFrozen, statusVars, frozen>>

JoinerFails ==
    /\ tstep \in {"call", "destroy"}
    /\ tstep' = "failed"
    /\ UNCHANGED <<memberVars, data, jdata, clientVars, iterVars, pullVars,
                   statusVars, frozen>>

Marked == {o \in Oids : map[o] # "NONE"}

\* At most n elements of S, as many as there are.
Choice(S, n) == {T \in SUBSET S : Cardinality(T) = IF Cardinality(S) < n
                                                   THEN Cardinality(S) ELSE n}

\* Mutant of Take: every oid of m_updates is taken, however many are wanted.
TakeAllUpdates ==
    /\ tstep = "take"
    /\ ~destroyed
    /\ \E T \in Choice(Marked, needed) :
          /\ batch' = [o \in Oids |-> IF o \in T THEN map[o]
                                      ELSE IF o \in updates THEN "UPDATE"
                                      ELSE "NONE"]
          /\ map' = [o \in Oids |-> IF o \in T THEN "NONE" ELSE map[o]]
          /\ needed' = needed - Cardinality(T) - Cardinality(updates)
    /\ tstep' = "encode"
    /\ updates' = {}
    /\ UNCHANGED <<memberVars, data, jdata, clientVars, remaining, iterFrozen,
                   statusVars, frozen>>

\* DataStoreRecordIterator::next_n, first critical section.  A destroyed
\* iterator throws, and the joining location exits.
Take ==
    /\ tstep = "take"
    /\ IF destroyed
       THEN /\ tstep' = "failed"
            /\ UNCHANGED <<iterVars, needed>>
       ELSE \E T \in Choice(Marked, needed) :
            \E U \in Choice(updates, needed - Cardinality(T)) :
               /\ tstep' = "encode"
               /\ batch' = [o \in Oids |-> IF o \in T THEN map[o]
                                           ELSE IF o \in U THEN "UPDATE"
                                           ELSE "NONE"]
               /\ map' = [o \in Oids |-> IF o \in T THEN "NONE" ELSE map[o]]
               /\ updates' = updates \ U
               /\ needed' = needed - Cardinality(T) - Cardinality(U)
    /\ UNCHANGED <<memberVars, data, jdata, clientVars, remaining, iterFrozen,
                   statusVars, frozen>>

\* A record is encoded with the data of this moment.  When its oid has been
\* removed since it was taken, select throws NotFoundException, which the
\* exception specification of next_n turns into the end of the process.
Encode(o) ==
    /\ tstep = "encode"
    /\ batch[o] # "NONE"
    /\ IF batch[o] # "REMOVAL" /\ data[o] = Absent
       THEN tstep' = "terminated" /\ UNCHANGED <<batch, jdata>>
       ELSE /\ batch' = [batch EXCEPT ![o] = "NONE"]
            /\ jdata' = [jdata EXCEPT ![o] = IF batch[o] = "REMOVAL"
                                             THEN Absent ELSE data[o]]
            /\ UNCHANGED tstep
    /\ UNCHANGED <<memberVars, data, clientVars, map, updates, pullVars,
                   statusVars, frozen>>

\* Second critical section: is there more?
CheckMore ==
    /\ tstep = "encode"
    /\ \A o \in Oids : batch[o] = "NONE"
    /\ tstep' = IF Marked = {} /\ updates = {} THEN "wait" ELSE "measure"
    /\ UNCHANGED <<memberVars, data, jdata, clientVars, iterVars, pullVars,
                   statusVars, frozen>>

wait_for_no_transactions_in_progress ==
    /\ tstep = "wait"
    /\ others \/ member => Counted = {}
    /\ tstep' = "measure"
    /\ UNCHANGED <<memberVars, data, jdata, clientVars, iterVars, pullVars,
                   statusVars, frozen>>

\* return m_map.size() + m_updates.size(): two reads without the mutex, in the
\* order the compiler likes.
Measure ==
    /\ tstep = "measure"
    /\ \/ remaining' = Cardinality(Marked) /\ tstep' = "measure_updates"
       \/ remaining' = Cardinality(updates) /\ tstep' = "measure_map"
    /\ UNCHANGED <<memberVars, data, jdata, clientVars, iterVars, needed,
                   iterFrozen, statusVars, frozen>>

MeasureOther ==
    /\ tstep \in {"measure_map", "measure_updates"}
    /\ remaining' = remaining + Cardinality(IF tstep = "measure_map"
                                            THEN Marked ELSE updates)
    /\ tstep' = "freeze"
    /\ UNCHANGED <<memberVars, data, jdata, clientVars, iterVars, needed,
                   iterFrozen, statusVars, frozen>>

\* RecordIterator_impl::next_n freezes the data store when little remains, and
\* goes on, returns for the next call, or returns the last records.
Freeze ==
    /\ tstep = "freeze"
    /\ LET now == ~iterFrozen /\ remaining <= FreezeThreshold
       IN  /\ iterFrozen' = (iterFrozen \/ now)
           /\ frozen' = (frozen \/ now)
    /\ tstep' = IF remaining = 0 THEN "destroy"
                ELSE IF needed > 0 THEN "take" ELSE "call"
    /\ UNCHANGED <<memberVars, data, jdata, clientVars, iterVars, needed,
                   remaining, statusVars>>

\* RecordIterator_impl::destroy calls DataStoreRecordIterator::destroy, which
\* does nothing for an iterator that a timeout has cleaned up already.
Destroy ==
    /\ tstep = "destroy"
    /\ tstep' = IF destroyed THEN "add_ref" ELSE "adding"
    /\ UNCHANGED <<memberVars, data, jdata, clientVars, iterVars, pullVars,
                   statusVars, frozen>>

\* Every TransactionCoordinator holds a read lock of m_cohorts_mutex.
NoTransactions == \A c \in Clients : pc[c] # "running"

\* iterator_finished, under the write lock of m_cohorts_mutex
add_location ==
    /\ tstep = "adding"
    /\ NoTransactions
    /\ tstep' = "cleanup"
    /\ member' = TRUE
    /\ iterKnown' = FALSE
    /\ UNCHANGED <<miop, others, refKnown, data, jdata, clientVars, iterVars,
                   pullVars, registered, destroyed, frozen>>

cleanup ==
    /\ tstep = "cleanup"
    /\ tstep' = "add_ref"
    /\ registered' = FALSE
    /\ destroyed' = TRUE
    /\ UNCHANGED <<memberVars, data, jdata, clientVars, iterVars, pullVars,
                   iterKnown, frozen>>

add_ref_for_location ==
    /\ tstep = "add_ref"
    /\ NoTransactions
    /\ tstep' = "unfreeze"
    /\ refKnown' = ~miop
    /\ UNCHANGED <<miop, others, member, data, jdata, clientVars, iterVars,
                   pullVars, statusVars, frozen>>

unfreeze ==
    /\ tstep = "unfreeze"
    /\ tstep' = "joined"
    /\ frozen' = (frozen /\ ~iterFrozen)
    /\ UNCHANGED <<memberVars, data, jdata, clientVars, iterVars, pullVars,
                   statusVars>>

\* Mutant of invoke_timeouts: m_freeze_locations is not cleared.
invoke_timeouts_still_frozen ==
    /\ \E c \in Clients : pc[c] = "frozen"
    /\ frozen
    /\ iterKnown
    /\ registered' = FALSE
    /\ destroyed' = TRUE
    /\ iterKnown' = FALSE
    /\ UNCHANGED <<memberVars, data, jdata, clientVars, iterVars, pullVars,
                   tstep, frozen>>

\* The timer of a blocked client expires: the transfer is given up.  An
\* iterator that iterator_finished has just erased from m_iter_map is a null
\* pointer here.
invoke_timeouts ==
    /\ \E c \in Clients : pc[c] = "frozen"
    /\ frozen
    /\ IF iterKnown
       THEN /\ registered' = FALSE
            /\ destroyed' = TRUE
            /\ iterKnown' = FALSE
            /\ frozen' = FALSE
            /\ UNCHANGED tstep
       ELSE /\ tstep' = "terminated"
            /\ UNCHANGED <<statusVars, frozen>>
    /\ UNCHANGED <<memberVars, data, jdata, clientVars, iterVars, pullVars>>

---------------------------------------------------------------------------
Client(c) ==
    \/ Thaw(c) \/ Route(c) \/ Request(c) \/ Commit(c) \/ Abort(c)
    \/ Return(c) \/ LocalApply(c)

Transfer ==
    \/ next_n \/ Take \/ CheckMore \/ wait_for_no_transactions_in_progress
    \/ Measure \/ MeasureOther \/ Freeze \/ Destroy \/ add_location \/ cleanup
    \/ add_ref_for_location \/ unfreeze
    \/ \E o \in Oids : Encode(o)

Next ==
    /\ Up
    /\ \/ \E c \in Clients, k \in Kinds, o \in Oids : Enter(c, k, o)
       \/ \E c \in Clients : Client(c)
       \/ get_record_iterator
       \/ Transfer
       \/ JoinerFails
       \/ invoke_timeouts

Spec == Init /\ [][Next]_vars

\* A thread inside a call goes on when nothing blocks it, and the timer of a
\* blocked client expires in the end.
Fairness ==
    /\ \A c \in Clients : WF_vars(Up /\ Client(c))
    /\ WF_vars(Up /\ Transfer)
    /\ WF_vars(Up /\ invoke_timeouts)

FairSpec == Spec /\ Fairness

---------------------------------------------------------------------------
(* Properties.                                                             *)

(* While the iterator observes the data store nothing is forgotten: where  *)
(* the joining location differs from the primary, a record for the oid is  *)
(* in m_map, in m_updates or on its way.                                   *)
NothingForgotten ==
    registered /\ ~member =>
        \A o \in Oids : jdata[o] # data[o] =>
            map[o] # "NONE" \/ o \in updates \/ batch[o] # "NONE"

(* Every record the joining location is sent can be loaded: an insertion   *)
(* only for an oid it does not have, an update or a removal only for one   *)
(* it has.  Otherwise load_state throws and the location exits.            *)
RecordsLoadable ==
    \A o \in Oids : batch[o] # "NONE" =>
        ((batch[o] = "INSERTION") <=> (jdata[o] = Absent))

(* A transfer that has succeeded leaves the new backup with the data of    *)
(* the primary once the clients are through: what TestStateTransfer checks *)
(* with equivalent() after a transfer during inserts and during updates.   *)
TransferExact ==
    tstep = "joined" /\ member /\ (\A c \in Clients : pc[c] = "idle")
        => jdata = data

(* A client that is blocked by a freeze goes on, whether the joining       *)
(* location finishes or fails.                                             *)
FrozenReleased ==
    \A c \in Clients : pc[c] = "frozen" ~> (pc[c] # "frozen" \/ ~Up)
=============================================================================
