----------------------------- MODULE TxDataStore -----------------------------
(***************************************************************************)
(* TXManager and the TXDataStores it manages, at the primary.  A thread's  *)
(* changes stay in thread-specific storage until commit sends them as one  *)
(* request to the backups and, if these agree, flushes them to the data    *)
(* stores, record by record and outside TXManager's mutex.                 *)
(*                                                                         *)
(* Oids stands for the pairs of a data store and an oid; m_set, the stores *)
(* that commit, rollback and flush go through, contains every store with a *)
(* change, so that going through it is going through the changes.  The     *)
(* two-phase commit is one step here; TwoPhaseCommit shows its inside.     *)
(* A call that throws before it has changed anything is no step.           *)
(***************************************************************************)
EXTENDS Integers, FiniteSets

CONSTANTS
    Threads,
    Oids,
    Data,
    Absent,              \* the data of an oid that is not in the store
    WriteSet,            \* the oids that a thread changes
    MaxRevived           \* bound: updates of removed oids in one transaction

\* TXManager isolates nothing: threads that change the same oids have to
\* exclude each other, which is to say that they are one thread here.
ASSUME ConstantsAssumption ==
    /\ Absent \notin Data
    /\ WriteSet \in [Threads -> SUBSET Oids]
    /\ \A t, u \in Threads : t # u => WriteSet[t] \cap WriteSet[u] = {}
    /\ MaxRevived \in Nat

Kinds == {"INSERTION", "UPDATE", "REMOVAL"}
NoChange == "NONE"       \* the oid is not in m_change_map

VARIABLES
    store,               \* m_data of the primary's data stores
    copy,                \* ... of the backups'
    replicated,          \* get_locations is not empty
    phase,               \* thread: m_level 0, m_level 1, in the flush of commit
    kind, data,          \* ... m_change_map and m_data_map
    adjustment,          \* ... m_size_adjustment
    unflushed,           \* ... the changes that its flush has not reached
    revived,             \* ... number of updates of removed oids (history)
    terminated           \* an exception has left commit against its throw()

cacheVars == <<kind, data, adjustment, revived>>
vars == <<store, copy, replicated, phase, cacheVars, unflushed, terminated>>

Init ==
    /\ store = [o \in Oids |-> Absent] /\ copy = store
    /\ replicated = TRUE
    /\ phase = [t \in Threads |-> "idle"]
    /\ kind = [t \in Threads |-> [o \in Oids |-> NoChange]]
    /\ data = [t \in Threads |-> [o \in Oids |-> Absent]]
    /\ adjustment = [t \in Threads |-> 0] /\ revived = adjustment
    /\ unflushed = [t \in Threads |-> {}]
    /\ terminated = FALSE

-----------------------------------------------------------------------------
(* What a thread reads.                                                    *)

Changed(t) == {o \in Oids : kind[t][o] # NoChange}

\* The record of get_change for an oid.
Change(t, o) == IF kind[t][o] = "REMOVAL" THEN Absent ELSE data[t][o]

select(t, o) == IF kind[t][o] = NoChange THEN store[o] ELSE Change(t, o)

contains(t, o) ==
    IF kind[t][o] = NoChange THEN store[o] # Absent ELSE kind[t][o] # "REMOVAL"

Stored == {o \in Oids : store[o] # Absent}

size(t) == Cardinality(Stored) + adjustment[t]

\* Mutant of do_for_each: AdjustFunc passes on what has been removed.
ForEachKeepsRemoved(t) == Stored \cup {o \in Oids : kind[t][o] = "INSERTION"}

\* The insertions, and what AdjustFunc passes on of the data store.
do_for_each(t) ==
    {o \in Stored : kind[t][o] \in {NoChange, "UPDATE"}}
        \cup {o \in Oids : kind[t][o] = "INSERTION"}

-----------------------------------------------------------------------------
(* The operations of TXDataStore in a transaction.                         *)

\* Mutant of insert: only a new oid is counted.
InsertCountsNew(t, o, d) ==
    /\ phase[t] = "open"
    /\ ~contains(t, o)
    /\ kind' = [kind EXCEPT ![t][o] = IF @ = NoChange THEN "INSERTION" ELSE "UPDATE"]
    /\ data' = [data EXCEPT ![t][o] = d]
    /\ adjustment' = [adjustment EXCEPT ![t] = IF kind[t][o] = NoChange THEN @ + 1 ELSE @]
    /\ UNCHANGED <<store, copy, replicated, phase, unflushed, revived, terminated>>

insert(t, o, d) ==
    /\ phase[t] = "open"
    /\ ~contains(t, o)
    /\ kind' = [kind EXCEPT ![t][o] = IF @ = NoChange THEN "INSERTION" ELSE "UPDATE"]
    /\ data' = [data EXCEPT ![t][o] = d]
    /\ adjustment' = [adjustment EXCEPT ![t] = @ + 1]
    /\ UNCHANGED <<store, copy, replicated, phase, unflushed, revived, terminated>>

\* An oid that the transaction has removed is there again, uncounted: that it is
\* to be found is tested for the oids without a change only.
update(t, o, d) ==
    /\ phase[t] = "open"
    /\ contains(t, o) \/ kind[t][o] = "REMOVAL"
    /\ kind[t][o] = "REMOVAL" => revived[t] < MaxRevived
    /\ kind' = [kind EXCEPT ![t][o] = IF @ = "INSERTION" THEN @ ELSE "UPDATE"]
    /\ data' = [data EXCEPT ![t][o] = d]
    /\ revived' = [revived EXCEPT ![t] = IF kind[t][o] = "REMOVAL" THEN @ + 1 ELSE @]
    /\ UNCHANGED <<store, copy, replicated, phase, adjustment, unflushed, terminated>>

\* The entry that stays in m_data_map is never read again: it is dropped here.
RemoveAs(t, o, k) ==
    /\ phase[t] = "open"
    /\ contains(t, o)
    /\ kind' = [kind EXCEPT ![t][o] = k]
    /\ data' = [data EXCEPT ![t][o] = Absent]
    /\ adjustment' = [adjustment EXCEPT ![t] = @ - 1]
    /\ UNCHANGED <<store, copy, replicated, phase, unflushed, revived, terminated>>

\* Mutants of remove: an insertion is removed at commit; it is not erased.
RemoveInsertion(t, o) == RemoveAs(t, o, "REMOVAL")
RemoveKeepsInsertion(t, o) ==
    RemoveAs(t, o, IF kind[t][o] = "INSERTION" THEN "INSERTION" ELSE "REMOVAL")

remove(t, o) ==
    RemoveAs(t, o, IF kind[t][o] = "INSERTION" THEN NoChange ELSE "REMOVAL")

clear_cache(t) ==
    /\ kind' = [kind EXCEPT ![t] = [o \in Oids |-> NoChange]]
    /\ data' = [data EXCEPT ![t] = [o \in Oids |-> Absent]]
    /\ adjustment' = [adjustment EXCEPT ![t] = 0]
    /\ revived' = [revived EXCEPT ![t] = 0]

-----------------------------------------------------------------------------
(* The operations of TXManager.                                            *)

begin(t) ==
    /\ phase[t] = "idle"
    /\ phase' = [phase EXCEPT ![t] = "open"]
    /\ UNCHANGED <<store, copy, replicated, cacheVars, unflushed, terminated>>

\* A change fits a store: insert_local, update_local, remove_local will not throw.
Fits(t, o, m) == kind[t][o] = "INSERTION" <=> m[o] = Absent

validate(t, m) == \A o \in Changed(t) : Fits(t, o, m)

\* Mutant of CommitRefused: doLocal is ignored.
CommitRefusedFlushes(t) ==
    /\ phase[t] = "open"
    /\ replicated
    /\ validate(t, store)
    /\ phase' = [phase EXCEPT ![t] = "flushing"]
    /\ unflushed' = [unflushed EXCEPT ![t] = Changed(t)]
    /\ UNCHANGED <<store, copy, replicated, cacheVars, terminated>>

\* The request is refused: the transaction ends and the changes stay.
CommitRefused(t) ==
    /\ phase[t] = "open"
    /\ replicated
    /\ validate(t, store)
    /\ phase' = [phase EXCEPT ![t] = "idle"]
    /\ UNCHANGED <<store, copy, replicated, cacheVars, unflushed, terminated>>

\* Mutant of CommitAccepted: flush passes over the removals.
CommitForgetsRemovals(t) ==
    /\ phase[t] = "open"
    /\ replicated => validate(t, store) /\ validate(t, copy)
    /\ copy' = IF replicated
               THEN [o \in Oids |-> IF o \in Changed(t) THEN Change(t, o) ELSE copy[o]]
               ELSE copy
    /\ phase' = [phase EXCEPT ![t] = "flushing"]
    /\ unflushed' = [unflushed EXCEPT ![t] = {o \in Changed(t) : kind[t][o] # "REMOVAL"}]
    /\ UNCHANGED <<store, replicated, cacheVars, terminated>>

\* The request has been committed, or there is no backup to ask.
CommitAccepted(t) ==
    /\ phase[t] = "open"
    /\ replicated => validate(t, store) /\ validate(t, copy)
    /\ copy' = IF replicated
               THEN [o \in Oids |-> IF o \in Changed(t) THEN Change(t, o) ELSE copy[o]]
               ELSE copy
    /\ phase' = [phase EXCEPT ![t] = "flushing"]
    /\ unflushed' = [unflushed EXCEPT ![t] = Changed(t)]
    /\ UNCHANGED <<store, replicated, cacheVars, terminated>>

\* One record of flush, in any order, as the stores are ordered by address.
FlushRecord(t, o) ==
    /\ o \in unflushed[t]
    /\ IF Fits(t, o, store)
       THEN /\ store' = [store EXCEPT ![o] = Change(t, o)]
            /\ unflushed' = [unflushed EXCEPT ![t] = @ \ {o}]
            /\ UNCHANGED terminated
       ELSE terminated' = TRUE /\ UNCHANGED <<store, unflushed>>
    /\ UNCHANGED <<copy, replicated, phase, cacheVars>>

\* The end of flush and of commit.
CommitReturns(t) ==
    /\ phase[t] = "flushing"
    /\ unflushed[t] = {}
    /\ clear_cache(t)
    /\ phase' = [phase EXCEPT ![t] = "idle"]
    /\ UNCHANGED <<store, copy, replicated, unflushed, terminated>>

rollback(t) ==
    /\ phase[t] = "open"
    /\ clear_cache(t)
    /\ phase' = [phase EXCEPT ![t] = "idle"]
    /\ UNCHANGED <<store, copy, replicated, unflushed, terminated>>

\* The last backup has failed.
LoseBackups ==
    /\ replicated
    /\ replicated' = FALSE
    /\ UNCHANGED <<store, copy, phase, cacheVars, unflushed, terminated>>

Step(t) ==
    \/ begin(t)
    \/ \E o \in WriteSet[t] :
          \/ \E d \in Data : insert(t, o, d) \/ update(t, o, d)
          \/ remove(t, o)
    \/ CommitRefused(t) \/ CommitAccepted(t)
    \/ \E o \in Oids : FlushRecord(t, o)
    \/ CommitReturns(t)
    \/ rollback(t)

Next == ~terminated /\ (LoseBackups \/ \E t \in Threads : Step(t))

Spec == Init /\ [][Next]_vars

-----------------------------------------------------------------------------
TypeOK ==
    /\ store \in [Oids -> Data \cup {Absent}] /\ copy \in [Oids -> Data \cup {Absent}]
    /\ replicated \in BOOLEAN /\ terminated \in BOOLEAN
    /\ phase \in [Threads -> {"idle", "open", "flushing"}]
    /\ kind \in [Threads -> [Oids -> Kinds \cup {NoChange}]]
    /\ data \in [Threads -> [Oids -> Data \cup {Absent}]]
    /\ adjustment \in [Threads -> Int] /\ revived \in [Threads -> 0 .. MaxRevived]
    /\ unflushed \in [Threads -> SUBSET Oids]
    /\ \A t \in Threads : \A o \in Oids :
          kind[t][o] \in {"INSERTION", "UPDATE"} => data[t][o] \in Data

\* Once the backups have agreed, flush does not throw: the kinds of a thread's
\* changes fit the store through refused commits, rollbacks and the flushes of
\* the others.  An exception would leave the transaction half applied, and end
\* the process, since commit declares throw (NoTransactionException).
FlushNeverThrows == ~terminated

\* The contents of the store once every flush that has started is done.
Writer(o) == CHOOSE t \in Threads : o \in WriteSet[t]

Committed ==
    [o \in Oids |-> IF \E t \in Threads : o \in unflushed[t]
                    THEN Change(Writer(o), o) ELSE store[o]]

\* The backups hold what the primary's flushes are going to make of its store.
BackupsHoldCommitted == replicated => copy = Committed

\* The two ways to read a data store in a transaction agree: do_for_each
\* visits an oid exactly when contains finds it.
ForEachIsView ==
    \A t \in Threads : phase[t] = "open" =>
        do_for_each(t) = {o \in Oids : contains(t, o)}

\* size counts the oids that contains finds, through refused commits, rollbacks
\* and the flushes of the other threads, as long as the transaction has updated
\* no oid that it had removed.  After such an update, which should throw
\* NotFoundException, size stays too small: documentation and code differ.
SizeIsView ==
    \A t \in Threads : phase[t] = "open" /\ revived[t] = 0 =>
        size(t) = Cardinality({o \in Oids : contains(t, o)})

\* Threads see what they would see of a map of their own, committed at once.
View == [t \in Threads |-> [o \in WriteSet[t] |-> select(t, o)]]

Map == INSTANCE TransactionalMap WITH shared <- Committed, private <- View

ImplementsMap == Map!Spec
=============================================================================
