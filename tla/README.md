# A TLA+ development of CARDAMOM's state replication

CARDAMOM is a CORBA middleware for supervised, fault-tolerant systems.  Its
fault tolerance is *warm passive*: a process (a *location*) holds the primary of
an object group, the others hold backups, and what the primary changes in its
*data stores* is copied to the backups by a two-phase commit.  When the primary
fails a backup is activated; when a new backup is inserted it pulls the state of
the running primary.  A *replication manager* keeps track of who holds what and
elects the primaries.  This directory models that core and the lock under it, and
states and proves what makes it correct.

All paths below are relative to `src/`; `ftsm` is
`FaultTolerance/ftstatemanager/c++`.

## 1. Inventory

### FaultTolerance/ftstatemanager: transaction engine

| | |
|---|---|
| State | coordinator: `m_transactionMap` of `TransactionCoordinator` (status, cohorts, responses, transactions it blocks), `m_doneTransactionList`, transaction counter; cohort: prepared transactions, timers, its own done list; context: `m_cohortsMap`, `m_transactionEngineRefMap` |
| Operations | `request`, `send_yes`, `send_no`, `send_end`, `send_set_transaction_status`, `send_get_transaction_status`, `handle_timeout`, `on_failure`, `activate`; `prepare`, `commit`, `rollback`, `get_transaction_status`, `on_timeout` |
| Interaction | one-way calls over IIOP (through the worker threads of the `Scheduler`) or MIOP multicasts, either of which may be lost, late or overtaken; client threads wait on an `ACE_Future`; timer threads; the fault notifier |
| Hard | resent requests that meet late answers; a crash of the primary at any point of the protocol; a backup that fails while it is waited for; recovery from what the survivors remember; conflicting requests |
| Correct if | a change is loaded by all survivors or by none; a caller is told what happened; a reported commit survives the primary; backups agree; no caller waits for ever; nothing stays prepared for ever |

### FaultTolerance/ftstatemanager: data store and state transfer

| | |
|---|---|
| State | `m_data`; observers; `m_freeze_locations`; per joining location a `RecordIterator_impl` (batch, frozen flag) and per data store a `DataStoreRecordIterator` (`m_map`, `m_updates`, destroyed flag) |
| Operations | `insert`, `update`, `remove` and their `_local` halves; `get_record_iterator`, `next_n`, `destroy`; `freeze`, `unfreeze`, `freeze_check`, `invoke_timeouts`; `add_location`, `add_ref_for_location` |
| Interaction | the joining location calls the primary's iterator; client threads of the primary call the iterator back under the lock of the data; the freeze blocks clients; the end of the transfer needs the lock that every running transaction holds |
| Hard | changes to an oid that is pending, taken or sent; the hand-over from iterator to two-phase commit; the freeze timeout against a transfer that is just ending; five locks |
| Correct if | no change is lost between the iterator and the first transaction with the new cohort; every record can be loaded; blocked clients are released; `destroy` returns (not claimed, section 7) |

### FaultTolerance/ftstatemanager: thread-local transactions

| | |
|---|---|
| State | `TXManager`: per thread `m_level` and the set of data stores used; `TXDataStore`: per thread `m_change_map` (the kind of change of an oid), `m_data_map`, `m_size_adjustment` |
| Operations | `begin`, `commit`, `rollback`; `insert`, `update`, `remove`, `select`, `contains`, `size`, `do_for_each`; `get_change`, `flush`, `clear_cache` |
| Interaction | `commit` sends the cached changes of all data stores as one request to the transaction engine and, if it is accepted, flushes them to the data stores outside its mutex |
| Hard | several changes of one oid have to compose to one of the right kind; a refused commit keeps its changes for the thread's next transaction; flushes of several threads interleave; an exception in a flush ends the process |
| Correct if | a commit applies exactly what the thread saw, at the primary and at the backups; a flush never fails once the backups have committed; the ways to read a store agree |

### Foundation/osthreads

`ReaderWriterLock` guards the cohort list, the transaction map and the data.
State: counters of active and waiting readers and writers, two condition
variables.  Correct if writers exclude everybody, the assertions hold and no
wakeup is lost.  `SchedulerBase` (a queue of method requests and its thread),
`Barrier` and the wrappers of threads, mutexes and conditions are the rest.

### FaultTolerance/ftreplicationmanager

| | |
|---|---|
| State | per location a `Location` context (its machine, counters of members present and expected, flags) and a `LocationInfo`; per group an `ObjectGroup` context (its machine, its objects, a count) and the saved `ObjectGroupData` (members, primary location) |
| Operations | `create_object`, `register_statefull_location`, `add_member`, `remove_member`, `set_first_backup`, `push_structured_event` (failure notices), the election |
| Interaction | calls of the application and of the locations, events of the fault detector; it calls the `GroupMembersAdmin` of the locations to initialise, activate and inform them |
| Hard | notices that arrive after further failures and restarts; three records of the membership; generated machines that are left in a new state without its entry when an action throws |
| Correct if | there is never more than one primary, everybody who runs knows it, the records agree, a complete location has a member of every group, and a dead primary is replaced |

### FaultTolerance: the other managers

`ftlocationmanager` (in each process) holds the group information and turns it
into `activate`, `on_failure` and backup insertion; `ftmanager` detects and
announces faults; `ftrequestlogging` remembers replies so that a retried request
is not executed twice.  Not modelled; what TwoPhaseCommit and ReplicationManager
assume of them is listed in section 5.

### Everything else

LoadBalancing (group manager, strategies, interceptors), SystemMngt (supervision
of hosts and processes, task sequencing), Event, Time, TraceAndPerf (flush areas
shared between threads), Repository, LifeCycle, the CCM container and deployment
tools, XMLServer, CodeGen, Build, Tutorial and ProdTests.  PROJECT.json lists
each with the reason why it is left out.

## 2. Plan

Done:

1. `ReaderWriterLock`, `AbstractLock`, `ReaderWriterLockProofs`: the lock, what
   it promises, and the proof that it keeps the promise.
2. `TwoPhaseCommit`, `MCTwoPhaseCommit`, `AtomicCommit`, `AtomicCommitProofs`: the
   transaction engine, with losses, duplicates, reordering, crashes and recovery,
   and what it promises to its callers.
3. `StateTransfer`, `StateTransferProofs`: insertion of a backup while clients
   go on.
4. `TxDataStore`, `TransactionalMap`, `TxDataStoreProofs`: thread-local
   transactions.
5. `ReplicationManager`, `ReplicatedService`: members, failures and elections.
6. `TwoPhaseCommitProofs` and `ReplicationManagerProofs`: the safety of the
   transaction engine and of the replication manager for all values of their
   constants, and that the latter implements `ReplicatedService`.
7. `TwoPhaseCommitRounds` and `TwoPhaseCommitAtomicity`: with timely networks, and
   while no record is dropped from a list of finished transactions, the engine
   is atomic, its backups converge, and it implements `AtomicCommit`.

Left, in this order:

8. `TransactionThrottle`: `TransactionCounterGuard`, whose waiters are woken only
   when the count reaches zero.
9. A lock module for the end of the transfer (iterator mutex, cohort lock, data
   lock, transaction map lock) and the timer thread.
10. ftlocationmanager: how a location turns what it is told by the replication
    manager and the fault notifier into `on_failure` and `activate`.  It would
    connect `ReplicatedService` with the `Crash` and `TakeOver` of `AtomicCommit`.

## 3. Modules

### ReaderWriterLock

One action per operation of a guard (`ReadLock`, `WriteLock`, `ReadUnlock`,
`WriteUnlock`) and one per return from a condition variable (`ReadResume`,
`WriteResume`), all under the lock's mutex.  A waiting guard is asleep or
signalled; `Woken` is `broadcast`.  Spurious wakeups are allowed, as POSIX allows
them.  The counters are the code's.  `AbstractLock` knows only who holds the lock;
the mapping takes the guards that read and those that write.

### TwoPhaseCommit

`active` is the location whose coordinator is activated; `tstate`, `resp`,
`blockers`, `att` are the fields of a `TransactionCoordinator`; `prepared`,
`timer`, `done` those of a cohort; `store` is each replica's `m_data`, where the
data of an oid is the number of the transaction that wrote it; `net` is the set
of requests and answers on their way.  A handler runs under one mutex and is one
action; what happens between locks (the way of a call, the local application of
a change after `request` has returned, the two halves of
`DataStoreContext::on_failure`) is a step of its own.  The coordinator's timer is
the exception: `TransactionCoordinator::handle_timeout` runs in the timer thread
and takes no `m_transactionMapMutex`.  Its expiry is an action (`handle_timeout`)
and, with `TimerOverlaps`, may also run within a handler that changes the status
of the same transaction (`Handled`).  Both threads write `m_status`, clean the
responses and send a request; the timer thread holds the lock of the timer queue,
which the handler needs for `cancel_timer`, so the outcome depends only on who
writes last: the handler, with the old request sent once more
(`HandlerWritesLast`); the timer before the answer is counted, which is then
forgotten (`AnswerForgotten`); or the timer after the decision, which is put back
although its request is sent too and a finished transaction's caller has been
released (`StatusPutBack`).  Over IIOP a cohort whose timer expires asks a
coordinator that may be dead: `on_timeout` catches `NotFoundException` only, the
CORBA exception leaves the timer thread and the process ends
(`on_timeout_uncaught`).  The backups learn who the new primary is in the step in
which it is activated; in the code they hear of it one by one.  `set_internal_status` and
`check_status_change` are operators that map the coordinator's part of the state
to the next one, since handlers call them several times in a row: `NextState` is
what a transaction comes to, `Finished` and `Unblocked` are the destructor of a
coordinator and those it sets going, and `SavedAll` puts the outcomes, latest
transaction first, in front of the done list that `Trim` cuts to `MaxDone`.  `decided` and
`applied` are history variables for the properties.  `synch` is chosen in `Init`,
so every passing run covers IIOP and MIOP.

`AtomicCommit` is what a caller may rely on: for each transaction the locations
that have loaded it, those that know it as aborted, and what the caller was told.
Its steps say that nobody loads what a survivor has refused, that "yes" is said
only when every backup that is up has the change, and "no" only when nobody has.
A location may take back its refusal (`Reconsider`): a backup that could not
prepare may receive another prepare, which it accepts, when the change applies by
then; this happens even after the caller was told "no" (the request came late).
Who counts as refusing is what a status query would be answered with
(`Refusers`): a backup by what it has prepared and recorded, the primary by its
coordinator.  `Agreement` and the refinement mapping both use it.

### StateTransfer

`tstep` is where the transfer is, `pc[c]` where a client is.  The iterator's
three critical sections (take, is there more, the unlocked read of the two
sizes) are separate steps, and each record is encoded in its own step, because
the iterator's mutex is not held while it encodes.  `map`, `updates`, `batch` are
`m_map`, `m_updates` and the records taken; a record is loaded by the joining
location in the step that encodes it, which nobody can tell from the later time
at which it really is loaded.  The two-phase commit is abstracted to one step of
the client (`Commit` or `Abort`), between `Request`, which takes the cohorts and
the read lock of the cohort list, and `Return`, which ends the counting of the
transaction; the change of the primary's own data follows in `LocalApply`.
Two locks are left out: `m_transactionMapMutex`, under which `request` validates
with the read lock of the data, and the lock of the data, which `LocalApply` holds
while it waits for the iterator's mutex.  With them four threads can wait for each
other in a ring, so that `destroy` never returns (a hazard listed); the model
claims nothing about its return.
The two places at which the process dies (an oid removed before it is encoded; a
freeze timeout that finds its iterator gone) lead to the state `"terminated"`.

### TxDataStore

A pair of a data store and an oid is one member of `Oids`.  `kind[t]` and `data[t]`
are the thread's `m_change_map` and `m_data_map`, `unflushed[t]` what its flush has
still to apply.  The request to the backups is one step with two outcomes,
`CommitAccepted` and `CommitRefused`; the flush is one step per record, between
which other threads run.  A record that does not fit the store is an exception
that leaves `commit` against its exception specification: `terminated`.
`CommitRefused` keeps the changes, as the code does.  `TransactionalMap` is the
specification: a map per thread and a shared one that a commit updates at once.
The mapping takes for the shared map the contents that the store will have when
the flushes in progress are done, and for a thread's map what `select` returns.
`revived` counts the updates of oids that the transaction has removed.  The
interface says that `update` of an unknown oid throws and that `size` is the size
of the store (`DataStoreInterface.hpp:206`, `:214`); in the code such an update
succeeds and is not counted.  `SizeIsView` says that `size` is the number of
visible oids for transactions that have done no such update; the rest is a finding.

### ReplicationManager

Every handler runs under `m_mutex` and is one action; crashes, restarts and the
delivery of notices happen in between.  A `Location` has its state twice, in the
generated machine (`sm`) and in `m_fsm_state` (`state`), which differ when an action
of a transition has thrown; handlers that throw keep what they did to the
contexts and save no `ObjectGroupData`.  A group's objects (`present`), its saved
members (`members`) and its machine (`gstate`, `gcount`) are separate variables, as
in the code, and `RecordsAgree` relates them.  Groups are numbered in the order
of creation, locations in the order of the map that the election goes through.
`told` is what the admin of a location has been told last; it is the interface to
ftlocationmanager.  When the primary is withdrawn, `remove_member` tells the third
locations the location that it removes and not the one it has elected; `misled`
is the history of who was told so last, and `PrimaryIsKnown` excepts them.  `ReplicatedService` is the specification: the set of complete
locations and the primary, with a successor in the very step in which the
primary leaves.

## 4. Runs

| run | asks |
|---|---|
| `rwlock` | four guards, every order, spurious wakeups: mutual exclusion, the `CDMW_ASSERT`s, no lost wakeup, somebody gets the lock in the end, and the refinement of `AbstractLock` |
| `tpc_conflicts` | two conflicting transactions at a backup with duplicates, unbounded delay and reordering: serialization, a prepared change stays applicable, nothing is loaded without a decision, even when the coordinator's timer expires within a handler |
| `tpc_failover` | two transactions, two crashes, one loss: the caller is told the truth, agreement, all or nothing, durability, equal backups, final commit records, and the refinement of `AtomicCommit` |
| `tpc_live` | one loss, one crash among three locations, and processes that end because they asked a dead primary: as long as a cohort is left every request is answered and recovery ends; nothing stays prepared under a coordinator that knows it |
| `tpc_late_prepare` | violation: the copy of an insertion's prepare arrives after the commit, is refused and recorded as ABORTED |
| `tpc_primary` | violation: the primary applies two committed updates in another order than the backups |
| `tpc_orphan` | violation: a backup stays prepared when the new primary has never heard of the transaction |
| `tpc_last_backup` | violation: the last backup fails and the caller waits for ever |
| `tx_store` | two threads with transactions on two oids and one oid, refused commits, rollbacks, interleaved flushes, loss of the backups: no flush fails, the backups hold what is being flushed, the readers agree, `size` counts what is visible unless an update has revived an oid, and the refinement of `TransactionalMap` |
| `state_transfer` | a backup joins during three changes: the bookkeeping is exact, records can be loaded, blocked clients are released |
| `transfer_exact` | violation: the joined backup lacks a change of the primary |
| `rm_failover` | three locations with two groups are created, filled, withdrawn, crash twice and come back, notices are late: one primary that everybody knows (but those whom a withdrawal has told otherwise), records and counters that agree, the refinement of `ReplicatedService`, and a dead primary is replaced |

The five violations are findings of PROJECT.json; each quotes the comment or the
test that says otherwise.  Two more findings belong to passing runs, whose property
excepts by name what the code does wrong: `SizeIsView` (a revived oid is not
counted; without the exception TLC needs 10 states) and `PrimaryIsKnown` (a
withdrawal tells the wrong primary; 9 states).

`tpc_late_prepare` in words: `a` inserts an oid at `b` and `c`, its timer sends the
prepare again, both prepare it and `b` loads it.  The copy then reaches `b`: the oid is
present, validation fails and `ABORTED` goes in front of `COMMITTED` in `b`'s list.
`c` has not received its commit yet when `a` fails; `b` becomes the primary, `c`'s
timer asks it, is told `ABORTED` and rolls back.

`transfer_exact` in words: the last `next_n` finds nothing more to send, waits
until the number of transactions is zero and reports the end.  But a transaction
is counted out when `request` returns, before the caller has changed the data and
called the observers; with no other backup there is no transaction to wait for at
all; and a data store that fits in one call is reported finished before it is
frozen.  The change is then made at the primary and neither the iterator nor a
transaction carries it to the new backup.

### Bounds

`MaxTx` = 2 is enough for every pair of conflicting, blocked or recovered
transactions; one is used where all the copies of requests are in flight.
`MaxAttempts` bounds the copies in flight of one request: with two, a copy can
meet the effects of the other.  Three locations are a primary, a backup that
becomes primary, and a backup that has to agree with it; two are used where the
question is about one backup.
Two crashes reach the crash of a new primary during recovery.  `MaxDone` = 2 is
the number of transactions: a list is trimmed only when a transaction is recorded
twice, so `tpc_failover` passes although lists are trimmed in it; 0 and 1 are too
few (section 6).  In StateTransfer, `IteratorIncrement` = `FreezeThreshold` =
1 make every batch end and every threshold happen with two oids; three changes
are enough to insert, remove and insert an oid again around each step of the
transfer.  One client is enough for the bookkeeping because changes are applied
under one lock, and the proof covers any number.
In TxDataStore two threads are enough for a flush to be interleaved with a
transaction of another, two oids of one thread for a flush that is half done,
and one revived oid per transaction for `size` to deviate; data only has to be
told apart, so two values with symmetry do; the theorems cover any number.  In
ReplicationManager three locations are a primary, its successor and a third one
that has to be told; two groups are the least with a location that is half
inserted; `MinMembers` = 3 makes every state of a group's machine happen; two
crashes reach the failure of the successor before the first notice has arrived.

`CHECK_DEADLOCK FALSE`: the number of requests is bounded, so the model stops
when they are used up, and a process that has terminated stops.  The reader-writer
lock and TxDataStore never stop and are checked for deadlock.

## 5. Assumptions about the environment, and fairness

* `TimelyNetwork`: with TRUE a timer expires only when nothing of its transaction
  is in flight, that is, timeouts are longer than network delays, the setting
  the defaults are chosen for.  `tpc_conflicts` and `tpc_late_prepare` do not
  assume it.
* `TimerOverlaps`: with TRUE the coordinator's timer may run within a handler that
  changes the same transaction.  `TimelyNetwork` implies FALSE: nothing of the
  transaction is in flight then that could call a handler, a failure notice apart.
  `tpc_conflicts` has TRUE.  What is told to callers does not survive it: in
  `TpcConflicts.cfg` TLC finds `HonestOutcome` (8 states) and `CommittedSurvives` (16
  states) violated, since a transaction that is put back to `COLLECTING` sends its
  prepare to a cohort that has loaded the change; the cohort refuses and the caller
  is told false.  Without it both hold however late messages are, which is what
  the theorems say (section 6).
* `MaxAttempts` >= 1: a request is sent at least once.
* A new primary is activated when no message of the old one is in flight:
  detecting a failure and electing a primary takes far longer than delivery.
  Without this a late commit could meet a recovered abort (a hazard listed).
* The failure of a primary is announced before its successor is activated
  (`FTManager_impl.cpp` calls `on_failure` first), so the successor does not count
  the old primary as a cohort.  The failure of a backup may still be unnoticed
  then: `activate` may start with failed backups in its cohort list.
* A cohort's timer may expire once more after its location has become primary,
  since `Timer` sleeps in slices and expires afterwards.
* TxDataStore: threads change disjoint sets of oids (`WriteSet`).  TXManager
  isolates nothing: if two threads change the same oid, one may flush a removal
  between the other's request and flush, whose exception then ends the process.
  Changes outside a transaction are not mixed with a thread's transactions.
* ReplicationManager: locations are inserted and withdrawn one at a time and when
  every failure so far has been handled (`Calm`), and none crashes during the
  insertion of another (`Alone`).  The code does not enforce this; without it two
  locations may both find no peer and become primaries.  Groups are created
  before a location is complete (afterwards its machine has no transition for
  it).  `InitOutcomes` = {TRUE}: the data stores of a new member initialise; the
  error path is in the model, and leaves an object in the contexts that makes
  the next failure of its location throw (a hazard listed).
* Fairness: messages that are not lost are delivered (weak fairness); the timers
  that are armed expire.  For the timers this is strong fairness, since
  `TimelyNetwork` disables them again and again while messages pass; the real
  timer is not disabled, it is only set longer than the delay.  A failure is
  noticed and a primary activated in the end: this is what the fault detector is
  for.  In StateTransfer a thread inside a call goes on when nothing blocks it
  (weak fairness) and the timer of a blocked client expires.  In
  ReplicationManager every notice is delivered (weak fairness).  Nothing is assumed
  about clients making new calls, or about losses and crashes.
* Exceptions in liveness properties are named.  `WaitsForStranger`: a request made
  between the two halves of `DataStoreContext::on_failure` waits for a location
  nobody will report again.  `NobodyToAsk` and the empty `resp[t]` of
  `RecoveryTerminates`: with no cohort left no answer comes, nothing calls
  `check_status_change` again, and the transaction stays where it is for ever.  One
  crash among three locations is enough: one backup's process ends in its call to
  the dead primary, and the other one becomes primary with nobody to ask.  All are
  defects of the code that the properties would otherwise report (TLC refutes
  each without its exception); they are in the list of hazards.

## 6. Proofs

TLAPS checks eight modules: `ReaderWriterLockProofs`, `AtomicCommitProofs`,
`TwoPhaseCommitProofs`, `TwoPhaseCommitRounds`, `TwoPhaseCommitAtomicity`,
`StateTransferProofs`, `TxDataStoreProofs` and `ReplicationManagerProofs`.  Each
proves an inductive invariant, one lemma per action, that TLC had checked before,
and derives the properties from it.  Every safety invariant, action property and
refinement that a passing run checks is the conclusion of a theorem.
The only assumptions are the `ConstantsAssumption` of each module, which TLC
evaluates on every run, and the hypotheses named for TwoPhaseCommit's atomicity and
for ReplicationManager.

**ReaderWriterLock**, for every finite set of guards.  `MutualExclusion` and
`NoLostWakeup` are not inductive: the guards of the actions are about counters.
The invariant `IInv` adds `TypeOK` (a theorem
of its own, `TypesHold`: no counter goes below zero), that the counters are the cardinalities of the sets of
guards in each state, and that a writer is alone.  `AssertionsHold` follows from
the counters.  Assumption: the set of guards is finite.  `ImplementsAbstractLock`
shows the refinement of `AbstractLock` with the same invariant, one case per action.

**AtomicCommit**, for all sets of transactions and locations: `PromiseKept`.  The
survivors agree on each transaction, a change reported as committed is held by
every survivor and one reported as aborted by nobody.  It is a theorem about the
specification; that TwoPhaseCommit implements it is `AtomicCommitImplemented`.

**TwoPhaseCommit**, for all sets of locations, oids and changes, any number of
transactions, copies of a request, losses and crashes, whether or not the network
is timely, and for every length of the done lists: `TypesHold`, `CommittedOnly`,
`ConflictsAreSerialized`, `PreparedApplies`, `OutcomeIsHonest` and
`CommitsSurvive`.  The first four also hold when the coordinator's timer runs
within a handler; the last two assume `~TimerOverlaps`, without which they are
false (section 5).  None of these is inductive.  The conjuncts of `IInv`:

* `Coordinated`: the active coordinator is up and has every other location that is
  up among its members; without one, nobody is coordinated or waits.  It is why a
  vote of all cohorts is a vote of all survivors.  It also says that nothing is
  known anywhere of a transaction that was not requested yet (`Unborn`).
* `CallersMatch`: which states of a transaction go with which state of its caller.
* `BlockersKnown`: of two live transactions on one oid one blocks the other, and
  only a waiting one is blocked.  `ConflictsSerialized` follows.
* `CohortsReady`: what a cohort has prepared is free of conflicts and applies; the
  first half is what keeps the second when one of them is loaded.  That the change
  of a prepare is checked against the oids the cohort has prepared already, not
  only by the coordinator, makes this hold for late and resent prepares.
* `CommitsDecided`: whatever says COMMITTED (a coordinator, a done list, a message
  on its way) has it from a decision.  It is what makes a status query safe.
* `RefusalsKept`: nobody has decided to commit what a caller was refused, or still
  waits for.
* `VotesKnown`: while a coordinator collects, no message of a decision exists and
  who has said yes (in `resp` or on the way) is prepared; after the decision every
  backup is prepared or has loaded the change, nothing tells it to give up, and
  who has said END has loaded it.  `HonestOutcome` and `CommittedSurvives` follow.

Records that were dropped from a done list do no harm here: a cohort that is
prepared does not look at its list, and the proof holds for any `MaxDone`.

**Atomicity of TwoPhaseCommit** (`TwoPhaseCommitRounds`, `TwoPhaseCommitAtomicity`),
for all sets of locations, oids and changes, any number of transactions, losses
and crashes, under two hypotheses that the theorems state:

* `TimelyNetwork`.  Without it `AllOrNothing` is false (`tpc_late_prepare`): a
  prepare that arrives after the commit makes a cohort record ABORTED over
  COMMITTED.
* `[]RecordsKept`: no list of a location that is up is ever full, and the
  coordinator's has room for the transactions in progress.
  Without it a commit whose record was dropped is answered UNKNOWN and the next
  primary aborts it; in `TpcFailover.cfg` with `MaxDone` 0 or 1 instead of 2 TLC
  finds `Agreement` and `AllOrNothing` violated.  It is not an assumption on
  `MaxDone`, because a prepare that is resent and refused again adds a record each
  time, and only the number of losses bounds how often that happens.  A behaviour may stop at
  any state, so the theorems cover every behaviour up to the first state without
  room.  In `TpcFailover.cfg` with `MaxDone` = 5, `RecordsKept` is true of every
  reachable state; TLC checked the invariants below there, as well as the one
  they are used with (`IInv`).

`RoundsHold` needs only the first: a request is sent again only when nothing of its
transaction is in flight, so a cohort that is asked to prepare has not voted in
this round (`OneVote`), requests go to backups that are up and answers find a
coordinator (`Addressed`).  Then, for each transaction, `Sound` says:

* `Atomic`, the core.  A transaction has *won* when a survivor has loaded it, or
  when the coordinator, its client or a message that will be heeded knows it as
  committed; it is *lost* when somebody would say, or is being told, that it is
  aborted.  Of what has won nothing is lost, every backup has loaded it or still
  has it prepared, and no prepare of it is on its way.
* `Recovering`: while a new primary asks for the outcome it has the change prepared
  and not loaded, no decision is on its way, and no backup that has loaded the
  change has said, or is saying, that it does not know it.  It is why a recovery
  that hears nothing definite may abort.
* `Recorded`: the records of commits are true, and who has loaded has one.
* `PrimaryKnows`: the primary has loaded what has won, or its client is about to,
  or it is recovering it.

`AgreementHolds` and `AtomicityHolds` follow.  `CommitRecordsFinal` is an action
property: only a transaction that is prepared is ended or refused, and `Recorded`
says that it has no record of a commit.  `BackupsConverge` (`BackupsEqual`) needs
one invariant more, `DInv`: what one backup has loaded and another still has
prepared is the last change of its oids at the first (`LastOnItsOids`), two such
changes on one oid are not outstanding crosswise (`SameOrder`), and oids on which
two backups differ are those of such a change (`Converging`); it rests on
`CohortsReady`, that what is prepared at a backup does not conflict.
`AtomicCommitImplemented` is the refinement: most steps of the engine are internal;
an abort that is decided or delivered and a refused prepare are `Refuse`, a
prepare that is accepted after a refusal is `Reconsider`, a commit that is
delivered or learnt is `Load`, the return to a client is `SayYes` or `SayNo`,
`activate` is `TakeOver`.  A failure that completes phases of several transactions
at once is why a step of `AtomicCommit` moves every transaction.

**TxDataStore**, for all sets of threads, oids and data and all disjoint write
sets: `TypesHold`, `FlushIsTotal`, `BackupsInStep`, `ReadersAgree` and
`ImplementsTransactionalMap`.  The inductive invariant says that a thread changes
only what it owns (`OwnsChanges`), that only a thread in its flush has something
to flush and that this is part of its changes (`FlushStage`), and, which is the
point, that each change fits the store until it is flushed and is the store's
contents afterwards (`Fitting`).  `Fitting` is what makes a refused commit
harmless: its changes stay, but so does what they fit, since nobody else owns
those oids.  The assumption of disjoint write sets is used for nothing else than
`Fitting` and the name of an oid's writer.  `SizeCounts` (`SizeIsView`: the visible
oids, for a transaction without a revived oid) needs one
invariant more, `Accounting`: a thread's size adjustment is the number of its
insertions, less its removals, less what it has revived, where all three and the
contents of the store are finite although the set of oids need not be.  A flush
moves an oid from the cache to the store and keeps the sum; that the store's part
is right rests on `Fitting`.

**StateTransfer**, for every set of clients, every finite non-empty set of oids
and all values of the increment, the threshold and the number of changes:
`NothingForgotten`, `RecordsLoadable`, `TypeOK`.  The inductive invariant `IInv`
says for each oid (`Tracks`) what an entry of `m_map` or `m_updates` means: an
insertion is pending exactly when the primary has the oid and the joining
location will not have it once the records on their way are loaded, and so on
for removals and updates; with no entry the two agree.  It is the comment table
of `DataStoreRecordIterator.hpp` read backwards, extended by the records that
have been taken and not yet sent, which the table does not mention.  `Stages`
adds when the batch is empty, that an iterator that is not destroyed is
registered, and that the joining location is a cohort only after the last record.
The proof has one case per action; the callbacks, the taking and the encoding of
records are lemmas of their own.  TLC checked `IInv` before it was proved.

**ReplicationManager**, for every finite set of locations and any number of groups,
crashes, withdrawals and required members.  `TypesHold` has no hypothesis: whatever
fails, no counter of a location or a group goes below zero; it needs only
`GroupMachine`, that the state of a group's machine says what its counter may be.
`OnePrimary`, `RecordsStayInStep`, `CompleteIsAll`, `EverybodyKnows` and the
refinement `ImplementsReplicatedService` are proved where the data stores of a new
member initialise (`InitialisationSucceeds`), a condition of
`ReplicationManager.cfg` that is needed: with `InitOutcomes` = {TRUE, FALSE} TLC
finds them violated.  `EverybodyKnows` is for any withdrawals and says of the
locations that one has told last (`misled`) nothing.  The conjuncts of `IInv` beside
the properties:

* `Contexts`: the two copies of a location's state agree, who takes part has an
  admin and who has failed has none, so no handler stops half-way.
* `Undisturbed`: while a location is inserted no other one is, and no notice about
  another one is on its way (from `Calm` and `Alone`).  Without it a second
  location may find no peer and become primary as well.
* `FailuresNoticed`: the crash of a location that takes part is still to be
  noticed, so it is removed before `Calm` lets anybody be inserted.
* `Led`: backups follow a primary.  It excludes an election of two, and gives the
  refinement its successor: `Successor` is a complete location or nobody is left.
* `Named`: the groups in which the primary is a member name it.
* `Told` (for `EverybodyKnows`): every location that runs was told of the primary, except by a
  withdrawal.

The counters are related to the sets they count by `Parts`, `GroupLoses` and their
like, one group and one location at a time; the election uses only that the
lowest of some locations is one of them.

**Only model-checked.**  Every liveness property (`SomebodyGetsIt`,
`RequestAnsweredByCohorts`, `PreparedResolved`, `RecoveryTerminates`,
`FrozenReleased`, `ServiceRecovers`): liveness under fairness and ENABLED are out of the prover's
reach.  So are the hypotheses of the atomicity theorems beyond an instance: that
a list of a given length is long enough for a given number of losses is a
count over a whole behaviour.

## 7. Not modelled

The codecs and CORBA references; application observers; several data stores in
one transfer and several joining locations at once; a second attempt of a
location whose first transfer failed; when the callers that are held back by the
maximum of concurrent requests are woken (only the maximum is modelled); the
lock order of the ACE timer queue; the use of a `TransactionCoordinator` that is
being deleted by its timer's thread, and a timer started twice; the locks of the
data and of the transaction map in StateTransfer, hence whether `destroy` returns;
a backup that learns of the new primary later than another; operations of a TXDataStore outside a
transaction, and threads that change the same oid; of the replication manager
`delete_object`, `set_primary_member`, `set_primary_location`, failures of hosts
and applications, stateless locations and its own restart; and the components of section 1
that say so.
