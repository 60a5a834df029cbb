------------------------- MODULE ReaderWriterLock -------------------------
(***************************************************************************)
(* Cdmw::OsSupport::ReaderWriterLock, the lock behind every                *)
(* CDMW_READER_LOCK_GUARD and CDMW_WRITER_LOCK_GUARD of CARDAMOM           *)
(* (Foundation/osthreads/c++/src/ReaderWriterLock.cpp).                    *)
(*                                                                         *)
(* Every operation runs under m_rwlock_mutex, so the code between two      *)
(* releases of the mutex is one action: a call runs up to its first        *)
(* Condition::wait, and a thread that has been woken runs from the         *)
(* re-acquisition of the mutex to the next wait or to the return.          *)
(*                                                                         *)
(* A client is a guard object and not a thread: the reader guard held by a *)
(* TransactionCoordinator is taken by one thread and released by another,  *)
(* and one thread may hold several reader guards.                          *)
(***************************************************************************)
EXTENDS Naturals, FiniteSets

CONSTANT Guards          \* the guard objects that use one lock

ASSUME GuardsAssumption == IsFiniteSet(Guards)

VARIABLES
    st,                  \* where each guard is in its lock/unlock calls
    nbReaders,           \* m_nbReaders
    nbWriters,           \* m_nbWriters
    nbWaitingWriter,     \* m_nb_waiting_writer
    nbWaitingReader      \* m_nb_waiting_reader

vars == <<st, nbReaders, nbWriters, nbWaitingWriter, nbWaitingReader>>

\* rWait / wWait: inside Condition::wait; rWoken / wWoken: signalled, and
\* waiting for m_rwlock_mutex to test the loop condition again.
States == {"idle", "rWait", "rWoken", "reading", "wWait", "wWoken", "writing"}

Members(f, S) == {g \in Guards : f[g] \in S}
In(S) == Members(st, S)

(* One type invariant: the counters are naturals (they are size_t).        *)
TypeOK ==
    /\ st \in [Guards -> States]
    /\ nbReaders \in Nat
    /\ nbWriters \in Nat
    /\ nbWaitingWriter \in Nat
    /\ nbWaitingReader \in Nat

Init ==
    /\ st = [g \in Guards |-> "idle"]
    /\ nbReaders = 0
    /\ nbWriters = 0
    /\ nbWaitingWriter = 0
    /\ nbWaitingReader = 0

---------------------------------------------------------------------------
(* The while loops of readLock and writeLock, from a test of the condition *)
(* to the wait or to the return.                                           *)

ReadMayEnter  == nbWriters = 0

\* Mutant of WriteMayEnter: a writer that only looks at the other writers.
WriteMayEnterIgnoringReaders == nbWriters = 0

WriteMayEnter == nbReaders = 0 /\ nbWriters = 0

\* Condition::broadcast on the condition whose waiters are in state from.
Woken(f, from, to) == [g \in Guards |-> IF f[g] = from THEN to ELSE f[g]]

ReadLock(g) ==
    /\ st[g] = "idle"
    /\ \/ /\ ReadMayEnter
          /\ st' = [st EXCEPT ![g] = "reading"]
          /\ nbReaders' = nbReaders + 1
          /\ UNCHANGED nbWaitingReader
       \/ /\ ~ReadMayEnter
          /\ st' = [st EXCEPT ![g] = "rWait"]
          /\ nbWaitingReader' = nbWaitingReader + 1
          /\ UNCHANGED nbReaders
    /\ UNCHANGED <<nbWriters, nbWaitingWriter>>

\* Return from m_reader_cond.wait().
ReadResume(g) ==
    /\ st[g] = "rWoken"
    /\ \/ /\ ReadMayEnter
          /\ st' = [st EXCEPT ![g] = "reading"]
          /\ nbReaders' = nbReaders + 1
          /\ nbWaitingReader' = nbWaitingReader - 1
       \/ /\ ~ReadMayEnter
          /\ st' = [st EXCEPT ![g] = "rWait"]
          /\ UNCHANGED <<nbReaders, nbWaitingReader>>
    /\ UNCHANGED <<nbWriters, nbWaitingWriter>>

\* Mutant of WriteResume: the counter of the other condition is decremented.
WriteResumeWrongCounter(g) ==
    /\ st[g] = "wWoken"
    /\ WriteMayEnter
    /\ st' = [st EXCEPT ![g] = "writing"]
    /\ nbWriters' = nbWriters + 1
    /\ nbWaitingReader' = nbWaitingReader - 1
    /\ UNCHANGED <<nbReaders, nbWaitingWriter>>

WriteLock(g) ==
    /\ st[g] = "idle"
    /\ \/ /\ WriteMayEnter
          /\ st' = [st EXCEPT ![g] = "writing"]
          /\ nbWriters' = nbWriters + 1
          /\ UNCHANGED nbWaitingWriter
       \/ /\ ~WriteMayEnter
          /\ st' = [st EXCEPT ![g] = "wWait"]
          /\ nbWaitingWriter' = nbWaitingWriter + 1
          /\ UNCHANGED nbWriters
    /\ UNCHANGED <<nbReaders, nbWaitingReader>>

\* Return from m_writer_cond.wait().
WriteResume(g) ==
    /\ st[g] = "wWoken"
    /\ \/ /\ WriteMayEnter
          /\ st' = [st EXCEPT ![g] = "writing"]
          /\ nbWriters' = nbWriters + 1
          /\ nbWaitingWriter' = nbWaitingWriter - 1
       \/ /\ ~WriteMayEnter
          /\ st' = [st EXCEPT ![g] = "wWait"]
          /\ UNCHANGED <<nbWriters, nbWaitingWriter>>
    /\ UNCHANGED <<nbReaders, nbWaitingReader>>

\* Writers are signalled by the last reader that leaves.
ReadUnlock(g) ==
    /\ st[g] = "reading"
    /\ nbReaders' = nbReaders - 1
    /\ LET left == [st EXCEPT ![g] = "idle"] IN
       st' = IF nbReaders' = 0 /\ nbWaitingWriter # 0
             THEN Woken(left, "wWait", "wWoken")
             ELSE left
    /\ UNCHANGED <<nbWriters, nbWaitingWriter, nbWaitingReader>>

\* Mutant of WriteUnlock: only the readers are signalled.
WriteUnlockForgetsWriters(g) ==
    /\ st[g] = "writing"
    /\ nbWriters' = nbWriters - 1
    /\ LET left == [st EXCEPT ![g] = "idle"] IN
       st' = Woken(left, "rWait", "rWoken")
    /\ UNCHANGED <<nbReaders, nbWaitingWriter, nbWaitingReader>>

\* Mutant of WriteUnlock: a waiting reader is let in at once, while the lock
\* is still this writer's.
WriteUnlockHandsOver(g) ==
    /\ st[g] = "writing"
    /\ nbWriters' = nbWriters - 1
    /\ LET left == [st EXCEPT ![g] = "idle"] IN
       st' = Woken(left, "rWait", "reading")
    /\ nbReaders' = nbReaders + Cardinality(In({"rWait"}))
    /\ nbWaitingReader' = nbWaitingReader - Cardinality(In({"rWait"}))
    /\ UNCHANGED nbWaitingWriter

\* Waiting readers are preferred to waiting writers.
WriteUnlock(g) ==
    /\ st[g] = "writing"
    /\ nbWriters' = nbWriters - 1
    /\ LET left == [st EXCEPT ![g] = "idle"] IN
       st' = IF nbWaitingReader # 0
             THEN Woken(left, "rWait", "rWoken")
             ELSE IF nbWaitingWriter # 0
                  THEN Woken(left, "wWait", "wWoken")
                  ELSE left
    /\ UNCHANGED <<nbReaders, nbWaitingWriter, nbWaitingReader>>

\* POSIX lets a condition wait return without a signal.
SpuriousWakeup(g) ==
    /\ \/ st[g] = "rWait" /\ st' = [st EXCEPT ![g] = "rWoken"]
       \/ st[g] = "wWait" /\ st' = [st EXCEPT ![g] = "wWoken"]
    /\ UNCHANGED <<nbReaders, nbWriters, nbWaitingWriter, nbWaitingReader>>

Step(g) ==
    \/ ReadLock(g)
    \/ ReadResume(g)
    \/ WriteLock(g)
    \/ WriteResume(g)
    \/ ReadUnlock(g)
    \/ WriteUnlock(g)
    \/ SpuriousWakeup(g)

Next == \E g \in Guards : Step(g)

Spec == Init /\ [][Next]_vars

(* Fairness: a signalled thread eventually gets the mutex, and a guard is  *)
(* eventually destroyed. Nobody is obliged to ask for the lock, and no     *)
(* spurious wakeup is promised.                                            *)
Fairness ==
    \A g \in Guards : /\ WF_vars(ReadResume(g))
                      /\ WF_vars(WriteResume(g))
                      /\ WF_vars(ReadUnlock(g) \/ WriteUnlock(g))

FairSpec == Spec /\ Fairness

---------------------------------------------------------------------------
(* "allows more than one thread access the data for reading, but only one  *)
(* thread to access data for writing" (ReaderWriterLock.hpp): a writing    *)
(* guard excludes every other guard.                                       *)
MutualExclusion ==
    \A g, h \in Guards :
        g # h /\ st[g] = "writing" => st[h] \notin {"reading", "writing"}

(* The CDMW_ASSERTs of the four operations: the counters never leave the   *)
(* values they assert, and the decrement of each unlock is never taken     *)
(* from zero, whatever interleaving of waits and broadcasts got there.     *)
AssertionsHold ==
    /\ nbWriters <= 1
    /\ nbReaders > 0 => nbWriters = 0
    /\ In({"reading"}) # {} => nbReaders >= 1
    /\ In({"writing"}) # {} => nbWriters = 1
    /\ In({"rWait", "rWoken"}) # {} => nbWaitingReader >= 1
    /\ In({"wWait", "wWoken"}) # {} => nbWaitingWriter >= 1

(* No lost wakeup: readers sleep only while a writer holds the lock, and   *)
(* when nobody holds it and a writer sleeps, somebody has been signalled   *)
(* and will run. writeUnlock signals only one of the two conditions, so    *)
(* this depends on the signalled readers signalling the writers in turn.   *)
NoLostWakeup ==
    /\ In({"rWait"}) # {} => nbWriters = 1
    /\ In({"wWait"}) # {} /\ nbReaders = 0 /\ nbWriters = 0
         => In({"rWoken", "wWoken"}) # {}

(* The lock is a reader-writer lock in the eyes of its clients, whatever   *)
(* the counters and the two conditions do behind it: who holds it changes  *)
(* by one guard at a time, and never so that a reader meets a writer.      *)
Lock == INSTANCE AbstractLock WITH readers <- In({"reading"}),
                                   writers <- In({"writing"})

ImplementsLock == Lock!Spec

(* The strengthening the three invariants above are proved from: each      *)
(* counter counts the guards in the corresponding states, which is what    *)
(* makes the tests "m_nb_waiting_writer != 0" of the unlocks complete.     *)
CountersExact ==
    /\ nbReaders = Cardinality(In({"reading"}))
    /\ nbWriters = Cardinality(In({"writing"}))
    /\ nbWaitingReader = Cardinality(In({"rWait", "rWoken"}))
    /\ nbWaitingWriter = Cardinality(In({"wWait", "wWoken"}))

Exclusive == nbWriters <= 1 /\ (nbReaders > 0 => nbWriters = 0)

IInv == TypeOK /\ CountersExact /\ Exclusive /\ NoLostWakeup

(* Whenever a guard waits, some guard eventually holds the lock: the lock  *)
(* as a whole never wedges (a given writer may starve behind readers).     *)
SomebodyGetsIt ==
    In({"rWait", "rWoken", "wWait", "wWoken"}) # {}
        ~> In({"reading", "writing"}) # {}
===========================================================================
