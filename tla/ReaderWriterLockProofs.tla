---------------------- MODULE ReaderWriterLockProofs ----------------------
(***************************************************************************)
(* Mutual exclusion, the assertions of the code and the absence of lost    *)
(* wakeups, proved for any finite set of guards.                           *)
(***************************************************************************)
EXTENDS ReaderWriterLock, FiniteSetTheorems, TLAPS

(* A set of guards is finite, and its count is zero exactly when no guard  *)
(* is in the states it counts.                                             *)
LEMMA CountZero ==
    ASSUME NEW f, NEW S
    PROVE  /\ IsFiniteSet(Members(f, S))
           /\ Cardinality(Members(f, S)) \in Nat
           /\ Cardinality(Members(f, S)) = 0 <=> Members(f, S) = {}
<1>1. Members(f, S) \subseteq Guards
  BY DEF Members
<1>2. IsFiniteSet(Members(f, S))
  BY <1>1, GuardsAssumption, FS_Subset
<1> QED BY <1>2, FS_CardinalityType, FS_EmptySet

(* What a step does to the count of S when only guard g enters or leaves   *)
(* S: the other guards may change state inside or outside S, which is what *)
(* a broadcast makes them do.                                              *)
LEMMA CountMove ==
    ASSUME NEW f, NEW h, NEW S, NEW g \in Guards,
           \A k \in Guards : k # g => (h[k] \in S <=> f[k] \in S)
    PROVE  /\ Cardinality(Members(f, S)) \in Nat
           /\ f[g] \in S /\ h[g] \in S
                => Cardinality(Members(h, S)) = Cardinality(Members(f, S))
           /\ f[g] \notin S /\ h[g] \notin S
                => Cardinality(Members(h, S)) = Cardinality(Members(f, S))
           /\ f[g] \notin S /\ h[g] \in S
                => Cardinality(Members(h, S)) = Cardinality(Members(f, S)) + 1
           /\ f[g] \in S /\ h[g] \notin S
                => Cardinality(Members(h, S)) = Cardinality(Members(f, S)) - 1
<1> DEFINE M == Members(f, S)
           M1 == Members(h, S)
<1>1. IsFiniteSet(M) /\ Cardinality(M) \in Nat
  BY CountZero
<1>2. M1 = IF h[g] \in S THEN M \cup {g} ELSE M \ {g}
  BY DEF Members
<1>3. g \in M <=> f[g] \in S
  BY DEF Members
<1> HIDE DEF M, M1
<1>4. CASE f[g] \in S /\ h[g] \in S
  BY <1>1, <1>2, <1>3, <1>4 DEF M, M1
<1>5. CASE f[g] \notin S /\ h[g] \notin S
  BY <1>1, <1>2, <1>3, <1>5 DEF M, M1
<1>6. CASE f[g] \notin S /\ h[g] \in S
  <2>1. M1 = M \cup {g} /\ g \notin M
    BY <1>2, <1>3, <1>6
  <2>2. Cardinality(M1) = Cardinality(M) + 1
    BY <1>1, <2>1, FS_AddElement
  <2> QED BY <1>1, <1>6, <2>2 DEF M, M1
<1>7. CASE f[g] \in S /\ h[g] \notin S
  <2>1. M1 = M \ {g} /\ g \in M
    BY <1>2, <1>3, <1>7
  <2>2. Cardinality(M1) = Cardinality(M) - 1
    BY <1>1, <2>1, FS_RemoveElement
  <2> QED BY <1>1, <1>7, <2>2 DEF M, M1
<1> QED BY <1>4, <1>5, <1>6, <1>7

(* CountMove for the four counted sets and the states before and after a   *)
(* step in which no guard other than g crosses the border of one of them.  *)
LEMMA CountersMove ==
    ASSUME NEW g \in Guards,
           \A k \in Guards : k # g =>
              /\ st'[k] = "reading" <=> st[k] = "reading"
              /\ st'[k] = "writing" <=> st[k] = "writing"
              /\ st'[k] \in {"rWait", "rWoken"} <=> st[k] \in {"rWait", "rWoken"}
              /\ st'[k] \in {"wWait", "wWoken"} <=> st[k] \in {"wWait", "wWoken"}
    PROVE  \A S \in {{"reading"}, {"writing"}, {"rWait", "rWoken"}, {"wWait", "wWoken"}} :
              /\ Cardinality(In(S)) \in Nat
              /\ st[g] \in S /\ st'[g] \in S
                   => Cardinality(In(S)') = Cardinality(In(S))
              /\ st[g] \notin S /\ st'[g] \notin S
                   => Cardinality(In(S)') = Cardinality(In(S))
              /\ st[g] \notin S /\ st'[g] \in S
                   => Cardinality(In(S)') = Cardinality(In(S)) + 1
              /\ st[g] \in S /\ st'[g] \notin S
                   => Cardinality(In(S)') = Cardinality(In(S)) - 1
<1> SUFFICES ASSUME NEW S \in {{"reading"}, {"writing"}, {"rWait", "rWoken"}, {"wWait", "wWoken"}}
             PROVE  /\ Cardinality(In(S)) \in Nat
                    /\ st[g] \in S /\ st'[g] \in S
                         => Cardinality(In(S)') = Cardinality(In(S))
                    /\ st[g] \notin S /\ st'[g] \notin S
                         => Cardinality(In(S)') = Cardinality(In(S))
                    /\ st[g] \notin S /\ st'[g] \in S
                         => Cardinality(In(S)') = Cardinality(In(S)) + 1
                    /\ st[g] \in S /\ st'[g] \notin S
                         => Cardinality(In(S)') = Cardinality(In(S)) - 1
  OBVIOUS
<1>1. \A k \in Guards : k # g => (st'[k] \in S <=> st[k] \in S)
  OBVIOUS
<1>2. In(S) = Members(st, S) /\ In(S)' = Members(st', S)
  BY DEF In, Members
<1> QED BY <1>1, <1>2, CountMove

(* Every step of guard g keeps the types and moves no other guard across   *)
(* the border of a counted set.                                            *)
LEMMA StepMoves ==
    ASSUME TypeOK, NEW g \in Guards, Step(g)
    PROVE  /\ st' \in [Guards -> States]
           /\ \A k \in Guards : k # g =>
                /\ st'[k] = "reading" <=> st[k] = "reading"
                /\ st'[k] = "writing" <=> st[k] = "writing"
                /\ st'[k] \in {"rWait", "rWoken"} <=> st[k] \in {"rWait", "rWoken"}
                /\ st'[k] \in {"wWait", "wWoken"} <=> st[k] \in {"wWait", "wWoken"}
<1> USE DEF TypeOK, States
<1>1. CASE ReadLock(g)
  BY <1>1 DEF ReadLock
<1>2. CASE ReadResume(g)
  BY <1>2 DEF ReadResume
<1>3. CASE WriteLock(g)
  BY <1>3 DEF WriteLock
<1>4. CASE WriteResume(g)
  BY <1>4 DEF WriteResume
<1>5. CASE ReadUnlock(g)
  BY <1>5 DEF ReadUnlock, Woken
<1>6. CASE WriteUnlock(g)
  BY <1>6 DEF WriteUnlock, Woken
<1>7. CASE SpuriousWakeup(g)
  BY <1>7 DEF SpuriousWakeup
<1> QED BY <1>1, <1>2, <1>3, <1>4, <1>5, <1>6, <1>7 DEF Step

(* The counters stay exact, and the lock stays exclusive.                  *)
LEMMA StepCounters ==
    ASSUME IInv, NEW g \in Guards, Step(g)
    PROVE  TypeOK' /\ CountersExact' /\ Exclusive'
<1> USE DEF IInv
<1>1. st' \in [Guards -> States]
  BY StepMoves
<1> DEFINE Moved(S) ==
             /\ Cardinality(In(S)) \in Nat
             /\ st[g] \in S /\ st'[g] \in S
                  => Cardinality(In(S)') = Cardinality(In(S))
             /\ st[g] \notin S /\ st'[g] \notin S
                  => Cardinality(In(S)') = Cardinality(In(S))
             /\ st[g] \notin S /\ st'[g] \in S
                  => Cardinality(In(S)') = Cardinality(In(S)) + 1
             /\ st[g] \in S /\ st'[g] \notin S
                  => Cardinality(In(S)') = Cardinality(In(S)) - 1
<1>2. Moved({"reading"}) /\ Moved({"writing"})
      /\ Moved({"rWait", "rWoken"}) /\ Moved({"wWait", "wWoken"})
  BY StepMoves, CountersMove
<1>3. \A S : /\ Cardinality(In(S)) \in Nat
             /\ g \in In(S) => Cardinality(In(S)) >= 1
  BY CountZero DEF In
<1>4. \A S : g \in In(S) <=> st[g] \in S
  BY DEF In, Members
<1>5. g \in Guards /\ st \in [Guards -> States]
  BY DEF TypeOK
<1> USE DEF TypeOK, CountersExact, Exclusive, ReadMayEnter, WriteMayEnter
<1>11. CASE ReadLock(g)
  BY <1>1, <1>2, <1>5, <1>11 DEF ReadLock
<1>12. CASE ReadResume(g)
  BY <1>1, <1>2, <1>3, <1>4, <1>5, <1>12 DEF ReadResume
<1>13. CASE WriteLock(g)
  BY <1>1, <1>2, <1>5, <1>13 DEF WriteLock
<1>14. CASE WriteResume(g)
  BY <1>1, <1>2, <1>3, <1>4, <1>5, <1>14 DEF WriteResume
<1>15. CASE ReadUnlock(g)
  <2>1. st[g] = "reading" /\ st'[g] = "idle"
    BY <1>5, <1>15 DEF ReadUnlock, Woken
  <2>2. /\ nbReaders' = nbReaders - 1
        /\ UNCHANGED <<nbWriters, nbWaitingWriter, nbWaitingReader>>
    BY <1>15 DEF ReadUnlock
  <2>3. Cardinality(In({"reading"})) >= 1
    BY <1>3, <1>4, <2>1
  <2> QED BY <1>1, <1>2, <2>1, <2>2, <2>3
<1>16. CASE WriteUnlock(g)
  <2>1. st[g] = "writing" /\ st'[g] = "idle"
    BY <1>5, <1>16 DEF WriteUnlock, Woken
  <2>2. /\ nbWriters' = nbWriters - 1
        /\ UNCHANGED <<nbReaders, nbWaitingWriter, nbWaitingReader>>
    BY <1>16 DEF WriteUnlock
  <2>3. Cardinality(In({"writing"})) >= 1
    BY <1>3, <1>4, <2>1
  <2> QED BY <1>1, <1>2, <2>1, <2>2, <2>3
<1>17. CASE SpuriousWakeup(g)
  <2>1. \/ st[g] = "rWait" /\ st'[g] = "rWoken"
        \/ st[g] = "wWait" /\ st'[g] = "wWoken"
    BY <1>5, <1>17 DEF SpuriousWakeup
  <2> QED BY <1>1, <1>2, <2>1, <1>17 DEF SpuriousWakeup
<1> QED BY <1>11, <1>12, <1>13, <1>14, <1>15, <1>16, <1>17 DEF Step

(* No step loses a wakeup. The two unlocks broadcast on one condition only *)
(* and only if the counter of its waiters is not zero, so the proof needs  *)
(* the exact counters of the state before and after the step.              *)
LEMMA StepWakeups ==
    ASSUME IInv, NEW g \in Guards, Step(g)
    PROVE  NoLostWakeup'
<1> USE DEF IInv
<1>1. TypeOK' /\ CountersExact' /\ Exclusive'
  BY StepCounters
<1>2. \A S : Cardinality(In(S)) = 0 <=> In(S) = {}
  BY CountZero DEF In
<1>3. /\ \A S : \A k \in Guards : k \in In(S) <=> st[k] \in S
      /\ \A S : \A k \in Guards : k \in In(S)' <=> st'[k] \in S
      /\ \A S : In(S) \subseteq Guards /\ In(S)' \subseteq Guards
  BY DEF In, Members
<1>4. st \in [Guards -> States] /\ st' \in [Guards -> States]
  BY <1>1 DEF TypeOK
<1>5. /\ nbReaders \in Nat /\ nbWriters \in Nat
      /\ nbReaders' \in Nat /\ nbWriters' \in Nat
  BY <1>1 DEF TypeOK
<1> USE DEF NoLostWakeup, ReadMayEnter, WriteMayEnter
<1>11. CASE ReadLock(g)
  BY <1>1, <1>3, <1>4, <1>5, <1>11 DEF ReadLock, Exclusive
<1>12. CASE ReadResume(g)
  BY <1>1, <1>3, <1>4, <1>5, <1>12 DEF ReadResume, Exclusive
<1>13. CASE WriteLock(g)
  BY <1>1, <1>3, <1>4, <1>5, <1>13 DEF WriteLock, Exclusive
<1>14. CASE WriteResume(g)
  BY <1>1, <1>3, <1>4, <1>5, <1>14 DEF WriteResume, Exclusive
<1>15. CASE ReadUnlock(g)
  <2>1. nbWriters = 0 /\ nbWriters' = 0
    <3>1. In({"reading"}) # {}
      BY <1>3, <1>15 DEF ReadUnlock
    <3>2. nbReaders # 0
      BY <1>2, <3>1 DEF CountersExact
    <3> QED BY <1>5, <3>2, <1>15 DEF ReadUnlock, Exclusive
  <2>2. \A k \in Guards : st'[k] = "rWait" => st[k] = "rWait"
    BY <1>4, <1>15 DEF ReadUnlock, Woken
  <2>3. In({"rWait"})' = {}
    BY <1>3, <2>1, <2>2
  <2>4. ASSUME NEW k \in Guards, st'[k] = "wWait", nbReaders' = 0
        PROVE  FALSE
    <3>1. st[k] = "wWait"
      BY <1>4, <1>15, <2>4 DEF ReadUnlock, Woken
    <3>2. nbWaitingWriter # 0
      BY <1>2, <1>3, <3>1 DEF CountersExact
    <3> QED BY <1>4, <1>15, <2>4, <3>1, <3>2 DEF ReadUnlock, Woken
  <2> QED BY <1>3, <2>3, <2>4
<1>16. CASE WriteUnlock(g)
  <2>1. CASE nbWaitingReader # 0
    <3>1. PICK r \in Guards : st[r] \in {"rWait", "rWoken"}
      BY <1>2, <1>3, <2>1 DEF CountersExact
    <3>2. st' = Woken([st EXCEPT ![g] = "idle"], "rWait", "rWoken") /\ st[g] = "writing"
      BY <1>16, <2>1 DEF WriteUnlock
    <3>3. st'[r] = "rWoken"
      BY <1>4, <3>1, <3>2 DEF Woken
    <3>4. \A k \in Guards : st'[k] # "rWait"
      BY <1>4, <3>2 DEF Woken
    <3>5. In({"rWait"})' = {}
      BY <1>3, <3>4
    <3>6. r \in In({"rWoken", "wWoken"})'
      BY <1>3, <3>3
    <3> QED BY <3>5, <3>6
  <2>2. CASE nbWaitingReader = 0 /\ nbWaitingWriter # 0
    <3>1. \A k \in Guards : st[k] \notin {"rWait", "rWoken"}
      BY <1>2, <1>3, <2>2 DEF CountersExact
    <3>2. st' = Woken([st EXCEPT ![g] = "idle"], "wWait", "wWoken")
      BY <1>16, <2>2 DEF WriteUnlock
    <3>3. \A k \in Guards : st'[k] \notin {"rWait", "wWait"}
      BY <1>4, <3>1, <3>2 DEF Woken
    <3> QED BY <1>3, <3>3
  <2>3. CASE nbWaitingReader = 0 /\ nbWaitingWriter = 0
    <3>1. \A k \in Guards : /\ st[k] \notin {"rWait", "rWoken"}
                            /\ st[k] \notin {"wWait", "wWoken"}
      BY <1>2, <1>3, <2>3 DEF CountersExact
    <3>2. st' = [st EXCEPT ![g] = "idle"]
      BY <1>16, <2>3 DEF WriteUnlock
    <3>3. \A k \in Guards : st'[k] \notin {"rWait", "wWait"}
      BY <1>4, <3>1, <3>2
    <3> QED BY <1>3, <3>3
  <2> QED BY <2>1, <2>2, <2>3
<1>17. CASE SpuriousWakeup(g)
  BY <1>1, <1>3, <1>4, <1>5, <1>17 DEF SpuriousWakeup
<1> QED BY <1>11, <1>12, <1>13, <1>14, <1>15, <1>16, <1>17 DEF Step

(* The inductive invariant holds in every behaviour of the lock.           *)
THEOREM IInvHolds == Spec => []IInv
<1>1. Init => IInv
  <2> SUFFICES ASSUME Init PROVE IInv
    OBVIOUS
  <2>1. \A S : "idle" \notin S => In(S) = {}
    BY DEF Init, In, Members
  <2>2. Cardinality({}) = 0
    BY FS_EmptySet
  <2> QED BY <2>1, <2>2 DEF Init, IInv, TypeOK, States, CountersExact, Exclusive, NoLostWakeup
<1>2. IInv /\ [Next]_vars => IInv'
  <2>1. ASSUME IInv, Next PROVE IInv'
    BY <2>1, StepCounters, StepWakeups DEF Next, IInv
  <2>2. ASSUME IInv, UNCHANGED vars PROVE IInv'
    BY <2>2 DEF IInv, TypeOK, CountersExact, Exclusive, NoLostWakeup, In, Members, vars
  <2> QED BY <2>1, <2>2
<1> QED BY <1>1, <1>2, PTL DEF Spec

(* The state is well-typed: in particular neither of the counters of       *)
(* readers and writers ever goes below zero.                               *)
THEOREM TypesHold == Spec => []TypeOK
<1>1. IInv => TypeOK
  BY DEF IInv
<1> QED BY <1>1, IInvHolds, PTL

(* Exclusion as a fact about states, for the theorem and the refinement.   *)
LEMMA Excludes ==
    ASSUME IInv
    PROVE  MutualExclusion
<1> SUFFICES ASSUME NEW g \in Guards, NEW h \in Guards,
                    g # h, st[g] = "writing",
                    st[h] \in {"reading", "writing"}
             PROVE  FALSE
  BY DEF MutualExclusion
<1> USE DEF IInv, TypeOK, CountersExact, Exclusive
<1>1. g \in In({"writing"})
  BY DEF In, Members
<1>2. nbWriters # 0
  BY <1>1, CountZero DEF In
<1>3. CASE st[h] = "reading"
  <2>1. h \in In({"reading"})
    BY <1>3 DEF In, Members
  <2>2. nbReaders # 0
    BY <2>1, CountZero DEF In
  <2> QED BY <1>2, <2>2
<1>4. CASE st[h] = "writing"
  <2> DEFINE W == In({"writing"})
  <2>1. IsFiniteSet(W) /\ Cardinality(W) = 1
    BY <1>2, CountZero DEF In
  <2>2. h \in W /\ g \in W
    BY <1>1, <1>4 DEF In, Members
  <2> HIDE DEF W
  <2>3. \A x, y \in W : x = y
    BY <2>1, FS_Singleton
  <2> QED BY <2>2, <2>3
<1> QED BY <1>3, <1>4

(* A guard that writes excludes all the others.                            *)
THEOREM MutualExclusionHolds == Spec => []MutualExclusion
BY IInvHolds, Excludes, PTL

(* The CDMW_ASSERTs of ReaderWriterLock.cpp never fail.                    *)
THEOREM AssertionsHoldAlways == Spec => []AssertionsHold
<1>1. IInv => AssertionsHold
  <2> SUFFICES ASSUME IInv PROVE AssertionsHold
    OBVIOUS
  <2>1. \A S : Cardinality(In(S)) \in Nat /\ (Cardinality(In(S)) = 0 <=> In(S) = {})
    BY CountZero DEF In
  <2> QED BY <2>1 DEF IInv, TypeOK, CountersExact, Exclusive, AssertionsHold
<1> QED BY <1>1, IInvHolds, PTL

(* No wakeup is ever lost.                                                 *)
THEOREM NoLostWakeupHolds == Spec => []NoLostWakeup
BY IInvHolds, PTL DEF IInv

---------------------------------------------------------------------------
(* Every step of a guard is a step of the abstract lock or leaves its      *)
(* holders as they are.                                                    *)
LEMMA StepRefines ==
    ASSUME IInv, IInv', NEW g \in Guards, Step(g)
    PROVE  Lock!Next \/ UNCHANGED <<In({"reading"}), In({"writing"})>>
<1> DEFINE R == In({"reading"})
           W == In({"writing"})
<1>1. /\ nbReaders \in Nat /\ nbWriters \in Nat
      /\ nbReaders = 0 <=> R = {}
      /\ nbWriters = 0 <=> W = {}
  BY CountZero DEF IInv, TypeOK, CountersExact, In
<1>2. st \in [Guards -> States] /\ st' \in [Guards -> States]
  BY DEF IInv, TypeOK
<1>3. /\ R = {k \in Guards : st[k] = "reading"}
      /\ W = {k \in Guards : st[k] = "writing"}
      /\ R' = {k \in Guards : st'[k] = "reading"}
      /\ W' = {k \in Guards : st'[k] = "writing"}
  BY DEF In, Members
<1>4. /\ \A k \in Guards : k # g => (st'[k] = "reading" <=> st[k] = "reading")
      /\ \A k \in Guards : k # g => (st'[k] = "writing" <=> st[k] = "writing")
  BY StepMoves DEF IInv
<1> HIDE DEF R, W
<1>5. CASE st'[g] = "reading" /\ st[g] # "reading"
  <2>1. nbWriters = 0 /\ st[g] # "writing"
    BY <1>2, <1>5 DEF Step, ReadLock, ReadResume, WriteLock, WriteResume,
       ReadUnlock, WriteUnlock, SpuriousWakeup, Woken, ReadMayEnter
  <2>2. W = {} /\ g \notin R /\ R' = R \cup {g} /\ W' = W
    BY <1>1, <1>3, <1>4, <1>5, <2>1
  <2>3. Lock!AcquireRead(g)
    BY <2>2 DEF Lock!AcquireRead, R, W
  <2> QED BY <2>3 DEF Lock!Next
<1>6. CASE st'[g] = "writing" /\ st[g] # "writing"
  <2>1. nbWriters = 0 /\ nbReaders = 0
    BY <1>2, <1>6 DEF Step, ReadLock, ReadResume, WriteLock, WriteResume,
       ReadUnlock, WriteUnlock, SpuriousWakeup, Woken, WriteMayEnter
  <2>2. W = {} /\ R = {} /\ W' = {g} /\ R' = R
    BY <1>1, <1>3, <1>4, <1>6, <2>1
  <2>3. Lock!AcquireWrite(g)
    BY <2>2 DEF Lock!AcquireWrite, R, W
  <2> QED BY <2>3 DEF Lock!Next
<1>7. CASE st[g] = "reading" /\ st'[g] \notin {"reading", "writing"}
  <2>1. g \in R /\ R' = R \ {g} /\ W' = W
    BY <1>3, <1>4, <1>7
  <2>2. Lock!ReleaseRead(g)
    BY <2>1 DEF Lock!ReleaseRead, R, W
  <2> QED BY <2>2 DEF Lock!Next
<1>8. CASE st[g] = "writing" /\ st'[g] \notin {"reading", "writing"}
  <2>1. W = {g}
    BY <1>3, <1>8, Excludes DEF MutualExclusion
  <2>2. W' = {} /\ R' = R
    BY <1>3, <1>4, <1>8, <2>1
  <2>3. Lock!ReleaseWrite(g)
    BY <2>1, <2>2 DEF Lock!ReleaseWrite, R, W
  <2> QED BY <2>3 DEF Lock!Next
<1>9. CASE /\ st'[g] = "reading" <=> st[g] = "reading"
           /\ st'[g] = "writing" <=> st[g] = "writing"
  BY <1>3, <1>4, <1>9 DEF R, W
<1> QED BY <1>5, <1>6, <1>7, <1>8, <1>9

(* ReaderWriterLock implements the abstract lock: whatever interleaving of *)
(* waits, broadcasts and spurious wakeups happens behind it, its clients   *)
(* see a lock that readers share and that one writer has to itself.        *)
THEOREM ImplementsAbstractLock == Spec => ImplementsLock
<1>1. Init => Lock!Init
  BY DEF Init, Lock!Init, In, Members
<1>2. IInv /\ IInv' /\ [Next]_vars
        => [Lock!Next]_<<In({"reading"}), In({"writing"})>>
  <2>1. ASSUME IInv, IInv', Next
        PROVE  Lock!Next \/ UNCHANGED <<In({"reading"}), In({"writing"})>>
    BY <2>1, StepRefines DEF Next
  <2>2. ASSUME UNCHANGED vars
        PROVE  UNCHANGED <<In({"reading"}), In({"writing"})>>
    BY <2>2 DEF vars, In, Members
  <2> QED BY <2>1, <2>2
<1> QED BY <1>1, <1>2, IInvHolds, PTL DEF Spec, ImplementsLock, Lock!Spec
===========================================================================
