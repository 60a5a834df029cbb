-------------------------- MODULE TxDataStoreProofs --------------------------
(***************************************************************************)
(* Proofs about the thread-local transactions, for all threads, oids and   *)
(* data: a commit that the backups have accepted can be flushed, the       *)
(* backups hold what has been committed, and the whole is a map of each    *)
(* thread's own that is committed at once.                                 *)
(***************************************************************************)
EXTENDS TxDataStore, TLAPS, FiniteSetTheorems

\* A thread has changes of its own oids only.
OwnsChanges ==
    \A t \in Threads : \A o \in Oids :
        kind[t][o] # NoChange => o \in WriteSet[t]

\* Only a commit has something to flush, and only changes are flushed.
FlushStage ==
    \A t \in Threads :
        /\ unflushed[t] \subseteq Changed(t)
        /\ phase[t] # "flushing" => unflushed[t] = {}

\* A change fits the store until it has been flushed; then it is in the store.
Fitting ==
    \A t \in Threads : \A o \in Oids :
        kind[t][o] # NoChange =>
            IF phase[t] = "flushing" /\ o \notin unflushed[t]
            THEN store[o] = Change(t, o) ELSE Fits(t, o, store)

Base == TypeOK /\ OwnsChanges /\ FlushStage /\ Fitting

IInv == Base /\ FlushNeverThrows /\ BackupsHoldCommitted

-----------------------------------------------------------------------------
\* The write sets are disjoint: an oid has one writer.
LEMMA OneWriter ==
    ASSUME NEW t \in Threads, NEW o \in WriteSet[t]
    PROVE  /\ Writer(o) = t
           /\ \A u \in Threads : o \in WriteSet[u] => u = t
<1>1. \A u \in Threads : o \in WriteSet[u] => u = t
  BY ConstantsAssumption
<1>2. Writer(o) \in Threads /\ o \in WriteSet[Writer(o)]
  BY DEF Writer
<1> QED BY <1>1, <1>2

\* The first state.
LEMMA InitBase == Init => IInv
<1> SUFFICES ASSUME Init PROVE IInv
  OBVIOUS
<1>1. TypeOK
  <2>1. kind \in [Threads -> [Oids -> Kinds \cup {NoChange}]]
    BY DEF Init
  <2>2. data \in [Threads -> [Oids -> Data \cup {Absent}]]
    BY DEF Init
  <2>3. adjustment \in [Threads -> Int] /\ revived \in [Threads -> 0 .. MaxRevived]
    BY ConstantsAssumption DEF Init
  <2>4. \A t \in Threads : \A o \in Oids : kind[t][o] \notin {"INSERTION", "UPDATE"}
    BY DEF Init, NoChange
  <2>5. store \in [Oids -> Data \cup {Absent}] /\ copy = store
    BY DEF Init
  <2>6. /\ phase \in [Threads -> {"idle", "open", "flushing"}]
        /\ unflushed \in [Threads -> SUBSET Oids]
        /\ replicated \in BOOLEAN /\ terminated \in BOOLEAN
    BY DEF Init
  <2> QED BY <2>1, <2>2, <2>3, <2>4, <2>5, <2>6 DEF TypeOK
<1>2. OwnsChanges /\ FlushStage /\ Fitting
  BY DEF Init, OwnsChanges, FlushStage, Fitting, NoChange, Changed
<1>3. Committed = store
  BY DEF Init, Committed
<1> QED BY <1>1, <1>2, <1>3 DEF IInv, Base, Init, FlushNeverThrows, BackupsHoldCommitted

-----------------------------------------------------------------------------
\* What insert, update and remove have in common: one oid of an open
\* transaction gets the kind k and the data v.
CacheStep(t, o, k, v) ==
    /\ phase[t] = "open"
    /\ kind' = [kind EXCEPT ![t][o] = k]
    /\ data' = [data EXCEPT ![t][o] = v]
    /\ adjustment' \in [Threads -> Int] /\ revived' \in [Threads -> 0 .. MaxRevived]
    /\ UNCHANGED <<store, copy, replicated, phase, unflushed, terminated>>

\* ... where the kind fits the store.
Sensible(o, k, v) ==
    \/ k = "INSERTION" /\ v \in Data /\ store[o] = Absent
    \/ k = "UPDATE" /\ v \in Data /\ store[o] # Absent
    \/ k = "REMOVAL" /\ v = Absent /\ store[o] # Absent
    \/ k = NoChange /\ v = Absent /\ store[o] = Absent

\* A change of one cached oid that makes sense for the store keeps the
\* invariant and is the change of the thread's map.
LEMMA CacheStepFacts ==
    ASSUME IInv, NEW t \in Threads, NEW o \in WriteSet[t], NEW k, NEW v,
           CacheStep(t, o, k, v), Sensible(o, k, v)
    PROVE  IInv' /\ Map!Change(t, o, v) /\ v \in Data \cup {Absent}
<1>a. o \in Oids /\ k \in Kinds \cup {NoChange} /\ v \in Data \cup {Absent}
  BY ConstantsAssumption DEF Sensible, Kinds
<1>b. unflushed[t] = {}
  BY DEF IInv, Base, FlushStage, CacheStep
<1>c. /\ kind \in [Threads -> [Oids -> Kinds \cup {NoChange}]]
      /\ data \in [Threads -> [Oids -> Data \cup {Absent}]]
  BY DEF IInv, Base, TypeOK
<1>d. \A u \in Threads : \A p \in Oids :
         /\ kind'[u][p] = IF u = t /\ p = o THEN k ELSE kind[u][p]
         /\ data'[u][p] = IF u = t /\ p = o THEN v ELSE data[u][p]
  BY <1>a, <1>c DEF CacheStep
<1>1. TypeOK'
  <2>1. /\ kind' \in [Threads -> [Oids -> Kinds \cup {NoChange}]]
        /\ data' \in [Threads -> [Oids -> Data \cup {Absent}]]
    BY <1>a, <1>c DEF CacheStep
  <2>2. \A u \in Threads : \A p \in Oids :
           kind'[u][p] \in {"INSERTION", "UPDATE"} => data'[u][p] \in Data
    <3>1. \A u \in Threads : \A p \in Oids :
             kind[u][p] \in {"INSERTION", "UPDATE"} => data[u][p] \in Data
      BY DEF IInv, Base, TypeOK
    <3>2. k \in {"INSERTION", "UPDATE"} => v \in Data
      BY DEF Sensible, NoChange
    <3> QED BY ONLY <1>d, <3>1, <3>2
  <2> QED BY <2>1, <2>2 DEF IInv, Base, TypeOK, CacheStep
<1>2. OwnsChanges'
  BY <1>d DEF IInv, Base, OwnsChanges
<1>3. FlushStage'
  BY <1>b, <1>d DEF IInv, Base, FlushStage, Changed, CacheStep
<1>4. Fitting'
  BY <1>d DEF IInv, Base, Fitting, CacheStep, Sensible, Fits, Change, NoChange
<1>5. Committed' = Committed
  <2> SUFFICES ASSUME NEW p \in Oids
               PROVE  (IF \E u \in Threads : p \in unflushed[u]
                       THEN Change(Writer(p), p)' ELSE store[p])
                    = (IF \E u \in Threads : p \in unflushed[u]
                       THEN Change(Writer(p), p) ELSE store[p])
    BY DEF Committed, CacheStep
  <2>1. CASE \E u \in Threads : p \in unflushed[u]
    <3>1. PICK u \in Threads : p \in unflushed[u]
      BY <2>1
    <3>2. u # t /\ p \in WriteSet[u]
      BY <3>1, <1>b DEF IInv, Base, FlushStage, OwnsChanges, Changed
    <3>3. Writer(p) = u
      BY <3>2, OneWriter
    <3> QED BY <2>1, <3>2, <3>3, <1>d DEF Change
  <2> QED BY <2>1
<1>6. Map!Change(t, o, v)
  <2>1. View' = [View EXCEPT ![t][o] = v]
    <3>1. \A u \in Threads : \A p \in WriteSet[u] :
             select(u, p)' = IF u = t /\ p = o THEN v ELSE select(u, p)
      BY <1>d, ConstantsAssumption DEF select, Change, Sensible, CacheStep, NoChange
    <3> QED BY <3>1 DEF View
  <2> QED BY <2>1, <1>5 DEF Map!Change
<1> QED BY <1>1, <1>2, <1>3, <1>4, <1>5, <1>6, <1>a
        DEF IInv, Base, FlushNeverThrows, BackupsHoldCommitted, CacheStep

-----------------------------------------------------------------------------
\* insert, update and remove.
LEMMA ChangeStep ==
    ASSUME IInv, NEW t \in Threads, NEW o \in WriteSet[t],
           \/ \E d \in Data : insert(t, o, d) \/ update(t, o, d)
           \/ remove(t, o)
    PROVE  IInv' /\ Map!Next
<1>a. /\ o \in Oids
      /\ kind[t][o] \in Kinds \cup {NoChange}
      /\ adjustment \in [Threads -> Int] /\ revived \in [Threads -> 0 .. MaxRevived]
      /\ MaxRevived \in Nat
  BY ConstantsAssumption DEF IInv, Base, TypeOK
<1>b. kind[t][o] # NoChange /\ phase[t] = "open" => Fits(t, o, store)
  BY <1>a DEF IInv, Base, Fitting
<1> SUFFICES \E k, v : CacheStep(t, o, k, v) /\ Sensible(o, k, v)
  <2>1. PICK k, v : CacheStep(t, o, k, v) /\ Sensible(o, k, v)
    OBVIOUS
  <2>2. IInv' /\ Map!Change(t, o, v) /\ v \in Data \cup {Absent}
    BY <2>1, CacheStepFacts
  <2> QED BY <2>2 DEF Map!Next
<1>1. ASSUME NEW d \in Data, insert(t, o, d)
      PROVE  \E k, v : CacheStep(t, o, k, v) /\ Sensible(o, k, v)
  <2> DEFINE k == IF kind[t][o] = NoChange THEN "INSERTION" ELSE "UPDATE"
  <2>1. CacheStep(t, o, k, d)
    BY <1>1, <1>a DEF insert, CacheStep
  <2>2. Sensible(o, k, d)
    BY <1>1, <1>a, <1>b DEF insert, contains, Sensible, Fits, Kinds, NoChange
  <2> QED BY <2>1, <2>2
<1>2. ASSUME NEW d \in Data, update(t, o, d)
      PROVE  \E k, v : CacheStep(t, o, k, v) /\ Sensible(o, k, v)
  <2> DEFINE k == IF kind[t][o] = "INSERTION" THEN kind[t][o] ELSE "UPDATE"
  <2>1. revived' \in [Threads -> 0 .. MaxRevived]
    BY <1>2, <1>a DEF update
  <2>2. CacheStep(t, o, k, d)
    BY <1>2, <1>a, <2>1 DEF update, CacheStep
  <2>3. Sensible(o, k, d)
    BY <1>2, <1>a, <1>b DEF update, contains, Sensible, Fits, Kinds, NoChange
  <2> QED BY <2>2, <2>3
<1>3. ASSUME remove(t, o)
      PROVE  \E k, v : CacheStep(t, o, k, v) /\ Sensible(o, k, v)
  <2> DEFINE k == IF kind[t][o] = "INSERTION" THEN NoChange ELSE "REMOVAL"
  <2>1. CacheStep(t, o, k, Absent)
    BY <1>3, <1>a DEF remove, RemoveAs, CacheStep
  <2>2. Sensible(o, k, Absent)
    BY <1>3, <1>a, <1>b DEF remove, RemoveAs, contains, Sensible, Fits, Kinds, NoChange
  <2> QED BY <2>1, <2>2
<1> QED BY <1>1, <1>2, <1>3

-----------------------------------------------------------------------------
\* A transaction is opened, or ends with its changes kept.
LEMMA PhaseStep ==
    ASSUME IInv, NEW t \in Threads, begin(t) \/ CommitRefused(t)
    PROVE  IInv' /\ UNCHANGED <<Committed, View>>
<1>1. /\ phase[t] \in {"idle", "open"}
      /\ phase' = [phase EXCEPT ![t] = phase'[t]]
      /\ phase'[t] \in {"idle", "open"}
      /\ UNCHANGED <<store, copy, replicated, cacheVars, unflushed, terminated>>
  BY DEF begin, CommitRefused, IInv, Base, TypeOK
<1>2. TypeOK'
  BY <1>1 DEF IInv, Base, TypeOK, cacheVars
<1>3. OwnsChanges' /\ FlushStage' /\ Fitting'
  BY <1>1 DEF IInv, Base, TypeOK, OwnsChanges, FlushStage, Fitting, Changed, Change, Fits, cacheVars
<1>4. UNCHANGED <<Committed, View>>
  BY <1>1 DEF Committed, View, Change, select, cacheVars
<1> QED BY <1>1, <1>2, <1>3, <1>4 DEF IInv, Base, FlushNeverThrows, BackupsHoldCommitted

\* The last backup fails: what is committed and what threads see stay.
LEMMA LoseBackupsStep ==
    ASSUME IInv, LoseBackups
    PROVE  IInv' /\ UNCHANGED <<Committed, View>>
<1>1. TypeOK'
  BY DEF IInv, Base, TypeOK, LoseBackups, cacheVars
<1>2. OwnsChanges' /\ FlushStage' /\ Fitting'
  BY DEF IInv, Base, LoseBackups, OwnsChanges, FlushStage, Fitting, Changed, Change, Fits, cacheVars
<1>3. UNCHANGED <<Committed, View>>
  BY DEF LoseBackups, Committed, View, Change, select, cacheVars
<1> QED BY <1>1, <1>2, <1>3 DEF IInv, Base, LoseBackups, FlushNeverThrows, BackupsHoldCommitted

-----------------------------------------------------------------------------
\* The point at which a transaction takes effect.
LEMMA CommitAcceptedStep ==
    ASSUME IInv, NEW t \in Threads, CommitAccepted(t)
    PROVE  IInv' /\ Map!Commit(t)
<1>a. /\ phase[t] = "open" /\ unflushed[t] = {}
      /\ phase' = [phase EXCEPT ![t] = "flushing"]
      /\ unflushed' = [unflushed EXCEPT ![t] = Changed(t)]
      /\ UNCHANGED <<store, replicated, kind, data, adjustment, revived, terminated>>
  BY DEF CommitAccepted, cacheVars, IInv, Base, FlushStage
<1>b. /\ phase \in [Threads -> {"idle", "open", "flushing"}]
      /\ unflushed \in [Threads -> SUBSET Oids]
  BY DEF IInv, Base, TypeOK
<1>c. \A u \in Threads : /\ unflushed'[u] = IF u = t THEN Changed(t) ELSE unflushed[u]
                         /\ phase'[u] = IF u = t THEN "flushing" ELSE phase[u]
  BY <1>a, <1>b
<1>d. \A o \in Changed(t) : o \in WriteSet[t] /\ o \in Oids
  BY DEF IInv, Base, OwnsChanges, Changed
<1>1. Committed' = [o \in Oids |-> IF o \in Changed(t) THEN Change(t, o) ELSE Committed[o]]
  <2> SUFFICES ASSUME NEW o \in Oids
               PROVE  Committed'[o] = IF o \in Changed(t) THEN Change(t, o) ELSE Committed[o]
    BY DEF Committed
  <2>1. CASE o \in Changed(t)
    <3>1. Writer(o) = t
      BY <2>1, <1>d, OneWriter
    <3>2. \E u \in Threads : o \in unflushed'[u]
      BY <2>1, <1>c
    <3> QED BY <2>1, <3>1, <3>2, <1>a DEF Committed, Change
  <2>2. CASE o \notin Changed(t)
    <3>1. (\E u \in Threads : o \in unflushed'[u]) <=> (\E u \in Threads : o \in unflushed[u])
      BY <2>2, <1>a, <1>c
    <3> QED BY <2>2, <3>1, <1>a DEF Committed, Change
  <2> QED BY <2>1, <2>2
<1>2. TypeOK'
  <2>1. copy' \in [Oids -> Data \cup {Absent}]
    BY DEF CommitAccepted, IInv, Base, TypeOK, Change
  <2>2. Changed(t) \subseteq Oids
    BY DEF Changed
  <2>3. /\ phase' \in [Threads -> {"idle", "open", "flushing"}]
        /\ unflushed' \in [Threads -> SUBSET Oids]
    BY <1>a, <1>b, <2>2
  <2> QED BY <2>1, <2>3, <1>a DEF IInv, Base, TypeOK
<1>3. OwnsChanges'
  BY <1>a DEF IInv, Base, OwnsChanges
<1>e. \A u \in Threads : Changed(u)' = Changed(u)
  BY <1>a DEF Changed
<1>f. FlushStage'
  BY <1>c, <1>e DEF IInv, Base, FlushStage
<1>4. Fitting'
  <2> SUFFICES ASSUME NEW u \in Threads, NEW o \in Oids, kind[u][o] # NoChange
               PROVE  IF phase'[u] = "flushing" /\ o \notin unflushed'[u]
                      THEN store[o] = Change(u, o) ELSE Fits(u, o, store)
    BY <1>a DEF Fitting, Change, Fits
  <2>1. IF phase[u] = "flushing" /\ o \notin unflushed[u]
        THEN store[o] = Change(u, o) ELSE Fits(u, o, store)
    BY DEF IInv, Base, Fitting
  <2>2. CASE u = t
    <3>1. o \in unflushed'[u]
      BY <2>2, <1>c DEF Changed
    <3>2. phase[u] # "flushing"
      BY <2>2, <1>a
    <3> QED BY <2>1, <3>1, <3>2
  <2>3. CASE u # t
    BY <2>1, <2>3, <1>c
  <2> QED BY <2>2, <2>3
<1>5. BackupsHoldCommitted'
  BY <1>1, <1>a DEF CommitAccepted, IInv, BackupsHoldCommitted
<1>6. Map!Commit(t)
  <2>1. \A o \in WriteSet[t] : View[t][o] = IF o \in Changed(t) THEN Change(t, o) ELSE Committed[o]
    <3> SUFFICES ASSUME NEW o \in WriteSet[t]
                 PROVE  View[t][o] = IF o \in Changed(t) THEN Change(t, o) ELSE Committed[o]
      OBVIOUS
    <3>1. o \in Oids
      BY ConstantsAssumption
    <3>2. View[t][o] = select(t, o)
      BY DEF View
    <3>3. \A u \in Threads : o \notin unflushed[u]
      BY <1>a, <3>1, OneWriter DEF IInv, Base, FlushStage, OwnsChanges, Changed
    <3>4. Committed[o] = store[o]
      BY <3>1, <3>3 DEF Committed
    <3> QED BY <3>1, <3>2, <3>4 DEF select, Changed
  <2>2. Committed' = [o \in Oids |-> IF o \in WriteSet[t] THEN View[t][o] ELSE Committed[o]]
    BY <1>1, <1>d, <2>1
  <2>3. View' = View
    BY <1>a DEF View, select, Change
  <2> QED BY <2>2, <2>3 DEF Map!Commit
<1> QED BY <1>2, <1>3, <1>4, <1>5, <1>6, <1>a, <1>f DEF IInv, Base, FlushNeverThrows

-----------------------------------------------------------------------------
\* A record is flushed: the store takes it, nobody notices.
LEMMA FlushRecordStep ==
    ASSUME IInv, NEW t \in Threads, NEW o \in Oids, FlushRecord(t, o)
    PROVE  IInv' /\ UNCHANGED <<Committed, View>>
<1>a. /\ o \in unflushed[t] /\ o \in WriteSet[t] /\ kind[t][o] # NoChange
      /\ phase[t] = "flushing"
      /\ Fits(t, o, store)
  <2>1. o \in unflushed[t] /\ kind[t][o] # NoChange /\ phase[t] = "flushing"
    BY DEF FlushRecord, IInv, Base, FlushStage, Changed
  <2> QED BY <2>1 DEF IInv, Base, OwnsChanges, Fitting
<1>b. /\ store' = [store EXCEPT ![o] = Change(t, o)]
      /\ unflushed' = [unflushed EXCEPT ![t] = unflushed[t] \ {o}]
      /\ UNCHANGED <<copy, replicated, phase, kind, data, adjustment, revived, terminated>>
  BY <1>a DEF FlushRecord, cacheVars
<1>c. /\ store \in [Oids -> Data \cup {Absent}]
      /\ unflushed \in [Threads -> SUBSET Oids]
      /\ Change(t, o) \in Data \cup {Absent}
  BY DEF IInv, Base, TypeOK, Change
<1>d. /\ \A p \in Oids : store'[p] = IF p = o THEN Change(t, o) ELSE store[p]
      /\ \A u \in Threads : unflushed'[u] = IF u = t THEN unflushed[t] \ {o} ELSE unflushed[u]
  BY <1>b, <1>c
<1>e. \A u \in Threads : kind[u][o] # NoChange => u = t
  BY <1>a, OneWriter DEF IInv, Base, OwnsChanges
<1>f. \A u \in Threads : \A p \in Oids : Change(u, p)' = Change(u, p)
  BY <1>b DEF Change
<1>1. TypeOK'
  BY <1>b, <1>c DEF IInv, Base, TypeOK
<1>2. OwnsChanges'
  BY <1>b DEF IInv, Base, OwnsChanges
<1>3. FlushStage'
  <2>1. \A u \in Threads : Changed(u)' = Changed(u)
    BY <1>b DEF Changed
  <2> QED BY <1>a, <1>b, <1>d, <2>1 DEF IInv, Base, FlushStage
<1>4. Fitting'
  <2> SUFFICES ASSUME NEW u \in Threads, NEW p \in Oids, kind[u][p] # NoChange
               PROVE  IF phase[u] = "flushing" /\ p \notin unflushed'[u]
                      THEN store'[p] = Change(u, p) ELSE Fits(u, p, store')
    BY <1>b, <1>f DEF Fitting, Fits
  <2>1. IF phase[u] = "flushing" /\ p \notin unflushed[u]
        THEN store[p] = Change(u, p) ELSE Fits(u, p, store)
    BY DEF IInv, Base, Fitting
  <2>2. CASE p = o
    BY <2>2, <1>a, <1>d, <1>e
  <2>3. CASE p # o
    BY <2>1, <2>3, <1>d DEF Fits
  <2> QED BY <2>2, <2>3
<1>5. Committed' = Committed
  <2> SUFFICES ASSUME NEW p \in Oids PROVE Committed'[p] = Committed[p]
    BY DEF Committed
  <2>1. CASE p = o
    <3>1. \A u \in Threads : o \notin unflushed'[u]
      BY <1>d, <1>e DEF IInv, Base, FlushStage, Changed
    <3>2. Writer(o) = t
      BY <1>a, OneWriter
    <3> QED BY <2>1, <3>1, <3>2, <1>a, <1>d DEF Committed
  <2>2. CASE p # o
    <3>1. (\E u \in Threads : p \in unflushed'[u]) <=> (\E u \in Threads : p \in unflushed[u])
      BY <2>2, <1>d
    <3>2. Change(Writer(p), p)' = Change(Writer(p), p)
      BY <1>b DEF Change
    <3> QED BY <2>2, <3>1, <3>2, <1>d DEF Committed
  <2> QED BY <2>1, <2>2
<1>6. View' = View
  <2>1. \A u \in Threads : \A p \in WriteSet[u] : select(u, p)' = select(u, p)
    BY <1>a, <1>b, <1>d, <1>f, OneWriter, ConstantsAssumption DEF select
  <2> QED BY <2>1 DEF View
<1> QED BY <1>1, <1>2, <1>3, <1>4, <1>5, <1>6, <1>b
        DEF IInv, Base, FlushNeverThrows, BackupsHoldCommitted

-----------------------------------------------------------------------------
\* The changes are dropped, by rollback or since they are in the store: the
\* thread sees the committed contents.
LEMMA ClearStep ==
    ASSUME IInv, NEW t \in Threads, CommitReturns(t) \/ rollback(t)
    PROVE  IInv' /\ Map!Rollback(t)
<1>a. /\ unflushed[t] = {}
      /\ clear_cache(t)
      /\ phase' = [phase EXCEPT ![t] = "idle"]
      /\ UNCHANGED <<store, copy, replicated, unflushed, terminated>>
  BY DEF CommitReturns, rollback, IInv, Base, FlushStage
<1>b. /\ kind \in [Threads -> [Oids -> Kinds \cup {NoChange}]]
      /\ data \in [Threads -> [Oids -> Data \cup {Absent}]]
      /\ adjustment \in [Threads -> Int] /\ revived \in [Threads -> 0 .. MaxRevived]
      /\ phase \in [Threads -> {"idle", "open", "flushing"}]
  BY DEF IInv, Base, TypeOK
<1>c. /\ \A u \in Threads : \A p \in Oids :
            /\ kind'[u][p] = IF u = t THEN NoChange ELSE kind[u][p]
            /\ data'[u][p] = IF u = t THEN Absent ELSE data[u][p]
      /\ \A u \in Threads : phase'[u] = IF u = t THEN "idle" ELSE phase[u]
  BY <1>a, <1>b DEF clear_cache
<1>1. TypeOK'
  <2>1. /\ kind' \in [Threads -> [Oids -> Kinds \cup {NoChange}]]
        /\ data' \in [Threads -> [Oids -> Data \cup {Absent}]]
    BY <1>a, <1>b DEF clear_cache
  <2>2. adjustment' \in [Threads -> Int] /\ revived' \in [Threads -> 0 .. MaxRevived]
    BY <1>a, <1>b, ConstantsAssumption DEF clear_cache
  <2>3. \A u \in Threads : \A p \in Oids :
           kind'[u][p] \in {"INSERTION", "UPDATE"} => data'[u][p] \in Data
    BY <1>c DEF IInv, Base, TypeOK, NoChange
  <2>4. phase' \in [Threads -> {"idle", "open", "flushing"}]
    BY <1>a, <1>b
  <2> QED BY <2>1, <2>2, <2>3, <2>4, <1>a DEF IInv, Base, TypeOK
<1>2. OwnsChanges'
  BY <1>c DEF IInv, Base, OwnsChanges
<1>3. FlushStage'
  BY <1>a, <1>c DEF IInv, Base, FlushStage, Changed
<1>4. Fitting'
  BY <1>a, <1>c DEF IInv, Base, Fitting, Change, Fits
<1>5. Committed' = Committed
  <2> SUFFICES ASSUME NEW p \in Oids PROVE Committed'[p] = Committed[p]
    BY DEF Committed
  <2>1. CASE \E u \in Threads : p \in unflushed[u]
    <3>1. PICK u \in Threads : p \in unflushed[u]
      BY <2>1
    <3>2. u # t /\ p \in WriteSet[u]
      BY <3>1, <1>a DEF IInv, Base, FlushStage, OwnsChanges, Changed
    <3>3. Writer(p) = u
      BY <3>2, OneWriter
    <3>4. Change(Writer(p), p)' = Change(Writer(p), p)
      BY <3>2, <3>3, <1>c DEF Change
    <3> QED BY <2>1, <3>4, <1>a DEF Committed
  <2>2. CASE ~ \E u \in Threads : p \in unflushed[u]
    BY <2>2, <1>a DEF Committed
  <2> QED BY <2>1, <2>2
<1>6. Map!Rollback(t)
  <2>1. \A p \in WriteSet[t] : Committed[p] = store[p]
    <3> SUFFICES ASSUME NEW p \in WriteSet[t] PROVE Committed[p] = store[p]
      OBVIOUS
    <3>1. p \in Oids
      BY ConstantsAssumption
    <3>2. \A u \in Threads : p \notin unflushed[u]
      BY <1>a, <3>1, OneWriter DEF IInv, Base, FlushStage, OwnsChanges, Changed
    <3> QED BY <3>1, <3>2 DEF Committed
  <2>2. \A u \in Threads : \A p \in WriteSet[u] :
           select(u, p)' = IF u = t THEN store[p] ELSE select(u, p)
    BY <1>a, <1>c, ConstantsAssumption DEF select, Change
  <2>3. View' = [View EXCEPT ![t] = [p \in WriteSet[t] |-> Committed[p]]]
    BY <2>1, <2>2 DEF View
  <2> QED BY <2>3, <1>5 DEF Map!Rollback
<1> QED BY <1>1, <1>2, <1>3, <1>4, <1>5, <1>6, <1>a
        DEF IInv, Base, FlushNeverThrows, BackupsHoldCommitted

-----------------------------------------------------------------------------
\* Every step keeps the invariant and is one of TransactionalMap or a stutter.
LEMMA NextStep ==
    ASSUME IInv, [Next]_vars
    PROVE  IInv' /\ [Map!Next]_(Map!vars)
<1>1. CASE UNCHANGED vars
  <2>1. TypeOK'
    BY <1>1 DEF IInv, Base, TypeOK, vars, cacheVars
  <2>2. OwnsChanges' /\ FlushStage' /\ Fitting'
    BY <1>1 DEF IInv, Base, OwnsChanges, FlushStage, Fitting, Changed, Change, Fits, vars, cacheVars
  <2>3. UNCHANGED <<Committed, View>>
    BY <1>1 DEF Committed, View, Change, select, vars, cacheVars
  <2>4. FlushNeverThrows' /\ BackupsHoldCommitted'
    BY <1>1, <2>3 DEF IInv, FlushNeverThrows, BackupsHoldCommitted, vars
  <2> QED BY <2>1, <2>2, <2>3, <2>4 DEF IInv, Base, Map!vars
<1>2. CASE LoseBackups
  BY <1>2, LoseBackupsStep DEF Map!vars
<1>3. ASSUME NEW t \in Threads, Step(t)
      PROVE  IInv' /\ [Map!Next]_(Map!vars)
  <2>1. CASE begin(t) \/ CommitRefused(t)
    BY <2>1, PhaseStep DEF Map!vars
  <2>2. ASSUME NEW o \in WriteSet[t],
               \/ \E d \in Data : insert(t, o, d) \/ update(t, o, d)
               \/ remove(t, o)
        PROVE  IInv' /\ [Map!Next]_(Map!vars)
    BY <2>2, ChangeStep
  <2>3. CASE CommitAccepted(t)
    BY <2>3, CommitAcceptedStep DEF Map!Next
  <2>4. ASSUME NEW o \in Oids, FlushRecord(t, o)
        PROVE  IInv' /\ [Map!Next]_(Map!vars)
    BY <2>4, FlushRecordStep DEF Map!vars
  <2>5. CASE CommitReturns(t) \/ rollback(t)
    BY <2>5, ClearStep DEF Map!Next
  <2> QED BY <1>3, <2>1, <2>2, <2>3, <2>4, <2>5 DEF Step
<1> QED BY <1>1, <1>2, <1>3 DEF Next

-----------------------------------------------------------------------------
\* The inductive invariant holds in every state.
THEOREM Invariance == Spec => []IInv
<1>1. IInv /\ [Next]_vars => IInv'
  BY NextStep
<1> QED BY InitBase, <1>1, PTL DEF Spec

\* The state is well-typed: in particular an oid that is to be inserted or
\* updated has data.
THEOREM TypesHold == Spec => []TypeOK
<1>1. IInv => TypeOK
  BY DEF IInv, Base
<1> QED BY <1>1, Invariance, PTL

\* flush never meets a record that insert_local, update_local or remove_local
\* refuses, so an accepted commit is applied in full at the primary.
THEOREM FlushIsTotal == Spec => []FlushNeverThrows
<1>1. IInv => FlushNeverThrows
  BY DEF IInv
<1> QED BY <1>1, Invariance, PTL

\* The backups hold what the primary will hold when its flushes are done.
THEOREM BackupsInStep == Spec => []BackupsHoldCommitted
<1>1. IInv => BackupsHoldCommitted
  BY DEF IInv
<1> QED BY <1>1, Invariance, PTL

\* do_for_each visits exactly the oids that contains finds.
THEOREM ReadersAgree == Spec => []ForEachIsView
<1>1. IInv => ForEachIsView
  <2> SUFFICES ASSUME IInv, NEW t \in Threads, phase[t] = "open", NEW o \in Oids
               PROVE  o \in do_for_each(t) <=> contains(t, o)
    BY DEF ForEachIsView, do_for_each, Stored
  <2>1. kind[t][o] # NoChange => Fits(t, o, store)
    BY DEF IInv, Base, Fitting
  <2>2. kind[t][o] \in Kinds \cup {NoChange}
    BY DEF IInv, Base, TypeOK
  <2> QED BY <2>1, <2>2 DEF do_for_each, contains, Stored, Fits, Kinds, NoChange
<1> QED BY <1>1, Invariance, PTL

\* TXManager and TXDataStore implement maps that are committed at once.
THEOREM ImplementsTransactionalMap == Spec => ImplementsMap
<1>1. Init => Map!Init
  BY ConstantsAssumption DEF Init, Map!Init, Committed, View, select, NoChange
<1>2. IInv /\ [Next]_vars => [Map!Next]_(Map!vars)
  BY NextStep
<1> QED BY <1>1, <1>2, Invariance, PTL DEF Spec, ImplementsMap, Map!Spec
-----------------------------------------------------------------------------
(* What size counts.  A removed oid is subtracted, an inserted one added; an *)
(* update of a removed oid makes it neither, and leaves the sum as it was.  *)

OfKind(t, k) == {o \in Oids : kind[t][o] = k}

\* The size adjustment is explained by the changes, and everything counted is
\* finite: Oids itself need not be.
Accounting ==
    /\ IsFiniteSet(Stored)
    /\ \A t \in Threads :
          /\ IsFiniteSet(OfKind(t, "INSERTION"))
          /\ IsFiniteSet(OfKind(t, "REMOVAL"))
          /\ adjustment[t] = Cardinality(OfKind(t, "INSERTION"))
                                - Cardinality(OfKind(t, "REMOVAL")) - revived[t]

\* A thread's oid gets the kind k, the adjustment is changed by plus and the
\* number of revived oids by more.
Counted(t, o, k, plus, more) ==
    /\ kind' = [kind EXCEPT ![t][o] = k]
    /\ adjustment' = [adjustment EXCEPT ![t] = adjustment[t] + plus]
    /\ revived' = [revived EXCEPT ![t] = revived[t] + more]
    /\ store' = store
    /\ plus + more = (IF k = "INSERTION" THEN 1 ELSE 0)
                     - (IF kind[t][o] = "INSERTION" THEN 1 ELSE 0)
                     - (IF k = "REMOVAL" THEN 1 ELSE 0)
                     + (IF kind[t][o] = "REMOVAL" THEN 1 ELSE 0)

\* The adjustment stays explained when it changes with the kind.
LEMMA Recount ==
    ASSUME IInv, Accounting, NEW t \in Threads, NEW o \in Oids, NEW k,
           NEW plus \in Int, NEW more \in Int, Counted(t, o, k, plus, more)
    PROVE  Accounting'
<1> DEFINE Count(u, c) == Cardinality(OfKind(u, c))
<1>1. /\ kind \in [Threads -> [Oids -> Kinds \cup {NoChange}]]
      /\ adjustment \in [Threads -> Int] /\ revived \in [Threads -> 0 .. MaxRevived]
      /\ MaxRevived \in Nat
  BY ConstantsAssumption DEF IInv, Base, TypeOK
<1>0. /\ kind' = [kind EXCEPT ![t][o] = k]
      /\ adjustment' = [adjustment EXCEPT ![t] = adjustment[t] + plus]
      /\ revived' = [revived EXCEPT ![t] = revived[t] + more]
      /\ store' = store
  BY DEF Counted
<1>2. \A u \in Threads : \A p \in Oids : kind'[u][p] = IF u = t /\ p = o THEN k ELSE kind[u][p]
  BY <1>0, <1>1
<1>3. \A u \in Threads \ {t} : \A c : OfKind(u, c)' = OfKind(u, c)
  BY <1>2 DEF OfKind
<1>4. ASSUME NEW c \in {"INSERTION", "REMOVAL"}
      PROVE  /\ IsFiniteSet(OfKind(t, c)')
             /\ Count(t, c) \in Int /\ Count(t, c)' \in Int
             /\ Count(t, c)' = Count(t, c) + (IF k = c THEN 1 ELSE 0)
                                           - (IF kind[t][o] = c THEN 1 ELSE 0)
  <2> DEFINE S == OfKind(t, c)
  <2>1. IsFiniteSet(S) /\ (o \in S <=> kind[t][o] = c)
    BY <1>4 DEF Accounting, OfKind
  <2>2. S' = IF k = c THEN S \cup {o} ELSE S \ {o}
    BY <1>2 DEF OfKind
  <2> HIDE DEF S
  <2>3. Cardinality(S) \in Nat
    BY <2>1, FS_CardinalityType
  <2>4. /\ IsFiniteSet(S \cup {o})
        /\ Cardinality(S \cup {o}) = IF o \in S THEN Cardinality(S) ELSE Cardinality(S) + 1
    BY <2>1, FS_AddElement
  <2>5. /\ IsFiniteSet(S \ {o})
        /\ Cardinality(S \ {o}) = IF o \in S THEN Cardinality(S) - 1 ELSE Cardinality(S)
    BY <2>1, FS_RemoveElement
  <2>6. /\ IsFiniteSet(S')
        /\ Cardinality(S') = Cardinality(S) + (IF k = c THEN 1 ELSE 0)
                                            - (IF kind[t][o] = c THEN 1 ELSE 0)
    <3>1. CASE k = c
      BY <3>1, <2>1, <2>2, <2>3, <2>4
    <3>2. CASE k # c
      BY <3>2, <2>1, <2>2, <2>3, <2>5
    <3> QED BY <3>1, <3>2
  <2> QED BY <2>3, <2>6 DEF S
<1>5. /\ adjustment'[t] = adjustment[t] + plus /\ revived'[t] = revived[t] + more
      /\ adjustment[t] \in Int /\ revived[t] \in Int
      /\ \A u \in Threads \ {t} : adjustment'[u] = adjustment[u] /\ revived'[u] = revived[u]
  BY <1>0, <1>1
<1>6. adjustment[t] = Count(t, "INSERTION") - Count(t, "REMOVAL") - revived[t]
  BY DEF Accounting
<1> HIDE DEF Count
<1>7. adjustment'[t] = Count(t, "INSERTION")' - Count(t, "REMOVAL")' - revived'[t]
  <2>1. Count(t, "INSERTION")' = Count(t, "INSERTION") + (IF k = "INSERTION" THEN 1 ELSE 0)
                                     - (IF kind[t][o] = "INSERTION" THEN 1 ELSE 0)
    BY <1>4
  <2>2. Count(t, "REMOVAL")' = Count(t, "REMOVAL") + (IF k = "REMOVAL" THEN 1 ELSE 0)
                                     - (IF kind[t][o] = "REMOVAL" THEN 1 ELSE 0)
    BY <1>4
  <2>3. Count(t, "INSERTION") \in Int /\ Count(t, "REMOVAL") \in Int
    BY <1>4
  <2> QED BY <2>1, <2>2, <2>3, <1>5, <1>6 DEF Counted
<1>8. IsFiniteSet(Stored)'
  BY <1>0 DEF Accounting, Stored
<1>9. ASSUME NEW u \in Threads
      PROVE  (/\ IsFiniteSet(OfKind(u, "INSERTION"))
              /\ IsFiniteSet(OfKind(u, "REMOVAL"))
              /\ adjustment[u] = Cardinality(OfKind(u, "INSERTION"))
                                    - Cardinality(OfKind(u, "REMOVAL")) - revived[u])'
  <2>1. CASE u = t
    BY <2>1, <1>4, <1>7 DEF Count
  <2>2. CASE u # t
    BY <2>2, <1>3, <1>5 DEF Accounting
  <2> QED BY <2>1, <2>2
<1> QED BY <1>8, <1>9 DEF Accounting

\* The operations change the adjustment by what they change of the contents,
\* but for the update of a removed oid.
LEMMA ChangeAccounting ==
    ASSUME IInv, Accounting, NEW t \in Threads, NEW o \in WriteSet[t],
           \/ \E d \in Data : insert(t, o, d) \/ update(t, o, d)
           \/ remove(t, o)
    PROVE  Accounting'
<1>1. /\ o \in Oids /\ kind[t][o] \in Kinds \cup {NoChange}
      /\ kind \in [Threads -> [Oids -> Kinds \cup {NoChange}]]
      /\ adjustment \in [Threads -> Int] /\ revived \in [Threads -> 0 .. MaxRevived]
      /\ MaxRevived \in Nat
  BY ConstantsAssumption DEF IInv, Base, TypeOK
<1>2. ASSUME NEW d \in Data, insert(t, o, d)
      PROVE  Accounting'
  <2> DEFINE k == IF kind[t][o] = NoChange THEN "INSERTION" ELSE "UPDATE"
  <2>1. kind[t][o] \in {NoChange, "REMOVAL"}
    BY <1>2 DEF insert, contains
  <2>2. Counted(t, o, k, 1, 0)
    BY <1>1, <1>2, <2>1 DEF insert, Counted, NoChange
  <2> HIDE DEF k
  <2> QED BY <1>1, <2>2, Recount
<1>3. ASSUME NEW d \in Data, update(t, o, d)
      PROVE  Accounting'
  <2> DEFINE k == IF kind[t][o] = "INSERTION" THEN kind[t][o] ELSE "UPDATE"
  <2>1. CASE kind[t][o] = "REMOVAL"
    <3>1. Counted(t, o, k, 0, 1)
      BY <1>1, <1>3, <2>1 DEF update, Counted
    <3> HIDE DEF k
    <3> QED BY <1>1, <3>1, Recount
  <2>2. CASE kind[t][o] # "REMOVAL"
    <3>1. /\ revived' = [revived EXCEPT ![t] = revived[t] + 0]
          /\ adjustment' = [adjustment EXCEPT ![t] = adjustment[t] + 0]
      <4>1. revived[t] + 0 = revived[t] /\ adjustment[t] + 0 = adjustment[t]
        BY <1>1
      <4>2. revived' = revived /\ adjustment' = adjustment
        BY <1>1, <1>3, <2>2 DEF update
      <4> QED BY <1>1, <4>1, <4>2
    <3>2. Counted(t, o, k, 0, 0)
      <4>1. kind' = [kind EXCEPT ![t][o] = k] /\ store' = store
        BY <1>1, <1>3 DEF update
      <4>2. 0 + 0 = (IF k = "INSERTION" THEN 1 ELSE 0)
                    - (IF kind[t][o] = "INSERTION" THEN 1 ELSE 0)
                    - (IF k = "REMOVAL" THEN 1 ELSE 0)
                    + (IF kind[t][o] = "REMOVAL" THEN 1 ELSE 0)
        BY <2>2
      <4> HIDE DEF k
      <4> QED BY <3>1, <4>1, <4>2 DEF Counted
    <3> HIDE DEF k
    <3> QED BY <1>1, <3>2, Recount
  <2> QED BY <2>1, <2>2
<1>4. ASSUME remove(t, o)
      PROVE  Accounting'
  <2> DEFINE k == IF kind[t][o] = "INSERTION" THEN NoChange ELSE "REMOVAL"
  <2>1. kind[t][o] # "REMOVAL"
    BY <1>4 DEF remove, RemoveAs, contains, NoChange
  <2>2. /\ revived' = [revived EXCEPT ![t] = revived[t] + 0]
        /\ adjustment' = [adjustment EXCEPT ![t] = adjustment[t] + (-1)]
    <3>1. revived[t] + 0 = revived[t] /\ adjustment[t] + (-1) = adjustment[t] - 1
      BY <1>1
    <3>2. revived' = revived /\ adjustment' = [adjustment EXCEPT ![t] = adjustment[t] - 1]
      BY <1>4 DEF remove, RemoveAs
    <3> QED BY <1>1, <3>1, <3>2
  <2>3. Counted(t, o, k, -1, 0)
    <3>1. kind' = [kind EXCEPT ![t][o] = k] /\ store' = store
      BY <1>1, <1>4 DEF remove, RemoveAs
    <3>2. (-1) + 0 = (IF k = "INSERTION" THEN 1 ELSE 0)
                     - (IF kind[t][o] = "INSERTION" THEN 1 ELSE 0)
                     - (IF k = "REMOVAL" THEN 1 ELSE 0)
                     + (IF kind[t][o] = "REMOVAL" THEN 1 ELSE 0)
      BY <2>1 DEF NoChange
    <3> HIDE DEF k
    <3> QED BY <2>2, <3>1, <3>2 DEF Counted
  <2> HIDE DEF k
  <2> QED BY <1>1, <2>3, Recount
<1> QED BY <1>2, <1>3, <1>4

\* A flushed record adds at most its own oid to the store.
LEMMA FlushAccounting ==
    ASSUME IInv, Accounting, NEW t \in Threads, NEW o \in Oids, FlushRecord(t, o)
    PROVE  Accounting'
<1>1. UNCHANGED <<kind, adjustment, revived>>
  BY DEF FlushRecord, cacheVars
<1>2. Stored' \subseteq Stored \cup {o}
  BY DEF FlushRecord, Stored, IInv, Base, TypeOK
<1>3. IsFiniteSet(Stored \cup {o})
  BY FS_AddElement DEF Accounting
<1>4. IsFiniteSet(Stored')
  BY <1>2, <1>3, FS_Subset
<1> QED BY <1>1, <1>4 DEF Accounting, OfKind

\* An empty cache has nothing to account for.
LEMMA ClearAccounting ==
    ASSUME IInv, Accounting, NEW t \in Threads, CommitReturns(t) \/ rollback(t)
    PROVE  Accounting'
<1>1. /\ store' = store
      /\ \A u \in Threads \ {t} : /\ kind'[u] = kind[u]
                                  /\ adjustment'[u] = adjustment[u] /\ revived'[u] = revived[u]
      /\ \A p \in Oids : kind'[t][p] = NoChange
      /\ adjustment'[t] = 0 /\ revived'[t] = 0
  BY DEF CommitReturns, rollback, clear_cache, IInv, Base, TypeOK
<1>2. OfKind(t, "INSERTION")' = {} /\ OfKind(t, "REMOVAL")' = {}
  BY <1>1 DEF OfKind, NoChange
<1>3. \A u \in Threads \ {t} : \A k : OfKind(u, k)' = OfKind(u, k)
  BY <1>1 DEF OfKind
<1>4. Stored' = Stored
  BY <1>1 DEF Stored
<1>5. 0 = Cardinality({}) - Cardinality({}) - 0 /\ IsFiniteSet({})
  BY FS_EmptySet
<1>6. ASSUME NEW u \in Threads
      PROVE  (/\ IsFiniteSet(OfKind(u, "INSERTION"))
              /\ IsFiniteSet(OfKind(u, "REMOVAL"))
              /\ adjustment[u] = Cardinality(OfKind(u, "INSERTION"))
                                    - Cardinality(OfKind(u, "REMOVAL")) - revived[u])'
  <2>1. CASE u = t
    BY <2>1, <1>1, <1>2, <1>5
  <2>2. CASE u # t
    BY <2>2, <1>1, <1>3 DEF Accounting
  <2> QED BY <2>1, <2>2
<1> QED BY <1>4, <1>6 DEF Accounting

\* The changes explain the adjustment in every state.
LEMMA AccountingInvariance == Spec => []Accounting
<1>1. Init => Accounting
  <2> SUFFICES ASSUME Init PROVE Accounting
    OBVIOUS
  <2>1. /\ Stored = {}
        /\ \A t \in Threads : OfKind(t, "INSERTION") = {} /\ OfKind(t, "REMOVAL") = {}
    BY DEF Init, Stored, OfKind, NoChange
  <2>2. \A t \in Threads : adjustment[t] = 0 /\ revived[t] = 0
    BY DEF Init
  <2>3. 0 = Cardinality({}) - Cardinality({}) - 0 /\ IsFiniteSet({})
    BY FS_EmptySet
  <2> QED BY <2>1, <2>2, <2>3 DEF Accounting
<1>2. IInv /\ Accounting /\ [Next]_vars => Accounting'
  <2> SUFFICES ASSUME IInv, Accounting, [Next]_vars PROVE Accounting'
    OBVIOUS
  <2>1. CASE UNCHANGED vars
    BY <2>1 DEF vars, cacheVars, Accounting, Stored, OfKind
  <2>2. CASE LoseBackups
    BY <2>2 DEF LoseBackups, cacheVars, Accounting, Stored, OfKind
  <2>3. ASSUME NEW t \in Threads, Step(t)
        PROVE  Accounting'
    <3>1. CASE begin(t) \/ CommitRefused(t) \/ CommitAccepted(t)
      BY <3>1 DEF begin, CommitRefused, CommitAccepted, cacheVars, Accounting, Stored, OfKind
    <3>2. ASSUME NEW o \in WriteSet[t],
                 \/ \E d \in Data : insert(t, o, d) \/ update(t, o, d)
                 \/ remove(t, o)
          PROVE  Accounting'
      BY <3>2, ChangeAccounting
    <3>3. ASSUME NEW o \in Oids, FlushRecord(t, o)
          PROVE  Accounting'
      BY <3>3, FlushAccounting
    <3>4. CASE CommitReturns(t) \/ rollback(t)
      BY <3>4, ClearAccounting
    <3> QED BY <2>3, <3>1, <3>2, <3>3, <3>4 DEF Step
  <2> QED BY <2>1, <2>2, <2>3 DEF Next
<1> QED BY <1>1, <1>2, Invariance, PTL DEF Spec

\* For any threads and stores size is the number of oids that contains finds, as
\* long as the transaction has updated no oid that it had removed: m_data's size
\* and m_size_adjustment follow every other sequence of changes, refused commits
\* and flushes.
THEOREM SizeCounts == Spec => []SizeIsView
<1>1. IInv /\ Accounting => SizeIsView
  <2> SUFFICES ASSUME IInv, Accounting, NEW t \in Threads, phase[t] = "open",
                      revived[t] = 0
               PROVE  size(t) = Cardinality({o \in Oids : contains(t, o)})
    BY DEF SizeIsView
  <2> DEFINE I == OfKind(t, "INSERTION")
             R == OfKind(t, "REMOVAL")
             V == {o \in Oids : contains(t, o)}
  <2>1. /\ IsFiniteSet(Stored) /\ IsFiniteSet(I) /\ IsFiniteSet(R)
        /\ adjustment[t] = Cardinality(I) - Cardinality(R) - 0
    BY DEF Accounting
  <2>2. \A o \in Oids : /\ kind[t][o] # NoChange => Fits(t, o, store)
                        /\ kind[t][o] \in Kinds \cup {NoChange}
    BY DEF IInv, Base, Fitting, TypeOK
  <2>3. I \cap Stored = {} /\ R \subseteq Stored
    BY <2>2 DEF OfKind, Stored, Fits, NoChange
  <2>4. V = (Stored \ R) \cup I
    BY <2>2 DEF OfKind, Stored, contains, Fits, Kinds, NoChange
  <2> HIDE DEF I, R, V
  <2>6. Stored \cap R = R /\ (Stored \ R) \cap I = {}
    BY <2>3
  <2>7. /\ IsFiniteSet(Stored \ R)
        /\ Cardinality(Stored \ R) = Cardinality(Stored) - Cardinality(R)
    <3>1. /\ IsFiniteSet(Stored \ R)
          /\ Cardinality(Stored \ R) = Cardinality(Stored) - Cardinality(Stored \cap R)
      BY <2>1, FS_Difference
    <3> QED BY <3>1, <2>6
  <2>8. Cardinality(V) = Cardinality(Stored \ R) + Cardinality(I) - 0
    <3>1. Cardinality((Stored \ R) \cup I)
             = Cardinality(Stored \ R) + Cardinality(I) - Cardinality((Stored \ R) \cap I)
      BY <2>1, <2>7, FS_Union
    <3> QED BY <3>1, <2>4, <2>6, FS_EmptySet
  <2>9. Cardinality(Stored) \in Nat /\ Cardinality(R) \in Nat /\ Cardinality(I) \in Nat
    BY <2>1, FS_CardinalityType
  <2> QED BY <2>1, <2>7, <2>8, <2>9 DEF size, V
<1> QED BY <1>1, Invariance, AccountingInvariance, PTL
=============================================================================
