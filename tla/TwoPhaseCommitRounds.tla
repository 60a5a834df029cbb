------------------------ MODULE TwoPhaseCommitRounds ------------------------
(***************************************************************************)
(* The rounds of questions and answers of the transaction engine, when its *)
(* timers are longer than the delays of the network, and the records it    *)
(* keeps: how the lists of finished transactions are read and written, how *)
(* many messages of a round there are, and how many records a list may get *)
(* before one is dropped.  TwoPhaseCommitAtomicity rests on them.          *)
(***************************************************************************)
EXTENDS TwoPhaseCommitProofs

-----------------------------------------------------------------------------
(* Reading a list of finished transactions: the first record of t counts,  *)
(* or there is none.                                                       *)
LEMMA DoneStatusFirst ==
    ASSUME NEW d \in Seq(Records), NEW t
    PROVE  \/ /\ \A i \in DOMAIN d : d[i].tx # t
              /\ DoneStatus(d, t) = "UNKNOWN"
           \/ \E i \in DOMAIN d :
                 /\ d[i].tx = t /\ d[i].status = DoneStatus(d, t)
                 /\ \A j \in DOMAIN d : j < i => d[j].tx # t
<1> DEFINE I == {i \in 1 .. Len(d) : d[i].tx = t}
<1>0. I # {} => Min(I) \in I /\ \A j \in I : Min(I) <= j
  <2>1. I \in SUBSET Nat  OBVIOUS
  <2> HIDE DEF I
  <2> QED  BY <2>1, MinFact
<1>1. DoneStatus(d, t) = IF I = {} THEN "UNKNOWN" ELSE d[Min(I)].status
  <2>1. SelectInSeq(d, LAMBDA e : e.tx = t) = IF I # {} THEN Min(I) ELSE 0
        BY DEF SelectInSeq
  <2> QED  BY <1>0, <2>1 DEF DoneStatus
<1>2. \A i \in DOMAIN d : i \in Nat /\ (i \in I <=> d[i].tx = t)
      OBVIOUS
<1>3. \A i \in I : i \in DOMAIN d
      OBVIOUS
<1> HIDE DEF I
<1>4. CASE I = {}  BY <1>1, <1>2, <1>4
<1>5. CASE I # {}
  <2>1. Min(I) \in DOMAIN d /\ d[Min(I)].tx = t /\ Min(I) \in Nat
        BY <1>0, <1>2, <1>3, <1>5
  <2>2. \A j \in DOMAIN d : j < Min(I) => d[j].tx # t
    <3> SUFFICES ASSUME NEW j \in DOMAIN d, j < Min(I), d[j].tx = t
                 PROVE  FALSE
        OBVIOUS
    <3>1. Min(I) <= j /\ j \in Nat  BY <1>0, <1>2, <1>5
    <3> QED  BY <2>1, <3>1
  <2>3. d[Min(I)].status = DoneStatus(d, t)  BY <1>1, <1>5
  <2> QED  BY <2>1, <2>2, <2>3
<1> QED  BY <1>4, <1>5

\* What is put in front of a list hides the older records of the same
\* transactions and no others.
LEMMA PrefixStatus ==
    ASSUME NEW d \in Seq(Records), NEW e \in Seq(Records), NEW t
    PROVE  DoneStatus(e \o d, t) = IF \E i \in DOMAIN e : e[i].tx = t
                                   THEN DoneStatus(e, t) ELSE DoneStatus(d, t)
<1> DEFINE n == e \o d
           N == Len(e)
<1>1. /\ n \in Seq(Records) /\ N \in Nat
      /\ DOMAIN e = 1 .. N /\ DOMAIN n = 1 .. N + Len(d) /\ DOMAIN d = 1 .. Len(d)
      /\ \A i \in 1 .. N : n[i] = e[i]
      /\ \A i \in 1 .. Len(d) : n[i + N] = d[i]
      /\ Len(d) \in Nat
      OBVIOUS
<1> HIDE DEF n, N
<1>2. \/ /\ \A i \in DOMAIN n : n[i].tx # t
         /\ DoneStatus(n, t) = "UNKNOWN"
      \/ \E i \in DOMAIN n :
            /\ n[i].tx = t /\ n[i].status = DoneStatus(n, t)
            /\ \A j \in DOMAIN n : j < i => n[j].tx # t
      BY <1>1, DoneStatusFirst
<1>3. \A i \in 1 .. N : i \in DOMAIN n
      BY <1>1
<1>4. \A i \in 1 .. Len(d) : i + N \in DOMAIN n
      BY <1>1
<1>5. CASE \E i \in DOMAIN e : e[i].tx = t
  <2>1. PICK i \in DOMAIN e : /\ e[i].tx = t /\ e[i].status = DoneStatus(e, t)
                              /\ \A j \in DOMAIN e : j < i => e[j].tx # t
        BY <1>5, DoneStatusFirst
  <2>2. i \in DOMAIN n /\ n[i].tx = t  BY <1>1, <1>3, <2>1
  <2>3. PICK k \in DOMAIN n :
            /\ n[k].tx = t /\ n[k].status = DoneStatus(n, t)
            /\ \A j \in DOMAIN n : j < k => n[j].tx # t
        BY <1>2, <2>2
  <2>4. k = i
    <3>1. ~(i < k)  BY <2>2, <2>3
    <3>2. ~(k < i)
      <4> SUFFICES ASSUME k < i PROVE FALSE
          OBVIOUS
      <4>1. k \in DOMAIN e  BY <1>1, <2>1
      <4> QED  BY <1>1, <2>1, <2>3, <4>1
    <3> QED  BY <1>1, <2>1, <2>3, <3>1, <3>2
  <2> QED  BY <1>1, <1>5, <2>1, <2>3, <2>4 DEF n
<1>6. CASE ~\E i \in DOMAIN e : e[i].tx = t
  <2>1. \/ /\ \A i \in DOMAIN d : d[i].tx # t
           /\ DoneStatus(d, t) = "UNKNOWN"
        \/ \E i \in DOMAIN d :
              /\ d[i].tx = t /\ d[i].status = DoneStatus(d, t)
              /\ \A j \in DOMAIN d : j < i => d[j].tx # t
        BY DoneStatusFirst
  <2>2. \A i \in DOMAIN n : n[i].tx = t => i - N \in DOMAIN d /\ n[i] = d[i - N]
    <3> SUFFICES ASSUME NEW i \in DOMAIN n, n[i].tx = t
                 PROVE  i - N \in DOMAIN d /\ n[i] = d[i - N]
        OBVIOUS
    <3>1. i \notin 1 .. N  BY <1>1, <1>6
    <3>2. i - N \in 1 .. Len(d) /\ (i - N) + N = i  BY <1>1, <3>1
    <3> QED  BY <1>1, <3>2
  <2>3. CASE \A i \in DOMAIN d : d[i].tx # t
        BY <1>2, <1>6, <2>1, <2>2, <2>3 DEF n
  <2>4. ASSUME NEW i \in DOMAIN d, d[i].tx = t, d[i].status = DoneStatus(d, t),
               \A j \in DOMAIN d : j < i => d[j].tx # t
        PROVE  DoneStatus(n, t) = DoneStatus(d, t)
    <3>1. i + N \in DOMAIN n /\ n[i + N] = d[i]  BY <1>1, <1>4
    <3>2. PICK k \in DOMAIN n :
              /\ n[k].tx = t /\ n[k].status = DoneStatus(n, t)
              /\ \A j \in DOMAIN n : j < k => n[j].tx # t
          BY <1>2, <2>4, <3>1
    <3>3. k - N \in DOMAIN d /\ n[k] = d[k - N]  BY <2>2, <3>2
    <3>4. ~(k - N < i)  BY <2>4, <3>2, <3>3
    <3>5. ~(i + N < k)  BY <2>4, <3>1, <3>2
    <3>6. k = i + N
      <4>1. k \in Nat /\ i \in Nat /\ N \in Nat  BY <1>1
      <4> QED  BY ONLY <3>4, <3>5, <4>1
    <3> QED  BY <2>4, <3>1, <3>2, <3>6
  <2> QED  BY <1>6, <2>1, <2>3, <2>4 DEF n
<1> QED  BY <1>5, <1>6

(* A new record is read back and hides no other, as long as none is        *)
(* dropped.                                                                *)
LEMMA SaveTransStatus ==
    ASSUME NEW d \in Seq(Records), NEW t \in Tx, NEW s \in Statuses,
           Len(d) < MaxDone
    PROVE  /\ Len(SaveTrans(d, t, s)) = Len(d) + 1
           /\ \A u \in Tx : DoneStatus(SaveTrans(d, t, s), u) =
                               IF u = t THEN s ELSE DoneStatus(d, u)
<1> DEFINE r == [tx |-> t, status |-> s]
           e == <<r>>
<1>1. r \in Records /\ r.tx = t /\ r.status = s  BY DEF Records
<1>2. MaxDone \in Nat  BY ConstantsAssumption
<1>3. /\ e \in Seq(Records) /\ DOMAIN e = {1} /\ e[1] = r
      /\ Len(e \o d) = Len(d) + 1
      BY <1>1
<1>4. SaveTrans(d, t, s) = e \o d
      BY <1>2, <1>3 DEF SaveTrans, Trim
<1>5. DoneStatus(e, t) = s
  <2> HIDE DEF e, r
  <2>1. \/ \A i \in DOMAIN e : e[i].tx # t
        \/ \E i \in DOMAIN e : e[i].status = DoneStatus(e, t)
        BY <1>3, DoneStatusFirst
  <2> QED  BY <1>1, <1>3, <2>1
<1> HIDE DEF e, r
<1>6. ASSUME NEW u \in Tx
      PROVE  DoneStatus(e \o d, u) = IF u = t THEN s ELSE DoneStatus(d, u)
      BY <1>1, <1>3, <1>5, PrefixStatus
<1> QED  BY <1>3, <1>4, <1>6

\* The records of the transactions in order, with the statuses st.
RecordList(order, st) ==
    [i \in DOMAIN order |-> [tx |-> order[i], status |-> st[order[i]]]]

(* There are finitely many transactions.                                   *)
LEMMA TxFinite == IsFiniteSet(Tx)
<1>1. MaxTx \in Int  BY ConstantsAssumption
<1>2. IsFiniteSet(1 .. MaxTx)  BY <1>1, FS_Interval
<1> QED  BY <1>2 DEF Tx

\* Each transaction in S has one, and it is read back.
LEMMA RecordsOf ==
    ASSUME NEW S \in SUBSET Tx, NEW st \in [S -> Statuses],
           NEW order \in [1 .. Cardinality(S) -> S],
           \A i, j \in DOMAIN order : i < j => order[i] > order[j]
    PROVE  /\ RecordList(order, st) \in Seq(Records)
           /\ Len(RecordList(order, st)) = Cardinality(S)
           /\ Cardinality(S) \in Nat
           /\ \A t \in Tx :
                 /\ t \in S <=> \E i \in DOMAIN RecordList(order, st) :
                                  RecordList(order, st)[i].tx = t
                 /\ t \in S => DoneStatus(RecordList(order, st), t) = st[t]
<1> DEFINE N == Cardinality(S)
           e == RecordList(order, st)
<1>1. IsFiniteSet(S) /\ N \in Nat
  <2> QED  BY TxFinite, FS_Subset, FS_CardinalityType
<1>2. S \subseteq Nat  BY ConstantsAssumption DEF Tx
<1>3. order \in Surjection(1 .. N, S)
  <2>1. order \in Injection(1 .. N, S)
    <3>1. ASSUME NEW i \in 1 .. N, NEW j \in 1 .. N, order[i] = order[j]
          PROVE  i = j
      <4>1. order[i] \in Nat /\ order[j] \in Nat  BY <1>2
      <4>2. ~(i < j) /\ ~(j < i)  BY <3>1, <4>1
      <4>3. i \in Nat /\ j \in Nat  BY <1>1
      <4> QED  BY ONLY <4>2, <4>3
    <3> QED  BY <3>1 DEF Injection, IsInjective
  <2>2. Cardinality(1 .. N) = N
    <3>1. 1 \in Int /\ N \in Int  BY <1>1
    <3>2. Cardinality(1 .. N) = IF 1 > N THEN 0 ELSE N - 1 + 1
          BY <3>1, FS_Interval
    <3> QED  BY ONLY <1>1, <3>2
  <2> HIDE DEF N
  <2>3. Cardinality(1 .. N) = Cardinality(S) <=> order \in Surjection(1 .. N, S)
        BY <1>1, <2>1, FS_Injection
  <2> QED  BY <2>2, <2>3 DEF N
<1>4. \A t \in S : \E i \in 1 .. N : order[i] = t
      BY <1>3 DEF Surjection
<1>5. /\ DOMAIN order = 1 .. N
      /\ \A i \in 1 .. N : order[i] \in S
      OBVIOUS
<1> HIDE DEF N
<1>6. /\ DOMAIN e = 1 .. N
      /\ \A i \in 1 .. N : e[i] = [tx |-> order[i], status |-> st[order[i]]]
      /\ e = [i \in 1 .. N |-> e[i]]
      BY <1>5 DEF RecordList
<1> HIDE DEF e
<1>7. \A i \in 1 .. N : /\ e[i] \in Records /\ e[i].tx = order[i]
                        /\ e[i].status = st[order[i]]
      BY <1>5, <1>6 DEF Records
<1>8. e \in Seq(Records) /\ Len(e) = N
  <2>1. e \in [1 .. N -> Records]  BY <1>6, <1>7
  <2> QED  BY ONLY <1>1, <2>1
<1>9. ASSUME NEW t \in S
      PROVE  DoneStatus(e, t) = st[t]
  <2>1. PICK i \in DOMAIN e : e[i].tx = t  BY <1>4, <1>6, <1>7
  <2>2. PICK j \in DOMAIN e : e[j].tx = t /\ e[j].status = DoneStatus(e, t)
        BY <1>8, <2>1, DoneStatusFirst
  <2> QED  BY <1>6, <1>7, <2>2
<1>10. \A t \in Tx : t \in S <=> \E i \in DOMAIN e : e[i].tx = t
       BY <1>4, <1>5, <1>6, <1>7
<1> QED  BY <1>1, <1>8, <1>9, <1>10 DEF N, e

\* The same for several outcomes that are saved at once.
LEMMA SavedAllStatus ==
    ASSUME NEW d \in Seq(Records), NEW S \in SUBSET Tx,
           NEW st \in [S -> Statuses], NEW new, SavedAll(d, S, st, new),
           Len(d) + Cardinality(S) <= MaxDone
    PROVE  /\ Len(new) = Len(d) + Cardinality(S)
           /\ \A t \in Tx : DoneStatus(new, t) =
                               IF t \in S THEN st[t] ELSE DoneStatus(d, t)
<1>1. PICK order \in [1 .. Cardinality(S) -> S] :
          /\ \A i, j \in DOMAIN order : i < j => order[i] > order[j]
          /\ new = Trim([i \in DOMAIN order |->
                          [tx |-> order[i], status |-> st[order[i]]]] \o d)
      BY DEF SavedAll
<1> DEFINE e == RecordList(order, st)
<1>2. /\ e \in Seq(Records) /\ Len(e) = Cardinality(S)
      /\ Cardinality(S) \in Nat
      /\ \A t \in Tx : /\ t \in S <=> \E i \in DOMAIN e : e[i].tx = t
                       /\ t \in S => DoneStatus(e, t) = st[t]
      BY <1>1, RecordsOf
<1>3. MaxDone \in Nat  BY ConstantsAssumption
<1>4. new = Trim(e \o d)  BY <1>1 DEF RecordList
<1> HIDE DEF e
<1>5. e \o d \in Seq(Records) /\ Len(e \o d) = Len(d) + Cardinality(S)
      BY <1>2
<1>6. new = e \o d
      BY <1>3, <1>4, <1>5 DEF Trim
<1>7. ASSUME NEW t \in Tx
      PROVE  DoneStatus(e \o d, t) = IF t \in S THEN st[t] ELSE DoneStatus(d, t)
  <2>1. DoneStatus(e \o d, t) = IF \E i \in DOMAIN e : e[i].tx = t
                                THEN DoneStatus(e, t) ELSE DoneStatus(d, t)
    <3>1. e \in Seq(Records)  BY <1>2
    <3> QED  BY <3>1, PrefixStatus
  <2>2. t \in S => DoneStatus(e, t) = st[t]  BY <1>2
  <2>3. t \in S <=> \E i \in DOMAIN e : e[i].tx = t  BY <1>2
  <2> QED  BY <2>1, <2>2, <2>3
<1> QED  BY <1>5, <1>6, <1>7

-----------------------------------------------------------------------------
(* The steps of the coordinator, in more detail than CoordinatorStep.      *)

\* There is room for the records of the next step: no list of a location
\* that is up is full, and the coordinator's has room for what it has to save.
RecordsKept ==
    /\ \A l \in alive : Len(done[l]) < MaxDone
    /\ Len(cdone) + Cardinality(Live) <= MaxDone

\* A request of a transaction that changes its state, or is sent again.
Sending(m, R) ==
    /\ m.tx \in Tx
    /\ m.tx \in R \/ tstate'[m.tx] # tstate[m.tx]
    /\ m.loc \in DOMAIN resp[m.tx] \cap alive
    /\ m = Message(RequestOf[tstate'[m.tx]], m.tx, m.loc, att'[m.tx], "UNKNOWN")
    /\ tstate'[m.tx] \in {"COLLECTING", "COMMITTED", "ABORTED", "RECOVERING"}

\* What set_internal_status sends, forgets and records.
Dispatched(n, R) ==
    /\ \A m \in net' : m \in n \/ Sending(m, R)
    /\ \A t \in Tx : t \in R \/ tstate'[t] # tstate[t] =>
          \A l \in DOMAIN resp'[t] : resp'[t][l] = "UNKNOWN"
    /\ RecordsKept => \A t \in Tx :
          DoneStatus(cdone', t) = IF tstate[t] # "NONE" /\ tstate'[t] = "NONE"
                                  THEN tstate[t] ELSE DoneStatus(cdone, t)

(* A handler that has computed legal states and responses does so.         *)
LEMMA DispatchFacts ==
    ASSUME TypeOK, BlockersKnown, NEW ts, NEW rs, NEW R \in SUBSET Tx,
           NEW n \in SUBSET Messages,
           \A t \in Tx : Move(t, ts[t], rs[t]),
           \A t \in Tx : Heard(t, rs[t]),
           set_internal_status(ts, rs, R, n)
    PROVE  Dispatched(n, R)
<1> DEFINE F == Finished(ts)
           NS(t) == NextState(ts, rs, t)
           entered == {t \in Tx \ F : NS(t) # tstate[t]}
           sending == {t \in entered \cup R : NS(t) \notin {"NONE", "WAITING"}}
<1>0. CoordinatorStep(rs, n) /\ \A t \in Tx : Stepped(t, rs[t])
      BY StatusFacts
<1>1. /\ \A t \in Tx : tstate[t] \in TransactionStates
      /\ \A t \in Tx : tstate'[t] \in TransactionStates
      /\ \A t \in Tx : Stepped(t, rs[t])
      /\ \A t \in Tx : tstate'[t] = NS(t)
      BY <1>0 DEF TypeOK, CoordinatorStep, set_internal_status, Entered
<1>2. /\ F \subseteq Tx
      /\ \A t \in Tx : t \in F <=> ts[t] \in {"DONE_COMMITTED", "DONE_ABORTED"}
      /\ \A t \in F : NS(t) = "NONE"
      BY DEF Finished, NextState
<1>3. \A t \in F : tstate[t] = Outcome(ts[t]) /\ tstate[t] \in {"COMMITTED", "ABORTED"}
      BY <1>1, <1>2 DEF Outcome, Move, TransactionStates
<1>4. \A t \in Tx : t \in F <=> tstate[t] # "NONE" /\ tstate'[t] = "NONE"
  <2> SUFFICES ASSUME NEW t \in Tx, t \notin F, tstate[t] # "NONE"
               PROVE  tstate'[t] # "NONE"
      BY <1>1, <1>2, <1>3
  <2>1. ts[t] # "NONE"  BY <1>1 DEF Move, TransactionStates
  <2> QED  BY <1>1, <2>1 DEF NextState
<1>5. \A t \in entered : tstate'[t] # tstate[t]
      BY <1>1
<1>6. ASSUME NEW m \in net', m \notin n
      PROVE  Sending(m, R)
  <2>1. net' = n \cup UNION {Sent(t, RequestOf[NS(t)], DOMAIN rs[t], att'[t]) :
                                t \in sending}
        BY DEF set_internal_status, Entered
  <2>2. PICK t \in sending : m \in Sent(t, RequestOf[NS(t)], DOMAIN rs[t], att'[t])
        BY <1>6, <2>1
  <2>3. t \in Tx /\ NS(t) \notin {"NONE", "WAITING"}
        OBVIOUS
  <2>4. PICK l \in DOMAIN rs[t] \cap alive :
            m = Message(RequestOf[tstate'[t]], t, l, att'[t], "UNKNOWN")
        BY <1>1, <2>2, <2>3 DEF Sent
  <2>5. m.tx = t /\ m.loc = l  BY <2>4 DEF Message
  <2>6. t \in R \/ tstate'[t] # tstate[t]  BY <1>5, <2>2
  <2>7. tstate'[t] \in {"COLLECTING", "COMMITTED", "ABORTED", "RECOVERING"}
        BY <1>1, <2>3 DEF TransactionStates
  <2>8. l \in DOMAIN resp[t] \cap alive  BY <2>3, <2>4 DEF Heard
  <2> HIDE DEF NS, F, sending, entered
  <2> QED  BY <2>3, <2>4, <2>5, <2>6, <2>7, <2>8 DEF Sending
<1>7. ASSUME NEW t \in Tx, t \in R \/ tstate'[t] # tstate[t],
             NEW l \in DOMAIN resp'[t]
      PROVE  resp'[t][l] = "UNKNOWN"
  <2>1. resp'[t] = IF t \in F THEN NoResponses
                   ELSE IF t \in entered \cup R THEN clean_responses(rs[t])
                   ELSE rs[t]
        BY DEF set_internal_status, Entered
  <2>2. t \in F \/ t \in entered \cup R  BY <1>1, <1>7
  <2> HIDE DEF F, entered, NS
  <2> QED  BY <1>7, <2>1, <2>2 DEF NoResponses, clean_responses
<1>8. ASSUME RecordsKept, NEW t \in Tx
      PROVE  DoneStatus(cdone', t) = IF tstate[t] # "NONE" /\ tstate'[t] = "NONE"
                                     THEN tstate[t] ELSE DoneStatus(cdone, t)
  <2> DEFINE st == [u \in F |-> Outcome(ts[u])]
  <2>1. SavedAll(cdone, F, st, cdone')  BY DEF set_internal_status, Entered
  <2>2. st \in [F -> Statuses] /\ \A u \in F : st[u] = tstate[u]
        BY <1>3 DEF Outcome, Statuses
  <2>3. cdone \in Seq(Records) /\ Len(cdone) \in Nat  BY DEF TypeOK
  <2>4. F \in SUBSET Tx /\ F \subseteq Live
        BY <1>2, <1>3 DEF Live
  <2> HIDE DEF st, F
  <2>5. /\ Cardinality(F) <= Cardinality(Live)
        /\ Cardinality(F) \in Nat /\ Cardinality(Live) \in Nat
    <3>1. IsFiniteSet(Live)  BY TxFinite, FS_Subset DEF Live
    <3> QED  BY <2>4, <3>1, FS_Subset, FS_CardinalityType
  <2>6. Len(cdone) + Cardinality(F) <= MaxDone
        BY <1>8, <2>3, <2>5, ConstantsAssumption DEF RecordsKept
  <2>7. \A new : SavedAll(cdone, F, st, new) => \A u \in Tx :
                    DoneStatus(new, u) = IF u \in F THEN st[u]
                                         ELSE DoneStatus(cdone, u)
        BY <2>2, <2>3, <2>4, <2>6, SavedAllStatus
  <2>8. DoneStatus(cdone', t) = IF t \in F THEN st[t] ELSE DoneStatus(cdone, t)
        BY ONLY <2>1, <2>7, t \in Tx
  <2> QED  BY <1>4, <2>2, <2>8
<1> HIDE DEF F, NS, entered, sending
<1> QED  BY <1>6, <1>7, <1>8 DEF Dispatched

\* The coordinator heeds the status that a cohort tells it only while it
\* recovers the transaction, and only from a cohort it waits for.
Heeded(m) ==
    m.type = "status" =>
        tstate[m.tx] = "RECOVERING" /\ m.loc \in DOMAIN resp[m.tx]

\* What made the coordinator take the step: a response changes by a message of
\* its sender, a recovered transaction is decided by what a cohort knows or
\* because none knows, a request is sent again when nothing is in flight.
Triggered(rs, n, R) ==
    /\ n \subseteq net
    /\ \A t \in R : \A m \in net : m.tx # t
    /\ \A t \in Tx : \A l \in DOMAIN rs[t] : rs[t][l] # resp[t][l] =>
          /\ tstate[t] = "COLLECTING" =>
                \E m \in net \ n : m.tx = t /\ m.loc = l /\ m.type = "yes"
          /\ tstate[t] = "RECOVERING" =>
                \E m \in net : /\ m.tx = t /\ m.loc = l /\ m.type = "status"
                               /\ m.status \notin {"COMMITTED", "ABORTED"}
    /\ \A t \in Tx : tstate[t] = "RECOVERING" /\ tstate'[t] # "RECOVERING" =>
          \/ tstate'[t] = "ABORTED" /\ AllAre(rs[t], "SET_TO_NOT_DONE")
          \/ /\ \E m \in net : /\ m.tx = t /\ m.type = "status" /\ Heeded(m)
                               /\ m.status = tstate'[t]
             /\ tstate'[t] = "COMMITTED" => applied'[active][t] > 0
    /\ \A l \in Locations, t \in Tx : applied'[l][t] > 0 =>
          \/ applied[l][t] > 0
          \/ /\ l = active
             /\ tstate[t] = "RECOVERING" /\ tstate'[t] = "COMMITTED"

\* A handler of the coordinator that no timer interferes with.
Performed(rs, n, R) ==
    /\ ~TimerOverlaps
    /\ R \subseteq Tx
    /\ \A t \in Tx : Heard(t, rs[t])
    /\ CoordinatorStep(rs, n)
    /\ \A t \in Tx : /\ Stepped(t, rs[t])
                     /\ decided'[t] = decided[t] \cup
                           ({tstate'[t]} \cap {"COMMITTED", "ABORTED"})
    /\ CoordinatorFrame
    /\ Dispatched(n, R)
    /\ Triggered(rs, n, R)

\* A message is dropped, by its receiver or on its way.
Dropped(m) ==
    /\ net' = net \ {m}
    /\ UNCHANGED <<coordVars, change, cohortVars, dataVars, synch, alive,
                   active, members, failing, crashes>>

\* The coordinator handles an answer, a timeout or a failure, or drops an
\* answer.
CoordinatorActs ==
    \/ \E rs, n, R : Performed(rs, n, R)
    \/ \E m \in net : Dropped(m)

(* Every handler of the coordinator ends in such a step.                   *)
LEMMA HandlerFact ==
    ASSUME IInv, TimelyNetwork, NEW ts, NEW rs, NEW R \in SUBSET Tx, NEW n \in SUBSET net,
           \A t \in Tx : Move(t, ts[t], rs[t]),
           \A t \in Tx : Heard(t, rs[t]),
           set_internal_status(ts, rs, R, n), CoordinatorFrame,
           CoordinatorStep(rs, n) => Triggered(rs, n, R)
    PROVE  CoordinatorActs
<1>1. n \in SUBSET Messages  BY DEF IInv, TypeOK
<1>2. /\ CoordinatorStep(rs, n)
      /\ \A t \in Tx : /\ Stepped(t, rs[t])
                       /\ decided'[t] = decided[t] \cup
                             ({tstate'[t]} \cap {"COMMITTED", "ABORTED"})
      BY <1>1, StatusFacts DEF IInv
<1>3. Dispatched(n, R)  BY <1>1, DispatchFacts DEF IInv
<1>4. ~TimerOverlaps  BY ConstantsAssumption
<1>5. Performed(rs, n, R)  BY <1>2, <1>3, <1>4 DEF Performed
<1> QED  BY <1>5 DEF CoordinatorActs

\* When a timer is longer than the delays of the network it has not expired when
\* an answer is handled.
LEMMA TimelyHandled ==
    ASSUME TimelyNetwork, NEW ts, NEW rs, NEW n, Handled(ts, rs, n)
    PROVE  set_internal_status(ts, rs, {}, n)
<1>1. Expiring(ts) = {}  BY ConstantsAssumption DEF Expiring
<1> QED  BY <1>1 DEF Handled

\* set_internal_status puts a transaction that was not waiting in the state the
\* handler has computed for it, unless that is a final one.
LEMMA StateComputed ==
    ASSUME NEW ts, NEW rs, NEW R, NEW n, set_internal_status(ts, rs, R, n),
           NEW t \in Tx, tstate[t] = "RECOVERING"
    PROVE  tstate'[t] = ts[t] \/ (tstate'[t] = "NONE" /\ t \in Finished(ts))
<1>1. tstate'[t] = NextState(ts, rs, t)  BY DEF set_internal_status, Entered
<1>2. t \notin Unblocked(ts)  BY DEF Unblocked
<1>3. CASE t \in Finished(ts)
  <2>1. NextState(ts, rs, t) = "NONE"  BY <1>3 DEF NextState
  <2> QED  BY <1>1, <1>3, <2>1
<1>4. CASE t \notin Finished(ts)
  <2>1. NextState(ts, rs, t) = ts[t]  BY <1>2, <1>4 DEF NextState
  <2> QED  BY <1>1, <2>1
<1> QED  BY <1>3, <1>4

(* The answers that let the coordinator check for the next state.          *)
LEMMA RespondActs ==
    ASSUME IInv, TimelyNetwork, NEW m \in net, NEW states, NEW answer \in Responses,
           "NONE" \notin states, Respond(m, states, answer),
           \/ /\ answer = "SET_TO_NOT_DONE" /\ states = {"RECOVERING"}
              /\ m.type = "status" /\ m.status \notin {"COMMITTED", "ABORTED"}
           \/ answer = "YES" /\ m.type = "yes" /\ states = {"COLLECTING"}
           \/ answer = "END" /\ m.type = "end" /\ states = {"COMMITTED", "ABORTED"},
           UNCHANGED <<change, cohortVars, envVars, dataVars>>
    PROVE  CoordinatorActs
<1> DEFINE rs == RespondedResp(m, answer)
           ts == RespondedState(m, answer)
<1>0. m.tx \in Tx  BY MessageFact
<1>1. CASE tstate[m.tx] \in states /\ m.loc \in DOMAIN resp[m.tx]
  <2>1. set_internal_status(ts, rs, {}, net \ {m})
    <3>1. Handled(ts, rs, net \ {m})
          BY <1>1 DEF Respond, RespondedResp, RespondedState
    <3> QED  BY <3>1, TimelyHandled
  <2>2. \A t \in Tx :
          /\ Move(t, ts[t], rs[t]) /\ Heard(t, rs[t])
          /\ ts[t] = IF t = m.tx THEN check_status_change(tstate[t], rs[t])
                                 ELSE tstate[t]
          /\ DOMAIN rs[t] = DOMAIN resp[t]
          /\ \A l \in DOMAIN resp[t] : rs[t][l] =
                IF t = m.tx /\ l = m.loc THEN answer ELSE resp[t][l]
        BY <1>1, RespondComputes
  <2>3. active # NoLocation  BY <1>0, <1>1 DEF IInv, Coordinated
  <2>4. CoordinatorFrame  BY <2>3, FrameFact
  <2> HIDE DEF rs, ts
  <2>5. Triggered(rs, net \ {m}, {})
    <3>1. ASSUME NEW t \in Tx, NEW l \in DOMAIN rs[t], rs[t][l] # resp[t][l]
          PROVE  /\ tstate[t] = "COLLECTING" =>
                      \E k \in net \ (net \ {m}) :
                          k.tx = t /\ k.loc = l /\ k.type = "yes"
                 /\ tstate[t] = "RECOVERING" =>
                      \E k \in net : /\ k.tx = t /\ k.loc = l /\ k.type = "status"
                                     /\ k.status \notin {"COMMITTED", "ABORTED"}
      <4>1. t = m.tx /\ l = m.loc  BY <2>2, <3>1
      <4> QED  BY <1>1, <4>1
    <3>2. ASSUME NEW t \in Tx, tstate[t] = "RECOVERING", tstate'[t] # "RECOVERING"
          PROVE  tstate'[t] = "ABORTED" /\ AllAre(rs[t], "SET_TO_NOT_DONE")
      <4>1. \/ ts[t] = "RECOVERING"
            \/ ts[t] = "ABORTED" /\ AllAre(rs[t], "SET_TO_NOT_DONE")
            BY <2>2, <3>2 DEF check_status_change
      <4> QED  BY <2>1, <3>2, <4>1, StateComputed DEF Finished
    <3>3. applied' = applied  BY DEF dataVars
    <3> QED  BY <3>1, <3>2, <3>3 DEF Triggered
  <2> QED  BY <2>1, <2>2, <2>4, <2>5, HandlerFact
<1>2. CASE ~(tstate[m.tx] \in states /\ m.loc \in DOMAIN resp[m.tx])
  <2>1. net' = net \ {m} /\ UNCHANGED coordVars  BY <1>2 DEF Respond
  <2> QED  BY <2>1 DEF CoordinatorActs, Dropped, envVars
<1> QED  BY <1>1, <1>2

(* A decision for one transaction.                                         *)
LEMMA DecideActs ==
    ASSUME IInv, TimelyNetwork, NEW m \in net, NEW x,
           Move(m.tx, x, resp[m.tx]),
           Handled([tstate EXCEPT ![m.tx] = x], resp, net \ {m}),
           CoordinatorFrame,
           \/ tstate[m.tx] = "COLLECTING" /\ UNCHANGED dataVars
           \/ /\ tstate[m.tx] = "RECOVERING" /\ m.type = "status" /\ Heeded(m)
              /\ x = m.status /\ x \in {"COMMITTED", "ABORTED"}
              /\ x = "ABORTED" => UNCHANGED dataVars
              /\ x = "COMMITTED" => LoadedOnly(active, m.tx)
    PROVE  CoordinatorActs
<1> DEFINE ts == DecidedState(m, x)
<1>0. m.tx \in Tx  BY MessageFact
<1>1. \A t \in Tx : /\ Move(t, ts[t], resp[t]) /\ Heard(t, resp[t])
                    /\ ts[t] = IF t = m.tx THEN x ELSE tstate[t]
      BY DecideComputes
<1>2. set_internal_status(ts, resp, {}, net \ {m})
      BY TimelyHandled DEF DecidedState
<1> HIDE DEF ts
<1>3. ASSUME NEW t \in Tx, tstate[t] = "RECOVERING"
      PROVE  tstate'[t] = ts[t]
  <2>1. ts[t] \notin {"DONE_COMMITTED", "DONE_ABORTED"}
        BY <1>1, <1>3
  <2> QED  BY <1>2, <1>3, <2>1, StateComputed DEF Finished
<1>4. Triggered(resp, net \ {m}, {})
  <2>1. ASSUME NEW t \in Tx, tstate[t] = "RECOVERING", tstate'[t] # "RECOVERING"
        PROVE  /\ \E k \in net : /\ k.tx = t /\ k.type = "status" /\ Heeded(k)
                                 /\ k.status = tstate'[t]
               /\ tstate'[t] = "COMMITTED" => applied'[active][t] > 0
        BY <1>1, <1>3, <2>1 DEF LoadedOnly
  <2>2. ASSUME NEW l \in Locations, NEW t \in Tx, applied'[l][t] > 0
        PROVE  \/ applied[l][t] > 0
               \/ /\ l = active
                  /\ tstate[t] = "RECOVERING" /\ tstate'[t] = "COMMITTED"
    <3>1. CASE UNCHANGED dataVars  BY <2>2, <3>1 DEF dataVars
    <3>2. CASE /\ LoadedOnly(active, m.tx) /\ x = "COMMITTED"
               /\ tstate[m.tx] = "RECOVERING"
      <4>1. tstate'[m.tx] = "COMMITTED"  BY <1>0, <1>1, <1>3, <3>2
      <4> QED  BY <2>2, <3>2, <4>1 DEF LoadedOnly
    <3> QED  BY <3>1, <3>2
  <2> QED  BY <2>1, <2>2 DEF Triggered
<1> QED  BY <1>1, <1>2, <1>4, HandlerFact

\* The coordinator counts a vote of a cohort.
LEMMA YesActs ==
    ASSUME IInv, TimelyNetwork, NEW m \in net, send_yes(m)
    PROVE  CoordinatorActs
BY RespondActs DEF send_yes, Responses

\* It counts the end of a transaction at a cohort.
LEMMA EndActs ==
    ASSUME IInv, TimelyNetwork, NEW m \in net, send_end(m)
    PROVE  CoordinatorActs
BY RespondActs DEF send_end, Responses

\* A refusal aborts the transaction.
LEMMA NoActs ==
    ASSUME IInv, TimelyNetwork, NEW m \in net, send_no(m)
    PROVE  CoordinatorActs
<1>1. CASE tstate[m.tx] = "COLLECTING" /\ m.loc \in DOMAIN resp[m.tx]
  <2>1. Handled([tstate EXCEPT ![m.tx] = "ABORTED"], resp, net \ {m})
        BY <1>1 DEF send_no
  <2>2. active # NoLocation  BY <1>1, MessageFact DEF IInv, Coordinated
  <2>3. CoordinatorFrame  BY <2>2, FrameFact DEF send_no
  <2>4. Move(m.tx, "ABORTED", resp[m.tx])  BY <1>1 DEF Move
  <2> QED  BY <1>1, <2>1, <2>3, <2>4, DecideActs DEF send_no
<1>2. CASE ~(tstate[m.tx] = "COLLECTING" /\ m.loc \in DOMAIN resp[m.tx])
  <2>1. net' = net \ {m} /\ UNCHANGED coordVars  BY <1>2 DEF send_no
  <2> QED  BY <2>1 DEF send_no, envVars, CoordinatorActs, Dropped
<1> QED  BY <1>1, <1>2

\* What a cohort knows decides a transaction that is recovered.
LEMMA StatusAnswerActs ==
    ASSUME IInv, TimelyNetwork, NEW m \in net, send_set_transaction_status(m)
    PROVE  CoordinatorActs
<1> DEFINE heard == tstate[m.tx] = "RECOVERING" /\ m.loc \in DOMAIN resp[m.tx]
           t == m.tx
<1>0. /\ t \in Tx /\ m.type = "status" /\ m.status \in Statuses
      /\ UNCHANGED <<change, cohortVars, envVars>>
      BY MessageFact DEF send_set_transaction_status
<1>1. CASE ~heard
  <2>1. net' = net \ {m} /\ UNCHANGED coordVars /\ UNCHANGED dataVars
        BY <1>1 DEF send_set_transaction_status
  <2> QED  BY <1>0, <2>1 DEF envVars, CoordinatorActs, Dropped
<1>2. CASE heard /\ m.status \notin {"COMMITTED", "ABORTED"}
  <2>1. Respond(m, {"RECOVERING"}, "SET_TO_NOT_DONE") /\ UNCHANGED dataVars
        BY <1>2 DEF send_set_transaction_status
  <2>2. "SET_TO_NOT_DONE" \in Responses /\ "NONE" \notin {"RECOVERING"}
        BY DEF Responses
  <2> HIDE DEF heard
  <2> QED  BY <1>0, <1>2, <2>1, <2>2, RespondActs
<1>3. CASE heard /\ m.status \in {"COMMITTED", "ABORTED"}
  <2>1. Handled([tstate EXCEPT ![t] = m.status], resp, net \ {m})
        BY <1>3 DEF send_set_transaction_status
  <2>2. /\ active # NoLocation /\ active \in Locations
        /\ tstate[t] = "RECOVERING" /\ Heeded(m)
        BY <1>0, <1>3 DEF IInv, Coordinated, TypeOK, Heeded
  <2>3. m.status = "COMMITTED" => "COMMITTED" \in decided[t]
        BY <1>0 DEF IInv, CommitsDecided, SaysCommitted
  <2>4. Move(t, m.status, resp[t])  BY <1>3, <2>2, <2>3 DEF Move
  <2>5. /\ CoordinatorFrame
        /\ m.status = "ABORTED" => UNCHANGED dataVars
        /\ m.status = "COMMITTED" => LoadedOnly(active, t)
    <3>1. CASE m.status = "ABORTED"
      <4>1. UNCHANGED dataVars  BY <3>1 DEF send_set_transaction_status
      <4> QED  BY <1>0, <2>2, <3>1, <4>1, FrameFact
    <3>2. CASE m.status = "COMMITTED"
      <4>1. Load(active, t, change[t])
            BY <1>3, <3>2 DEF send_set_transaction_status
      <4>2. /\ store \in [Locations -> [Oids -> Values]]
            /\ applied \in [Locations -> [Tx -> 0 .. 2]]
            BY DEF IInv, TypeOK
      <4>3. /\ store' \in [Locations -> [Oids -> Values]]
            /\ \A l \in Locations : l # active => store'[l] = store[l]
        <5>1. load_state(store[active], t, change[t]) \in [Oids -> Values]
              BY <1>0, <2>2, <4>2, LoadType
        <5> QED  BY <4>1, <4>2, <5>1 DEF Load
      <4>4. LoadedOnly(active, t)
            BY <1>0, <2>2, <4>1, AppliedFact DEF IInv
      <4> QED  BY <1>0, <2>2, <2>3, <3>2, <4>2, <4>3, <4>4
               DEF CoordinatorFrame, LoadedOnly, envVars, Backups, IInv, TypeOK,
                   Coordinated
    <3> QED  BY <1>3, <3>1, <3>2
  <2> QED  BY <1>0, <1>3, <2>1, <2>2, <2>4, <2>5, DecideActs
<1> QED  BY <1>1, <1>2, <1>3

\* The timer of the coordinator sends a request again.
LEMMA TimeoutActs ==
    ASSUME IInv, TimelyNetwork, NEW t \in Tx, handle_timeout(t)
    PROVE  CoordinatorActs
<1>1. CoordinatorFrame  BY FrameFact DEF handle_timeout
<1>2. \A u \in Tx : Heard(u, resp[u])  BY HeardBefore DEF IInv
<1>3. \A u \in Tx : Move(u, tstate[u], resp[u])  BY DEF Move
<1>4. set_internal_status(tstate, resp, {t}, net)  BY DEF handle_timeout
<1>5. Triggered(resp, net, {t})
  <2>1. \A m \in net : m.tx # t  BY DEF handle_timeout, InFlight
  <2>2. applied' = applied  BY DEF handle_timeout, dataVars
  <2>3. ASSUME NEW u \in Tx, tstate[u] = "RECOVERING"
        PROVE  tstate'[u] = "RECOVERING"
        BY <1>4, <2>3, StateComputed DEF Finished
  <2> QED  BY <2>1, <2>2, <2>3 DEF Triggered
<1> QED  BY <1>1, <1>2, <1>3, <1>4, <1>5, HandlerFact

\* A location whose failure is reported is no longer waited for.
LEMMA FailureActs ==
    ASSUME IInv, TimelyNetwork, NEW x \in Locations, on_failure(x)
    PROVE  CoordinatorActs
<1> DEFINE rs == RespWithout(x)
           ts == StateWithout(x)
<1>1. /\ set_internal_status(ts, rs, {}, net)
      /\ x \notin alive /\ x \in Locations
  <2>1. Handled(ts, rs, net) /\ x \notin alive
        BY DEF on_failure, RespWithout, StateWithout
  <2> QED  BY <2>1, TimelyHandled
<1>2. \A t \in Tx :
        /\ Move(t, ts[t], rs[t]) /\ Heard(t, rs[t])
        /\ ts[t] = tstate[t] \/ ts[t] = check_status_change(tstate[t], rs[t])
        /\ \A l \in DOMAIN rs[t] : rs[t][l] = resp[t][l]
      BY <1>1, FailureComputes
<1>3. CoordinatorFrame
      BY <1>1 DEF CoordinatorFrame, on_failure, dataVars, IInv, TypeOK
<1> HIDE DEF ts, rs
<1>4. Triggered(rs, net, {})
  <2>1. ASSUME NEW t \in Tx, tstate[t] = "RECOVERING", tstate'[t] # "RECOVERING"
        PROVE  tstate'[t] = "ABORTED" /\ AllAre(rs[t], "SET_TO_NOT_DONE")
    <3>1. \/ ts[t] = "RECOVERING"
          \/ ts[t] = "ABORTED" /\ AllAre(rs[t], "SET_TO_NOT_DONE")
          BY <1>2, <2>1 DEF check_status_change
    <3> QED  BY <1>1, <2>1, <3>1, StateComputed DEF Finished
  <2>2. applied' = applied  BY DEF on_failure, dataVars
  <2> QED  BY <1>2, <2>1, <2>2 DEF Triggered
<1> QED  BY <1>1, <1>2, <1>3, <1>4, HandlerFact

\* A message that is lost is dropped without having been heeded.
LEMMA LossActs ==
    ASSUME NEW m \in net, Lose(m)
    PROVE  CoordinatorActs
BY DEF Lose, CoordinatorActs, Dropped

-----------------------------------------------------------------------------
(* The rounds.                                                             *)

\* A request goes to a backup, an answer finds its coordinator, and that is no
\* cohort of its own.
Addressed ==
    /\ \A m \in net : /\ m.type \in Requests => m.loc \in Backups
                      /\ m.type \in Answers => active # NoLocation
    /\ \A t \in Tx : active \notin DOMAIN resp[t]

\* A prepare and the yes that answers it are one round between the coordinator
\* and a cohort: there is one of the two, and while it is on its way the
\* cohort's response is open.
Vote(m) == m.type \in {"prepare", "yes"}

OneVote(t) ==
    /\ tstate[t] = "WAITING" => \A m \in net : m.tx = t => ~Vote(m)
    /\ tstate[t] = "COLLECTING" =>
          \A m \in net : m.tx = t /\ Vote(m) =>
              /\ m.loc \in DOMAIN resp[t] => resp[t][m.loc] = "UNKNOWN"
              /\ \A k \in net : k.tx = t /\ Vote(k) /\ k.loc = m.loc => k = m

RInv == Addressed /\ \A t \in Tx : OneVote(t)

(* A step of the coordinator keeps the rounds apart.                       *)
LEMMA PerformedRounds ==
    ASSUME IInv, RInv, NEW rs, NEW n, NEW R, Performed(rs, n, R)
    PROVE  RInv'
<1>1. /\ \A t \in Tx : Stepped(t, rs[t]) /\ Answered(t, rs[t]) /\ Heard(t, rs[t])
      /\ UNCHANGED <<alive, active>> /\ Backups' = Backups
      /\ n \subseteq net
      /\ \A t \in R : \A m \in net : m.tx # t
      /\ \A m \in net' : m \in n \/ Sending(m, R)
      /\ \A t \in Tx : t \in R \/ tstate'[t] # tstate[t] =>
            \A l \in DOMAIN resp'[t] : resp'[t][l] = "UNKNOWN"
      BY DEF Performed, CoordinatorStep, CoordinatorFrame, Dispatched, Triggered,
             Backups
<1>2. Addressed'
  <2>1. \A t \in Tx : DOMAIN resp'[t] \subseteq DOMAIN resp[t]
        BY <1>1 DEF Answered, Heard
  <2>2. \A t \in Tx : active \notin DOMAIN resp'[t]
        BY <2>1 DEF RInv, Addressed
  <2>3. ASSUME NEW m \in net'
        PROVE  /\ m.type \in Requests => m.loc \in Backups
               /\ m.type \in Answers => active # NoLocation
    <3>1. CASE m \in n  BY <1>1, <2>3, <3>1 DEF RInv, Addressed
    <3>2. CASE Sending(m, R)
          BY <3>2 DEF Sending, RInv, Addressed, Backups, Performed, CoordinatorFrame
    <3> QED  BY <1>1, <3>1, <3>2
  <2> QED  BY <1>1, <2>2, <2>3 DEF Addressed
<1>3. ASSUME NEW t \in Tx
      PROVE  OneVote(t)'
  <2>0. OneVote(t)  BY DEF RInv
  <2>1. ASSUME tstate'[t] = "WAITING", NEW m \in net', m.tx = t
        PROVE  ~Vote(m)
    <3>1. tstate[t] = "WAITING"
          BY <1>1, <2>1 DEF Stepped, Stays, Enters, Ended
    <3>2. ~Sending(m, R)  BY <2>1 DEF Sending
    <3> QED  BY <1>1, <2>0, <2>1, <3>1, <3>2 DEF OneVote
  <2>2. ASSUME tstate'[t] = "COLLECTING", NEW m \in net', m.tx = t, Vote(m)
        PROVE  /\ m.loc \in DOMAIN resp'[t] => resp'[t][m.loc] = "UNKNOWN"
               /\ \A k \in net' : k.tx = t /\ Vote(k) /\ k.loc = m.loc => k = m
    <3>1. CASE t \in R \/ tstate'[t] # tstate[t]
      <4>1. \A k \in n : k.tx = t => ~Vote(k)
        <5>1. CASE t \in R  BY <1>1, <5>1
        <5>2. CASE tstate'[t] # tstate[t]
          <6>1. tstate[t] = "WAITING"
                BY <1>1, <2>2, <5>2 DEF Stepped, Stays, Enters, Ended
          <6> QED  BY <1>1, <2>0, <6>1 DEF OneVote
        <5> QED  BY <3>1, <5>1, <5>2
      <4>2. \A k \in net' : k.tx = t /\ Vote(k) =>
                k = Message(RequestOf[tstate'[t]], t, k.loc, att'[t], "UNKNOWN")
            BY <1>1, <4>1 DEF Sending
      <4> QED  BY <1>1, <2>2, <3>1, <4>2
    <3>2. CASE ~(t \in R \/ tstate'[t] # tstate[t])
      <4>1. \A k \in net' : k.tx = t => k \in n
            BY <1>1, <3>2 DEF Sending
      <4>2. /\ m \in net /\ tstate[t] = "COLLECTING"
            /\ \A k \in net : k.tx = t /\ Vote(k) /\ k.loc = m.loc => k = m
            /\ m.loc \in DOMAIN resp[t] => resp[t][m.loc] = "UNKNOWN"
            BY <1>1, <2>0, <2>2, <3>2, <4>1 DEF OneVote
      <4>3. ASSUME m.loc \in DOMAIN resp'[t], resp'[t][m.loc] # "UNKNOWN"
            PROVE  FALSE
        <5>1. m.loc \in DOMAIN rs[t] /\ rs[t][m.loc] # "UNKNOWN"
              BY <1>1, <4>3 DEF Answered
        <5>2. m.loc \in DOMAIN resp[t]  BY <1>1, <5>1 DEF Heard
        <5>3. PICK k \in net \ n : k.tx = t /\ k.loc = m.loc /\ k.type = "yes"
              BY <4>2, <5>1, <5>2 DEF Performed, Triggered
        <5> QED  BY <2>2, <4>1, <4>2, <5>3 DEF Vote
      <4> QED  BY <1>1, <4>1, <4>2, <4>3
    <3> QED  BY <3>1, <3>2
  <2> QED  BY <2>1, <2>2 DEF OneVote, Vote
<1> QED  BY <1>2, <1>3 DEF RInv

(* So does every step that leaves the coordinator alone and sends no vote. *)
LEMMA NoVoteRounds ==
    ASSUME RInv, UNCHANGED <<tstate, resp, alive, active>>,
           \A x \in net' : \/ x \in net
                           \/ /\ ~Vote(x)
                              /\ x.type \in Requests => x.loc \in Backups
                              /\ x.type \in Answers => active # NoLocation
    PROVE  RInv'
<1>1. Backups' = Backups  BY DEF Backups
<1>2. Addressed'  BY <1>1 DEF RInv, Addressed
<1>3. \A t \in Tx : OneVote(t)'  BY DEF RInv, OneVote, Vote
<1> QED  BY <1>2, <1>3 DEF RInv

\* Every step of the coordinator keeps the rounds apart.
LEMMA ActsRounds ==
    ASSUME IInv, RInv, CoordinatorActs
    PROVE  RInv'
<1>1. ASSUME NEW m \in net, Dropped(m)
      PROVE  RInv'
      BY <1>1, NoVoteRounds DEF Dropped, coordVars
<1> QED  BY <1>1, PerformedRounds DEF CoordinatorActs

\* A cohort answers the prepare that it has received.
LEMMA PrepareRounds ==
    ASSUME IInv, RInv, NEW m \in net, prepare_i(m)
    PROVE  RInv'
<1>1. /\ UNCHANGED <<tstate, resp, alive, active>> /\ Backups' = Backups
      /\ Vote(m)
      BY DEF prepare_i, coordVars, envVars, Backups, Vote
<1>2. ASSUME NEW x \in net', x \notin net
      PROVE  /\ x.type \in {"yes", "no"} /\ x.tx = m.tx /\ x.loc = m.loc
             /\ m \notin net' /\ active # NoLocation
             /\ \A y \in net' : y \in net \/ y = x
  <2>0. m.tx \in Tx /\ m.loc \in Locations  BY MessageFact
  <2>1. PICK a \in {"yes", "no"} :
            net' = (net \ {m}) \cup Answer(a, m.tx, m.loc, "UNKNOWN")
        BY DEF prepare_i
  <2>2. \A y \in Answer(a, m.tx, m.loc, "UNKNOWN") :
            /\ y = Message(a, m.tx, m.loc, 0, "UNKNOWN")
            /\ active # NoLocation
        BY DEF Answer
  <2>3. x = Message(a, m.tx, m.loc, 0, "UNKNOWN") /\ active # NoLocation
        BY <1>2, <2>1, <2>2
  <2>4. x.type \in {"yes", "no"} /\ x.tx = m.tx /\ x.loc = m.loc
        BY <2>3 DEF Message
  <2>5. m \notin net'
    <3>1. m \notin Answer(a, m.tx, m.loc, "UNKNOWN")  BY <1>2, <2>2, <2>3
    <3> QED  BY <2>1, <3>1
  <2>6. \A y \in net' : y \in net \/ y = x  BY <2>1, <2>2, <2>3
  <2> QED  BY <2>3, <2>4, <2>5, <2>6
<1>3. Addressed'
      BY <1>1, <1>2 DEF RInv, Addressed, Requests
<1>4. ASSUME NEW t \in Tx
      PROVE  OneVote(t)'
  <2>0. OneVote(t)  BY DEF RInv
  <2>1. tstate[t] = "WAITING" => \A x \in net' : x.tx = t => ~Vote(x)
        BY <1>1, <1>2, <2>0 DEF OneVote
  <2>2. ASSUME tstate[t] = "COLLECTING", NEW x \in net', x.tx = t, Vote(x)
        PROVE  /\ x.loc \in DOMAIN resp[t] => resp[t][x.loc] = "UNKNOWN"
               /\ \A k \in net' : k.tx = t /\ Vote(k) /\ k.loc = x.loc => k = x
        BY <1>1, <1>2, <2>0, <2>2 DEF OneVote
  <2> QED  BY <1>1, <2>1, <2>2 DEF OneVote, Vote
<1> QED  BY <1>3, <1>4 DEF RInv

\* The other messages of the cohorts and to them are no votes.
LEMMA AnswerRounds ==
    ASSUME RInv, NEW m, NEW a \in Answers, a # "yes", NEW t, NEW l, NEW s,
           net' \subseteq (net \ {m}) \cup Answer(a, t, l, s),
           UNCHANGED <<tstate, resp, alive, active>>
    PROVE  RInv'
<1>1. ASSUME NEW x \in Answer(a, t, l, s)
      PROVE  ~Vote(x) /\ x.type \notin Requests /\ active # NoLocation
  <2>1. x = Message(a, t, l, 0, s) /\ active # NoLocation  BY DEF Answer
  <2>2. x.type = a  BY <2>1 DEF Message
  <2> QED  BY <2>1, <2>2 DEF Vote, Answers, Requests
<1> QED  BY <1>1, NoVoteRounds

\* A cohort that handles a request keeps the rounds apart.
LEMMA CohortRounds ==
    ASSUME IInv, RInv, NEW m \in net,
           \/ commit(m) \/ rollback(m) \/ get_transaction_status_i(m)
           \/ set_transaction_status_i(m)
    PROVE  RInv'
<1>1. UNCHANGED <<tstate, resp, alive, active>>
      BY DEF commit, rollback, get_transaction_status_i,
             set_transaction_status_i, coordVars, envVars
<1>2. \/ net' \subseteq (net \ {m}) \cup Answer("end", m.tx, m.loc, "UNKNOWN")
      \/ \E s : net' \subseteq (net \ {m}) \cup Answer("status", m.tx, m.loc, s)
      BY DEF commit, rollback, get_transaction_status_i, set_transaction_status_i
<1> QED  BY <1>1, <1>2, AnswerRounds DEF Answers

\* The timer of a cohort keeps them apart.
LEMMA TimerRounds ==
    ASSUME IInv, RInv, NEW l \in Locations, NEW t \in Tx, on_timeout(l, t)
    PROVE  RInv'
<1>1. UNCHANGED <<tstate, resp, alive, active>>
      BY DEF on_timeout, coordVars, envVars
<1>2. CASE synch
  <2>1. net' = net  BY <1>2 DEF on_timeout
  <2> QED  BY <1>1, <2>1, NoVoteRounds
<1>3. CASE ~synch
  <2>1. net' = net \cup Answer("ask_status", t, l, "UNKNOWN")
        BY <1>3 DEF on_timeout
  <2>2. ASSUME NEW x \in Answer("ask_status", t, l, "UNKNOWN")
        PROVE  ~Vote(x) /\ x.type \notin Requests /\ active # NoLocation
        BY AnswerType DEF Vote, Requests, Answers, Statuses, Answer
  <2> QED  BY <1>1, <2>1, <2>2, NoVoteRounds
<1> QED  BY <1>2, <1>3

\* The answer to its query keeps them apart.
LEMMA AskRounds ==
    ASSUME IInv, RInv, NEW m \in net, send_get_transaction_status(m)
    PROVE  RInv'
<1> DEFINE s == get_transaction_status(m.tx)
<1>1. /\ UNCHANGED <<tstate, resp, alive, active>>
      /\ net' = (net \ {m}) \cup
              {Message("set_status", m.tx, l, 0, s) : l \in alive \ {active}}
      BY DEF send_get_transaction_status, coordVars, envVars
<1> HIDE DEF s
<1>2. ASSUME NEW l \in alive \ {active}
      PROVE  /\ ~Vote(Message("set_status", m.tx, l, 0, s))
             /\ Message("set_status", m.tx, l, 0, s).loc \in Backups
             /\ Message("set_status", m.tx, l, 0, s).type \notin Answers
      BY DEF Vote, Message, Backups, Answers
<1> QED  BY <1>1, <1>2, NoVoteRounds

\* The clients: a new transaction has no messages yet.
LEMMA RequestRounds ==
    ASSUME IInv, RInv, NEW t \in Tx, NEW c \in Changes, Request(t, c)
    PROVE  RInv'
<1>1. /\ Unborn(t) /\ UNCHANGED <<alive, active>> /\ Backups' = Backups
      /\ active \notin members
      BY DEF Request, NextTx, envVars, IInv, Coordinated, Backups
<1>2. CASE UNCHANGED <<tstate, resp, net>>
      BY <1>1, <1>2, NoVoteRounds
<1>3. CASE \E new \in {"COLLECTING", "WAITING"} :
              /\ tstate' = [tstate EXCEPT ![t] = new]
              /\ resp' = [resp EXCEPT ![t] = [l \in members |-> "UNKNOWN"]]
              /\ net' = net \cup IF new = "COLLECTING"
                                 THEN Sent(t, "prepare", members, 1) ELSE {}
  <2>1. PICK new \in {"COLLECTING", "WAITING"} :
              /\ tstate' = [tstate EXCEPT ![t] = new]
              /\ resp' = [resp EXCEPT ![t] = [l \in members |-> "UNKNOWN"]]
              /\ net' = net \cup IF new = "COLLECTING"
                                 THEN Sent(t, "prepare", members, 1) ELSE {}
        BY <1>3
  <2>2. /\ \A u \in Tx : tstate'[u] = IF u = t THEN new ELSE tstate[u]
        /\ \A u \in Tx : resp'[u] = IF u = t THEN [l \in members |-> "UNKNOWN"]
                                             ELSE resp[u]
        BY <2>1, HeardBefore DEF IInv, TypeOK
  <2>3. ASSUME NEW x \in net', x \notin net
        PROVE  /\ new = "COLLECTING" /\ x.tx = t /\ x.loc \in Backups
               /\ active # NoLocation
               /\ x = Message("prepare", t, x.loc, 1, "UNKNOWN")
    <3>1. PICK l \in members \cap alive : x = Message("prepare", t, l, 1, "UNKNOWN")
          BY <2>1, <2>3 DEF Sent
    <3>2. x.tx = t /\ x.loc = l  BY <3>1 DEF Message
    <3> QED  BY <1>1, <2>1, <2>3, <3>1, <3>2 DEF Backups, Request
  <2>4. Addressed'
        BY <1>1, <2>2, <2>3 DEF RInv, Addressed
  <2>5. \A x \in net : x.tx # t  BY <1>1 DEF Unborn
  <2>6. ASSUME NEW u \in Tx
        PROVE  OneVote(u)'
    <3>1. CASE u = t
          BY <2>2, <2>3, <2>5, <3>1 DEF OneVote
    <3>2. CASE u # t
      <4>1. OneVote(u) /\ tstate'[u] = tstate[u] /\ resp'[u] = resp[u]
            BY <2>2, <3>2 DEF RInv
      <4>2. \A x \in net' : x.tx = u => x \in net  BY <2>3, <3>2
      <4> QED  BY <4>1, <4>2 DEF OneVote, Vote
    <3> QED  BY <3>1, <3>2
  <2> QED  BY <2>4, <2>6 DEF RInv
<1> QED  BY <1>2, <1>3 DEF Request

\* The process of a cohort ends.
Gone(l) == l \in alive \ {active} /\ EndProcess(l)

\* It crashes, or its timer thread lets an exception out.
LEMMA GoneFact ==
    ASSUME NEW l \in Locations,
           CrashCohort(l) \/ \E t \in Tx : on_timeout_uncaught(l, t)
    PROVE  Gone(l)
BY ConstantsAssumption DEF Gone, CrashCohort, on_timeout_uncaught

\* A crash, and the next primary.
LEMMA GoneRounds ==
    ASSUME IInv, RInv, NEW l \in Locations, Gone(l)
    PROVE  RInv'
<1>1. /\ UNCHANGED <<tstate, resp, active>> /\ alive' = alive \ {l}
      /\ net' = {m \in net : m.type \in Answers \/ m.loc # l}
      BY DEF Gone, EndProcess, coordVars
<1>2. Addressed'
      BY <1>1 DEF RInv, Addressed, Backups, Requests, Answers
<1>3. \A t \in Tx : OneVote(t)'
      BY <1>1 DEF RInv, OneVote, Vote
<1> QED  BY <1>2, <1>3 DEF RInv

\* With the primary its votes are gone, requests may stay on their way.
LEMMA CrashCoordinatorRounds ==
    ASSUME IInv, RInv, CrashCoordinator
    PROVE  RInv'
<1>1. /\ \A t \in Tx : tstate'[t] = "NONE" /\ resp'[t] = NoResponses
      /\ net' \subseteq net
      /\ net' \subseteq {m \in net : m.type \in Requests}
      /\ alive' = alive \ {active} /\ active' = NoLocation
      BY DEF CrashCoordinator
<1>2. Backups' = Backups
      BY <1>1, ConstantsAssumption DEF Backups, IInv, TypeOK
<1>3. Addressed'
      BY <1>1, <1>2 DEF RInv, Addressed, NoResponses, Requests, Answers
<1>4. \A t \in Tx : OneVote(t)'  BY <1>1 DEF OneVote
<1> QED  BY <1>3, <1>4 DEF RInv

\* The next primary starts with queries only, of locations it waits for.
LEMMA ActivateRounds ==
    ASSUME IInv, RInv, NEW l \in Locations, activate(l)
    PROVE  RInv'
<1>1. PICK unnoticed \in SUBSET (Locations \ (alive \cup {InitialCoordinator})) :
          members' = (alive \ {l}) \cup unnoticed
      BY DEF activate
<1>2. /\ l \in alive /\ alive' = alive /\ active' = l /\ l \notin members'
      /\ \A t \in Tx : /\ tstate'[t] \in {"NONE", "RECOVERING"}
                       /\ \/ resp'[t] = [k \in members' |-> "UNKNOWN"]
                          \/ resp'[t] = NoResponses
      /\ net' = UNION {Sent(t, "get_status", members', 1) : t \in prepared[l]}
      BY <1>1 DEF activate
<1>3. ASSUME NEW m \in net'
      PROVE  m.loc \in Backups'
  <2>1. PICK t \in prepared[l] : m \in Sent(t, "get_status", members', 1)
        BY <1>2
  <2>2. PICK k \in members' \cap alive : m = Message("get_status", t, k, 1, "UNKNOWN")
        BY <2>1 DEF Sent
  <2>3. m.loc = k  BY <2>2 DEF Message
  <2> QED  BY <1>2, <2>2, <2>3 DEF Backups
<1>4. Addressed'
      BY <1>2, <1>3, ConstantsAssumption DEF Addressed, NoResponses
<1>5. \A t \in Tx : OneVote(t)'  BY <1>2 DEF OneVote
<1> QED  BY <1>4, <1>5 DEF RInv

\* At the start nothing is on its way.
LEMMA InitRounds == Init => RInv
BY DEF Init, RInv, Addressed, OneVote, NoResponses

\* A step of the engine keeps the rounds apart.
LEMMA NextRounds ==
    ASSUME TimelyNetwork, IInv, RInv, [Next]_vars
    PROVE  RInv'
<1>1. CASE UNCHANGED vars
      BY <1>1, NoVoteRounds DEF vars
<1>2. ASSUME NEW t \in Tx, NEW c \in Changes, Request(t, c) PROVE RInv'
      BY <1>2, RequestRounds
<1>3. ASSUME NEW t \in Tx, NEW c \in Changes, RequestLocal(t, c) PROVE RInv'
      BY <1>3, NoVoteRounds DEF RequestLocal, envVars
<1>4. ASSUME NEW t \in Tx, LocalApply(t) PROVE RInv'
      BY <1>4, NoVoteRounds DEF LocalApply, envVars
<1>5. ASSUME NEW t \in Tx, handle_timeout(t) PROVE RInv'
      BY <1>5, TimeoutActs, ActsRounds
<1>6. ASSUME NEW m \in net, ToCoordinator(m) PROVE RInv'
      BY <1>6, YesActs, NoActs, EndActs, StatusAnswerActs, ActsRounds, AskRounds
         DEF ToCoordinator
<1>7. ASSUME NEW m \in net, ToCohort(m) PROVE RInv'
      BY <1>7, PrepareRounds, CohortRounds DEF ToCohort
<1>8. ASSUME NEW m \in net, Lose(m) PROVE RInv'
      BY <1>8, LossActs, ActsRounds
<1>9. ASSUME NEW l \in Locations, NEW t \in Tx, on_timeout(l, t) PROVE RInv'
      BY <1>9, TimerRounds
<1>10. ASSUME NEW l \in Locations,
              CrashCohort(l) \/ \E t \in Tx : on_timeout_uncaught(l, t)
       PROVE  RInv'
      BY <1>10, GoneFact, GoneRounds
<1>11. ASSUME NEW l \in Locations, on_failure(l) PROVE RInv'
      BY <1>11, FailureActs, ActsRounds
<1>12. ASSUME NEW l \in Locations, activate(l) PROVE RInv'
      BY <1>12, ActivateRounds
<1>13. CASE CrashCoordinator  BY <1>13, CrashCoordinatorRounds
<1>14. CASE EraseLocation
      BY <1>14, NoVoteRounds DEF EraseLocation, coordVars
<1> QED  BY <1>1, <1>2, <1>3, <1>4, <1>5, <1>6, <1>7, <1>8, <1>9, <1>10,
            <1>11, <1>12, <1>13, <1>14 DEF Next

(* When the timers are longer than the delays of the network, a request    *)
(* and its answer are one exchange: a prepare and the yes to it are never  *)
(* on their way at once, nor again when the answer has been heard, and a   *)
(* request only goes to a backup that is up.                               *)
THEOREM RoundsHold ==
    ASSUME TimelyNetwork
    PROVE  Spec => []RInv
<1>1. IInv /\ RInv /\ [Next]_vars => RInv'  BY NextRounds
<1> QED  BY <1>1, IInvHolds, InitRounds, PTL DEF Spec
=============================================================================
