------------------------- MODULE StateTransferProofs -------------------------
(***************************************************************************)
(* Proofs about the state transfer, for every set of clients and oids and  *)
(* every increment and threshold: the bookkeeping of                       *)
(* DataStoreRecordIterator loses no change, and every record it sends can  *)
(* be loaded.                                                              *)
(***************************************************************************)
EXTENDS StateTransfer, FiniteSetTheorems, TLAPS

\* The joining location has the oid once the record on its way is loaded.
HasAfter(o) ==
    \/ batch[o] \in {"INSERTION", "UPDATE"}
    \/ batch[o] = "NONE" /\ jdata[o] # Absent

\* What an entry of m_map or m_updates, or its absence, says of an oid: the
\* table in the comment of DataStoreRecordIterator, read backwards.
Tracks(o) ==
    /\ map[o] = "INSERTION" =>
           data[o] # Absent /\ o \notin updates /\ ~HasAfter(o)
    /\ map[o] = "REMOVAL" =>
           data[o] = Absent /\ o \notin updates /\ HasAfter(o)
    /\ o \in updates => data[o] # Absent /\ HasAfter(o)
    /\ map[o] = "NONE" /\ o \notin updates =>
           IF batch[o] = "NONE" THEN jdata[o] = data[o]
                                ELSE HasAfter(o) <=> data[o] # Absent

\* RecordsLoadable for one oid.
Loadable(o) ==
    batch[o] # "NONE" => (batch[o] = "INSERTION" <=> jdata[o] = Absent)

\* The life of the iterator.
Stages ==
    /\ tstep \notin {"encode", "terminated"} =>
           \A o \in Oids : batch[o] = "NONE"
    /\ tstep = "none" =>
           /\ ~registered /\ ~destroyed /\ ~member /\ ~frozen
           /\ \A o \in Oids : map[o] = "NONE" /\ jdata[o] = Absent
           /\ updates = {}
    /\ tstep # "none" /\ ~destroyed => registered
    /\ member => tstep \in {"cleanup", "add_ref", "unfreeze", "joined",
                            "terminated"}
    /\ \A c \in Clients : withJ[c] => member

\* The bookkeeping is right until the joining location is a cohort.
Tracking == registered /\ ~member => \A o \in Oids : Tracks(o)

IInv ==
    /\ TypeOK
    /\ Stages
    /\ Tracking
    /\ \A o \in Oids : Loadable(o)

trackedVars == <<map, updates, batch, jdata, data>>

---------------------------------------------------------------------------
(* Choice(S, n), the elements taken from m_map or m_updates, is a subset   *)
(* of S with at most n elements.                                           *)
LEMMA ChoiceFact ==
    ASSUME NEW S, IsFiniteSet(S), NEW n \in Nat, NEW T \in Choice(S, n)
    PROVE  /\ T \subseteq S
           /\ Cardinality(T) \in Nat
           /\ Cardinality(T) <= n
<1>1. T \subseteq S  BY DEF Choice
<1>2. IsFiniteSet(T)  BY <1>1, FS_Subset
<1>3. Cardinality(T) \in Nat /\ Cardinality(S) \in Nat
      BY <1>2, FS_CardinalityType
<1> QED  BY <1>1, <1>3 DEF Choice

(* Applied writes one oid and nothing else, and an insertion or update     *)
(* leaves the oid present.                                                 *)
LEMMA AppliedFact ==
    ASSUME NEW d \in [Oids -> Values], NEW r \in Operations
    PROVE  /\ Applied(d, r) \in [Oids -> Values]
           /\ \A o \in Oids : o # r.oid => Applied(d, r)[o] = d[o]
           /\ (Applied(d, r)[r.oid] = Absent) <=> (r.kind = "REMOVAL")
<1> DEFINE v == IF r.kind = "REMOVAL" THEN Absent ELSE r.val
<1>1. /\ r.oid \in Oids
      /\ r.val \in 0 .. MaxOps
      /\ MaxOps \in Nat
      BY ConstantsAssumption DEF Operations
<1>2. v \in Values /\ (v = Absent <=> r.kind = "REMOVAL")
      BY <1>1 DEF Values, Absent
<1>3. Applied(d, r) = [d EXCEPT ![r.oid] = v]  BY DEF Applied
<1> HIDE DEF v
<1> QED  BY <1>1, <1>2, <1>3

(* Types: every step of a client keeps the types.                          *)
LEMMA ClientType ==
    ASSUME TypeOK, NEW c \in Clients, Client(c)
    PROVE  TypeOK'
<1> USE ConstantsAssumption DEF TypeOK, clientVars, iterVars, pullVars,
        statusVars, memberVars, ClientSteps
<1>1. CASE Thaw(c)  BY <1>1 DEF Thaw
<1>2. CASE Route(c)  BY <1>2 DEF Route
<1>3. CASE Request(c)  BY <1>3 DEF Request
<1>4. CASE Commit(c)
  <2>1. jdata' \in [Oids -> Values]
        BY <1>4, AppliedFact DEF Commit
  <2> QED  BY <1>4, <2>1 DEF Commit
<1>5. CASE Abort(c)  BY <1>5 DEF Abort
<1>6. CASE Return(c)  BY <1>6 DEF Return
<1>7. CASE LocalApply(c)
  <2>1. op[c] \in Operations  OBVIOUS
  <2>2. op[c].oid \in Oids  BY <2>1 DEF Operations
  <2>3. data' \in [Oids -> Values]
        BY <1>7, <2>1, AppliedFact DEF LocalApply
  <2>4. /\ map' \in [Oids -> {"NONE", "INSERTION", "REMOVAL"}]
        /\ updates' \subseteq Oids
    <3>1. CASE Callback(op[c])
          BY <3>1, <2>2 DEF Callback, on_insert, on_update, on_remove
    <3>2. CASE UNCHANGED <<map, updates>>  BY <3>2
    <3> QED  BY <1>7, <3>1, <3>2 DEF LocalApply
  <2> QED  BY <1>7, <2>3, <2>4 DEF LocalApply
<1> QED  BY <1>1, <1>2, <1>3, <1>4, <1>5, <1>6, <1>7 DEF Client

(* ... and so does every step of the transfer,                             *)
LEMMA TransferType ==
    ASSUME TypeOK, Transfer
    PROVE  TypeOK'
<1> USE ConstantsAssumption DEF TypeOK, clientVars, iterVars, pullVars,
        statusVars, memberVars
<1> DEFINE mapT == map' \in [Oids -> {"NONE", "INSERTION", "REMOVAL"}]
<1>f. /\ IsFiniteSet(Marked) /\ Cardinality(Marked) \in Nat
      /\ IsFiniteSet(updates) /\ Cardinality(updates) \in Nat
  <2>1. IsFiniteSet(Marked)  BY FS_Subset DEF Marked
  <2>2. IsFiniteSet(updates)  BY FS_Subset
  <2> QED  BY <2>1, <2>2, FS_CardinalityType
<1>1. CASE next_n  BY <1>1 DEF next_n, TransferSteps
<1>2. CASE Take
  <2>1. CASE destroyed  BY <1>2, <2>1 DEF Take, TransferSteps
  <2>2. CASE ~destroyed
    <3>1. PICK T \in Choice(Marked, needed) :
          \E U \in Choice(updates, needed - Cardinality(T)) :
               /\ tstep' = "encode"
               /\ batch' = [o \in Oids |-> IF o \in T THEN map[o]
                                           ELSE IF o \in U THEN "UPDATE"
                                           ELSE "NONE"]
               /\ map' = [o \in Oids |-> IF o \in T THEN "NONE" ELSE map[o]]
               /\ updates' = updates \ U
               /\ needed' = needed - Cardinality(T) - Cardinality(U)
          BY <1>2, <2>2 DEF Take
    <3>2. /\ needed \in Nat
          /\ Cardinality(T) \in Nat /\ Cardinality(T) <= needed
          BY <1>f, ChoiceFact
    <3>3. PICK U \in Choice(updates, needed - Cardinality(T)) :
               /\ tstep' = "encode"
               /\ batch' = [o \in Oids |-> IF o \in T THEN map[o]
                                           ELSE IF o \in U THEN "UPDATE"
                                           ELSE "NONE"]
               /\ map' = [o \in Oids |-> IF o \in T THEN "NONE" ELSE map[o]]
               /\ updates' = updates \ U
               /\ needed' = needed - Cardinality(T) - Cardinality(U)
          BY <3>1
    <3>4. /\ Cardinality(U) \in Nat
          /\ Cardinality(U) <= needed - Cardinality(T)
          BY <1>f, <3>2, ChoiceFact
    <3>5. needed' \in 0 .. IteratorIncrement  BY <3>2, <3>3, <3>4
    <3>6. batch' \in [Oids -> Kinds \cup {"NONE"}]  BY <3>3 DEF Kinds
    <3>7. mapT  BY <3>3
    <3> QED  BY <1>2, <3>3, <3>5, <3>6, <3>7 DEF Take, TransferSteps
  <2> QED  BY <2>1, <2>2
<1>3. CASE CheckMore  BY <1>3 DEF CheckMore, TransferSteps
<1>4. CASE wait_for_no_transactions_in_progress
      BY <1>4 DEF wait_for_no_transactions_in_progress, TransferSteps
<1>5. CASE Measure  BY <1>5, <1>f DEF Measure, TransferSteps
<1>6. CASE MeasureOther
  <2>1. remaining' \in Nat  BY <1>6, <1>f DEF MeasureOther
  <2> QED  BY <1>6, <2>1 DEF MeasureOther, TransferSteps
<1>7. CASE Freeze
  <2>1. iterFrozen' \in BOOLEAN /\ frozen' \in BOOLEAN  BY <1>7 DEF Freeze
  <2> QED  BY <1>7, <2>1 DEF Freeze, TransferSteps
<1>8. CASE Destroy  BY <1>8 DEF Destroy, TransferSteps
<1>9. CASE add_location  BY <1>9 DEF add_location, TransferSteps
<1>10. CASE cleanup  BY <1>10 DEF cleanup, TransferSteps
<1>11. CASE add_ref_for_location
       BY <1>11 DEF add_ref_for_location, TransferSteps
<1>12. CASE unfreeze
  <2>1. frozen' \in BOOLEAN  BY <1>12 DEF unfreeze
  <2> QED  BY <1>12, <2>1 DEF unfreeze, TransferSteps
<1>13. CASE \E o \in Oids : Encode(o)
  <2>1. PICK o \in Oids : Encode(o)  BY <1>13
  <2>2. Absent \in Values  BY DEF Absent, Values
  <2>3. jdata' \in [Oids -> Values]  BY <2>1, <2>2 DEF Encode
  <2> QED  BY <2>1, <2>3 DEF Encode, TransferSteps
<1> QED  BY <1>1, <1>2, <1>3, <1>4, <1>5, <1>6, <1>7, <1>8, <1>9, <1>10,
            <1>11, <1>12, <1>13 DEF Transfer

(* ... and every step of the specification.                                *)
LEMMA TypeStep ==
    ASSUME TypeOK, [Next]_vars
    PROVE  TypeOK'
<1> USE ConstantsAssumption DEF TypeOK
<1>1. ASSUME NEW c \in Clients, NEW k \in Kinds, NEW o \in Oids, Enter(c, k, o)
      PROVE  TypeOK'
  <2>1. ops' \in 0 .. MaxOps  BY <1>1 DEF Enter
  <2>2. [kind |-> k, oid |-> o, val |-> ops + 1] \in Operations
        BY <1>1 DEF Enter, Operations
  <2>3. op' \in [Clients -> Operations]  BY <1>1, <2>2 DEF Enter
  <2>4. pc' \in [Clients -> ClientSteps]  BY <1>1 DEF Enter, ClientSteps
  <2> QED  BY <1>1, <2>1, <2>3, <2>4
           DEF Enter, iterVars, pullVars, statusVars, memberVars
<1>2. CASE get_record_iterator
      BY <1>2 DEF get_record_iterator, TransferSteps, clientVars, pullVars,
                  memberVars
<1>3. CASE JoinerFails
      BY <1>3 DEF JoinerFails, TransferSteps, clientVars, iterVars, pullVars,
                  memberVars, statusVars
<1>4. CASE invoke_timeouts
  <2>1. /\ registered' \in BOOLEAN /\ destroyed' \in BOOLEAN
        /\ iterKnown' \in BOOLEAN /\ frozen' \in BOOLEAN
        /\ tstep' \in TransferSteps
        BY <1>4 DEF invoke_timeouts, TransferSteps, statusVars
  <2> QED  BY <1>4, <2>1 DEF invoke_timeouts, clientVars, iterVars, pullVars,
                             memberVars
<1>5. CASE UNCHANGED vars
      BY <1>5 DEF vars, clientVars, iterVars, pullVars, memberVars, statusVars
<1> HIDE DEF TypeOK
<1> QED  BY <1>1, <1>2, <1>3, <1>4, <1>5, ClientType, TransferType DEF Next

(* The stages of the transfer: the batch is empty outside the encoding, an *)
(* iterator that is not destroyed is registered, and the joining location  *)
(* becomes a cohort only when the last record has been encoded.            *)
LEMMA StagesStep ==
    ASSUME TypeOK, Stages, Next
    PROVE  Stages'
<1> USE DEF TypeOK, Stages, clientVars, iterVars, pullVars, statusVars,
        memberVars, Up
<1>1. ASSUME NEW c \in Clients, NEW k \in Kinds, NEW o \in Oids, Enter(c, k, o)
      PROVE  Stages'
      BY <1>1 DEF Enter
<1>2. ASSUME NEW c \in Clients, Client(c)
      PROVE  Stages'
  <2>1. CASE Thaw(c)  BY <2>1 DEF Thaw
  <2>2. CASE Route(c)  BY <2>2 DEF Route
  <2>3. CASE Request(c)  BY <2>3 DEF Request
  <2>4. CASE Commit(c)
    <3>1. CASE withJ[c]  BY <2>4, <3>1 DEF Commit
    <3>2. CASE ~withJ[c]  BY <2>4, <3>2 DEF Commit
    <3> QED  BY <3>1, <3>2
  <2>5. CASE Abort(c)  BY <2>5 DEF Abort
  <2>6. CASE Return(c)  BY <2>6 DEF Return
  <2>7. CASE LocalApply(c)
    <3>1. ~registered => UNCHANGED <<map, updates>>  BY <2>7 DEF LocalApply
    <3> QED  BY <2>7, <3>1 DEF LocalApply
  <2> QED  BY <1>2, <2>1, <2>2, <2>3, <2>4, <2>5, <2>6, <2>7 DEF Client
<1>3. CASE get_record_iterator  BY <1>3 DEF get_record_iterator
<1>4. CASE JoinerFails  BY <1>4 DEF JoinerFails
<1>5. CASE invoke_timeouts  BY <1>5 DEF invoke_timeouts
<1>6. CASE next_n  BY <1>6 DEF next_n
<1>7. CASE Take  BY <1>7 DEF Take
<1>8. CASE CheckMore  BY <1>8 DEF CheckMore
<1>9. CASE wait_for_no_transactions_in_progress
      BY <1>9 DEF wait_for_no_transactions_in_progress
<1>10. CASE Measure  BY <1>10 DEF Measure
<1>11. CASE MeasureOther  BY <1>11 DEF MeasureOther
<1>12. CASE Freeze  BY <1>12 DEF Freeze
<1>13. CASE Destroy  BY <1>13 DEF Destroy
<1>14. CASE add_location  BY <1>14 DEF add_location
<1>15. CASE cleanup  BY <1>15 DEF cleanup
<1>16. CASE add_ref_for_location  BY <1>16 DEF add_ref_for_location
<1>17. CASE unfreeze  BY <1>17 DEF unfreeze
<1>18. ASSUME NEW o \in Oids, Encode(o)
       PROVE  Stages'
       BY <1>18 DEF Encode
<1> HIDE DEF TypeOK, Stages
<1> QED  BY <1>1, <1>2, <1>3, <1>4, <1>5, <1>6, <1>7, <1>8, <1>9, <1>10,
            <1>11, <1>12, <1>13, <1>14, <1>15, <1>16, <1>17, <1>18
         DEF Next, Transfer

(* A committed change at the primary: the callback turns the entry of the  *)
(* oid into one that again says what the joining location lacks.           *)
LEMMA LocalApplyTracks ==
    ASSUME TypeOK, Tracking, NEW c \in Clients, LocalApply(c)
    PROVE  Tracking'
<1> SUFFICES ASSUME registered, ~member, NEW o \in Oids
             PROVE  Tracks(o)'
    BY DEF Tracking, LocalApply, statusVars, memberVars
<1>1. Tracks(o)  BY DEF Tracking
<1>2. op[c] \in Operations /\ op[c].oid \in Oids /\ op[c].kind \in Kinds
      BY DEF TypeOK, Operations
<1>3. UNCHANGED <<batch, jdata>>  BY DEF LocalApply
<1>4. HasAfter(o)' = HasAfter(o)  BY <1>3 DEF HasAfter
<1>5. CASE ~Applicable(data, op[c])
  <2>1. UNCHANGED <<data, map, updates>>  BY <1>5 DEF LocalApply
  <2> QED  BY <1>1, <1>3, <1>4, <2>1 DEF Tracks
<1>6. CASE Applicable(data, op[c])
  <2>1. data' = Applied(data, op[c]) /\ Callback(op[c])
        BY <1>6 DEF LocalApply
  <2>2. /\ o # op[c].oid => data'[o] = data[o]
        /\ (data'[op[c].oid] = Absent) <=> (op[c].kind = "REMOVAL")
        BY <2>1, <1>2, AppliedFact DEF TypeOK
  <2>3. op[c].kind = "INSERTION" <=> data[op[c].oid] = Absent
        BY <1>6 DEF Applicable
  <2>4. CASE o # op[c].oid
    <3>1. map'[o] = map[o] /\ (o \in updates' <=> o \in updates)
          BY <2>1, <2>4, <1>2
          DEF Callback, on_insert, on_update, on_remove, TypeOK
    <3> QED  BY <1>1, <1>3, <1>4, <2>2, <2>4, <3>1 DEF Tracks
  <2>5. CASE o = op[c].oid
    <3>0. map[o] \in {"NONE", "INSERTION", "REMOVAL"}  BY DEF TypeOK
    <3>1. CASE op[c].kind = "INSERTION"
      <4>1. on_insert(o)  BY <2>1, <2>5, <3>1 DEF Callback
      <4>2. CASE map[o] # "NONE"
        <5>1. map'[o] = "NONE" /\ o \in updates'
              BY <4>1, <4>2 DEF on_insert, TypeOK
        <5> QED  BY <1>1, <1>3, <1>4, <2>2, <2>3, <2>5, <3>0, <3>1, <4>2, <5>1
                 DEF Tracks
      <4>3. CASE map[o] = "NONE"
        <5>1. map'[o] = "INSERTION" /\ updates' = updates
              BY <4>1, <4>3 DEF on_insert, TypeOK
        <5>2. ~HasAfter(o)
              BY <1>1, <2>3, <2>5, <3>1, <4>3 DEF Tracks, HasAfter
        <5> QED  BY <1>1, <1>3, <1>4, <2>2, <2>3, <2>5, <3>1, <4>3, <5>1, <5>2
                 DEF Tracks
      <4> QED  BY <4>2, <4>3
    <3>2. CASE op[c].kind = "UPDATE"
      <4>1. on_update(o)  BY <2>1, <2>5, <3>2 DEF Callback
      <4>2. CASE map[o] = "NONE"
        <5>1. map'[o] = "NONE" /\ o \in updates'
              BY <4>1, <4>2 DEF on_update
        <5>2. HasAfter(o)
              BY <1>1, <2>3, <2>5, <3>2, <4>2 DEF Tracks, HasAfter
        <5> QED  BY <1>4, <2>2, <2>5, <3>2, <5>1, <5>2 DEF Tracks
      <4>3. CASE map[o] # "NONE"
        <5>1. map' = map /\ updates' = updates
              BY <4>1, <4>3 DEF on_update
        <5> QED  BY <1>1, <1>3, <1>4, <2>2, <2>3, <2>5, <3>2, <4>3, <5>1
                 DEF Tracks
      <4> QED  BY <4>2, <4>3
    <3>3. CASE op[c].kind = "REMOVAL"
      <4>1. on_remove(o)  BY <2>1, <2>5, <3>3 DEF Callback
      <4>2. CASE map[o] = "INSERTION"
        <5>1. map'[o] = "NONE" /\ updates' = updates
              BY <4>1, <4>2 DEF on_remove, TypeOK
        <5> QED  BY <1>1, <1>3, <1>4, <2>2, <2>5, <3>3, <4>2, <5>1
                 DEF Tracks, HasAfter
      <4>3. CASE map[o] # "INSERTION"
        <5>1. map'[o] = "REMOVAL" /\ o \notin updates'
              BY <4>1, <4>3 DEF on_remove, TypeOK
        <5>2. HasAfter(o)
              BY <1>1, <2>3, <2>5, <3>0, <3>3, <4>3 DEF Tracks, HasAfter
        <5> QED  BY <1>4, <2>2, <2>5, <3>3, <5>1, <5>2 DEF Tracks
      <4> QED  BY <4>2, <4>3
    <3> QED  BY <1>2, <3>1, <3>2, <3>3 DEF Kinds
  <2> QED  BY <2>4, <2>5
<1> QED  BY <1>5, <1>6

(* Taking records: what leaves m_map and m_updates is on its way.          *)
LEMMA TakeTracks ==
    ASSUME TypeOK, Stages, Tracking, \A o \in Oids : Loadable(o), Take
    PROVE  Tracking' /\ \A o \in Oids : Loadable(o)'
<1>1. CASE destroyed
      BY <1>1 DEF Take, Tracking, Tracks, HasAfter, Loadable, iterVars,
                  statusVars, memberVars
<1>2. CASE ~destroyed
  <2>1. registered /\ ~member /\ \A o \in Oids : batch[o] = "NONE"
        BY <1>2 DEF Take, Stages
  <2>2. PICK T \in Choice(Marked, needed) :
        \E U \in Choice(updates, needed - Cardinality(T)) :
             /\ batch' = [o \in Oids |-> IF o \in T THEN map[o]
                                         ELSE IF o \in U THEN "UPDATE"
                                         ELSE "NONE"]
             /\ map' = [o \in Oids |-> IF o \in T THEN "NONE" ELSE map[o]]
             /\ updates' = updates \ U
        BY <1>2 DEF Take
  <2>3. PICK U \in Choice(updates, needed - Cardinality(T)) :
             /\ batch' = [o \in Oids |-> IF o \in T THEN map[o]
                                         ELSE IF o \in U THEN "UPDATE"
                                         ELSE "NONE"]
             /\ map' = [o \in Oids |-> IF o \in T THEN "NONE" ELSE map[o]]
             /\ updates' = updates \ U
        BY <2>2
  <2>4. T \subseteq Marked /\ U \subseteq updates  BY DEF Choice
  <2>5. ASSUME NEW o \in Oids
        PROVE  Tracks(o)' /\ Loadable(o)'
    <3>1. Tracks(o)  BY <2>1 DEF Tracking
    <3>2. batch[o] = "NONE"  BY <2>1
    <3>3. UNCHANGED <<data, jdata>>  BY DEF Take
    <3>4. map[o] \in {"NONE", "INSERTION", "REMOVAL"}  BY DEF TypeOK
    <3>5. CASE o \in T
      <4>1. map[o] # "NONE"  BY <2>4, <3>5 DEF Marked
      <4>2. o \notin updates  BY <3>1, <3>4, <4>1 DEF Tracks
      <4>3. batch'[o] = map[o] /\ map'[o] = "NONE" /\ o \notin updates'
            BY <2>3, <3>5, <4>2
      <4> QED  BY <3>1, <3>2, <3>3, <3>4, <4>1, <4>3
               DEF Tracks, HasAfter, Loadable
    <3>6. CASE o \notin T /\ o \in U
      <4>1. o \in updates /\ map[o] = "NONE"
            BY <2>4, <3>1, <3>4, <3>6 DEF Tracks
      <4>2. batch'[o] = "UPDATE" /\ map'[o] = "NONE" /\ o \notin updates'
            BY <2>3, <3>6, <4>1
      <4> QED  BY <3>1, <3>2, <3>3, <4>1, <4>2 DEF Tracks, HasAfter, Loadable
    <3>7. CASE o \notin T /\ o \notin U
      <4>1. /\ batch'[o] = batch[o] /\ map'[o] = map[o]
            /\ o \in updates' <=> o \in updates
            BY <2>3, <3>2, <3>7
      <4> QED  BY <3>1, <3>2, <3>3, <4>1 DEF Tracks, HasAfter, Loadable
    <3> QED  BY <3>5, <3>6, <3>7
  <2> QED  BY <2>5 DEF Tracking
<1> QED  BY <1>1, <1>2

(* Encoding a record with the data of this moment, and loading it.         *)
LEMMA EncodeTracks ==
    ASSUME TypeOK, Tracking, \A o \in Oids : Loadable(o),
           NEW p \in Oids, Encode(p)
    PROVE  Tracking' /\ \A o \in Oids : Loadable(o)'
<1>1. UNCHANGED <<data, map, updates, registered, member>>
      BY DEF Encode, statusVars, memberVars
<1>2. CASE batch[p] # "REMOVAL" /\ data[p] = Absent
  <2>1. UNCHANGED <<batch, jdata>>  BY <1>2 DEF Encode
  <2> QED  BY <1>1, <2>1 DEF Tracking, Tracks, HasAfter, Loadable
<1>3. CASE ~(batch[p] # "REMOVAL" /\ data[p] = Absent)
  <2>1. /\ batch' = [batch EXCEPT ![p] = "NONE"]
        /\ jdata' = [jdata EXCEPT ![p] = IF batch[p] = "REMOVAL"
                                         THEN Absent ELSE data[p]]
        /\ batch[p] # "NONE"
        BY <1>3 DEF Encode
  <2>2. ASSUME NEW o \in Oids, o # p
        PROVE  /\ Tracks(o) => Tracks(o)'
               /\ Loadable(o) => Loadable(o)'
    <3>1. batch'[o] = batch[o] /\ jdata'[o] = jdata[o]
          BY <2>1, <2>2 DEF TypeOK
    <3> QED  BY <1>1, <3>1 DEF Tracks, HasAfter, Loadable
  <2>3. /\ batch'[p] = "NONE"
        /\ jdata'[p] = IF batch[p] = "REMOVAL" THEN Absent ELSE data[p]
        BY <2>1 DEF TypeOK
  <2>4. Loadable(p)'  BY <2>3 DEF Loadable
  <2>5. batch[p] \in Kinds  BY <2>1 DEF TypeOK
  <2>6. Tracks(p) => Tracks(p)'
    <3>1. CASE batch[p] = "REMOVAL"
          BY <1>1, <2>3, <3>1 DEF Tracks, HasAfter
    <3>2. CASE batch[p] \in {"INSERTION", "UPDATE"}
          BY <1>1, <1>3, <2>3, <3>2 DEF Tracks, HasAfter
    <3> QED  BY <2>5, <3>1, <3>2 DEF Kinds
  <2> QED  BY <1>1, <2>2, <2>4, <2>6 DEF Tracking
<1> QED  BY <1>2, <1>3

(* Every other step leaves the entries and the data alone, or ends the     *)
(* tracking.                                                               *)
LEMMA TrackingStep ==
    ASSUME TypeOK, Stages, Tracking, \A o \in Oids : Loadable(o), Next
    PROVE  Tracking' /\ \A o \in Oids : Loadable(o)'
<1> DEFINE Goal == Tracking' /\ \A o \in Oids : Loadable(o)'
<1> SUFFICES Goal  OBVIOUS
<1>1. ASSUME UNCHANGED trackedVars,
             registered' => registered, member => member'
      PROVE  Goal
      BY <1>1 DEF trackedVars, Tracking, Tracks, HasAfter, Loadable
<1> USE DEF trackedVars, clientVars, iterVars, pullVars, statusVars, memberVars
<1>2. ASSUME NEW c \in Clients, NEW k \in Kinds, NEW o \in Oids, Enter(c, k, o)
      PROVE  Goal
      BY <1>1, <1>2 DEF Enter
<1>3. ASSUME NEW c \in Clients, Client(c)
      PROVE  Goal
  <2>1. CASE Thaw(c)  BY <1>1, <2>1 DEF Thaw
  <2>2. CASE Route(c)  BY <1>1, <2>2 DEF Route
  <2>3. CASE Request(c)  BY <1>1, <2>3 DEF Request
  <2>4. CASE Commit(c)
    <3>1. CASE ~withJ[c]  BY <1>1, <2>4, <3>1 DEF Commit
    <3>2. CASE withJ[c]
      <4>1. member /\ member' = member  BY <2>4, <3>2 DEF Stages, Commit
      <4>2. \A o \in Oids : batch'[o] = "NONE"
            BY <2>4, <4>1 DEF Stages, Commit, Next, Up
      <4> QED  BY <4>1, <4>2 DEF Tracking, Loadable
    <3> QED  BY <3>1, <3>2
  <2>5. CASE Abort(c)  BY <1>1, <2>5 DEF Abort
  <2>6. CASE Return(c)  BY <1>1, <2>6 DEF Return
  <2>7. CASE LocalApply(c)
    <3>1. Tracking'  BY <2>7, LocalApplyTracks
    <3>2. \A o \in Oids : Loadable(o)'  BY <2>7 DEF LocalApply, Loadable
    <3> QED  BY <3>1, <3>2
  <2> QED  BY <1>3, <2>1, <2>2, <2>3, <2>4, <2>5, <2>6, <2>7 DEF Client
<1>4. CASE get_record_iterator
  <2>1. ASSUME NEW o \in Oids
        PROVE  Tracks(o)'
    <3>1. /\ map'[o] = IF data[o] = Absent THEN "NONE" ELSE "INSERTION"
          /\ o \notin updates' /\ batch'[o] = "NONE"
          /\ jdata'[o] = Absent /\ data'[o] = data[o]
          BY <1>4 DEF get_record_iterator, Stages
    <3> QED  BY <3>1 DEF Tracks, HasAfter
  <2>2. \A o \in Oids : Loadable(o)'  BY <1>4 DEF get_record_iterator, Loadable
  <2> QED  BY <2>1, <2>2 DEF Tracking
<1>5. CASE JoinerFails  BY <1>1, <1>5 DEF JoinerFails
<1>6. CASE invoke_timeouts  BY <1>1, <1>6 DEF invoke_timeouts
<1>7. CASE Transfer
  <2>1. CASE next_n  BY <1>1, <2>1 DEF next_n
  <2>2. CASE Take  BY <2>2, TakeTracks
  <2>3. CASE CheckMore  BY <1>1, <2>3 DEF CheckMore
  <2>4. CASE wait_for_no_transactions_in_progress
        BY <1>1, <2>4 DEF wait_for_no_transactions_in_progress
  <2>5. CASE Measure  BY <1>1, <2>5 DEF Measure
  <2>6. CASE MeasureOther  BY <1>1, <2>6 DEF MeasureOther
  <2>7. CASE Freeze  BY <1>1, <2>7 DEF Freeze
  <2>8. CASE Destroy  BY <1>1, <2>8 DEF Destroy
  <2>9. CASE add_location  BY <1>1, <2>9 DEF add_location
  <2>10. CASE cleanup  BY <1>1, <2>10 DEF cleanup
  <2>11. CASE add_ref_for_location  BY <1>1, <2>11 DEF add_ref_for_location
  <2>12. CASE unfreeze  BY <1>1, <2>12 DEF unfreeze
  <2>13. CASE \E o \in Oids : Encode(o)  BY <2>13, EncodeTracks
  <2> QED  BY <1>7, <2>1, <2>2, <2>3, <2>4, <2>5, <2>6, <2>7, <2>8, <2>9,
              <2>10, <2>11, <2>12, <2>13 DEF Transfer
<1> HIDE DEF Goal
<1>8. CASE \E c \in Clients, k \in Kinds, o \in Oids : Enter(c, k, o)
      BY <1>8, <1>2
<1>9. CASE \E c \in Clients : Client(c)  BY <1>9, <1>3
<1> HIDE DEF Goal
<1> QED  BY <1>4, <1>5, <1>6, <1>7, <1>8, <1>9 DEF Next

---------------------------------------------------------------------------
(* The inductive invariant holds initially.                                *)
LEMMA InitIInv == Init => IInv
<1> SUFFICES ASSUME Init PROVE IInv  OBVIOUS
<1> USE ConstantsAssumption DEF Init
<1>1. TypeOK
  <2>1. (CHOOSE o \in Oids : TRUE) \in Oids  OBVIOUS
  <2>2. op \in [Clients -> Operations]
    <3> DEFINE p == CHOOSE o \in Oids : TRUE
    <3>1. p \in Oids  BY <2>1
    <3>2. op = [c \in Clients |-> [kind |-> "UPDATE", val |-> 0, oid |-> p]]
          OBVIOUS
    <3> HIDE DEF p
    <3> QED  BY <3>1, <3>2 DEF Operations, Kinds
  <2>3. data \in [Oids -> Values] /\ jdata \in [Oids -> Values]
        BY DEF Values, Absent
  <2>4. ops \in 0 .. MaxOps /\ needed \in 0 .. IteratorIncrement
        OBVIOUS
  <2>5. /\ pc \in [Clients -> ClientSteps]
        /\ withJ \in [Clients -> BOOLEAN]
        /\ batch \in [Oids -> Kinds \cup {"NONE"}]
        /\ map \in [Oids -> {"NONE", "INSERTION", "REMOVAL"}]
        BY DEF ClientSteps
  <2>6. tstep \in TransferSteps  BY DEF TransferSteps
  <2> QED  BY <2>2, <2>3, <2>4, <2>5, <2>6 DEF TypeOK
<1>2. Stages  BY DEF Stages
<1> QED  BY <1>1, <1>2 DEF IInv, Tracking, Loadable

(* IInv, the inductive invariant: TypeOK, Stages, Tracks for every oid     *)
(* while the iterator is registered, and Loadable.                         *)
THEOREM InductiveInvariant == Spec => []IInv
<1>1. Init => IInv  BY InitIInv
<1>2. IInv /\ [Next]_vars => IInv'
  <2> SUFFICES ASSUME IInv, [Next]_vars PROVE IInv'  OBVIOUS
  <2>1. TypeOK /\ Stages /\ Tracking /\ \A o \in Oids : Loadable(o)
        BY DEF IInv
  <2>2. TypeOK'  BY <2>1, TypeStep
  <2>3. CASE Next
    <3>1. Stages'  BY <2>1, <2>3, StagesStep
    <3>2. Tracking' /\ \A o \in Oids : Loadable(o)'
          BY <2>1, <2>3, TrackingStep
    <3> QED  BY <2>2, <3>1, <3>2 DEF IInv
  <2>4. CASE UNCHANGED vars
        BY <2>1, <2>2, <2>4
        DEF IInv, Stages, Tracking, Tracks, HasAfter, Loadable, vars,
            clientVars, iterVars, pullVars, statusVars, memberVars
  <2> QED  BY <2>3, <2>4
<1> QED  BY <1>1, <1>2, PTL DEF Spec

(* Every variable keeps its type.                                          *)
THEOREM TypeCorrect == Spec => []TypeOK
<1>1. IInv => TypeOK  BY DEF IInv
<1> QED  BY <1>1, InductiveInvariant, PTL

(* For every set of clients and oids and every increment, threshold and    *)
(* number of changes: where the joining location differs from the primary, *)
(* the iterator still has a record for the oid.                            *)
THEOREM NothingIsForgotten == Spec => []NothingForgotten
<1>1. IInv => NothingForgotten
  <2> SUFFICES ASSUME IInv, registered, ~member, NEW o \in Oids,
                      map[o] = "NONE", o \notin updates, batch[o] = "NONE"
               PROVE  jdata[o] = data[o]
      BY DEF NothingForgotten
  <2> QED  BY DEF IInv, Tracking, Tracks
<1> QED  BY <1>1, InductiveInvariant, PTL

(* Every record sent can be loaded: load_state of the joining location     *)
(* never throws AlreadyExistException or NotFoundException.                *)
THEOREM RecordsAreLoadable == Spec => []RecordsLoadable
<1>1. IInv => RecordsLoadable  BY DEF IInv, RecordsLoadable, Loadable
<1> QED  BY <1>1, InductiveInvariant, PTL
=============================================================================
