------------------------- MODULE AtomicCommitProofs -------------------------
(***************************************************************************)
(* The consequences of AtomicCommit that a client of the data store relies *)
(* on, proved for any number of transactions and locations.                *)
(***************************************************************************)
EXTENDS AtomicCommit, TLAPS

(* Whatever a transaction does, its own part of the invariant is kept: the *)
(* locations that are up and the primary do not change.                    *)
LEMMA TransactionKeeps ==
    ASSUME Inv, Work, NEW t \in Tx
    PROVE  /\ refusers'[t] \subseteq up'
           /\ refusers'[t] # {} => holders'[t] \cap up' = {}
           /\ told'[t] = "yes" => up' \subseteq holders'[t]
           /\ told'[t] = "no" => holders'[t] = {}
<1> USE DEF Inv, TypeOK, SurvivorsAgree, Durable, NoMeansNowhere, Backups, Becomes
<1>1. up' = up /\ primary' = primary
  BY DEF Work
<1>2. CASE Idle(t)
  BY <1>1, <1>2 DEF Idle
<1>3. CASE SayYes(t)
  BY <1>1, <1>3 DEF SayYes
<1>4. CASE SayNo(t)
  BY <1>1, <1>4 DEF SayNo
<1>5. ASSUME NEW l \in up, Load(t, l) \/ Refuse(t, l) \/ Reconsider(t, l)
      PROVE  /\ refusers'[t] \subseteq up'
             /\ refusers'[t] # {} => holders'[t] \cap up' = {}
             /\ told'[t] = "yes" => up' \subseteq holders'[t]
             /\ told'[t] = "no" => holders'[t] = {}
  <2>1. CASE Load(t, l)
    BY <1>1, <1>5, <2>1 DEF Load
  <2>2. CASE Refuse(t, l)
    BY <1>1, <1>5, <2>2 DEF Refuse
  <2>3. CASE Reconsider(t, l)
    BY <1>1, <1>5, <2>3 DEF Reconsider
  <2> QED BY <1>5, <2>1, <2>2, <2>3
<1> QED BY <1>2, <1>3, <1>4, <1>5 DEF Work

(* A client of atomic commitment may rely on this in every state: the      *)
(* survivors agree, yes means everywhere and no means nowhere, across      *)
(* crashes and changes of the primary.                                     *)
THEOREM PromiseKept == Spec => []Inv
<1>1. Init => Inv
  BY DEF Init, Inv, TypeOK, SurvivorsAgree, Durable, NoMeansNowhere
<1>2. Inv /\ [Next]_vars => Inv'
  <2> SUFFICES ASSUME Inv, [Next]_vars PROVE Inv'
    OBVIOUS
  <2>1. CASE Work
    <3>1. \A t \in Tx : /\ refusers'[t] \subseteq up'
                        /\ refusers'[t] # {} => holders'[t] \cap up' = {}
                        /\ told'[t] = "yes" => up' \subseteq holders'[t]
                        /\ told'[t] = "no" => holders'[t] = {}
      BY <2>1, TransactionKeeps
    <3>2. TypeOK'
      BY <2>1, <3>1 DEF Inv, TypeOK, Work
    <3> QED BY <3>1, <3>2 DEF Inv, SurvivorsAgree, Durable, NoMeansNowhere
  <2>2. ASSUME NEW l \in Locations, Crash(l)
        PROVE  Inv'
    <3>1. TypeOK'
      BY <2>2 DEF Inv, TypeOK, Crash
    <3>2. /\ up' \subseteq up
          /\ UNCHANGED <<holders, told>>
          /\ \A t \in Tx : refusers'[t] \subseteq refusers[t]
      BY <2>2 DEF Inv, TypeOK, Crash
    <3> QED BY <3>1, <3>2 DEF Inv, SurvivorsAgree, Durable, NoMeansNowhere
  <2>3. ASSUME NEW l \in Locations, TakeOver(l)
        PROVE  Inv'
    BY <2>3 DEF TakeOver, Inv, TypeOK, SurvivorsAgree, Durable, NoMeansNowhere
  <2>4. CASE UNCHANGED vars
    BY <2>4 DEF vars, Inv, TypeOK, SurvivorsAgree, Durable, NoMeansNowhere
  <2> QED BY <2>1, <2>2, <2>3, <2>4 DEF Next
<1> QED BY <1>1, <1>2, PTL DEF Spec
=============================================================================
