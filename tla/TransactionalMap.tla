-------------------------- MODULE TransactionalMap --------------------------
(***************************************************************************)
(* What TXManager and TXDataStore promise to threads that change disjoint  *)
(* sets of oids: each thread changes a map of its own, and a commit makes  *)
(* all of its changes the shared contents at once.  A commit that a backup *)
(* refuses is not a step of this specification: it leaves the thread's map *)
(* as it is, where rollback resets it.                                     *)
(***************************************************************************)
CONSTANTS Threads, Oids, Data, Absent, WriteSet

VARIABLES
    shared,              \* the committed contents
    private              \* what each thread sees of the oids it changes

vars == <<shared, private>>

Init ==
    /\ shared = [o \in Oids |-> Absent]
    /\ private = [t \in Threads |-> [o \in WriteSet[t] |-> Absent]]

Change(t, o, v) ==
    /\ private' = [private EXCEPT ![t][o] = v]
    /\ UNCHANGED shared

Commit(t) ==
    /\ shared' = [o \in Oids |-> IF o \in WriteSet[t] THEN private[t][o] ELSE shared[o]]
    /\ UNCHANGED private

Rollback(t) ==
    /\ private' = [private EXCEPT ![t] = [o \in WriteSet[t] |-> shared[o]]]
    /\ UNCHANGED shared

Next ==
    \E t \in Threads :
        \/ \E o \in WriteSet[t], v \in Data \cup {Absent} : Change(t, o, v)
        \/ Commit(t)
        \/ Rollback(t)

Spec == Init /\ [][Next]_vars
=============================================================================
