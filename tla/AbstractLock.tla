---------------------------- MODULE AbstractLock ----------------------------
(***************************************************************************)
(* What a reader-writer lock promises to the code between a lock and the   *)
(* matching unlock: the guards that hold it come and go one at a time, a   *)
(* reader never beside a writer and a writer never beside anybody.         *)
(* ReaderWriterLock implements it.                                         *)
(***************************************************************************)
CONSTANT Guards

VARIABLES
    readers,             \* the guards that hold the lock for reading
    writers              \* the guards that hold it for writing

Init ==
    /\ readers = {}
    /\ writers = {}

AcquireRead(g) ==
    /\ writers = {}
    /\ g \notin readers
    /\ readers' = readers \cup {g}
    /\ UNCHANGED writers

AcquireWrite(g) ==
    /\ readers = {}
    /\ writers = {}
    /\ writers' = {g}
    /\ UNCHANGED readers

ReleaseRead(g) ==
    /\ g \in readers
    /\ readers' = readers \ {g}
    /\ UNCHANGED writers

ReleaseWrite(g) ==
    /\ writers = {g}
    /\ writers' = {}
    /\ UNCHANGED readers

Next ==
    \E g \in Guards : \/ AcquireRead(g)
                      \/ AcquireWrite(g)
                      \/ ReleaseRead(g)
                      \/ ReleaseWrite(g)

Spec == Init /\ [][Next]_<<readers, writers>>
=============================================================================
