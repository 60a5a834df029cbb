---------------------------- MODULE MCTxDataStore ----------------------------
(* Two threads: one changes two oids, the other one.                       *)
EXTENDS TxDataStore, TLC

CONSTANTS t1, t2, x, y, z

TwoAndOne == [t \in {t1, t2} |-> IF t = t1 THEN {x, y} ELSE {z}]

\* No operation looks at data.
DataSymmetry == Permutations(Data)
=============================================================================
