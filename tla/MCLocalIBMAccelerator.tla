------------------------ MODULE MCLocalIBMAccelerator -----------------------
(***************************************************************************)
(* Calls on a buffer of three qubits for TLC.                              *)
(***************************************************************************)
EXTENDS LocalIBMAccelerator

Measuring(measures) == [measures |-> measures, rejected |-> FALSE, operations |-> TRUE]
Empty == [measures |-> <<>>, rejected |-> FALSE, operations |-> FALSE]
WithCZ == [measures |-> <<>>, rejected |-> TRUE, operations |-> TRUE]

MCKernels == {Measuring(<<1>>), Measuring(<<0, 2>>), Measuring(<<0, 1, 2>>), Empty, WithCZ}

(* Two outcomes are enough to tell three qubits apart.                      *)
MCOutcomes == {[q \in 0..2 |-> IF q = on THEN 1 ELSE 0] : on \in 1..2}
=============================================================================
