----------------------------- MODULE ValidationMC -----------------------------
(***************************************************************************)
(* Validation for TLC: two processes, one design of each kind that the     *)
(* runners tell apart, two builds of it.                                   *)
(***************************************************************************)
EXTENDS Validation, TLC

MCDesigns == {VeerEh2, FifoSync, Loopback, SocketM1, TlulSink}

\* The outputs of the second build overflow the response queue.
MCSound == {1}

Symmetry == Permutations(Processes)
=============================================================================
