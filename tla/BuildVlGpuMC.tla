---------------------------- MODULE BuildVlGpuMC ----------------------------
(***************************************************************************)
(* BuildVlGpu for TLC. The clang levels are interchangeable: no action     *)
(* tells one from another, so permuting them is a symmetry.                *)
(***************************************************************************)
EXTENDS BuildVlGpu, TLC

OptSymmetry == Permutations(Opts)

\* With the first version of the design the kernels are split by phase or a
\* PTX module is emitted, with the second one neither, or all is forced.
Plain == <<FALSE, FALSE, FALSE>>
Force == <<TRUE, FALSE, FALSE>>
Split == <<FALSE, TRUE, FALSE>>
Emit  == <<FALSE, FALSE, TRUE>>
MCFlags == <<{Split, Emit}, {Plain, Force}>>
MCPlain == <<{Plain, Force}>>
=============================================================================
