------------------------------ MODULE MCFunAsr ------------------------------
(***************************************************************************)
(* Instances of FunAsr for TLC: one or two start_asr in a call, with or    *)
(* without a reconnection.                                                 *)
(***************************************************************************)
EXTENDS FunAsr, TLC

CONSTANTS d1, d2

OneDa == {d1}
TwoDas == {d1, d2}
NoFaults == {}
\* What fails while a call is set up or destroyed, and what else may go wrong.
Setup == {"bug_add", "thread", "dns", "spurious"}
Running == {"resampler", "slow_close", "spurious"}

\* The objects are interchangeable (safety runs only).
DaSymmetry == Permutations(Pvts)
=============================================================================
