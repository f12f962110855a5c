---------------------------- MODULE MCHardwareCheck ----------------------------
(***************************************************************************)
(* HardwareCheck with one file beside the canary and programs of one and   *)
(* of two blocks of two bytes.                                             *)
(***************************************************************************)
EXTENDS HardwareCheck, TLC

CONSTANTS script, worker, other, prog, canary

MCByte == 1..3
MCCanaryBody == <<3, 1, 2>>
MCPad == <<3, 2>>
MCContents == {<<2, 2>>}
MCBodies == {<<1, 3, 2>>, <<1, 2>>}
MCSymmetry == Permutations({worker, other})
\* The Micro DNC 2 is silent past the end; others differ from it in one way.
MicroDnc2 == [strips |-> FALSE, quiet |-> TRUE, marked |-> TRUE, dedup |-> TRUE]
MCFirmwares ==
    {MicroDnc2, [MicroDnc2 EXCEPT !.strips = TRUE], [MicroDnc2 EXCEPT !.quiet = FALSE],
     [MicroDnc2 EXCEPT !.marked = FALSE], [MicroDnc2 EXCEPT !.dedup = FALSE]}
MCLate == {<<2, 2>>, MCCanaryBody}
=============================================================================
