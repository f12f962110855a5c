----------------------------- MODULE MCDncDownload -----------------------------
(***************************************************************************)
(* DncDownload on two files of up to two blocks of two bytes.              *)
(***************************************************************************)
EXTENDS DncDownload

MCByte == 1..4

\* Empty, short, one full block, a full and a short one, two full blocks.
MCContents == {<<>>, <<1>>, <<1, 2>>, <<1, 2, 3>>, <<1, 2, 3, 4>>}

\* Both ends of file; what the firmware does with uploads plays no part.
MCFirmwares == [quiet : BOOLEAN, echo : {TRUE}, dedup : {TRUE}, strips : {FALSE}]

\* None, zero, and every size from too small to too large.
MCSizes == 0..5 \cup {NoSize}
=============================================================================
