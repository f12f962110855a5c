----------------------------- MODULE MCDncFetchAll -----------------------------
(***************************************************************************)
(* DncFetchAll on a root of up to three entries, one of them a folder.     *)
(***************************************************************************)
EXTENDS DncFetchAll

CONSTANTS prog, other, dir

MCByte == 1..2

\* Empty, one full block, two full blocks.
MCContents == {<<>>, <<1>>, <<2, 2>>}

MCFirmwares == [quiet : BOOLEAN, echo : {TRUE}, dedup : {TRUE}, strips : {FALSE}]

\* Three entries are one more than list_dir's bound lets it see the end of.
MCDirectories == {<<dir, prog>>, <<prog, other>>, <<prog, dir, other>>}
=============================================================================
