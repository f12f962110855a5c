------------------------------ MODULE MCDncUpload ------------------------------
(***************************************************************************)
(* DncUpload of a program of up to two blocks of two bytes.                *)
(***************************************************************************)
EXTENDS DncUpload, TLC

\* 3 stands for a carriage return.
MCByte == 1..3

\* What the names hold before: nothing, or a program of one block.
MCContents == {<<1, 2, 3>>}

\* Empty, one full block, a full and a short one that a firmware may strip.
MCPrograms == {<<>>, <<1, 2>>, <<1, 2, 3>>}

\* Firmwares of both ends of file: all that store what they are sent, and the
\* best of those that do not.
MCFirmwares ==
    [quiet : BOOLEAN, echo : BOOLEAN, dedup : BOOLEAN, strips : {FALSE}]
      \cup [quiet : BOOLEAN, echo : {TRUE}, dedup : {TRUE}, strips : {TRUE}]

\* The sizes verify_remote() passes are computed.
MCSizes == {NoSize}

\* The names are interchangeable.
MCSymmetry == Permutations(Names)

(* States that differ in what can no longer matter are checked once:        *)
(* requests that were overtaken, the two history variables of the exchange, *)
(* which no property here reads, and the replies nobody waits for.          *)
MCView ==
    <<{p \in toBox : Order(p) >= boxAt}, IF attempt = 0 THEN {} ELSE toClient,
      request, attempt, boxVars, clientVars, uploadVars>>
=============================================================================
