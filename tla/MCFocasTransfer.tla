---------------------------- MODULE MCFocasTransfer ----------------------------
(***************************************************************************)
(* FocasTransfer with one thread that sends and two that fetch the same    *)
(* program, one of them to the path receive() writes to.                   *)
(***************************************************************************)
EXTENDS FocasTransfer, TLC
CONSTANTS send, fetch, keep

\* A program with a mark and white space at its end.
MCStored == "O1" :> <<"a", "%", " ">>
MCNumber == [c \in {fetch, keep} |-> "O1"]

\* A file that lacks the first mark, one that lacks the last, an empty one.
MCTexts == {<<"b", "%">>, <<"%", "b", " ">>, <<>>}
=============================================================================
