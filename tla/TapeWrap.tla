-------------------------------- MODULE TapeWrap --------------------------------
(***************************************************************************)
(* The "% ... %" of a taped program, as serial_adapter._wrap_tape and      *)
(* focas_transfer.send put it around a file. A text is a sequence of       *)
(* bytes; all white space is one byte.                                     *)
(***************************************************************************)
EXTENDS Bytes, Naturals, Sequences

Mark == "%"
Blank == " "

\* Where s is not white space.
Solid(s) == {i \in 1..Len(s) : s[i] # Blank}

\* lstrip().startswith(b"%") and rstrip().endswith(b"%")
StartsTape(s) == \E i \in Solid(s) : s[i] = Mark /\ \A j \in Solid(s) : i <= j
EndsTape(s) == \E i \in Solid(s) : s[i] = Mark /\ \A j \in Solid(s) : j <= i

\* rstrip()
RStrip(s) ==
    LET last == CHOOSE n \in 0..Len(s) :
                    (n = 0 \/ n \in Solid(s)) /\ \A i \in Solid(s) : i <= n
    IN  SubSeq(s, 1, last)

Opened(data) == IF StartsTape(data) THEN data ELSE <<Mark, Blank>> \o data

\* Mutant: whatever ends with a mark is taken for wrapped.
WrappedByItsEnd(data) ==
    IF EndsTape(data) THEN data ELSE RStrip(Opened(data)) \o <<Blank, Mark, Blank>>

\* The text as it goes to the machine.
Wrapped(data) ==
    IF EndsTape(Opened(data)) THEN Opened(data)
    ELSE RStrip(Opened(data)) \o <<Blank, Mark, Blank>>

-----------------------------------------------------------------------------
(* What a tape is, stated without the wrapping.                              *)

TwoMarks(s) == \E i, j \in Solid(s) : i < j /\ s[i] = Mark /\ s[j] = Mark
IsTape(s) == StartsTape(s) /\ EndsTape(s) /\ TwoMarks(s)

\* White space and at most one mark: what no wrapping makes a tape of, because one
\* mark is taken for the first and for the last.
Bare(s) == \A i, j \in Solid(s) : i = j /\ s[i] = Mark

\* The words of a text: what is neither white space nor a mark.
Words(s) == Without(Without(s, Mark), Blank)
=============================================================================
