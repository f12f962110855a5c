------------------------------ MODULE TransferLog ------------------------------
(***************************************************************************)
(* transfer_log.py: the CSV file every transfer is recorded in.  The file  *)
(* is a sequence of lines and a line the pieces of text written on it: one *)
(* whole row or header, unless a write was cut short by a full disk or by  *)
(* a power cut, after which the next row goes on on the same line.         *)
(***************************************************************************)
EXTENDS Integers, Sequences, SequencesExt, FiniteSets

CONSTANT Header     \* the header row; the others are records with a field quoted,
                    \* whether csv puts their detail in quotes

VARIABLES
    lines,      \* the lines of the file
    ended,      \* whether the last of them has its line end
    records,    \* history: the rows record() was called with
    cuts        \* history: writes cut short

logVars == <<lines, ended, records, cuts>>

LogInit == lines = <<>> /\ ended = TRUE /\ records = <<>> /\ cuts = 0

Piece(row, whole, open) == [row |-> row, whole |-> whole, open |-> open]

\* What the file becomes when pieces are written, one to a line.
Written(pieces) ==
    IF ended \/ pieces = <<>> THEN lines \o [i \in 1..Len(pieces) |-> <<pieces[i]>>]
    ELSE [lines EXCEPT ![Len(lines)] = Append(@, pieces[1])]
            \o [i \in 1..Len(pieces)-1 |-> <<pieces[i + 1]>>]

\* Mutant: the header goes in with every row.
TextAlways(row) == <<Piece(Header, TRUE, FALSE), Piece(row, TRUE, FALSE)>>

\* writeheader() in an empty file, then writerow().
Text(row) ==
    (IF lines = <<>> THEN <<Piece(Header, TRUE, FALSE)>> ELSE <<>>)
        \o <<Piece(row, TRUE, FALSE)>>

\* Mutant: the file is opened with "w".
WriteRowOver(row) ==
    /\ lines' = <<<<Piece(Header, TRUE, FALSE)>>, <<Piece(row, TRUE, FALSE)>>>>
    /\ ended' = TRUE
    /\ records' = Append(records, row)
    /\ UNCHANGED cuts

\* The line goes in whole.
WriteRow(row) ==
    /\ lines' = Written(Text(row))
    /\ ended' = TRUE
    /\ records' = Append(records, row)
    /\ UNCHANGED cuts

\* Only the beginning reaches the disk: k whole lines and perhaps some of the
\* next, which may lack no more than its line end or half of it, or end inside
\* the quotes.
CutRow(row) ==
    /\ \E k \in 0..Len(Text(row))-1 :
          LET before == SubSeq(Text(row), 1, k)
              next == Text(row)[k + 1].row
          IN  \/ lines' = Written(before) /\ ended' = (ended \/ k > 0)
              \/ /\ \E whole \in BOOLEAN, open \in BOOLEAN :
                       /\ open => next # Header /\ next.quoted /\ ~whole
                       /\ lines' = Written(Append(before, Piece(next, whole, open)))
                       /\ ended' \in {FALSE, whole}
    /\ records' = Append(records, row)
    /\ cuts' = cuts + 1

-----------------------------------------------------------------------------
Garbled == [garbled |-> TRUE]

\* One line through csv.reader: a quote left open takes in the lines that follow
\* until one has a quote; a line of several pieces is one row of mixed fields.
Parse(state, line) ==
    LET quotes(p) == p.row # Header /\ (IF p.whole THEN p.row.quoted ELSE p.open)
        open == IF state.open
                THEN \A i \in 1..Len(line) : ~quotes(line[i])
                ELSE \E i \in 1..Len(line) :
                        line[i].open /\ \A j \in i+1..Len(line) : ~quotes(line[j])
        row == IF ~state.open /\ Len(line) = 1 /\ line[1].whole THEN line[1].row ELSE Garbled
        header == ~state.open /\ line[1].row = Header /\ line[1].whole
    IN  [open |-> open,
         rows |-> IF open \/ header THEN state.rows ELSE Append(state.rows, row)]

\* The rows of some lines; a quote that is never closed ends with them.
Parsed(text) ==
    LET after[i \in 0..Len(text)] ==
            IF i = 0 THEN [open |-> FALSE, rows |-> <<>>] ELSE Parse(after[i - 1], text[i])
        end == after[Len(text)]
    IN  end.rows \o IF end.open THEN <<Garbled>> ELSE <<>>

\* tail(n): the last n + 1 lines, parsed, newest first.
LogTail(n) ==
    LET from == IF Len(lines) > n THEN Len(lines) - n ELSE 1
        rows == Parsed(SubSeq(lines, from, Len(lines)))
    IN  Reverse(SubSeq(rows, IF Len(rows) > n THEN Len(rows) - n + 1 ELSE 1, Len(rows)))

\* The rows of the file that are on a line of their own, whole.
Readable == {i \in 1..Len(lines) : Len(lines[i]) = 1 /\ lines[i][1].whole /\ lines[i][1].row # Header}
=============================================================================
