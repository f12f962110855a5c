----------------------------- MODULE PanelProofs -----------------------------
(***************************************************************************)
(* For any number of web threads, programs, presses, crashes and writes    *)
(* cut short, the panel's log tells what was sent, a received program is   *)
(* in the file the log names, a cut costs two records at most, and the     *)
(* page shows the newest records.                                          *)
(***************************************************************************)
EXTENDS Panel, NaturalLemmas, FiniteSetTheorems, SequenceTheorems

-----------------------------------------------------------------------------
(* Sequences of one and two.                                                 *)

\* One text, and two texts, after each other.
LEMMA TupleFacts ==
    ASSUME NEW a, NEW b
    PROVE  /\ <<>> \o <<a>> = <<a>> /\ Append(<<>>, a) = <<a>>
           /\ <<a>> \o <<b>> = <<a, b>> /\ Append(<<a>>, b) = <<a, b>>
           /\ Len(<<a>>) = 1 /\ Len(<<a, b>>) = 2
           /\ SubSeq(<<a>>, 1, 0) = <<>> /\ SubSeq(<<a, b>>, 1, 0) = <<>>
           /\ SubSeq(<<a, b>>, 1, 1) = <<a>>
<1> DEFINE S == {a, b}
<1>1. /\ <<a>> \in Seq(S) /\ <<b>> \in Seq(S) /\ <<a, b>> \in Seq(S)
      /\ Len(<<a>>) = 1 /\ Len(<<b>>) = 1 /\ Len(<<a, b>>) = 2
    OBVIOUS
<1>2. <<>> \o <<a>> = <<a>> /\ Append(<<>>, a) = <<a>>
    OBVIOUS
<1>3. SubSeq(<<a>>, 1, 0) = <<>> /\ SubSeq(<<a, b>>, 1, 0) = <<>>
    BY SubSeqEmpty
<1>4. <<a>> \o <<b>> = <<a, b>>
    <2> DEFINE s == <<a>> \o <<b>>
               t == <<a, b>>
    <2>1. s \in Seq(S) /\ Len(s) = 2 /\ \A i \in 1..2 : s[i] = IF i <= 1 THEN <<a>>[i] ELSE <<b>>[i - 1]
        BY <1>1, ConcatProperties
    <2>2. s[1] = <<a>>[1] /\ s[2] = <<b>>[1]
        BY <2>1
    <2>3. <<a>>[1] = a /\ <<b>>[1] = b /\ t[1] = a /\ t[2] = b
        OBVIOUS
    <2>4. \A i \in 1..2 : i = 1 \/ i = 2
        OBVIOUS
    <2>5. t \in Seq(S) /\ Len(t) = 2
        BY <1>1
    <2>6. s = t
        <3> HIDE DEF s, t
        <3>1. Len(s) = Len(t) /\ \A i \in 1..Len(s) : s[i] = t[i]
            BY <2>1, <2>2, <2>3, <2>4, <2>5
        <3> QED
            BY <2>1, <2>5, <3>1, SeqEqual
    <2> QED
        BY <2>6
<1>5. Append(<<a>>, b) = <<a, b>>
    BY <1>1, <1>4, AppendIsConcat
<1>6. SubSeq(<<a, b>>, 1, 1) = <<a>>
    <2>1. SubSeq(<<a>> \o <<b>>, 1, 1) = SubSeq(<<a>>, 1, 1)
        <3>1. 1 \in 1..Len(<<a>>)
            BY <1>1
        <3> QED
            BY <1>1, <3>1, SubSeqOfConcat1
    <2>2. SubSeq(<<a>>, 1, Len(<<a>>)) = <<a>>
        BY <1>1, SubSeqFull
    <2> QED
        BY <1>1, <1>4, <2>1, <2>2
<1> QED
    BY <1>1, <1>2, <1>3, <1>4, <1>5, <1>6

-----------------------------------------------------------------------------
(* What record() does to the file.                                           *)

Pieces == [row : Rows \cup {Header}, whole : BOOLEAN, open : BOOLEAN]

LogTypeOK ==
    /\ lines \in Seq(Seq(Pieces)) /\ \A i \in 1..Len(lines) : lines[i] # <<>>
    /\ ended \in BOOLEAN /\ (lines = <<>> => ended)
    /\ records \in Seq(Rows) /\ cuts \in Nat

HeaderPiece == Piece(Header, TRUE, FALSE)

\* The piece gets a line of its own, after the header in an empty file.
Added(p) ==
    \/ lines = <<>> /\ lines' = <<<<HeaderPiece>>, <<p>>>>
    \/ lines # <<>> /\ ended /\ lines' = Append(lines, <<p>>)

\* The piece goes on the line that was not ended.
Joined(p) ==
    lines # <<>> /\ ~ended /\ lines' = [lines EXCEPT ![Len(lines)] = Append(@, p)]

\* Only the header, or some of it, gets into an empty file.
Begun ==
    lines = <<>> /\ \E p \in Pieces : p.row = Header /\ lines' = <<<<p>>>>

\* One piece is written, or two to an empty file.
LEMMA WrittenFacts ==
    ASSUME LogTypeOK, NEW p, NEW q
    PROVE  /\ Written(<<>>) = lines
           /\ ended => Written(<<p>>) = Append(lines, <<p>>)
           /\ ~ended => Written(<<p>>) = [lines EXCEPT ![Len(lines)] = Append(@, p)]
           /\ lines = <<>> => Written(<<p, q>>) = <<<<p>>, <<q>>>>
<1>1. lines \in Seq(Seq(Pieces)) /\ Len(lines) \in Nat /\ (lines = <<>> => ended)
    BY LenProperties DEF LogTypeOK
<1>2. Written(<<>>) = lines
    <2>1. Written(<<>>) = lines \o [i \in 1..0 |-> <<(<<>>)[i]>>]
        BY DEF Written
    <2>2. [i \in 1..0 |-> <<(<<>>)[i]>>] = <<>>
        OBVIOUS
    <2> QED
        BY <1>1, <2>1, <2>2
<1>3. ended => Written(<<p>>) = Append(lines, <<p>>)
    <2>1. [i \in 1..1 |-> <<(<<p>>)[i]>>] = <<<<p>>>>
        OBVIOUS
    <2>2. ended => Written(<<p>>) = lines \o <<<<p>>>>
        BY <2>1 DEF Written
    <2> QED
        BY <1>1, <2>2, SMTT(30)
<1>4. ~ended => Written(<<p>>) = [lines EXCEPT ![Len(lines)] = Append(@, p)]
    <2> DEFINE changed == [lines EXCEPT ![Len(lines)] = Append(@, p)]
    <2>1. [i \in 1..1-1 |-> <<(<<p>>)[i + 1]>>] = <<>>
        OBVIOUS
    <2>2. ~ended => Written(<<p>>) = changed \o <<>>
        BY <2>1 DEF Written
    <2>3. ASSUME ~ended PROVE changed \in Seq(Seq(Pieces \cup {p}))
        <3>1. Len(lines) \in 1..Len(lines) /\ DOMAIN lines = 1..Len(lines)
            BY <1>1, <2>3
        <3>2. \A i \in 1..Len(lines) : lines[i] \in Seq(Pieces)
            BY <1>1, ElementOfSeq
        <3>3. \A i \in 1..Len(lines) : lines[i] \in Seq(Pieces \cup {p})
            BY <3>2
        <3>4. Append(lines[Len(lines)], p) \in Seq(Pieces \cup {p})
            BY <3>1, <3>3, AppendProperties
        <3>5. \A i \in 1..Len(lines) : changed[i] \in Seq(Pieces \cup {p})
            BY <1>1, <3>1, <3>3, <3>4
        <3>6. changed = [i \in 1..Len(lines) |-> changed[i]]
            BY <1>1, <3>1
        <3> HIDE DEF changed
        <3> QED
            BY <1>1, <3>5, <3>6
    <2> HIDE DEF changed
    <2>4. ~ended => changed \o <<>> = changed
        BY <2>3, ConcatEmptySeq
    <2> QED
        BY <2>2, <2>4 DEF changed
<1>5. lines = <<>> => Written(<<p, q>>) = <<<<p>>, <<q>>>>
    <2>1. [i \in 1..2 |-> <<(<<p, q>>)[i]>>] = <<<<p>>, <<q>>>>
        OBVIOUS
    <2>2. lines = <<>> => Written(<<p, q>>) = <<>> \o <<<<p>>, <<q>>>>
        BY <1>1, <2>1 DEF Written
    <2> QED
        BY <2>2
<1> QED
    BY <1>2, <1>3, <1>4, <1>5

\* The text of a record: the row, after the header if the file is empty.
LEMMA TextFacts ==
    ASSUME LogTypeOK, NEW row \in Rows
    PROVE  /\ lines = <<>> =>
                /\ Text(row) = <<HeaderPiece, Piece(row, TRUE, FALSE)>> /\ Len(Text(row)) = 2
                /\ SubSeq(Text(row), 1, 0) = <<>> /\ SubSeq(Text(row), 1, 1) = <<HeaderPiece>>
                /\ Text(row)[1].row = Header /\ Text(row)[2].row = row
           /\ lines # <<>> =>
                /\ Text(row) = <<Piece(row, TRUE, FALSE)>> /\ Len(Text(row)) = 1
                /\ SubSeq(Text(row), 1, 0) = <<>> /\ Text(row)[1].row = row
<1> DEFINE p == Piece(row, TRUE, FALSE)
<1>1. HeaderPiece.row = Header /\ p.row = row
    BY DEF HeaderPiece, Piece
<1>2. /\ lines = <<>> => Text(row) = <<HeaderPiece>> \o <<p>>
      /\ lines # <<>> => Text(row) = <<>> \o <<p>>
    BY DEF Text, HeaderPiece
<1> HIDE DEF p
<1>3. /\ lines = <<>> => Text(row) = <<HeaderPiece, p>>
      /\ lines # <<>> => Text(row) = <<p>>
    BY <1>2, TupleFacts
<1>4. <<HeaderPiece, p>>[1] = HeaderPiece /\ <<HeaderPiece, p>>[2] = p /\ <<p>>[1] = p
    OBVIOUS
<1>5. lines = <<>> =>
        /\ Text(row) = <<HeaderPiece, p>> /\ Len(Text(row)) = 2
        /\ SubSeq(Text(row), 1, 0) = <<>> /\ SubSeq(Text(row), 1, 1) = <<HeaderPiece>>
        /\ Text(row)[1].row = Header /\ Text(row)[2].row = row
    BY <1>1, <1>3, <1>4, TupleFacts
<1>6. lines # <<>> =>
        /\ Text(row) = <<p>> /\ Len(Text(row)) = 1
        /\ SubSeq(Text(row), 1, 0) = <<>> /\ Text(row)[1].row = row
    BY <1>1, <1>3, <1>4, TupleFacts
<1> QED
    BY <1>5, <1>6 DEF p

\* record() ends the line its row is on.
LEMMA WriteRowCases ==
    ASSUME LogTypeOK, NEW row \in Rows, WriteRow(row)
    PROVE  ended' /\ (Added(Piece(row, TRUE, FALSE)) \/ Joined(Piece(row, TRUE, FALSE)))
<1> DEFINE p == Piece(row, TRUE, FALSE)
<1>1. ended' = TRUE /\ lines' = Written(Text(row)) /\ ended \in BOOLEAN /\ (lines = <<>> => ended)
    BY DEF WriteRow, LogTypeOK
<1>2. CASE lines = <<>>
    <2>1. lines' = Written(<<HeaderPiece, p>>)
        BY <1>1, <1>2, TextFacts
    <2>2. lines' = <<<<HeaderPiece>>, <<p>>>>
        BY <1>2, <2>1, WrittenFacts
    <2> QED
        BY <1>1, <1>2, <2>2 DEF Added
<1>3. CASE lines # <<>>
    <2>1. lines' = Written(<<p>>)
        BY <1>1, <1>3, TextFacts
    <2>2. /\ ended => lines' = Append(lines, <<p>>)
          /\ ~ended => lines' = [lines EXCEPT ![Len(lines)] = Append(@, p)]
        BY <2>1, WrittenFacts
    <2> QED
        BY <1>1, <1>3, <2>2 DEF Added, Joined
<1> QED
    BY <1>2, <1>3

\* What a write that stops in the row leaves, after what goes before it.
LEMMA CutInRow ==
    ASSUME LogTypeOK, NEW p,
           \/ lines = <<>> /\ lines' = Written(Append(<<HeaderPiece>>, p))
           \/ lines # <<>> /\ lines' = Written(Append(<<>>, p))
    PROVE  Added(p) \/ Joined(p)
<1>1. Append(<<HeaderPiece>>, p) = <<HeaderPiece, p>> /\ Append(<<>>, p) = <<p>>
    BY TupleFacts
<1>2. /\ lines = <<>> => lines' = <<<<HeaderPiece>>, <<p>>>>
      /\ lines # <<>> /\ ended => lines' = Append(lines, <<p>>)
      /\ lines # <<>> /\ ~ended => lines' = [lines EXCEPT ![Len(lines)] = Append(@, p)]
    BY <1>1, WrittenFacts, ZenonT(30)
<1> QED
    BY <1>2 DEF Added, Joined, LogTypeOK

\* What a write that stops in or after the header leaves.
LEMMA CutInHeader ==
    ASSUME LogTypeOK, lines = <<>>, NEW p \in Pieces, p.row = Header, lines' = Written(<<p>>)
    PROVE  Begun
<1>1. lines' = Append(<<>>, <<p>>)
    BY WrittenFacts DEF LogTypeOK
<1>2. lines' = <<<<p>>>>
    BY <1>1, TupleFacts
<1> QED
    BY <1>2 DEF Begun

\* A cut write leaves nothing, a header, or a row that need not be whole; the
\* line it stops on has an end only if what is on it is whole.
LEMMA CutRowCases ==
    ASSUME LogTypeOK, NEW row \in Rows, CutRow(row)
    PROVE  \/ lines' = lines /\ ended' = ended
           \/ Begun /\ ended' \in BOOLEAN
           \/ \E whole \in BOOLEAN, open \in BOOLEAN :
                  /\ ended' \in {FALSE, whole}
                  /\ Added(Piece(row, whole, open)) \/ Joined(Piece(row, whole, open))
<1>1. ended \in BOOLEAN /\ (lines = <<>> => ended = TRUE)
    BY DEF LogTypeOK
<1>2. PICK k \in 0..Len(Text(row))-1 :
          \/ lines' = Written(SubSeq(Text(row), 1, k)) /\ ended' = (ended \/ k > 0)
          \/ \E whole \in BOOLEAN, open \in BOOLEAN :
                /\ lines' = Written(Append(SubSeq(Text(row), 1, k),
                                           Piece(Text(row)[k + 1].row, whole, open)))
                /\ ended' \in {FALSE, whole}
    BY DEF CutRow
<1>3. \A w, o \in BOOLEAN : Piece(Header, w, o) \in Pieces /\ Piece(Header, w, o).row = Header
    BY DEF Piece, Pieces
<1>4. CASE lines' = Written(SubSeq(Text(row), 1, k)) /\ ended' = (ended \/ k > 0)
    <2>1. CASE k = 0
        <3>1. lines' = lines
            BY <1>4, <2>1, TextFacts, WrittenFacts
        <3>2. ended' = ended
            BY <1>1, <1>4, <2>1
        <3> QED
            BY <3>1, <3>2
    <2>2. CASE k # 0
        <3>1. lines = <<>> /\ k = 1
            <4>1. Len(Text(row)) = IF lines = <<>> THEN 2 ELSE 1
                BY TextFacts
            <4> QED
                BY <1>2, <2>2, <4>1
        <3>2. lines' = Written(<<HeaderPiece>>)
            BY <1>4, <3>1, TextFacts
        <3>3. Begun
            BY <1>3, <3>1, <3>2, CutInHeader DEF HeaderPiece
        <3> QED
            BY <1>4, <3>3
    <2> QED
        BY <2>1, <2>2
<1>5. ASSUME NEW whole \in BOOLEAN, NEW open \in BOOLEAN,
             lines' = Written(Append(SubSeq(Text(row), 1, k),
                                     Piece(Text(row)[k + 1].row, whole, open))),
             ended' \in {FALSE, whole}
      PROVE  \/ Begun
             \/ Added(Piece(row, whole, open)) \/ Joined(Piece(row, whole, open))
    <2>1. CASE lines # <<>>
        <3>1. k = 0
            <4>1. Len(Text(row)) = 1
                BY <2>1, TextFacts
            <4> QED
                BY <1>2, <4>1
        <3>1a. SubSeq(Text(row), 1, k) = <<>> /\ Text(row)[k + 1].row = row
            <4>1. k + 1 = 1
                BY <3>1
            <4> QED
                BY <2>1, <3>1, <4>1, TextFacts
        <3>2. lines' = Written(Append(<<>>, Piece(row, whole, open)))
            BY <1>5, <3>1a
        <3> QED
            BY <2>1, <3>2, CutInRow
    <2>2. CASE lines = <<>> /\ k = 0
        <3>1a. SubSeq(Text(row), 1, k) = <<>> /\ Text(row)[k + 1].row = Header
            <4>1. k + 1 = 1
                BY <2>2
            <4> QED
                BY <2>2, <4>1, TextFacts
        <3>1. lines' = Written(Append(<<>>, Piece(Header, whole, open)))
            BY <1>5, <3>1a
        <3>2. lines' = Written(<<Piece(Header, whole, open)>>)
            BY <3>1, TupleFacts
        <3> QED
            BY <1>3, <2>2, <3>2, CutInHeader
    <2>3. CASE lines = <<>> /\ k # 0
        <3>1. k = 1
            <4>1. Len(Text(row)) = 2
                BY <2>3, TextFacts
            <4> QED
                BY <1>2, <2>3, <4>1
        <3>1a. SubSeq(Text(row), 1, k) = <<HeaderPiece>> /\ Text(row)[k + 1].row = row
            <4>1. k + 1 = 2
                BY <3>1
            <4> QED
                BY <2>3, <3>1, <4>1, TextFacts
        <3>2. lines' = Written(Append(<<HeaderPiece>>, Piece(row, whole, open)))
            BY <1>5, <3>1a
        <3> QED
            BY <2>3, <3>2, CutInRow
    <2> QED
        BY <2>1, <2>2, <2>3
<1> QED
    BY <1>2, <1>4, <1>5

\* A line with one whole row on it.
OneRow(line) == Len(line) = 1 /\ line[1].whole /\ line[1].row # Header

\* The lines that are read as rows.
LEMMA ReadableFacts ==
    /\ Readable = {i \in 1..Len(lines) : OneRow(lines[i])}
    /\ Readable' = {i \in 1..Len(lines') : OneRow(lines'[i])}
BY DEF Readable, OneRow

\* One piece on a line is a row if it is whole and not the header.
LEMMA PieceFacts ==
    ASSUME NEW row \in Rows \cup {Header}, NEW whole \in BOOLEAN, NEW open \in BOOLEAN
    PROVE  /\ Piece(row, whole, open) \in Pieces
           /\ <<Piece(row, whole, open)>> \in Seq(Pieces) /\ <<Piece(row, whole, open)>> # <<>>
           /\ OneRow(<<Piece(row, whole, open)>>) <=> whole /\ row # Header
           /\ <<Piece(row, whole, open)>>[1].row = row
<1> DEFINE p == Piece(row, whole, open)
<1>1. p \in Pieces /\ p.row = row /\ p.whole = whole
    BY DEF Piece, Pieces
<1> HIDE DEF p
<1>2. Len(<<p>>) = 1 /\ <<p>>[1] = p /\ <<p>> # <<>>
    OBVIOUS
<1>3. <<p>> \in Seq(Pieces)
    BY <1>1
<1>4. OneRow(<<p>>) <=> whole /\ row # Header
    BY <1>1, <1>2 DEF OneRow
<1> QED
    BY <1>1, <1>2, <1>3, <1>4 DEF p

\* A row with a line of its own can be read if it is whole; the others stay.
LEMMA AfterAdded ==
    ASSUME LogTypeOK, NEW row \in Rows, NEW whole \in BOOLEAN, NEW open \in BOOLEAN,
           Added(Piece(row, whole, open))
    PROVE  /\ lines' \in Seq(Seq(Pieces)) /\ \A i \in 1..Len(lines') : lines'[i] # <<>>
           /\ lines' # <<>> /\ Len(lines') \notin Readable
           /\ Readable' = IF whole THEN Readable \cup {Len(lines')} ELSE Readable
           /\ lines'[Len(lines')][1].row = row
           /\ \A i \in Readable : lines'[i] = lines[i]
<1> DEFINE p == Piece(row, whole, open)
<1>1. row # Header
    BY HeaderAssumption
<1>2. /\ <<p>> \in Seq(Pieces) /\ <<p>> # <<>> /\ (OneRow(<<p>>) <=> whole) /\ <<p>>[1].row = row
      /\ <<HeaderPiece>> \in Seq(Pieces) /\ <<HeaderPiece>> # <<>> /\ ~OneRow(<<HeaderPiece>>)
    BY <1>1, PieceFacts DEF HeaderPiece
<1> HIDE DEF p
<1>3. CASE lines = <<>> /\ lines' = <<<<HeaderPiece>>, <<p>>>>
    <2>1. Len(lines') = 2 /\ lines'[1] = <<HeaderPiece>> /\ lines'[2] = <<p>>
        BY <1>3
    <2>2. lines' \in Seq(Seq(Pieces)) /\ lines' # <<>>
        BY <1>2, <1>3
    <2>3. \A i : i \in 1..2 <=> i = 1 \/ i = 2
        OBVIOUS
    <2>4. Readable = {}
        BY <1>3, ReadableFacts
    <2>5. Readable' = IF whole THEN {2} ELSE {}
        BY <1>2, <2>1, <2>3, ReadableFacts
    <2> QED
        BY <1>2, <2>1, <2>2, <2>3, <2>4, <2>5
<1>4. CASE lines' = Append(lines, <<p>>)
    <2>1. lines \in Seq(Seq(Pieces)) /\ Len(lines) \in Nat
        BY LenProperties DEF LogTypeOK
    <2>2. /\ lines' \in Seq(Seq(Pieces)) /\ lines' # <<>> /\ Len(lines') = Len(lines) + 1
          /\ \A i \in 1..Len(lines) : lines'[i] = lines[i]
          /\ lines'[Len(lines) + 1] = <<p>>
        BY <1>2, <1>4, <2>1, AppendProperties
    <2>3. \A i : i \in 1..Len(lines) + 1 <=> i \in 1..Len(lines) \/ i = Len(lines) + 1
        BY <2>1
    <2>4. Len(lines) + 1 \notin 1..Len(lines)
        BY <2>1
    <2>5. \A i \in 1..Len(lines') : lines'[i] # <<>>
        BY <1>2, <2>2, <2>3 DEF LogTypeOK
    <2>6. Readable' = IF whole THEN Readable \cup {Len(lines) + 1} ELSE Readable
        BY <1>2, <2>2, <2>3, <2>4, ReadableFacts
    <2> QED
        BY <1>2, <2>2, <2>4, <2>5, <2>6, ReadableFacts
<1> QED
    BY <1>3, <1>4 DEF Added, p

\* A row that goes on on another's line spoils both.
LEMMA AfterJoined ==
    ASSUME LogTypeOK, NEW p \in Pieces, Joined(p)
    PROVE  /\ lines' \in Seq(Seq(Pieces)) /\ \A i \in 1..Len(lines') : lines'[i] # <<>>
           /\ lines' # <<>> /\ ~ended /\ Len(lines') = Len(lines)
           /\ Readable' = Readable \ {Len(lines)}
           /\ \A i \in Readable' : lines'[i] = lines[i]
<1> DEFINE n == Len(lines)
           last == Append(lines[n], p)
<1>1. lines \in Seq(Seq(Pieces)) /\ n \in Nat \ {0} /\ n \in 1..n
    BY LenProperties, EmptySeq DEF LogTypeOK, Joined
<1>2. lines[n] \in Seq(Pieces) /\ lines[n] # <<>> /\ Len(lines[n]) \in Nat \ {0}
    BY <1>1, ElementOfSeq, EmptySeq DEF LogTypeOK
<1>3. last \in Seq(Pieces) /\ last # <<>> /\ Len(last) # 1
    BY <1>2, AppendProperties
<1>4. lines' = [lines EXCEPT ![n] = last] /\ ~ended
    BY DEF Joined
<1> HIDE DEF last
<1>5. /\ lines' \in Seq(Seq(Pieces)) /\ Len(lines') = n
      /\ \A i \in 1..n : lines'[i] = IF i = n THEN last ELSE lines[i]
    BY <1>1, <1>3, <1>4, ExceptSeq
<1>6. \A i \in 1..n : lines'[i] # <<>>
    BY <1>3, <1>5 DEF LogTypeOK
<1>7. Readable' = Readable \ {n} /\ \A i \in Readable' : lines'[i] = lines[i]
    BY <1>3, <1>5, ReadableFacts DEF OneRow
<1>8. lines' # <<>>
    BY <1>1, <1>5
<1> QED
    BY <1>4, <1>5, <1>6, <1>7, <1>8

\* No row can be read before one is written.
LEMMA AfterBegun ==
    ASSUME LogTypeOK, Begun
    PROVE  /\ lines' \in Seq(Seq(Pieces)) /\ \A i \in 1..Len(lines') : lines'[i] # <<>>
           /\ lines' # <<>> /\ ended /\ Readable = {} /\ Readable' = {}
<1>1. PICK p \in Pieces : p.row = Header /\ lines' = <<<<p>>>>
    BY DEF Begun
<1>2. lines = <<>> /\ ended
    BY DEF Begun, LogTypeOK
<1>3. Len(lines') = 1 /\ lines'[1] = <<p>> /\ <<p>>[1] = p /\ <<p>> # <<>> /\ lines' # <<>>
    BY <1>1
<1>4. lines' \in Seq(Seq(Pieces))
    BY <1>1
<1>5. ~OneRow(<<p>>)
    BY <1>1, <1>3 DEF OneRow
<1>6. \A i : i \in 1..1 <=> i = 1
    OBVIOUS
<1>7. Readable = {} /\ Readable' = {}
    BY <1>2, <1>3, <1>5, <1>6, ReadableFacts
<1> QED
    BY <1>2, <1>3, <1>4, <1>6, <1>7

\* The row got a line of its own; the rows of other lines stay.
Gained(row) ==
    \E x : /\ x \notin Readable /\ Readable' = Readable \cup {x}
           /\ lines'[x][1].row = row
           /\ \A i \in Readable : lines'[i] = lines[i]

\* It did not.
NotGained ==
    Readable' \subseteq Readable /\ \A i \in Readable' : lines'[i] = lines[i]

\* record() keeps the types of the log.
LEMMA LogTypes ==
    ASSUME LogTypeOK, NEW row \in Rows, WriteRow(row) \/ CutRow(row)
    PROVE  /\ LogTypeOK' /\ records' = Append(records, row)
           /\ WriteRow(row) => cuts' = cuts
           /\ CutRow(row) => cuts' = cuts + 1
<1>1. /\ records' = Append(records, row) /\ records' \in Seq(Rows) /\ cuts' \in Nat
      /\ WriteRow(row) => cuts' = cuts
      /\ CutRow(row) => cuts' = cuts + 1
    <2>1. WriteRow(row) => cuts' = cuts /\ records' = Append(records, row)
        BY DEF WriteRow
    <2>2. CutRow(row) => cuts' = cuts + 1 /\ records' = Append(records, row)
        BY DEF CutRow
    <2>3. records \in Seq(Rows) /\ cuts \in Nat
        BY DEF LogTypeOK
    <2>4. records' = Append(records, row) /\ cuts' \in Nat
        BY <2>1, <2>2, <2>3
    <2> QED
        BY <2>1, <2>2, <2>3, <2>4, AppendProperties
<1>2. ASSUME NEW p \in Pieces, Joined(p)
      PROVE  /\ lines' \in Seq(Seq(Pieces)) /\ \A i \in 1..Len(lines') : lines'[i] # <<>>
             /\ lines' # <<>>
    BY <1>2, AfterJoined
<1>3. ASSUME NEW whole \in BOOLEAN, NEW open \in BOOLEAN,
             Added(Piece(row, whole, open)) \/ Joined(Piece(row, whole, open))
      PROVE  /\ lines' \in Seq(Seq(Pieces)) /\ \A i \in 1..Len(lines') : lines'[i] # <<>>
             /\ lines' # <<>>
    <2>1. Piece(row, whole, open) \in Pieces
        BY PieceFacts
    <2> QED
        BY <1>2, <1>3, <2>1, AfterAdded
<1>4. CASE WriteRow(row)
    <2>1. ended' = TRUE
        BY <1>4 DEF WriteRow
    <2> QED
        BY <1>1, <1>3, <1>4, <2>1, WriteRowCases DEF LogTypeOK
<1>5. CASE CutRow(row)
    <2>1. CASE lines' = lines /\ ended' = ended
        BY <1>1, <1>5, <2>1 DEF LogTypeOK
    <2>2. CASE Begun /\ ended' \in BOOLEAN
        BY <1>1, <1>5, <2>2, AfterBegun DEF LogTypeOK
    <2>3. ASSUME NEW whole \in BOOLEAN, NEW open \in BOOLEAN, ended' \in {FALSE, whole},
                 Added(Piece(row, whole, open)) \/ Joined(Piece(row, whole, open))
          PROVE  LogTypeOK'
        BY <1>1, <1>3, <2>3 DEF LogTypeOK
    <2> QED
        BY <1>1, <1>5, <2>1, <2>2, <2>3, CutRowCases
<1> QED
    BY <1>1, <1>4, <1>5

\* record() gains its row or none, and no other row; if nothing is cut and the
\* last line had its end, it gains it.
LEMMA LogGains ==
    ASSUME LogTypeOK, NEW row \in Rows, WriteRow(row) \/ CutRow(row)
    PROVE  /\ Gained(row) \/ NotGained
           /\ WriteRow(row) /\ ended => Gained(row)
<1>1. ASSUME NEW whole \in BOOLEAN, NEW open \in BOOLEAN, Added(Piece(row, whole, open))
      PROVE  IF whole THEN Gained(row) ELSE NotGained
    BY <1>1, AfterAdded DEF Gained, NotGained
<1>2. ASSUME NEW whole \in BOOLEAN, NEW open \in BOOLEAN, Joined(Piece(row, whole, open))
      PROVE  NotGained /\ ~ended
    <2>1. Piece(row, whole, open) \in Pieces
        BY PieceFacts
    <2>2. /\ Readable' = Readable \ {Len(lines)} /\ ~ended
          /\ \A i \in Readable' : lines'[i] = lines[i]
        BY <1>2, <2>1, AfterJoined
    <2> QED
        BY <2>2 DEF NotGained
<1>3. CASE WriteRow(row)
    <2>1. Added(Piece(row, TRUE, FALSE)) => Gained(row)
        BY <1>1
    <2>2. Joined(Piece(row, TRUE, FALSE)) => NotGained /\ ~ended
        BY <1>2
    <2> QED
        BY <1>3, <2>1, <2>2, WriteRowCases
<1>4. CASE CutRow(row)
    <2>1. ~WriteRow(row)
        <3>1. cuts \in Nat /\ cuts' = cuts + 1 /\ cuts' # cuts
            BY <1>4, LogTypes DEF LogTypeOK
        <3> QED
            BY <3>1, LogTypes
    <2>2. CASE lines' = lines /\ ended' = ended
        BY <2>1, <2>2 DEF NotGained, Readable
    <2>3. CASE Begun
        BY <2>1, <2>3, AfterBegun DEF NotGained
    <2>4. ASSUME NEW whole \in BOOLEAN, NEW open \in BOOLEAN,
                 Added(Piece(row, whole, open)) \/ Joined(Piece(row, whole, open))
          PROVE  Gained(row) \/ NotGained
        BY <1>1, <1>2, <2>4
    <2> QED
        BY <1>4, <2>1, <2>2, <2>3, <2>4, CutRowCases
<1> QED
    BY <1>3, <1>4

-----------------------------------------------------------------------------
(* What a cut costs.                                                         *)

\* After a cut two more records are lost at most; one of those two is already
\* lost unless the line that was not ended can be read.
CutsCost ==
    LET told == Cardinality(Readable) + 2 * cuts
    IN  /\ ended => told >= Len(records)
        /\ ~ended => told >= Len(records) + IF Len(lines) \in Readable THEN 2 ELSE 1

\* The rows can be counted.
LEMMA ReadableIsFinite ==
    ASSUME LogTypeOK
    PROVE  IsFiniteSet(Readable) /\ Cardinality(Readable) \in Nat
<1>1. Len(lines) \in Nat
    BY LenProperties DEF LogTypeOK
<1>2. IsFiniteSet(1..Len(lines))
    BY <1>1, FS_Interval
<1>3. Readable \in SUBSET (1..Len(lines))
    BY DEF Readable
<1>4. IsFiniteSet(Readable)
    BY <1>2, <1>3, FS_Subset
<1> QED
    BY <1>4, FS_CardinalityType

\* A line spoilt, a row gained or a row lost is paid for by the cut before it.
LEMMA CutsCostStep ==
    ASSUME LogTypeOK, CutsCost, NEW row \in Rows, WriteRow(row) \/ CutRow(row)
    PROVE  CutsCost'
<1> DEFINE r == Cardinality(Readable)
           m == Len(records)
           x == Len(lines')
<1>1. IsFiniteSet(Readable) /\ r \in Nat /\ m \in Nat /\ cuts \in Nat /\ ended \in BOOLEAN
    BY ReadableIsFinite, LenProperties DEF LogTypeOK
<1>2. Len(records') = m + 1
    BY LogTypes, AppendProperties DEF LogTypeOK
<1>3. /\ ended => r + 2 * cuts >= m
      /\ ~ended => r + 2 * cuts >= m + IF Len(lines) \in Readable THEN 2 ELSE 1
    BY DEF CutsCost
\* The count after each of the ways the file can change.
<1>4. ASSUME NEW whole \in BOOLEAN, NEW open \in BOOLEAN, Added(Piece(row, whole, open))
      PROVE  /\ Cardinality(Readable') = IF whole THEN r + 1 ELSE r
             /\ (x \in Readable' <=> whole) /\ ended
    <2>1. Readable' = (IF whole THEN Readable \cup {x} ELSE Readable) /\ x \notin Readable
        BY <1>4, AfterAdded
    <2>2. ended
        BY <1>4 DEF Added, LogTypeOK
    <2> QED
        BY <1>1, <2>1, <2>2, FS_AddElement
<1>5. ASSUME NEW whole \in BOOLEAN, NEW open \in BOOLEAN, Joined(Piece(row, whole, open))
      PROVE  /\ Cardinality(Readable') = IF Len(lines) \in Readable THEN r - 1 ELSE r
             /\ x \notin Readable' /\ ~ended
    <2>1. Piece(row, whole, open) \in Pieces
        BY PieceFacts
    <2>2. Readable' = Readable \ {Len(lines)} /\ x = Len(lines) /\ ~ended
        BY <1>5, <2>1, AfterJoined
    <2> QED
        BY <1>1, <2>2, FS_RemoveElement
<1> HIDE DEF r, m, x
<1>6. CASE WriteRow(row)
    <2>1. cuts' = cuts /\ ended' = TRUE
        BY <1>6, LogTypes DEF WriteRow
    <2>2. CASE Added(Piece(row, TRUE, FALSE))
        <3>1. Cardinality(Readable') = r + 1 /\ ended
            BY <1>4, <2>2
        <3> QED
            BY <1>1, <1>2, <1>3, <2>1, <3>1 DEF CutsCost
    <2>3. CASE Joined(Piece(row, TRUE, FALSE))
        <3>1. Cardinality(Readable') = (IF Len(lines) \in Readable THEN r - 1 ELSE r) /\ ~ended
            BY <1>5, <2>3
        <3> QED
            BY <1>1, <1>2, <1>3, <2>1, <3>1 DEF CutsCost
    <2> QED
        BY <1>6, <2>2, <2>3, WriteRowCases
<1>7. CASE CutRow(row)
    <2>1. cuts' = cuts + 1
        BY <1>7, LogTypes
    <2>2. CASE lines' = lines /\ ended' = ended
        <3>1. Readable' = Readable /\ Len(lines') = Len(lines)
            BY <2>2 DEF Readable
        <3> QED
            BY <1>1, <1>2, <1>3, <2>1, <2>2, <3>1 DEF CutsCost, r
    <2>3. CASE Begun
        <3>1. Readable' = Readable /\ ended /\ Len(lines') \notin Readable'
            BY <2>3, AfterBegun
        <3> QED
            BY <1>1, <1>2, <1>3, <2>1, <3>1 DEF CutsCost, r
    <2>4. ASSUME NEW whole \in BOOLEAN, NEW open \in BOOLEAN, ended' \in {FALSE, whole},
                 Added(Piece(row, whole, open))
          PROVE  CutsCost'
        <3>1. /\ Cardinality(Readable') = (IF whole THEN r + 1 ELSE r)
              /\ (Len(lines') \in Readable' <=> whole) /\ ended
            BY <1>4, <2>4 DEF x
        <3> QED
            BY <1>1, <1>2, <1>3, <2>1, <2>4, <3>1 DEF CutsCost
    <2>5. ASSUME NEW whole \in BOOLEAN, NEW open \in BOOLEAN, ended' \in {FALSE, whole},
                 Joined(Piece(row, whole, open))
          PROVE  CutsCost'
        <3>1. /\ Cardinality(Readable') = (IF Len(lines) \in Readable THEN r - 1 ELSE r)
              /\ Len(lines') \notin Readable' /\ ~ended
            BY <1>5, <2>5 DEF x
        <3> QED
            BY <1>1, <1>2, <1>3, <2>1, <2>5, <3>1 DEF CutsCost
    <2> QED
        BY <1>7, <2>2, <2>3, <2>4, <2>5, CutRowCases
<1> QED
    BY <1>6, <1>7

-----------------------------------------------------------------------------
(* What the log of an untroubled panel is.                                   *)

\* Until a write is cut the file is the header and a line for each record.
PlainLog ==
    cuts = 0 =>
        /\ ended
        /\ IF lines = <<>> THEN records = <<>>
           ELSE /\ Len(lines) = Len(records) + 1
                /\ lines[1] = <<HeaderPiece>>
                /\ \A i \in 1..Len(records) : lines[i + 1] = <<Piece(records[i], TRUE, FALSE)>>

\* Each record adds its line.
LEMMA PlainLogStep ==
    ASSUME LogTypeOK, PlainLog, NEW row \in Rows, WriteRow(row) \/ CutRow(row)
    PROVE  PlainLog'
<1> DEFINE p == Piece(row, TRUE, FALSE)
           n == Len(records)
<1>1. /\ n \in Nat /\ cuts \in Nat /\ lines \in Seq(Seq(Pieces))
      /\ Len(records') = n + 1 /\ records' # <<>>
      /\ \A i \in 1..n : records'[i] = records[i]
      /\ records'[n + 1] = row
    BY LogTypes, LenProperties, AppendProperties DEF LogTypeOK
<1>2. CASE CutRow(row)
    <2>1. cuts' # 0
        BY <1>1, <1>2, LogTypes
    <2> QED
        BY <2>1 DEF PlainLog
<1>3. CASE WriteRow(row) /\ cuts = 0
    <2>1. ended' = TRUE /\ Added(p)
        <3>1. ended
            BY <1>3 DEF PlainLog
        <3>2. ended' = TRUE
            BY <1>3 DEF WriteRow
        <3> QED
            BY <1>3, <3>1, <3>2, WriteRowCases DEF Joined
    <2> HIDE DEF p
    <2>2. \A i : i \in 1..n + 1 <=> i \in 1..n \/ i = n + 1
        BY <1>1
    <2>3. CASE lines = <<>> /\ lines' = <<<<HeaderPiece>>, <<p>>>>
        <3>1. n = 0
            BY <1>3, <2>3, EmptySeq DEF PlainLog
        <3>2. lines' # <<>> /\ Len(lines') = 2 /\ lines'[1] = <<HeaderPiece>> /\ lines'[2] = <<p>>
            BY <2>3
        <3>3. \A i \in 1..1 : i = 1 /\ i + 1 = 2
            OBVIOUS
        <3> QED
            BY <1>1, <2>1, <3>1, <3>2, <3>3 DEF PlainLog, p, Piece, HeaderPiece
    <2>4. CASE lines # <<>> /\ lines' = Append(lines, <<p>>)
        <3>1. <<p>> \in Seq(Pieces)
            BY PieceFacts DEF p
        <3>2. /\ lines' # <<>> /\ Len(lines') = Len(lines) + 1
              /\ \A i \in 1..Len(lines) : lines'[i] = lines[i]
              /\ lines'[Len(lines) + 1] = <<p>>
            BY <1>1, <2>4, <3>1, AppendProperties
        <3>3. /\ Len(lines) = n + 1 /\ lines[1] = <<HeaderPiece>>
              /\ \A i \in 1..n : lines[i + 1] = <<Piece(records[i], TRUE, FALSE)>>
            BY <1>3, <2>4 DEF PlainLog
        <3>4. lines'[1] = <<HeaderPiece>>
            BY <1>1, <3>2, <3>3
        <3>5. ASSUME NEW i \in 1..n PROVE lines'[i + 1] = <<Piece(records'[i], TRUE, FALSE)>>
            <4>1. i + 1 \in 1..Len(lines)
                BY <1>1, <3>3
            <4>2. lines'[i + 1] = lines[i + 1] /\ records'[i] = records[i]
                BY <1>1, <3>2, <4>1
            <4> QED
                BY <3>3, <4>2
        <3>6. lines'[(n + 1) + 1] = <<Piece(records'[n + 1], TRUE, FALSE)>>
            BY <1>1, <3>2, <3>3 DEF p
        <3>7. \A i \in 1..Len(records') : lines'[i + 1] = <<Piece(records'[i], TRUE, FALSE)>>
            BY <1>1, <2>2, <3>5, <3>6
        <3> QED
            BY <1>1, <2>1, <3>2, <3>3, <3>4, <3>7 DEF PlainLog, Piece, HeaderPiece
    <2> QED
        BY <2>1, <2>3, <2>4 DEF Added
<1>4. CASE WriteRow(row) /\ cuts # 0
    BY <1>4, LogTypes DEF PlainLog
<1> QED
    BY <1>2, <1>3, <1>4

-----------------------------------------------------------------------------
(* What the page shows of it.                                                *)

\* A line with one whole piece outside quotes is a row, or the header.
LEMMA ParseOne ==
    ASSUME NEW rows, NEW row \in Rows \cup {Header}
    PROVE  Parse([open |-> FALSE, rows |-> rows], <<Piece(row, TRUE, FALSE)>>)
             = [open |-> FALSE, rows |-> IF row = Header THEN rows ELSE Append(rows, row)]
<1> DEFINE p == Piece(row, TRUE, FALSE)
           line == <<p>>
<1>1. p.row = row /\ p.whole = TRUE /\ p.open = FALSE
    BY DEF Piece
<1> HIDE DEF p
<1>2. Len(line) = 1 /\ line[1] = p
    OBVIOUS
<1>3. \A i \in 1..Len(line) : i = 1
    BY <1>2
<1> HIDE DEF line
<1>4. Parse([open |-> FALSE, rows |-> rows], line)
        = [open |-> FALSE, rows |-> IF row = Header THEN rows ELSE Append(rows, row)]
    BY <1>1, <1>2, <1>3 DEF Parse
<1> QED
    BY <1>4 DEF line, p

\* Whole rows on lines of their own, after the header or not, are parsed as they are.
LEMMA ParsedRows ==
    ASSUME NEW text, NEW rs \in Seq(Rows), NEW h \in {0, 1}, Len(text) = Len(rs) + h,
           h = 1 => text[1] = <<HeaderPiece>>,
           \A i \in 1..Len(rs) : text[i + h] = <<Piece(rs[i], TRUE, FALSE)>>
    PROVE  Parsed(text) = rs
<1> DEFINE n == Len(text)
           start == [open |-> FALSE, rows |-> <<>>]
           Rule(f, m) ==
               f = [i \in 0..m |-> IF i = 0 THEN start ELSE Parse(f[i - 1], text[i])]
           after == CHOOSE f : Rule(f, n)
<1>1. n \in Nat /\ Len(rs) \in Nat /\ h \in Nat
    BY LenProperties
<1> HIDE DEF start
\* The recursive function exists.
<1>2. \A m \in Nat : \E f : Rule(f, m)
    <2> DEFINE B == {m \in Nat : ~\E f : Rule(f, m)}
    <2> SUFFICES ASSUME B # {} PROVE FALSE
        OBVIOUS
    <2>1. PICK m \in B : \A k \in B : m <= k
        <3>1. B \in SUBSET Nat
            OBVIOUS
        <3> HIDE DEF B
        <3> QED
            BY <3>1, LeastElement
    <2>2. CASE m = 0
        <3> DEFINE f == [i \in 0..0 |-> start]
        <3>1. Rule(f, 0)
            OBVIOUS
        <3> QED
            BY <2>2, <3>1
    <2>3. CASE m # 0
        <3> m \in Nat
            BY <2>1
        <3>1. m - 1 \in Nat /\ m - 1 \notin B
            <4> HIDE DEF B
            <4> QED
                BY <2>1, <2>3
        <3>2. PICK f : Rule(f, m - 1)
            BY <3>1
        <3>3. \A i \in 0..m - 1 : f[i] = IF i = 0 THEN start ELSE Parse(f[i - 1], text[i])
            BY <3>2
        <3> DEFINE g == [i \in 0..m |-> IF i = 0 THEN start ELSE Parse(f[i - 1], text[i])]
        <3>4. \A i \in 0..m - 1 : g[i] = f[i]
            BY <3>1, <3>3
        <3>5. \A i \in 0..m : i # 0 => i - 1 \in 0..m - 1
            BY <3>1
        <3>6. Rule(g, m)
            BY <3>4, <3>5
        <3> QED
            BY <2>1, <3>6
    <2> QED
        BY <2>2, <2>3
<1>3. Rule(after, n)
    BY <1>1, <1>2
<1>4. \A i \in 0..n : after[i] = IF i = 0 THEN start ELSE Parse(after[i - 1], text[i])
    BY <1>3
<1>5. Parsed(text) = after[n].rows \o IF after[n].open THEN <<Garbled>> ELSE <<>>
    BY DEF Parsed, start
<1> HIDE DEF after
\* After i lines the rows are those of the lines but the header.
<1>6. \A i \in 0..n : after[i] = [open |-> FALSE, rows |-> SubSeq(rs, 1, i - h)]
    <2> DEFINE B == {i \in 0..n : after[i] # [open |-> FALSE, rows |-> SubSeq(rs, 1, i - h)]}
    <2> SUFFICES ASSUME B # {} PROVE FALSE
        OBVIOUS
    <2>1. PICK i \in B : \A k \in B : i <= k
        <3>1. B \in SUBSET Nat
            BY <1>1
        <3> HIDE DEF B
        <3> QED
            BY <3>1, LeastElement
    <2>2. i \in 0..n /\ after[i] # [open |-> FALSE, rows |-> SubSeq(rs, 1, i - h)]
        BY <2>1
    <2>3. i # 0
        <3>1. SubSeq(rs, 1, 0 - h) = <<>>
            BY <1>1, SubSeqEmpty
        <3> QED
            BY <1>4, <2>2, <3>1 DEF start
    <2>4. i \in 1..n /\ i - 1 \in 0..n /\ i - 1 \notin B
        <3> HIDE DEF B
        <3> QED
            BY <1>1, <2>1, <2>2, <2>3
    <2>5. after[i - 1] = [open |-> FALSE, rows |-> SubSeq(rs, 1, (i - 1) - h)]
        BY <2>4
    <2>6. after[i] = Parse([open |-> FALSE, rows |-> SubSeq(rs, 1, (i - 1) - h)], text[i])
        BY <1>4, <2>2, <2>3, <2>5
    <2>7. CASE i - h = 0
        <3>1. h = 1 /\ i = 1
            BY <2>3, <2>4, <2>7
        <3>2. SubSeq(rs, 1, (i - 1) - h) = <<>> /\ SubSeq(rs, 1, i - h) = <<>>
            BY <1>1, <2>7, <3>1, SubSeqEmpty
        <3>3. after[i] = [open |-> FALSE, rows |-> <<>>]
            BY <2>6, <3>1, <3>2, ParseOne DEF HeaderPiece
        <3> QED
            BY <2>2, <3>2, <3>3
    <2>8. CASE i - h # 0
        <3>1. i - h \in 1..Len(rs) /\ (i - h) + h = i /\ (i - 1) - h = (i - h) - 1
            BY <1>1, <2>4, <2>8
        <3>2. text[i] = <<Piece(rs[i - h], TRUE, FALSE)>>
            BY <3>1
        <3>3. rs[i - h] \in Rows /\ rs[i - h] # Header
            BY <3>1, ElementOfSeq, HeaderAssumption
        <3>4. after[i] = [open |-> FALSE, rows |-> Append(SubSeq(rs, 1, (i - h) - 1), rs[i - h])]
            <4> DEFINE before == SubSeq(rs, 1, (i - h) - 1)
                       row == rs[i - h]
            <4>1. after[i] = Parse([open |-> FALSE, rows |-> before], <<Piece(row, TRUE, FALSE)>>)
                BY <2>6, <3>1, <3>2
            <4>2. row \in Rows /\ row # Header
                BY <3>3
            <4> HIDE DEF before, row
            <4>3. after[i] = [open |-> FALSE, rows |-> Append(before, row)]
                BY <4>1, <4>2, ParseOne
            <4> QED
                BY <4>3 DEF before, row
        <3>5. SubSeq(rs, 1, i - h) = Append(SubSeq(rs, 1, (i - h) - 1), rs[i - h])
            <4> DEFINE k == i - h
            <4>1. k \in 1..Len(rs) /\ k \in Int /\ k - 1 \in Int
                BY <1>1, <3>1
            <4> HIDE DEF k
            <4>2. 1 \in 1..Len(rs) /\ k \in 1..Len(rs)
                BY <1>1, <4>1
            <4>3. SubSeq(rs, 1, k) = SubSeq(rs, 1, k - 1) \o <<rs[k]>>
                BY <4>2, SubSeqRecursiveSecond
            <4>4. \A j \in 1..k - 1 : rs[j] \in Rows
                <5>1. \A j \in 1..k - 1 : j \in 1..Len(rs)
                    BY <1>1, <4>1
                <5> QED
                    BY <5>1, ElementOfSeq
            <4>5. SubSeq(rs, 1, k - 1) \in Seq(Rows)
                BY <4>1, <4>4, SubSeqProperties
            <4>6. SubSeq(rs, 1, k) = Append(SubSeq(rs, 1, k - 1), rs[k])
                BY <4>1, <4>3, <4>5, AppendIsConcat, ElementOfSeq
            <4> QED
                BY <4>6 DEF k
        <3> QED
            BY <2>2, <3>4, <3>5
    <2> QED
        BY <2>7, <2>8
<1>7. after[n] = [open |-> FALSE, rows |-> SubSeq(rs, 1, Len(rs))]
    <2>1. n \in 0..n /\ n - h = Len(rs)
        BY <1>1
    <2> HIDE DEF n
    <2> QED
        BY <1>6, <2>1
<1>8. Parsed(text) = rs \o <<>>
    BY <1>5, <1>7, SubSeqFull
<1> QED
    BY <1>8, ConcatEmptySeq

\* Lines without the header.
LEMMA ParsedRowsOnly ==
    ASSUME NEW text, NEW rs \in Seq(Rows), Len(text) = Len(rs),
           \A i \in 1..Len(rs) : text[i] = <<Piece(rs[i], TRUE, FALSE)>>
    PROVE  Parsed(text) = rs
<1>1. Len(rs) \in Nat
    BY LenProperties
<1>2. PICK h : h = 0
    OBVIOUS
<1>3. h \in {0, 1} /\ Len(text) = Len(rs) + h /\ h # 1 /\ \A i \in 1..Len(rs) : i + h = i
    BY <1>1, <1>2
<1>4. \A i \in 1..Len(rs) : text[i + h] = <<Piece(rs[i], TRUE, FALSE)>>
    BY <1>3
<1> QED
    BY <1>3, <1>4, ParsedRows

\* A sequence, and the end of a longer one, turned round.
LEMMA ReversedEnds ==
    ASSUME NEW s \in Seq(Rows), NEW n \in Nat \ {0}
    PROVE  /\ Reverse(s) = SubSeq(Reverse(s), 1, Len(s))
           /\ n < Len(s) =>
                LET end == SubSeq(s, Len(s) - n, Len(s))
                IN  /\ end \in Seq(Rows) /\ Len(end) = n + 1
                    /\ \A i \in 1..n + 1 : end[i] = s[((Len(s) - n) + i) - 1]
                    /\ Reverse(SubSeq(end, 2, n + 1)) = SubSeq(Reverse(s), 1, n)
<1> DEFINE m == Len(s)
           turned == Reverse(s)
           end == SubSeq(s, m - n, m)
           last == SubSeq(end, 2, n + 1)
<1>1. m \in Nat /\ \A i \in 1..m : s[i] \in Rows
    BY LenProperties, ElementOfSeq
<1>2. turned = [i \in 1..m |-> s[(m - i) + 1]]
    BY DEF Reverse
<1>3. /\ turned \in Seq(Rows) /\ Len(turned) = m
      /\ \A i \in 1..m : turned[i] = s[(m - i) + 1]
    <2>1. \A i \in 1..m : (m - i) + 1 \in 1..m
        BY <1>1
    <2>2. turned \in [1..m -> Rows]
        BY <1>1, <1>2, <2>1
    <2> HIDE DEF turned
    <2> QED
        BY <1>1, <1>2, <2>2
<1>4. Reverse(s) = SubSeq(Reverse(s), 1, Len(s))
    BY <1>3, SubSeqFull
<1>5. ASSUME n < m
      PROVE  /\ end \in Seq(Rows) /\ Len(end) = n + 1
             /\ \A i \in 1..n + 1 : end[i] = s[((m - n) + i) - 1]
    <2>1. m - n \in Int /\ m \in Int /\ m - n <= m /\ (m - (m - n)) + 1 = n + 1
        BY <1>1
    <2>2. \A i \in (m - n)..m : s[i] \in Rows
        BY <1>1, <1>5
    <2> HIDE DEF m
    <2> QED
        BY <2>1, <2>2, SubSeqProperties, SMTT(30)
<1>6. ASSUME n < m
      PROVE  Reverse(last) = SubSeq(turned, 1, n)
    <2>1. end \in Seq(Rows) /\ Len(end) = n + 1 /\ \A i \in 1..n + 1 : end[i] = s[((m - n) + i) - 1]
        BY <1>5, <1>6
    <2> HIDE DEF end
    <2>2. last \in Seq(Rows) /\ Len(last) = n /\ \A i \in 1..n : last[i] = end[i + 1]
        <3>1. \A i \in 2..n + 1 : end[i] \in Rows
            BY <2>1, ElementOfSeq
        <3>2. /\ last \in Seq(Rows) /\ Len(last) = (IF 2 <= n + 1 THEN ((n + 1) - 2) + 1 ELSE 0)
              /\ \A i \in 1..((n + 1) - 2) + 1 : last[i] = end[(2 + i) - 1]
            BY <3>1, SubSeqProperties
        <3>3. ((n + 1) - 2) + 1 = n /\ 2 <= n + 1 /\ \A i \in 1..n : (2 + i) - 1 = i + 1
            OBVIOUS
        <3> HIDE DEF last
        <3> QED
            BY <3>2, <3>3
    <2> HIDE DEF last
    <2>3. Reverse(last) = [i \in 1..n |-> last[(n - i) + 1]]
        BY <2>2 DEF Reverse
    <2>4. \A i \in 1..n : last[(n - i) + 1] = s[(m - i) + 1]
        <3> SUFFICES ASSUME NEW i \in 1..n PROVE last[(n - i) + 1] = s[(m - i) + 1]
            OBVIOUS
        <3>1. (n - i) + 1 \in 1..n /\ ((n - i) + 1) + 1 \in 1..n + 1
            OBVIOUS
        <3>2. last[(n - i) + 1] = s[((m - n) + (((n - i) + 1) + 1)) - 1]
            BY <2>1, <2>2, <3>1
        <3>3. ((m - n) + (((n - i) + 1) + 1)) - 1 = (m - i) + 1
            BY <1>1
        <3> QED
            BY <3>2, <3>3
    <2>5. SubSeq(turned, 1, n) = [i \in 1..n |-> s[(m - i) + 1]]
        <3>1. \A i \in 1..n : turned[i] \in Rows /\ turned[i] = s[(m - i) + 1]
            <4>1. \A i \in 1..n : i \in 1..m
                BY <1>1, <1>6
            <4> HIDE DEF turned, m
            <4> QED
                BY <1>3, <4>1, ElementOfSeq
        <3> HIDE DEF turned
        <3>2. SubSeq(turned, 1, n) \in Seq(Rows) /\ Len(SubSeq(turned, 1, n)) = n
              /\ \A i \in 1..n : SubSeq(turned, 1, n)[i] = turned[i]
            <4>1. /\ SubSeq(turned, 1, n) \in Seq(Rows)
                  /\ Len(SubSeq(turned, 1, n)) = (IF 1 <= n THEN (n - 1) + 1 ELSE 0)
                  /\ \A i \in 1..(n - 1) + 1 : SubSeq(turned, 1, n)[i] = turned[(1 + i) - 1]
                BY <3>1, SubSeqProperties
            <4>2. (n - 1) + 1 = n /\ 1 <= n /\ \A i \in 1..n : (1 + i) - 1 = i
                OBVIOUS
            <4> QED
                BY <4>1, <4>2
        <3> DEFINE first == SubSeq(turned, 1, n)
        <3>3. first = [i \in 1..n |-> first[i]]
            <4> HIDE DEF first
            <4> QED
                BY <3>2, LenProperties DEF first
        <3> HIDE DEF first
        <3> QED
            BY <3>1, <3>2, <3>3 DEF first
    <2> QED
        BY <2>3, <2>4, <2>5
<1> QED
    BY <1>4, <1>5, <1>6

\* The page shows the newest records of a log that is plain.
LEMMA PageIsNewest == LogTypeOK /\ PlainLog => TailIsNewest
<1> SUFFICES ASSUME LogTypeOK, PlainLog, cuts = 0, NEW n \in 1..3
             PROVE  LogTail(n) = SubSeq(Reverse(records), 1,
                                        IF n < Len(records) THEN n ELSE Len(records))
    BY DEF TailIsNewest
<1> DEFINE m == Len(records)
           from == IF Len(lines) > n THEN Len(lines) - n ELSE 1
           text == SubSeq(lines, from, Len(lines))
           Shown(rows) ==
               Reverse(SubSeq(rows, IF Len(rows) > n THEN Len(rows) - n + 1 ELSE 1, Len(rows)))
<1>1. n \in Nat \ {0} /\ records \in Seq(Rows) /\ m \in Nat /\ lines \in Seq(Seq(Pieces))
    BY LenProperties DEF LogTypeOK
<1>2. LogTail(n) = Shown(Parsed(text))
    BY DEF LogTail
<1>3. CASE lines = <<>>
    <2>1. records = <<>> /\ m = 0 /\ ~(n < m)
        BY <1>1, <1>3, EmptySeq DEF PlainLog
    <2>2. text = <<>>
        <3>1. Len(lines) = 0 /\ ~(0 > n)
            BY <1>1, <1>3, EmptySeq
        <3> QED
            BY <3>1, SubSeqEmpty
    <2>3. Parsed(text) = <<>>
        <3>1. <<>> \in Seq(Rows) /\ Len(<<>>) = 0 /\ \A i \in 1..0 : FALSE
            BY EmptySeq
        <3> QED
            BY <2>2, <3>1, ParsedRowsOnly
    <2>4. SubSeq(<<>>, 1, 0) = <<>> /\ Len(<<>>) = 0 /\ ~(0 > n)
        BY <1>1, SubSeqEmpty
    <2>5. Shown(<<>>) = Reverse(<<>>)
        BY <2>4
    <2>6. Reverse(records) = SubSeq(Reverse(records), 1, m)
        BY <1>1, <2>1, ReversedEnds
    <2> QED
        BY <1>2, <2>1, <2>3, <2>5, <2>6
<1>4. ASSUME lines # <<>>
      PROVE  /\ Len(lines) = m + 1 /\ lines[1] = <<HeaderPiece>>
             /\ \A i \in 1..m : lines[i + 1] = <<Piece(records[i], TRUE, FALSE)>>
    BY <1>4 DEF PlainLog
<1>5. CASE lines # <<>> /\ m <= n
    <2>1. from = 1
        BY <1>1, <1>4, <1>5
    <2>2. text = lines
        BY <1>1, <2>1, SubSeqFull
    <2>3. Parsed(lines) = records
        BY <1>1, <1>4, <1>5, ParsedRows
    <2>4. Shown(records) = Reverse(records)
        <3>1. ~(m > n) /\ ~(n < m)
            BY <1>1, <1>5
        <3>2. SubSeq(records, 1, m) = records
            BY <1>1, SubSeqFull
        <3> QED
            BY <3>1, <3>2
    <2>5. Reverse(records) = SubSeq(Reverse(records), 1, m)
        BY <1>1, <1>5, ReversedEnds
    <2>6. ~(n < m)
        BY <1>1, <1>5
    <2> QED
        BY <1>2, <2>2, <2>3, <2>4, <2>5, <2>6
<1>6. CASE lines # <<>> /\ n < m
    <2> DEFINE end == SubSeq(records, m - n, m)
    <2>1. /\ end \in Seq(Rows) /\ Len(end) = n + 1
          /\ \A i \in 1..n + 1 : end[i] = records[((m - n) + i) - 1]
          /\ Reverse(SubSeq(end, 2, n + 1)) = SubSeq(Reverse(records), 1, n)
        BY <1>1, <1>6, ReversedEnds
    <2>2. from = (m + 1) - n /\ Len(lines) = m + 1
        BY <1>1, <1>4, <1>6
    <2>3. Len(text) = n + 1 /\ \A i \in 1..n + 1 : text[i] = lines[(((m + 1) - n) + i) - 1]
        <3> DEFINE a == (m + 1) - n
                   z == m + 1
        <3>1. text = SubSeq(lines, a, z)
            BY <2>2
        <3>2. a \in Int /\ z \in Int /\ a <= z /\ (z - a) + 1 = n + 1
            BY <1>1
        <3>3. \A i \in a..z : lines[i] \in Seq(Pieces)
            <4>1. \A i \in a..z : i \in 1..Len(lines)
                BY <1>1, <1>6, <2>2
            <4> QED
                BY <1>1, <4>1, ElementOfSeq
        <3> HIDE DEF a, z, text
        <3>4. Len(text) = (z - a) + 1 /\ \A i \in 1..(z - a) + 1 : text[i] = lines[(a + i) - 1]
            BY <3>1, <3>2, <3>3, SubSeqProperties
        <3>5. Len(text) = n + 1 /\ \A i \in 1..n + 1 : text[i] = lines[(a + i) - 1]
            BY <3>2, <3>4
        <3> QED
            BY <3>5 DEF a
    <2> HIDE DEF text, end
    <2>4. ASSUME NEW i \in 1..n + 1 PROVE text[i] = <<Piece(end[i], TRUE, FALSE)>>
        <3> DEFINE k == ((m - n) + i) - 1
        <3>1. k \in 1..m /\ (((m + 1) - n) + i) - 1 = k + 1
            BY <1>1, <1>6
        <3>2. text[i] = lines[k + 1] /\ end[i] = records[k]
            BY <2>1, <2>3, <3>1
        <3>3. lines[k + 1] = <<Piece(records[k], TRUE, FALSE)>>
            BY <1>4, <1>6, <3>1
        <3> QED
            BY <3>2, <3>3
    <2>5. Parsed(text) = end
        <3>1. Len(text) = Len(end) /\ \A i \in 1..Len(end) : text[i] = <<Piece(end[i], TRUE, FALSE)>>
            BY <2>1, <2>3, <2>4
        <3> QED
            BY <2>1, <3>1, ParsedRowsOnly
    <2>6. Shown(end) = Reverse(SubSeq(end, 2, n + 1))
        <3>1. Len(end) > n /\ Len(end) - n + 1 = 2
            BY <1>1, <2>1
        <3> QED
            BY <2>1, <3>1
    <2> QED
        BY <1>2, <1>6, <2>1, <2>5, <2>6
<1> QED
    BY <1>1, <1>3, <1>5, <1>6

-----------------------------------------------------------------------------
(* The panel's types.                                                        *)

ListenerStates == {"listening", "saving", "saved", "failed", "waiting"}

\* TypeOK, with what each thread has in hand where it is.
PanelTypeOK ==
    /\ TypeOK /\ LogTypeOK
    /\ clock \in Seconds /\ left \subseteq Punched
    /\ listener \in [at : ListenerStates, program : Punched \cup {Nothing},
                     name : Seconds \cup {Nothing}]
    /\ listener.at \in {"saving", "saved"} => listener.program \in Punched
    /\ listener.at = "saved" => listener.name \in Seconds
    /\ \A w \in Workers : worker[w].at = "sent" => worker[w].n \in Sizes
    /\ \A w \in Workers : worker[w].at = "handed" => transport = "focas"
    /\ sent \in Seq(Queued) /\ crashes \in Nat

\* Each program has its size.
LEMMA SizeFacts ==
    /\ \A p \in Queued \cup Punched : Size[p] \in Sizes
    /\ Nothing \notin Sizes
BY NothingAssumption DEF Sizes

\* The rows that are written are those record() may be called with.
LEMMA DueRows ==
    ASSUME PanelTypeOK
    PROVE  /\ \A w \in Workers : SendRow(w) \in Rows
           /\ ReceiveRow \in Rows
           /\ Due \subseteq Rows
<1>1. \A w \in Workers : SendRow(w) \in Rows
    BY DEF SendRow, Row, Rows, PanelTypeOK
<1>2. ReceiveRow \in Rows
    BY SizeFacts DEF ReceiveRow, Row, Rows, PanelTypeOK
<1> QED
    BY <1>1, <1>2 DEF Due

\* The log changes by one record at a time.
LEMMA LogChanges ==
    ASSUME PanelTypeOK, Next
    PROVE  \/ UNCHANGED logVars
           \/ \E row \in Rows : WriteRow(row) \/ CutRow(row)
<1>1. ASSUME NEW row \in Rows, Record(row)
      PROVE  WriteRow(row) \/ CutRow(row)
    BY <1>1 DEF Record
<1>2. CASE Replace \/ Tick \/ Arrive \/ Save \/ ListenAgain
    BY <1>2 DEF Replace, Tick, Arrive, Save, ListenAgain
<1>3. CASE Crash
    BY <1>3, DueRows DEF Crash
<1>4. ASSUME NEW w \in Workers, WorkerStep(w)
      PROVE  \/ UNCHANGED logVars
             \/ \E row \in Rows : WriteRow(row) \/ CutRow(row)
    BY <1>1, <1>4, DueRows DEF WorkerStep, Press, Send, GetSize, RecordSend
<1>5. CASE RecordReceived \/ RecordError
    BY <1>1, <1>5, DueRows DEF RecordReceived, RecordError
<1> QED
    BY <1>2, <1>3, <1>4, <1>5 DEF Next, Handling

\* The types hold at first.
LEMMA TypesInit == Init => PanelTypeOK
<1> SUFFICES ASSUME Init PROVE PanelTypeOK
    OBVIOUS
<1>1. LogTypeOK
    <2>1. <<>> \in Seq(Seq(Pieces)) /\ <<>> \in Seq(Rows) /\ Len(<<>>) = 0
        BY EmptySeq
    <2> QED
        BY <2>1 DEF Init, LogInit, LogTypeOK
<1>2. <<>> \in Seq(Queued) /\ Len(<<>>) = 0
    OBVIOUS
<1>3. TypeOK
    BY <1>1, <1>2 DEF Init, LogInit, TypeOK, Idle, Listening
<1> QED
    BY <1>1, <1>2, <1>3 DEF Init, PanelTypeOK, Idle, Listening, ListenerStates

\* Each step keeps them.
LEMMA TypesStep ==
    ASSUME PanelTypeOK, [Next]_vars
    PROVE  PanelTypeOK'
<1>1. LogTypeOK'
    <2>1. CASE UNCHANGED logVars
        BY <2>1 DEF PanelTypeOK, LogTypeOK, logVars
    <2>2. CASE \E row \in Rows : WriteRow(row) \/ CutRow(row)
        BY <2>2, LogTypes DEF PanelTypeOK
    <2> QED
        BY <2>1, <2>2, LogChanges DEF vars
<1>2. \A i \in 1..Len(lines') : lines'[i] # <<>>
    BY <1>1 DEF LogTypeOK
<1>3. ASSUME sent' \in Seq(Queued)
      PROVE  \A i \in 1..Len(sent') : sent'[i] \in Queued
    BY <1>3
<1> USE DEF PanelTypeOK, TypeOK, ListenerStates
<1>4. CASE UNCHANGED vars
    BY <1>1, <1>2, <1>4 DEF vars, panelVars
<1>5. CASE Replace
    BY <1>1, <1>2, <1>5 DEF Replace
<1>6. CASE Tick
    BY <1>1, <1>2, <1>6 DEF Tick
<1>7. CASE Crash
    BY <1>1, <1>2, <1>7 DEF Crash, Idle, Listening
<1>8. ASSUME NEW w \in Workers, WorkerStep(w)
      PROVE  PanelTypeOK'
    <2> DEFINE Records == [at : {"idle", "sending", "handed", "sent", "failed"},
                           n : Sizes \cup {Nothing}]
               Fits(x) == /\ x \in Records
                          /\ x.at = "sent" => x.n \in Sizes
                          /\ x.at = "handed" => transport = "focas"
    <2>1. ASSUME NEW x, Fits(x), worker' = [worker EXCEPT ![w] = x],
                 UNCHANGED transport
          PROVE  /\ worker' \in [Workers -> Records]
                 /\ \A v \in Workers : worker'[v].at = "sent" => worker'[v].n \in Sizes
                 /\ \A v \in Workers : worker'[v].at = "handed" => transport' = "focas"
        BY <2>1
    <2>2. ASSUME /\ worker' \in [Workers -> Records]
                 /\ \A v \in Workers : worker'[v].at = "sent" => worker'[v].n \in Sizes
                 /\ \A v \in Workers : worker'[v].at = "handed" => transport' = "focas"
                 /\ sent' \in Seq(Queued) /\ unsaid' \in Nat /\ WorkerOnly
          PROVE  PanelTypeOK'
        BY <1>1, <1>2, <1>3, <2>2 DEF WorkerOnly
    <2>3. WorkerOnly /\ UNCHANGED transport
        BY <1>8 DEF WorkerStep, Press, Send, GetSize, RecordSend, WorkerOnly
    <2>4. CASE Press(w)
        <3>1. UNCHANGED worker \/ \E x : Fits(x) /\ worker' = [worker EXCEPT ![w] = x]
            BY <2>4 DEF Press, Worker
        <3>2. UNCHANGED <<sent, unsaid>>
            BY <2>4 DEF Press
        <3>3. CASE UNCHANGED worker
            BY <2>2, <2>3, <3>2, <3>3
        <3> QED
            BY <2>1, <2>2, <2>3, <3>1, <3>2, <3>3
    <2>5. CASE Send(w)
        <3>1. CASE HandOver(w)
            <4>1. queue \in Queued /\ Size[queue] \in Sizes
                BY <3>1, SizeFacts DEF HandOver
            <4>2. sent' \in Seq(Queued) /\ unsaid' \in Nat
                BY <3>1, <4>1 DEF HandOver
            <4>3. \E x : Fits(x) /\ worker' = [worker EXCEPT ![w] = x]
                BY <3>1, <4>1 DEF HandOver, Worker
            <4> QED
                BY <2>1, <2>2, <2>3, <4>2, <4>3
        <3>2. CASE Worker(w, "failed", Nothing) /\ UNCHANGED <<sent, unsaid>>
            <4>1. \E x : Fits(x) /\ worker' = [worker EXCEPT ![w] = x]
                BY <3>2 DEF Worker
            <4> QED
                BY <2>1, <2>2, <2>3, <3>2, <4>1
        <3> QED
            BY <2>5, <3>1, <3>2 DEF Send
    <2>6. CASE GetSize(w)
        <3>1. queue # Nothing => queue \in Queued /\ Size[queue] \in Sizes
            BY SizeFacts
        <3>2. \E x : Fits(x) /\ worker' = [worker EXCEPT ![w] = x]
            BY <2>6, <3>1 DEF GetSize, Worker
        <3>3. sent' \in Seq(Queued) /\ unsaid' \in Nat
            BY <2>6 DEF GetSize
        <3> QED
            BY <2>1, <2>2, <2>3, <3>2, <3>3
    <2>7. CASE RecordSend(w)
        <3>1. \E x : Fits(x) /\ worker' = [worker EXCEPT ![w] = x]
            BY <2>7 DEF RecordSend, Worker
        <3>2. UNCHANGED <<sent, unsaid>>
            BY <2>7 DEF RecordSend
        <3> QED
            BY <2>1, <2>2, <2>3, <3>1, <3>2
    <2> QED
        BY <1>8, <2>4, <2>5, <2>6, <2>7 DEF WorkerStep
<1>9. CASE Arrive
    BY <1>1, <1>2, <1>9 DEF Arrive, ListenerOnly
<1>10. CASE Save
    BY <1>1, <1>2, <1>10 DEF Save, ListenerOnly
<1>11. CASE RecordReceived
    BY <1>1, <1>2, <1>11 DEF RecordReceived, ListenerOnly, Listening
<1>12. CASE RecordError
    BY <1>1, <1>2, <1>12 DEF RecordError, ListenerOnly
<1>13. CASE ListenAgain
    BY <1>1, <1>2, <1>13 DEF ListenAgain, ListenerOnly, Listening
<1> QED
    BY <1>4, <1>5, <1>6, <1>7, <1>8, <1>9, <1>10, <1>11, <1>12, <1>13 DEF Next, Handling

-----------------------------------------------------------------------------
(* What a line of the log says.                                              *)

\* A line that can be read could be read before and is as it was, or has the row
\* just recorded.
LEMMA OldOrNew ==
    ASSUME LogTypeOK, NEW row \in Rows, WriteRow(row) \/ CutRow(row), NEW i \in Readable'
    PROVE  \/ i \in Readable /\ lines'[i] = lines[i]
           \/ lines'[i][1].row = row
BY LogGains DEF Gained, NotGained

\* A row the log has of a received program names one, and its file.
RowsTrue ==
    \A i \in Readable :
        LET row == lines[i][1].row
        IN  row.direction = "receive" /\ row.result = "ok" =>
                row.n \in Sizes /\ row.name \in Seconds

\* What the listener is about to record is in the file.
ListenerKept ==
    ~clash /\ listener.at = "saved" => programs[listener.name] = listener.program

\* A program in a file stays there until another gets its second; the log names
\* that file, for the name was chosen before the row was written.
ReceivedInv == RowsTrue /\ ListenerKept /\ ReceivedIsKept

LEMMA ReceivedInit == Init => ReceivedInv
<1> SUFFICES ASSUME Init PROVE ReceivedInv
    OBVIOUS
<1>1. Readable = {}
    <2>1. lines = <<>> /\ Len(<<>>) = 0
        BY DEF Init, LogInit
    <2> QED
        BY <2>1 DEF Readable
<1> QED
    BY <1>1 DEF Init, Listening, ReceivedInv, RowsTrue, ListenerKept, ReceivedIsKept

\* A row recorded while the files stay as they are, true of them if it is of a
\* program received.
LEMMA ReceivedRecord ==
    ASSUME PanelTypeOK, ReceivedInv, NEW row \in Rows, WriteRow(row) \/ CutRow(row),
           row.direction = "receive" /\ row.result = "ok" =>
              row = ReceiveRow /\ listener.at = "saved",
           UNCHANGED <<programs, clash>>, listener'.at # "saved" \/ UNCHANGED listener
    PROVE  ReceivedInv'
<1>1. LogTypeOK
    BY DEF PanelTypeOK
<1>2. ASSUME row.direction = "receive" /\ row.result = "ok"
      PROVE  /\ row.n \in Sizes /\ row.name \in Seconds
             /\ ~clash => programs[row.name] # Nothing /\ Size[programs[row.name]] = row.n
    <2>1. row = ReceiveRow /\ listener.at = "saved"
        BY <1>2
    <2>2. listener.program \in Punched /\ listener.name \in Seconds
        BY <2>1 DEF PanelTypeOK
    <2>3. row.n = Size[listener.program] /\ row.name = listener.name
        BY <2>1 DEF ReceiveRow, Row
    <2>4. ~clash => programs[listener.name] = listener.program
        BY <2>1 DEF ReceivedInv, ListenerKept
    <2>5. listener.program # Nothing
        BY <2>2, NothingAssumption
    <2> QED
        BY <2>2, <2>3, <2>4, <2>5, SizeFacts
<1>3. ASSUME NEW i \in Readable',
             lines'[i][1].row.direction = "receive", lines'[i][1].row.result = "ok"
      PROVE  LET new == lines'[i][1].row
             IN  /\ new.n \in Sizes /\ new.name \in Seconds
                 /\ ~clash => programs[new.name] # Nothing /\ Size[programs[new.name]] = new.n
    <2>1. CASE i \in Readable /\ lines'[i] = lines[i]
        BY <1>3, <2>1 DEF ReceivedInv, RowsTrue, ReceivedIsKept
    <2>2. CASE lines'[i][1].row = row
        BY <1>2, <1>3, <2>2
    <2> QED
        BY <1>1, <2>1, <2>2, OldOrNew
<1> QED
    BY <1>3 DEF ReceivedInv, RowsTrue, ListenerKept, ReceivedIsKept

\* A file written or lost.
LEMMA ReceivedSave ==
    ASSUME PanelTypeOK, ReceivedInv, Save
    PROVE  ReceivedInv'
<1>1. lines' = lines /\ Readable' = Readable
    BY DEF Save, logVars, Readable
<1>2. ASSUME NEW i \in Readable, lines[i][1].row.direction = "receive",
             lines[i][1].row.result = "ok", ~clash'
      PROVE  LET row == lines[i][1].row
             IN  programs'[row.name] # Nothing /\ Size[programs'[row.name]] = row.n
    <2> DEFINE row == lines[i][1].row
    <2>1. row.n \in Sizes /\ row.name \in Seconds
        BY <1>2 DEF ReceivedInv, RowsTrue
    <2>2. ~clash => programs[row.name] # Nothing /\ Size[programs[row.name]] = row.n
        BY <1>2 DEF ReceivedInv, ReceivedIsKept
    <2> HIDE DEF row
    <2>3. ~clash /\ programs'[row.name] = programs[row.name]
        BY <1>2, <2>1, <2>2 DEF Save, PanelTypeOK, TypeOK
    <2>4. programs'[row.name] # Nothing /\ Size[programs'[row.name]] = row.n
        BY <2>2, <2>3
    <2> QED
        BY <2>4 DEF row
<1>3. ~clash' /\ listener'.at = "saved" => programs'[listener'.name] = listener'.program
    BY ZenonT(30) DEF Save, PanelTypeOK, TypeOK, ListenerStates
<1>4. RowsTrue'
    BY <1>1 DEF RowsTrue, ReceivedInv
<1> QED
    BY <1>1, <1>2, <1>3, <1>4 DEF ReceivedInv, ListenerKept, ReceivedIsKept

LEMMA ReceivedStep ==
    ASSUME PanelTypeOK, ReceivedInv, [Next]_vars
    PROVE  ReceivedInv'
<1>1. ASSUME UNCHANGED <<programs, clash, logVars>>,
             listener'.at # "saved" \/ UNCHANGED listener
      PROVE  ReceivedInv'
    BY <1>1 DEF ReceivedInv, RowsTrue, ListenerKept, ReceivedIsKept, Readable, logVars
<1>2. CASE UNCHANGED vars \/ Replace \/ Tick
    BY <1>1, <1>2 DEF vars, panelVars, Replace, Tick
<1>3. CASE Arrive \/ ListenAgain
    BY <1>1, <1>3 DEF Arrive, ListenAgain, Listening, ListenerOnly
<1>4. CASE Save
    BY <1>4, ReceivedSave
<1>5. CASE RecordReceived \/ RecordError
    <2>1. UNCHANGED <<programs, clash>> /\ listener'.at # "saved"
        BY <1>5 DEF RecordReceived, RecordError, Listening, PanelTypeOK, ListenerStates
    <2>2. WriteRow(ReceiveRow) \/ CutRow(ReceiveRow)
        BY <1>5 DEF RecordReceived, RecordError, Record
    <2>3. ReceiveRow.direction = "receive" /\ ReceiveRow.result = "ok" => listener.at = "saved"
        BY DEF ReceiveRow, Row
    <2> QED
        BY <2>1, <2>2, <2>3, DueRows, ReceivedRecord
<1>6. ASSUME NEW w \in Workers
      PROVE  SendRow(w).direction = "send"
    BY DEF SendRow, Row
<1>7. CASE Crash
    <2>1. UNCHANGED <<programs, clash>> /\ listener'.at # "saved"
        BY <1>7 DEF Crash, Listening
    <2>2. ASSUME NEW row \in Due, CutRow(row)
          PROVE  ReceivedInv'
        <3>1. row.direction = "receive" /\ row.result = "ok" =>
                  row = ReceiveRow /\ listener.at = "saved"
            BY <1>6 DEF Due, ReceiveRow, Row
        <3> QED
            BY <2>1, <2>2, <3>1, DueRows, ReceivedRecord
    <2> QED
        BY <1>1, <1>7, <2>1, <2>2 DEF Crash
<1>8. ASSUME NEW w \in Workers, WorkerStep(w)
      PROVE  ReceivedInv'
    <2>1. UNCHANGED <<programs, clash, listener>>
        BY <1>8 DEF WorkerStep, Press, Send, GetSize, RecordSend, WorkerOnly
    <2>2. CASE UNCHANGED logVars
        BY <1>1, <2>1, <2>2
    <2>3. CASE RecordSend(w)
        <3>1. WriteRow(SendRow(w)) \/ CutRow(SendRow(w))
            BY <2>3 DEF RecordSend, Record
        <3>2. SendRow(w) \in Rows /\ SendRow(w).direction # "receive"
            BY <1>6, DueRows
        <3> QED
            BY <2>1, <3>1, <3>2, ReceivedRecord
    <2> QED
        BY <1>8, <2>2, <2>3 DEF WorkerStep, Press, Send, GetSize
<1> QED
    BY <1>2, <1>3, <1>4, <1>5, <1>7, <1>8 DEF Next, Handling

-----------------------------------------------------------------------------
(* What was sent.                                                            *)

\* Everything that is counted can be.
LEMMA Counts ==
    ASSUME PanelTypeOK, NEW rows
    PROVE  /\ IsFiniteSet(Logged(rows)) /\ Cardinality(Logged(rows)) \in Nat
           /\ IsFiniteSet(Untold(rows)) /\ Cardinality(Untold(rows)) \in Nat
           /\ Told(rows) \in Nat
           /\ IsFiniteSet(Handed) /\ Cardinality(Handed) \in Nat
<1>1. IsFiniteSet(Readable)
    BY ReadableIsFinite DEF PanelTypeOK
<1>2. /\ Logged(rows) \in SUBSET Readable
      /\ Untold(rows) \in SUBSET Workers
      /\ Handed \in SUBSET Workers
    BY DEF Logged, Untold, Handed
<1>3. IsFiniteSet(Logged(rows)) /\ IsFiniteSet(Untold(rows)) /\ IsFiniteSet(Handed)
    BY <1>1, <1>2, FS_Subset, WorkersAssumption
<1>4. /\ Cardinality(Logged(rows)) \in Nat /\ Cardinality(Untold(rows)) \in Nat
      /\ Cardinality(Handed) \in Nat
    BY <1>3, FS_CardinalityType
<1> QED
    BY <1>3, <1>4 DEF Told

\* What was handed over can be counted.
LEMMA DeliveriesCount ==
    ASSUME PanelTypeOK, NEW n
    PROVE  IsFiniteSet(Deliveries(n)) /\ Cardinality(Deliveries(n)) \in Nat
<1>1. Len(sent) \in Nat
    BY LenProperties DEF PanelTypeOK
<1>2. IsFiniteSet(1..Len(sent))
    BY <1>1, FS_Interval
<1>3. Deliveries(n) \in SUBSET (1..Len(sent))
    BY DEF Deliveries
<1>4. IsFiniteSet(Deliveries(n))
    BY <1>2, <1>3, FS_Subset
<1> QED
    BY <1>4, FS_CardinalityType

\* The log has one row more of a kind only with a record of that kind, and then it
\* does if the record goes in whole after a line that was ended.
LEMMA LoggedAfter ==
    ASSUME PanelTypeOK, NEW rows, NEW row \in Rows, WriteRow(row) \/ CutRow(row)
    PROVE  LET more == IF row \in rows THEN 1 ELSE 0
           IN  /\ Cardinality(Logged(rows)') \in Nat
               /\ Cardinality(Logged(rows)') <= Cardinality(Logged(rows)) + more
               /\ WriteRow(row) /\ ended =>
                     Cardinality(Logged(rows)') = Cardinality(Logged(rows)) + more
<1>1. IsFiniteSet(Logged(rows)) /\ Cardinality(Logged(rows)) \in Nat
    BY Counts
<1>2. Logged(rows)' = {i \in Readable' : lines'[i][1].row \in rows}
    BY DEF Logged
<1>3. Logged(rows) = {i \in Readable : lines[i][1].row \in rows}
    BY DEF Logged
<1>4. CASE Gained(row)
    <2>1. PICK x : /\ x \notin Readable /\ Readable' = Readable \cup {x}
                   /\ lines'[x][1].row = row
                   /\ \A i \in Readable : lines'[i] = lines[i]
        BY <1>4 DEF Gained
    <2>2. CASE row \in rows
        <3>1. Logged(rows)' = Logged(rows) \cup {x} /\ x \notin Logged(rows)
            BY <1>2, <1>3, <2>1, <2>2
        <3>2. Cardinality(Logged(rows)') = Cardinality(Logged(rows)) + 1
            BY <1>1, <3>1, FS_AddElement
        <3> QED
            BY <1>1, <2>2, <3>2
    <2>3. CASE row \notin rows
        <3>1. Logged(rows)' = Logged(rows)
            BY <1>2, <1>3, <2>1, <2>3
        <3> QED
            BY <1>1, <2>3, <3>1
    <2> QED
        BY <2>2, <2>3
<1>5. CASE NotGained
    <2>1. Logged(rows)' \in SUBSET Logged(rows)
        BY <1>2, <1>3, <1>5 DEF NotGained
    <2>2. Cardinality(Logged(rows)') <= Cardinality(Logged(rows)) /\ Cardinality(Logged(rows)') \in Nat
        BY <1>1, <2>1, FS_Subset, FS_CardinalityType
    <2>3. CASE ~(WriteRow(row) /\ ended)
        BY <1>1, <2>2, <2>3
    <2>4. CASE WriteRow(row) /\ ended
        BY <1>4, <2>4, LogGains DEF PanelTypeOK
    <2> QED
        BY <2>3, <2>4
<1> QED
    BY <1>4, <1>5, LogGains DEF PanelTypeOK

\* A record of any kind, by a worker who has nothing to say after it: what is told
\* stays told, unless the write was cut.
LEMMA ToldRecord ==
    ASSUME PanelTypeOK, PlainLog, NEW rows,
           NEW row \in Rows, WriteRow(row) \/ CutRow(row),
           \/ row \notin rows /\ Untold(rows)' = Untold(rows)
           \/ row \in rows /\ \E w \in Untold(rows) : Untold(rows)' = Untold(rows) \ {w}
    PROVE  /\ Told(rows)' \in Nat /\ Told(rows)' <= Told(rows)
           /\ cuts' = 0 => cuts = 0 /\ Told(rows)' = Told(rows)
<1> DEFINE l == Cardinality(Logged(rows))
           u == Cardinality(Untold(rows))
           ll == Cardinality(Logged(rows)')
           uu == Cardinality(Untold(rows)')
           more == IF row \in rows THEN 1 ELSE 0
<1>1. l \in Nat /\ u \in Nat
    BY Counts
<1>2. ll \in Nat /\ ll <= l + more /\ (WriteRow(row) /\ ended => ll = l + more)
    BY LoggedAfter
<1>3. uu = u - more /\ uu \in Nat
    <2>1. CASE row \notin rows
        BY <1>1, <2>1
    <2>2. CASE row \in rows
        <3>1. PICK w \in Untold(rows) : Untold(rows)' = Untold(rows) \ {w}
            BY <2>2
        <3>2. IsFiniteSet(Untold(rows)')
            BY <3>1, Counts, FS_RemoveElement
        <3> QED
            BY <2>2, <3>1, <3>2, Counts, FS_RemoveElement, FS_CardinalityType
    <2> QED
        BY <2>1, <2>2
<1>4. more \in {0, 1}
    OBVIOUS
<1>5. cuts' = 0 => cuts = 0 /\ WriteRow(row) /\ ended
    <2>1. cuts \in Nat /\ (WriteRow(row) => cuts' = cuts) /\ (CutRow(row) => cuts' = cuts + 1)
        BY LogTypes DEF PanelTypeOK, LogTypeOK
    <2>2. cuts' = 0 => ~CutRow(row) /\ cuts = cuts'
        BY <2>1
    <2>3. cuts = 0 => ended
        BY DEF PlainLog
    <2> QED
        BY <2>2, <2>3
<1> HIDE DEF l, u, ll, uu, more
<1>6. ll + uu \in Nat /\ ll + uu <= l + u /\ (cuts' = 0 => cuts = 0 /\ ll + uu = l + u)
    BY <1>1, <1>2, <1>3, <1>4, <1>5
<1> QED
    BY <1>6 DEF Told, l, u, ll, uu

\* A crash takes what was yet to be said, the row that was being written perhaps.
LEMMA ToldCrash ==
    ASSUME PanelTypeOK, NEW rows, Crash, ReceiveRow \notin rows
    PROVE  Told(rows)' \in Nat /\ Told(rows)' <= Told(rows)
<1> DEFINE l == Cardinality(Logged(rows))
           u == Cardinality(Untold(rows))
           ll == Cardinality(Logged(rows)')
<1>1. l \in Nat /\ u \in Nat
    BY Counts
<1>2. Untold(rows)' = {}
    BY DEF Crash, Untold, Idle, PanelTypeOK
<1>3. Cardinality(Untold(rows)') = 0
    BY <1>2, FS_EmptySet
<1>4. ll \in Nat /\ ll <= l + u
    <2>1. CASE UNCHANGED logVars
        <3>1. Logged(rows)' = Logged(rows)
            BY <2>1 DEF logVars, Logged, Readable
        <3> QED
            BY <1>1, <3>1
    <2>2. ASSUME NEW row \in Due, CutRow(row)
          PROVE  ll \in Nat /\ ll <= l + u
        <3> DEFINE more == IF row \in rows THEN 1 ELSE 0
        <3>1. ll \in Nat /\ ll <= l + more
            BY <2>2, DueRows, LoggedAfter
        <3>2. row \in rows => u # 0
            <4>1. row \in rows => Untold(rows) # {}
                BY <2>2 DEF Due, Untold
            <4> QED
                BY <4>1, Counts, FS_EmptySet
        <3> HIDE DEF l, u, ll
        <3> QED
            BY <1>1, <3>1, <3>2
    <2> QED
        BY <2>1, <2>2 DEF Crash
<1> HIDE DEF l, u, ll
<1>5. ll + 0 \in Nat /\ ll + 0 <= l + u
    BY <1>1, <1>4
<1> QED
    BY <1>3, <1>5 DEF Told, l, u, ll

\* A worker comes to the end of a send: with a row of the kind, one more is told.
LEMMA ToldEnd ==
    ASSUME PanelTypeOK, NEW rows, UNCHANGED logVars, NEW w \in Workers,
           worker[w].at \notin {"sent", "failed"}, NEW where \in {"sent", "failed"}, NEW n,
           Worker(w, where, n)
    PROVE  LET row == IF where = "sent" THEN Row("send", n, Nothing, "ok") ELSE ErrorRow
           IN  Told(rows)' = Told(rows) + IF row \in rows THEN 1 ELSE 0
<1> DEFINE row == IF where = "sent" THEN Row("send", n, Nothing, "ok") ELSE ErrorRow
<1>1. Logged(rows)' = Logged(rows)
    BY DEF logVars, Logged, Readable
<1>2. w \notin Untold(rows)
    BY DEF Untold
<1>3. /\ worker'[w].at = where /\ worker'[w].n = n
      /\ \A v \in Workers : v # w => worker'[v] = worker[v]
    BY DEF Worker, PanelTypeOK, TypeOK
<1>4. SendRow(w)' = row
    BY <1>3 DEF SendRow, ErrorRow
<1>5. \A v \in Workers : v # w => SendRow(v)' = SendRow(v)
    BY <1>3 DEF SendRow
<1>6. Untold(rows)' = {v \in Workers : worker'[v].at \in {"sent", "failed"} /\ SendRow(v)' \in rows}
    BY DEF Untold
<1>7. Untold(rows) = {v \in Workers : worker[v].at \in {"sent", "failed"} /\ SendRow(v) \in rows}
    BY DEF Untold
<1> HIDE DEF row
<1>8. CASE row \in rows
    <2>1. Untold(rows)' = Untold(rows) \cup {w}
        BY <1>3, <1>4, <1>5, <1>6, <1>7, <1>8, Zenon
    <2>2. Cardinality(Untold(rows)') = Cardinality(Untold(rows)) + 1
        BY <1>2, <2>1, Counts, FS_AddElement
    <2> QED
        BY <1>1, <1>8, <2>2, Counts DEF Told, row
<1>9. CASE row \notin rows
    <2>1. Untold(rows)' = Untold(rows)
        BY <1>2, <1>3, <1>4, <1>5, <1>6, <1>7, <1>9, Zenon
    <2> QED
        BY <1>1, <1>9, <2>1, Counts DEF Told, row
<1> QED
    BY <1>8, <1>9

\* Nothing is said by a step that leaves the log and whoever has something to say.
LEMMA ToldKept ==
    ASSUME NEW rows, UNCHANGED logVars, Untold(rows)' = Untold(rows)
    PROVE  Told(rows)' = Told(rows)
BY DEF Told, Logged, Readable, logVars

\* Which rows are of which kind.
LEMMA KindOfRow ==
    ASSUME NEW sizes, NEW n
    PROVE  /\ Row("send", n, Nothing, "ok") \in OkRows(sizes) <=> n \in sizes
           /\ Row("send", n, Nothing, "ok") # ErrorRow
           /\ ErrorRow \notin OkRows(sizes)
           /\ ReceiveRow \notin OkRows(sizes) /\ ReceiveRow # ErrorRow
<1>1. ASSUME NEW m, Row("send", n, Nothing, "ok") = Row("send", m, Nothing, "ok") PROVE n = m
    <2>1. Row("send", n, Nothing, "ok").n = n /\ Row("send", m, Nothing, "ok").n = m
        BY DEF Row
    <2> QED
        BY <1>1, <2>1
<1>2. \A m : Row("send", m, Nothing, "ok").result = "ok" /\ Row("send", m, Nothing, "ok").direction = "send"
    BY DEF Row
<1>3. ErrorRow.result = "error" /\ ErrorRow.direction = "send" /\ ReceiveRow.direction = "receive"
    BY DEF ErrorRow, Row, ReceiveRow
<1> QED
    BY <1>1, <1>2, <1>3 DEF OkRows

\* What the log, the workers and the errors account for.
Said == Told(OkRows(Sizes)) + Cardinality(Handed) + unsaid

\* LogTellsWhatWasSent.
Balance ==
    /\ transport # "focas" =>
          \A n \in Sizes : Told(OkRows({n})) <= Cardinality(Deliveries(n))
    /\ Said <= Len(sent)
    /\ cuts = 0 /\ crashes = 0 => Said = Len(sent) /\ unsaid <= Told({ErrorRow})

\* Nobody says more, and nobody hands anything over.
LEMMA BalanceKept ==
    ASSUME PanelTypeOK, Balance, UNCHANGED <<transport, sent, unsaid>>,
           Cardinality(Handed') \in Nat, Cardinality(Handed') <= Cardinality(Handed),
           \A rows : ReceiveRow \notin rows => Told(rows)' \in Nat /\ Told(rows)' <= Told(rows),
           cuts' = 0 /\ crashes' = 0 =>
              /\ cuts = 0 /\ crashes = 0 /\ Handed' = Handed
              /\ \A rows : ReceiveRow \notin rows => Told(rows)' = Told(rows)
    PROVE  Balance'
<1>1. /\ Told(OkRows(Sizes)) \in Nat /\ Cardinality(Handed) \in Nat /\ unsaid \in Nat
      /\ Len(sent) \in Nat
    BY Counts, LenProperties DEF PanelTypeOK, TypeOK
<1>2. ReceiveRow \notin OkRows(Sizes) /\ ReceiveRow \notin {ErrorRow}
      /\ \A n : ReceiveRow \notin OkRows({n})
    BY KindOfRow
<1>3. ASSUME transport' # "focas", NEW n \in Sizes
      PROVE  Told(OkRows({n}))' <= Cardinality(Deliveries(n)')
    <2>1. Deliveries(n)' = Deliveries(n)
        BY DEF Deliveries
    <2>2. Told(OkRows({n}))' \in Nat /\ Told(OkRows({n}))' <= Told(OkRows({n}))
        BY <1>2
    <2>3. Told(OkRows({n})) <= Cardinality(Deliveries(n))
        BY <1>3 DEF Balance
    <2> QED
        BY <2>1, <2>2, <2>3, Counts, DeliveriesCount
<1>4. Told(OkRows(Sizes))' \in Nat /\ Told(OkRows(Sizes))' <= Told(OkRows(Sizes))
    BY <1>2
<1>5. Said' <= Len(sent')
    BY <1>1, <1>4 DEF Balance, Said
<1>6. cuts' = 0 /\ crashes' = 0 =>
         /\ Told(OkRows(Sizes))' = Told(OkRows(Sizes)) /\ Told({ErrorRow})' = Told({ErrorRow})
         /\ Handed' = Handed /\ cuts = 0 /\ crashes = 0
    BY <1>2
<1>7. cuts' = 0 /\ crashes' = 0 => Said' = Len(sent') /\ unsaid' <= Told({ErrorRow})'
    BY <1>6 DEF Balance, Said
<1> QED
    BY <1>3, <1>5, <1>7 DEF Balance

\* One program more was handed over.
LEMMA DeliveriesAfter ==
    ASSUME PanelTypeOK, NEW p \in Queued, sent' = Append(sent, p), NEW n
    PROVE  /\ Len(sent') = Len(sent) + 1 /\ Len(sent) \in Nat
           /\ Cardinality(Deliveries(n)') = Cardinality(Deliveries(n)) + IF n = Size[p] THEN 1 ELSE 0
<1> DEFINE k == Len(sent)
<1>1. /\ k \in Nat /\ Len(sent') = k + 1 /\ sent'[k + 1] = p
      /\ \A i \in 1..k : sent'[i] = sent[i]
    BY LenProperties, AppendProperties DEF PanelTypeOK
<1>2. Deliveries(n) = {i \in 1..k : Size[sent[i]] = n} /\ Deliveries(n)' = {i \in 1..k + 1 : Size[sent'[i]] = n}
    BY <1>1 DEF Deliveries
<1> HIDE DEF k
<1>3. (\A i : i \in 1..k + 1 <=> i \in 1..k \/ i = k + 1) /\ k + 1 \notin 1..k
    BY <1>1
<1>4. CASE n = Size[p]
    <2>1. Deliveries(n)' = Deliveries(n) \cup {k + 1} /\ k + 1 \notin Deliveries(n)
        BY <1>1, <1>2, <1>3, <1>4
    <2> QED
        BY <1>1, <1>4, <2>1, DeliveriesCount, FS_AddElement DEF k
<1>5. CASE n # Size[p]
    <2>1. Deliveries(n)' = Deliveries(n)
        BY <1>1, <1>2, <1>3, <1>5
    <2> QED
        BY <1>1, <1>5, <2>1, DeliveriesCount DEF k
<1> QED
    BY <1>4, <1>5

\* Who has been told to wait for the size.
LEMMA HandedAfter ==
    ASSUME PanelTypeOK, NEW w \in Workers, NEW where, NEW n, Worker(w, where, n)
    PROVE  Handed' = IF where = "handed" THEN Handed \cup {w} ELSE Handed \ {w}
<1>1. worker'[w].at = where /\ \A v \in Workers : v # w => worker'[v] = worker[v]
    BY DEF Worker, PanelTypeOK, TypeOK
<1>2. Handed' = {v \in Workers : worker'[v].at = "handed"}
    BY DEF Handed
<1> QED
    BY <1>1, <1>2 DEF Handed

\* The queued program is handed over, or is not.
LEMMA BalanceSend ==
    ASSUME PanelTypeOK, Balance, NEW w \in Workers, Send(w)
    PROVE  Balance'
<1>1. /\ UNCHANGED <<transport, cuts, crashes, logVars>>
      /\ worker[w].at = "sending" /\ w \notin Handed
    BY DEF Send, WorkerOnly, logVars, Handed
<1>2. /\ Told(OkRows(Sizes)) \in Nat /\ Cardinality(Handed) \in Nat /\ unsaid \in Nat
      /\ Told({ErrorRow}) \in Nat /\ Len(sent) \in Nat
      /\ \A n : Told(OkRows({n})) \in Nat
    BY Counts, LenProperties DEF PanelTypeOK, TypeOK
<1>3. CASE HandOver(w)
    <2>1. queue \in Queued /\ Size[queue] \in Sizes /\ sent' = Append(sent, queue)
        BY <1>3, SizeFacts DEF HandOver, PanelTypeOK, TypeOK
    <2>2. Len(sent') = Len(sent) + 1
        BY <2>1, DeliveriesAfter
    <2>3. \A n : /\ Cardinality(Deliveries(n)') \in Nat /\ Cardinality(Deliveries(n)) \in Nat
                 /\ Cardinality(Deliveries(n)') =
                       Cardinality(Deliveries(n)) + IF n = Size[queue] THEN 1 ELSE 0
        BY <2>1, DeliveriesAfter, DeliveriesCount
    <2>4. CASE transport = "focas" /\ Worker(w, "handed", Nothing) /\ UNCHANGED unsaid
        <3>1. \A rows : Told(rows)' = Told(rows)
            <4> SUFFICES ASSUME NEW rows PROVE Told(rows)' = Told(rows)
                OBVIOUS
            <4>1. \A v \in Workers : v # w => worker'[v] = worker[v]
                BY <2>4 DEF Worker, PanelTypeOK, TypeOK
            <4>2. worker'[w].at = "handed"
                BY <2>4 DEF Worker, PanelTypeOK, TypeOK
            <4>3. Untold(rows)' = Untold(rows)
                BY <1>1, <4>1, <4>2 DEF Untold, SendRow
            <4> QED
                BY <1>1, <4>3, ToldKept
        <3>2. Cardinality(Handed') = Cardinality(Handed) + 1
            <4>1. Handed' = Handed \cup {w}
                BY <2>4, HandedAfter
            <4> QED
                BY <1>1, <4>1, Counts, FS_AddElement
        <3> QED
            BY <1>1, <1>2, <2>2, <2>4, <3>1, <3>2 DEF Balance, Said
    <2>5. CASE transport # "focas" /\ Worker(w, "sent", Size[queue]) /\ UNCHANGED unsaid
        <3>1. /\ Told(OkRows(Sizes))' = Told(OkRows(Sizes)) + 1
              /\ Told({ErrorRow})' = Told({ErrorRow})
              /\ \A n : Told(OkRows({n}))' = Told(OkRows({n})) + IF n = Size[queue] THEN 1 ELSE 0
            <4> DEFINE row == Row("send", Size[queue], Nothing, "ok")
            <4>1. \A rows : Told(rows)' = Told(rows) + IF row \in rows THEN 1 ELSE 0
                BY <1>1, <2>5, ToldEnd
            <4>2. row \in OkRows(Sizes) /\ row \notin {ErrorRow}
                BY <2>1, KindOfRow
            <4>3. \A n : row \in OkRows({n}) <=> n = Size[queue]
                BY KindOfRow
            <4> HIDE DEF row
            <4> QED
                BY <1>2, <4>1, <4>2, <4>3
        <3>2. Handed' = Handed
            BY <1>1, <2>5, HandedAfter
        <3>3. Said' = Said + 1
            BY <1>2, <2>5, <3>1, <3>2 DEF Said
        <3>4. Said \in Nat
            BY <1>2 DEF Said
        <3>5. ASSUME transport' # "focas", NEW n \in Sizes
              PROVE  Told(OkRows({n}))' <= Cardinality(Deliveries(n)')
            <4>1. Told(OkRows({n})) <= Cardinality(Deliveries(n))
                BY <1>1, <3>5 DEF Balance
            <4> QED
                <5>1. /\ Told(OkRows({n})) \in Nat /\ Cardinality(Deliveries(n)) \in Nat
                      /\ Cardinality(Deliveries(n)') \in Nat
                    BY <1>2, <2>3
                <5> DEFINE more == IF n = Size[queue] THEN 1 ELSE 0
                <5>2. Told(OkRows({n}))' = Told(OkRows({n})) + more
                    BY <3>1
                <5>3. Cardinality(Deliveries(n)') = Cardinality(Deliveries(n)) + more
                    BY <2>3
                <5>4. more \in Nat
                    OBVIOUS
                <5> HIDE DEF more
                <5> QED
                    BY <4>1, <5>1, <5>2, <5>3, <5>4
        <3>6. Said' <= Len(sent')
            BY <1>2, <2>2, <2>5, <3>1, <3>3, <3>4 DEF Balance
        <3>7. cuts' = 0 /\ crashes' = 0 => Said' = Len(sent') /\ unsaid' <= Told({ErrorRow})'
            BY <1>1, <1>2, <2>2, <2>5, <3>1, <3>3, <3>4 DEF Balance
        <3> QED
            BY <3>5, <3>6, <3>7 DEF Balance
    <2>6. CASE Worker(w, "failed", Nothing) /\ unsaid' = unsaid + 1
        <3>1. /\ Told(OkRows(Sizes))' = Told(OkRows(Sizes))
              /\ Told({ErrorRow})' = Told({ErrorRow}) + 1
              /\ \A n : Told(OkRows({n}))' = Told(OkRows({n}))
            <4>1. \A rows : Told(rows)' = Told(rows) + IF ErrorRow \in rows THEN 1 ELSE 0
                BY <1>1, <2>6, ToldEnd
            <4>2. /\ ErrorRow \notin OkRows(Sizes) /\ ErrorRow \in {ErrorRow}
                  /\ \A n : ErrorRow \notin OkRows({n})
                BY KindOfRow
            <4>3. Told({ErrorRow})' = Told({ErrorRow}) + 1
                BY <4>1, <4>2
            <4>4. Told(OkRows(Sizes))' = Told(OkRows(Sizes)) + 0
                BY <4>1, <4>2
            <4>5. ASSUME NEW n PROVE Told(OkRows({n}))' = Told(OkRows({n}))
                <5>1. Told(OkRows({n}))' = Told(OkRows({n})) + 0
                    BY <4>1, <4>2
                <5>2. Told(OkRows({n})) \in Nat
                    BY <1>2
                <5> QED
                    BY <5>1, <5>2
            <4>6. Told(OkRows(Sizes))' = Told(OkRows(Sizes))
                BY <1>2, <4>4
            <4> QED
                BY <4>3, <4>5, <4>6
        <3>2. Handed' = Handed
            BY <1>1, <2>6, HandedAfter
        <3>3. Said' = Said + 1
            BY <1>2, <2>6, <3>1, <3>2 DEF Said
        <3>4. Said \in Nat
            BY <1>2 DEF Said
        <3>5. ASSUME transport' # "focas", NEW n \in Sizes
              PROVE  Told(OkRows({n}))' <= Cardinality(Deliveries(n)')
            <4>1. Told(OkRows({n})) <= Cardinality(Deliveries(n))
                BY <1>1, <3>5 DEF Balance
            <4> QED
                <5>1. /\ Told(OkRows({n})) \in Nat /\ Cardinality(Deliveries(n)) \in Nat
                      /\ Cardinality(Deliveries(n)') \in Nat
                    BY <1>2, <2>3
                <5> DEFINE more == IF n = Size[queue] THEN 1 ELSE 0
                <5>2. Told(OkRows({n}))' = Told(OkRows({n}))
                    BY <3>1
                <5>3. Cardinality(Deliveries(n)') = Cardinality(Deliveries(n)) + more
                    BY <2>3
                <5>4. more \in Nat
                    OBVIOUS
                <5> HIDE DEF more
                <5> QED
                    BY <4>1, <5>1, <5>2, <5>3, <5>4
        <3>6. Said' <= Len(sent')
            BY <1>2, <2>2, <2>6, <3>1, <3>3, <3>4 DEF Balance
        <3>7. cuts' = 0 /\ crashes' = 0 => Said' = Len(sent') /\ unsaid' <= Told({ErrorRow})'
            BY <1>1, <1>2, <2>2, <2>6, <3>1, <3>3, <3>4 DEF Balance
        <3> QED
            BY <3>5, <3>6, <3>7 DEF Balance
    <2> QED
        BY <1>3, <2>4, <2>5, <2>6 DEF HandOver
<1>4. CASE Worker(w, "failed", Nothing) /\ UNCHANGED <<sent, unsaid>>
    <2>1. /\ Told(OkRows(Sizes))' = Told(OkRows(Sizes))
          /\ Told({ErrorRow})' = Told({ErrorRow}) + 1
          /\ \A n : Told(OkRows({n}))' = Told(OkRows({n}))
        <3>1. \A rows : Told(rows)' = Told(rows) + IF ErrorRow \in rows THEN 1 ELSE 0
            BY <1>1, <1>4, ToldEnd
        <3>2. /\ ErrorRow \notin OkRows(Sizes) /\ ErrorRow \in {ErrorRow}
              /\ \A n : ErrorRow \notin OkRows({n})
            BY KindOfRow
        <3>3. Told({ErrorRow})' = Told({ErrorRow}) + 1
            BY <3>1, <3>2
        <3>4. Told(OkRows(Sizes))' = Told(OkRows(Sizes)) + 0
            BY <3>1, <3>2
        <3>5. ASSUME NEW n PROVE Told(OkRows({n}))' = Told(OkRows({n}))
            <4>1. Told(OkRows({n}))' = Told(OkRows({n})) + 0
                BY <3>1, <3>2
            <4>2. Told(OkRows({n})) \in Nat
                BY <1>2
            <4> QED
                BY <4>1, <4>2
        <3>6. Told(OkRows(Sizes))' = Told(OkRows(Sizes))
            BY <1>2, <3>4
        <3> QED
            BY <3>3, <3>5, <3>6
    <2>2. Handed' = Handed
        BY <1>1, <1>4, HandedAfter
    <2>3. Said' = Said
        BY <1>4, <2>1, <2>2 DEF Said
    <2>4. \A n : Deliveries(n)' = Deliveries(n)
        BY <1>4 DEF Deliveries
    <2>5. ASSUME transport' # "focas", NEW n \in Sizes
          PROVE  Told(OkRows({n}))' <= Cardinality(Deliveries(n)')
        <3>1. Told(OkRows({n})) <= Cardinality(Deliveries(n))
            BY <1>1, <2>5 DEF Balance
        <3> QED
            BY <1>2, <3>1, <2>1, <2>4
    <2>6. Said' <= Len(sent')
        BY <1>2, <1>4, <2>1, <2>3 DEF Balance
    <2>7. cuts' = 0 /\ crashes' = 0 => Said' = Len(sent') /\ unsaid' <= Told({ErrorRow})'
        BY <1>1, <1>2, <1>4, <2>1, <2>3 DEF Balance
    <2> QED
        BY <2>5, <2>6, <2>7 DEF Balance
<1> QED
    BY <1>3, <1>4 DEF Send

\* The size of what is queued by then is got, or there is none.
LEMMA BalanceGetSize ==
    ASSUME PanelTypeOK, Balance, NEW w \in Workers, GetSize(w)
    PROVE  Balance'
<1>1. /\ UNCHANGED <<transport, sent, cuts, crashes, logVars>>
      /\ worker[w].at = "handed" /\ w \in Handed /\ transport = "focas"
    BY DEF GetSize, WorkerOnly, logVars, Handed, PanelTypeOK
<1>2. /\ Told(OkRows(Sizes)) \in Nat /\ Cardinality(Handed) \in Nat /\ unsaid \in Nat
      /\ Told({ErrorRow}) \in Nat /\ Len(sent) \in Nat
    BY Counts, LenProperties DEF PanelTypeOK, TypeOK
<1>3. Cardinality(Handed') = Cardinality(Handed) - 1
    <2>1. Handed' = Handed \ {w}
        BY HandedAfter DEF GetSize
    <2> QED
        BY <1>1, <2>1, Counts, FS_RemoveElement
<1>4. CASE queue # Nothing /\ Worker(w, "sent", Size[queue]) /\ UNCHANGED unsaid
    <2> DEFINE row == Row("send", Size[queue], Nothing, "ok")
    <2>1. \A rows : Told(rows)' = Told(rows) + IF row \in rows THEN 1 ELSE 0
        BY <1>1, <1>4, ToldEnd
    <2>2. row \in OkRows(Sizes) /\ row \notin {ErrorRow}
        <3>1. Size[queue] \in Sizes
            BY <1>4, SizeFacts DEF PanelTypeOK, TypeOK
        <3> QED
            BY <3>1, KindOfRow
    <2> HIDE DEF row
    <2>3. Told(OkRows(Sizes))' = Told(OkRows(Sizes)) + 1 /\ Told({ErrorRow})' = Told({ErrorRow})
        BY <1>2, <2>1, <2>2
    <2> QED
        BY <1>1, <1>2, <1>3, <1>4, <2>3 DEF Balance, Said
<1>5. CASE queue = Nothing /\ Worker(w, "failed", Nothing) /\ unsaid' = unsaid + 1
    <2>1. \A rows : Told(rows)' = Told(rows) + IF ErrorRow \in rows THEN 1 ELSE 0
        BY <1>1, <1>5, ToldEnd
    <2>2. Told(OkRows(Sizes))' = Told(OkRows(Sizes)) /\ Told({ErrorRow})' = Told({ErrorRow}) + 1
        BY <1>2, <2>1, KindOfRow
    <2> QED
        BY <1>1, <1>2, <1>3, <1>5, <2>2 DEF Balance, Said
<1> QED
    BY <1>4, <1>5 DEF GetSize

\* Every step keeps the balance.
LEMMA BalanceStep ==
    ASSUME PanelTypeOK, PlainLog, Balance, [Next]_vars
    PROVE  Balance'
<1>1. \A rows : Told(rows) \in Nat /\ Cardinality(Handed) \in Nat
    BY Counts
<1>2. ASSUME UNCHANGED <<transport, sent, unsaid, crashes, logVars>>, Handed' = Handed,
             \A rows : Untold(rows)' = Untold(rows)
      PROVE  Balance'
    <2>1. \A rows : Told(rows)' = Told(rows)
        BY <1>2, ToldKept
    <2>2. cuts' = cuts
        BY <1>2 DEF logVars
    <2> QED
        BY <1>1, <1>2, <2>1, <2>2, BalanceKept
<1>3. ASSUME UNCHANGED worker
      PROVE  Handed' = Handed /\ \A rows : Untold(rows)' = Untold(rows)
    BY <1>3 DEF Handed, Untold, SendRow
<1>4. CASE UNCHANGED vars \/ Replace \/ Tick \/ Arrive \/ Save \/ ListenAgain
    <2>1. UNCHANGED <<transport, sent, unsaid, crashes, logVars, worker>>
        BY <1>4 DEF vars, panelVars, Replace, Tick, Arrive, Save, ListenAgain, ListenerOnly
    <2> QED
        BY <1>2, <1>3, <2>1
<1>5. CASE Crash
    <2>1. UNCHANGED <<transport, sent, unsaid>> /\ crashes' # 0
        BY <1>5 DEF Crash, PanelTypeOK
    <2>2. Cardinality(Handed') = 0
        <3>1. Handed' = {}
            BY <1>5 DEF Crash, Handed, Idle
        <3> QED
            BY <3>1, FS_EmptySet
    <2>3. \A rows : ReceiveRow \notin rows => Told(rows)' \in Nat /\ Told(rows)' <= Told(rows)
        BY <1>5, ToldCrash
    <2>4. Cardinality(Handed') \in Nat /\ Cardinality(Handed') <= Cardinality(Handed)
        BY <1>1, <2>2
    <2> QED
        BY <2>1, <2>3, <2>4, BalanceKept
<1>6. ASSUME NEW row \in Rows, WriteRow(row) \/ CutRow(row), UNCHANGED <<transport, sent, unsaid, crashes>>,
             Handed' = Handed,
             \A rows : ReceiveRow \notin rows =>
                \/ row \notin rows /\ Untold(rows)' = Untold(rows)
                \/ row \in rows /\ \E w \in Untold(rows) : Untold(rows)' = Untold(rows) \ {w}
      PROVE  Balance'
    <2>1. \A rows : ReceiveRow \notin rows =>
             /\ Told(rows)' \in Nat /\ Told(rows)' <= Told(rows)
             /\ cuts' = 0 => cuts = 0 /\ Told(rows)' = Told(rows)
        BY <1>6, ToldRecord
    <2>2. cuts' = 0 => cuts = 0
        <3>1. ReceiveRow \notin {}
            OBVIOUS
        <3> QED
            BY <2>1, <3>1
    <2> QED
        BY <1>1, <1>6, <2>1, <2>2, BalanceKept
<1>7. CASE RecordReceived \/ RecordError
    <2>1. UNCHANGED <<transport, sent, unsaid, crashes, worker>>
        BY <1>7 DEF RecordReceived, RecordError, ListenerOnly
    <2>2. WriteRow(ReceiveRow) \/ CutRow(ReceiveRow)
        BY <1>7 DEF RecordReceived, RecordError, Record
    <2> QED
        BY <1>3, <1>6, <2>1, <2>2, DueRows
<1>8. ASSUME NEW w \in Workers, WorkerStep(w)
      PROVE  Balance'
    <2>1. CASE Press(w)
        <3>1. UNCHANGED <<transport, sent, unsaid, crashes, logVars>>
            BY <2>1 DEF Press, WorkerOnly
        <3>2. CASE UNCHANGED worker
            BY <1>2, <1>3, <3>1, <3>2
        <3>3. CASE Worker(w, "sending", Nothing)
            <4>1. worker[w].at = "idle" /\ w \notin Handed
                BY <2>1 DEF Press, Handed
            <4>2. worker'[w].at = "sending" /\ \A v \in Workers : v # w => worker'[v] = worker[v]
                BY <3>3 DEF Worker, PanelTypeOK, TypeOK
            <4>3. \A rows : Untold(rows)' = Untold(rows)
                BY <4>1, <4>2 DEF Untold, SendRow
            <4>4. Handed' = Handed
                BY <3>3, <4>1, HandedAfter
            <4> QED
                BY <1>2, <3>1, <4>3, <4>4
        <3> QED
            BY <2>1, <3>2, <3>3 DEF Press
    <2>2. CASE Send(w)
        BY <2>2, BalanceSend
    <2>3. CASE GetSize(w)
        BY <2>3, BalanceGetSize
    <2>4. CASE RecordSend(w)
        <3>1. /\ UNCHANGED <<transport, sent, unsaid, crashes>>
              /\ worker[w].at \in {"sent", "failed"} /\ Worker(w, "idle", Nothing)
            BY <2>4 DEF RecordSend, WorkerOnly
        <3>2. WriteRow(SendRow(w)) \/ CutRow(SendRow(w))
            BY <2>4 DEF RecordSend, Record
        <3>3. worker'[w].at = "idle" /\ \A v \in Workers : v # w => worker'[v] = worker[v]
            BY <3>1 DEF Worker, PanelTypeOK, TypeOK
        <3>4. \A rows : Untold(rows)' = Untold(rows) \ {w}
            BY <3>3 DEF Untold, SendRow
        <3>5. \A rows : SendRow(w) \in rows <=> w \in Untold(rows)
            BY <3>1 DEF Untold
        <3>6. Handed' = Handed
            <4>1. Handed' = Handed \ {w} /\ w \notin Handed
                BY <3>1, HandedAfter DEF Handed
            <4> QED
                BY <4>1
        <3>7. \A rows : w \notin Untold(rows) => Untold(rows)' = Untold(rows)
            BY <3>4
        <3> QED
            BY <1>6, <3>1, <3>2, <3>4, <3>5, <3>6, <3>7, DueRows
    <2> QED
        BY <1>8, <2>1, <2>2, <2>3, <2>4 DEF WorkerStep
<1> QED
    BY <1>4, <1>5, <1>7, <1>8 DEF Next, Handling

\* Nothing is said, and nothing was sent.
LEMMA BalanceInit == Init => Balance
<1> SUFFICES ASSUME Init PROVE Balance
    OBVIOUS
<1>1. lines = <<>> /\ sent = <<>> /\ Len(<<>>) = 0 /\ unsaid = 0
    BY DEF Init, LogInit
<1>2. \A rows : Told(rows) = 0
    <2> SUFFICES ASSUME NEW rows PROVE Told(rows) = 0
        OBVIOUS
    <2>1. Logged(rows) = {} /\ Untold(rows) = {}
        BY <1>1 DEF Init, Logged, Readable, Untold, Idle
    <2> QED
        BY <2>1, FS_EmptySet DEF Told
<1>3. Cardinality(Handed) = 0
    <2>1. Handed = {}
        BY DEF Init, Idle, Handed
    <2> QED
        BY <2>1, FS_EmptySet
<1>4. \A n \in Sizes : Cardinality(Deliveries(n)) = 0
    <2>1. \A n \in Sizes : Deliveries(n) = {}
        BY <1>1 DEF Deliveries
    <2> QED
        BY <2>1, FS_EmptySet
<1> QED
    BY <1>1, <1>2, <1>3, <1>4 DEF Balance, Said

-----------------------------------------------------------------------------
(* The theorems.                                                             *)

\* What every step keeps.
PInv ==
    /\ PanelTypeOK
    /\ CutsCost /\ PlainLog
    /\ ReceivedInv
    /\ Balance

LEMMA PInvInit == Init => PInv
<1> SUFFICES ASSUME Init PROVE PInv
    OBVIOUS
<1>1. lines = <<>> /\ ended = TRUE /\ records = <<>> /\ cuts = 0 /\ Len(<<>>) = 0
    BY DEF Init, LogInit
<1>2. CutsCost
    <2>1. Readable = {}
        BY <1>1 DEF Readable
    <2>2. Cardinality(Readable) = 0
        BY <2>1, FS_EmptySet
    <2> QED
        BY <1>1, <2>2 DEF CutsCost
<1>3. PlainLog
    BY <1>1 DEF PlainLog
<1> QED
    BY <1>2, <1>3, TypesInit, ReceivedInit, BalanceInit DEF PInv

LEMMA PInvStep == PInv /\ [Next]_vars => PInv'
<1> SUFFICES ASSUME PInv, [Next]_vars PROVE PInv'
    OBVIOUS
<1>1. PanelTypeOK /\ LogTypeOK /\ CutsCost /\ PlainLog
    BY DEF PInv, PanelTypeOK
<1>2. CASE UNCHANGED logVars
    <2>1. CutsCost' /\ PlainLog'
        BY <1>1, <1>2 DEF CutsCost, PlainLog, Readable, logVars
    <2> QED
        BY <1>1, <2>1, TypesStep, ReceivedStep, BalanceStep DEF PInv
<1>3. CASE \E row \in Rows : WriteRow(row) \/ CutRow(row)
    <2>1. CutsCost' /\ PlainLog'
        BY <1>1, <1>3, CutsCostStep, PlainLogStep
    <2> QED
        BY <1>1, <2>1, TypesStep, ReceivedStep, BalanceStep DEF PInv
<1> QED
    BY <1>1, <1>2, <1>3, LogChanges DEF vars

\* The panel's types, what its threads have in hand, and the rest of the
\* inductive invariant, in every state of dnc_web.py and transfer_log.py.
THEOREM PanelInvariance == Spec => []PInv
BY PInvInit, PInvStep, PTL DEF Spec

\* The variables have their types, and no line of the log is without text.
THEOREM PanelTypeCorrect == Spec => []TypeOK
<1>1. PInv => TypeOK
    BY DEF PInv, PanelTypeOK
<1> QED
    BY <1>1, PanelInvariance, PTL

\* "Was the program sent?"  However many threads send, whatever is put in the
\* queue meanwhile and however often the power goes, the log says a program was
\* sent at most as often as one was handed over, and, but for FOCAS, of its size;
\* without a cut write or a crash, each that was handed over is there as sent, or
\* its send raised after that and is there as an error (send_queued(), record()).
THEOREM LogTruth == Spec => []LogTellsWhatWasSent
<1>1. PInv => LogTellsWhatWasSent
    BY DEF PInv, Balance, Said, LogTellsWhatWasSent
<1> QED
    BY <1>1, PanelInvariance, PTL

\* on_program_received() takes the name before it writes the file and the log
\* gets that name: what the log names is there and as long as the log says, until a
\* second has two.
THEOREM ReceivedFiles == Spec => []ReceivedIsKept
<1>1. PInv => ReceivedIsKept
    BY DEF PInv, ReceivedInv
<1> QED
    BY <1>1, PanelInvariance, PTL

\* tail() of a log without cuts: the newest records, newest first, for any number
\* of records and whether or not the header is within reach.
THEOREM PageTruth == Spec => []TailIsNewest
<1>1. PInv => TailIsNewest
    BY PageIsNewest DEF PInv, PanelTypeOK
<1> QED
    BY <1>1, PanelInvariance, PTL

\* Any number of cuts, at any point of a record: two records for each.
THEOREM CutsBounded == Spec => []CutCostsTwo
<1>1. PInv => CutCostsTwo
    <2> SUFFICES ASSUME PInv PROVE CutCostsTwo
        OBVIOUS
    <2>1. LogTypeOK /\ CutsCost
        BY DEF PInv, PanelTypeOK
    <2>2. Cardinality(Readable) \in Nat /\ Len(records) \in Nat /\ cuts \in Nat /\ ended \in BOOLEAN
        BY <2>1, ReadableIsFinite, LenProperties DEF LogTypeOK
    <2> QED
        BY <2>1, <2>2 DEF CutsCost, CutCostsTwo
<1> QED
    BY <1>1, PanelInvariance, PTL

=============================================================================
