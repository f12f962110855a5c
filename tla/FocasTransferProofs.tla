-------------------------- MODULE FocasTransferProofs --------------------------
(***************************************************************************)
(* For any number of threads, any programs, chunk sizes and failures: the  *)
(* FOCAS transport keeps its types and its lock, loses and doubles no      *)
(* handle, ends every transfer it starts, and what a fetch returns is the  *)
(* program from its beginning.                                             *)
(***************************************************************************)
EXTENDS FocasTransfer, NaturalLemmas

USE DEF Inside, Places

-----------------------------------------------------------------------------
(* Texts.                                                                    *)

\* A bounded set of positions has a last one, or is empty.
LEMMA LastExists ==
    ASSUME NEW k \in Nat, NEW S \in SUBSET (1..k)
    PROVE  \E n \in 0..k : (n = 0 \/ n \in S) /\ \A i \in S : i <= n
<1> DEFINE B == {n \in Nat : \A i \in S : i <= n}
<1>1. k \in B /\ B \subseteq Nat
    OBVIOUS
<1>2. IsWellFoundedOn(OpToRel(<, Nat), Nat)
    BY NatLessThanWellFounded
<1>3. PICK n \in B : \A m \in B : <<m, n>> \notin OpToRel(<, Nat)
    BY <1>1, <1>2, WFMin
<1>4. \A m \in B : ~(m < n)
    BY <1>1, <1>3 DEF OpToRel
<1>5. n \in 0..k /\ \A i \in S : i <= n
    BY <1>1, <1>4
<1>6. n = 0 \/ n \in S
    <2> SUFFICES ASSUME n # 0, n \notin S PROVE FALSE
        OBVIOUS
    <2>1. n - 1 \in Nat /\ \A i \in S : i <= n - 1
        BY <1>5
    <2>2. n - 1 \in B /\ n - 1 < n
        BY <2>1, <1>5
    <2> QED
        BY <1>4, <2>2
<1> QED
    BY <1>5, <1>6

\* rstrip() keeps a beginning of its text.
LEMMA RStripType ==
    ASSUME NEW s \in Seq(Byte)
    PROVE  RStrip(s) \in Seq(Byte)
<1> DEFINE Last(n) == (n = 0 \/ n \in Solid(s)) /\ \A i \in Solid(s) : i <= n
           last == CHOOSE n \in 0..Len(s) : Last(n)
<1>1. Len(s) \in Nat /\ \A i \in 1..Len(s) : s[i] \in Byte
    BY LenProperties, ElementOfSeq
<1>2. Solid(s) \in SUBSET (1..Len(s))
    BY DEF Solid
<1>3. \E n \in 0..Len(s) : Last(n)
    BY <1>1, <1>2, LastExists
<1>4. last \in 0..Len(s)
    BY <1>3
<1>5. SubSeq(s, 1, last) \in Seq(Byte)
    <2> HIDE DEF last
    <2>1. last \in Int /\ \A i \in 1..last : s[i] \in Byte
        BY <1>1, <1>4
    <2> QED
        BY <2>1, SubSeqProperties
<1> QED
    BY <1>5 DEF RStrip

\* The wrapping makes a text of a text.
LEMMA WrappedType ==
    ASSUME NEW s \in Seq(Byte)
    PROVE  Wrapped(s) \in Seq(Byte)
<1>1. <<Mark, Blank>> \in Seq(Byte) /\ <<Blank, Mark, Blank>> \in Seq(Byte)
    BY TextAssumption
<1>2. Opened(s) \in Seq(Byte)
    BY <1>1, ConcatProperties DEF Opened
<1>3. RStrip(Opened(s)) \o <<Blank, Mark, Blank>> \in Seq(Byte)
    BY <1>1, <1>2, RStripType, ConcatProperties
<1> QED
    BY <1>2, <1>3 DEF Wrapped

\* A text that ends with a mark still does behind another text.
LEMMA EndsTapeConcat ==
    ASSUME NEW s \in Seq(Byte), NEW t \in Seq(Byte), EndsTape(t)
    PROVE  EndsTape(s \o t)
<1>1. Len(s) \in Nat /\ Len(t) \in Nat
    BY LenProperties
<1>2. /\ Len(s \o t) = Len(s) + Len(t)
      /\ \A i \in 1..Len(s) + Len(t) :
            (s \o t)[i] = IF i <= Len(s) THEN s[i] ELSE t[i - Len(s)]
    BY ConcatProperties
<1>3. PICK i \in Solid(t) : t[i] = Mark /\ \A j \in Solid(t) : j <= i
    BY DEF EndsTape
<1>4. i \in 1..Len(t)
    BY DEF Solid
<1> DEFINE k == Len(s) + i
<1>5. k \in 1..Len(s) + Len(t) /\ ~(k <= Len(s)) /\ k - Len(s) = i
    BY <1>1, <1>4
<1>6. (s \o t)[k] = Mark
    BY <1>2, <1>3, <1>5
<1>7. k \in Solid(s \o t)
    BY <1>2, <1>5, <1>6 DEF Solid, Mark, Blank
<1>8. ASSUME NEW j \in Solid(s \o t) PROVE j <= k
    <2>1. j \in 1..Len(s) + Len(t) /\ (s \o t)[j] # Blank
        BY <1>2 DEF Solid
    <2>2. CASE j <= Len(s)
        BY <1>1, <1>4, <2>1, <2>2
    <2>3. CASE ~(j <= Len(s))
        <3>1. j - Len(s) \in 1..Len(t) /\ (s \o t)[j] = t[j - Len(s)]
            BY <1>1, <1>2, <2>1, <2>3
        <3>2. j - Len(s) \in Solid(t)
            BY <2>1, <3>1 DEF Solid
        <3>3. j - Len(s) <= i
            BY <1>3, <3>2
        <3> QED
            BY <1>1, <1>4, <2>1, <3>3
    <2> QED
        BY <2>2, <2>3
<1> QED
    BY <1>6, <1>7, <1>8 DEF EndsTape

\* What the control answers continues what it has given.
LEMMA AnswerContinues ==
    ASSUME NEW s \in Seq(Byte), NEW i \in 0..Len(s), NEW n \in Nat \ {0}, i + n <= Len(s)
    PROVE  /\ SubSeq(s, i + 1, i + n) \in Seq(Byte)
           /\ Len(SubSeq(s, i + 1, i + n)) = n
           /\ SubSeq(s, 1, i) \o SubSeq(s, i + 1, i + n) = SubSeq(s, 1, i + n)
<1>1. Len(s) \in Nat /\ i \in Nat
    BY LenProperties
<1>2. \A j \in i + 1..i + n : s[j] \in Byte
    <2>1. \A j \in i + 1..i + n : j \in 1..Len(s)
        BY <1>1
    <2> QED
        BY <2>1, ElementOfSeq
<1>3. /\ SubSeq(s, i + 1, i + n) \in Seq(Byte)
      /\ Len(SubSeq(s, i + 1, i + n)) = IF i + 1 <= i + n THEN i + n - (i + 1) + 1 ELSE 0
    <2>1. i + 1 \in Int /\ i + n \in Int
        BY <1>1
    <2> QED
        BY <1>2, <2>1, SubSeqProperties
<1>4. SubSeq(s, 1, i) \o SubSeq(s, i + 1, i + n) = SubSeq(s, 1, i + n)
    <2>1. 1 \in 1..Len(s) + 1 /\ i \in (1 - 1)..Len(s) /\ i + n \in i..Len(s)
        BY <1>1
    <2> QED
        BY <2>1, ConcatAdjacentSubSeq
<1> QED
    BY <1>1, <1>3, <1>4

\* A beginning of a text has the length it was cut to.
LEMMA BeginningFacts ==
    ASSUME NEW s \in Seq(Byte), NEW i \in 0..Len(s)
    PROVE  SubSeq(s, 1, i) \in Seq(Byte) /\ Len(SubSeq(s, 1, i)) = i
<1>1. Len(s) \in Nat /\ i \in Int
    BY LenProperties
<1>2. \A j \in 1..i : s[j] \in Byte
    <2>1. \A j \in 1..i : j \in 1..Len(s)
        BY <1>1
    <2> QED
        BY <2>1, ElementOfSeq
<1>3. /\ SubSeq(s, 1, i) \in Seq(Byte)
      /\ Len(SubSeq(s, 1, i)) = IF 1 <= i THEN i - 1 + 1 ELSE 0
    BY <1>1, <1>2, SubSeqProperties
<1> QED
    BY <1>1, <1>3

\* A beginning of a beginning.
LEMMA BeginningOfBeginning ==
    ASSUME NEW s \in Seq(Byte), NEW i \in 0..Len(s), NEW k \in 0..i
    PROVE  SubSeq(SubSeq(s, 1, i), 1, k) = SubSeq(s, 1, k)
<1> DEFINE b == SubSeq(s, 1, i)
           left == SubSeq(b, 1, k)
           right == SubSeq(s, 1, k)
<1>1. Len(s) \in Nat /\ i \in Int /\ k \in Int /\ k \in 0..Len(s)
    BY LenProperties
<1>2. b \in Seq(Byte) /\ Len(b) = i
    BY <1>1, BeginningFacts
<1>3. \A j \in 1..i : b[j] = s[j]
    <2>1. \A j \in 1..i : s[j] \in Byte
        BY <1>1, ElementOfSeq
    <2>2. \A j \in 1..i - 1 + 1 : SubSeq(s, 1, i)[j] = s[1 + j - 1]
        BY <1>1, <2>1, SubSeqProperties
    <2> QED
        BY <1>1, <2>2
<1> HIDE DEF b
<1>4. left \in Seq(Byte) /\ Len(left) = k /\ \A j \in 1..k : left[j] = b[j]
    <2>1. left \in Seq(Byte) /\ Len(left) = k
        BY <1>1, <1>2, BeginningFacts
    <2>2. \A j \in 1..k : b[j] \in Byte
        BY <1>1, <1>2, ElementOfSeq
    <2>3. \A j \in 1..k - 1 + 1 : SubSeq(b, 1, k)[j] = b[1 + j - 1]
        BY <1>1, <2>2, SubSeqProperties
    <2> QED
        BY <1>1, <2>1, <2>3
<1>5. right \in Seq(Byte) /\ Len(right) = k /\ \A j \in 1..k : right[j] = s[j]
    <2>1. right \in Seq(Byte) /\ Len(right) = k
        BY <1>1, BeginningFacts
    <2>2. \A j \in 1..k : s[j] \in Byte
        BY <1>1, ElementOfSeq
    <2>3. \A j \in 1..k - 1 + 1 : SubSeq(s, 1, k)[j] = s[1 + j - 1]
        BY <1>1, <2>2, SubSeqProperties
    <2> QED
        BY <1>1, <2>1, <2>3
<1> HIDE DEF left, right
<1>6. \A j \in 1..k : left[j] = right[j]
    BY <1>1, <1>3, <1>4, <1>5
<1>7. left = right
    BY <1>4, <1>5, <1>6, SeqEqual
<1> QED
    BY <1>7 DEF left, right, b

-----------------------------------------------------------------------------
(* The inductive invariant.                                                  *)

\* Only a send is in the send loop, only a fetch collects and saves.
OwnLoop ==
    \A c \in Callers : /\ pc[c] = "sending" => c \in Sends
                       /\ pc[c] \in {"receiving", "ended", "saving"} => c \in Fetches

\* The control forgets an open handle only by a failure.
LostByFailure == handle = "open" /\ ~alive => failures > 0

\* What is left of program n when a loop ended: a beginning of it, and the whole
\* unless it ended at a mark or something failed.
Begins(n, f) == \E i \in 0..Len(Stored[n]) : f = SubSeq(Stored[n], 1, i)
Good(n, f, failed) == Begins(n, f) /\ (f = Stored[n] \/ EndsTape(f) \/ failed > 0)

\* Some fetch is writing program n.
Half(n) == \E c \in Fetches : pc[c] = "saving" /\ Number[c] = n

\* The running fetch holds what the control has given of its program, what a loop
\* ended with is good, and so is what is saved, unless it is just being written.
FetchedSoFar ==
    /\ \A c \in Fetches : pc[c] = "receiving" =>
          /\ at <= Len(Stored[Number[c]])
          /\ chunks = SubSeq(Stored[Number[c]], 1, at)
    /\ \A c \in Fetches : pc[c] \in {"ended", "saving"} => Good(Number[c], chunks, failures)
    /\ \A n \in Numbers : spool[n] # Absent =>
          Begins(n, spool[n]) /\ (Half(n) \/ Good(n, spool[n], failures))

IInv ==
    /\ TypeOK
    /\ HandleAccounted
    /\ EndsWhatItStarts
    /\ OwnLoop
    /\ LostByFailure
    /\ FetchedSoFar

\* Before the first call.
LEMMA InitIInv == Init => IInv
<1> SUFFICES ASSUME Init PROVE IInv
    OBVIOUS
<1> USE DEF Init
<1>1. TypeOK
    <2>1. chunks \in Seq(Byte) /\ tape \in Seq(Byte) /\ memory \in Seq(Byte)
        BY EmptySeq
    <2>2. lock \in Callers \cup {Free}
        OBVIOUS
    <2>3. \A c \in Callers : lock = c <=> pc[c] \in Inside
        BY CallersAssumption
    <2>4. replaced \in 0..MaxReplaced /\ failures \in 0..MaxFailures
        BY ChunkAssumption
    <2> QED
        BY <2>1, <2>2, <2>3, <2>4 DEF TypeOK
<1>2. HandleAccounted /\ EndsWhatItStarts /\ OwnLoop /\ LostByFailure
    BY DEF HandleAccounted, EndsWhatItStarts, OwnLoop, LostByFailure
<1>3. FetchedSoFar
    BY DEF FetchedSoFar, Callers
<1> QED
    BY <1>1, <1>2, <1>3 DEF IInv

\* While one call is in its loop, no other is.
LEMMA OneInTheLoop ==
    ASSUME TypeOK, NEW c \in Callers, pc[c] \in Inside
    PROVE  lock = c /\ \A d \in Callers : d # c => pc[d] \notin Inside
BY DEF TypeOK

\* While the lock is free, no call is in its loop.
LEMMA NoneInTheLoop ==
    ASSUME TypeOK, lock = Free
    PROVE  \A d \in Callers : pc[d] \notin Inside
BY CallersAssumption DEF TypeOK

\* A step that touches no program and ends no fetch, or ends one by a failure.
LEMMA FetchedKept ==
    ASSUME TypeOK, TypeOK', FetchedSoFar,
           UNCHANGED spool,
           failures' >= failures,
           \A c \in Fetches :
              /\ pc'[c] = "receiving" => pc[c] = "receiving" /\ UNCHANGED <<at, chunks>>
              /\ pc'[c] \in {"ended", "saving"} => pc[c] \in {"ended", "saving"} /\ UNCHANGED chunks
              /\ pc[c] = "saving" => pc'[c] = "saving" \/ failures' > 0
    PROVE  FetchedSoFar'
<1>1. \A n, f : Good(n, f, failures) => Good(n, f, failures')
    <2>1. failures \in Nat /\ failures' \in Nat
        BY ChunkAssumption DEF TypeOK
    <2> QED
        BY <2>1 DEF Good
<1>2. \A n, f : Begins(n, f) /\ failures' > 0 => Good(n, f, failures')
    BY DEF Good
<1>3. \A n : Half(n) => Half(n)' \/ failures' > 0
    BY DEF Half
<1>4. \A n \in Numbers : spool[n] # Absent =>
         Begins(n, spool[n]) /\ (Half(n)' \/ Good(n, spool[n], failures'))
    BY <1>1, <1>2, <1>3 DEF FetchedSoFar
<1>5. \A c \in Fetches : pc'[c] \in {"ended", "saving"} => Good(Number[c], chunks, failures')
    BY <1>1 DEF FetchedSoFar
<1>6. \A c \in Fetches : pc'[c] = "receiving" =>
          /\ at <= Len(Stored[Number[c]])
          /\ chunks = SubSeq(Stored[Number[c]], 1, at)
    BY DEF FetchedSoFar
<1>7. \A n \in Numbers : spool'[n] # Absent =>
         Begins(n, spool'[n]) /\ (Half(n)' \/ Good(n, spool'[n], failures'))
    BY <1>4
<1>8. \A c \in Fetches : pc'[c] \in {"ended", "saving"} => Good(Number[c], chunks', failures')
    BY <1>5
<1>9. \A c \in Fetches : pc'[c] = "receiving" =>
          /\ at' <= Len(Stored[Number[c]])
          /\ chunks' = SubSeq(Stored[Number[c]], 1, at')
    BY <1>6
<1> QED
    BY <1>7, <1>8, <1>9 DEF FetchedSoFar, Half

-----------------------------------------------------------------------------
(* Each action preserves it.                                                 *)

\* Failures are counted.
LEMMA FaultFacts ==
    ASSUME TypeOK, Fault
    PROVE  /\ failures' \in 0..MaxFailures /\ failures' >= failures
           /\ LostByFailure => failures' > 0
<1>1. MaxFailures \in Nat /\ failures \in 0..MaxFailures
    BY ChunkAssumption DEF TypeOK
<1>2. CASE handle = "open" /\ ~alive /\ failures' = failures
    BY <1>1, <1>2 DEF LostByFailure
<1>3. CASE failures < MaxFailures /\ failures' = failures + 1
    BY <1>1, <1>3
<1> QED
    BY <1>2, <1>3 DEF Fault

\* Connecting accounts for the handle.
LEMMA ConnectFacts ==
    ASSUME TypeOK, HandleAccounted, LostByFailure, Connect, failures' >= failures,
           failures' \in Nat
    PROVE  /\ handle' \in {"none", "open"} /\ handles' \in Nat /\ alive' \in BOOLEAN
           /\ HandleAccounted' /\ LostByFailure'
<1> USE DEF Connect, HandleAccounted
<1>1. handles' \in Nat /\ HandleAccounted'
    BY DEF TypeOK
<1>2. alive' \in BOOLEAN
    BY DEF TypeOK
<1>3. LostByFailure'
    BY DEF TypeOK, LostByFailure
<1> QED
    BY <1>1, <1>2, <1>3

\* The control drops the session, the file is replaced, the transport is closed.
LEMMA OutsideStep == ASSUME IInv, DropSession \/ Replace \/ CloseHandle PROVE IInv'
<1> USE DEF IInv
<1>1. UNCHANGED <<lock, pc, text, at, chunks, spool, dest, transfer, tape, memory>>
    BY DEF DropSession, Replace, CloseHandle, callVars, fileVars, controlVars
<1>2. failures' \in 0..MaxFailures /\ failures' >= failures
    <2>1. MaxFailures \in Nat /\ failures \in 0..MaxFailures
        BY ChunkAssumption DEF TypeOK
    <2>2. failures' = failures \/ (failures < MaxFailures /\ failures' = failures + 1)
        BY DEF DropSession, Replace, CloseHandle
    <2> QED
        BY <2>1, <2>2
<1>3. /\ handle' \in {"none", "open"} /\ handles' \in Nat /\ alive' \in BOOLEAN
      /\ closed' \in BOOLEAN /\ HandleAccounted' /\ LostByFailure'
    <2>1. handles' \in Nat /\ HandleAccounted'
        BY DEF DropSession, Replace, CloseHandle, TypeOK, HandleAccounted, libraryVars
    <2>2. handle' \in {"none", "open"} /\ closed' \in BOOLEAN
        BY DEF DropSession, Replace, CloseHandle, TypeOK, libraryVars
    <2>3. alive' \in BOOLEAN
        BY DEF DropSession, Replace, CloseHandle, TypeOK, libraryVars
    <2>4. LostByFailure'
        <3>1. MaxFailures \in Nat /\ failures \in 0..MaxFailures
            BY ChunkAssumption DEF TypeOK
        <3>2. CASE DropSession
            BY <3>1, <3>2 DEF DropSession, LostByFailure
        <3>3. CASE Replace
            BY <3>3 DEF Replace, libraryVars, LostByFailure
        <3>4. CASE CloseHandle
            BY <3>4 DEF CloseHandle, LostByFailure
        <3> QED
            BY <3>2, <3>3, <3>4
    <2> QED
        BY <2>1, <2>2, <2>3, <2>4
<1>4. queue' \in Texts \cup {Absent} /\ replaced' \in 0..MaxReplaced
    BY ChunkAssumption DEF DropSession, Replace, CloseHandle, TypeOK, fileVars
<1>5. TypeOK'
    BY <1>1, <1>2, <1>3, <1>4 DEF TypeOK
<1>6. EndsWhatItStarts' /\ OwnLoop'
    BY <1>1 DEF EndsWhatItStarts, OwnLoop
<1>7. FetchedSoFar'
    BY <1>1, <1>2, <1>5, FetchedKept
<1> QED
    BY <1>3, <1>5, <1>6, <1>7

\* A caller asks for the lock, or leaves after it has released it.
LEMMA AskStep == ASSUME IInv, NEW c \in Callers, Ask(c) \/ GetSize(c) PROVE IInv'
<1> USE DEF IInv
<1>1. /\ pc[c] \in {"idle", "after"}
      /\ pc' \in {[pc EXCEPT ![c] = w] : w \in {"waiting", "ok", "error"}}
      /\ UNCHANGED <<libraryVars, lock, callVars, fileVars, controlVars, failures, closed>>
    BY DEF Ask, GetSize, Goes
<1>2. pc \in [Callers -> Places]
    BY DEF TypeOK
<1>3. /\ pc' \in [Callers -> Places]
      /\ pc'[c] \in {"waiting", "ok", "error"}
      /\ \A d \in Callers : d # c => pc'[d] = pc[d]
    <2>1. PICK w \in {"waiting", "ok", "error"} : pc' = [pc EXCEPT ![c] = w]
        BY <1>1
    <2> QED
        BY <1>2, <2>1
<1>4. TypeOK'
    BY <1>1, <1>3 DEF TypeOK, libraryVars, callVars, fileVars, controlVars
<1>5. HandleAccounted' /\ EndsWhatItStarts' /\ OwnLoop' /\ LostByFailure'
    BY <1>1, <1>3 DEF HandleAccounted, EndsWhatItStarts, OwnLoop, LostByFailure,
                      libraryVars, controlVars
<1>7. failures' = failures /\ failures \in Nat
    BY <1>1, ChunkAssumption DEF TypeOK
<1>8. FetchedSoFar'
    BY <1>1, <1>3, <1>4, <1>7, FetchedKept DEF Callers, callVars, fileVars
<1> QED
    BY <1>4, <1>5, <1>8

\* A send has the lock, the handle and the file, and the transfer is started.
LEMMA EnterSendStep == ASSUME IInv, NEW c \in Callers, EnterSend(c) PROVE IInv'
<1> USE DEF IInv, EnterSend, Goes
<1>1. \A d \in Callers : pc[d] \notin Inside
    BY NoneInTheLoop
<1>2. pc \in [Callers -> Places]
    BY DEF TypeOK
<1>3. /\ pc' \in [Callers -> Places]
      /\ pc'[c] = "sending"
      /\ \A d \in Callers : d # c => pc'[d] = pc[d]
    BY <1>2
<1>4. failures' = failures /\ failures \in Nat
    BY ChunkAssumption DEF TypeOK
<1>5. /\ handle' \in {"none", "open"} /\ handles' \in Nat /\ alive' \in BOOLEAN
      /\ HandleAccounted' /\ LostByFailure'
    BY <1>4, ConnectFacts
<1>6. TypeOK'
    <2>1. \A d \in Callers : lock' = d <=> pc'[d] \in Inside
        BY <1>1, <1>3
    <2>2. text' \in Texts /\ at' \in Nat /\ tape' \in Seq(Byte)
        BY EmptySeq DEF TypeOK
    <2> QED
        BY <1>3, <1>5, <2>1, <2>2 DEF TypeOK, fileVars
<1>7. EndsWhatItStarts' /\ OwnLoop'
    BY <1>1, <1>3 DEF EndsWhatItStarts, OwnLoop
<1>8. FetchedSoFar'
    <2>1. \A d \in Fetches : pc'[d] \notin {"receiving", "ended", "saving"} /\ pc[d] # "saving"
        BY <1>1, <1>3 DEF Callers
    <2> QED
        BY <1>4, <1>6, <2>1, FetchedKept DEF fileVars
<1> QED
    BY <1>5, <1>6, <1>7, <1>8

\* A fetch has the lock and the handle, and has nothing yet.
LEMMA EnterFetchStep == ASSUME IInv, NEW c \in Callers, EnterFetch(c) PROVE IInv'
<1> USE DEF IInv, EnterFetch, Goes
<1>1. \A d \in Callers : pc[d] \notin Inside
    BY NoneInTheLoop
<1>2. pc \in [Callers -> Places]
    BY DEF TypeOK
<1>3. /\ pc' \in [Callers -> Places]
      /\ pc'[c] = "receiving"
      /\ \A d \in Callers : d # c => pc'[d] = pc[d]
    BY <1>2
<1>4. failures' = failures /\ failures \in Nat
    BY ChunkAssumption DEF TypeOK
<1>5. /\ handle' \in {"none", "open"} /\ handles' \in Nat /\ alive' \in BOOLEAN
      /\ HandleAccounted' /\ LostByFailure'
    BY <1>4, ConnectFacts
<1>6. TypeOK'
    <2>1. \A d \in Callers : lock' = d <=> pc'[d] \in Inside
        BY <1>1, <1>3
    <2>2. chunks' \in Seq(Byte) /\ at' \in Nat
        BY EmptySeq
    <2> QED
        BY <1>3, <1>5, <2>1, <2>2 DEF TypeOK, fileVars
<1>7. EndsWhatItStarts' /\ OwnLoop'
    BY <1>1, <1>3 DEF EndsWhatItStarts, OwnLoop
<1>8. FetchedSoFar'
    <2>1. \A n \in Numbers : Len(Stored[n]) \in Nat /\ SubSeq(Stored[n], 1, 0) = <<>>
        BY TextAssumption, LenProperties, SubSeqEmpty
    <2>2. \A d \in Fetches : Number[d] \in Numbers
        BY CallersAssumption
    <2>3. \A d \in Fetches : at' <= Len(Stored[Number[d]])
                             /\ chunks' = SubSeq(Stored[Number[d]], 1, at')
        BY <2>1, <2>2
    <2>4. \A d \in Fetches : pc'[d] \notin {"ended", "saving"} /\ pc[d] # "saving"
        BY <1>1, <1>3 DEF Callers
    <2>5. \A n \in Numbers : spool'[n] # Absent => Good(n, spool'[n], failures')
        BY <2>4 DEF FetchedSoFar, Half, fileVars
    <2>6. \A n \in Numbers : spool'[n] # Absent => Begins(n, spool'[n])
        BY DEF FetchedSoFar, fileVars
    <2> QED
        BY <2>3, <2>4, <2>5, <2>6 DEF FetchedSoFar
<1> QED
    BY <1>5, <1>6, <1>7, <1>8

\* Entering raises: the lock is free again, a handle that was obtained is kept.
LEMMA EnterFailsStep == ASSUME IInv, NEW c \in Callers, EnterFails(c) PROVE IInv'
<1> USE DEF IInv, EnterFails, Goes
<1>1. pc \in [Callers -> Places]
    BY DEF TypeOK
<1>2. /\ pc' \in [Callers -> Places]
      /\ pc'[c] = "error" /\ pc[c] = "waiting"
      /\ \A d \in Callers : d # c => pc'[d] = pc[d]
    BY <1>1
<1>3. failures' \in 0..MaxFailures /\ failures' >= failures
    BY FaultFacts, ChunkAssumption DEF TypeOK
<1>4. /\ handle' \in {"none", "open"} /\ handles' \in Nat /\ alive' \in BOOLEAN
      /\ HandleAccounted' /\ LostByFailure'
    <2>1. CASE Connect
        BY <1>3, <2>1, ConnectFacts, ChunkAssumption
    <2>2. CASE handle = "none" /\ UNCHANGED libraryVars
        BY <2>2 DEF libraryVars, TypeOK, HandleAccounted, LostByFailure
    <2> QED
        BY <2>1, <2>2
<1>5. TypeOK'
    BY <1>2, <1>3, <1>4 DEF TypeOK, callVars, fileVars, controlVars
<1>6. EndsWhatItStarts' /\ OwnLoop'
    BY <1>2 DEF EndsWhatItStarts, OwnLoop, controlVars
<1>7. FetchedSoFar'
    BY <1>2, <1>3, <1>5, FetchedKept DEF Callers, callVars, fileVars
<1> QED
    BY <1>4, <1>5, <1>6, <1>7

\* The control took a chunk of a send.
LEMMA DownloadStep == ASSUME IInv, NEW c \in Callers, Download(c) PROVE IInv'
<1> USE DEF IInv, Download
<1>1. text \in Seq(Byte)
    BY TextAssumption, EmptySeq DEF TypeOK
<1>2. Wrapped(text) \in Seq(Byte) /\ Len(Wrapped(text)) \in Nat
    BY <1>1, WrappedType, LenProperties
<1>3. NextChunk \in Seq(Byte)
    <2> DEFINE w == Wrapped(text)
               e == IF at + ChunkSize < Len(w) THEN at + ChunkSize ELSE Len(w)
    <2>1. at + 1 \in Int /\ e \in Int /\ at \in Nat /\ e <= Len(w)
        BY <1>2, ChunkAssumption DEF TypeOK
    <2>2. \A i \in at + 1..e : w[i] \in Byte
        <3>1. \A i \in at + 1..e : i \in 1..Len(w)
            BY <1>2, <2>1
        <3> QED
            BY <1>2, <3>1, ElementOfSeq
    <2>3. SubSeq(w, at + 1, e) \in Seq(Byte)
        <3> HIDE DEF w, e
        <3> QED
            BY <2>1, <2>2, SubSeqProperties
    <2> QED
        BY <2>3 DEF NextChunk
<1>4. tape' \in Seq(Byte) /\ at' \in Nat
    BY <1>3, ConcatProperties, LenProperties DEF TypeOK
<1>5. TypeOK'
    BY <1>4 DEF TypeOK, libraryVars, fileVars
<1>6. HandleAccounted' /\ EndsWhatItStarts' /\ OwnLoop' /\ LostByFailure'
    BY DEF HandleAccounted, EndsWhatItStarts, OwnLoop, LostByFailure, libraryVars
<1>7. FetchedSoFar'
    <2>1. \A d \in Fetches : pc[d] \notin {"receiving", "ended", "saving"}
        BY OneInTheLoop, CallersAssumption DEF OwnLoop, Callers
    <2>2. failures' >= failures
        BY ChunkAssumption DEF TypeOK
    <2> QED
        BY <1>5, <2>1, <2>2, FetchedKept DEF fileVars
<1> QED
    BY <1>5, <1>6, <1>7

\* A send leaves its loop, at its end or by a failure.
LEMMA SendLeavesStep ==
    ASSUME IInv, NEW c \in Callers, DownloadEnds(c) \/ DownloadFails(c) PROVE IInv'
<1> USE DEF IInv
<1>1. /\ pc[c] = "sending" /\ lock' = Free /\ transfer' = "none"
      /\ pc' \in {[pc EXCEPT ![c] = w] : w \in {"after", "error"}}
      /\ memory' \in {tape, memory}
      /\ UNCHANGED <<libraryVars, callVars, fileVars, tape, closed>>
    BY DEF DownloadEnds, DownloadFails, Leave, Goes
<1>2. failures' \in 0..MaxFailures /\ failures' >= failures
    BY FaultFacts, ChunkAssumption DEF DownloadEnds, DownloadFails, TypeOK
<1>3. \A d \in Callers : d # c => pc[d] \notin Inside
    BY <1>1, OneInTheLoop
<1>4. pc \in [Callers -> Places]
    BY DEF TypeOK
<1>5. /\ pc' \in [Callers -> Places]
      /\ pc'[c] \in {"after", "error"}
      /\ \A d \in Callers : d # c => pc'[d] = pc[d]
    BY <1>1, <1>4
<1>6. TypeOK'
    BY <1>1, <1>2, <1>3, <1>5, CallersAssumption
       DEF TypeOK, libraryVars, callVars, fileVars
<1>7. HandleAccounted' /\ EndsWhatItStarts' /\ OwnLoop'
    BY <1>1, <1>3, <1>5 DEF HandleAccounted, EndsWhatItStarts, OwnLoop, libraryVars
<1>8. LostByFailure'
    BY <1>1, <1>2, ChunkAssumption DEF LostByFailure, libraryVars, TypeOK
<1>9. FetchedSoFar'
    BY <1>1, <1>2, <1>5, <1>6, FetchedKept DEF Callers, callVars, fileVars
<1> QED
    BY <1>6, <1>7, <1>8, <1>9

\* The loop of a fetch ends with what it collected: good, if there is a reason.
LEMMA EndUploadStep ==
    ASSUME IInv, NEW c \in Fetches, pc[c] = "receiving", EndUpload(c),
           failures' \in 0..MaxFailures, failures' >= failures, Good(Number[c], chunks', failures'),
           at' \in Nat, chunks' \in Seq(Byte),
           UNCHANGED <<libraryVars, lock, text, fileVars, tape, memory, closed>>
    PROVE  IInv'
<1> USE DEF IInv, EndUpload, Goes
<1>1. \A d \in Callers : d # c => pc[d] \notin Inside
    BY OneInTheLoop DEF Callers
<1>2. pc \in [Callers -> Places]
    BY DEF TypeOK
<1>3. /\ pc' \in [Callers -> Places]
      /\ pc'[c] = "ended"
      /\ \A d \in Callers : d # c => pc'[d] = pc[d]
    BY <1>2 DEF Callers
<1>4. TypeOK'
    BY <1>1, <1>3 DEF TypeOK, libraryVars, fileVars, Callers
<1>5. HandleAccounted' /\ EndsWhatItStarts' /\ OwnLoop'
    BY <1>1, <1>3 DEF HandleAccounted, EndsWhatItStarts, OwnLoop, libraryVars, Callers
<1>6. LostByFailure'
    BY ChunkAssumption DEF LostByFailure, libraryVars, TypeOK
<1>7. FetchedSoFar'
    <2>1. \A n, g : Good(n, g, failures) => Good(n, g, failures')
        BY ChunkAssumption DEF Good, TypeOK
    <2>2. \A d \in Fetches : pc'[d] # "receiving" /\ (pc'[d] \in {"ended", "saving"} => d = c)
                             /\ pc[d] # "saving"
        BY <1>1, <1>3 DEF Callers
    <2>3. \A n \in Numbers : spool'[n] # Absent =>
             Begins(n, spool'[n]) /\ Good(n, spool'[n], failures')
        BY <2>1, <2>2 DEF FetchedSoFar, Half, fileVars
    <2> QED
        BY <2>2, <2>3 DEF FetchedSoFar
<1> QED
    BY <1>4, <1>5, <1>6, <1>7

\* The control gave a fetch its next chunk.
LEMMA UploadStep == ASSUME IInv, NEW c \in Callers, Upload(c) PROVE IInv'
<1> USE DEF IInv
<1> DEFINE s == Stored[Number[c]]
<1>1. c \in Fetches /\ pc[c] = "receiving"
    BY DEF Upload, OwnLoop
<1>2. Number[c] \in Numbers /\ s \in Seq(Byte)
    BY <1>1, CallersAssumption, TextAssumption
<1>3. Len(s) \in Nat /\ at \in 0..Len(s) /\ chunks = SubSeq(s, 1, at) /\ chunks \in Seq(Byte)
    BY <1>1, <1>2, LenProperties DEF FetchedSoFar, TypeOK
<1>4. PICK chunk \in Answers(c) :
          /\ at' = at + Len(chunk)
          /\ chunks' = chunks \o chunk
          /\ IF EndsTape(chunk) THEN EndUpload(c) ELSE UNCHANGED <<pc, transfer>>
    BY DEF Upload
<1>5. UNCHANGED <<libraryVars, lock, text, fileVars, tape, memory, failures, closed>>
    BY DEF Upload
<1>6. PICK n \in 1..ReceiveMax : at + n <= Len(s) /\ chunk = SubSeq(s, at + 1, at + n)
    BY DEF Answers
<1>7. n \in Nat \ {0}
    BY ChunkAssumption
<1>8. /\ chunk \in Seq(Byte) /\ Len(chunk) = n
      /\ chunks \o chunk = SubSeq(s, 1, at + n)
    <2> HIDE DEF s
    <2> QED
        BY <1>2, <1>3, <1>6, <1>7, AnswerContinues
<1>9. at' = at + n /\ at' \in 0..Len(s) /\ chunks' = SubSeq(s, 1, at')
    BY <1>3, <1>4, <1>6, <1>7, <1>8
<1>10. chunks' \in Seq(Byte) /\ Len(chunks') = at'
    <2> HIDE DEF s
    <2> QED
        BY <1>2, <1>9, BeginningFacts
<1>11. at' \in Nat
    BY <1>9, <1>3
<1>12. failures' \in 0..MaxFailures /\ failures' >= failures
    BY <1>5, ChunkAssumption DEF TypeOK
<1>13. CASE EndsTape(chunk)
    <2>1. EndsTape(chunks') /\ EndUpload(c)
        BY <1>3, <1>4, <1>8, <1>13, EndsTapeConcat
    <2>2. Good(Number[c], chunks', failures')
        BY <1>9, <2>1 DEF Good, Begins
    <2> QED
        BY <1>1, <1>5, <1>10, <1>11, <1>12, <2>1, <2>2, EndUploadStep
<1>14. CASE ~EndsTape(chunk)
    <2> USE <1>4, <1>5, <1>14
    <2>1. TypeOK'
        BY <1>10, <1>11 DEF TypeOK, libraryVars, fileVars
    <2>2. HandleAccounted' /\ EndsWhatItStarts' /\ OwnLoop' /\ LostByFailure'
        BY DEF HandleAccounted, EndsWhatItStarts, OwnLoop, LostByFailure, libraryVars
    <2>3. \A d \in Fetches : /\ pc'[d] = "receiving" => d = c
                             /\ pc'[d] \notin {"ended", "saving"} /\ pc[d] # "saving"
        BY <1>1, OneInTheLoop DEF Callers
    <2>4. at' <= Len(s)
        BY <1>3, <1>9
    <2>5. FetchedSoFar'
        <3>1. \A m \in Numbers : spool'[m] # Absent =>
                 Begins(m, spool'[m]) /\ Good(m, spool'[m], failures')
            BY <2>3 DEF FetchedSoFar, Half, fileVars
        <3> QED
            BY <1>9, <2>3, <2>4, <3>1 DEF FetchedSoFar
    <2> QED
        BY <2>1, <2>2, <2>5
<1> QED
    BY <1>13, <1>14

\* Another code ends the loop of a fetch: at the end of the program, or by a failure.
LEMMA UploadStopsStep == ASSUME IInv, NEW c \in Callers, UploadStops(c) PROVE IInv'
<1> USE DEF IInv
<1> DEFINE s == Stored[Number[c]]
<1>1. c \in Fetches /\ pc[c] = "receiving"
    BY DEF UploadStops, OwnLoop
<1>2. Number[c] \in Numbers /\ s \in Seq(Byte)
    BY <1>1, CallersAssumption, TextAssumption
<1>3. Len(s) \in Nat /\ at \in 0..Len(s) /\ chunks = SubSeq(s, 1, at) /\ chunks \in Seq(Byte)
    BY <1>1, <1>2, LenProperties DEF FetchedSoFar, TypeOK
<1>4. EndUpload(c) /\ UNCHANGED <<libraryVars, lock, callVars, fileVars, tape, memory, closed>>
    BY DEF UploadStops
<1>5. (at = Len(s) /\ failures' = failures) \/ Fault
    BY DEF UploadStops
<1>6. failures' \in 0..MaxFailures /\ failures' >= failures
    BY <1>5, FaultFacts, ChunkAssumption DEF TypeOK
<1>8. Good(Number[c], chunks, failures')
    <2>2. Begins(Number[c], chunks)
        BY <1>3 DEF Begins
    <2>3. chunks = s \/ failures' > 0
        <3>1. CASE Fault
            BY <3>1, FaultFacts
        <3>2. CASE at = Len(s)
            <4> HIDE DEF s
            <4> QED
                BY <1>2, <1>3, <3>2, SubSeqFull
        <3> QED
            BY <1>5, <3>1, <3>2
    <2> QED
        BY <2>2, <2>3 DEF Good
<1>9. at' \in Nat /\ chunks' \in Seq(Byte) /\ chunks' = chunks /\ text' = text
    BY <1>3, <1>4 DEF callVars
<1> QED
    BY <1>1, <1>3, <1>4, <1>6, <1>8, <1>9, EndUploadStep

\* The file is made anew, with as much as is written of it.
LEMMA OpenSpoolStep == ASSUME IInv, NEW c \in Callers, OpenSpool(c) PROVE IInv'
<1> USE DEF IInv, OpenSpool, Goes
<1> DEFINE s == Stored[Number[c]]
<1>1. c \in Fetches /\ Number[c] \in Numbers /\ s \in Seq(Byte) /\ Len(s) \in Nat
    <2>1. c \in Fetches /\ Number[c] \in Numbers
        BY CallersAssumption DEF OwnLoop
    <2> QED
        BY <2>1, TextAssumption, LenProperties
<1>2. \A d \in Callers : d # c => pc[d] \notin Inside
    BY OneInTheLoop
<1>3. pc \in [Callers -> Places]
    BY DEF TypeOK
<1>4. /\ pc' \in [Callers -> Places]
      /\ pc'[c] = "saving"
      /\ \A d \in Callers : d # c => pc'[d] = pc[d]
    BY <1>3
<1>5. PICK k \in 0..Len(chunks) : spool' = [spool EXCEPT ![Number[c]] = SubSeq(chunks, 1, k)]
    OBVIOUS
<1>6. SubSeq(chunks, 1, k) \in Seq(Byte) /\ Begins(Number[c], SubSeq(chunks, 1, k))
    <2>1. PICK i \in 0..Len(s) : chunks = SubSeq(s, 1, i)
        BY <1>1 DEF FetchedSoFar, Good, Begins
    <2> HIDE DEF s
    <2>2. chunks \in Seq(Byte) /\ Len(chunks) = i /\ k \in 0..i /\ k \in 0..Len(s)
        BY <1>1, <1>5, <2>1, BeginningFacts
    <2>3. SubSeq(chunks, 1, k) = SubSeq(s, 1, k)
        BY <1>1, <2>1, <2>2, BeginningOfBeginning
    <2>4. SubSeq(chunks, 1, k) \in Seq(Byte)
        BY <1>1, <2>2, <2>3, BeginningFacts
    <2> QED
        BY <2>2, <2>3, <2>4 DEF Begins, s
<1>7. /\ spool' \in [Numbers -> Seq(Byte) \cup {Absent}]
      /\ \A n \in Numbers : spool'[n] = IF n = Number[c] THEN SubSeq(chunks, 1, k) ELSE spool[n]
    BY <1>1, <1>5, <1>6 DEF TypeOK
<1>8. TypeOK'
    BY <1>2, <1>4, <1>7 DEF TypeOK, libraryVars, callVars, controlVars
<1>9. HandleAccounted' /\ EndsWhatItStarts' /\ OwnLoop' /\ LostByFailure'
    BY <1>1, <1>2, <1>4 DEF HandleAccounted, EndsWhatItStarts, OwnLoop, LostByFailure,
                            libraryVars, controlVars
<1>10. FetchedSoFar'
    <2>1. \A d \in Fetches : pc'[d] # "receiving" /\ (pc'[d] \in {"ended", "saving"} => d = c)
        BY <1>2, <1>4 DEF Callers
    <2>2. Good(Number[c], chunks', failures')
        BY <1>1 DEF FetchedSoFar, callVars
    <2>3. \A n : Half(n) => Half(n)'
        BY <1>1, <1>2, <1>4 DEF Half, Callers
    <2>4. Half(Number[c])'
        BY <1>1, <1>4 DEF Half
    <2>5. ASSUME NEW n \in Numbers, spool'[n] # Absent
          PROVE  Begins(n, spool'[n]) /\ (Half(n)' \/ Good(n, spool'[n], failures'))
        <3>1. CASE n = Number[c]
            BY <1>6, <1>7, <2>4, <3>1
        <3>2. CASE n # Number[c]
            BY <1>7, <2>3, <2>5, <3>2 DEF FetchedSoFar
        <3> QED
            BY <3>1, <3>2
    <2> QED
        BY <2>1, <2>2, <2>5 DEF FetchedSoFar, Half
<1> QED
    BY <1>8, <1>9, <1>10

\* The file is whole, wherever it is.
LEMMA WriteSpoolStep == ASSUME IInv, NEW c \in Callers, WriteSpool(c) PROVE IInv'
<1> USE DEF IInv, WriteSpool, Leave, Goes
<1>1. c \in Fetches /\ Number[c] \in Numbers /\ pc[c] = "saving"
    BY CallersAssumption DEF OwnLoop
<1>2. \A d \in Callers : d # c => pc[d] \notin Inside
    BY OneInTheLoop
<1>3. pc \in [Callers -> Places]
    BY DEF TypeOK
<1>4. /\ pc' \in [Callers -> Places]
      /\ pc'[c] = "after"
      /\ \A d \in Callers : d # c => pc'[d] = pc[d]
    BY <1>3
<1>5. /\ spool' \in [Numbers -> Seq(Byte) \cup {Absent}]
      /\ \A n \in Numbers : spool'[n] = IF n = Number[c] /\ spool[n] # Absent THEN chunks ELSE spool[n]
    BY <1>1 DEF TypeOK
<1>6. TypeOK'
    BY <1>2, <1>4, <1>5, CallersAssumption DEF TypeOK, libraryVars, callVars, controlVars
<1>7. HandleAccounted' /\ EndsWhatItStarts' /\ OwnLoop' /\ LostByFailure'
    BY <1>2, <1>4 DEF HandleAccounted, EndsWhatItStarts, OwnLoop, LostByFailure,
                      libraryVars, controlVars
<1>8. FetchedSoFar'
    <2>1. \A d \in Fetches : pc'[d] \notin {"receiving", "ended", "saving"}
        BY <1>2, <1>4 DEF Callers
    <2>2. Good(Number[c], chunks, failures')
        BY <1>1 DEF FetchedSoFar
    <2>3. \A n : Half(n) => n = Number[c]
        BY <1>2 DEF Half, Callers
    <2>4. ASSUME NEW n \in Numbers, spool'[n] # Absent
          PROVE  Begins(n, spool'[n]) /\ Good(n, spool'[n], failures')
        <3>1. CASE n = Number[c]
            BY <1>5, <2>2, <2>4, <3>1 DEF Good
        <3>2. CASE n # Number[c]
            BY <1>5, <2>3, <2>4, <3>2 DEF FetchedSoFar
        <3> QED
            BY <3>1, <3>2
    <2> QED
        BY <2>1, <2>4 DEF FetchedSoFar
<1> QED
    BY <1>6, <1>7, <1>8

\* Saving raises: what was written stays, and a failure accounts for it.
LEMMA SaveFailsStep == ASSUME IInv, NEW c \in Callers, SaveFails(c) PROVE IInv'
<1> USE DEF IInv, SaveFails, Leave, Goes
<1>1. \A d \in Callers : d # c => pc[d] \notin Inside
    BY OneInTheLoop
<1>2. pc \in [Callers -> Places]
    BY DEF TypeOK
<1>3. /\ pc' \in [Callers -> Places]
      /\ pc'[c] = "error"
      /\ \A d \in Callers : d # c => pc'[d] = pc[d]
    BY <1>2
<1>4. failures' \in 0..MaxFailures /\ failures' >= failures /\ failures' > 0
    BY ChunkAssumption DEF TypeOK
<1>5. TypeOK'
    BY <1>1, <1>3, <1>4, CallersAssumption DEF TypeOK, libraryVars, callVars, fileVars, controlVars
<1>6. HandleAccounted' /\ EndsWhatItStarts' /\ OwnLoop' /\ LostByFailure'
    BY <1>1, <1>3, <1>4 DEF HandleAccounted, EndsWhatItStarts, OwnLoop, LostByFailure,
                            libraryVars, controlVars
<1>7. FetchedSoFar'
    BY <1>1, <1>3, <1>4, <1>5, FetchedKept DEF Callers, callVars, fileVars
<1> QED
    BY <1>5, <1>6, <1>7

\* What was saved becomes the file of the fetch.
LEMMA MoveStep == ASSUME IInv, NEW c \in Callers, Move(c) PROVE IInv'
<1> USE DEF IInv, Move, Goes
<1> DEFINE written == spool[Number[c]]
<1>1. c \in Fetches /\ Number[c] \in Numbers
    BY CallersAssumption
<1>2. pc \in [Callers -> Places]
    BY DEF TypeOK
<1>3. /\ pc' \in [Callers -> Places]
      /\ pc'[c] \in {"error", "ok"} /\ pc[c] = "after"
      /\ \A d \in Callers : d # c => pc'[d] = pc[d]
    BY <1>2
<1>4. /\ spool' \in [Numbers -> Seq(Byte) \cup {Absent}]
      /\ dest' \in [Fetches -> Seq(Byte) \cup {Absent}]
      /\ \A n \in Numbers : spool'[n] \in {spool[n], Absent}
    BY <1>1 DEF TypeOK
<1>5. TypeOK'
    BY <1>3, <1>4 DEF TypeOK, libraryVars, callVars, controlVars
<1>6. HandleAccounted' /\ EndsWhatItStarts' /\ OwnLoop' /\ LostByFailure'
    BY <1>3 DEF HandleAccounted, EndsWhatItStarts, OwnLoop, LostByFailure,
                libraryVars, controlVars
<1>7. FetchedSoFar'
    <2>1. failures' = failures /\ at' = at /\ chunks' = chunks
        BY DEF callVars
    <2>2. \A n : Half(n)' <=> Half(n)
        BY <1>3 DEF Half, Callers
    <2>3. \A n \in Numbers : spool'[n] # Absent =>
             Begins(n, spool'[n]) /\ (Half(n)' \/ Good(n, spool'[n], failures'))
        BY <1>4, <2>1, <2>2 DEF FetchedSoFar
    <2>4. \A d \in Fetches : /\ pc'[d] = "receiving" => pc[d] = "receiving"
                             /\ pc'[d] \in {"ended", "saving"} => pc[d] \in {"ended", "saving"}
        BY <1>3 DEF Callers
    <2> QED
        BY <2>1, <2>3, <2>4 DEF FetchedSoFar, Half
<1> QED
    BY <1>5, <1>6, <1>7

\* The induction step.
LEMMA NextIInv == IInv /\ [Next]_vars => IInv'
<1> SUFFICES ASSUME IInv, [Next]_vars PROVE IInv'
    OBVIOUS
<1>1. ASSUME NEW c \in Callers, Ask(c) \/ Enter(c) \/ Transfer(c) \/ After(c) PROVE IInv'
    BY <1>1, AskStep, EnterSendStep, EnterFetchStep, EnterFailsStep, DownloadStep,
       SendLeavesStep, UploadStep, UploadStopsStep, OpenSpoolStep, WriteSpoolStep, SaveFailsStep,
       MoveStep DEF Enter, Transfer, After
<1>2. CASE DropSession \/ Replace \/ CloseHandle
    BY <1>2, OutsideStep
<1>3. CASE UNCHANGED vars
    <2> USE <1>3 DEF IInv, vars, libraryVars, callVars, fileVars, controlVars
    <2>1. TypeOK'
        BY DEF TypeOK
    <2>2. HandleAccounted' /\ EndsWhatItStarts' /\ OwnLoop' /\ LostByFailure'
        BY DEF HandleAccounted, EndsWhatItStarts, OwnLoop, LostByFailure
    <2>3. FetchedSoFar'
        BY DEF FetchedSoFar, Good, Begins, Half
    <2> QED
        BY <2>1, <2>2, <2>3
<1> QED
    BY <1>1, <1>2, <1>3 DEF Next

\* The invariant holds of every behaviour.
THEOREM Invariance == Spec => []IInv
<1>1. Init => IInv
    BY InitIInv
<1>2. IInv /\ [Next]_vars => IInv'
    BY NextIInv
<1> QED
    BY <1>1, <1>2, PTL DEF Spec

-----------------------------------------------------------------------------
(* What follows from it.                                                     *)

(* Every variable keeps its type, and the lock is held by exactly the call   *)
(* that is in its loop, whatever raises.                                     *)
THEOREM TypeCorrect == Spec => []TypeOK
<1>1. IInv => TypeOK
    BY DEF IInv
<1> QED
    BY <1>1, Invariance, PTL

(* No handle of the library is lost or freed twice, whoever connects first,  *)
(* fails or closes the transport.                                            *)
THEOREM OneHandle == Spec => []HandleAccounted
<1>1. IInv => HandleAccounted
    BY DEF IInv
<1> QED
    BY <1>1, Invariance, PTL

(* The control is in a transfer exactly while a call is in its loop.         *)
THEOREM TransfersEnd == Spec => []EndsWhatItStarts
<1>1. IInv => EndsWhatItStarts
    BY DEF IInv
<1> QED
    BY <1>1, Invariance, PTL

\* A fetch that takes what is there.
LEMMA FetchEnds ==
    ASSUME IInv, [Next]_vars, NEW c \in Fetches, pc[c] # "ok", pc'[c] = "ok"
    PROVE  /\ dest'[c] = SubSeq(Stored[Number[c]], 1, Len(dest'[c]))
           /\ Whole(c)' \/ EndsTape(dest'[c]) \/ failures > 0 \/ Writing(c) # {}
<1> DEFINE s == Stored[Number[c]]
           n == Number[c]
<1>1. pc \in [Callers -> Places] /\ c \in Callers
    BY DEF IInv, TypeOK, Callers
<1>2. n \in Numbers /\ s \in Seq(Byte)
    BY CallersAssumption, TextAssumption
<1>3. Move(c)
    <2>1. PICK d \in Callers : Ask(d) \/ Enter(d) \/ Transfer(d) \/ After(d)
        BY DEF Next, vars, DropSession, Replace, CloseHandle
    <2>2. \E where : pc' = [pc EXCEPT ![d] = where] \/ pc' = pc
        BY <2>1 DEF Ask, Enter, EnterSend, EnterFetch, EnterFails, Transfer, Download, DownloadEnds,
                    DownloadFails, Upload, UploadStops, EndUpload, OpenSpool, WriteSpool, SaveFails,
                    After, GetSize, Move, Leave, Goes
    <2>3. d = c
        BY <1>1, <2>2
    <2>4. CASE Ask(c) \/ Enter(c) \/ GetSize(c)
        BY <1>1, <2>4, CallersAssumption
           DEF Ask, Enter, EnterSend, EnterFetch, EnterFails, GetSize, Goes
    <2>5. CASE Transfer(c)
        BY <1>1, <2>5 DEF Transfer, Download, DownloadEnds, DownloadFails, Upload, UploadStops,
                          EndUpload, OpenSpool, WriteSpool, SaveFails, Leave, Goes
    <2> QED
        BY <2>1, <2>3, <2>4, <2>5 DEF After
<1>4. pc[c] = "after" /\ spool[n] # Absent /\ dest' = [dest EXCEPT ![c] = spool[n]]
    BY <1>1, <1>3 DEF Move, Goes
<1>5. dest'[c] = spool[n]
    BY <1>4 DEF IInv, TypeOK
<1>6. Begins(n, spool[n]) /\ (Half(n) \/ Good(n, spool[n], failures))
    BY <1>2, <1>4 DEF IInv, FetchedSoFar
<1>7. Half(n) => Writing(c) # {}
    BY <1>4 DEF Half, Writing
<1>8. spool[n] = SubSeq(s, 1, Len(spool[n]))
    <2>1. PICK i \in 0..Len(s) : spool[n] = SubSeq(s, 1, i)
        BY <1>6 DEF Begins
    <2> HIDE DEF s
    <2>2. Len(spool[n]) = i
        BY <1>2, <2>1, BeginningFacts
    <2> QED
        BY <2>1, <2>2
<1> QED
    BY <1>5, <1>6, <1>7, <1>8 DEF Good, Whole

(* What a fetch returns is the program from its beginning, and all of it     *)
(* unless something failed, a chunk ended at a mark, or another fetch was    *)
(* writing the same file just then: for every program and every way the      *)
(* control cuts it into chunks.                                              *)
THEOREM FetchedPrograms == Spec => FetchIntegrity
<1>1. IInv /\ [Next]_vars =>
        [\A c \in Fetches :
            pc[c] # "ok" /\ pc'[c] = "ok" =>
                /\ dest'[c] = SubSeq(Stored[Number[c]], 1, Len(dest'[c]))
                /\ Whole(c)' \/ EndsTape(dest'[c]) \/ failures > 0 \/ Writing(c) # {}]_vars
    BY FetchEnds
<1> QED
    BY <1>1, Invariance, PTL DEF Spec, FetchIntegrity

-----------------------------------------------------------------------------
(* What the wrapping makes of a text: a tape with the same words.            *)

\* The last byte of a text is one of a word, or changes no word.
LEMMA WordsAppend ==
    ASSUME NEW s \in Seq(Byte), NEW e \in Byte
    PROVE  /\ e \in {Mark, Blank} => Words(Append(s, e)) = Words(s)
           /\ e \notin {Mark, Blank} => Words(Append(s, e)) = Append(Words(s), e)
<1> DEFINE w == Without(s, Mark)
<1>1. w \in Seq(Byte)
    BY WithoutFacts
<1>2. Without(Append(s, e), Mark) = IF e = Mark THEN w ELSE Append(w, e)
    BY WithoutAppend
<1> HIDE DEF w
<1>3. Without(Append(w, e), Blank) = IF e = Blank THEN Without(w, Blank) ELSE Append(Without(w, Blank), e)
    BY <1>1, WithoutAppend
<1>4. Words(s) = Without(w, Blank)
    BY DEF Words, w
<1>5. Words(Append(s, e)) = Without(IF e = Mark THEN w ELSE Append(w, e), Blank)
    BY <1>2 DEF Words
<1> QED
    BY <1>3, <1>4, <1>5 DEF Mark, Blank

\* A beginning of a text, byte by byte.
LEMMA BeginningGrows ==
    ASSUME NEW s \in Seq(Byte), NEW i \in 1..Len(s)
    PROVE  /\ SubSeq(s, 1, i) = Append(SubSeq(s, 1, i - 1), s[i])
           /\ SubSeq(s, 1, i - 1) \in Seq(Byte) /\ s[i] \in Byte
<1> DEFINE u == SubSeq(s, 1, i)
           v == SubSeq(s, 1, i - 1)
<1>1. Len(s) \in Nat /\ i \in Nat /\ i - 1 \in 0..Len(s) /\ i \in 0..Len(s) /\ s[i] \in Byte
    BY LenProperties, ElementOfSeq
<1>2. \A j \in 1..i : s[j] \in Byte
    BY <1>1, ElementOfSeq
<1>3. u \in Seq(Byte) /\ Len(u) = i /\ \A j \in 1..i : u[j] = s[j]
    <2>1. u \in Seq(Byte) /\ Len(u) = i
        BY <1>1, BeginningFacts
    <2>2. \A j \in 1..i - 1 + 1 : u[j] = s[1 + j - 1]
        BY <1>1, <1>2, SubSeqProperties
    <2> QED
        BY <1>1, <2>1, <2>2
<1>4. v \in Seq(Byte) /\ Len(v) = i - 1 /\ \A j \in 1..i - 1 : v[j] = s[j]
    <2>1. v \in Seq(Byte) /\ Len(v) = i - 1
        BY <1>1, BeginningFacts
    <2>2. \A j \in 1..(i - 1) - 1 + 1 : v[j] = s[1 + j - 1]
        <3>1. i - 1 \in Int /\ \A j \in 1..i - 1 : s[j] \in Byte
            BY <1>1, <1>2
        <3> QED
            BY <3>1, SubSeqProperties
    <2> QED
        BY <1>1, <2>1, <2>2
<1> HIDE DEF u, v
<1>5. /\ Append(v, s[i]) \in Seq(Byte) /\ Len(Append(v, s[i])) = i
      /\ \A j \in 1..i : Append(v, s[i])[j] = s[j]
    <2>1. /\ Append(v, s[i]) \in Seq(Byte) /\ Len(Append(v, s[i])) = Len(v) + 1
          /\ \A j \in 1..Len(v) : Append(v, s[i])[j] = v[j]
          /\ Append(v, s[i])[Len(v) + 1] = s[i]
        BY <1>1, <1>4, AppendProperties
    <2> QED
        BY <1>1, <1>4, <2>1
<1>6. u = Append(v, s[i])
    BY <1>3, <1>5, SeqEqual
<1> QED
    BY <1>1, <1>4, <1>6 DEF u, v

\* rstrip() drops white space and nothing else.
LEMMA RStripFacts ==
    ASSUME NEW s \in Seq(Byte)
    PROVE  \E n \in 0..Len(s) :
              /\ RStrip(s) = SubSeq(s, 1, n)
              /\ \A i \in Solid(s) : i <= n
<1> DEFINE Last(n) == (n = 0 \/ n \in Solid(s)) /\ \A i \in Solid(s) : i <= n
           last == CHOOSE n \in 0..Len(s) : Last(n)
<1>1. Len(s) \in Nat
    BY LenProperties
<1>2. Solid(s) \in SUBSET (1..Len(s))
    BY DEF Solid
<1>3. \E n \in 0..Len(s) : Last(n)
    BY <1>1, <1>2, LastExists
<1>4. last \in 0..Len(s) /\ Last(last)
    BY <1>3
<1>5. RStrip(s) = SubSeq(s, 1, last)
    BY DEF RStrip
<1> HIDE DEF last
<1> QED
    BY <1>4, <1>5

\* White space at the end of a text is of no word.
LEMMA WordsRStrip ==
    ASSUME NEW s \in Seq(Byte)
    PROVE  Words(RStrip(s)) = Words(s)
<1>1. Len(s) \in Nat
    BY LenProperties
<1>2. PICK n \in 0..Len(s) : RStrip(s) = SubSeq(s, 1, n) /\ \A i \in Solid(s) : i <= n
    BY RStripFacts
<1> DEFINE Same(m) == Words(SubSeq(s, 1, m)) = Words(SubSeq(s, 1, n))
           B == {m \in n..Len(s) : ~Same(m)}
<1>3. B = {}
    <2> SUFFICES ASSUME B # {} PROVE FALSE
        OBVIOUS
    <2>1. PICK m \in B : \A k \in B : m <= k
        <3>1. B \in SUBSET Nat
            BY <1>1
        <3> HIDE DEF B
        <3> QED
            BY <3>1, LeastElement
    <2>2. m \in n..Len(s) /\ ~Same(m) /\ m # n
        BY <2>1
    <2>3. m \in 1..Len(s) /\ m - 1 \in n..Len(s) /\ ~(m <= m - 1) /\ ~(m <= n)
        BY <1>1, <2>2
    <2>4. Same(m - 1)
        BY <2>1, <2>3
    <2>5. s[m] = Blank
        BY <1>2, <2>3 DEF Solid
    <2>6. /\ SubSeq(s, 1, m) = Append(SubSeq(s, 1, m - 1), s[m])
          /\ SubSeq(s, 1, m - 1) \in Seq(Byte) /\ s[m] \in Byte
        BY <2>3, BeginningGrows
    <2>7. Words(SubSeq(s, 1, m)) = Words(SubSeq(s, 1, m - 1))
        BY <2>5, <2>6, WordsAppend
    <2> QED
        BY <2>2, <2>4, <2>7
<1>4. Same(Len(s))
    BY <1>1, <1>3
<1>5. SubSeq(s, 1, Len(s)) = s
    BY SubSeqFull
<1> QED
    BY <1>2, <1>4, <1>5

\* What is put before a text is before the text and a byte more.
LEMMA ConcatAppend ==
    ASSUME NEW s \in Seq(Byte), NEW u \in Seq(Byte), NEW e \in Byte
    PROVE  s \o Append(u, e) = Append(s \o u, e)
<1>1. s \o u \in Seq(Byte) /\ <<e>> \in Seq(Byte)
    BY ConcatProperties
<1>2. Append(u, e) = u \o <<e>> /\ Append(s \o u, e) = (s \o u) \o <<e>>
    BY <1>1, AppendIsConcat
<1>3. (s \o u) \o <<e>> = s \o (u \o <<e>>)
    BY <1>1, ConcatAssociative
<1> QED
    BY <1>2, <1>3

\* Nor are the marks and the white space around it.
LEMMA WordsAround ==
    ASSUME NEW s \in Seq(Byte)
    PROVE  /\ Words(<<Mark, Blank>> \o s) = Words(s)
           /\ Words(s \o <<Blank, Mark, Blank>>) = Words(s)
<1> DEFINE front == <<Mark, Blank>>
           Same(m) == Words(front \o SubSeq(s, 1, m)) = Words(SubSeq(s, 1, m))
           B == {m \in 0..Len(s) : ~Same(m)}
<1>1. /\ Mark \in Byte /\ Blank \in Byte /\ <<>> \in Seq(Byte) /\ front \in Seq(Byte)
      /\ <<Blank>> \in Seq(Byte) /\ <<Mark>> \in Seq(Byte) /\ Len(s) \in Nat
    BY TextAssumption, EmptySeq, LenProperties
<1>2. B = {}
    <2> SUFFICES ASSUME B # {} PROVE FALSE
        OBVIOUS
    <2>1. PICK m \in B : \A k \in B : m <= k
        <3>1. B \in SUBSET Nat
            BY <1>1
        <3> HIDE DEF B
        <3> QED
            BY <3>1, LeastElement
    <2>2. m \in 0..Len(s) /\ ~Same(m)
        BY <2>1
    <2>3. CASE m = 0
        <3>1. SubSeq(s, 1, 0) = <<>>
            BY SubSeqEmpty
        <3>2. front \o <<>> = front
            BY <1>1, ConcatEmptySeq
        <3>3. front = Append(Append(<<>>, Mark), Blank) /\ Append(<<>>, Mark) \in Seq(Byte)
            BY <1>1
        <3>4. Words(Append(Append(<<>>, Mark), Blank)) = Words(Append(<<>>, Mark))
            BY <1>1, <3>3, WordsAppend
        <3>5. Words(Append(<<>>, Mark)) = Words(<<>>)
            BY <1>1, WordsAppend
        <3> QED
            BY <2>2, <2>3, <3>1, <3>2, <3>3, <3>4, <3>5
    <2>4. CASE m # 0
        <3> DEFINE u == SubSeq(s, 1, m - 1)
                   e == s[m]
        <3>1. m \in 1..Len(s) /\ m - 1 \in 0..Len(s) /\ ~(m <= m - 1)
            BY <1>1, <2>2, <2>4
        <3>2. Same(m - 1)
            BY <2>1, <3>1
        <3>3. SubSeq(s, 1, m) = Append(u, e) /\ u \in Seq(Byte) /\ e \in Byte
            BY <3>1, BeginningGrows
        <3> HIDE DEF u, e
        <3>4. front \o Append(u, e) = Append(front \o u, e) /\ front \o u \in Seq(Byte)
            <4> HIDE DEF front
            <4> QED
                BY <1>1, <3>3, ConcatAppend, ConcatProperties
        <3> HIDE DEF front
        <3>5. /\ e \in {Mark, Blank} => Words(Append(u, e)) = Words(u)
              /\ e \notin {Mark, Blank} => Words(Append(u, e)) = Append(Words(u), e)
            BY <3>3, WordsAppend
        <3>6. /\ e \in {Mark, Blank} => Words(Append(front \o u, e)) = Words(front \o u)
              /\ e \notin {Mark, Blank} => Words(Append(front \o u, e)) = Append(Words(front \o u), e)
            BY <3>3, <3>4, WordsAppend
        <3>7. Words(front \o u) = Words(u)
            BY <3>2 DEF u
        <3>8. Same(m)
            BY <3>3, <3>4, <3>5, <3>6, <3>7
        <3> QED
            BY <2>2, <3>8
    <2> QED
        BY <2>3, <2>4
<1>3. Words(front \o s) = Words(s)
    <2>1. Same(Len(s))
        BY <1>1, <1>2
    <2>2. SubSeq(s, 1, Len(s)) = s
        BY SubSeqFull
    <2> QED
        BY <2>1, <2>2
<1>4. Words(s \o <<Blank, Mark, Blank>>) = Words(s)
    <2> DEFINE x == Append(s, Blank)
               y == Append(x, Mark)
               z == Append(y, Blank)
    <2>1. x \in Seq(Byte) /\ y \in Seq(Byte)
        BY <1>1, AppendProperties
    <2>2. s \o <<Blank, Mark, Blank>> = z
        <3> DEFINE one == Append(<<>>, Blank)
                   two == Append(one, Mark)
        <3>1. <<Blank, Mark, Blank>> = Append(two, Blank)
            BY <1>1
        <3>2. one \in Seq(Byte) /\ two \in Seq(Byte)
            BY <1>1, AppendProperties
        <3>3. s \o one = x
            BY <1>1, ConcatAppend, ConcatEmptySeq
        <3> HIDE DEF one, x
        <3>4. s \o two = y
            BY <1>1, <3>2, <3>3, ConcatAppend
        <3> HIDE DEF two, y
        <3> QED
            BY <1>1, <3>1, <3>2, <3>4, ConcatAppend
    <2>3. Words(x) = Words(s)
        BY <1>1, WordsAppend
    <2>4. Words(y) = Words(x)
        <3> HIDE DEF x
        <3> QED
            BY <1>1, <2>1, WordsAppend
    <2>5. Words(z) = Words(y)
        <3> HIDE DEF y
        <3> QED
            BY <1>1, <2>1, WordsAppend
    <2> QED
        BY <2>2, <2>3, <2>4, <2>5
<1> QED
    BY <1>3, <1>4

\* The text as it goes to the machine has the words of the file.
LEMMA WrappedWords ==
    ASSUME NEW s \in Seq(Byte)
    PROVE  Words(Wrapped(s)) = Words(s)
<1>1. Opened(s) \in Seq(Byte) /\ Words(Opened(s)) = Words(s)
    <2>1. <<Mark, Blank>> \in Seq(Byte)
        BY TextAssumption
    <2>2. <<Mark, Blank>> \o s \in Seq(Byte)
        BY <2>1, ConcatProperties
    <2> QED
        BY <2>2, WordsAround DEF Opened
<1> DEFINE o == Opened(s)
<1>2. Words(RStrip(o) \o <<Blank, Mark, Blank>>) = Words(o)
    <2> HIDE DEF o
    <2>1. o \in Seq(Byte)
        BY <1>1 DEF o
    <2>2. RStrip(o) \in Seq(Byte) /\ Words(RStrip(o)) = Words(o)
        BY <2>1, RStripType, WordsRStrip
    <2> DEFINE r == RStrip(o)
    <2> HIDE DEF r
    <2>3. r \in Seq(Byte) /\ Words(r) = Words(o)
        BY <2>2 DEF r
    <2>4. Words(r \o <<Blank, Mark, Blank>>) = Words(r)
        BY <2>3, WordsAround
    <2> QED
        BY <2>3, <2>4 DEF r
<1> QED
    BY <1>1, <1>2 DEF Wrapped

\* The first mark: what was not bare begins with a mark and has more than it.
LEMMA OpenedStarts ==
    ASSUME NEW s \in Seq(Byte), ~Bare(s)
    PROVE  Opened(s) \in Seq(Byte) /\ StartsTape(Opened(s)) /\ ~Bare(Opened(s))
<1>1. CASE StartsTape(s)
    BY <1>1 DEF Opened
<1>2. CASE ~StartsTape(s)
    <2> DEFINE front == <<Mark, Blank>>
               o == front \o s
    <2>1. front \in Seq(Byte) /\ Len(front) = 2 /\ front[1] = Mark
        BY TextAssumption
    <2> HIDE DEF front
    <2>2. /\ o \in Seq(Byte) /\ Len(o) = Len(front) + Len(s) /\ Len(s) \in Nat
          /\ \A i \in 1..Len(front) + Len(s) :
                o[i] = IF i <= Len(front) THEN front[i] ELSE s[i - Len(front)]
        BY <2>1, ConcatProperties, LenProperties
    <2> HIDE DEF o
    <2>3. 1 \in Solid(o) /\ o[1] = Mark
        <3>1. Mark # Blank
            BY DEF Mark, Blank
        <3> QED
            BY <2>1, <2>2, <3>1 DEF Solid
    <2>4. \A j \in Solid(o) : 1 <= j
        BY <2>2 DEF Solid
    <2>5. PICK a \in Solid(s) : TRUE
        BY DEF Bare
    <2>6. a \in 1..Len(s) /\ s[a] # Blank
        BY <2>5 DEF Solid
    <2>7. a + 2 \in 1..Len(front) + Len(s) /\ ~(a + 2 <= Len(front)) /\ (a + 2) - Len(front) = a
        BY <2>1, <2>2, <2>6
    <2>8. a + 2 \in Solid(o) /\ 1 # a + 2
        BY <2>2, <2>6, <2>7 DEF Solid
    <2>9. o = Opened(s)
        BY <1>2 DEF Opened, o, front
    <2> QED
        BY <2>2, <2>3, <2>4, <2>8, <2>9 DEF StartsTape, Bare
<1> QED
    BY <1>1, <1>2

\* The last mark, too: a tape is made of every text but a bare one.
LEMMA WrappedIsTape ==
    ASSUME NEW s \in Seq(Byte), ~Bare(s)
    PROVE  IsTape(Wrapped(s))
<1> DEFINE o == Opened(s)
           r == RStrip(o)
           end == <<Blank, Mark, Blank>>
           w == r \o end
<1>0. Mark # Blank
    BY DEF Mark, Blank
<1>1. o \in Seq(Byte) /\ StartsTape(o) /\ ~Bare(o)
    BY OpenedStarts
<1> HIDE DEF o
<1>2. PICK n \in 0..Len(o) : r = SubSeq(o, 1, n) /\ \A i \in Solid(o) : i <= n
    BY <1>1, RStripFacts
<1>3. Len(o) \in Nat /\ r \in Seq(Byte) /\ Len(r) = n
    <2>1. Len(o) \in Nat
        BY <1>1, LenProperties
    <2> QED
        BY <1>1, <1>2, <2>1, BeginningFacts
<1>4. \A i \in 1..n : r[i] = o[i]
    <2>1. n \in Int /\ \A j \in 1..n : o[j] \in Byte
        BY <1>1, <1>3, ElementOfSeq
    <2>2. \A i \in 1..n - 1 + 1 : SubSeq(o, 1, n)[i] = o[1 + i - 1]
        BY <2>1, SubSeqProperties
    <2> HIDE DEF r
    <2> QED
        BY <1>2, <1>3, <2>2
<1> HIDE DEF r
<1>5. end \in Seq(Byte) /\ Len(end) = 3 /\ end[1] = Blank /\ end[2] = Mark /\ end[3] = Blank
    BY TextAssumption
<1> HIDE DEF end
<1>6. /\ Len(w) = n + 3
      /\ \A i \in 1..n + 3 : w[i] = IF i <= n THEN r[i] ELSE end[i - n]
    <2>1. /\ Len(w) = Len(r) + Len(end)
          /\ \A i \in 1..Len(r) + Len(end) :
                w[i] = IF i <= Len(r) THEN r[i] ELSE end[i - Len(r)]
        BY <1>3, <1>5, ConcatProperties
    <2> HIDE DEF w
    <2> QED
        BY <1>3, <1>5, <2>1
<1> HIDE DEF w
<1>7. StartsTape(w) /\ \E i \in Solid(w) : i <= n /\ w[i] = Mark
    <2>1. PICK i \in Solid(o) : o[i] = Mark /\ \A j \in Solid(o) : i <= j
        BY <1>1 DEF StartsTape
    <2>2. i \in 1..n /\ i \in 1..n + 3
        BY <1>2, <1>3 DEF Solid
    <2>3. w[i] = Mark /\ i \in Solid(w)
        BY <1>0, <1>3, <1>4, <1>6, <2>1, <2>2 DEF Solid
    <2>4. ASSUME NEW j \in Solid(w) PROVE i <= j
        <3>1. j \in 1..n + 3 /\ w[j] # Blank
            BY <1>6 DEF Solid
        <3>2. CASE j <= n
            <4>1. j \in 1..n /\ j \in 1..Len(o) /\ w[j] = o[j]
                BY <1>3, <1>4, <1>6, <3>1, <3>2
            <4> QED
                BY <2>1, <3>1, <4>1 DEF Solid
        <3>3. CASE ~(j <= n)
            BY <1>3, <2>2, <3>1, <3>3
        <3> QED
            BY <3>2, <3>3
    <2> QED
        BY <2>2, <2>3, <2>4 DEF StartsTape
<1>8. EndsTape(w) /\ n + 2 \in Solid(w) /\ w[n + 2] = Mark
    <2>1. n + 2 \in 1..n + 3 /\ ~(n + 2 <= n) /\ (n + 2) - n = 2
          /\ n + 3 \in 1..n + 3 /\ ~(n + 3 <= n) /\ (n + 3) - n = 3
        BY <1>3
    <2>2. w[n + 2] = Mark /\ w[n + 3] = Blank
        BY <1>5, <1>6, <2>1
    <2>3. n + 2 \in Solid(w)
        BY <1>0, <1>6, <2>1, <2>2 DEF Solid
    <2>4. \A j \in Solid(w) : j <= n + 2
        <3> SUFFICES ASSUME NEW j \in Solid(w) PROVE j <= n + 2
            OBVIOUS
        <3>1. j \in 1..n + 3 /\ j # n + 3
            BY <1>6, <2>2 DEF Solid
        <3> QED
            BY <1>3, <3>1
    <2> QED
        BY <2>2, <2>3, <2>4 DEF EndsTape
<1>9. Wrapped(s) = IF EndsTape(o) THEN o ELSE w
    BY DEF Wrapped, o, w, r, end
<1>10. TwoMarks(w)
    <2>1. \A i \in Solid(w) : i <= n => i < n + 2
        BY <1>3, <1>6 DEF Solid
    <2> QED
        BY <1>7, <1>8, <2>1 DEF TwoMarks
<1>11. EndsTape(o) => TwoMarks(o)
    <2> SUFFICES ASSUME EndsTape(o) PROVE TwoMarks(o)
        OBVIOUS
    <2>1. PICK i \in Solid(o) : o[i] = Mark /\ \A k \in Solid(o) : i <= k
        BY <1>1 DEF StartsTape
    <2>2. PICK j \in Solid(o) : o[j] = Mark /\ \A k \in Solid(o) : k <= j
        BY DEF EndsTape
    <2>3. \A k \in Solid(o) : k \in Int
        BY DEF Solid
    <2>4. i # j
        <3> SUFFICES ASSUME i = j PROVE FALSE
            OBVIOUS
        <3>1. \A k \in Solid(o) : k = i
            BY <2>1, <2>2, <2>3
        <3> QED
            BY <1>1, <2>1, <3>1 DEF Bare
    <2>5. i < j
        BY <2>1, <2>3, <2>4
    <2> QED
        BY <2>1, <2>2, <2>5 DEF TwoMarks
<1> QED
    BY <1>1, <1>7, <1>8, <1>9, <1>10, <1>11 DEF IsTape

-----------------------------------------------------------------------------
(* What the control is given is a beginning of the wrapped text.             *)

SentSoFar ==
    \A c \in Sends : pc[c] = "sending" =>
        at <= Len(Wrapped(text)) /\ tape = SubSeq(Wrapped(text), 1, at)

\* What is read of the file is a text.
LEMMA TextFacts ==
    ASSUME TypeOK
    PROVE  /\ text \in Seq(Byte) /\ Wrapped(text) \in Seq(Byte)
           /\ Len(Wrapped(text)) \in Nat /\ at \in Nat
<1>1. text \in Seq(Byte)
    BY TextAssumption, EmptySeq DEF TypeOK
<1> QED
    BY <1>1, WrappedType, LenProperties DEF TypeOK

\* A step in which no send enters its loop and the running one is not touched.
LEMMA SentKept ==
    ASSUME SentSoFar,
           \A c \in Sends : pc'[c] = "sending" => pc[c] = "sending" /\ UNCHANGED <<text, at, tape>>
    PROVE  SentSoFar'
BY DEF SentSoFar

\* A send begins with nothing given.
LEMMA EnterSendSends ==
    ASSUME IInv, SentSoFar, NEW c \in Callers, EnterSend(c) PROVE SentSoFar'
<1>1. TypeOK'
    BY EnterSendStep DEF IInv
<1>2. at' = 0 /\ tape' = <<>>
    BY DEF EnterSend
<1> DEFINE w == Wrapped(text')
<1>3. w \in Seq(Byte) /\ Len(w) \in Nat
    <2>1. text' \in Seq(Byte)
        BY <1>1, TextAssumption, EmptySeq DEF TypeOK
    <2> DEFINE t == text'
    <2> HIDE DEF t
    <2>2. t \in Seq(Byte)
        BY <2>1 DEF t
    <2>3. Wrapped(t) \in Seq(Byte) /\ Len(Wrapped(t)) \in Nat
        BY <2>2, WrappedType, LenProperties
    <2> QED
        BY <2>3 DEF t
<1> HIDE DEF w
<1>4. at' <= Len(w) /\ tape' = SubSeq(w, 1, at')
    BY <1>2, <1>3, SubSeqEmpty
<1> QED
    BY <1>4 DEF SentSoFar, w

\* A chunk continues what was given.
LEMMA DownloadSends ==
    ASSUME IInv, SentSoFar, NEW c \in Callers, Download(c) PROVE SentSoFar'
<1> DEFINE w == Wrapped(text)
           n == IF at + ChunkSize < Len(w) THEN ChunkSize ELSE Len(w) - at
<1>1. w \in Seq(Byte) /\ Len(w) \in Nat /\ at \in Nat
    BY TextFacts DEF IInv
<1>2. at < Len(w) /\ tape' = tape \o NextChunk /\ at' = at + Len(NextChunk) /\ text' = text /\ pc' = pc
    BY DEF Download
<1>3. tape = SubSeq(w, 1, at)
    BY DEF Download, SentSoFar, IInv, OwnLoop
<1>4. NextChunk = SubSeq(w, at + 1, at + n)
    <2> DEFINE L == Len(w)
    <2>1. NextChunk = SubSeq(w, at + 1, IF at + ChunkSize < L THEN at + ChunkSize ELSE L)
        BY DEF NextChunk
    <2>2. (IF at + ChunkSize < L THEN at + ChunkSize ELSE L) = at + n
        <3> L \in Nat /\ at \in Nat /\ ChunkSize \in Nat
            BY <1>1, ChunkAssumption
        <3> HIDE DEF L, w
        <3> QED
            BY DEF L
    <2> QED
        BY <2>1, <2>2
<1> HIDE DEF w
<1>5. n \in Nat \ {0} /\ at + n <= Len(w) /\ at \in 0..Len(w)
    BY <1>1, <1>2, ChunkAssumption
<1> HIDE DEF n
<1>6. /\ Len(NextChunk) = n
      /\ SubSeq(w, 1, at) \o NextChunk = SubSeq(w, 1, at + n)
    BY <1>1, <1>4, <1>5, AnswerContinues
<1>7. at' <= Len(w) /\ tape' = SubSeq(w, 1, at')
    BY <1>2, <1>3, <1>5, <1>6
<1>8. Wrapped(text') = w
    BY <1>2 DEF w
<1> QED
    BY <1>7, <1>8 DEF SentSoFar

\* Whoever leaves a loop, the others stay where they are.
LEMMA LeaveSends ==
    ASSUME IInv, SentSoFar, NEW c \in Callers, NEW where \in {"after", "error", "ended", "saving"},
           Goes(c, where), UNCHANGED <<text, tape>>, pc[c] \in Inside
    PROVE  SentSoFar'
<1>1. \A d \in Callers : d # c => pc[d] # "sending"
    BY OneInTheLoop DEF IInv
<1>2. pc' = [pc EXCEPT ![c] = where]
      /\ pc \in [Callers -> Places]
    BY DEF Goes, IInv, TypeOK
<1>3. \A d \in Callers : pc'[d] # "sending"
    BY <1>1, <1>2
<1> QED
    BY <1>3 DEF SentSoFar, Callers

\* A fetch that goes on sends nothing.
LEMMA UploadSends ==
    ASSUME IInv, SentSoFar, NEW c \in Callers,
           Upload(c) \/ UploadStops(c) \/ OpenSpool(c) \/ WriteSpool(c) \/ SaveFails(c)
    PROVE  SentSoFar'
<1>1. pc[c] \in Inside /\ pc[c] # "sending" /\ UNCHANGED <<text, tape>>
    BY DEF Upload, UploadStops, OpenSpool, WriteSpool, SaveFails, callVars, controlVars
<1>2. CASE pc' = pc
    <2>1. \A d \in Sends : pc[d] # "sending"
        BY <1>1, OneInTheLoop DEF IInv, Callers
    <2> QED
        BY <1>2, <2>1 DEF SentSoFar
<1>3. CASE pc' # pc
    <2>1. \E where \in {"after", "error", "ended", "saving"} : Goes(c, where)
        BY <1>3 DEF Upload, UploadStops, EndUpload, OpenSpool, WriteSpool, SaveFails, Leave
    <2> QED
        BY <1>1, <2>1, LeaveSends
<1> QED
    BY <1>2, <1>3

\* Every step keeps it.
LEMMA NextSends == IInv /\ SentSoFar /\ [Next]_vars => SentSoFar'
<1> SUFFICES ASSUME IInv, SentSoFar, [Next]_vars PROVE SentSoFar'
    OBVIOUS
<1>1. pc \in [Callers -> Places]
    BY DEF IInv, TypeOK
<1>2. ASSUME NEW c \in Callers, Ask(c) \/ Enter(c) \/ Transfer(c) \/ After(c) PROVE SentSoFar'
    <2>1. CASE EnterSend(c)
        BY <2>1, EnterSendSends
    <2>2. CASE EnterFetch(c)
        <3>1. \A d \in Callers : pc[d] # "sending"
            BY <2>2, NoneInTheLoop DEF IInv, EnterFetch
        <3>2. pc' = [pc EXCEPT ![c] = "receiving"]
            BY <2>2 DEF EnterFetch, Goes
        <3> QED
            BY <1>1, <3>1, <3>2 DEF SentSoFar, Callers
    <2>3. CASE Ask(c) \/ EnterFails(c) \/ GetSize(c) \/ Move(c)
        <3>1. \E where \in {"waiting", "error", "ok"} : pc' = [pc EXCEPT ![c] = where]
            BY <2>3 DEF Ask, EnterFails, GetSize, Move, Goes
        <3>2. UNCHANGED <<text, at, tape>>
            BY <2>3 DEF Ask, EnterFails, GetSize, Move, callVars, controlVars
        <3>3. \A d \in Callers : pc'[d] = "sending" => pc[d] = "sending"
            BY <1>1, <3>1
        <3> QED
            BY <3>2, <3>3, SentKept DEF Callers
    <2>4. CASE Download(c)
        BY <2>4, DownloadSends
    <2>5. CASE DownloadEnds(c) \/ DownloadFails(c)
        <3>1. pc[c] = "sending" /\ UNCHANGED <<text, tape>>
            BY <2>5 DEF DownloadEnds, DownloadFails, callVars
        <3>2. \E where \in {"after", "error"} : Goes(c, where)
            BY <2>5 DEF DownloadEnds, DownloadFails, Leave
        <3> QED
            BY <3>1, <3>2, LeaveSends
    <2>6. CASE Upload(c) \/ UploadStops(c) \/ OpenSpool(c) \/ WriteSpool(c) \/ SaveFails(c)
        BY <2>6, UploadSends
    <2> QED
        BY <1>2, <2>1, <2>2, <2>3, <2>4, <2>5, <2>6 DEF Enter, Transfer, After
<1>3. CASE DropSession \/ Replace \/ CloseHandle
    <2>1. UNCHANGED <<pc, text, at, tape>>
        BY <1>3 DEF DropSession, Replace, CloseHandle, callVars, controlVars
    <2> QED
        BY <2>1, SentKept
<1>4. CASE UNCHANGED vars
    BY <1>4, SentKept DEF vars, callVars, controlVars
<1> QED
    BY <1>2, <1>3, <1>4 DEF Next

\* A send that ends has given the whole text as it was wrapped.
LEMMA SendEnds ==
    ASSUME IInv, SentSoFar, NEW c \in Sends, [Next]_vars, pc[c] = "sending", pc'[c] = "after"
    PROVE  /\ IsTape(tape') \/ Bare(text)
           /\ Words(tape') = Words(text)
           /\ memory' = tape' \/ failures' > 0
<1>1. pc \in [Callers -> Places] /\ c \in Callers
    BY DEF IInv, TypeOK, Callers
<1>2. DownloadEnds(c)
    <2>1. PICK d \in Callers : Ask(d) \/ Enter(d) \/ Transfer(d) \/ After(d)
        BY DEF Next, vars, DropSession, Replace, CloseHandle
    <2>2. \E where : pc' = [pc EXCEPT ![d] = where] \/ pc' = pc
        BY <2>1 DEF Ask, Enter, EnterSend, EnterFetch, EnterFails, Transfer, Download, DownloadEnds,
                    DownloadFails, Upload, UploadStops, EndUpload, OpenSpool, WriteSpool, SaveFails,
                    After, GetSize, Move, Leave, Goes
    <2>3. d = c
        BY <1>1, <2>2
    <2>4. ~DownloadFails(c)
        BY <1>1 DEF DownloadFails, Leave, Goes
    <2> QED
        BY <2>1, <2>3, <2>4 DEF Ask, Enter, EnterSend, EnterFetch, EnterFails, Transfer, Download,
                                Upload, UploadStops, OpenSpool, WriteSpool, SaveFails,
                                After, GetSize, Move
<1> DEFINE w == Wrapped(text)
<1>3. text \in Seq(Byte) /\ w \in Seq(Byte) /\ Len(w) \in Nat /\ at \in Nat
    BY TextFacts DEF IInv
<1>4. at <= Len(w) /\ tape = SubSeq(w, 1, at)
    BY DEF SentSoFar
<1>5. at >= Len(w) /\ tape' = tape
    BY <1>2 DEF DownloadEnds
<1>6. memory' = tape' \/ failures' > 0
    BY <1>2, FaultFacts DEF DownloadEnds, IInv
<1>7. tape' = w
    <2> HIDE DEF w
    <2>1. at = Len(w)
        BY <1>3, <1>4, <1>5
    <2> QED
        BY <1>3, <1>4, <1>5, <2>1, SubSeqFull
<1> QED
    BY <1>3, <1>6, <1>7, WrappedIsTape, WrappedWords

\* SendDelivers: what the control is given of a send that ended is a tape, unless the
\* file was bare, and has the words of the file as it was when it was read; and the
\* control keeps it, unless something failed.
THEOREM SentPrograms == Spec => SendDelivers
<1>1. Init => SentSoFar
    BY DEF Init, SentSoFar, Callers
<1>2. IInv /\ SentSoFar /\ [Next]_vars =>
        [\A c \in Sends : pc[c] = "sending" /\ pc'[c] = "after" =>
              /\ IsTape(tape') \/ Bare(text)
              /\ Words(tape') = Words(text)
              /\ memory' = tape' \/ failures' > 0]_vars
    BY SendEnds
<1> QED
    BY <1>1, <1>2, NextSends, Invariance, PTL DEF Spec, SendDelivers

-----------------------------------------------------------------------------
(* The callers see one call at a time.                                       *)

Given == IF lock \in Sends THEN text ELSE <<>>
Come(p) == IF p \in {"after", "ok", "error"} THEN p ELSE "none"
Outcome == [c \in Callers |-> IF pc[c] \in {"after", "ok", "error"} THEN pc[c] ELSE "none"]

LEMMA WrappedSame == ASSUME NEW t PROVE Calls!Wrapped(t) = Wrapped(t)
BY DEF Calls!Wrapped, Calls!Opened, Calls!StartsTape, Calls!EndsTape, Calls!Solid, Calls!RStrip,
       Calls!Mark, Calls!Blank,
       Wrapped, Opened, StartsTape, EndsTape, Solid, RStrip, Mark, Blank

\* A step moves one call; what of it shows.
LEMMA OutcomeMoves ==
    ASSUME TypeOK, NEW c \in Callers, NEW where, pc' = [pc EXCEPT ![c] = where]
    PROVE  /\ Outcome[c] = Come(pc[c])
           /\ Outcome' = [Outcome EXCEPT ![c] = Come(where)]
           /\ Come(where) = Come(pc[c]) => Outcome' = Outcome
<1>1. pc \in [Callers -> Places]
    BY DEF TypeOK
<1>2. Outcome = [d \in Callers |-> Come(pc[d])] /\ Outcome' = [d \in Callers |-> Come(pc'[d])]
    BY DEF Outcome, Come
<1>3. \A d \in Callers : pc'[d] = IF d = c THEN where ELSE pc[d]
    BY <1>1
<1> QED
    BY <1>2, <1>3

\* What has the line, and what it is sending.
LEMMA LineFacts ==
    ASSUME IInv, NEW c \in Callers
    PROVE  /\ pc[c] = "sending" => lock = c /\ c \in Sends /\ c \notin Fetches /\ Given = text
           /\ pc[c] \in {"receiving", "ended", "saving"} =>
                 lock = c /\ c \in Fetches /\ c \notin Sends /\ Given = <<>>
           /\ lock = Free => Given = <<>>
BY CallersAssumption DEF IInv, TypeOK, OwnLoop, Given, Callers

\* The mapped state of the calls.
LEMMA CallsUnchanged ==
    ASSUME UNCHANGED <<queue, memory, spool, dest, lock>>, Outcome' = Outcome, Given' = Given
    PROVE  UNCHANGED Calls!vars
BY DEF Calls!vars, Outcome, Given

\* A call gets the line.
LEMMA BeginsCall ==
    ASSUME IInv, NEW c \in Callers, EnterSend(c) \/ EnterFetch(c)
    PROVE  Calls!Next
<1>1. /\ pc[c] = "waiting" /\ lock = Free /\ lock' = c
      /\ \E where \in {"sending", "receiving"} : pc' = [pc EXCEPT ![c] = where]
      /\ UNCHANGED <<queue, memory, spool, dest>>
    BY DEF EnterSend, EnterFetch, Goes, fileVars
<1>2. Come("waiting") = "none" /\ Come("sending") = "none" /\ Come("receiving") = "none"
    BY DEF Come
<1>3. Outcome[c] = "none" /\ Outcome' = Outcome
    <2>1. PICK where \in {"sending", "receiving"} : pc' = [pc EXCEPT ![c] = where]
        BY <1>1
    <2>2. Come(where) = "none" /\ Come(pc[c]) = "none"
        BY <1>1, <1>2, <2>1
    <2> QED
        BY <2>1, <2>2, OutcomeMoves DEF IInv
<1>4. Given = <<>>
    BY <1>1, LineFacts
<1>5. IF c \in Sends THEN queue # Absent /\ Given' = queue ELSE Given' = Given
    <2>1. CASE EnterSend(c)
        BY <1>1, <2>1 DEF EnterSend, Given
    <2>2. CASE EnterFetch(c)
        BY <1>1, <1>4, <2>2, CallersAssumption DEF EnterFetch, Given
    <2> QED
        BY <2>1, <2>2
<1>6. Calls!Begin(c)
    BY <1>1, <1>3, <1>5 DEF Calls!Begin, Outcome, Given
<1> QED
    BY <1>6 DEF Calls!Next, Calls!Callers, Callers

\* A call fails before it gets the line.
LEMMA RefusesCall ==
    ASSUME IInv, NEW c \in Callers, EnterFails(c)
    PROVE  Calls!Next
<1>1. /\ pc[c] = "waiting" /\ lock = Free /\ lock' = lock
      /\ pc' = [pc EXCEPT ![c] = "error"]
      /\ UNCHANGED <<queue, memory, spool, dest, text>>
    BY DEF EnterFails, Goes, fileVars, controlVars, callVars
<1>2. Outcome[c] = "none" /\ Outcome' = [Outcome EXCEPT ![c] = "error"]
    BY <1>1, OutcomeMoves DEF IInv, Come
<1>3. Given' = Given
    BY <1>1 DEF Given
<1>4. Calls!Refuse(c)
    BY <1>1, <1>2, <1>3 DEF Calls!Refuse, Calls!Becomes, Outcome, Given
<1> QED
    BY <1>4 DEF Calls!Next, Calls!Callers, Callers

\* A send puts the whole text into the control, or raises.
LEMMA PutsProgram ==
    ASSUME IInv, SentSoFar, NEW c \in Callers, DownloadEnds(c) \/ DownloadFails(c)
    PROVE  Calls!Next
<1> DEFINE w == Wrapped(text)
<1>1. /\ pc[c] = "sending" /\ lock' = Free
      /\ UNCHANGED <<queue, spool, dest>>
    BY DEF DownloadEnds, DownloadFails, Leave, fileVars
<1>2. lock = c /\ c \in Sends /\ Given = text /\ Given' = <<>>
    BY <1>1, LineFacts, CallersAssumption DEF Given, Callers
<1>3. w \in Seq(Byte) /\ Len(w) \in Nat /\ at \in Nat /\ at <= Len(w) /\ tape = SubSeq(w, 1, at)
    BY <1>1, <1>2, TextFacts DEF IInv, SentSoFar
<1>4. Calls!Wrapped(text) = w
    BY WrappedSame
<1>5. CASE DownloadEnds(c)
    <2>1. at >= Len(w) /\ memory' \in {tape, memory} /\ pc' = [pc EXCEPT ![c] = "after"]
        BY <1>5 DEF DownloadEnds, Leave, Goes
    <2>2. memory' \in {memory, w}
        <3> HIDE DEF w
        <3>1. at = Len(w)
            BY <1>3, <2>1
        <3> QED
            BY <1>3, <2>1, <3>1, SubSeqFull
    <2>3. Outcome' = [Outcome EXCEPT ![c] = "after"]
        BY <2>1, OutcomeMoves DEF IInv, Come
    <2> HIDE DEF w
    <2>4. Calls!Put(c)
        BY <1>1, <1>2, <1>4, <2>2, <2>3 DEF Calls!Put, Calls!Becomes, Outcome, Given
    <2> QED
        BY <2>4 DEF Calls!Next, Calls!Callers, Callers
<1>6. CASE DownloadFails(c)
    <2>1. memory' \in {tape, memory} /\ pc' = [pc EXCEPT ![c] = "error"]
        BY <1>6 DEF DownloadFails, Leave, Goes
    <2>2. memory' \in {memory} \cup Calls!Beginnings(w)
        <3> HIDE DEF w
        <3>1. at \in 0..Len(w)
            BY <1>3
        <3> QED
            BY <1>3, <2>1, <3>1 DEF Calls!Beginnings
    <2>3. Outcome' = [Outcome EXCEPT ![c] = "error"]
        BY <2>1, OutcomeMoves DEF IInv, Come
    <2> HIDE DEF w
    <2>4. Calls!Put(c)
        BY <1>1, <1>2, <1>4, <2>2, <2>3 DEF Calls!Put, Calls!Becomes, Outcome, Given
    <2> QED
        BY <2>4 DEF Calls!Next, Calls!Callers, Callers
<1> QED
    BY <1>5, <1>6

\* What a fetch collects shows when it saves it.
LEMMA UploadCalls ==
    ASSUME IInv, NEW c \in Callers, Upload(c) \/ UploadStops(c)
    PROVE  UNCHANGED Calls!vars
<1>1. /\ pc[c] = "receiving"
      /\ pc' = pc \/ pc' = [pc EXCEPT ![c] = "ended"]
      /\ UNCHANGED <<queue, memory, spool, dest, lock, text>>
    BY DEF Upload, UploadStops, EndUpload, Goes, fileVars, callVars
<1>2. Come("receiving") = "none" /\ Come("ended") = "none"
    BY DEF Come
<1>3. Outcome' = Outcome
    <2>1. CASE pc' = pc
        BY <2>1 DEF Outcome
    <2>2. CASE pc' = [pc EXCEPT ![c] = "ended"]
        BY <1>1, <1>2, <2>2, OutcomeMoves DEF IInv
    <2> QED
        BY <1>1, <2>1, <2>2
<1>4. Given' = Given
    BY <1>1 DEF Given
<1> QED
    BY <1>1, <1>3, <1>4, CallsUnchanged

\* What a fetch begins to write is a beginning of its program.
LEMMA FillsFile ==
    ASSUME IInv, NEW c \in Callers, OpenSpool(c)
    PROVE  Calls!Next
<1> DEFINE s == Stored[Number[c]]
<1>1. pc[c] = "ended" /\ lock = c /\ c \in Fetches /\ Number[c] \in Numbers
    BY LineFacts, CallersAssumption DEF OpenSpool
<1>2. /\ pc' = [pc EXCEPT ![c] = "saving"]
      /\ UNCHANGED <<queue, memory, dest, lock, text>>
    BY DEF OpenSpool, Goes, callVars, controlVars
<1>3. PICK k \in 0..Len(chunks) : spool' = [spool EXCEPT ![Number[c]] = SubSeq(chunks, 1, k)]
    BY DEF OpenSpool
<1>4. s \in Seq(Byte) /\ Len(s) \in Nat
    BY <1>1, TextAssumption, LenProperties
<1>5. PICK i \in 0..Len(s) : chunks = SubSeq(s, 1, i)
    BY <1>1 DEF IInv, FetchedSoFar, Good, Begins
<1>6. SubSeq(chunks, 1, k) \in Calls!Beginnings(s)
    <2> HIDE DEF s
    <2>1. Len(chunks) = i /\ k \in 0..i /\ k \in 0..Len(s)
        BY <1>3, <1>4, <1>5, BeginningFacts
    <2>2. SubSeq(chunks, 1, k) = SubSeq(s, 1, k)
        BY <1>4, <1>5, <2>1, BeginningOfBeginning
    <2> QED
        BY <2>1, <2>2 DEF Calls!Beginnings
<1>7. Come("ended") = "none" /\ Come("saving") = "none"
    BY DEF Come
<1>8. Outcome' = Outcome /\ Given' = Given
    <2>1. Outcome' = Outcome
        BY <1>1, <1>2, <1>7, OutcomeMoves DEF IInv
    <2> QED
        BY <1>2, <2>1 DEF Given
<1>9. Calls!Fill(c)
    BY <1>1, <1>2, <1>3, <1>6, <1>8 DEF Calls!Fill, Outcome, Given
<1> QED
    BY <1>9 DEF Calls!Next, Calls!Callers, Callers

\* A fetch has its file, or raises.
LEMMA GetsProgram ==
    ASSUME IInv, NEW c \in Callers, WriteSpool(c) \/ SaveFails(c)
    PROVE  Calls!Next
<1>1. /\ pc[c] \in {"ended", "saving"} /\ lock = c /\ c \in Fetches /\ Number[c] \in Numbers
      /\ Given = <<>>
    BY LineFacts, CallersAssumption DEF WriteSpool, SaveFails
<1>2. lock' = Free /\ UNCHANGED <<queue, memory, dest>>
    BY DEF WriteSpool, SaveFails, Leave, fileVars, controlVars
<1>3. Given' = Given
    BY <1>1, <1>2, CallersAssumption DEF Given, Callers
<1>4. CASE WriteSpool(c)
    <2>1. pc' = [pc EXCEPT ![c] = "after"]
        BY <1>4 DEF WriteSpool, Leave, Goes
    <2>2. Outcome' = [Outcome EXCEPT ![c] = "after"]
        BY <2>1, OutcomeMoves DEF IInv, Come
    <2>3. chunks \in Calls!Beginnings(Stored[Number[c]])
        BY <1>1 DEF IInv, FetchedSoFar, Good, Begins, Calls!Beginnings
    <2>4. \/ spool' = spool /\ spool[Number[c]] = Absent
          \/ spool' = [spool EXCEPT ![Number[c]] = chunks]
        BY <1>4 DEF WriteSpool
    <2>5. Calls!Get(c)
        BY <1>1, <1>2, <1>3, <2>2, <2>3, <2>4 DEF Calls!Get, Calls!Becomes, Outcome, Given
    <2> QED
        BY <2>5 DEF Calls!Next, Calls!Callers, Callers
<1>5. CASE SaveFails(c)
    <2>1. pc' = [pc EXCEPT ![c] = "error"] /\ UNCHANGED spool
        BY <1>5 DEF SaveFails, Leave, Goes, fileVars
    <2>2. Outcome' = [Outcome EXCEPT ![c] = "error"]
        BY <2>1, OutcomeMoves DEF IInv, Come
    <2>3. Calls!Get(c)
        BY <1>1, <1>2, <1>3, <2>1, <2>2 DEF Calls!Get, Calls!Becomes, Outcome, Given
    <2> QED
        BY <2>3 DEF Calls!Next, Calls!Callers, Callers
<1> QED
    BY <1>4, <1>5

\* A call returns.
LEMMA ReturnsCall ==
    ASSUME IInv, NEW c \in Callers, GetSize(c) \/ Move(c)
    PROVE  Calls!Next
<1>1. pc[c] = "after" /\ UNCHANGED <<lock, text, memory, queue>>
    BY DEF GetSize, Move, callVars, controlVars, fileVars
<1>2. Given' = Given
    BY <1>1 DEF Given
<1>3. \A w \in {"ok", "error"} :
         pc' = [pc EXCEPT ![c] = w] => Outcome[c] = "after" /\ Outcome' = [Outcome EXCEPT ![c] = w]
    BY <1>1, OutcomeMoves DEF IInv, Come
<1>4. CASE GetSize(c)
    <2> DEFINE w == IF queue = Absent THEN "error" ELSE "ok"
    <2>1. c \in Sends /\ pc' = [pc EXCEPT ![c] = w] /\ UNCHANGED <<spool, dest>> /\ w \in {"ok", "error"}
        BY <1>4 DEF GetSize, Goes, fileVars
    <2>2. Outcome[c] = "after" /\ Outcome' = [Outcome EXCEPT ![c] = w]
        BY <1>3, <2>1
    <2>3. Calls!Return(c)
        BY <1>1, <1>2, <2>1, <2>2 DEF Calls!Return, Calls!Becomes, Outcome, Given
    <2> QED
        BY <2>3 DEF Calls!Next, Calls!Callers, Callers
<1>5. CASE Move(c)
    <2>1. c \in Fetches
        BY <1>5 DEF Move
    <2>2. CASE /\ spool[Number[c]] = Absent \/ (c \notin InPlace /\ Writing(c) # {})
               /\ Goes(c, "error") /\ UNCHANGED <<spool, dest>>
        <3>1. pc' = [pc EXCEPT ![c] = "error"] /\ UNCHANGED <<spool, dest>>
            BY <2>2 DEF Goes
        <3>2. spool[Number[c]] = Absent \/ (lock \in Fetches /\ Number[lock] = Number[c])
            <4>1. ASSUME NEW d \in Writing(c) PROVE lock = d /\ d \in Fetches /\ Number[d] = Number[c]
                BY <4>1, LineFacts DEF Writing, Callers
            <4> QED
                BY <2>2, <4>1
        <3>3. Outcome[c] = "after" /\ Outcome' = [Outcome EXCEPT ![c] = "error"]
            BY <1>3, <3>1
        <3>4. Calls!Take(c)
            BY <1>1, <1>2, <2>1, <3>1, <3>2, <3>3 DEF Calls!Take, Calls!Becomes, Outcome, Given
        <3> QED
            BY <3>4 DEF Calls!Next, Calls!Callers, Callers
    <2>3. CASE /\ spool[Number[c]] # Absent /\ Goes(c, "ok")
               /\ dest' = [dest EXCEPT ![c] = spool[Number[c]]]
               /\ spool' = IF c \in InPlace THEN spool
                           ELSE [spool EXCEPT ![Number[c]] = Absent]
        <3>1. /\ pc' = [pc EXCEPT ![c] = "ok"]
              /\ dest' = [dest EXCEPT ![c] = spool[Number[c]]]
              /\ spool' = IF c \in InPlace THEN spool ELSE [spool EXCEPT ![Number[c]] = Absent]
            BY <2>3 DEF Goes
        <3>2. Outcome[c] = "after" /\ Outcome' = [Outcome EXCEPT ![c] = "ok"]
            BY <1>3, <3>1
        <3>3. Calls!Take(c)
            BY <1>1, <1>2, <2>1, <2>3, <3>1, <3>2 DEF Calls!Take, Calls!Becomes, Outcome, Given
        <3> QED
            BY <3>3 DEF Calls!Next, Calls!Callers, Callers
    <2> QED
        BY <1>5, <2>2, <2>3 DEF Move
<1> QED
    BY <1>4, <1>5

\* Steps of the library and its transfers that the callers do not see.
LEMMA HiddenStep ==
    ASSUME IInv, \/ \E c \in Callers : Ask(c) \/ Download(c)
                 \/ DropSession \/ CloseHandle \/ UNCHANGED vars
    PROVE  UNCHANGED Calls!vars
<1>1. UNCHANGED <<queue, memory, spool, dest, lock, text>>
    <2>1. CASE \E c \in Callers : Ask(c) \/ Download(c)
        BY <2>1 DEF Ask, Download, fileVars, controlVars, callVars
    <2>2. CASE DropSession \/ CloseHandle \/ UNCHANGED vars
        BY <2>2 DEF DropSession, CloseHandle, vars, fileVars, controlVars, callVars
    <2> QED
        BY <2>1, <2>2
<1>2. Given' = Given
    BY <1>1 DEF Given
<1>3. Outcome' = Outcome
    <2>1. ASSUME NEW c \in Callers, Ask(c) PROVE Outcome' = Outcome
        <3>1. pc[c] = "idle" /\ pc' = [pc EXCEPT ![c] = "waiting"]
            BY <2>1 DEF Ask, Goes
        <3>2. Come("waiting") = Come(pc[c])
            BY <3>1 DEF Come
        <3> QED
            BY <3>1, <3>2, OutcomeMoves DEF IInv
    <2>2. ASSUME pc' = pc PROVE Outcome' = Outcome
        BY <2>2 DEF Outcome
    <2> QED
        BY <2>1, <2>2 DEF Download, DropSession, CloseHandle, vars
<1> QED
    BY <1>1, <1>2, <1>3, CallsUnchanged

\* However calls, failures, the shutdown and the planning department come together,
\* the callers see one call at a time, each done or not done.
THEOREM CallRefinement == Spec => ImplementsCalls
<1>1. Init => Calls!Init
    <2> SUFFICES ASSUME Init PROVE Calls!Init
        OBVIOUS
    <2>1. /\ queue \in Texts \cup {Absent} /\ memory = <<>> /\ lock = Free /\ Given = <<>>
          /\ spool = [n \in DOMAIN Stored |-> Absent] /\ dest = [c \in Fetches |-> Absent]
        BY CallersAssumption DEF Init, Given, Numbers, Callers
    <2>2. Outcome = [c \in Callers |-> "none"]
        BY DEF Init, Outcome
    <2> QED
        BY <2>1, <2>2 DEF Calls!Init, Calls!Callers, Callers, Given, Outcome
<1>2. IInv /\ SentSoFar /\ [Next]_vars => [Calls!Next]_Calls!vars
    <2> SUFFICES ASSUME IInv, SentSoFar, [Next]_vars PROVE [Calls!Next]_Calls!vars
        OBVIOUS
    <2>1. ASSUME NEW c \in Callers, Ask(c) \/ Enter(c) \/ Transfer(c) \/ After(c)
          PROVE  [Calls!Next]_Calls!vars
        BY <2>1, BeginsCall, RefusesCall, PutsProgram, UploadCalls, FillsFile, GetsProgram,
           ReturnsCall, HiddenStep DEF Enter, Transfer, After
    <2>2. CASE Replace
        <3>1. /\ queue' \in Texts \cup {Absent}
              /\ UNCHANGED <<memory, spool, dest, lock, text, pc>>
            BY <2>2 DEF Replace, controlVars, callVars
        <3>2. Given' = Given /\ Outcome' = Outcome
            BY <3>1 DEF Given, Outcome
        <3>3. Calls!Replace
            BY <3>1, <3>2 DEF Calls!Replace, Given, Outcome
        <3> QED
            BY <3>3 DEF Calls!Next
    <2>3. CASE DropSession \/ CloseHandle \/ UNCHANGED vars
        BY <2>3, HiddenStep
    <2> QED
        BY <2>1, <2>2, <2>3 DEF Next
<1>3. Init => SentSoFar
    BY DEF Init, SentSoFar, Callers
<1> QED
    BY <1>1, <1>2, <1>3, NextSends, Invariance, PTL DEF Spec, ImplementsCalls, Calls!Spec
=============================================================================
