------------------------- MODULE SerialTransportProofs -------------------------
(***************************************************************************)
(* For any number of threads that send or drip-feed, any sizes, and any    *)
(* failures, SerialTransport keeps its types, its busy mark says what the  *)
(* listener holds, nobody writes into a program that arrives, the port is  *)
(* opened once, the long write timeout follows the drip-feed, and what is  *)
(* handed over is each program whole.                                      *)
(***************************************************************************)
EXTENDS SerialTransport, SequenceTheorems, FiniteSetTheorems,
        WellFoundedInduction, TLAPS

-----------------------------------------------------------------------------
(* Counting the '%' of a sequence of bytes.                                  *)

\* Where the '%' marks of s are.
Marks(s) == {i \in 1..Len(s) : IsPercent(s[i])}

\* The marks of a sequence are finitely many and PercentsIn counts them.
LEMMA MarksFinite ==
    ASSUME NEW S, NEW s \in Seq(S)
    PROVE  IsFiniteSet(Marks(s)) /\ PercentsIn(s) = Cardinality(Marks(s)) /\ PercentsIn(s) \in Nat
<1>1. Len(s) \in Nat
    BY LenProperties
<1>2. IsFiniteSet(1..Len(s))
    BY <1>1, FS_Interval
<1>3. Marks(s) \in SUBSET (1..Len(s))
    BY DEF Marks
<1>4. IsFiniteSet(Marks(s))
    BY <1>2, <1>3, FS_Subset
<1>5. PercentsIn(s) = Cardinality(Marks(s))
    BY DEF PercentsIn, Marks
<1> QED
    BY <1>4, <1>5, FS_CardinalityType

\* The empty buffer the listener starts from holds no '%'.
LEMMA NoMarks == PercentsIn(<<>>) = 0
<1>1. Marks(<<>>) = {}
    BY EmptySeq DEF Marks
<1> QED
    BY <1>1, FS_EmptySet DEF PercentsIn, Marks

\* The count of a concatenation is the sum of the counts.
LEMMA MarksAdd ==
    ASSUME NEW S, NEW s \in Seq(S), NEW t \in Seq(S)
    PROVE  PercentsIn(s \o t) = PercentsIn(s) + PercentsIn(t)
<1> DEFINE shift == [i \in Marks(t) |-> i + Len(s)]
           moved == {i + Len(s) : i \in Marks(t)}
<1>1. /\ Len(s) \in Nat /\ Len(t) \in Nat
      /\ Len(s \o t) = Len(s) + Len(t)
      /\ \A i \in 1..Len(s) + Len(t) :
            (s \o t)[i] = IF i <= Len(s) THEN s[i] ELSE t[i - Len(s)]
    BY LenProperties, ConcatProperties
<1>2. Marks(s \o t) = Marks(s) \cup moved
    <2>1. ASSUME NEW i \in Marks(s \o t) PROVE i \in Marks(s) \cup moved
        <3>1. i \in 1..Len(s) + Len(t) /\ IsPercent((s \o t)[i])
            BY <1>1, <2>1 DEF Marks
        <3>2. CASE i <= Len(s)
            BY <1>1, <3>1, <3>2 DEF Marks
        <3>3. CASE i > Len(s)
            <4>1. i - Len(s) \in 1..Len(t) /\ i = (i - Len(s)) + Len(s)
                BY <1>1, <3>1, <3>3
            <4>2. i - Len(s) \in Marks(t)
                BY <1>1, <3>1, <3>3, <4>1 DEF Marks
            <4> QED
                BY <4>1, <4>2
        <3> QED
            BY <1>1, <3>1, <3>2, <3>3
    <2>2. ASSUME NEW i \in Marks(s) PROVE i \in Marks(s \o t)
        BY <1>1 DEF Marks
    <2>3. ASSUME NEW j \in Marks(t) PROVE j + Len(s) \in Marks(s \o t)
        <3>1. j \in 1..Len(t) /\ IsPercent(t[j])
            BY DEF Marks
        <3>2. /\ j + Len(s) \in 1..Len(s) + Len(t)
              /\ ~(j + Len(s) <= Len(s))
              /\ (j + Len(s)) - Len(s) = j
            BY <1>1, <3>1
        <3> QED
            BY <1>1, <3>1, <3>2 DEF Marks
    <2> QED
        BY <2>1, <2>2, <2>3
<1>3. Marks(s) \cap moved = {}
    BY <1>1 DEF Marks
<1>4. IsFiniteSet(moved) /\ Cardinality(moved) = Cardinality(Marks(t))
    <2>1. shift \in [Marks(t) -> moved]
        OBVIOUS
    <2>2. \A i, j \in Marks(t) : shift[i] = shift[j] => i = j
        BY <1>1 DEF Marks
    <2>3. \A m \in moved : \E i \in Marks(t) : shift[i] = m
        OBVIOUS
    <2>4. shift \in Bijection(Marks(t), moved)
        BY <2>1, <2>2, <2>3 DEF Bijection, Injection, IsInjective, Surjection
    <2> QED
        BY <2>4, MarksFinite, FS_Bijection DEF ExistsBijection
<1>5. Cardinality(Marks(s) \cup moved)
        = Cardinality(Marks(s)) + Cardinality(moved) - Cardinality(Marks(s) \cap moved)
    BY <1>4, MarksFinite, FS_Union
<1>6. Cardinality(Marks(s) \cap moved) = 0
    BY <1>3, FS_EmptySet
<1>7. /\ PercentsIn(s) = Cardinality(Marks(s)) /\ PercentsIn(s) \in Nat
      /\ PercentsIn(t) = Cardinality(Marks(t)) /\ PercentsIn(t) \in Nat
    BY MarksFinite
<1>8. PercentsIn(s \o t) = Cardinality(Marks(s \o t))
    BY DEF PercentsIn, Marks
<1> QED
    BY <1>2, <1>4, <1>5, <1>6, <1>7, <1>8

-----------------------------------------------------------------------------
(* What one read takes off the wire, and what of it is kept.                 *)

\* The bytes the machine can punch.
Tape == {Token(k) : k \in Nat}

\* One read takes bytes of the tape and leaves bytes of the tape.
LEMMA ArrivedType ==
    ASSUME rx \in Seq(Tape)
    PROVE  /\ Arrived \in Seq(Tape)
           /\ SubSeq(rx, Len(Arrived) + 1, Len(rx)) \in Seq(Tape)
           /\ Len(SubSeq(rx, Len(Arrived) + 1, Len(rx))) <= Len(rx)
<1> DEFINE n == IF Len(rx) < ReadMax THEN Len(rx) ELSE ReadMax
<1>1. Len(rx) \in Nat /\ n \in 0..Len(rx)
    BY LenProperties, SizeAssumption
<1>2. \A i \in 1..Len(rx) : rx[i] \in Tape
    BY ElementOfSeq
<1>3. Arrived \in Seq(Tape) /\ Len(Arrived) = n
    <2>1. \A i \in 1..n : rx[i] \in Tape
        BY <1>1, <1>2
    <2>2. /\ SubSeq(rx, 1, n) \in Seq(Tape)
          /\ Len(SubSeq(rx, 1, n)) = IF 1 <= n THEN n - 1 + 1 ELSE 0
        BY <1>1, <2>1, SubSeqProperties
    <2> QED
        BY <1>1, <2>2 DEF Arrived
<1>4. \A i \in n + 1..Len(rx) : rx[i] \in Tape
    BY <1>1, <1>2
<1>5. /\ SubSeq(rx, n + 1, Len(rx)) \in Seq(Tape)
      /\ Len(SubSeq(rx, n + 1, Len(rx)))
           = IF n + 1 <= Len(rx) THEN Len(rx) - (n + 1) + 1 ELSE 0
    <2>1. n + 1 \in Int /\ Len(rx) \in Int
        BY <1>1
    <2> QED
        BY <1>4, <2>1, SubSeqProperties
<1> QED
    BY <1>1, <1>3, <1>5

\* Dropping the noise before the first '%' leaves bytes of the tape.
LEMMA FromPercentType ==
    ASSUME NEW s \in Seq(Tape)
    PROVE  FromPercent(s) \in Seq(Tape)
<1>1. CASE PercentsIn(s) = 0
    BY <1>1, EmptySeq DEF FromPercent
<1>2. CASE PercentsIn(s) # 0
    <2> DEFINE First(i) == IsPercent(s[i]) /\ \A j \in 1..i - 1 : ~IsPercent(s[j])
               start == CHOOSE i \in 1..Len(s) : First(i)
    <2>1. Len(s) \in Nat /\ \A i \in 1..Len(s) : s[i] \in Tape
        BY LenProperties, ElementOfSeq
    <2>2. Marks(s) # {}
        BY <1>2, MarksFinite, FS_EmptySet
    <2>3. \E i \in 1..Len(s) : First(i)
        <3>1. IsWellFoundedOn(OpToRel(<, Nat), Nat)
            BY NatLessThanWellFounded
        <3>2. Marks(s) \subseteq Nat
            BY <2>1 DEF Marks
        <3>3. PICK i \in Marks(s) : \A j \in Marks(s) : <<j, i>> \notin OpToRel(<, Nat)
            BY <2>2, <3>1, <3>2, WFMin
        <3>4. \A j \in Marks(s) : ~(j < i)
            BY <3>2, <3>3 DEF OpToRel
        <3>5. i \in 1..Len(s) /\ IsPercent(s[i])
            BY DEF Marks
        <3>6. \A j \in 1..i - 1 : ~IsPercent(s[j])
            BY <2>1, <3>4, <3>5 DEF Marks
        <3> QED
            BY <3>5, <3>6
    <2>4. start \in 1..Len(s)
        BY <2>3
    <2>5. SubSeq(s, start, Len(s)) \in Seq(Tape)
        <3> HIDE DEF start
        <3>1. start \in Int /\ Len(s) \in Int
            BY <2>1, <2>4
        <3>2. \A i \in start..Len(s) : s[i] \in Tape
            BY <2>1, <2>4
        <3> QED
            BY <3>1, <3>2, SubSeqProperties
    <2>6. FromPercent(s) = SubSeq(s, start, Len(s))
        BY <1>2 DEF FromPercent
    <2> QED
        BY <2>5, <2>6
<1> QED
    BY <1>1, <1>2

\* What the listener keeps of one read is bytes of the tape.
LEMMA KeptType ==
    ASSUME rx \in Seq(Tape)
    PROVE  Kept \in Seq(Tape)
BY ArrivedType, FromPercentType DEF Kept

-----------------------------------------------------------------------------
(* The inductive invariant.                                                  *)

\* What is read and collected are bytes of the tape.
OnTape == rx \in Seq(Tape) /\ buf \in Seq(Tape)

\* Nothing is collected while a program is handed over, and the line is not
\* busy for what the recovery is about to throw away.
BetweenPrograms ==
    /\ lpc = "delivering" => buf = <<>>
    /\ lpc = "clearing" => ~receiving

\* The timeout a drip-feed restores is never that of another drip-feed.
SavedIsNormal == saved = "normal"

\* While nothing has failed and nothing stops, each opening of the port is
\* the one that is in force; the listener recovers only from a failure.
OpensCounted ==
    /\ failures = 0 /\ ~stop => opens = IF port = "open" THEN 1 ELSE 0
    /\ lpc = "failed" => failures > 0

IInv ==
    /\ TypeOK
    /\ OnTape
    /\ BetweenPrograms
    /\ ReceivingMirrorsBuffer
    /\ NeverSendsIntoAProgram
    /\ SavedIsNormal
    /\ TimeoutFollowsDrip
    /\ OpensCounted

\* Before the threads start: no port, nothing collected, the lock free.
LEMMA InitIInv == Init => IInv
<1> SUFFICES ASSUME Init PROVE IInv
    OBVIOUS
<1>1. TypeOK
    <2>1. Len(rx) <= RxCap /\ punched \in 0..Programs * Span
        BY EmptySeq, SizeAssumption DEF Init, Span
    <2>2. spc \in [Senders -> {"idle", "waiting", "writing", "done"}]
        BY DEF Init
    <2>3. sent \in [Senders -> 0..Chunks]
        BY SizeAssumption DEF Init
    <2>4. \A s \in Senders : lock = s <=> spc[s] = "writing"
        BY ThreadAssumption DEF Init
    <2>5. lock = Listener <=> lpc = "reading"
        <3>1. Free # Listener
            BY ThreadAssumption
        <3> QED
            BY <3>1 DEF Init
    <2>6. /\ failures \in 0..MaxFailures /\ percent \in Nat /\ opens \in Nat
          /\ lock \in Senders \cup {Listener, Free}
        BY SizeAssumption DEF Init
    <2>7. /\ lossy \in BOOLEAN /\ glued \in BOOLEAN /\ receiving \in BOOLEAN
          /\ stop \in BOOLEAN /\ closed \in BOOLEAN
        BY DEF Init
    <2>8. /\ port \in {"none", "open"}
          /\ writeTimeout \in {"normal", "drip"} /\ saved \in {"normal", "drip"}
          /\ lpc \in {"top", "waiting", "reading", "delivering", "failed", "clearing",
                      "stopped"}
        BY DEF Init
    <2> QED
        BY <2>1, <2>2, <2>3, <2>4, <2>5, <2>6, <2>7, <2>8 DEF TypeOK
<1>2. OnTape
    BY EmptySeq DEF Init, OnTape
<1>3. BetweenPrograms /\ SavedIsNormal /\ OpensCounted
    BY DEF Init, BetweenPrograms, SavedIsNormal, OpensCounted
<1>4. ReceivingMirrorsBuffer /\ NeverSendsIntoAProgram
    BY NoMarks DEF Init, ReceivingMirrorsBuffer, NeverSendsIntoAProgram
<1>5. TimeoutFollowsDrip
    BY ThreadAssumption DEF Init, TimeoutFollowsDrip, Senders
<1> QED
    BY <1>1, <1>2, <1>3, <1>4, <1>5 DEF IInv

-----------------------------------------------------------------------------
(* Every step preserves it.                                                  *)

\* The machine punches a byte: only the wire changes, or a byte is lost.
LEMMA PunchStep ==
    ASSUME IInv, Punch
    PROVE  IInv'
<1> USE ThreadAssumption, SizeAssumption DEF IInv
<1>1. TypeOK'
    <2>1. punched' \in 0..Programs * Span
        <3>1. Programs * Span \in Nat
            BY DEF Span
        <3> QED
            BY <3>1 DEF Punch, TypeOK
    <2>2. Len(rx') <= RxCap
        BY LenProperties DEF Punch, TypeOK, OnTape
    <2>3. lossy' \in BOOLEAN /\ glued' \in BOOLEAN
        BY DEF Punch, TypeOK
    <2>4. UNCHANGED <<failures, lock, portVars, listenVars, sendVars, stopVars>>
        BY DEF Punch
    <2> QED
        BY <2>1, <2>2, <2>3, <2>4 DEF TypeOK, portVars, listenVars, sendVars, stopVars
<1>2. OnTape'
    <2>1. Token(punched + 1) \in Tape
        BY DEF TypeOK, Tape
    <2>2. Append(rx, Token(punched + 1)) \in Seq(Tape)
        BY <2>1 DEF OnTape
    <2> QED
        BY <2>2 DEF Punch, OnTape, listenVars
<1>3. BetweenPrograms' /\ SavedIsNormal'
    BY DEF Punch, BetweenPrograms, SavedIsNormal, ReceivingMirrorsBuffer, portVars,
        listenVars
<1>4. ReceivingMirrorsBuffer' /\ NeverSendsIntoAProgram'
    BY DEF Punch, ReceivingMirrorsBuffer, NeverSendsIntoAProgram, listenVars
<1>5. TimeoutFollowsDrip'
    BY DEF Punch, TimeoutFollowsDrip, portVars
<1>6. OpensCounted'
    BY DEF Punch, OpensCounted, portVars, listenVars, stopVars
<1> QED
    BY <1>1, <1>2, <1>3, <1>4, <1>5, <1>6

\* The listener goes round: it stops, or waits for the lock.
LEMMA LoopStep ==
    ASSUME IInv, Loop
    PROVE  IInv'
<1> USE ThreadAssumption, SizeAssumption DEF IInv
<1>1. TypeOK'
    BY DEF Loop, TypeOK, lineVars, portVars, sendVars, stopVars
<1>2. OnTape'
    BY DEF Loop, OnTape, lineVars
<1>3. BetweenPrograms' /\ SavedIsNormal'
    BY DEF Loop, BetweenPrograms, SavedIsNormal, ReceivingMirrorsBuffer, portVars
<1>4. ReceivingMirrorsBuffer' /\ NeverSendsIntoAProgram'
    BY DEF Loop, ReceivingMirrorsBuffer, NeverSendsIntoAProgram
<1>5. TimeoutFollowsDrip'
    BY DEF Loop, TimeoutFollowsDrip, portVars
<1>6. OpensCounted'
    BY DEF Loop, OpensCounted, lineVars, portVars, stopVars
<1> QED
    BY <1>1, <1>2, <1>3, <1>4, <1>5, <1>6

\* The listener takes the lock, so no sender is writing.
LEMMA ListenerAcquiresStep ==
    ASSUME IInv, ListenerAcquires
    PROVE  IInv'
<1> USE ThreadAssumption, SizeAssumption DEF IInv
<1>1. TypeOK'
    BY DEF ListenerAcquires, TypeOK, lineVars, portVars, sendVars, stopVars
<1>2. OnTape'
    BY DEF ListenerAcquires, OnTape, lineVars
<1>3. BetweenPrograms' /\ SavedIsNormal'
    BY DEF ListenerAcquires, BetweenPrograms, SavedIsNormal, ReceivingMirrorsBuffer,
        portVars
<1>4. ReceivingMirrorsBuffer' /\ NeverSendsIntoAProgram'
    BY DEF ListenerAcquires, ReceivingMirrorsBuffer, NeverSendsIntoAProgram
<1>5. TimeoutFollowsDrip'
    BY DEF ListenerAcquires, TimeoutFollowsDrip, Senders, portVars
<1>6. OpensCounted'
    BY DEF ListenerAcquires, OpensCounted, lineVars, portVars, stopVars
<1> QED
    BY <1>1, <1>2, <1>3, <1>4, <1>5, <1>6

\* The listener reads: the buffer and the count of '%' grow together.
LEMMA ReadStep ==
    ASSUME IInv, Read
    PROVE  IInv'
<1> USE ThreadAssumption, SizeAssumption DEF IInv
<1>1. TypeOK'
    <2>1. Len(rx') <= RxCap
        <3>1. Len(rx') <= Len(rx) /\ Len(rx') \in Nat /\ Len(rx) \in Nat
            BY ArrivedType, LenProperties DEF Read, OnTape
        <3> QED
            BY <3>1 DEF TypeOK
    <2>2. percent' \in Nat
        <3>1. PercentsIn(Kept) \in Nat
            BY KeptType, MarksFinite DEF OnTape
        <3> QED
            BY <3>1 DEF Read, TypeOK
    <2>3. opens' \in Nat /\ port' \in {"none", "open"} /\ writeTimeout' \in {"normal", "drip"}
        BY DEF Read, PortOpen, TypeOK
    <2>4. /\ lossy' \in BOOLEAN /\ receiving' \in BOOLEAN
          /\ lpc' \in {"top", "delivering"} /\ lock' = Free
        BY DEF Read, TypeOK
    <2>5. /\ punched' = punched /\ failures' = failures /\ glued' = glued /\ saved' = saved
          /\ spc' = spc /\ sent' = sent /\ stop' = stop /\ closed' = closed
          /\ lpc = "reading"
        BY DEF Read, sendVars, stopVars
    <2>6. \A s \in Senders : spc[s] # "writing"
        BY <2>5 DEF TypeOK
    <2> QED
        BY <2>1, <2>2, <2>3, <2>4, <2>5, <2>6 DEF TypeOK
<1>2. OnTape'
    <2>1. rx' \in Seq(Tape)
        BY ArrivedType DEF Read, OnTape
    <2>2. buf \o Kept \in Seq(Tape)
        BY KeptType, ConcatProperties DEF OnTape
    <2> QED
        BY <2>1, <2>2, EmptySeq DEF Read, OnTape
<1>3. BetweenPrograms' /\ SavedIsNormal'
    BY DEF Read, BetweenPrograms, SavedIsNormal, ReceivingMirrorsBuffer
<1>4. ReceivingMirrorsBuffer' /\ NeverSendsIntoAProgram'
    <2>1. NeverSendsIntoAProgram'
        BY DEF Read, NeverSendsIntoAProgram
    <2>2. PercentsIn(buf \o Kept) = percent + PercentsIn(Kept)
        BY KeptType, MarksAdd DEF Read, OnTape, ReceivingMirrorsBuffer
    <2>3. buf \o Kept # <<>> <=> receiving \/ Kept # <<>>
        BY KeptType, ConcatEqualIffEmpty DEF Read, OnTape, ReceivingMirrorsBuffer
    <2>4. PICK quiet \in BOOLEAN :
            LET all == buf \o Kept
                marks == percent + PercentsIn(Kept)
            IN  IF all # <<>> /\ (marks >= 2 \/ quiet)
                THEN buf' = <<>> /\ percent' = 0 /\ receiving' = FALSE
                ELSE buf' = all /\ percent' = marks /\ receiving' = (receiving \/ Kept # <<>>)
        BY DEF Read
    <2>5. ReceivingMirrorsBuffer'
        BY <2>2, <2>3, <2>4, NoMarks DEF TypeOK, ReceivingMirrorsBuffer
    <2> QED
        BY <2>1, <2>5
<1>5. TimeoutFollowsDrip'
    BY DEF Read, PortOpen, TypeOK, TimeoutFollowsDrip, Senders
<1>6. OpensCounted'
    BY DEF Read, PortOpen, TypeOK, OpensCounted, stopVars
<1> QED
    BY <1>1, <1>2, <1>3, <1>4, <1>5, <1>6

\* A read raises: the lock is released, the buffer is still held.
LEMMA ReadFailsStep ==
    ASSUME IInv, ReadFails
    PROVE  IInv'
<1> USE ThreadAssumption, SizeAssumption DEF IInv
<1>1. TypeOK'
    BY DEF ReadFails, PortOpen, TypeOK, sendVars, stopVars
<1>2. OnTape'
    BY DEF ReadFails, OnTape
<1>3. BetweenPrograms' /\ SavedIsNormal'
    BY DEF ReadFails, BetweenPrograms, SavedIsNormal, ReceivingMirrorsBuffer
<1>4. ReceivingMirrorsBuffer' /\ NeverSendsIntoAProgram'
    BY DEF ReadFails, ReceivingMirrorsBuffer, NeverSendsIntoAProgram
<1>5. TimeoutFollowsDrip'
    BY DEF ReadFails, PortOpen, TypeOK, TimeoutFollowsDrip, Senders
<1>6. OpensCounted'
    BY DEF ReadFails, TypeOK, OpensCounted
<1> QED
    BY <1>1, <1>2, <1>3, <1>4, <1>5, <1>6

\* The recovery clears the busy mark and drops the port, the buffer not yet.
LEMMA RecoverStep ==
    ASSUME IInv, Recover
    PROVE  IInv'
<1> USE ThreadAssumption, SizeAssumption DEF IInv
<1>1. TypeOK'
    <2>1. Len(<<>>) <= RxCap
        BY EmptySeq
    <2> QED
        BY <2>1 DEF Recover, DropPort, TypeOK, sendVars, stopVars
<1>2. OnTape'
    BY DEF Recover, DropPort, OnTape
<1>3. BetweenPrograms' /\ SavedIsNormal'
    BY DEF Recover, BetweenPrograms, SavedIsNormal, ReceivingMirrorsBuffer
<1>4. ReceivingMirrorsBuffer' /\ NeverSendsIntoAProgram'
    BY DEF Recover, ReceivingMirrorsBuffer, NeverSendsIntoAProgram
<1>5. TimeoutFollowsDrip'
    BY DEF Recover, TimeoutFollowsDrip
<1>6. OpensCounted'
    BY DEF Recover, OpensCounted
<1> QED
    BY <1>1, <1>2, <1>3, <1>4, <1>5, <1>6

\* The recovery clears the buffer and the count.
LEMMA ClearStep ==
    ASSUME IInv, Clear
    PROVE  IInv'
<1> USE ThreadAssumption, SizeAssumption DEF IInv
<1>1. TypeOK'
    BY DEF Clear, TypeOK, lineVars, portVars, sendVars, stopVars
<1>2. OnTape'
    BY DEF Clear, OnTape, lineVars
<1>3. BetweenPrograms' /\ SavedIsNormal'
    BY DEF Clear, BetweenPrograms, SavedIsNormal, ReceivingMirrorsBuffer, portVars
<1>4. ReceivingMirrorsBuffer' /\ NeverSendsIntoAProgram'
    BY NoMarks DEF Clear, BetweenPrograms, ReceivingMirrorsBuffer, NeverSendsIntoAProgram
<1>5. TimeoutFollowsDrip'
    BY DEF Clear, TimeoutFollowsDrip, portVars
<1>6. OpensCounted'
    BY DEF Clear, OpensCounted, lineVars, portVars, stopVars
<1> QED
    BY <1>1, <1>2, <1>3, <1>4, <1>5, <1>6

\* A program is handed over; the buffer was cleared under the lock.
LEMMA DeliverStep ==
    ASSUME IInv, Deliver
    PROVE  IInv'
<1> USE ThreadAssumption, SizeAssumption DEF IInv
<1>1. TypeOK'
    BY DEF Deliver, TypeOK, lineVars, portVars, sendVars, stopVars
<1>2. OnTape'
    BY DEF Deliver, OnTape, lineVars
<1>3. BetweenPrograms' /\ SavedIsNormal'
    BY DEF Deliver, BetweenPrograms, SavedIsNormal, ReceivingMirrorsBuffer, portVars
<1>4. ReceivingMirrorsBuffer' /\ NeverSendsIntoAProgram'
    BY DEF Deliver, ReceivingMirrorsBuffer, NeverSendsIntoAProgram
<1>5. TimeoutFollowsDrip'
    BY DEF Deliver, TimeoutFollowsDrip, portVars
<1>6. OpensCounted'
    BY DEF Deliver, OpensCounted, lineVars, portVars, stopVars
<1> QED
    BY <1>1, <1>2, <1>3, <1>4, <1>5, <1>6

\* The callback raises: listen() starts afresh, with nothing collected.
LEMMA DeliverFailsStep ==
    ASSUME IInv, DeliverFails
    PROVE  IInv'
<1> USE ThreadAssumption, SizeAssumption DEF IInv
<1>1. TypeOK'
    BY DEF DeliverFails, TypeOK, portVars, sendVars, stopVars
<1>2. OnTape'
    BY DEF DeliverFails, OnTape
<1>3. BetweenPrograms' /\ SavedIsNormal'
    BY DEF DeliverFails, BetweenPrograms, SavedIsNormal, ReceivingMirrorsBuffer, portVars
<1>4. ReceivingMirrorsBuffer' /\ NeverSendsIntoAProgram'
    BY NoMarks DEF DeliverFails, BetweenPrograms, ReceivingMirrorsBuffer,
        NeverSendsIntoAProgram
<1>5. TimeoutFollowsDrip'
    BY DEF DeliverFails, TimeoutFollowsDrip, portVars
<1>6. OpensCounted'
    BY DEF DeliverFails, TypeOK, OpensCounted
<1> QED
    BY <1>1, <1>2, <1>3, <1>4, <1>5, <1>6

\* The shutdown asks the listener to stop.
LEMMA StopStep ==
    ASSUME IInv, Stop
    PROVE  IInv'
<1> USE ThreadAssumption, SizeAssumption DEF IInv
<1>1. TypeOK'
    BY DEF Stop, TypeOK, lineVars, portVars, listenVars, sendVars
<1>2. OnTape'
    BY DEF Stop, OnTape, lineVars, listenVars
<1>3. BetweenPrograms' /\ SavedIsNormal'
    BY DEF Stop, BetweenPrograms, SavedIsNormal, ReceivingMirrorsBuffer, portVars,
        listenVars
<1>4. ReceivingMirrorsBuffer' /\ NeverSendsIntoAProgram'
    BY DEF Stop, ReceivingMirrorsBuffer, NeverSendsIntoAProgram, listenVars
<1>5. TimeoutFollowsDrip'
    BY DEF Stop, TimeoutFollowsDrip, portVars
<1>6. OpensCounted'
    BY DEF Stop, OpensCounted, lineVars, listenVars
<1> QED
    BY <1>1, <1>2, <1>3, <1>4, <1>5, <1>6

\* The shutdown closes the port.
LEMMA ClosePortStep ==
    ASSUME IInv, ClosePort
    PROVE  IInv'
<1> USE ThreadAssumption, SizeAssumption DEF IInv
<1>1. TypeOK'
    BY DEF ClosePort, DropPort, TypeOK, listenVars, sendVars
<1>2. OnTape'
    BY DEF ClosePort, DropPort, OnTape, listenVars
<1>3. BetweenPrograms' /\ SavedIsNormal'
    BY DEF ClosePort, BetweenPrograms, SavedIsNormal, ReceivingMirrorsBuffer, listenVars
<1>4. ReceivingMirrorsBuffer' /\ NeverSendsIntoAProgram'
    BY DEF ClosePort, ReceivingMirrorsBuffer, NeverSendsIntoAProgram, listenVars
<1>5. TimeoutFollowsDrip'
    BY DEF ClosePort, TimeoutFollowsDrip
<1>6. OpensCounted'
    BY DEF ClosePort, OpensCounted, listenVars
<1> QED
    BY <1>1, <1>2, <1>3, <1>4, <1>5, <1>6

\* A thread asks to send: nothing shared changes.
LEMMA AskStep ==
    ASSUME IInv, NEW s \in Senders, Ask(s)
    PROVE  IInv'
<1> USE ThreadAssumption, SizeAssumption DEF IInv
<1>1. TypeOK'
    BY DEF Ask, TypeOK, lineVars, portVars, listenVars, stopVars
<1>2. OnTape'
    BY DEF Ask, OnTape, lineVars, listenVars
<1>3. BetweenPrograms' /\ SavedIsNormal'
    BY DEF Ask, BetweenPrograms, SavedIsNormal, ReceivingMirrorsBuffer, portVars, listenVars
<1>4. ReceivingMirrorsBuffer' /\ NeverSendsIntoAProgram'
    BY DEF Ask, ReceivingMirrorsBuffer, NeverSendsIntoAProgram, listenVars
<1>5. TimeoutFollowsDrip'
    BY DEF Ask, TimeoutFollowsDrip, portVars
<1>6. OpensCounted'
    BY DEF Ask, OpensCounted, lineVars, portVars, listenVars, stopVars
<1> QED
    BY <1>1, <1>2, <1>3, <1>4, <1>5, <1>6

\* A thread finds a program arriving and gives up.
LEMMA RefusedStep ==
    ASSUME IInv, NEW s \in Senders, Refused(s)
    PROVE  IInv'
<1> USE ThreadAssumption, SizeAssumption DEF IInv
<1>1. TypeOK'
    BY DEF Refused, TypeOK, lineVars, portVars, listenVars, stopVars
<1>2. OnTape'
    BY DEF Refused, OnTape, lineVars, listenVars
<1>3. BetweenPrograms' /\ SavedIsNormal'
    BY DEF Refused, BetweenPrograms, SavedIsNormal, ReceivingMirrorsBuffer, portVars,
        listenVars
<1>4. ReceivingMirrorsBuffer' /\ NeverSendsIntoAProgram'
    BY DEF Refused, ReceivingMirrorsBuffer, NeverSendsIntoAProgram, listenVars
<1>5. TimeoutFollowsDrip'
    BY DEF Refused, TimeoutFollowsDrip, portVars
<1>6. OpensCounted'
    BY DEF Refused, OpensCounted, lineVars, portVars, listenVars, stopVars
<1> QED
    BY <1>1, <1>2, <1>3, <1>4, <1>5, <1>6

\* A thread gets the lock while nothing arrives: the port is open, a drip-feed saves the timeout.
LEMMA EnterStep ==
    ASSUME IInv, NEW s \in Senders, Enter(s)
    PROVE  IInv'
<1> USE ThreadAssumption, SizeAssumption DEF IInv
<1>1. TypeOK'
    BY DEF Enter, TypeOK, lineVars, listenVars, stopVars
<1>2. OnTape'
    BY DEF Enter, OnTape, lineVars, listenVars
<1>3. BetweenPrograms' /\ SavedIsNormal'
    <2>1. BetweenPrograms'
        BY DEF Enter, BetweenPrograms, listenVars
    <2>2. SavedIsNormal'
        BY DEF Enter, TypeOK, SavedIsNormal, TimeoutFollowsDrip, Senders
    <2> QED
        BY <2>1, <2>2
<1>4. ReceivingMirrorsBuffer' /\ NeverSendsIntoAProgram'
    BY DEF Enter, ReceivingMirrorsBuffer, NeverSendsIntoAProgram, listenVars
<1>5. TimeoutFollowsDrip'
    BY DEF Enter, TimeoutFollowsDrip, Senders
<1>6. OpensCounted'
    BY DEF Enter, TypeOK, OpensCounted, lineVars, listenVars, stopVars
<1> QED
    BY <1>1, <1>2, <1>3, <1>4, <1>5, <1>6

\* The port does not open for a thread that got the lock.
LEMMA EnterFailsStep ==
    ASSUME IInv, NEW s \in Senders, EnterFails(s)
    PROVE  IInv'
<1> USE ThreadAssumption, SizeAssumption DEF IInv
<1>1. TypeOK'
    BY DEF EnterFails, TypeOK, portVars, listenVars, stopVars
<1>2. OnTape'
    BY DEF EnterFails, OnTape, listenVars
<1>3. BetweenPrograms' /\ SavedIsNormal'
    BY DEF EnterFails, BetweenPrograms, SavedIsNormal, ReceivingMirrorsBuffer, portVars,
        listenVars
<1>4. ReceivingMirrorsBuffer' /\ NeverSendsIntoAProgram'
    BY DEF EnterFails, ReceivingMirrorsBuffer, NeverSendsIntoAProgram, listenVars
<1>5. TimeoutFollowsDrip'
    BY DEF EnterFails, TimeoutFollowsDrip, portVars
<1>6. OpensCounted'
    BY DEF EnterFails, TypeOK, OpensCounted
<1> QED
    BY <1>1, <1>2, <1>3, <1>4, <1>5, <1>6

\* A whole program is written and the lock released.
LEMMA WriteAllStep ==
    ASSUME IInv, NEW s \in Senders, WriteAll(s)
    PROVE  IInv'
<1> USE ThreadAssumption, SizeAssumption DEF IInv
<1>1. TypeOK'
    BY DEF WriteAll, Leave, TypeOK, lineVars, listenVars, stopVars
<1>2. OnTape'
    BY DEF WriteAll, OnTape, lineVars, listenVars
<1>3. BetweenPrograms' /\ SavedIsNormal'
    BY DEF WriteAll, Leave, BetweenPrograms, SavedIsNormal, ReceivingMirrorsBuffer,
        listenVars
<1>4. ReceivingMirrorsBuffer' /\ NeverSendsIntoAProgram'
    BY DEF WriteAll, TypeOK, ReceivingMirrorsBuffer, NeverSendsIntoAProgram, listenVars
<1>5. TimeoutFollowsDrip'
    BY DEF WriteAll, Leave, TypeOK, TimeoutFollowsDrip, Senders
<1>6. OpensCounted'
    BY DEF WriteAll, Leave, OpensCounted, lineVars, listenVars, stopVars
<1> QED
    BY <1>1, <1>2, <1>3, <1>4, <1>5, <1>6

\* One chunk of a drip-feed is written, the timeout stays long.
LEMMA DripChunkStep ==
    ASSUME IInv, NEW s \in Senders, DripChunk(s)
    PROVE  IInv'
<1> USE ThreadAssumption, SizeAssumption DEF IInv
<1>1. TypeOK'
    BY DEF DripChunk, TypeOK, lineVars, portVars, listenVars, stopVars
<1>2. OnTape'
    BY DEF DripChunk, OnTape, lineVars, listenVars
<1>3. BetweenPrograms' /\ SavedIsNormal'
    BY DEF DripChunk, BetweenPrograms, SavedIsNormal, ReceivingMirrorsBuffer, portVars,
        listenVars
<1>4. ReceivingMirrorsBuffer' /\ NeverSendsIntoAProgram'
    BY DEF DripChunk, ReceivingMirrorsBuffer, NeverSendsIntoAProgram, listenVars
<1>5. TimeoutFollowsDrip'
    BY DEF DripChunk, TimeoutFollowsDrip, portVars
<1>6. OpensCounted'
    BY DEF DripChunk, OpensCounted, lineVars, portVars, listenVars, stopVars
<1> QED
    BY <1>1, <1>2, <1>3, <1>4, <1>5, <1>6

\* A drip-feed is aborted and its timeout restored.
LEMMA DripAbortsStep ==
    ASSUME IInv, NEW s \in Senders, DripAborts(s)
    PROVE  IInv'
<1> USE ThreadAssumption, SizeAssumption DEF IInv
<1>1. TypeOK'
    BY DEF DripAborts, Leave, TypeOK, lineVars, listenVars, stopVars
<1>2. OnTape'
    BY DEF DripAborts, OnTape, lineVars, listenVars
<1>3. BetweenPrograms' /\ SavedIsNormal'
    BY DEF DripAborts, Leave, BetweenPrograms, SavedIsNormal, ReceivingMirrorsBuffer,
        listenVars
<1>4. ReceivingMirrorsBuffer' /\ NeverSendsIntoAProgram'
    BY DEF DripAborts, TypeOK, ReceivingMirrorsBuffer, NeverSendsIntoAProgram, listenVars
<1>5. TimeoutFollowsDrip'
    BY DEF DripAborts, Leave, TimeoutFollowsDrip, SavedIsNormal, Senders
<1>6. OpensCounted'
    BY DEF DripAborts, Leave, OpensCounted, lineVars, listenVars, stopVars
<1> QED
    BY <1>1, <1>2, <1>3, <1>4, <1>5, <1>6

\* A drip-feed ends and its timeout is restored.
LEMMA DripEndsStep ==
    ASSUME IInv, NEW s \in Senders, DripEnds(s)
    PROVE  IInv'
<1> USE ThreadAssumption, SizeAssumption DEF IInv
<1>1. TypeOK'
    BY DEF DripEnds, Leave, TypeOK, lineVars, listenVars, stopVars
<1>2. OnTape'
    BY DEF DripEnds, OnTape, lineVars, listenVars
<1>3. BetweenPrograms' /\ SavedIsNormal'
    BY DEF DripEnds, Leave, BetweenPrograms, SavedIsNormal, ReceivingMirrorsBuffer,
        listenVars
<1>4. ReceivingMirrorsBuffer' /\ NeverSendsIntoAProgram'
    BY DEF DripEnds, TypeOK, ReceivingMirrorsBuffer, NeverSendsIntoAProgram, listenVars
<1>5. TimeoutFollowsDrip'
    BY DEF DripEnds, Leave, TimeoutFollowsDrip, SavedIsNormal, Senders
<1>6. OpensCounted'
    BY DEF DripEnds, Leave, OpensCounted, lineVars, listenVars, stopVars
<1> QED
    BY <1>1, <1>2, <1>3, <1>4, <1>5, <1>6

\* A write raises: the lock is released, the port left for the listener to find.
LEMMA WriteFailsStep ==
    ASSUME IInv, NEW s \in Senders, WriteFails(s)
    PROVE  IInv'
<1> USE ThreadAssumption, SizeAssumption DEF IInv
<1>1. TypeOK'
    BY DEF WriteFails, Leave, TypeOK, listenVars, stopVars
<1>2. OnTape'
    BY DEF WriteFails, OnTape, listenVars
<1>3. BetweenPrograms' /\ SavedIsNormal'
    BY DEF WriteFails, Leave, BetweenPrograms, SavedIsNormal, ReceivingMirrorsBuffer,
        listenVars
<1>4. ReceivingMirrorsBuffer' /\ NeverSendsIntoAProgram'
    BY DEF WriteFails, TypeOK, ReceivingMirrorsBuffer, NeverSendsIntoAProgram, listenVars
<1>5. TimeoutFollowsDrip'
    BY DEF WriteFails, Leave, TypeOK, TimeoutFollowsDrip, SavedIsNormal, Senders
<1>6. OpensCounted'
    BY DEF WriteFails, TypeOK, OpensCounted
<1> QED
    BY <1>1, <1>2, <1>3, <1>4, <1>5, <1>6

\* The senders' steps together.
LEMMA SenderStep ==
    ASSUME IInv, NEW s \in Senders, Sender(s)
    PROVE  IInv'
BY AskStep, RefusedStep, EnterStep, EnterFailsStep, WriteAllStep, DripChunkStep, DripAbortsStep,
   DripEndsStep, WriteFailsStep DEF Sender

\* A step that changes nothing.
LEMMA StutterStep ==
    ASSUME IInv, UNCHANGED vars
    PROVE  IInv'
<1> USE DEF vars, lineVars, portVars, listenVars, sendVars, stopVars, IInv
<1>1. TypeOK' /\ OnTape'
    BY DEF TypeOK, OnTape
<1>2. BetweenPrograms' /\ ReceivingMirrorsBuffer' /\ NeverSendsIntoAProgram'
    BY DEF BetweenPrograms, ReceivingMirrorsBuffer, NeverSendsIntoAProgram
<1>3. SavedIsNormal' /\ TimeoutFollowsDrip' /\ OpensCounted'
    BY DEF SavedIsNormal, TimeoutFollowsDrip, OpensCounted
<1> QED
    BY <1>1, <1>2, <1>3

\* Every step, and every stutter, preserves the invariant.
LEMMA NextIInv == IInv /\ [Next]_vars => IInv'
<1> SUFFICES ASSUME IInv, [Next]_vars PROVE IInv'
    OBVIOUS
<1>1. CASE Punch
    BY <1>1, PunchStep
<1>2. CASE Listening
    BY <1>2, LoopStep, ListenerAcquiresStep, ReadStep, ReadFailsStep, RecoverStep, ClearStep,
       DeliverStep, DeliverFailsStep DEF Listening
<1>3. CASE \E s \in Senders : Sender(s)
    BY <1>3, SenderStep
<1>4. CASE Stop \/ ClosePort
    BY <1>4, StopStep, ClosePortStep
<1>5. CASE UNCHANGED vars
    BY <1>5, StutterStep
<1> QED
    BY <1>1, <1>2, <1>3, <1>4, <1>5 DEF Next

-----------------------------------------------------------------------------
(* The invariant holds of every behaviour, failures and shutdown included.   *)
THEOREM Invariance == Spec => []IInv
<1>1. Init => IInv
    BY InitIInv
<1>2. IInv /\ [Next]_vars => IInv'
    BY NextIInv
<1> QED
    BY <1>1, <1>2, PTL DEF Spec

(* Every reachable state is well typed: in particular the lock is held by   *)
(* exactly the thread that reads or writes, whatever raises.                *)
THEOREM TypeCorrect == Spec => []TypeOK
<1>1. IInv => TypeOK
    BY DEF IInv
<1> QED
    BY <1>1, Invariance, PTL

(* The busy mark and the count of '%' say what the listener holds, except   *)
(* between the two halves of its recovery from a failed read.               *)
THEOREM BusyMark == Spec => []ReceivingMirrorsBuffer
<1>1. IInv => ReceivingMirrorsBuffer
    BY DEF IInv
<1> QED
    BY <1>1, Invariance, PTL

(* No thread writes on the wire while the listener holds the beginning of a *)
(* program that it will hand over.                                          *)
THEOREM NoCollision == Spec => []NeverSendsIntoAProgram
<1>1. IInv => NeverSendsIntoAProgram
    BY DEF IInv
<1> QED
    BY <1>1, Invariance, PTL

(* The write timeout of a drip-feed is in force exactly while one runs.     *)
THEOREM TimeoutRestored == Spec => []TimeoutFollowsDrip
<1>1. IInv => TimeoutFollowsDrip
    BY DEF IInv
<1> QED
    BY <1>1, Invariance, PTL

(* Until something fails or the process stops, the port is opened once.     *)
THEOREM OneOpening == Spec => []PortOpenedOnce
<1>1. IInv => PortOpenedOnce
    BY DEF IInv, TypeOK, OpensCounted, PortOpenedOnce
<1> QED
    BY <1>1, Invariance, PTL

-----------------------------------------------------------------------------
(* The wire as it was punched.                                               *)

\* The bytes on the wire behind the first a, up to the b-th.
Stretch(a, b) == [i \in 1..b - a |-> Token(a + i)]

\* The bytes the listener has read, and the programs it has read to their end.
ReadSoFar == punched - Len(rx)
Ended == Len(delivered) + (IF lpc = "delivering" THEN 1 ELSE 0)

\* Program n as the listener may hand it over: with its line end or without.
Wholes(n) == {Frame(n), Append(Frame(n), Token(n * Span))}

\* A program has two marks and a line end.
LEMMA SpanFacts == Span \in Nat /\ Span >= 3 /\ Span = Body + 3
BY SizeAssumption DEF Span

\* Where a byte is counts from the start of its program.
LEMMA Places ==
    ASSUME NEW S \in Nat \ {0}, NEW n \in Nat, NEW r \in 0..S - 1
    PROVE  (n * S + r) \div S = n /\ (n * S + r) % S = r
<1> DEFINE x == n * S + r
           q == x \div S
           m == x % S
<1>1. x \in Nat /\ q \in Nat /\ m \in 0..S - 1 /\ x = S * q + m
    <2>1. n * S \in Nat
        OBVIOUS
    <2> QED
        BY <2>1
<1> HIDE DEF q, m
<1>2. S * q + m = S * n + r
    BY <1>1
<1>3. ~(q < n)
    <2> SUFFICES ASSUME q < n PROVE FALSE
        OBVIOUS
    <2>1. PICK k \in Nat : n = q + 1 + k
        <3>1. n - (q + 1) \in Nat /\ n = q + 1 + (n - (q + 1))
            BY <1>1
        <3> QED
            BY <3>1
    <2>2. S * n = S * q + S + S * k /\ S * k \in Nat /\ S * q \in Nat
        BY <1>1, <2>1
    <2> QED
        BY <1>1, <1>2, <2>2
<1>4. ~(n < q)
    <2> SUFFICES ASSUME n < q PROVE FALSE
        OBVIOUS
    <2>1. PICK k \in Nat : q = n + 1 + k
        <3>1. q - (n + 1) \in Nat /\ q = n + 1 + (q - (n + 1))
            BY <1>1
        <3> QED
            BY <3>1
    <2>2. S * q = S * n + S + S * k /\ S * k \in Nat /\ S * n \in Nat
        BY <1>1, <2>1
    <2> QED
        BY <1>1, <1>2, <2>2
<1>5. q = n /\ m = r
    <2>1. q = n
        BY <1>1, <1>3, <1>4
    <2>2. S * n \in Nat
        OBVIOUS
    <2> QED
        BY <1>1, <1>2, <2>1, <2>2
<1> QED
    BY <1>5 DEF q, m

\* The byte at place r of program n + 1.
LEMMA TokenAt ==
    ASSUME NEW n \in Nat, NEW r \in 1..Span
    PROVE  /\ Token(n * Span + r).of = n + 1
           /\ IsPercent(Token(n * Span + r)) <=> r = 1 \/ r = Body + 2
<1>1. Span \in Nat \ {0} /\ Span = Body + 3 /\ Body \in Nat
    BY SpanFacts, SizeAssumption
<1>2. r - 1 \in 0..Span - 1 /\ n * Span \in Nat /\ (n * Span + r) - 1 = n * Span + (r - 1)
    BY <1>1
<1>3. ((n * Span + r) - 1) \div Span = n /\ ((n * Span + r) - 1) % Span = r - 1
    BY <1>1, <1>2, Places
<1> DEFINE b == IF r - 1 \in {0, Body + 1} THEN "%" ELSE IF r - 1 = Span - 1 THEN "eol" ELSE "x"
<1>4. Token(n * Span + r) = [of |-> n + 1, byte |-> b]
    BY <1>3 DEF Token
<1>5. b = "%" <=> r = 1 \/ r = Body + 2
    BY <1>1
<1> HIDE DEF b
<1> QED
    BY <1>4, <1>5 DEF IsPercent

\* A stretch is a sequence of bytes of the tape.
LEMMA StretchType ==
    ASSUME NEW a \in Nat, NEW b \in Nat, a <= b
    PROVE  /\ Stretch(a, b) \in Seq(Tape) /\ Len(Stretch(a, b)) = b - a
           /\ \A i \in 1..b - a : Stretch(a, b)[i] = Token(a + i)
<1>1. b - a \in Nat /\ \A i \in 1..b - a : Token(a + i) \in Tape
    BY DEF Tape
<1>2. Stretch(a, b) \in Seq(Tape)
    BY <1>1, IsASeq DEF Stretch
<1> QED
    BY <1>1, <1>2, LenProperties DEF Stretch

\* Two sequences of the same bytes are one.
LEMMA StretchIs ==
    ASSUME NEW a \in Nat, NEW b \in Nat, a <= b, NEW s \in Seq(Tape), Len(s) = b - a,
           \A i \in 1..b - a : s[i] = Token(a + i)
    PROVE  s = Stretch(a, b)
BY StretchType, SeqEqual

\* Taking up where the last stretch ended.
LEMMA StretchOn ==
    ASSUME NEW a \in Nat, NEW b \in Nat, NEW c \in Nat, a <= b, b <= c
    PROVE  Stretch(a, b) \o Stretch(b, c) = Stretch(a, c)
<1> DEFINE s == Stretch(a, b)
           t == Stretch(b, c)
<1>1. /\ s \in Seq(Tape) /\ Len(s) = b - a /\ \A i \in 1..b - a : s[i] = Token(a + i)
      /\ t \in Seq(Tape) /\ Len(t) = c - b /\ \A i \in 1..c - b : t[i] = Token(b + i)
    BY StretchType
<1> HIDE DEF s, t
<1>2. s \o t \in Seq(Tape) /\ Len(s \o t) = c - a
    <2>1. s \o t \in Seq(Tape) /\ Len(s \o t) = Len(s) + Len(t)
        BY <1>1, ConcatProperties
    <2>2. (b - a) + (c - b) = c - a
        OBVIOUS
    <2> QED
        BY <1>1, <2>1, <2>2
<1>3. ASSUME NEW i \in 1..c - a PROVE (s \o t)[i] = Token(a + i)
    <2>1. (s \o t)[i] = IF i <= Len(s) THEN s[i] ELSE t[i - Len(s)]
        BY <1>1, <1>2, ConcatProperties
    <2>2. CASE i <= b - a
        BY <1>1, <2>1, <2>2
    <2>3. CASE i > b - a
        <3>1. i - (b - a) \in 1..c - b /\ b + (i - (b - a)) = a + i
            BY <2>3
        <3> QED
            BY <1>1, <2>1, <2>3, <3>1
    <2>4. i <= b - a \/ i > b - a
        OBVIOUS
    <2> QED
        BY <2>2, <2>3, <2>4
<1>4. s \o t = Stretch(a, c)
    <2>1. a <= c
        OBVIOUS
    <2> DEFINE u == s \o t
    <2>2. u \in Seq(Tape) /\ Len(u) = c - a /\ \A i \in 1..c - a : u[i] = Token(a + i)
        BY <1>2, <1>3
    <2> HIDE DEF u
    <2>3. u = Stretch(a, c)
        BY <2>1, <2>2, StretchIs
    <2> QED
        BY <2>3 DEF u
<1> QED
    BY <1>4 DEF s, t

\* A stretch cut at c.
LEMMA StretchCut ==
    ASSUME NEW a \in Nat, NEW b \in Nat, NEW c \in Nat, a <= c, c <= b
    PROVE  /\ SubSeq(Stretch(a, b), 1, c - a) = Stretch(a, c)
           /\ SubSeq(Stretch(a, b), c - a + 1, b - a) = Stretch(c, b)
<1> DEFINE s == Stretch(a, b)
<1>1. /\ s \in Seq(Tape) /\ Len(s) = b - a
      /\ \A i \in 1..b - a : s[i] = Token(a + i) /\ s[i] \in Tape
    <2>1. a <= b
        OBVIOUS
    <2>2. s \in Seq(Tape) /\ Len(s) = b - a /\ \A i \in 1..b - a : s[i] = Token(a + i)
        BY <2>1, StretchType
    <2> HIDE DEF s
    <2> QED
        BY <2>2, ElementOfSeq
<1> HIDE DEF s
<1>2. SubSeq(s, 1, c - a) = Stretch(a, c)
    <2> DEFINE u == SubSeq(s, 1, c - a)
    <2>1. \A i \in 1..c - a : s[i] \in Tape
        BY <1>1
    <2>2. /\ u \in Seq(Tape) /\ Len(u) = (IF 1 <= c - a THEN c - a - 1 + 1 ELSE 0)
          /\ \A i \in 1..c - a - 1 + 1 : u[i] = s[1 + i - 1]
        BY <1>1, <2>1, SubSeqProperties
    <2> HIDE DEF u
    <2>3. Len(u) = c - a /\ \A i \in 1..c - a : u[i] = Token(a + i)
        BY <1>1, <2>2
    <2>4. u = Stretch(a, c)
        BY <2>2, <2>3, StretchIs
    <2> QED
        BY <2>4 DEF u
<1>3. SubSeq(s, c - a + 1, b - a) = Stretch(c, b)
    <2> DEFINE u == SubSeq(s, c - a + 1, b - a)
    <2>1. \A i \in c - a + 1..b - a : s[i] \in Tape
        BY <1>1
    <2>2. /\ u \in Seq(Tape)
          /\ Len(u) = (IF c - a + 1 <= b - a THEN (b - a) - (c - a + 1) + 1 ELSE 0)
          /\ \A i \in 1..(b - a) - (c - a + 1) + 1 : u[i] = s[(c - a + 1) + i - 1]
        <3>1. c - a + 1 \in Int /\ b - a \in Int
            OBVIOUS
        <3> QED
            BY <1>1, <2>1, <3>1, SubSeqProperties
    <2> HIDE DEF u
    <2>3. Len(u) = b - c
        BY <2>2
    <2>4. ASSUME NEW i \in 1..b - c PROVE u[i] = Token(c + i)
        <3>1. /\ i \in 1..(b - a) - (c - a + 1) + 1 /\ (c - a + 1) + i - 1 = c - a + i
              /\ c - a + i \in 1..b - a /\ a + (c - a + i) = c + i
            OBVIOUS
        <3> QED
            BY <1>1, <2>2, <3>1
    <2>5. u = Stretch(c, b)
        BY <2>2, <2>3, <2>4, StretchIs
    <2> QED
        BY <2>5 DEF u
<1> QED
    BY <1>2, <1>3 DEF s

\* The '%' marks of program n + 1 as far as it was read.
LEMMA StretchMarks ==
    ASSUME NEW n \in Nat, NEW r \in 0..Span
    PROVE  PercentsIn(Stretch(n * Span, n * Span + r)) =
               IF r = 0 THEN 0 ELSE IF r <= Body + 1 THEN 1 ELSE 2
<1> DEFINE a == n * Span
           s == Stretch(a, a + r)
<1>1. Span \in Nat /\ Span = Body + 3 /\ Body \in Nat /\ a \in Nat
    BY SpanFacts, SizeAssumption
<1>2. ASSUME NEW i \in 1..r PROVE IsPercent(Token(a + i)) <=> i = 1 \/ i = Body + 2
    <2>1. i \in 1..Span
        BY <1>1
    <2> QED
        BY <2>1, TokenAt
<1> HIDE DEF a
<1>3. s \in Seq(Tape) /\ Len(s) = r /\ \A i \in 1..r : s[i] = Token(a + i)
    <2>1. a + r \in Nat /\ a <= a + r /\ (a + r) - a = r
        BY <1>1
    <2> QED
        BY <1>1, <2>1, StretchType
<1> HIDE DEF s
<1>4. Marks(s) = {i \in 1..r : i = 1 \/ i = Body + 2}
    BY <1>2, <1>3 DEF Marks
<1>5. Marks(s) = IF r = 0 THEN {} ELSE IF r <= Body + 1 THEN {1} ELSE {1, Body + 2}
    BY <1>1, <1>4
<1>6. Cardinality({}) = 0 /\ Cardinality({1}) = 1
    BY FS_EmptySet, FS_Singleton
<1>7. Cardinality({1, Body + 2}) = 2
    <2>1. IsFiniteSet({1}) /\ Body + 2 \notin {1} /\ {1} \cup {Body + 2} = {1, Body + 2}
        BY <1>1, FS_Singleton
    <2> DEFINE T == {1}
               x == Body + 2
    <2>2. IsFiniteSet(T) /\ x \notin T /\ Cardinality(T) = 1
        BY <1>6, <2>1
    <2> HIDE DEF T, x
    <2>3. Cardinality(T \cup {x}) = 1 + 1
        BY <2>2, FS_AddElement
    <2> QED
        BY <2>1, <2>3 DEF T, x
<1>8. PercentsIn(s) = Cardinality(Marks(s))
    BY <1>3, MarksFinite
<1>9. PercentsIn(s) = IF r = 0 THEN 0 ELSE IF r <= Body + 1 THEN 1 ELSE 2
    BY <1>5, <1>6, <1>7, <1>8
<1> QED
    BY <1>9 DEF s, a

\* A text without '%' is noise; of any other, what is kept begins at the first one.
LEMMA FromPercentIs ==
    ASSUME NEW s \in Seq(Tape)
    PROVE  /\ (\A i \in 1..Len(s) : ~IsPercent(s[i])) => FromPercent(s) = <<>>
           /\ \A k \in 1..Len(s) :
                 IsPercent(s[k]) /\ (\A j \in 1..k - 1 : ~IsPercent(s[j]))
                     => FromPercent(s) = SubSeq(s, k, Len(s))
<1>1. PercentsIn(s) = Cardinality(Marks(s)) /\ IsFiniteSet(Marks(s)) /\ Len(s) \in Nat
    BY MarksFinite, LenProperties
<1>2. ASSUME \A i \in 1..Len(s) : ~IsPercent(s[i]) PROVE FromPercent(s) = <<>>
    <2>1. Marks(s) = {}
        BY <1>2 DEF Marks
    <2> QED
        BY <1>1, <2>1, FS_EmptySet DEF FromPercent
<1>3. ASSUME NEW k \in 1..Len(s), IsPercent(s[k]), \A j \in 1..k - 1 : ~IsPercent(s[j])
      PROVE  FromPercent(s) = SubSeq(s, k, Len(s))
    <2> DEFINE First(i) == IsPercent(s[i]) /\ \A j \in 1..i - 1 : ~IsPercent(s[j])
               start == CHOOSE i \in 1..Len(s) : First(i)
    <2>1. PercentsIn(s) # 0
        BY <1>1, <1>3, FS_EmptySet DEF Marks
    <2>2. FromPercent(s) = SubSeq(s, start, Len(s))
        BY <2>1 DEF FromPercent
    <2>3. First(k)
        BY <1>3
    <2>4. start \in 1..Len(s) /\ First(start)
        BY <2>3
    <2>5. \A i, j \in 1..Len(s) : First(i) /\ First(j) => i = j
        <3> SUFFICES ASSUME NEW i \in 1..Len(s), NEW j \in 1..Len(s), First(i), First(j) PROVE i = j
            OBVIOUS
        <3>1. ~(i < j) /\ ~(j < i)
            BY <1>1
        <3> QED
            BY <1>1, <3>1
    <2> HIDE DEF First, start
    <2>6. start = k
        BY <2>3, <2>4, <2>5
    <2> QED
        BY <2>2, <2>6
<1> QED
    BY <1>2, <1>3

\* Of what is read between two programs, what comes before the next is noise.
LEMMA NoiseDropped ==
    ASSUME NEW n \in Nat, NEW q \in Nat, NEW e \in Nat, q <= e,
           q = n * Span \/ (n > 0 /\ q = n * Span - 1)
    PROVE  FromPercent(Stretch(q, e)) = IF e <= n * Span THEN <<>> ELSE Stretch(n * Span, e)
<1> DEFINE a == n * Span
           s == Stretch(q, e)
<1>1. Span \in Nat /\ Span = Body + 3 /\ Body \in Nat /\ a \in Nat /\ 1 \in 1..Span
    BY SpanFacts, SizeAssumption
<1>2. IsPercent(Token(a + 1))
    BY <1>1, TokenAt
<1>3. n > 0 => ~IsPercent(Token(a))
    <2> SUFFICES ASSUME n > 0 PROVE ~IsPercent(Token(a))
        OBVIOUS
    <2>1. n - 1 \in Nat /\ Span \in 1..Span /\ (n - 1) * Span + Span = a
        BY <1>1
    <2>2. Span # 1 /\ Span # Body + 2
        BY <1>1
    <2> QED
        BY <2>1, <2>2, TokenAt
<1>4. q = a \/ (n > 0 /\ q = a - 1)
    OBVIOUS
<1> HIDE DEF a
<1>5. s \in Seq(Tape) /\ Len(s) = e - q /\ \A i \in 1..e - q : s[i] = Token(q + i)
    BY StretchType
<1>6. CASE e <= a
    <2>1. \A i \in 1..Len(s) : ~IsPercent(s[i])
        BY <1>1, <1>3, <1>4, <1>5, <1>6
    <2> HIDE DEF s
    <2>2. FromPercent(s) = <<>>
        BY <1>5, <2>1, FromPercentIs
    <2> QED
        BY <1>6, <2>2 DEF s, a
<1>7. CASE e > a
    <2> DEFINE k == a + 1 - q
    <2>1. k \in 1..Len(s) /\ IsPercent(s[k]) /\ \A j \in 1..k - 1 : ~IsPercent(s[j])
        <3>1. k \in 1..Len(s) /\ q + k = a + 1
            BY <1>1, <1>4, <1>5, <1>7
        <3>2. IsPercent(s[k])
            BY <1>2, <1>5, <3>1
        <3>3. ASSUME NEW j \in 1..k - 1 PROVE ~IsPercent(s[j])
            <4>1. n > 0 /\ q + j = a /\ j \in 1..e - q
                BY <1>1, <1>4, <1>7
            <4> QED
                BY <1>3, <1>5, <4>1
        <3> QED
            BY <3>1, <3>2, <3>3
    <2>2. k = (a - q) + 1
        BY <1>1
    <2> HIDE DEF s, k
    <2>3. FromPercent(s) = SubSeq(s, k, Len(s))
        BY <1>5, <2>1, FromPercentIs
    <2>4. SubSeq(s, a - q + 1, e - q) = Stretch(a, e)
        <3>1. q <= a /\ a <= e
            BY <1>1, <1>4, <1>7
        <3> QED
            BY <1>1, <3>1, StretchCut DEF s
    <2>5. FromPercent(s) = Stretch(a, e)
        BY <1>5, <2>2, <2>3, <2>4
    <2>6. ~(e <= a)
        BY <1>1, <1>7
    <2> QED
        BY <2>5, <2>6 DEF s, a
<1> QED
    BY <1>1, <1>6, <1>7

\* A program is a stretch of the wire, with its line end or without.
LEMMA WholeStretch ==
    ASSUME NEW n \in Nat, NEW r \in {Body + 2, Body + 3}
    PROVE  Stretch(n * Span, n * Span + r) \in Wholes(n + 1)
<1> DEFINE a == n * Span
<1>1. Span \in Nat /\ Span = Body + 3 /\ Body \in Nat /\ a \in Nat
    BY SpanFacts, SizeAssumption
<1>2. (n + 1) - 1 = n /\ (n + 1) * Span = a + Span
    BY <1>1
<1>3. Frame(n + 1) = [i \in 1..Span - 1 |-> Token(a + i)]
    BY <1>2 DEF Frame
<1> HIDE DEF a
<1>4. /\ a + (Span - 1) \in Nat /\ a <= a + (Span - 1) /\ (a + (Span - 1)) - a = Span - 1
      /\ a + Span \in Nat /\ a <= a + Span /\ (a + Span) - a = Span
    BY <1>1
<1>5. Frame(n + 1) = Stretch(a, a + (Span - 1))
    BY <1>3, <1>4 DEF Stretch
<1>6. Append(Frame(n + 1), Token(a + Span)) = Stretch(a, a + Span)
    <2> DEFINE f == Frame(n + 1)
               t == Token(a + Span)
               u == Append(f, t)
    <2>1. f \in Seq(Tape) /\ Len(f) = Span - 1 /\ \A i \in 1..Span - 1 : f[i] = Token(a + i)
        <3> DEFINE b == a + (Span - 1)
        <3>1. b \in Nat /\ a <= b /\ b - a = Span - 1 /\ f = Stretch(a, b)
            BY <1>4, <1>5
        <3> HIDE DEF b, f
        <3>2. /\ Stretch(a, b) \in Seq(Tape) /\ Len(Stretch(a, b)) = b - a
              /\ \A i \in 1..b - a : Stretch(a, b)[i] = Token(a + i)
            BY <1>1, <3>1, StretchType
        <3> QED
            BY <3>1, <3>2, Zenon
    <2>2. t \in Tape
        BY <1>4 DEF Tape
    <2> HIDE DEF f, t
    <2>3. /\ u \in Seq(Tape) /\ Len(u) = Len(f) + 1
          /\ \A i \in 1..Len(f) : u[i] = f[i]
          /\ u[Len(f) + 1] = t
        BY <2>1, <2>2, AppendProperties
    <2> HIDE DEF u
    <2>4. Len(u) = (a + Span) - a
        BY <1>1, <1>4, <2>1, <2>3
    <2>5. ASSUME NEW i \in 1..(a + Span) - a PROVE u[i] = Token(a + i)
        <3>1. i \in 1..Span - 1 \/ i = Span
            BY <1>1, <1>4
        <3>2. CASE i \in 1..Span - 1
            BY <2>1, <2>3, <3>2
        <3>3. CASE i = Span
            BY <1>1, <2>1, <2>3, <3>3 DEF t
        <3> QED
            BY <3>1, <3>2, <3>3
    <2>6. u = Stretch(a, a + Span)
        BY <1>1, <1>4, <2>3, <2>4, <2>5, StretchIs
    <2> QED
        BY <2>6 DEF u, f, t
<1>7. a + r = a + (Span - 1) \/ a + r = a + Span
    BY <1>1
<1>8. Stretch(a, a + r) \in {Frame(n + 1), Append(Frame(n + 1), Token(a + Span))}
    BY <1>5, <1>6, <1>7
<1> QED
    BY <1>2, <1>8 DEF Wholes, a

-----------------------------------------------------------------------------
(* What was read, collected and handed over, as long as nothing was lost and *)
(* no program began before the last one was read.                            *)

HandedTyped == program \in Seq(Tape) /\ delivered \in Seq(Seq(Tape))

\* What is still to be read is of one program once there is a '%' in it.
OneProgramAhead ==
    \A k, m \in ReadSoFar + 1..punched :
        k < m /\ IsPercent(Token(k)) => Token(k).of = Token(m).of

\* What was read of the program that arrives is in the buffer; between two programs the
\* line end of the last may still have to come.
CollectedSoFar ==
    /\ buf = <<>> => ReadSoFar = Ended * Span \/ (Ended > 0 /\ ReadSoFar = Ended * Span - 1)
    /\ buf # <<>> => /\ ReadSoFar \in Ended * Span + 1..Ended * Span + Body + 1
                     /\ buf = Stretch(Ended * Span, ReadSoFar)

Orderly ==
    /\ lpc \notin {"failed", "clearing"}
    /\ Len(rx) <= punched /\ rx = Stretch(ReadSoFar, punched)
    /\ OneProgramAhead
    /\ CollectedSoFar
    /\ lpc = "delivering" => program \in Wholes(Ended)
    /\ \A n \in 1..Len(delivered) : delivered[n] \in Wholes(n)

DInv == HandedTyped /\ (~lossy /\ ~glued => Orderly)

\* A step that neither reads nor hands over leaves all of it as it is.
LEMMA LineUntouched ==
    ASSUME DInv, UNCHANGED <<punched, rx, lossy, glued, buf, program, delivered>>,
           lpc' = "delivering" <=> lpc = "delivering",
           lpc' \in {"failed", "clearing"} => lpc \in {"failed", "clearing"}
    PROVE  DInv'
<1>1. HandedTyped'
    BY DEF DInv, HandedTyped
<1>2. ReadSoFar' = ReadSoFar /\ Ended' = Ended
    BY DEF ReadSoFar, Ended
<1>3. ASSUME ~lossy', ~glued' PROVE Orderly'
    <2>1. Orderly
        BY <1>3 DEF DInv
    <2>2. OneProgramAhead'
        BY <1>2, <2>1 DEF Orderly, OneProgramAhead
    <2>3. CollectedSoFar'
        BY <1>2, <2>1 DEF Orderly, CollectedSoFar
    <2>4. rx' = Stretch(ReadSoFar', punched')
        BY <1>2, <2>1 DEF Orderly
    <2> QED
        BY <1>2, <2>1, <2>2, <2>3, <2>4 DEF Orderly
<1> QED
    BY <1>1, <1>3 DEF DInv

\* A byte arrives behind the others; a program that begins behind an unread '%' is noted.
LEMMA PunchInOrder ==
    ASSUME IInv, DInv, Punch
    PROVE  DInv'
<1>1. HandedTyped' /\ Ended' = Ended /\ lpc' = lpc /\ buf' = buf
    BY DEF DInv, HandedTyped, Punch, listenVars, Ended
<1>2. ASSUME ~lossy', ~glued' PROVE Orderly'
    <2> DEFINE q == ReadSoFar
               p == punched
               t == Token(p + 1)
    <2>1. /\ rx' = Append(rx, t) /\ p' = p + 1 /\ ~lossy
          /\ ~glued /\ \A i \in 1..Len(rx) : IsPercent(rx[i]) => rx[i].of = t.of
        BY <1>2 DEF Punch
    <2>2. Orderly
        BY <2>1 DEF DInv
    <2>3. /\ p \in Nat /\ Len(rx) \in Nat /\ q \in Nat /\ q <= p /\ p - q = Len(rx)
          /\ rx \in Seq(Tape) /\ t \in Tape
        <3>1. p \in Nat /\ p + 1 \in Nat
            BY SpanFacts, SizeAssumption DEF IInv, TypeOK
        <3>2. rx \in Seq(Tape) /\ Len(rx) \in Nat
            BY LenProperties DEF IInv, OnTape
        <3> QED
            BY <2>2, <3>1, <3>2 DEF Orderly, ReadSoFar, Tape
    <2>4. /\ Len(rx') = Len(rx) + 1 /\ rx' \in Seq(Tape)
          /\ \A i \in 1..Len(rx) : rx'[i] = rx[i]
          /\ rx'[Len(rx) + 1] = t
        BY <2>1, <2>3, AppendProperties
    <2>5. ReadSoFar' = q /\ Len(rx') <= p' /\ p' - q = Len(rx) + 1
        BY <2>1, <2>3, <2>4 DEF ReadSoFar
    <2>6. \A i \in 1..p - q : rx[i] = Token(q + i)
        BY <2>2, <2>3, StretchType DEF Orderly
    <2> HIDE DEF t, q
    <2>7. rx' = Stretch(q, p')
        <3>1. ASSUME NEW i \in 1..p' - q PROVE rx'[i] = Token(q + i)
            <4>1. CASE i <= Len(rx)
                <5>1. i \in 1..Len(rx) /\ i \in 1..p - q
                    BY <2>3, <2>5, <4>1
                <5> QED
                    BY <2>4, <2>6, <5>1
            <4>2. CASE i = Len(rx) + 1
                BY <2>3, <2>4, <2>5, <4>2 DEF t
            <4> QED
                BY <2>3, <2>5, <4>1, <4>2
        <3> DEFINE r == rx'
                   z == p'
        <3>2. /\ r \in Seq(Tape) /\ Len(r) = z - q /\ z \in Nat /\ q <= z
              /\ \A i \in 1..z - q : r[i] = Token(q + i)
            BY <2>1, <2>3, <2>4, <2>5, <3>1
        <3> HIDE DEF r, z
        <3>3. r = Stretch(q, z)
            BY <2>3, <3>2, StretchIs
        <3> QED
            BY <3>3 DEF r, z
    <2>8. OneProgramAhead'
        <3> SUFFICES ASSUME NEW k \in q + 1..p + 1, NEW m \in q + 1..p + 1,
                            k < m, IsPercent(Token(k))
                     PROVE  Token(k).of = Token(m).of
            BY <2>1, <2>5 DEF OneProgramAhead
        <3>1. CASE m <= p
            BY <2>2, <2>3, <3>1 DEF Orderly, OneProgramAhead, q
        <3>2. CASE m = p + 1
            <4>1. k - q \in 1..Len(rx) /\ q + (k - q) = k
                BY <2>3, <3>2
            <4>2. rx[k - q] = Token(k)
                BY <2>3, <2>6, <4>1
            <4> QED
                BY <2>1, <3>2, <4>1, <4>2 DEF t
        <3> QED
            BY <2>3, <3>1, <3>2
    <2>9. CollectedSoFar'
        BY <1>1, <2>2, <2>5 DEF Orderly, CollectedSoFar, q
    <2>10. program' = program /\ delivered' = delivered
        BY DEF Punch, listenVars
    <2> QED
        BY <1>1, <2>2, <2>5, <2>7, <2>8, <2>9, <2>10 DEF Orderly, q
<1> QED
    BY <1>1, <1>2 DEF DInv

\* A program is handed over: one more is ended and delivered, none is being delivered.
LEMMA DeliverInOrder ==
    ASSUME DInv, Deliver
    PROVE  DInv'
<1>1. /\ delivered' = Append(delivered, program) /\ program' = <<>> /\ lpc' = "top"
      /\ UNCHANGED <<punched, rx, lossy, glued, buf>> /\ lpc = "delivering"
    BY DEF Deliver, lineVars
<1>2. program \in Seq(Tape) /\ delivered \in Seq(Seq(Tape)) /\ Len(delivered) \in Nat
    BY LenProperties DEF DInv, HandedTyped
<1>3. /\ delivered' \in Seq(Seq(Tape)) /\ Len(delivered') = Len(delivered) + 1
      /\ \A n \in 1..Len(delivered) : delivered'[n] = delivered[n]
      /\ delivered'[Len(delivered) + 1] = program
    BY <1>1, <1>2, AppendProperties
<1>4. HandedTyped'
    BY <1>1, <1>3, EmptySeq DEF HandedTyped
<1>5. Ended' = Ended /\ Ended = Len(delivered) + 1 /\ ReadSoFar' = ReadSoFar
    BY <1>1, <1>2, <1>3 DEF Ended, ReadSoFar
<1>6. ASSUME ~lossy', ~glued' PROVE Orderly'
    <2>1. Orderly
        BY <1>1, <1>6 DEF DInv
    <2>2. OneProgramAhead' /\ rx' = Stretch(ReadSoFar', punched')
        BY <1>1, <1>5, <2>1 DEF Orderly, OneProgramAhead
    <2>3. CollectedSoFar'
        BY <1>1, <1>5, <2>1 DEF Orderly, CollectedSoFar
    <2>4. \A n \in 1..Len(delivered') : delivered'[n] \in Wholes(n)
        BY <1>1, <1>2, <1>3, <1>5, <2>1 DEF Orderly
    <2> QED
        BY <1>1, <2>1, <2>2, <2>3, <2>4 DEF Orderly
<1> QED
    BY <1>4, <1>6 DEF DInv

\* How far the listener has read once it has taken what arrived.
Upto == ReadSoFar + Len(Arrived)

\* A read takes the next stretch of the wire.
LEMMA ArrivedNext ==
    ASSUME IInv, Orderly
    PROVE  /\ ReadSoFar \in Nat /\ Upto \in Nat /\ punched \in Nat
           /\ ReadSoFar <= Upto /\ Upto <= punched
           /\ Arrived = Stretch(ReadSoFar, Upto)
           /\ SubSeq(rx, Len(Arrived) + 1, Len(rx)) = Stretch(Upto, punched)
           /\ Arrived = <<>> => Upto = punched
<1> DEFINE c == IF Len(rx) < ReadMax THEN Len(rx) ELSE ReadMax
           q == ReadSoFar
           p == punched
<1>1. /\ p \in Nat /\ rx \in Seq(Tape) /\ Len(rx) \in Nat /\ Len(rx) <= p
      /\ rx = Stretch(q, p)
    <2>1. p \in Nat
        BY SpanFacts, SizeAssumption DEF IInv, TypeOK
    <2>2. rx \in Seq(Tape) /\ Len(rx) \in Nat
        BY LenProperties DEF IInv, OnTape
    <2> QED
        BY <2>1, <2>2 DEF Orderly
<1>2. q \in Nat /\ q <= p /\ p - q = Len(rx)
    BY <1>1 DEF ReadSoFar
<1>3. c \in 0..Len(rx) /\ (c = 0 => Len(rx) = 0)
    BY <1>1, SizeAssumption
<1>4. Arrived = SubSeq(rx, 1, c)
    BY DEF Arrived
<1> HIDE DEF c, q, p
<1> DEFINE e == q + c
<1>5. e \in Nat /\ q <= e /\ e <= p /\ e - q = c
    BY <1>1, <1>2, <1>3
<1> HIDE DEF e
<1>6. SubSeq(Stretch(q, p), 1, e - q) = Stretch(q, e)
      /\ SubSeq(Stretch(q, p), e - q + 1, p - q) = Stretch(e, p)
    BY <1>1, <1>2, <1>5, StretchCut, ZenonT(30)
<1>7. Arrived = Stretch(q, e) /\ Len(Arrived) = c
    <2>1. Arrived = Stretch(q, e)
        BY <1>1, <1>4, <1>5, <1>6
    <2>2. Len(Stretch(q, e)) = c
        BY <1>2, <1>5, StretchType
    <2> QED
        BY <2>1, <2>2
<1>8. Upto = e
    BY <1>7 DEF Upto, e, q
<1>9. SubSeq(rx, Len(Arrived) + 1, Len(rx)) = Stretch(e, p)
    BY <1>1, <1>2, <1>5, <1>6, <1>7
<1>10. Arrived = <<>> => e = p
    <2> SUFFICES ASSUME Arrived = <<>> PROVE e = p
        OBVIOUS
    <2>1. c = 0
        BY <1>7, EmptySeq
    <2> QED
        BY <1>1, <1>2, <1>3, <1>5, <2>1
<1> QED
    BY <1>1, <1>2, <1>5, <1>7, <1>8, <1>9, <1>10 DEF q, p

\* What is collected after a read: noise dropped, and nothing of the program after next.
LEMMA CollectedNext ==
    ASSUME IInv, HandedTyped, Orderly, lpc = "reading"
    PROVE  /\ Ended = Len(delivered)
           /\ buf \o Kept = IF Upto <= Ended * Span THEN <<>> ELSE Stretch(Ended * Span, Upto)
           /\ Upto <= Ended * Span => Upto = Ended * Span \/ (Ended > 0 /\ Upto = Ended * Span - 1)
           /\ Upto <= Ended * Span + Span
<1> DEFINE n == Ended
           a == n * Span
           q == ReadSoFar
           e == Upto
           p == punched
<1>1. /\ q \in Nat /\ e \in Nat /\ p \in Nat /\ q <= e /\ e <= p
      /\ Arrived = Stretch(q, e)
    BY ArrivedNext
<1>2. /\ buf = <<>> => q = a \/ (n > 0 /\ q = a - 1)
      /\ buf # <<>> => q \in a + 1..a + Body + 1 /\ buf = Stretch(a, q)
    BY DEF Orderly, CollectedSoFar
<1>3. \A k, m \in q + 1..p : k < m /\ IsPercent(Token(k)) => Token(k).of = Token(m).of
    BY DEF Orderly, OneProgramAhead
<1>4. n = Len(delivered) /\ n \in Nat
    BY LenProperties DEF HandedTyped, Ended
<1>5. Span \in Nat /\ Span = Body + 3 /\ Body \in Nat /\ a \in Nat
    BY <1>4, SpanFacts, SizeAssumption
<1>6. \A i \in 1..Span : /\ Token(a + i).of = n + 1
                         /\ IsPercent(Token(a + i)) <=> i = 1 \/ i = Body + 2
    BY <1>4, TokenAt
<1>7. Token(a + Span + 1).of = n + 2
    <2>1. (n + 1) * Span = a + Span /\ n + 1 \in Nat /\ 1 \in 1..Span /\ (n + 1) + 1 = n + 2
        BY <1>4, <1>5
    <2>2. Token((n + 1) * Span + 1).of = (n + 1) + 1
        BY <2>1, TokenAt
    <2> QED
        BY <2>1, <2>2
<1>8. e <= a => buf = <<>>
    BY <1>1, <1>2, <1>5
<1>9. buf \o Kept = IF e <= a THEN <<>> ELSE Stretch(a, e)
    <2>1. CASE buf = <<>>
        <3>1. FromPercent(Stretch(q, e)) = IF e <= a THEN <<>> ELSE Stretch(a, e)
            BY <1>1, <1>2, <1>4, <2>1, NoiseDropped
        <3>2. Kept = FromPercent(Stretch(q, e))
            BY <1>1, <2>1 DEF Kept
        <3>3. Kept \in Seq(Tape)
            BY KeptType DEF IInv, OnTape
        <3>4. <<>> \o Kept = Kept
            BY <3>3, ConcatEmptySeq
        <3> QED
            BY <2>1, <3>1, <3>2, <3>4
    <2>2. CASE buf # <<>>
        <3>1. a <= q /\ ~(e <= a)
            BY <1>1, <1>2, <1>5, <2>2
        <3>2. Kept = Stretch(q, e)
            BY <1>1, <2>2 DEF Kept
        <3>3. Stretch(a, q) \o Stretch(q, e) = Stretch(a, e)
            BY <1>1, <1>5, <3>1, StretchOn
        <3> QED
            BY <1>2, <2>2, <3>1, <3>2, <3>3
    <2> QED
        BY <2>1, <2>2
<1> HIDE DEF n, a, q, e, p
<1>10. e <= a => e = a \/ (n > 0 /\ e = a - 1)
    BY <1>1, <1>2, <1>5, <1>8
<1>11. e <= a + Span
    <2> SUFFICES ASSUME e > a + Span PROVE FALSE
        BY <1>1, <1>5
    <2>1. a + Span + 1 \in q + 1..p
        BY <1>1, <1>2, <1>5
    <2>2. PICK i \in {1, Body + 2} : a + i \in q + 1..p
        <3>1. CASE buf = <<>>
            <4>1. a + 1 \in q + 1..p
                BY <1>1, <1>2, <1>4, <1>5, <3>1
            <4> QED
                BY <4>1
        <3>2. CASE buf # <<>>
            <4>1. a + (Body + 2) \in q + 1..p
                BY <1>1, <1>2, <1>5, <3>2
            <4> QED
                BY <4>1
        <3> QED
            BY <3>1, <3>2
    <2>3. i \in 1..Span /\ a + i < a + Span + 1
        BY <1>5
    <2>4. Token(a + i).of = n + 1 /\ IsPercent(Token(a + i))
        BY <1>6, <2>3
    <2>5. Token(a + i).of = Token(a + Span + 1).of
        BY <1>3, <2>1, <2>2, <2>3, <2>4
    <2> QED
        BY <1>4, <1>7, <2>4, <2>5
<1> QED
    BY <1>4, <1>9, <1>10, <1>11 DEF n, a, q, e, p

\* The listener reads: noise, the next part of a program, or the end of one.
LEMMA ReadInOrder ==
    ASSUME IInv, DInv, Read
    PROVE  DInv'
<1> DEFINE all == buf \o Kept
           marks == percent + PercentsIn(Kept)
<1>1. PICK quiet \in BOOLEAN :
        /\ quiet => buf # <<>> /\ Arrived = <<>>
        /\ lossy' = (lossy \/ (quiet /\ MidProgram))
        /\ IF all # <<>> /\ (marks >= 2 \/ quiet)
           THEN program' = all /\ buf' = <<>> /\ lpc' = "delivering"
           ELSE buf' = all /\ lpc' = "top" /\ program' = program
    BY DEF Read
<1>2. /\ lpc = "reading" /\ rx' = SubSeq(rx, Len(Arrived) + 1, Len(rx))
      /\ punched' = punched /\ glued' = glued /\ delivered' = delivered
    BY DEF Read
<1>3. /\ buf \in Seq(Tape) /\ Kept \in Seq(Tape) /\ all \in Seq(Tape)
      /\ marks = PercentsIn(all)
    <2>1. buf \in Seq(Tape) /\ Kept \in Seq(Tape)
        BY KeptType DEF IInv, OnTape
    <2>2. percent = PercentsIn(buf)
        BY <1>2 DEF IInv, ReceivingMirrorsBuffer
    <2> QED
        BY <2>1, <2>2, MarksAdd, ConcatProperties
<1>4. HandedTyped'
    BY <1>1, <1>2, <1>3 DEF DInv, HandedTyped
<1>5. ASSUME ~lossy', ~glued' PROVE Orderly'
    <2> DEFINE n == Ended
               a == n * Span
               e == Upto
    <2>1. Orderly /\ HandedTyped
        BY <1>1, <1>2, <1>5 DEF DInv
    <2>2. Span \in Nat /\ Span = Body + 3 /\ Body \in Nat /\ n \in Nat /\ a \in Nat
          /\ n = Len(delivered)
        BY <1>2, <2>1, SpanFacts, SizeAssumption, CollectedNext, LenProperties DEF HandedTyped
    <2>3. /\ e \in Nat /\ punched \in Nat /\ ReadSoFar \in Nat /\ ReadSoFar <= e /\ e <= punched
          /\ rx' = Stretch(e, punched) /\ (Arrived = <<>> => e = punched)
        BY <1>2, <2>1, ArrivedNext
    <2>4. /\ all = IF e <= a THEN <<>> ELSE Stretch(a, e)
          /\ e <= a => e = a \/ (n > 0 /\ e = a - 1)
          /\ e <= a + Span
        BY <1>2, <2>1, CollectedNext
    <2>5. ~quiet
        <3> SUFFICES ASSUME quiet PROVE FALSE
            OBVIOUS
        <3>1. ~MidProgram /\ buf # <<>> /\ ReadSoFar \in a + 1..a + Body + 1
            BY <1>1, <1>5, <2>1 DEF Orderly, CollectedSoFar
        <3>2. punched = ReadSoFar
            <4>1. Arrived = <<>> /\ Len(Arrived) = 0
                BY <1>1, EmptySeq
            <4> QED
                BY <2>3, <4>1 DEF Upto
        <3> DEFINE r == punched - a
        <3>3. r \in 1..Body + 1 /\ r \in 0..Span - 1 /\ punched = a + r
            BY <2>2, <2>3, <3>1, <3>2
        <3>4. Span \in Nat \ {0}
            BY <2>2
        <3> HIDE DEF r
        <3>5. (n * Span + r) % Span = r
            BY <2>2, <3>3, <3>4, Places
        <3>6. punched % Span = r
            BY <3>3, <3>5
        <3> QED
            BY <2>2, <3>1, <3>3, <3>6 DEF MidProgram
    <2>6. ReadSoFar' = e /\ Len(rx') <= punched'
        <3>1. Len(Stretch(e, punched)) = punched - e
            BY <2>3, StretchType
        <3>2. Len(rx') = punched - e /\ ReadSoFar' = punched - Len(rx')
            BY <1>2, <2>3, <3>1 DEF ReadSoFar
        <3> HIDE DEF e
        <3> QED
            BY <1>2, <2>3, <3>2
    <2>7. OneProgramAhead'
        <3>1. \A k, m \in e + 1..punched : k \in ReadSoFar + 1..punched /\ m \in ReadSoFar + 1..punched
            BY <2>3
        <3> QED
            BY <1>2, <2>1, <2>6, <3>1 DEF Orderly, OneProgramAhead
    <2>8. /\ \A m \in 1..Len(delivered') : delivered'[m] \in Wholes(m)
          /\ rx' = Stretch(ReadSoFar', punched')
        BY <1>2, <2>1, <2>3, <2>6 DEF Orderly
    <2>9. e > a => /\ all # <<>>
                   /\ marks >= 2 <=> e >= a + Body + 2
                   /\ e >= a + Body + 2 => all \in Wholes(n + 1)
        <3> SUFFICES ASSUME e > a
                     PROVE  /\ all # <<>>
                            /\ marks >= 2 <=> e >= a + Body + 2
                            /\ e >= a + Body + 2 => all \in Wholes(n + 1)
            OBVIOUS
        <3> DEFINE r == e - a
        <3>1. r \in 1..Span /\ r \in 0..Span /\ a + r = e /\ all = Stretch(a, e) /\ a <= e
            BY <2>2, <2>3, <2>4
        <3> HIDE DEF r
        <3>2. PercentsIn(Stretch(n * Span, n * Span + r)) =
                  IF r = 0 THEN 0 ELSE IF r <= Body + 1 THEN 1 ELSE 2
            BY <2>2, <3>1, StretchMarks
        <3>3. marks = IF r = 0 THEN 0 ELSE IF r <= Body + 1 THEN 1 ELSE 2
            BY <1>3, <3>1, <3>2
        <3>4. r \in {Body + 2, Body + 3} => all \in Wholes(n + 1)
            BY <2>2, <3>1, WholeStretch
        <3>5. all # <<>>
            <4> HIDE DEF a, e
            <4>1. Len(Stretch(a, e)) = e - a
                BY <2>2, <2>3, <3>1, StretchType
            <4>2. e - a # 0
                BY <2>2, <2>3
            <4> QED
                BY <3>1, <4>1, <4>2, EmptySeq
        <3> HIDE DEF all, marks, n, a, e
        <3>6. e >= a + Body + 2 <=> r >= Body + 2
            BY <2>2, <2>3, <3>1
        <3>7. r >= Body + 2 => r \in {Body + 2, Body + 3}
            BY <2>2, <3>1
        <3>8. marks >= 2 <=> r >= Body + 2
            BY <2>2, <3>1, <3>3
        <3> QED
            BY <3>4, <3>5, <3>6, <3>7, <3>8
    <2>10. CASE e > a /\ e >= a + Body + 2
        <3>1. program' = all /\ buf' = <<>> /\ lpc' = "delivering" /\ all \in Wholes(n + 1)
            BY <1>1, <2>9, <2>10
        <3>2. Ended' = n + 1
            BY <1>2, <2>2, <3>1 DEF Ended
        <3>3. (n + 1) * Span = a + Span
            BY <2>2
        <3>4. e = a + Span \/ e = a + Span - 1
            <4> HIDE DEF a, e, n
            <4> QED
                BY <2>2, <2>3, <2>4, <2>10
        <3>5. CollectedSoFar'
            BY <2>2, <2>6, <3>1, <3>2, <3>3, <3>4 DEF CollectedSoFar
        <3> QED
            BY <2>6, <2>7, <2>8, <3>1, <3>2, <3>5 DEF Orderly
    <2>11. CASE e > a /\ ~(e >= a + Body + 2)
        <3>1. buf' = all /\ lpc' = "top" /\ all = Stretch(a, e) /\ all # <<>>
            BY <1>1, <2>2, <2>3, <2>4, <2>5, <2>9, <2>11
        <3>2. Ended' = n
            BY <1>2, <2>2, <3>1 DEF Ended
        <3>3. e \in a + 1..a + Body + 1
            <4> HIDE DEF a, e, n
            <4> QED
                BY <2>2, <2>3, <2>11
        <3>4. CollectedSoFar'
            BY <2>6, <3>1, <3>2, <3>3 DEF CollectedSoFar
        <3> QED
            BY <2>6, <2>7, <2>8, <3>1, <3>2, <3>4 DEF Orderly
    <2>12. CASE e <= a
        <3>1. buf' = <<>> /\ lpc' = "top"
            BY <1>1, <2>4, <2>12
        <3>2. Ended' = n
            BY <1>2, <2>2, <3>1 DEF Ended
        <3>3. CollectedSoFar'
            BY <2>4, <2>6, <2>12, <3>1, <3>2 DEF CollectedSoFar
        <3> QED
            BY <2>6, <2>7, <2>8, <3>1, <3>2, <3>3 DEF Orderly
    <2> QED
        BY <2>2, <2>3, <2>10, <2>11, <2>12
<1> QED
    BY <1>4, <1>5 DEF DInv

\* Nothing has been punched, read or handed over.
LEMMA InitInOrder == Init => DInv
<1> SUFFICES ASSUME Init PROVE DInv
    OBVIOUS
<1>1. HandedTyped
    BY EmptySeq DEF Init, HandedTyped
<1>2. /\ punched = 0 /\ rx = <<>> /\ Len(rx) = 0 /\ buf = <<>> /\ lpc = "top"
      /\ delivered = <<>> /\ Len(delivered) = 0
    BY EmptySeq DEF Init
<1>3. ReadSoFar = 0 /\ Ended = 0 /\ 0 * Span = 0
    <2>1. ReadSoFar = 0 - 0 /\ Ended = 0 + 0
        BY <1>2 DEF ReadSoFar, Ended
    <2>2. 0 * Span = 0
        BY SpanFacts
    <2> QED
        BY <2>1, <2>2
<1>4. rx = Stretch(0, 0)
    <2>1. Stretch(0, 0) \in Seq(Tape) /\ Len(Stretch(0, 0)) = 0
        BY StretchType
    <2> QED
        BY <1>2, <2>1, EmptySeq
<1>5. OneProgramAhead /\ CollectedSoFar
    BY <1>2, <1>3 DEF OneProgramAhead, CollectedSoFar
<1>6. Orderly
    BY <1>2, <1>3, <1>4, <1>5 DEF Orderly
<1> QED
    BY <1>1, <1>6 DEF DInv

\* What is lost on the way excuses the listener from then on.
LEMMA LostInOrder ==
    ASSUME DInv, \/ ReadFails \/ Recover \/ Clear \/ DeliverFails \/ ClosePort
    PROVE  DInv'
<1>1. HandedTyped'
    BY EmptySeq DEF DInv, HandedTyped, ReadFails, Recover, Clear, DeliverFails, ClosePort, listenVars
<1>2. lossy' \/ glued'
    <2>1. CASE ReadFails \/ DeliverFails \/ ClosePort
        BY <2>1 DEF ReadFails, DeliverFails, ClosePort
    <2>2. CASE Recover \/ Clear
        <3>1. lpc \in {"failed", "clearing"} /\ lossy' = lossy /\ glued' = glued
            BY <2>2 DEF Recover, Clear, lineVars
        <3> QED
            BY <3>1 DEF DInv, Orderly
    <2> QED
        BY <2>1, <2>2
<1> QED
    BY <1>1, <1>2 DEF DInv

\* Every step keeps what was read and handed over in order.
LEMMA NextInOrder == IInv /\ DInv /\ [Next]_vars => DInv'
<1> SUFFICES ASSUME IInv, DInv, [Next]_vars PROVE DInv'
    OBVIOUS
<1>1. CASE Punch
    BY <1>1, PunchInOrder
<1>2. CASE Loop \/ ListenerAcquires
    BY <1>2, LineUntouched DEF Loop, ListenerAcquires, lineVars
<1>3. CASE Read
    BY <1>3, ReadInOrder
<1>4. CASE ReadFails \/ Recover \/ Clear \/ DeliverFails \/ ClosePort
    BY <1>4, LostInOrder
<1>5. CASE Deliver
    BY <1>5, DeliverInOrder
<1>6. ASSUME NEW s \in Senders, Sender(s) PROVE DInv'
    <2>1. UNCHANGED <<punched, rx, lossy, glued, listenVars>>
        BY <1>6 DEF Sender, Ask, Refused, Enter, EnterFails, WriteAll, DripChunk, DripAborts,
                    DripEnds, WriteFails, Leave, lineVars
    <2> QED
        BY <2>1, LineUntouched DEF listenVars
<1>7. CASE Stop
    BY <1>7, LineUntouched DEF Stop, lineVars, listenVars
<1>8. CASE UNCHANGED vars
    BY <1>8, LineUntouched DEF vars, lineVars, listenVars
<1> QED
    BY <1>1, <1>2, <1>3, <1>4, <1>5, <1>6, <1>7, <1>8 DEF Next, Listening

(* As long as nothing is lost and no program begins before the end of the   *)
(* last was read, the programs handed to on_program are those the machine   *)
(* punched, whole and in order, however the reads cut them and whoever      *)
(* sends meanwhile.                                                         *)
THEOREM EachProgramWhole == Spec => []DeliversWholePrograms
<1>1. Init => IInv /\ DInv
    BY InitIInv, InitInOrder
<1>2. IInv /\ DInv /\ [Next]_vars => (IInv /\ DInv)'
    BY NextIInv, NextInOrder
<1>3. DInv => DeliversWholePrograms
    BY DEF DInv, Orderly, DeliversWholePrograms, WholeSoFar, Wholes
<1> QED
    BY <1>1, <1>2, <1>3, PTL DEF Spec
=============================================================================
