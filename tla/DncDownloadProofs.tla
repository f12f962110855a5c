--------------------------- MODULE DncDownloadProofs ---------------------------
(***************************************************************************)
(* For every set of files, every block size, every number of attempts and  *)
(* every behaviour of the wire, DncDownload keeps its types, writes exactly *)
(* the bytes it owes, never reads past the end, and implements ProgramPull. *)
(***************************************************************************)
EXTENDS DncDownload, SequenceTheorems, TLAPS

-----------------------------------------------------------------------------
(* Blocks of a file.                                                         *)

\* Block 1 starts at 0, and each block starts BLOCK bytes after the one before.
LEMMA StartFacts ==
    ASSUME NEW b \in Nat \ {0}
    PROVE  /\ Start(b) \in Nat
           /\ Start(1) = 0
           /\ Start(b + 1) = Start(b) + BLOCK
<1>1. b - 1 \in Nat
    OBVIOUS
<1>2. (b - 1) * BLOCK \in Nat
    BY <1>1, BlockAssumption, SMT
<1>3. ((b + 1) - 1) * BLOCK = (b - 1) * BLOCK + BLOCK
    BY BlockAssumption, SMT
<1> QED
    BY <1>2, <1>3, BlockAssumption, SMT DEF Start

\* A block that starts inside the file, or at its end, continues the blocks before.
LEMMA ChunkFacts ==
    ASSUME NEW f \in Seq(Byte), NEW b \in Nat \ {0}, Start(b) <= Len(f)
    PROVE  /\ Chunk(f, b) \in Seq(Byte)
           /\ Len(Chunk(f, b)) = Least(BLOCK, Len(f) - Start(b))
           /\ SubSeq(f, 1, Start(b)) \o Chunk(f, b)
                = SubSeq(f, 1, Least(Start(b) + BLOCK, Len(f)))
<1> DEFINE e == Least(Start(b) + BLOCK, Len(f))
<1>1. Start(b) \in Nat /\ Len(f) \in Nat /\ BLOCK \in Nat
    BY StartFacts, LenProperties, BlockAssumption
<1>2. e \in Start(b)..Len(f) /\ e - Start(b) = Least(BLOCK, Len(f) - Start(b))
    BY <1>1 DEF Least
<1>3. \A i \in (Start(b) + 1)..e : f[i] \in Byte
    <2>1. \A i \in (Start(b) + 1)..e : i \in 1..Len(f)
        BY <1>1, <1>2
    <2> QED
        BY <2>1, ElementOfSeq
<1>4. Chunk(f, b) = SubSeq(f, Start(b) + 1, e)
    BY DEF Chunk
<1>5. Chunk(f, b) \in Seq(Byte) /\ Len(Chunk(f, b)) = e - Start(b)
    <2>1. Start(b) + 1 \in Int /\ e \in Int
        BY <1>1, <1>2
    <2>2. /\ SubSeq(f, Start(b) + 1, e) \in Seq(Byte)
          /\ Len(SubSeq(f, Start(b) + 1, e))
               = IF Start(b) + 1 <= e THEN e - (Start(b) + 1) + 1 ELSE 0
        BY <1>3, <2>1, SubSeqProperties
    <2> QED
        BY <1>1, <1>2, <1>4, <2>2
<1>6. SubSeq(f, 1, Start(b)) \o SubSeq(f, Start(b) + 1, e) = SubSeq(f, 1, e)
    <2>1. 1 \in 1..Len(f) + 1 /\ Start(b) \in (1 - 1)..Len(f)
        BY <1>1
    <2> QED
        BY <1>2, <2>1, ConcatAdjacentSubSeq
<1> QED
    BY <1>2, <1>4, <1>5, <1>6

\* A prefix of a file is a sequence of its own length.
LEMMA PrefixFacts ==
    ASSUME NEW f \in Seq(Byte), NEW n \in 0..Len(f)
    PROVE  SubSeq(f, 1, n) \in Seq(Byte) /\ Len(SubSeq(f, 1, n)) = n
<1>1. Len(f) \in Nat /\ n \in Int
    BY LenProperties
<1>2. \A i \in 1..n : f[i] \in Byte
    <2>1. \A i \in 1..n : i \in 1..Len(f)
        BY <1>1
    <2> QED
        BY <2>1, ElementOfSeq
<1>3. /\ SubSeq(f, 1, n) \in Seq(Byte)
      /\ Len(SubSeq(f, 1, n)) = IF 1 <= n THEN n - 1 + 1 ELSE 0
    BY <1>1, <1>2, SubSeqProperties
<1> QED
    BY <1>1, <1>3

-----------------------------------------------------------------------------
(* The inductive invariant.                                                  *)

\* Every reply under way answers a request of this download, from its file.
RepliesFromFile ==
    /\ \A r \in toClient :
          \/ r = OpenAck
          \/ r.block \in Nat \ {0} /\ r = Data(r.block, Chunk(file, r.block))
    /\ \A p \in toBox : p.op = "reqdata" => p.block # 0

\* No reply exists, and no block is asked for, before the box has opened the file.
OpenedFirst ==
    \/ /\ phase \in {"opening", "timeout"}
       /\ toClient = {}
       /\ toBox \subseteq {OpenRead(name)}
    \/ reading = name /\ file # Absent

\* What the client holds is the file up to the block it is asking for.
CollectedPrefix ==
    /\ phase = "opening" => block = 1 /\ data = <<>>
    /\ phase = "reading" =>
          /\ block # 0
          /\ file # Absent
          /\ Start(block) <= Len(file)
          /\ data = SubSeq(file, 1, Start(block))

\* An exchange runs exactly until download() returns or raises.
ExchangeRuns ==
    /\ attempt = 0 <=> phase \in Done
    /\ phase = "opening" => request = OpenRead(name)
    /\ phase = "reading" => request = Request(block)

IInv ==
    /\ TypeOK
    /\ RepliesFromFile
    /\ OpenedFirst
    /\ CollectedPrefix
    /\ ExchangeRuns
    /\ DownloadIntegrity

-----------------------------------------------------------------------------
(* It holds at the start.                                                    *)

\* Before the call: nothing on the wire, nothing collected.
LEMMA InitIInv == Init => IInv
<1> SUFFICES ASSUME Init PROVE IInv
    OBVIOUS
<1> USE DEF Init, ExchangeInit
<1>1. TypeOK
    <2>1. BoxTypeOK
        <3>1. files \in [Names -> Seq(Byte) \cup {Absent}]
            BY ContentsAssumption
        <3>2. buffer \in Seq(Byte)
            BY EmptySeq
        <3>3. firmware \in Firmwares
            OBVIOUS
        <3> QED
            BY <3>1, <3>2, <3>3 DEF BoxTypeOK
    <2>2. data \in Seq(Byte)
        BY EmptySeq
    <2>3. expected \in Nat \cup {NoSize} /\ attempt \in 0..Resends
        BY SizesAssumption, ResendsAssumption
    <2>4. toBox \subseteq Requests /\ request \in Requests
        BY DEF Requests
    <2> QED
        BY <2>1, <2>2, <2>3, <2>4 DEF TypeOK
<1>2. RepliesFromFile
    BY DEF RepliesFromFile, OpenRead
<1>3. OpenedFirst
    BY DEF OpenedFirst
<1>4. CollectedPrefix
    BY DEF CollectedPrefix
<1>5. ExchangeRuns
    BY DEF ExchangeRuns, Done
<1>6. DownloadIntegrity
    BY DEF DownloadIntegrity
<1> QED
    BY <1>1, <1>2, <1>3, <1>4, <1>5, <1>6 DEF IInv

-----------------------------------------------------------------------------
(* Each action preserves it.                                                 *)

\* No action changes what the download is of.
LEMMA Rigid ==
    ASSUME Next
    PROVE  UNCHANGED <<files, name, expected, firmware, writing, buffer>>
BY DEF Next, AcceptOpen, AcceptBlock, AcceptLastBlock, DiscardReply, ResendRequest,
       TimeOut, BoxStep, LoseDatagram, boxVars, clientVars, HandleOpenRead, HandleRequest

\* The bytes of an acceptable reply are the next block of the file.
LEMMA AcceptedBlock ==
    ASSUME IInv, phase = "reading", NEW r \in Acceptable
    PROVE  /\ file \in Seq(Byte)
           /\ block \in Nat \ {0}
           /\ r.payload = Chunk(file, block)
           /\ data \o r.payload \in Seq(Byte)
           /\ data \o r.payload = SubSeq(file, 1, Least(Start(block) + BLOCK, Len(file)))
           /\ Len(data \o r.payload) = Least(Start(block) + BLOCK, Len(file))
           /\ Len(r.payload) = Least(BLOCK, Len(file) - Start(block))
<1>1. /\ file \in Seq(Byte) /\ block \in Nat \ {0} /\ Start(block) <= Len(file)
      /\ data = SubSeq(file, 1, Start(block))
    BY DEF IInv, TypeOK, BoxTypeOK, CollectedPrefix, file
<1>2. r.payload = Chunk(file, block)
    BY DEF IInv, RepliesFromFile, Acceptable, OpenAck, Data
<1>3. /\ data \o r.payload = SubSeq(file, 1, Least(Start(block) + BLOCK, Len(file)))
      /\ Len(r.payload) = Least(BLOCK, Len(file) - Start(block))
    BY <1>1, <1>2, ChunkFacts
<1>4. Least(Start(block) + BLOCK, Len(file)) \in 0..Len(file)
    BY <1>1, StartFacts, LenProperties, BlockAssumption DEF Least
<1> QED
    BY <1>1, <1>2, <1>3, <1>4, PrefixFacts

\* The open is answered and the first block asked for.
LEMMA AcceptOpenStep == ASSUME IInv, AcceptOpen PROVE IInv'
<1> USE DEF AcceptOpen, Begin, boxVars
<1>1. /\ toClient' \subseteq toClient /\ toClient # {}
      /\ UNCHANGED <<files, name, expected>>
    BY DEF Take
<1>2. reading = name /\ file # Absent
    BY <1>1 DEF IInv, OpenedFirst
<1>3. TypeOK'
    <2>1. BoxTypeOK'
        BY DEF IInv, TypeOK, BoxTypeOK
    <2>2. Request(1) \in Requests /\ Requests' = Requests
        BY DEF Requests, Request, OpenRead
    <2>3. toBox' \subseteq Requests' /\ request' \in Requests'
        BY <2>2 DEF IInv, TypeOK
    <2>4. attempt' \in 0..Resends
        BY ResendsAssumption
    <2> QED
        BY <2>1, <2>3, <2>4 DEF IInv, TypeOK
<1>4. RepliesFromFile'
    BY <1>1 DEF IInv, RepliesFromFile, Request, file
<1>5. OpenedFirst'
    BY <1>2 DEF OpenedFirst, file
<1>6. CollectedPrefix'
    <2>1. block = 1 /\ data = <<>>
        BY DEF IInv, CollectedPrefix
    <2>2. file \in Seq(Byte) /\ Len(file) \in Nat
        BY <1>2, LenProperties DEF IInv, TypeOK, BoxTypeOK, file
    <2>3. Start(1) = 0
        BY StartFacts
    <2>4. SubSeq(file, 1, 0) = <<>>
        BY SubSeqEmpty
    <2> QED
        BY <1>2, <2>1, <2>2, <2>3, <2>4 DEF CollectedPrefix, file, Start
<1>7. ExchangeRuns'
    BY DEF IInv, CollectedPrefix, ExchangeRuns, Done
<1>8. DownloadIntegrity'
    BY DEF IInv, DownloadIntegrity
<1> QED
    BY <1>3, <1>4, <1>5, <1>6, <1>7, <1>8 DEF IInv

\* A full block is collected and the next asked for.
LEMMA AcceptBlockStep == ASSUME IInv, AcceptBlock PROVE IInv'
<1> USE DEF AcceptBlock, Begin, boxVars
<1>1. PICK r \in Acceptable : ~LastBlock(r.payload) /\ Take(r) /\ data' = data \o r.payload
    OBVIOUS
<1>2. /\ toClient' \subseteq toClient
      /\ UNCHANGED <<files, name, expected>>
      /\ block' \in Nat \ {0}
    BY <1>1 DEF Take, IInv, TypeOK
<1>3. /\ file \in Seq(Byte) /\ block \in Nat \ {0} /\ Start(block) <= Len(file)
      /\ file # Absent /\ reading = name
    <2>1. file \in Seq(Byte) /\ block \in Nat \ {0}
        BY <1>1, AcceptedBlock
    <2> QED
        BY <2>1, AbsentAssumption DEF IInv, CollectedPrefix, OpenedFirst
\* A block that is not the last is full, so the next one starts where it ends.
<1>4. Start(block + 1) <= Len(file) /\ Least(Start(block) + BLOCK, Len(file)) = Start(block + 1)
    <2>1. Len(r.payload) = Least(BLOCK, Len(file) - Start(block))
        BY <1>1, AcceptedBlock
    <2>2. ~(Len(r.payload) < BLOCK)
        BY <1>1 DEF LastBlock
    <2>3. /\ Start(block) \in Nat /\ Start(block + 1) = Start(block) + BLOCK
          /\ Len(file) \in Nat /\ BLOCK \in Nat \ {0}
        BY <1>3, StartFacts, LenProperties, BlockAssumption
    <2>4. Start(block) + BLOCK <= Len(file)
        BY <1>3, <2>1, <2>2, <2>3 DEF Least
    <2> QED
        BY <2>3, <2>4 DEF Least
<1>5. data' = SubSeq(file, 1, Start(block + 1)) /\ data' \in Seq(Byte)
    BY <1>1, <1>4, AcceptedBlock
<1>6. TypeOK'
    <2>1. BoxTypeOK'
        BY DEF IInv, TypeOK, BoxTypeOK
    <2>2. Request(block + 1) \in Requests /\ Requests' = Requests
        BY <1>2 DEF Requests, Request, OpenRead
    <2>3. toBox' \subseteq Requests' /\ request' \in Requests'
        BY <2>2 DEF IInv, TypeOK
    <2>4. attempt' \in 0..Resends
        BY ResendsAssumption
    <2> QED
        BY <1>2, <1>5, <2>1, <2>3, <2>4 DEF IInv, TypeOK
<1>7. RepliesFromFile'
    BY <1>2 DEF IInv, RepliesFromFile, Request, file
<1>8. OpenedFirst'
    BY <1>3 DEF OpenedFirst, file
<1>9. CollectedPrefix'
    BY <1>2, <1>3, <1>4, <1>5 DEF CollectedPrefix, file, Start
<1>10. ExchangeRuns'
    BY DEF ExchangeRuns, Done
<1>11. DownloadIntegrity'
    BY DEF IInv, DownloadIntegrity
<1> QED
    BY <1>6, <1>7, <1>8, <1>9, <1>10, <1>11 DEF IInv

\* The last block is collected; the call returns, or raises if there is too much.
LEMMA AcceptLastBlockStep == ASSUME IInv, AcceptLastBlock PROVE IInv'
<1> USE DEF AcceptLastBlock, Close, boxVars
<1>1. PICK r \in Acceptable :
          /\ LastBlock(r.payload)
          /\ Take(r)
          /\ data' = data \o r.payload
          /\ IF TooLong(data') THEN phase' = "protocol" /\ UNCHANGED pulled
                              ELSE phase' = "ok" /\ pulled' = data'
    OBVIOUS
<1>2. /\ toClient' \subseteq toClient
      /\ UNCHANGED <<files, name, expected>>
      /\ phase' \in {"ok", "protocol"}
    BY <1>1 DEF Take
<1>3. /\ file \in Seq(Byte) /\ block \in Nat \ {0} /\ Start(block) <= Len(file)
      /\ file # Absent /\ reading = name
    <2>1. file \in Seq(Byte) /\ block \in Nat \ {0}
        BY <1>1, AcceptedBlock
    <2> QED
        BY <2>1, AbsentAssumption DEF IInv, CollectedPrefix, OpenedFirst
<1> DEFINE e == Least(Start(block) + BLOCK, Len(file))
<1>4. /\ data' \in Seq(Byte) /\ data' = SubSeq(file, 1, e) /\ Len(data') = e
      /\ Len(r.payload) = Least(BLOCK, Len(file) - Start(block))
    BY <1>1, AcceptedBlock
\* If download() returns, it stopped at the end of the file or at expected_size.
<1>5. ASSUME phase' = "ok" PROVE data' = Owed
    <2>1. ~TooLong(data')
        BY <1>1, <1>5
    <2>2. Len(file) \in Nat /\ Start(block) \in Nat /\ BLOCK \in Nat
        BY <1>3, StartFacts, LenProperties, BlockAssumption
    <2>3. expected \in Nat \cup {NoSize}
        BY DEF IInv, TypeOK
    <2>4. CASE expected = NoSize
        <3>1. e = Len(file)
            BY <1>1, <1>3, <1>4, <2>2, <2>4 DEF LastBlock, Least
        <3> QED
            BY <1>3, <1>4, <2>4, <3>1, SubSeqFull DEF Owed
    <2>5. CASE expected # NoSize
        <3>1. expected \in Nat /\ e <= expected
            BY <1>4, <2>1, <2>2, <2>3, <2>5 DEF TooLong, Least
        <3>2. e = Least(expected, Len(file))
            BY <1>1, <1>3, <1>4, <2>2, <2>5, <3>1 DEF LastBlock, Least
        <3> QED
            BY <1>3, <1>4, <2>5, <3>2 DEF Owed
    <2> QED
        BY <2>4, <2>5
<1>6. TypeOK'
    <2>1. BoxTypeOK'
        BY DEF IInv, TypeOK, BoxTypeOK
    <2>2. Requests' = Requests
        BY DEF Requests, OpenRead
    <2>3. pulled' \in Seq(Byte) \cup {NoFile}
        BY <1>1, <1>4 DEF IInv, TypeOK
    <2> QED
        BY <1>2, <1>4, <2>1, <2>2, <2>3, ResendsAssumption DEF IInv, TypeOK, Done
<1>7. RepliesFromFile'
    BY <1>2 DEF IInv, RepliesFromFile, file
<1>8. OpenedFirst'
    BY <1>3 DEF OpenedFirst, file
<1>9. CollectedPrefix'
    BY <1>2 DEF CollectedPrefix
<1>10. ExchangeRuns'
    BY <1>2 DEF ExchangeRuns, Done
<1>11. DownloadIntegrity'
    <2>1. Owed' = Owed
        BY DEF Owed, file
    <2>2. pulled = NoFile
        BY DEF IInv, DownloadIntegrity
    <2> QED
        BY <1>1, <1>5, <2>1, <2>2 DEF DownloadIntegrity
<1> QED
    BY <1>6, <1>7, <1>8, <1>9, <1>10, <1>11 DEF IInv

\* A reply that does not match is thrown away.
LEMMA DiscardReplyStep == ASSUME IInv, DiscardReply PROVE IInv'
<1> USE DEF DiscardReply, Discard, boxVars, clientVars
<1>1. toClient' \subseteq toClient
    OBVIOUS
<1>2. TypeOK'
    BY DEF IInv, TypeOK, BoxTypeOK, Requests, OpenRead
<1>3. RepliesFromFile'
    BY <1>1 DEF IInv, RepliesFromFile, file
<1>4. OpenedFirst'
    BY <1>1 DEF IInv, OpenedFirst, file
<1>5. CollectedPrefix'
    BY DEF IInv, CollectedPrefix, file
<1>6. ExchangeRuns'
    BY DEF IInv, ExchangeRuns
<1>7. DownloadIntegrity'
    BY DEF IInv, DownloadIntegrity, Owed, file
<1> QED
    BY <1>2, <1>3, <1>4, <1>5, <1>6, <1>7 DEF IInv

\* A deadline passes and the request is sent again.
LEMMA ResendRequestStep == ASSUME IInv, ResendRequest PROVE IInv'
<1> USE DEF ResendRequest, Resend, boxVars, clientVars
<1>1. TypeOK'
    <2>1. BoxTypeOK' /\ Requests' = Requests
        BY DEF IInv, TypeOK, BoxTypeOK, Requests, OpenRead
    <2>2. attempt' \in 0..Resends /\ silent' \in BOOLEAN
        BY ResendsAssumption DEF IInv, TypeOK, RanOutQuietly
    <2> QED
        BY <2>1, <2>2 DEF IInv, TypeOK
<1>2. RepliesFromFile'
    <2>1. phase \in {"opening", "reading"}
        BY ResendsAssumption DEF IInv, ExchangeRuns, TypeOK, Done
    <2>2. request.op = "reqdata" => request.block # 0
        BY <2>1 DEF IInv, ExchangeRuns, CollectedPrefix, Request, OpenRead
    <2> QED
        BY <2>2 DEF IInv, RepliesFromFile, file
<1>3. OpenedFirst'
    BY ResendsAssumption DEF IInv, OpenedFirst, ExchangeRuns, Done, file
<1>4. CollectedPrefix'
    BY DEF IInv, CollectedPrefix, file
<1>5. ExchangeRuns'
    BY ResendsAssumption DEF IInv, ExchangeRuns
<1>6. DownloadIntegrity'
    BY DEF IInv, DownloadIntegrity, Owed, file
<1> QED
    BY <1>1, <1>2, <1>3, <1>4, <1>5, <1>6 DEF IInv

\* The last deadline passes and the call raises.
LEMMA TimeOutStep == ASSUME IInv, TimeOut PROVE IInv'
<1> USE DEF TimeOut, GiveUp, boxVars
<1>1. phase \in {"opening", "reading"}
    BY ResendsAssumption DEF IInv, ExchangeRuns, TypeOK, Done
<1>2. TypeOK'
    <2>1. BoxTypeOK' /\ Requests' = Requests
        BY DEF IInv, TypeOK, BoxTypeOK, Requests, OpenRead
    <2>2. attempt' \in 0..Resends /\ silent' \in BOOLEAN
        BY ResendsAssumption DEF IInv, TypeOK, RanOutQuietly
    <2> QED
        BY <2>1, <2>2 DEF IInv, TypeOK, Done
<1>3. RepliesFromFile'
    BY DEF IInv, RepliesFromFile, file
<1>4. OpenedFirst'
    BY <1>1 DEF IInv, OpenedFirst, file
<1>5. CollectedPrefix'
    BY DEF CollectedPrefix
<1>6. ExchangeRuns'
    BY DEF ExchangeRuns, Done
<1>7. DownloadIntegrity'
    BY <1>1 DEF IInv, DownloadIntegrity
<1> QED
    BY <1>2, <1>3, <1>4, <1>5, <1>6, <1>7 DEF IInv

\* The box handles a request that has arrived.
LEMMA BoxStepStep == ASSUME IInv, BoxStep PROVE IInv'
<1> USE DEF BoxStep, clientVars
<1>1. PICK p \in toBox : HandleOpenRead(p) \/ HandleRequest(p)
    OBVIOUS
<1>2. /\ toBox' \subseteq toBox
      /\ UNCHANGED <<files, writing, buffer, firmware, request, attempt, disturbed, silent>>
    BY <1>1 DEF HandleOpenRead, HandleRequest, Deliver, boxVars
<1>3. p \in Requests
    BY DEF IInv, TypeOK
<1>4. ASSUME HandleOpenRead(p) PROVE BoxTypeOK' /\ RepliesFromFile' /\ OpenedFirst'
    <2>1. p = OpenRead(name)
        BY <1>3, <1>4 DEF HandleOpenRead, Requests
    <2>2. /\ IF file = Absent THEN toClient' = toClient /\ reading' = reading
             ELSE toClient' = toClient \cup {OpenAck} /\ reading' = name
        BY <1>4, <2>1 DEF HandleOpenRead, Deliver, OpenRead, file
    <2>3. BoxTypeOK'
        BY <1>2, <2>2 DEF IInv, TypeOK, BoxTypeOK
    <2>4. RepliesFromFile'
        BY <1>2, <2>2 DEF IInv, RepliesFromFile, file
    <2>5. OpenedFirst'
        BY <1>2, <2>2 DEF IInv, OpenedFirst, file
    <2> QED
        BY <2>3, <2>4, <2>5
<1>5. ASSUME HandleRequest(p) PROVE BoxTypeOK' /\ RepliesFromFile' /\ OpenedFirst'
    <2>1. p.op = "reqdata" /\ p.block \in Nat \ {0} /\ reading' = reading
        <3>1. p \in [op : {"reqdata"}, block : Nat]
            BY <1>3, <1>5 DEF HandleRequest, Requests, OpenRead
        <3> QED
            BY <1>5, <3>1 DEF HandleRequest, IInv, RepliesFromFile, boxVars
    <2>2. reading = name /\ file # Absent
        BY <2>1 DEF IInv, OpenedFirst, OpenRead
    <2>3. toClient' \subseteq toClient \cup {Data(p.block, Chunk(file, p.block))}
        BY <1>5, <2>2 DEF HandleRequest, Deliver, file
    <2>4. BoxTypeOK'
        BY <1>2, <2>1 DEF IInv, TypeOK, BoxTypeOK
    <2>5. RepliesFromFile'
        BY <1>2, <2>1, <2>3 DEF IInv, RepliesFromFile, Data, file
    <2>6. OpenedFirst'
        BY <1>2, <2>1, <2>2 DEF OpenedFirst, file
    <2> QED
        BY <2>4, <2>5, <2>6
<1>6. BoxTypeOK' /\ RepliesFromFile' /\ OpenedFirst'
    BY <1>1, <1>4, <1>5
<1>7. TypeOK'
    <2>1. Requests' = Requests
        BY DEF Requests, OpenRead
    <2> QED
        BY <1>2, <1>6, <2>1 DEF IInv, TypeOK
<1>8. CollectedPrefix' /\ ExchangeRuns'
    BY <1>2 DEF IInv, CollectedPrefix, ExchangeRuns, file
<1>9. DownloadIntegrity'
    BY <1>2 DEF IInv, DownloadIntegrity, Owed, file
<1> QED
    BY <1>6, <1>7, <1>8, <1>9 DEF IInv

\* The wire loses a datagram.
LEMMA LoseDatagramStep == ASSUME IInv, LoseDatagram PROVE IInv'
<1> USE DEF LoseDatagram, Lose, boxVars, clientVars
<1>1. toClient' \subseteq toClient /\ toBox' \subseteq toBox
    OBVIOUS
<1>2. TypeOK'
    <2>1. BoxTypeOK' /\ Requests' = Requests
        BY DEF IInv, TypeOK, BoxTypeOK, Requests, OpenRead
    <2> QED
        BY <1>1, <2>1 DEF IInv, TypeOK
<1>3. RepliesFromFile'
    BY <1>1 DEF IInv, RepliesFromFile, file
<1>4. OpenedFirst'
    BY <1>1 DEF IInv, OpenedFirst, file
<1>5. CollectedPrefix' /\ ExchangeRuns'
    BY DEF IInv, CollectedPrefix, ExchangeRuns, file
<1>6. DownloadIntegrity'
    BY DEF IInv, DownloadIntegrity, Owed, file
<1> QED
    BY <1>2, <1>3, <1>4, <1>5, <1>6 DEF IInv

\* The induction step: every action, and the step that changes nothing.
LEMMA NextIInv == IInv /\ [Next]_vars => IInv'
<1> SUFFICES ASSUME IInv, [Next]_vars PROVE IInv'
    OBVIOUS
<1>1. CASE AcceptOpen
    BY <1>1, AcceptOpenStep
<1>2. CASE AcceptBlock
    BY <1>2, AcceptBlockStep
<1>3. CASE AcceptLastBlock
    BY <1>3, AcceptLastBlockStep
<1>4. CASE DiscardReply
    BY <1>4, DiscardReplyStep
<1>5. CASE ResendRequest
    BY <1>5, ResendRequestStep
<1>6. CASE TimeOut
    BY <1>6, TimeOutStep
<1>7. CASE BoxStep
    BY <1>7, BoxStepStep
<1>8. CASE LoseDatagram
    BY <1>8, LoseDatagramStep
<1>9. CASE UNCHANGED vars
    <2> USE <1>9 DEF vars, exchangeVars, boxVars, clientVars
    <2>1. TypeOK'
        BY DEF IInv, TypeOK, BoxTypeOK, Requests, OpenRead
    <2>2. RepliesFromFile' /\ OpenedFirst' /\ CollectedPrefix' /\ ExchangeRuns'
        BY DEF IInv, RepliesFromFile, OpenedFirst, CollectedPrefix, ExchangeRuns, file
    <2>3. DownloadIntegrity'
        BY DEF IInv, DownloadIntegrity, Owed, file
    <2> QED
        BY <2>1, <2>2, <2>3 DEF IInv
<1> QED
    BY <1>1, <1>2, <1>3, <1>4, <1>5, <1>6, <1>7, <1>8, <1>9 DEF Next

\* The invariant holds of every behaviour of a download.
THEOREM Invariance == Spec => []IInv
<1>1. Init => IInv
    BY InitIInv
<1>2. IInv /\ [Next]_vars => IInv'
    BY NextIInv
<1> QED
    BY <1>1, <1>2, PTL DEF Spec

-----------------------------------------------------------------------------
(* What follows from it.                                                     *)

\* Every variable keeps its type.
THEOREM TypeCorrect == Spec => []TypeOK
<1>1. IInv => TypeOK
    BY DEF IInv
<1> QED
    BY <1>1, Invariance, PTL

(* What download() wrote is what it owes, for every file, size, block size  *)
(* and number of attempts, whatever the wire loses, repeats or reorders.    *)
THEOREM Integrity == Spec => []DownloadIntegrity
<1>1. IInv => DownloadIntegrity
    BY DEF IInv
<1> QED
    BY <1>1, Invariance, PTL

(* The block loop never asks for a block that starts beyond the end.        *)
THEOREM Bounded == Spec => []NeverReadsPastEnd
<1>1. IInv => NeverReadsPastEnd
    BY DEF IInv, CollectedPrefix, NeverReadsPastEnd
<1> QED
    BY <1>1, Invariance, PTL

(* download() implements ProgramPull: in one step the whole program, or an  *)
(* error and nothing.                                                       *)
THEOREM Refinement == Spec => ImplementsPull
<1>1. Init => Pull!Init
    BY DEF Init, Pull!Init
<1>2. IInv /\ IInv' /\ [Next]_vars => [Pull!Next]_Pull!vars
    <2> SUFFICES ASSUME IInv, IInv', [Next]_vars PROVE [Pull!Next]_Pull!vars
        OBVIOUS
    <2>1. Owed' = Owed
        BY Rigid DEF Owed, file, vars, boxVars, clientVars
    <2>2. CASE AcceptOpen
        BY <2>1, <2>2 DEF AcceptOpen, Pull!vars
    <2>3. CASE AcceptBlock
        BY <2>1, <2>3 DEF AcceptBlock, Pull!vars
    <2>4. CASE AcceptLastBlock
        <3>1. phase = "reading" /\ phase' \in {"ok", "protocol"}
            BY <2>4 DEF AcceptLastBlock
        <3>2. pulled = NoFile
            BY <3>1 DEF IInv, DownloadIntegrity
        <3>3. pulled' = IF phase' = "ok" THEN Owed ELSE NoFile
            BY <2>1 DEF IInv, DownloadIntegrity
        <3> QED
            BY <2>1, <3>1, <3>2, <3>3 DEF Pull!Next, Pull!Succeed, Pull!Fail
    <2>5. CASE DiscardReply
        BY <2>1, <2>5 DEF DiscardReply, clientVars, Pull!vars
    <2>6. CASE ResendRequest
        BY <2>1, <2>6 DEF ResendRequest, clientVars, Pull!vars
    <2>7. CASE TimeOut
        <3>1. phase \in {"opening", "reading"} /\ phase' = "timeout"
            BY <2>7, ResendsAssumption
               DEF TimeOut, GiveUp, IInv, ExchangeRuns, TypeOK, Done
        <3> QED
            BY <2>1, <2>7, <3>1 DEF TimeOut, Pull!Next, Pull!Fail
    <2>8. CASE BoxStep
        BY <2>1, <2>8 DEF BoxStep, clientVars, Pull!vars
    <2>9. CASE LoseDatagram
        BY <2>1, <2>9 DEF LoseDatagram, clientVars, Pull!vars
    <2>10. CASE UNCHANGED vars
        BY <2>1, <2>10 DEF vars, clientVars, Pull!vars
    <2> QED
        BY <2>2, <2>3, <2>4, <2>5, <2>6, <2>7, <2>8, <2>9, <2>10 DEF Next
<1> QED
    BY <1>1, <1>2, Invariance, PTL DEF Spec, ImplementsPull, Pull!Spec
-----------------------------------------------------------------------------
(* A timeout accuses the wire.                                               *)

\* While nothing was lost, the request of this attempt is under way, or its
\* answer is, unless the box has none to give.
Answered ==
    /\ phase = "opening" /\ ~disturbed /\ file # Absent =>
          OpenRead(name) \in toBox \/ toClient # {}
    /\ phase = "reading" /\ ~disturbed =>
          \/ Request(block) \in toBox
          \/ Data(block, Chunk(file, block)) \in toClient
          \/ firmware.quiet /\ Chunk(file, block) = <<>>

\* A block after the first is asked for only while bytes are expected.
BelowSize == phase = "reading" /\ block > 1 /\ expected # NoSize => Start(block) < expected

\* An attempt that ran out on a quiet wire met the end of file that is silent.
SilentEnd == silent /\ file # Absent => EndIsSilent

QuietInv == IInv /\ Answered /\ BelowSize /\ SilentEnd

\* Whole blocks leave no rest.
LEMMA NoRest == \A k \in Nat, b \in Nat \ {0} : (k * b) % b = 0
OBVIOUS

\* The silence past the end of a file is that of EndIsSilent.
LEMMA QuietIsEnd ==
    ASSUME QuietInv, phase \in {"opening", "reading"}, RanOutQuietly, file # Absent
    PROVE  EndIsSilent
<1>1. phase = "reading"
    BY DEF QuietInv, Answered, RanOutQuietly
<1>2. firmware.quiet /\ Chunk(file, block) = <<>>
    BY <1>1 DEF QuietInv, Answered, RanOutQuietly
<1>3. file \in Seq(Byte) /\ block \in Nat \ {0} /\ Start(block) <= Len(file)
    BY <1>1 DEF QuietInv, IInv, TypeOK, BoxTypeOK, CollectedPrefix, file
<1>4. Len(file) \in Nat /\ Start(block) \in Nat /\ BLOCK \in Nat \ {0}
    BY <1>3, StartFacts, LenProperties, BlockAssumption
<1>5. Len(file) = Start(block)
    <2>1. Least(BLOCK, Len(file) - Start(block)) = 0
        <3>1. Len(Chunk(file, block)) = Least(BLOCK, Len(file) - Start(block))
            BY <1>3, ChunkFacts
        <3> QED
            BY <1>2, <3>1, EmptySeq
    <2> QED
        BY <1>3, <1>4, <2>1 DEF Least
<1>6. Len(file) % BLOCK = 0
    <2>1. block - 1 \in Nat /\ Len(file) = (block - 1) * BLOCK
        BY <1>3, <1>5 DEF Start
    <2> QED
        BY <1>4, <2>1, NoRest
<1>7. CASE block = 1
    <2>1. Len(file) = 0
        BY <1>3, <1>5, <1>7, StartFacts
    <2> QED
        BY <1>2, <1>3, <1>6, <2>1, EmptySeq DEF EndIsSilent
<1>8. CASE block > 1
    <2>1. expected = NoSize \/ expected > Len(file)
        <3>1. expected \in Nat \cup {NoSize}
            BY DEF QuietInv, IInv, TypeOK
        <3> QED
            BY <1>1, <1>4, <1>5, <1>8, <3>1 DEF QuietInv, BelowSize
    <2> QED
        BY <1>2, <1>6, <2>1 DEF EndIsSilent
<1> QED
    BY <1>3, <1>7, <1>8

\* Before the call the request is under way.
LEMMA InitQuiet == Init => QuietInv
BY InitIInv DEF Init, ExchangeInit, QuietInv, Answered, BelowSize, SilentEnd

\* A new request is put on the wire.
LEMMA AcceptQuiet ==
    ASSUME QuietInv, IInv', AcceptOpen \/ AcceptBlock
    PROVE  QuietInv'
<1>1. /\ phase' = "reading" /\ Request(block') \in toBox' /\ UNCHANGED <<files, name, silent>>
      /\ UNCHANGED <<expected, firmware>>
    BY DEF AcceptOpen, AcceptBlock, Begin, boxVars, QuietInv, IInv, CollectedPrefix
<1>2. Answered'
    BY <1>1 DEF Answered, Request
<1>3. BelowSize'
    <2>1. CASE AcceptOpen
        BY <2>1 DEF AcceptOpen, BelowSize, QuietInv, IInv, CollectedPrefix
    <2>2. CASE AcceptBlock
        <3>1. PICK r \in Acceptable : ~LastBlock(r.payload) /\ data' = data \o r.payload
            BY <2>2 DEF AcceptBlock
        <3>2. phase = "reading" /\ block' = block + 1
            BY <2>2 DEF AcceptBlock
        <3>3. /\ file \in Seq(Byte) /\ block \in Nat \ {0}
              /\ Len(data \o r.payload) = Least(Start(block) + BLOCK, Len(file))
              /\ Len(r.payload) = Least(BLOCK, Len(file) - Start(block))
            BY <3>2, AcceptedBlock DEF QuietInv
        <3>4. /\ Start(block) \in Nat /\ Start(block + 1) = Start(block) + BLOCK
              /\ Len(file) \in Nat /\ BLOCK \in Nat \ {0}
            BY <3>3, StartFacts, LenProperties, BlockAssumption
        <3>5. Len(data \o r.payload) = Start(block + 1)
            <4>1. ~(Len(r.payload) < BLOCK)
                BY <3>1 DEF LastBlock
            <4> QED
                BY <3>3, <3>4, <4>1 DEF Least
        <3>6. expected # NoSize => Start(block + 1) < expected
            <4>1. expected \in Nat \cup {NoSize}
                BY DEF QuietInv, IInv, TypeOK
            <4> QED
                BY <3>1, <3>3, <3>4, <3>5, <4>1 DEF LastBlock
        <3> QED
            BY <1>1, <3>2, <3>6 DEF BelowSize, Start
    <2> QED
        BY <2>1, <2>2
<1>4. SilentEnd'
    BY <1>1 DEF QuietInv, SilentEnd, EndIsSilent, file
<1> QED
    BY <1>2, <1>3, <1>4 DEF QuietInv

\* The call returns or raises: nothing is asked for any more.
LEMMA EndQuiet ==
    ASSUME QuietInv, IInv', AcceptLastBlock \/ TimeOut
    PROVE  QuietInv'
<1>1. phase' \in Done /\ UNCHANGED <<files, name, expected, firmware>>
    BY DEF AcceptLastBlock, TimeOut, Done, boxVars
<1>2. Answered' /\ BelowSize'
    BY <1>1 DEF Answered, BelowSize, Done
<1>3. SilentEnd'
    <2>1. CASE AcceptLastBlock
        BY <1>1, <2>1 DEF AcceptLastBlock, Close, QuietInv, SilentEnd, EndIsSilent, file
    <2>2. CASE TimeOut
        <3>1. phase \in {"opening", "reading"}
            BY <2>2, ResendsAssumption DEF TimeOut, GiveUp, QuietInv, IInv, ExchangeRuns, TypeOK, Done
        <3>2. file # Absent /\ silent' => silent \/ RanOutQuietly
            BY <2>2 DEF TimeOut, GiveUp
        <3>3. file # Absent /\ silent' => EndIsSilent
            BY <3>1, <3>2, QuietIsEnd DEF QuietInv, SilentEnd
        <3> QED
            BY <1>1, <3>3 DEF SilentEnd, EndIsSilent, file
    <2> QED
        BY <2>1, <2>2
<1> QED
    BY <1>2, <1>3 DEF QuietInv

\* The request is sent again; an attempt that ran out quietly is remembered.
LEMMA ResendQuiet ==
    ASSUME QuietInv, IInv', ResendRequest
    PROVE  QuietInv'
<1> USE DEF ResendRequest, Resend, boxVars, clientVars
<1>1. phase \in {"opening", "reading"}
    BY ResendsAssumption DEF QuietInv, IInv, ExchangeRuns, TypeOK, Done
<1>2. Answered'
    BY <1>1 DEF QuietInv, IInv, ExchangeRuns, Answered, Request, OpenRead
<1>3. BelowSize'
    BY DEF QuietInv, BelowSize, Start
<1>4. SilentEnd'
    <2>1. file # Absent /\ silent' => EndIsSilent
        BY <1>1, QuietIsEnd DEF QuietInv, SilentEnd
    <2> QED
        BY <2>1 DEF SilentEnd, EndIsSilent, file
<1> QED
    BY <1>2, <1>3, <1>4 DEF QuietInv

\* A reply that is dropped is not the answer; one that is lost is remembered.
LEMMA DropQuiet ==
    ASSUME QuietInv, IInv', DiscardReply \/ LoseDatagram
    PROVE  QuietInv'
<1>1. UNCHANGED <<phase, block, files, name, expected, firmware, silent>>
    BY DEF DiscardReply, Discard, LoseDatagram, Lose, boxVars, clientVars
<1>2. Answered'
    <2>1. CASE DiscardReply
        <3>1. phase = "reading" /\ UNCHANGED <<toBox, disturbed>>
            BY <2>1 DEF DiscardReply, Discard
        <3>2. Data(block, Chunk(file, block)) \in toClient =>
                Data(block, Chunk(file, block)) \in toClient'
            BY <2>1 DEF DiscardReply, Discard, Acceptable, Data
        <3> QED
            BY <1>1, <3>1, <3>2 DEF QuietInv, Answered, Request, Data, Chunk, Start, file
    <2>2. CASE LoseDatagram
        BY <2>2 DEF LoseDatagram, Lose, Answered
    <2> QED
        BY <2>1, <2>2
<1>3. BelowSize' /\ SilentEnd'
    BY <1>1 DEF QuietInv, BelowSize, SilentEnd, EndIsSilent, file, Start
<1> QED
    BY <1>2, <1>3 DEF QuietInv

\* The box answers what it takes off the wire, if it has an answer.
LEMMA BoxQuiet ==
    ASSUME QuietInv, IInv', BoxStep
    PROVE  QuietInv'
<1> USE DEF BoxStep, clientVars
<1>1. PICK p \in toBox : HandleOpenRead(p) \/ HandleRequest(p)
    OBVIOUS
<1>2. /\ UNCHANGED <<files, firmware, silent, disturbed, phase, name, block, expected>>
      /\ toBox \subseteq toBox' \cup {p} /\ toClient \subseteq toClient'
    BY <1>1 DEF HandleOpenRead, HandleRequest, Deliver, boxVars
<1>3. Answered'
    <2>1. ASSUME phase = "opening", file # Absent, p = OpenRead(name)
          PROVE  OpenAck \in toClient'
        BY <1>1, <2>1 DEF HandleOpenRead, HandleRequest, Deliver, OpenRead, file
    <2>2. ASSUME phase = "reading", p = Request(block)
          PROVE  \/ Data(block, Chunk(file, block)) \in toClient'
                 \/ firmware.quiet /\ Chunk(file, block) = <<>>
        <3>1. reading = name /\ file # Absent /\ name # NoName
            BY <2>2, NameAssumption DEF QuietInv, IInv, OpenedFirst, CollectedPrefix, TypeOK, Request, OpenRead
        <3>2. HandleRequest(p) /\ p.block = block
            BY <1>1, <2>2 DEF HandleOpenRead, Request
        <3> QED
            BY <3>1, <3>2 DEF HandleRequest, Deliver, Answers, file
    <2> QED
        BY <1>2, <2>1, <2>2 DEF QuietInv, Answered, Request, OpenRead, Data, Chunk, Start, file
<1>4. BelowSize' /\ SilentEnd'
    BY <1>2 DEF QuietInv, BelowSize, SilentEnd, EndIsSilent, file, Start
<1> QED
    BY <1>3, <1>4 DEF QuietInv

(* download() gives up on a file that is on the box only if each attempt    *)
(* lost a datagram or outran one, or the file ends in silence: for every    *)
(* file, block size, size given and number of attempts.                     *)
THEOREM TimeoutsAccuse == Spec => []TimeoutMeansTrouble
<1>1. Init => QuietInv
    BY InitQuiet
<1>2. QuietInv /\ [Next]_vars => QuietInv'
    <2> SUFFICES ASSUME QuietInv, [Next]_vars PROVE QuietInv'
        OBVIOUS
    <2>1. IInv'
        BY NextIInv DEF QuietInv
    <2>2. CASE UNCHANGED vars
        BY <2>1, <2>2 DEF vars, exchangeVars, boxVars, clientVars, QuietInv, Answered, BelowSize,
                          SilentEnd, EndIsSilent, Request, OpenRead, Data, Chunk, Start, file
    <2> QED
        BY <2>1, <2>2, AcceptQuiet, EndQuiet, ResendQuiet, DropQuiet, BoxQuiet DEF Next
<1>3. QuietInv => TimeoutMeansTrouble
    BY DEF QuietInv, SilentEnd, TimeoutMeansTrouble
<1> QED
    BY <1>1, <1>2, <1>3, PTL DEF Spec
=============================================================================
