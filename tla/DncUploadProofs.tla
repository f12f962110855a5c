---------------------------- MODULE DncUploadProofs ----------------------------
(***************************************************************************)
(* For every program, block size, firmware and number of attempts, and for *)
(* every loss, delay and repetition: an upload keeps its types, a careful  *)
(* firmware holds the old program or the whole new one, and a verified     *)
(* program is on the box where the read-back can tell.                     *)
(***************************************************************************)
EXTENDS DncUpload, DncDownloadProofs, NaturalLemmas

-----------------------------------------------------------------------------
(* The inductive invariant.                                                  *)

\* What upload() and its read-back send.
IsPacket(p) ==
    \/ p = OpenWrite(name)
    \/ p.op = "data" /\ p.block \in 1..Blocks /\ p = Write(p.block, Chunk(program, p.block))
    \/ p = CloseWrite
    \/ p = OpenRead(name)
    \/ p.op = "reqdata" /\ p.block \in Nat \ {0} /\ p = Request(p.block)

\* Nothing on the wire comes after the request the client is at.
SentInOrder ==
    /\ IsPacket(request)
    /\ \A p \in toBox : IsPacket(p) /\ Order(p) <= Order(request)

\* The request of each phase, and what the phases before the read-back have not touched.
RequestOfPhase ==
    /\ phase = "creating" => request = OpenWrite(name)
    /\ phase = "sending"  => request = Write(block, Chunk(program, block))
    /\ phase = "closing"  => request = CloseWrite
    /\ phase = "opening"  => request = OpenRead(name)
    /\ phase = "reading"  => request = Request(block)
    /\ phase \in Sending \cup {"opening"} => data = <<>>
    /\ phase = "creating" => block = 1
    /\ phase = "opening" => block = 1
    /\ phase \in {"opening", "reading"} => expected = SizeOf(program)

\* The name is being written until the box has closed it, and changes then.
BoxInOrder ==
    /\ boxAt = 0 => buffer = <<>>
    /\ boxAt <= Blocks =>
          /\ file = old
          /\ \/ writing = name
             \/ /\ boxAt = 0 /\ writing = NoName /\ toClient = {}
                /\ phase \in {"creating", "timeout"} /\ request = OpenWrite(name)
    /\ boxAt > Blocks =>
          \/ writing = name /\ file = old
          \/ writing = NoName /\ file = Stored

\* A box that ignores repeated blocks has a beginning of the program.
BufferIsPrefix ==
    firmware.dedup =>
        /\ Len(buffer) <= Len(program)
        /\ buffer = SubSeq(program, 1, Len(buffer))

\* With block numbers echoed, the client is at most one request ahead of the
\* box until the last block is there; and if repeats are ignored, so is every
\* block up to the one the box is at.
NothingSkipped ==
    firmware.echo =>
        /\ \A r \in toClient : r.op # "bare_ack" /\ (r.op = "ack" => r.block \in 0..boxAt)
        /\ Order(request) <= boxAt + 1 \/ boxAt >= Blocks
        /\ firmware.dedup =>
              /\ boxAt \in 1..Blocks => Len(buffer) = Least(Start(boxAt) + BLOCK, Len(program))
              /\ boxAt > Blocks => Len(buffer) = Len(program)

\* The box has sent a block of the file it has open, and can open and store no
\* other any more.
ReadFrom(f) == boxAt > Blocks + 2 /\ reading # NoName /\ f = files[reading] /\ f # Absent

RepliesFromOpenFile ==
    \A r \in toClient : r.op = "data_reply" =>
        /\ ReadFrom(files[reading])
        /\ r.block \in Nat \ {0}
        /\ r = Data(r.block, Chunk(files[reading], r.block))

\* What was read back is the beginning of that file: all of it, or whole blocks.
ReadSoFar ==
    /\ phase = "reading" /\ block = 1 => data = <<>>
    /\ phase = "reading" /\ block > 1 =>
          /\ ReadFrom(files[reading])
          /\ Start(block) <= Len(files[reading])
          /\ data = SubSeq(files[reading], 1, Start(block))
    /\ phase = "ok" =>
          /\ ReadFrom(files[reading])
          /\ \/ pulled = files[reading]
             \/ /\ program # <<>>
                /\ Len(pulled) <= Len(files[reading]) /\ Len(pulled) % BLOCK = 0
                /\ pulled = SubSeq(files[reading], 1, Len(pulled))

UInv ==
    /\ UTypeOK
    /\ SentInOrder
    /\ RequestOfPhase
    /\ BoxInOrder
    /\ BufferIsPrefix
    /\ NothingSkipped
    /\ RepliesFromOpenFile
    /\ ReadSoFar
-----------------------------------------------------------------------------
(* What a firmware that strips stores.                                       *)

\* What is stored is a text that is no longer than what was received.
LEMMA StoredFacts ==
    ASSUME BoxTypeOK
    PROVE  Stored \in Seq(Byte) /\ Len(Stored) <= Len(buffer)
<1>1. buffer \in Seq(Byte) /\ Len(buffer) \in Nat
    BY LenProperties DEF BoxTypeOK
<1> QED
    BY <1>1, WithoutFacts DEF Stored

-----------------------------------------------------------------------------
(* Blocks of the program, and the order of the requests.                     *)

\* The last block begins in the program or at its end, and ends beyond it.
LEMMA BlocksFacts ==
    ASSUME program \in Seq(Byte)
    PROVE  /\ Blocks \in Nat \ {0}
           /\ \A b \in 1..Blocks : Start(b) \in Nat /\ Start(b) <= Len(program)
           /\ Len(program) \in Nat /\ Len(program) < Start(Blocks) + BLOCK
<1> DEFINE n == Len(program)
           q == n \div BLOCK
<1>1. n \in Nat /\ BLOCK \in Nat \ {0}
    BY LenProperties, BlockAssumption
<1>2. q \in Nat /\ n = (BLOCK * q) + (n % BLOCK) /\ n % BLOCK \in Nat /\ n % BLOCK < BLOCK
    BY <1>1
<1>3. Blocks = q + 1
    BY DEF Blocks
<1>4. \A b \in 1..Blocks : Start(b) \in Nat /\ Start(b) <= n
    <2> SUFFICES ASSUME NEW b \in 1..Blocks PROVE Start(b) \in Nat /\ Start(b) <= n
        OBVIOUS
    <2>1. b \in Nat \ {0} /\ b - 1 \in Nat /\ b - 1 <= q
        BY <1>2, <1>3
    <2>2. \A x, y, z \in Nat : x <= y => x * z <= z * y
        OBVIOUS
    <2>3. (b - 1) * BLOCK <= BLOCK * q
        <3> HIDE DEF q
        <3> QED
            BY <1>1, <1>2, <2>1, <2>2
    <2> QED
        BY <1>1, <1>2, <2>1, <2>3, StartFacts DEF Start
<1>5. n < Start(Blocks) + BLOCK
    <2>1. Start(Blocks) = q * BLOCK
        BY <1>2, <1>3 DEF Start
    <2> QED
        BY <1>1, <1>2, <2>1
<1> QED
    BY <1>1, <1>2, <1>3, <1>4, <1>5

\* The place of each request.
LEMMA OrderFacts ==
    /\ Order(OpenWrite(name)) = 0
    /\ \A b, c : Order(Write(b, c)) = b
    /\ Order(CloseWrite) = Blocks + 1
    /\ Order(OpenRead(name)) = Blocks + 2
    /\ \A b : Order(Request(b)) = Blocks + 2 + b
<1>1. Order(OpenWrite(name)) = 0
    BY DEF Order, OpenWrite
<1>2. \A b, c : Order(Write(b, c)) = b
    BY DEF Order, Write
<1>3. Order(CloseWrite) = Blocks + 1
    BY DEF Order, CloseWrite
<1>4. Order(OpenRead(name)) = Blocks + 2
    BY DEF Order, OpenRead
<1>5. \A b : Order(Request(b)) = Blocks + 2 + b
    BY DEF Order, Request
<1> QED
    BY <1>1, <1>2, <1>3, <1>4, <1>5

\* Each request is of one kind, and has a place.
LEMMA PacketFacts ==
    ASSUME program \in Seq(Byte), NEW p, IsPacket(p)
    PROVE  /\ Order(p) \in Nat
           /\ p.op = "wrq" => p = OpenWrite(name) /\ Order(p) = 0
           /\ p.op = "data" => /\ p.block \in 1..Blocks /\ Order(p) = p.block
                               /\ p.payload = Chunk(program, p.block)
           /\ p.op = "up_close" => Order(p) = Blocks + 1
           /\ p.op = "dl_open" => p.name = name /\ Order(p) = Blocks + 2
           /\ p.op = "reqdata" => p.block \in Nat \ {0} /\ Order(p) = Blocks + 2 + p.block
<1> Blocks \in Nat \ {0}
    BY BlocksFacts
<1>1. CASE p = OpenWrite(name)
    BY <1>1, OrderFacts DEF OpenWrite
<1>2. CASE p.block \in 1..Blocks /\ p = Write(p.block, Chunk(program, p.block))
    <2>1. p.op = "data" /\ p.payload = Chunk(program, p.block)
        BY <1>2 DEF Write
    <2> QED
        BY <1>2, <2>1, OrderFacts
<1>3. CASE p = CloseWrite
    BY <1>3, OrderFacts DEF CloseWrite
<1>4. CASE p = OpenRead(name)
    BY <1>4, OrderFacts DEF OpenRead
<1>5. CASE p.block \in Nat \ {0} /\ p = Request(p.block)
    <2>1. p.op = "reqdata"
        BY <1>5 DEF Request
    <2> QED
        BY <1>5, <2>1, OrderFacts
<1> QED
    BY <1>1, <1>2, <1>3, <1>4, <1>5 DEF IsPacket

\* The requests and their places are those of the program, which does not change.
LEMMA PacketsRigid ==
    ASSUME UNCHANGED <<program, name>>
    PROVE  /\ Blocks' = Blocks
           /\ \A p : IsPacket(p)' <=> IsPacket(p)
           /\ \A p : Order(p)' = Order(p)
<1>1. Blocks' = Blocks
    BY DEF Blocks
<1> QED
    BY <1>1 DEF IsPacket, Order

\* What the types say of the program.
LEMMA UTypeFacts ==
    ASSUME UTypeOK
    PROVE  /\ program \in Seq(Byte) /\ Blocks \in Nat \ {0}
           /\ buffer \in Seq(Byte) /\ Len(buffer) \in Nat
           /\ boxAt \in Nat
           /\ \A n \in Names : files[n] # Absent => files[n] \in Seq(Byte) /\ Len(files[n]) \in Nat
<1>1. program \in Seq(Byte)
    BY ProgramsAssumption DEF UTypeOK
<1>2. buffer \in Seq(Byte) /\ \A n \in Names : files[n] # Absent => files[n] \in Seq(Byte)
    BY DEF UTypeOK, BoxTypeOK
<1>3. boxAt \in Nat
    BY DEF UTypeOK
<1> QED
    BY <1>1, <1>2, <1>3, BlocksFacts, LenProperties

-----------------------------------------------------------------------------
(* It holds at the start.                                                    *)

\* Before the call nothing of the upload has reached the box.
LEMMA InitUInv == UInit => UInv
<1> SUFFICES ASSUME UInit PROVE UInv
    OBVIOUS
<1> USE DEF UInit, ExchangeInit
<1>1. program \in Seq(Byte) /\ Blocks \in Nat \ {0}
    BY ProgramsAssumption, BlocksFacts
<1>2. Order(request) = 0
    BY OrderFacts
<1>3. UTypeOK
    <2>1. BoxTypeOK
        <3>1. files \in [Names -> Seq(Byte) \cup {Absent}]
            BY ContentsAssumption
        <3>2. buffer \in Seq(Byte)
            BY EmptySeq
        <3>3. firmware \in Firmwares
            OBVIOUS
        <3> QED
            BY <3>1, <3>2, <3>3 DEF BoxTypeOK
    <2>2. data \in Seq(Byte)
        BY EmptySeq
    <2>3. attempt \in 0..Resends /\ (attempt = 0 <=> phase \in Finished)
        BY ResendsAssumption DEF Finished, Done
    <2>4. old \in Seq(Byte) \cup {Absent}
        BY <2>1 DEF BoxTypeOK
    <2> QED
        BY <1>1, <1>2, <2>1, <2>2, <2>3, <2>4 DEF UTypeOK, Sending
<1>4. SentInOrder
    BY <1>2 DEF SentInOrder, IsPacket
<1>5. RequestOfPhase
    BY DEF RequestOfPhase, Sending
<1>6. BoxInOrder
    BY <1>1 DEF BoxInOrder, file
<1>7. BufferIsPrefix
    <2>1. SubSeq(program, 1, 0) = <<>> /\ Len(program) \in Nat /\ Len(buffer) = 0
        BY <1>1, SubSeqEmpty, LenProperties, EmptySeq
    <2> QED
        BY <2>1 DEF BufferIsPrefix
<1>8. NothingSkipped
    BY <1>1, <1>2 DEF NothingSkipped
<1>9. RepliesFromOpenFile
    BY DEF RepliesFromOpenFile
<1>10. ReadSoFar
    BY DEF ReadSoFar
<1> QED
    BY <1>3, <1>4, <1>5, <1>6, <1>7, <1>8, <1>9, <1>10 DEF UInv

-----------------------------------------------------------------------------
(* The client's steps.                                                       *)

\* A client that sends nothing, or the next request, leaves the wire in order.
LEMMA NextRequest ==
    ASSUME UInv, UNCHANGED <<program, name>>,
           IsPacket(request'), Order(request) <= Order(request'),
           toBox' \subseteq toBox \cup {request'}
    PROVE  SentInOrder'
<1>1. program \in Seq(Byte) /\ IsPacket(request)
    BY UTypeFacts DEF UInv, SentInOrder
<1>2. Order(request) \in Nat /\ Order(request') \in Nat
    BY <1>1, PacketFacts
<1>3. \A p \in toBox : IsPacket(p) /\ Order(p) \in Nat /\ Order(p) <= Order(request)
    BY <1>1, PacketFacts DEF UInv, SentInOrder
<1>4. \A p \in toBox' : IsPacket(p) /\ Order(p) <= Order(request')
    BY <1>2, <1>3
<1> QED
    BY <1>4 DEF SentInOrder, IsPacket, Order, Blocks

\* A step of the client leaves what the box holds and has sent as it was.
LEMMA ClientKeeps ==
    ASSUME UInv, UNCHANGED <<boxVars, uploadVars, name>>, toClient' \subseteq toClient,
           toClient # {} \/ (request' = request /\ phase' \in {phase, "timeout"})
    PROVE  /\ BoxTypeOK' /\ BoxInOrder' /\ BufferIsPrefix' /\ RepliesFromOpenFile'
           /\ Blocks' = Blocks
           /\ ReadFrom(files[reading])' <=> ReadFrom(files[reading])
<1> USE DEF boxVars, uploadVars
<1>1. Blocks' = Blocks /\ Stored' = Stored /\ file' = file
    BY DEF Blocks, Stored, Without, file
<1>2. BoxTypeOK'
    BY DEF UInv, UTypeOK, BoxTypeOK
<1>3. BoxInOrder'
    BY <1>1 DEF UInv, BoxInOrder
<1>4. BufferIsPrefix'
    BY DEF UInv, BufferIsPrefix
<1>5. ReadFrom(files[reading])' <=> ReadFrom(files[reading])
    BY <1>1 DEF ReadFrom
<1>6. RepliesFromOpenFile'
    BY <1>1 DEF UInv, RepliesFromOpenFile, ReadFrom
<1> QED
    BY <1>1, <1>2, <1>3, <1>4, <1>5, <1>6

\* With block numbers echoed the next request is at most one ahead of the box.
LEMMA NothingSkippedKept ==
    ASSUME UInv, UNCHANGED <<boxVars, uploadVars>>, toClient' \subseteq toClient,
           firmware.echo => \/ Order(request)' <= boxAt + 1
                            \/ boxAt >= Blocks
    PROVE  NothingSkipped'
<1> USE DEF boxVars, uploadVars
<1>1. Blocks' = Blocks
    BY DEF Blocks
<1> QED
    BY <1>1 DEF UInv, NothingSkipped, Start, Least

\* An acknowledged block is one the box has been at, if it echoes numbers.
LEMMA AckedBlock ==
    ASSUME UInv, phase = "sending", NEW r \in Acks
    PROVE  /\ block \in 1..Blocks /\ Order(request) = block
           /\ firmware.echo => block <= boxAt
<1>1. block \in 1..Blocks
    BY UTypeFacts DEF UInv, UTypeOK, Sending
<1>2. Order(request) = block
    BY OrderFacts DEF UInv, RequestOfPhase
<1>3. firmware.echo => block <= boxAt
    BY UTypeFacts DEF UInv, NothingSkipped, Acks, UTypeOK
<1> QED
    BY <1>1, <1>2, <1>3

\* The file is open: the first block is sent.
LEMMA AcceptCreateStep == ASSUME UInv, AcceptCreate PROVE UInv'
<1> USE DEF AcceptCreate, Begin, uploadVars
<1> DEFINE first == Write(1, Chunk(program, 1))
<1>1. toClient' \subseteq toClient /\ toClient # {}
    BY DEF Take
<1>2. request' = first /\ Order(request) = 0 /\ Order(request') = 1 /\ block = 1
    BY OrderFacts DEF UInv, RequestOfPhase
<1>3. boxAt = 0 /\ Blocks \in Nat \ {0}
    BY <1>2, UTypeFacts DEF UInv, UTypeOK
<1>4. /\ BoxTypeOK' /\ BoxInOrder' /\ BufferIsPrefix' /\ RepliesFromOpenFile' /\ Blocks' = Blocks
    BY <1>1, ClientKeeps DEF uploadVars
<1>5. Order(request)' = 1
    BY <1>2 DEF Order, Write
<1>6. UTypeOK'
    <2>1. boxAt' \in 0..Order(request)' /\ block' \in Nat \ {0} /\ block' <= Blocks'
        BY <1>2, <1>3, <1>4, <1>5
    <2>2. attempt' \in 0..Resends /\ attempt' # 0 /\ phase' = "sending"
        BY ResendsAssumption
    <2> QED
        BY <1>4, <2>1, <2>2 DEF UInv, UTypeOK, Sending, Finished, Done
<1>7. SentInOrder'
    <2>1. IsPacket(request')
        BY <1>2, <1>3 DEF IsPacket, Write
    <2> QED
        BY <1>2, <2>1, NextRequest
<1>8. RequestOfPhase'
    BY <1>2 DEF UInv, RequestOfPhase, Sending, Chunk, Write, Start, Least
<1>9. NothingSkipped'
    BY <1>1, <1>3, <1>5, NothingSkippedKept DEF boxVars
<1>10. ReadSoFar'
    BY DEF ReadSoFar
<1> QED
    BY <1>4, <1>6, <1>7, <1>8, <1>9, <1>10 DEF UInv

\* A block is acknowledged and the next one sent.
LEMMA AcceptAckStep == ASSUME UInv, AcceptAck PROVE UInv'
<1> USE DEF AcceptAck, Begin, uploadVars
<1> DEFINE next == Write(block + 1, Chunk(program, block + 1))
<1>1. PICK r \in Acks : Take(r)
    OBVIOUS
<1>2. toClient' \subseteq toClient /\ toClient # {}
    BY <1>1 DEF Take, Acks
<1>3. /\ block \in 1..Blocks /\ Order(request) = block
      /\ firmware.echo => block <= boxAt
      /\ block + 1 \in 1..Blocks /\ Blocks \in Nat \ {0}
    BY <1>1, AckedBlock, UTypeFacts DEF UInv
<1>4. request' = next /\ Order(request') = block + 1 /\ Order(request)' = block + 1
    <2>1. request' = next /\ Order(request') = block + 1
        BY OrderFacts
    <2> QED
        BY <2>1 DEF Order, Write
<1>5. boxAt \in 0..block
    BY <1>3 DEF UInv, UTypeOK
<1>6. /\ BoxTypeOK' /\ BoxInOrder' /\ BufferIsPrefix' /\ RepliesFromOpenFile' /\ Blocks' = Blocks
    BY <1>2, ClientKeeps DEF uploadVars
<1>7. UTypeOK'
    <2>1. boxAt' \in 0..Order(request)' /\ block' \in Nat \ {0} /\ block' <= Blocks'
        BY <1>3, <1>4, <1>5, <1>6
    <2>2. attempt' \in 0..Resends /\ attempt' # 0 /\ phase' = "sending"
        BY ResendsAssumption
    <2> QED
        BY <1>6, <2>1, <2>2 DEF UInv, UTypeOK, Sending, Finished, Done
<1>8. SentInOrder'
    <2>1. IsPacket(request')
        BY <1>3, <1>4 DEF IsPacket, Write
    <2> QED
        BY <1>3, <1>4, <2>1, NextRequest
<1>9. RequestOfPhase'
    BY <1>4 DEF UInv, RequestOfPhase, Sending, Chunk, Write, Start, Least
<1>10. NothingSkipped'
    <2>1. firmware.echo => Order(request)' <= boxAt + 1
        BY <1>3, <1>4, <1>5
    <2> QED
        BY <1>2, <2>1, NothingSkippedKept
<1>11. ReadSoFar'
    BY DEF ReadSoFar
<1> QED
    BY <1>6, <1>7, <1>8, <1>9, <1>10, <1>11 DEF UInv

\* The last block is acknowledged and the file closed.
LEMMA AcceptLastAckStep == ASSUME UInv, AcceptLastAck PROVE UInv'
<1> USE DEF AcceptLastAck, Begin, uploadVars
<1>1. PICK r \in Acks : Take(r)
    OBVIOUS
<1>2. toClient' \subseteq toClient /\ toClient # {}
    BY <1>1 DEF Take, Acks
<1>3. /\ block = Blocks /\ Order(request) = block
      /\ firmware.echo => block <= boxAt
      /\ Blocks \in Nat \ {0}
    BY <1>1, AckedBlock, UTypeFacts DEF UInv
<1>4. /\ BoxTypeOK' /\ BoxInOrder' /\ BufferIsPrefix' /\ RepliesFromOpenFile' /\ Blocks' = Blocks
    BY <1>2, ClientKeeps DEF uploadVars
<1>5. request' = CloseWrite /\ Order(request') = Blocks + 1 /\ Order(request)' = Blocks + 1
    <2>1. request' = CloseWrite /\ Order(request') = Blocks + 1
        BY OrderFacts
    <2> QED
        BY <1>4, <2>1 DEF Order, CloseWrite
<1>6. boxAt \in 0..Blocks
    BY <1>3 DEF UInv, UTypeOK
<1>7. UTypeOK'
    <2>1. boxAt' \in 0..Order(request)' /\ block' \in Nat \ {0} /\ block' <= Blocks'
        BY <1>3, <1>4, <1>5, <1>6
    <2>2. attempt' \in 0..Resends /\ attempt' # 0 /\ phase' = "closing"
        BY ResendsAssumption
    <2> QED
        BY <1>4, <2>1, <2>2 DEF UInv, UTypeOK, Sending, Finished, Done
<1>8. SentInOrder'
    <2>1. IsPacket(request')
        BY <1>5 DEF IsPacket
    <2> QED
        BY <1>3, <1>5, <2>1, NextRequest
<1>9. RequestOfPhase'
    BY <1>5 DEF UInv, RequestOfPhase, Sending, CloseWrite
<1>10. NothingSkipped'
    <2>1. firmware.echo => boxAt >= Blocks
        BY <1>3, <1>6
    <2> QED
        BY <1>2, <2>1, NothingSkippedKept
<1>11. ReadSoFar'
    BY DEF ReadSoFar
<1> QED
    BY <1>4, <1>7, <1>8, <1>9, <1>10, <1>11 DEF UInv

\* The close is sent only when the box is at the last block, if it echoes numbers.
LEMMA Closed ==
    ASSUME UInv, phase \in {"closing", "opening", "reading"}
    PROVE  /\ Order(request) \in Nat /\ Order(request) > Blocks
           /\ phase = "closing" => Order(request) = Blocks + 1
           /\ phase = "opening" => Order(request) = Blocks + 2
           /\ phase = "reading" => Order(request) = Blocks + 2 + block
           /\ firmware.echo => boxAt >= Blocks
<1>1. Blocks \in Nat \ {0} /\ boxAt \in Nat /\ block \in Nat \ {0}
    BY UTypeFacts DEF UInv, UTypeOK
<1>2. /\ phase = "closing" => Order(request) = Blocks + 1
      /\ phase = "opening" => Order(request) = Blocks + 2
      /\ phase = "reading" => Order(request) = Blocks + 2 + block
    BY OrderFacts DEF UInv, RequestOfPhase
<1>3. Order(request) \in Nat /\ Order(request) > Blocks
    BY <1>1, <1>2
<1>4. firmware.echo => boxAt >= Blocks
    BY <1>1, <1>3 DEF UInv, NothingSkipped
<1> QED
    BY <1>2, <1>3, <1>4

\* The close is answered and the file opened for the read-back.
LEMMA AcceptCloseStep == ASSUME UInv, AcceptClose PROVE UInv'
<1> USE DEF AcceptClose, Begin, uploadVars
<1>1. toClient' \subseteq toClient /\ toClient # {}
    BY DEF Take
<1>2. /\ Order(request) = Blocks + 1 /\ Blocks \in Nat \ {0} /\ boxAt \in 0..Blocks + 1
      /\ firmware.echo => boxAt >= Blocks
    BY Closed, UTypeFacts DEF UInv, UTypeOK
<1>3. /\ BoxTypeOK' /\ BoxInOrder' /\ BufferIsPrefix' /\ RepliesFromOpenFile' /\ Blocks' = Blocks
    BY <1>1, ClientKeeps DEF uploadVars
<1>4. request' = OpenRead(name) /\ Order(request') = Blocks + 2 /\ Order(request)' = Blocks + 2
    <2>1. request' = OpenRead(name) /\ Order(request') = Blocks + 2
        BY OrderFacts
    <2> QED
        BY <1>3, <2>1 DEF Order, OpenRead
<1>5. UTypeOK'
    <2>1. boxAt' \in 0..Order(request)'
        BY <1>2, <1>4
    <2>2. attempt' \in 0..Resends /\ attempt' # 0 /\ phase' = "opening" /\ block' = 1
        BY ResendsAssumption
    <2>3. expected' \in Nat \cup {NoSize}
        BY UTypeFacts, LenProperties DEF UInv, SizeOf
    <2> QED
        BY <1>3, <2>1, <2>2, <2>3 DEF UInv, UTypeOK, Sending, Finished, Done
<1>6. SentInOrder'
    <2>1. IsPacket(request')
        BY <1>4 DEF IsPacket
    <2> QED
        BY <1>2, <1>4, <2>1, NextRequest
<1>7. RequestOfPhase'
    BY <1>4 DEF UInv, RequestOfPhase, Sending, OpenRead, SizeOf
<1>8. NothingSkipped'
    BY <1>1, <1>2, NothingSkippedKept
<1>9. ReadSoFar'
    BY DEF ReadSoFar
<1> QED
    BY <1>3, <1>5, <1>6, <1>7, <1>8, <1>9 DEF UInv

\* The close is answered and nothing read back.
LEMMA AcceptCloseUnverifiedStep == ASSUME UInv, AcceptCloseUnverified PROVE UInv'
<1> USE DEF AcceptCloseUnverified, Close, uploadVars
<1>1. toClient' \subseteq toClient /\ toClient # {}
    BY DEF Take
<1>2. /\ Blocks \in Nat \ {0} /\ boxAt \in Nat
      /\ firmware.echo => boxAt >= Blocks
    BY Closed, UTypeFacts DEF UInv, UTypeOK
<1>3. /\ BoxTypeOK' /\ BoxInOrder' /\ BufferIsPrefix' /\ RepliesFromOpenFile' /\ Blocks' = Blocks
    BY <1>1, ClientKeeps DEF uploadVars
<1>4. UTypeOK'
    <2>1. boxAt' \in 0..Order(request)'
        BY <1>3 DEF UInv, UTypeOK, Order
    <2>2. attempt' \in 0..Resends /\ phase' = "sent" /\ attempt' = 0
        BY ResendsAssumption
    <2> QED
        BY <1>3, <2>1, <2>2 DEF UInv, UTypeOK, Sending, Finished, Done
<1>5. SentInOrder'
    BY DEF UInv, SentInOrder, IsPacket, Order, Blocks
<1>6. RequestOfPhase'
    BY DEF RequestOfPhase, Sending
<1>7. NothingSkipped'
    BY <1>1, <1>2, NothingSkippedKept
<1>8. ReadSoFar'
    BY DEF ReadSoFar
<1> QED
    BY <1>3, <1>4, <1>5, <1>6, <1>7, <1>8 DEF UInv

\* The file is open for reading: the first block is asked for.
LEMMA ReadBackOpenStep == ASSUME UInv, AcceptOpen, UNCHANGED uploadVars PROVE UInv'
<1> USE DEF AcceptOpen, Begin, uploadVars
<1>1. toClient' \subseteq toClient /\ toClient # {}
    BY DEF Take
<1>2. /\ Order(request) = Blocks + 2 /\ Blocks \in Nat \ {0} /\ boxAt \in 0..Blocks + 2
      /\ firmware.echo => boxAt >= Blocks
      /\ block = 1 /\ data = <<>>
    BY Closed, UTypeFacts DEF UInv, UTypeOK, RequestOfPhase
<1>3. /\ BoxTypeOK' /\ BoxInOrder' /\ BufferIsPrefix' /\ RepliesFromOpenFile' /\ Blocks' = Blocks
    BY <1>1, ClientKeeps DEF uploadVars
<1>4. request' = Request(1) /\ Order(request') = Blocks + 3 /\ Order(request)' = Blocks + 3
    <2>1. request' = Request(1) /\ Order(request') = Blocks + 3
        BY <1>2, OrderFacts
    <2> QED
        BY <1>2, <1>3, <2>1 DEF Order, Request
<1>5. UTypeOK'
    <2>1. boxAt' \in 0..Order(request)'
        BY <1>2, <1>4
    <2>2. attempt' \in 0..Resends /\ attempt' # 0 /\ phase' = "reading"
        BY ResendsAssumption
    <2> QED
        BY <1>3, <2>1, <2>2 DEF UInv, UTypeOK, Sending, Finished, Done
<1>6. SentInOrder'
    <2>1. IsPacket(request')
        BY <1>4 DEF IsPacket, Request
    <2> QED
        BY <1>2, <1>4, <2>1, NextRequest
<1>7. RequestOfPhase'
    BY <1>2, <1>4 DEF UInv, RequestOfPhase, Sending, Request, SizeOf
<1>8. NothingSkipped'
    BY <1>1, <1>2, NothingSkippedKept
<1>9. ReadSoFar'
    BY <1>2 DEF ReadSoFar
<1> QED
    BY <1>3, <1>5, <1>6, <1>7, <1>8, <1>9 DEF UInv

\* The bytes of an acceptable reply are the next block of the file that is read.
LEMMA ReadBlock ==
    ASSUME UInv, phase = "reading", NEW r \in Acceptable
    PROVE  /\ files[reading] \in Seq(Byte) /\ ReadFrom(files[reading])
           /\ block \in Nat \ {0}
           /\ data \o r.payload \in Seq(Byte)
           /\ data \o r.payload
                = SubSeq(files[reading], 1, Least(Start(block) + BLOCK, Len(files[reading])))
           /\ Len(data \o r.payload) = Least(Start(block) + BLOCK, Len(files[reading]))
           /\ Start(block) <= Len(files[reading])
           /\ Len(r.payload) = Least(BLOCK, Len(files[reading]) - Start(block))
<1> DEFINE f == files[reading]
<1>1. ReadFrom(f) /\ r.payload = Chunk(f, block) /\ block \in Nat \ {0}
    BY DEF UInv, RepliesFromOpenFile, Acceptable, Data
<1>2. f \in Seq(Byte) /\ Len(f) \in Nat
    <2>1. reading \in Names
        BY <1>1 DEF UInv, UTypeOK, BoxTypeOK, ReadFrom
    <2> QED
        BY <1>1, <2>1, UTypeFacts DEF UInv, ReadFrom
<1>3. Start(block) <= Len(f) /\ data = SubSeq(f, 1, Start(block))
    <2>1. CASE block = 1
        <3>1. data = <<>> /\ Start(block) = 0 /\ SubSeq(f, 1, 0) = <<>>
            BY <2>1, StartFacts, SubSeqEmpty DEF UInv, ReadSoFar
        <3> QED
            BY <1>2, <3>1
    <2>2. CASE block # 1
        BY <1>1, <2>2 DEF UInv, ReadSoFar
    <2> QED
        BY <2>1, <2>2
<1>4. /\ data \o r.payload = SubSeq(f, 1, Least(Start(block) + BLOCK, Len(f)))
      /\ Len(r.payload) = Least(BLOCK, Len(f) - Start(block))
    BY <1>1, <1>2, <1>3, ChunkFacts
<1>5. Least(Start(block) + BLOCK, Len(f)) \in 0..Len(f)
    <2>1. \A x, y, z \in Nat : x <= z => Least(x + y, z) \in 0..z
        BY DEF Least
    <2>2. Start(block) \in Nat /\ BLOCK \in Nat
        BY <1>1, StartFacts, BlockAssumption
    <2> QED
        BY <1>2, <1>3, <2>1, <2>2
<1> QED
    BY <1>1, <1>2, <1>3, <1>4, <1>5, PrefixFacts

\* A full block is read back and the next asked for.
LEMMA ReadBackBlockStep == ASSUME UInv, AcceptBlock, UNCHANGED uploadVars PROVE UInv'
<1> USE DEF AcceptBlock, Begin, uploadVars
<1> DEFINE f == files[reading]
<1>1. PICK r \in Acceptable : ~LastBlock(r.payload) /\ Take(r) /\ data' = data \o r.payload
    OBVIOUS
<1>2. toClient' \subseteq toClient /\ toClient # {}
    BY <1>1 DEF Take, Acceptable
<1>3. /\ f \in Seq(Byte) /\ ReadFrom(f) /\ block \in Nat \ {0} /\ data' \in Seq(Byte)
      /\ data' = SubSeq(f, 1, Least(Start(block) + BLOCK, Len(f)))
      /\ Start(block) <= Len(f)
      /\ Len(r.payload) = Least(BLOCK, Len(f) - Start(block))
    BY <1>1, ReadBlock
<1>4. /\ Order(request) = Blocks + 2 + block /\ Blocks \in Nat \ {0} /\ boxAt \in Nat
      /\ boxAt <= Blocks + 2 + block
      /\ firmware.echo => boxAt >= Blocks
    BY Closed, UTypeFacts DEF UInv, UTypeOK
<1>5. /\ BoxTypeOK' /\ BoxInOrder' /\ BufferIsPrefix' /\ RepliesFromOpenFile' /\ Blocks' = Blocks
      /\ ReadFrom(files[reading])' <=> ReadFrom(f)
    BY <1>2, ClientKeeps DEF uploadVars
<1>6. /\ request' = Request(block + 1) /\ Order(request') = Blocks + 2 + (block + 1)
      /\ Order(request)' = Blocks + 2 + (block + 1)
    <2>1. request' = Request(block + 1) /\ Order(request') = Blocks + 2 + (block + 1)
        BY OrderFacts
    <2> QED
        BY <1>5, <2>1 DEF Order, Request
\* A block that is not the last is full, so the next one starts where it ends.
<1>7. Start(block + 1) <= Len(f) /\ data' = SubSeq(f, 1, Start(block + 1))
    <2>1. ~(Len(r.payload) < BLOCK)
        BY <1>1 DEF LastBlock
    <2>2. /\ Start(block) \in Nat /\ Start(block + 1) = Start(block) + BLOCK
          /\ Len(f) \in Nat /\ BLOCK \in Nat \ {0}
        BY <1>3, StartFacts, LenProperties, BlockAssumption
    <2>3. Start(block) + BLOCK <= Len(f)
        BY <1>3, <2>1, <2>2 DEF Least
    <2> QED
        BY <1>3, <2>2, <2>3 DEF Least
<1>8. UTypeOK'
    <2>1. boxAt' \in 0..Order(request)' /\ block' \in Nat \ {0}
        BY <1>3, <1>4, <1>6
    <2>2. attempt' \in 0..Resends /\ attempt' # 0 /\ phase' = "reading"
        BY ResendsAssumption
    <2> QED
        BY <1>3, <1>5, <2>1, <2>2 DEF UInv, UTypeOK, Sending, Finished, Done
<1>9. SentInOrder'
    <2>1. IsPacket(request')
        BY <1>3, <1>6 DEF IsPacket, Request
    <2> QED
        BY <1>3, <1>4, <1>6, <2>1, NextRequest
<1>10. RequestOfPhase'
    BY <1>6 DEF UInv, RequestOfPhase, Sending, Request, SizeOf
<1>11. NothingSkipped'
    BY <1>2, <1>4, NothingSkippedKept
<1>12. ReadSoFar'
    <2>1. block' = block + 1 /\ block' # 1 /\ phase' = "reading"
        BY <1>3
    <2> QED
        BY <1>3, <1>5, <1>7, <2>1 DEF ReadSoFar, Start, boxVars
<1> QED
    BY <1>5, <1>8, <1>9, <1>10, <1>11, <1>12 DEF UInv

\* Blocks that are full add up to a whole number of blocks.
LEMMA WholeBlocks ==
    ASSUME NEW b \in Nat \ {0}
    PROVE  (Start(b) + BLOCK) % BLOCK = 0
<1>1. \A k, m \in Nat : m # 0 => (k * m) % m = 0
    OBVIOUS
<1>2. Start(b) + BLOCK = b * BLOCK
    BY BlockAssumption DEF Start
<1> QED
    BY <1>1, <1>2, BlockAssumption

\* The last block is read back; the call returns, or raises if there is too much.
LEMMA ReadBackLastStep == ASSUME UInv, AcceptLastBlock, UNCHANGED uploadVars PROVE UInv'
<1> USE DEF AcceptLastBlock, Close, uploadVars
<1> DEFINE f == files[reading]
           e == Least(Start(block) + BLOCK, Len(f))
<1>1. PICK r \in Acceptable :
          /\ LastBlock(r.payload)
          /\ Take(r)
          /\ data' = data \o r.payload
          /\ IF TooLong(data') THEN phase' = "protocol" /\ UNCHANGED pulled
                              ELSE phase' = "ok" /\ pulled' = data'
    OBVIOUS
<1>2. toClient' \subseteq toClient /\ toClient # {}
    BY <1>1 DEF Take, Acceptable
<1>3. /\ f \in Seq(Byte) /\ ReadFrom(f) /\ block \in Nat \ {0} /\ data' \in Seq(Byte)
      /\ data' = SubSeq(f, 1, e) /\ Len(data') = e
      /\ Start(block) <= Len(f)
      /\ Len(r.payload) = Least(BLOCK, Len(f) - Start(block))
    BY <1>1, ReadBlock
<1>4. /\ Blocks \in Nat \ {0} /\ boxAt \in Nat
      /\ firmware.echo => boxAt >= Blocks
    BY Closed, UTypeFacts DEF UInv, UTypeOK
<1>5. /\ BoxTypeOK' /\ BoxInOrder' /\ BufferIsPrefix' /\ RepliesFromOpenFile' /\ Blocks' = Blocks
      /\ ReadFrom(files[reading])' <=> ReadFrom(f)
    BY <1>2, ClientKeeps DEF uploadVars
<1>6. phase' \in {"ok", "protocol"} /\ (phase' = "ok" => pulled' = data')
    BY <1>1
<1>7. UTypeOK'
    <2>1. boxAt' \in 0..Order(request)'
        BY <1>5 DEF UInv, UTypeOK, Order
    <2>2. attempt' \in 0..Resends /\ attempt' = 0 /\ phase' \in Done
        BY <1>6, ResendsAssumption DEF Done
    <2>3. pulled' \in Seq(Byte) \cup {NoFile}
        BY <1>1, <1>3 DEF UInv, UTypeOK
    <2> QED
        BY <1>3, <1>5, <1>6, <2>1, <2>2, <2>3 DEF UInv, UTypeOK, Sending, Finished
<1>8. SentInOrder'
    BY DEF UInv, SentInOrder, IsPacket, Order, Blocks
<1>9. RequestOfPhase'
    BY <1>6 DEF RequestOfPhase, Sending
<1>10. NothingSkipped'
    BY <1>2, <1>4, NothingSkippedKept
\* A full last block was taken for the last because of the size of the program.
<1>11. ASSUME phase' = "ok"
       PROVE  \/ pulled' = f
              \/ /\ program # <<>> /\ Len(pulled') <= Len(f) /\ Len(pulled') % BLOCK = 0
                 /\ pulled' = SubSeq(f, 1, Len(pulled'))
    <2>1. /\ Start(block) \in Nat /\ Len(f) \in Nat /\ BLOCK \in Nat \ {0}
        BY <1>3, StartFacts, LenProperties, BlockAssumption
    <2>2. CASE Len(f) <= Start(block) + BLOCK
        <3>1. \A x, z \in Nat : z <= x => Least(x, z) = z
            BY DEF Least
        <3>2. e = Len(f)
            BY <2>1, <2>2, <3>1
        <3> QED
            BY <1>3, <1>6, <1>11, <3>2, SubSeqFull
    <2>3. CASE ~(Len(f) <= Start(block) + BLOCK)
        <3>1. e = Start(block) + BLOCK /\ Len(r.payload) = BLOCK /\ e <= Len(f)
            BY <1>3, <2>1, <2>3 DEF Least
        <3>2. expected # NoSize
            BY <1>1, <2>1, <3>1 DEF LastBlock
        <3>3. program # <<>>
            BY <3>2, EmptySeq DEF UInv, RequestOfPhase, SizeOf
        <3> QED
            BY <1>3, <1>6, <1>11, <3>1, <3>3, WholeBlocks
    <2> QED
        BY <2>2, <2>3
<1>12. ReadSoFar'
    BY <1>3, <1>5, <1>6, <1>11 DEF ReadSoFar, boxVars
<1> QED
    BY <1>5, <1>7, <1>8, <1>9, <1>10, <1>12 DEF UInv

\* A packet is dropped, or the same request sent again.
LEMMA WaitingStep ==
    ASSUME UInv, UNCHANGED <<boxVars, clientVars, uploadVars, request>>,
           toClient' \subseteq toClient, toBox' \subseteq toBox \cup {request},
           attempt' \in 0..Resends, attempt' = 0 <=> attempt = 0
    PROVE  UInv'
<1> USE DEF clientVars, uploadVars
<1>1. /\ BoxTypeOK' /\ BoxInOrder' /\ BufferIsPrefix' /\ RepliesFromOpenFile' /\ Blocks' = Blocks
      /\ ReadFrom(files[reading])' <=> ReadFrom(files[reading])
    BY ClientKeeps DEF uploadVars
<1>2. UTypeOK'
    <2>1. boxAt' \in 0..Order(request)'
        BY <1>1 DEF UInv, UTypeOK, Order
    <2> QED
        BY <1>1, <2>1 DEF UInv, UTypeOK
<1>3. SentInOrder'
    <2>1. IsPacket(request')
        BY DEF UInv, SentInOrder
    <2>2. Order(request) <= Order(request')
        BY <2>1, UTypeFacts, PacketFacts DEF UInv
    <2> QED
        BY <2>1, <2>2, NextRequest
<1>4. RequestOfPhase'
    BY DEF UInv, RequestOfPhase, Chunk, Start, Least, SizeOf
<1>5. NothingSkipped'
    <2>1. Order(request)' = Order(request)
        BY <1>1 DEF Order
    <2> QED
        BY <2>1, NothingSkippedKept DEF UInv, NothingSkipped
<1>6. ReadSoFar'
    BY <1>1 DEF UInv, ReadSoFar, Start, boxVars
<1> QED
    BY <1>1, <1>2, <1>3, <1>4, <1>5, <1>6 DEF UInv

\* The last deadline passes and the call raises.
LEMMA UTimeOutStep == ASSUME UInv, TimeOut, UNCHANGED uploadVars PROVE UInv'
<1> USE DEF TimeOut, GiveUp, uploadVars
<1>1. /\ BoxTypeOK' /\ BoxInOrder' /\ BufferIsPrefix' /\ RepliesFromOpenFile' /\ Blocks' = Blocks
    BY ClientKeeps DEF uploadVars
<1>2. UTypeOK'
    <2>1. boxAt' \in 0..Order(request)'
        BY <1>1 DEF UInv, UTypeOK, Order
    <2>2. attempt' \in 0..Resends /\ attempt' = 0 /\ phase' = "timeout"
        BY ResendsAssumption
    <2> QED
        BY <1>1, <2>1, <2>2 DEF UInv, UTypeOK, Sending, Finished, Done
<1>3. SentInOrder'
    BY DEF UInv, SentInOrder, IsPacket, Order, Blocks
<1>4. RequestOfPhase'
    BY DEF RequestOfPhase, Sending
<1>5. NothingSkipped'
    <2>1. Order(request)' = Order(request)
        BY <1>1 DEF Order
    <2> QED
        BY <2>1, NothingSkippedKept DEF UInv, NothingSkipped
<1>6. ReadSoFar'
    BY DEF ReadSoFar
<1> QED
    BY <1>1, <1>2, <1>3, <1>4, <1>5, <1>6 DEF UInv

-----------------------------------------------------------------------------
(* The box's steps.                                                          *)

\* The box handles p, which no later request has overtaken.
Handles(p) ==
    /\ p \in toBox /\ Order(p) >= boxAt /\ boxAt' = Order(p)
    /\ UNCHANGED <<clientVars, program, old, request, attempt, firmware>>
    /\ toBox' \subseteq toBox

\* What the box handles was sent by this client, and its place is between the
\* last request the box handled and the one the client is at.
LEMMA HandledPacket ==
    ASSUME UInv, NEW p, Handles(p)
    PROVE  /\ program \in Seq(Byte) /\ IsPacket(p)
           /\ Blocks \in Nat \ {0} /\ boxAt \in Nat /\ Order(request) \in Nat
           /\ Order(p) \in Nat /\ boxAt <= Order(p) /\ Order(p) <= Order(request)
           /\ Blocks' = Blocks /\ Order(request)' = Order(request)
<1>1. program \in Seq(Byte) /\ IsPacket(p) /\ IsPacket(request) /\ Order(p) <= Order(request)
    BY UTypeFacts DEF UInv, SentInOrder, Handles
<1>2. Order(p) \in Nat /\ Order(request) \in Nat
    BY <1>1, PacketFacts
<1>3. Blocks' = Blocks
    BY DEF Blocks, Handles
<1>4. Order(request)' = Order(request)
    BY <1>3 DEF Order, Handles
<1> QED
    BY <1>1, <1>2, <1>3, <1>4, UTypeFacts DEF UInv, Handles

\* The client does not move.
LEMMA HandledKeeps ==
    ASSUME UInv, NEW p, Handles(p), BoxTypeOK'
    PROVE  UTypeOK' /\ SentInOrder' /\ RequestOfPhase'
<1> USE DEF Handles, clientVars
<1>1. UTypeOK'
    <2>1. boxAt' \in 0..Order(request)'
        BY HandledPacket
    <2> QED
        BY <2>1, HandledPacket DEF UInv, UTypeOK
<1>2. SentInOrder'
    BY DEF UInv, SentInOrder, IsPacket, Order, Blocks
<1>3. RequestOfPhase'
    BY DEF UInv, RequestOfPhase, Chunk, Start, Least, SizeOf
<1> QED
    BY <1>1, <1>2, <1>3

\* Before the box is asked for a block it has sent none, and none was read back.
LEMMA NothingRead ==
    ASSUME UInv, NEW p, Handles(p), boxAt <= Blocks + 2,
           \A r \in toClient' \ toClient : r.op # "data_reply"
    PROVE  RepliesFromOpenFile' /\ ReadSoFar'
<1>1. ~ReadFrom(files[reading])
    BY HandledPacket DEF ReadFrom
<1>2. \A r \in toClient' : r.op # "data_reply"
    BY <1>1 DEF UInv, RepliesFromOpenFile
<1>3. RepliesFromOpenFile'
    BY <1>2 DEF RepliesFromOpenFile
<1>4. phase # "ok" /\ (phase = "reading" => block = 1 /\ data = <<>>)
    <2>1. block \in Nat \ {0}
        BY DEF UInv, UTypeOK
    <2> QED
        BY <1>1, <2>1 DEF UInv, ReadSoFar
<1>5. ReadSoFar'
    BY <1>4 DEF ReadSoFar, Handles, clientVars
<1> QED
    BY <1>3, <1>5

\* Once the box is past the blocks, they are all there, and it writes that name.
LEMMA PastTheBlocks ==
    ASSUME UInv, NEW p, Handles(p), Order(p) > Blocks
    PROVE  /\ boxAt <= Blocks => writing = name /\ file = old
           /\ firmware.echo /\ firmware.dedup => Len(buffer) = Len(program)
<1>1. Order(request) > Blocks /\ Order(request) # 0
    BY HandledPacket
<1>2. boxAt <= Blocks => writing = name /\ file = old
    BY <1>1, OrderFacts DEF UInv, BoxInOrder
<1>3. ASSUME firmware.echo, firmware.dedup PROVE Len(buffer) = Len(program)
    <2>1. boxAt >= Blocks
        BY <1>1, <1>3, HandledPacket DEF UInv, NothingSkipped
    <2>2. CASE boxAt = Blocks
        <3>1. Len(buffer) = Least(Start(Blocks) + BLOCK, Len(program))
            BY <1>3, <2>2, HandledPacket DEF UInv, NothingSkipped
        <3>2. /\ Len(program) \in Nat /\ Start(Blocks) \in Nat
              /\ Len(program) < Start(Blocks) + BLOCK
            BY HandledPacket, BlocksFacts
        <3> QED
            BY <3>1, <3>2, BlockAssumption DEF Least
    <2>3. CASE boxAt # Blocks
        BY <1>3, <2>1, <2>3, HandledPacket DEF UInv, NothingSkipped
    <2> QED
        BY <2>2, <2>3
<1> QED
    BY <1>2, <1>3

\* Past the blocks nothing more is received, and nothing has been skipped.
LEMMA NothingSkippedAfter ==
    ASSUME UInv, NEW p, Handles(p), Order(p) > Blocks, buffer' = buffer,
           \A r \in toClient' \ toClient : r.op \notin {"ack", "bare_ack"}
    PROVE  NothingSkipped'
<1>1. /\ Blocks \in Nat \ {0} /\ boxAt \in Nat /\ Order(p) \in Nat /\ boxAt <= Order(p)
      /\ Blocks' = Blocks
    BY HandledPacket
<1>2. firmware.echo => \A r \in toClient' :
          r.op # "bare_ack" /\ (r.op = "ack" => r.block \in 0..Order(p))
    <2>1. firmware.echo => \A r \in toClient :
              r.op # "bare_ack" /\ (r.op = "ack" => r.block \in 0..boxAt)
        BY DEF UInv, NothingSkipped
    <2> QED
        BY <1>1, <2>1
<1>3. boxAt' = Order(p) /\ boxAt' >= Blocks' /\ ~(boxAt' \in 1..Blocks')
    BY <1>1 DEF Handles
<1>4. firmware.echo /\ firmware.dedup => Len(buffer') = Len(program')
    BY PastTheBlocks DEF Handles
<1>5. firmware' = firmware
    BY DEF Handles
<1> QED
    BY <1>2, <1>3, <1>4, <1>5 DEF NothingSkipped

\* The box opens the file for upload.
LEMMA HandleOpenWriteStep ==
    ASSUME UInv, NEW p, Handles(p), HandleOpenWrite(p)
    PROVE  UInv'
<1> USE DEF HandleOpenWrite, Deliver
<1>1. p = OpenWrite(name) /\ Order(p) = 0 /\ boxAt = 0 /\ boxAt' = 0 /\ name \in Names
      /\ Blocks \in Nat \ {0} /\ Blocks' = Blocks /\ Order(request)' = Order(request)
    BY HandledPacket, PacketFacts DEF Handles, UInv, UTypeOK
<1>2. writing' = name /\ buffer' = <<>>
    BY <1>1 DEF OpenWrite
<1>3. BoxTypeOK'
    BY <1>1, <1>2, EmptySeq DEF UInv, UTypeOK, BoxTypeOK
<1>4. UTypeOK' /\ SentInOrder' /\ RequestOfPhase'
    BY <1>3, HandledKeeps
<1>5. BoxInOrder'
    BY <1>1, <1>2 DEF UInv, BoxInOrder, file, Handles, clientVars
<1>6. BufferIsPrefix'
    <2>1. SubSeq(program, 1, 0) = <<>> /\ Len(program) \in Nat /\ Len(buffer') = 0
        BY <1>2, HandledPacket, SubSeqEmpty, LenProperties, EmptySeq
    <2> QED
        BY <1>2, <2>1 DEF BufferIsPrefix, Handles
<1>7. NothingSkipped'
    <2>1. firmware.echo => toClient' = toClient \cup {Ack(0)}
        OBVIOUS
    <2>2. firmware.echo => \A r \in toClient' :
              r.op # "bare_ack" /\ (r.op = "ack" => r.block \in 0..0)
        BY <1>1, <2>1 DEF UInv, NothingSkipped, Ack
    <2>3. firmware.echo => Order(request)' <= 1 \/ 0 >= Blocks'
        BY <1>1 DEF UInv, NothingSkipped
    <2>4. ~(boxAt' \in 1..Blocks') /\ ~(boxAt' > Blocks')
        BY <1>1
    <2> QED
        BY <1>1, <2>2, <2>3, <2>4 DEF NothingSkipped, Handles
<1>8. RepliesFromOpenFile' /\ ReadSoFar'
    <2>1. \A r \in toClient' \ toClient : r.op # "data_reply"
        BY DEF Ack, BareAck
    <2> QED
        BY <1>1, <2>1, NothingRead
<1> QED
    BY <1>4, <1>5, <1>6, <1>7, <1>8 DEF UInv

\* The box receives one block.
LEMMA HandleWriteStep ==
    ASSUME UInv, NEW p, Handles(p), HandleWrite(p)
    PROVE  UInv'
<1> USE DEF HandleWrite, Deliver
<1> DEFINE b == p.block
           n == Len(program)
           e == Least(Start(b) + BLOCK, n)
<1>1. /\ b \in 1..Blocks /\ Order(p) = b /\ p.payload = Chunk(program, b) /\ boxAt' = b
      /\ program \in Seq(Byte) /\ boxAt \in Nat /\ boxAt <= b
      /\ Order(request) \in Nat /\ b <= Order(request) /\ Order(request) # 0
      /\ Blocks \in Nat \ {0} /\ Blocks' = Blocks /\ Order(request)' = Order(request)
    BY HandledPacket, PacketFacts DEF Handles
<1>2. /\ n \in Nat /\ Start(b) \in Nat /\ Start(b) <= n /\ BLOCK \in Nat \ {0}
      /\ buffer \in Seq(Byte) /\ Len(buffer) \in Nat /\ e \in 0..n
    <2>1. n \in Nat /\ Start(b) \in Nat /\ Start(b) <= n
        BY <1>1, BlocksFacts
    <2>2. \A x, y, z \in Nat : x <= z => Least(x + y, z) \in 0..z
        BY DEF Least
    <2> QED
        BY <2>1, <2>2, UTypeFacts, BlockAssumption DEF UInv
<1>3. p.payload \in Seq(Byte) /\ SubSeq(program, 1, Start(b)) \o p.payload = SubSeq(program, 1, e)
    <2>1. b \in Nat \ {0}
        BY <1>1
    <2> HIDE DEF b
    <2> QED
        BY <1>1, <1>2, <2>1, ChunkFacts
<1>4. BoxTypeOK'
    <2>1. buffer' \in Seq(Byte)
        BY <1>2, <1>3, ConcatProperties
    <2> QED
        BY <2>1 DEF UInv, UTypeOK, BoxTypeOK, Handles
<1>5. UTypeOK' /\ SentInOrder' /\ RequestOfPhase'
    BY <1>4, HandledKeeps
<1>6. BoxInOrder'
    <2>1. file = old /\ writing = name
        BY <1>1, OrderFacts DEF UInv, BoxInOrder
    <2>2. boxAt' # 0 /\ boxAt' <= Blocks'
        BY <1>1
    <2> QED
        BY <1>1, <2>1, <2>2 DEF BoxInOrder, file, Handles, clientVars
\* A box that ignores repeats appends a block where it belongs, or not at all.
<1>7. ASSUME firmware.dedup
      PROVE  IF Len(buffer) = Start(b)
             THEN buffer' = SubSeq(program, 1, e) /\ Len(buffer') = e
             ELSE buffer' = buffer
    <2>1. Len(buffer) = Start(b) => buffer' = SubSeq(program, 1, e)
        BY <1>3, <1>7 DEF UInv, BufferIsPrefix
    <2> QED
        BY <1>1, <1>2, <1>7, <2>1, PrefixFacts
<1>8. BufferIsPrefix'
    <2>1. ASSUME firmware.dedup
          PROVE  Len(buffer') <= n /\ buffer' = SubSeq(program, 1, Len(buffer'))
        <3>1. Len(buffer) <= n /\ buffer = SubSeq(program, 1, Len(buffer))
            BY <2>1 DEF UInv, BufferIsPrefix
        <3>2. CASE Len(buffer) = Start(b)
            <4>1. buffer' = SubSeq(program, 1, e) /\ Len(buffer') = e /\ e <= n
                BY <1>2, <1>7, <2>1, <3>2
            <4> QED
                BY <4>1
        <3>3. CASE Len(buffer) # Start(b)
            <4>1. buffer' = buffer
                BY <1>7, <2>1, <3>3
            <4> QED
                BY <3>1, <4>1
        <3> QED
            BY <3>2, <3>3
    <2> QED
        BY <2>1 DEF BufferIsPrefix, Handles
<1>9. NothingSkipped'
    <2>1. firmware.echo => \A r \in toClient' :
              r.op # "bare_ack" /\ (r.op = "ack" => r.block \in 0..b)
        <3>1. firmware.echo => \A r \in toClient :
                  r.op # "bare_ack" /\ (r.op = "ack" => r.block \in 0..boxAt)
            BY DEF UInv, NothingSkipped
        <3>2. \A r \in toClient' \ toClient : r.op # "bare_ack" /\ r.block = b
            BY DEF Ack
        <3> QED
            BY <1>1, <3>1, <3>2
    <2>2. firmware.echo => Order(request) <= boxAt + 1 \/ boxAt >= Blocks
        BY DEF UInv, NothingSkipped
    <2>3. firmware.echo => Order(request) <= b + 1 \/ b >= Blocks
        BY <1>1, <2>2
    <2>4. ASSUME firmware.echo, firmware.dedup PROVE Len(buffer') = e
        <3>1. b = boxAt \/ b = boxAt + 1
            BY <1>1, <2>2, <2>4
        <3>2. CASE Len(buffer) = Start(b)
            BY <1>7, <2>4, <3>2
        <3>3. CASE Len(buffer) # Start(b) /\ b = boxAt
            BY <1>1, <1>7, <2>4, <3>3 DEF UInv, NothingSkipped
        <3>4. CASE Len(buffer) # Start(b) /\ b = boxAt + 1
            <4>1. CASE boxAt = 0
                <5>1. Len(buffer) = 0
                    BY <4>1 DEF UInv, BoxInOrder
                <5>2. Start(b) = 0
                    BY <3>4, <4>1, StartFacts
                <5> QED
                    BY <3>4, <5>1, <5>2
            <4>2. CASE boxAt # 0
                <5>1. boxAt \in 1..Blocks
                    BY <1>1, <4>2
                <5>2. Len(buffer) = Least(Start(boxAt) + BLOCK, n)
                    BY <2>4, <5>1 DEF UInv, NothingSkipped
                <5>3. Start(b) = Start(boxAt) + BLOCK
                    BY <3>4, <5>1, StartFacts
                <5>4. Least(Start(b), n) = Start(b)
                    BY <1>2 DEF Least
                <5> QED
                    BY <3>4, <5>2, <5>3, <5>4
            <4> QED
                BY <4>1, <4>2
        <3> QED
            BY <3>1, <3>2, <3>3, <3>4
    <2>5. firmware' = firmware /\ program' = program /\ ~(boxAt' > Blocks')
        BY <1>1 DEF Handles
    <2> QED
        BY <1>1, <2>1, <2>3, <2>4, <2>5 DEF NothingSkipped, Start, Least
<1>10. RepliesFromOpenFile' /\ ReadSoFar'
    <2>1. \A r \in toClient' \ toClient : r.op # "data_reply"
        BY DEF Ack
    <2>2. boxAt <= Blocks + 2
        BY <1>1
    <2> QED
        BY <2>1, <2>2, NothingRead
<1> QED
    BY <1>5, <1>6, <1>8, <1>9, <1>10 DEF UInv

\* The box closes the file, for the first time or once more.
LEMMA HandleCloseWriteStep ==
    ASSUME UInv, NEW p, Handles(p), HandleCloseWrite(p)
    PROVE  UInv'
<1> USE DEF HandleCloseWrite, Deliver
<1>1. /\ Order(p) = Blocks + 1 /\ boxAt' = Blocks + 1 /\ Order(p) > Blocks
      /\ Blocks \in Nat \ {0} /\ Blocks' = Blocks /\ boxAt \in Nat /\ boxAt <= Blocks + 1
    BY HandledPacket, PacketFacts DEF Handles
<1>2. BoxTypeOK /\ name \in Names /\ name # NoName /\ Stored \in Seq(Byte)
    BY NameAssumption, StoredFacts DEF UInv, UTypeOK
<1>3. BoxTypeOK'
    <2>1. files' \in [Names -> Seq(Byte) \cup {Absent}]
        BY <1>2 DEF BoxTypeOK
    <2> QED
        BY <1>2, <2>1 DEF BoxTypeOK, Handles
<1>4. UTypeOK' /\ SentInOrder' /\ RequestOfPhase'
    BY <1>3, HandledKeeps
<1>5. BoxInOrder'
    <2>1. boxAt <= Blocks => writing = name
        BY <1>1, PastTheBlocks
    <2>2. boxAt > Blocks => writing = name \/ (writing = NoName /\ file = Stored)
        BY DEF UInv, BoxInOrder
    <2>3. writing = name \/ (writing = NoName /\ file = Stored)
        BY <1>1, <2>1, <2>2
    <2>4. files'[name] = Stored
        BY <1>2, <2>3 DEF BoxTypeOK, file
    <2>5. file' = Stored'
        BY <2>4 DEF Stored, Without, file, Handles, clientVars
    <2>6. writing' = NoName /\ boxAt' # 0 /\ ~(boxAt' <= Blocks')
        BY <1>1
    <2> QED
        BY <2>5, <2>6 DEF BoxInOrder
<1>6. BufferIsPrefix'
    BY DEF UInv, BufferIsPrefix, Handles
<1>7. \A r \in toClient' \ toClient : r.op \notin {"ack", "bare_ack", "data_reply"}
    BY DEF CloseAck
<1>8. NothingSkipped'
    BY <1>1, <1>7, NothingSkippedAfter
<1>9. RepliesFromOpenFile' /\ ReadSoFar'
    <2>1. boxAt <= Blocks + 2
        BY <1>1
    <2> QED
        BY <1>7, <2>1, NothingRead
<1> QED
    BY <1>4, <1>5, <1>6, <1>8, <1>9 DEF UInv

\* The read-back leaves the disk and the upload as they are.
LEMMA BoxInOrderAfter ==
    ASSUME UInv, NEW p, Handles(p), Order(p) > Blocks, UNCHANGED <<files, writing, buffer>>
    PROVE  BoxInOrder'
<1>1. /\ boxAt' = Order(p) /\ boxAt' # 0 /\ ~(boxAt' <= Blocks') /\ boxAt \in Nat
      /\ Blocks \in Nat
    BY HandledPacket DEF Handles
<1>2. boxAt <= Blocks => writing = name /\ file = old
    BY PastTheBlocks
<1>3. (writing = name /\ file = old) \/ (writing = NoName /\ file = Stored)
    BY <1>1, <1>2 DEF UInv, BoxInOrder
<1>4. file' = file /\ Stored' = Stored /\ old' = old /\ name' = name /\ writing' = writing
    BY DEF Stored, Without, file, Handles, clientVars
<1> QED
    BY <1>1, <1>3, <1>4 DEF BoxInOrder

\* The box opens the file for reading, or does not know it.
LEMMA HandleOpenReadStep ==
    ASSUME UInv, NEW p, Handles(p), HandleOpenRead(p)
    PROVE  UInv'
<1> USE DEF HandleOpenRead, Deliver
<1>1. /\ p.name = name /\ name \in Names /\ Order(p) > Blocks
      /\ Blocks \in Nat \ {0} /\ boxAt \in Nat /\ boxAt <= Blocks + 2
    BY HandledPacket, PacketFacts DEF Handles, UInv, UTypeOK
<1>2. /\ UNCHANGED <<files, writing, buffer>> /\ toBox' \subseteq toBox
      /\ reading' \in {reading, name}
      /\ \A r \in toClient' \ toClient : r = OpenAck
    BY <1>1
<1>3. BoxTypeOK'
    BY <1>1, <1>2 DEF UInv, UTypeOK, BoxTypeOK, Handles
<1>4. UTypeOK' /\ SentInOrder' /\ RequestOfPhase'
    BY <1>3, HandledKeeps
<1>5. BoxInOrder'
    BY <1>1, <1>2, BoxInOrderAfter
<1>6. BufferIsPrefix'
    BY <1>2 DEF UInv, BufferIsPrefix, Handles
<1>7. \A r \in toClient' \ toClient : r.op \notin {"ack", "bare_ack", "data_reply"}
    BY <1>2 DEF OpenAck
<1>8. NothingSkipped'
    BY <1>1, <1>2, <1>7, NothingSkippedAfter
<1>9. RepliesFromOpenFile' /\ ReadSoFar'
    BY <1>1, <1>7, NothingRead
<1> QED
    BY <1>4, <1>5, <1>6, <1>8, <1>9 DEF UInv

\* The box sends a block of the file it has open, or says nothing.
LEMMA HandleRequestStep ==
    ASSUME UInv, NEW p, Handles(p), HandleRequest(p)
    PROVE  UInv'
<1> USE DEF HandleRequest, Deliver, boxVars
<1> DEFINE f == files[reading]
           reply == Data(p.block, Chunk(f, p.block))
<1>1. /\ p.block \in Nat \ {0} /\ Order(p) = Blocks + 2 + p.block
      /\ boxAt \in Nat /\ boxAt <= Order(p) /\ Blocks \in Nat \ {0} /\ Blocks' = Blocks
    BY HandledPacket, PacketFacts
<1>2. Order(p) > Blocks /\ boxAt' > Blocks' + 2 /\ boxAt' >= boxAt
    BY <1>1 DEF Handles
<1>3. \A r \in toClient' \ toClient : r = reply /\ Answers(p.block)
    OBVIOUS
<1>4. BoxTypeOK'
    BY DEF UInv, UTypeOK, BoxTypeOK
<1>5. UTypeOK' /\ SentInOrder' /\ RequestOfPhase'
    BY <1>4, HandledKeeps
<1>6. BoxInOrder'
    BY <1>2, BoxInOrderAfter
<1>7. BufferIsPrefix'
    BY DEF UInv, BufferIsPrefix, Handles
<1>8. NothingSkipped'
    <2>1. \A r \in toClient' \ toClient : r.op \notin {"ack", "bare_ack"}
        BY <1>3 DEF Data
    <2> QED
        BY <1>2, <2>1, NothingSkippedAfter
<1>9. ReadFrom(f) => ReadFrom(files[reading])'
    BY <1>2 DEF ReadFrom
<1>10. RepliesFromOpenFile'
    <2>1. ASSUME NEW r \in toClient', r.op = "data_reply"
          PROVE  /\ ReadFrom(files[reading])' /\ r.block \in Nat \ {0}
                 /\ r = Data(r.block, Chunk(f, r.block))
        <3>1. CASE r \in toClient
            BY <1>9, <2>1, <3>1 DEF UInv, RepliesFromOpenFile
        <3>2. CASE r \notin toClient
            <4>1. r = reply /\ reading # NoName /\ f # Absent
                BY <1>3, <2>1, <3>2 DEF Answers
            <4>2. r.block = p.block
                BY <4>1 DEF Data
            <4> QED
                BY <1>1, <1>2, <4>1, <4>2 DEF ReadFrom
        <3> QED
            BY <3>1, <3>2
    <2> QED
        BY <2>1 DEF RepliesFromOpenFile, Data, Chunk, Start, Least
<1>11. ReadSoFar'
    BY <1>9 DEF UInv, ReadSoFar, Start, Handles, clientVars
<1> QED
    BY <1>5, <1>6, <1>7, <1>8, <1>10, <1>11 DEF UInv

-----------------------------------------------------------------------------
(* Every step.                                                               *)

\* What the box handles is a request of this upload; each handler is a case.
LEMMA UBoxStepStep == ASSUME UInv, UBoxStep PROVE UInv'
<1>1. PICK p \in toBox :
          /\ Order(p) >= boxAt
          /\ \/ HandleOpenWrite(p) \/ HandleWrite(p) \/ HandleCloseWrite(p)
             \/ HandleOpenRead(p) \/ HandleRequest(p)
          /\ boxAt' = Order(p)
    BY DEF UBoxStep
<1>2. Handles(p)
    BY <1>1 DEF Handles, UBoxStep, HandleOpenWrite, HandleWrite, HandleCloseWrite,
                HandleOpenRead, HandleRequest, Deliver, boxVars
<1>3. CASE HandleOpenWrite(p)
    BY <1>2, <1>3, HandleOpenWriteStep
<1>4. CASE HandleWrite(p)
    BY <1>2, <1>4, HandleWriteStep
<1>5. CASE HandleCloseWrite(p)
    BY <1>2, <1>5, HandleCloseWriteStep
<1>6. CASE HandleOpenRead(p)
    BY <1>2, <1>6, HandleOpenReadStep
<1>7. CASE HandleRequest(p)
    BY <1>2, <1>7, HandleRequestStep
<1> QED
    BY <1>1, <1>3, <1>4, <1>5, <1>6, <1>7

\* A step in which nothing changes.
LEMMA UStutterStep == ASSUME UInv, UNCHANGED uvars PROVE UInv'
<1>1. /\ UNCHANGED <<boxVars, clientVars, uploadVars, request, attempt>>
      /\ toClient' = toClient /\ toBox' = toBox
    BY DEF uvars, vars, exchangeVars
<1>2. attempt \in 0..Resends
    BY DEF UInv, UTypeOK
<1> QED
    BY <1>1, <1>2, WaitingStep

\* One lemma per action.
LEMMA UNextInv == ASSUME UInv, [UNext]_uvars PROVE UInv'
<1>1. attempt \in 0..Resends
    BY DEF UInv, UTypeOK
<1>2. CASE AcceptCreate
    BY <1>2, AcceptCreateStep
<1>3. CASE AcceptAck
    BY <1>3, AcceptAckStep
<1>4. CASE AcceptLastAck
    BY <1>4, AcceptLastAckStep
<1>5. CASE DiscardAck
    <2>1. /\ UNCHANGED <<boxVars, clientVars, uploadVars, request, attempt>>
          /\ toClient' \subseteq toClient /\ toBox' = toBox
        BY <1>5 DEF DiscardAck, Discard
    <2> QED
        BY <1>1, <2>1, WaitingStep
<1>6. CASE AcceptClose
    BY <1>6, AcceptCloseStep
<1>7. CASE AcceptCloseUnverified
    BY <1>7, AcceptCloseUnverifiedStep
<1>8. CASE ReadBack
    <2>1. CASE AcceptOpen /\ UNCHANGED uploadVars
        BY <2>1, ReadBackOpenStep
    <2>2. CASE AcceptBlock /\ UNCHANGED uploadVars
        BY <2>2, ReadBackBlockStep
    <2>3. CASE AcceptLastBlock /\ UNCHANGED uploadVars
        BY <2>3, ReadBackLastStep
    <2>4. CASE DiscardReply /\ UNCHANGED uploadVars
        <3>1. /\ UNCHANGED <<boxVars, clientVars, uploadVars, request, attempt>>
              /\ toClient' \subseteq toClient /\ toBox' = toBox
            BY <2>4 DEF DiscardReply, Discard
        <3> QED
            BY <1>1, <3>1, WaitingStep
    <2> QED
        BY <1>8, <2>1, <2>2, <2>3, <2>4 DEF ReadBack
<1>9. CASE OnTimer
    <2>1. CASE ResendRequest /\ UNCHANGED uploadVars
        <3>1. /\ UNCHANGED <<boxVars, clientVars, uploadVars, request, toClient>>
              /\ toBox' = toBox \cup {request}
              /\ attempt \in 1..Resends-1 /\ attempt' = attempt + 1
            BY <2>1 DEF ResendRequest, Resend
        <3>2. attempt' \in 0..Resends /\ attempt' # 0 /\ attempt # 0
            BY <3>1, ResendsAssumption
        <3> QED
            BY <3>1, <3>2, WaitingStep
    <2>2. CASE TimeOut /\ UNCHANGED uploadVars
        BY <2>2, UTimeOutStep
    <2> QED
        BY <1>9, <2>1, <2>2 DEF OnTimer
<1>10. CASE UBoxStep
    BY <1>10, UBoxStepStep
<1>11. CASE ULose
    <2>1. /\ UNCHANGED <<boxVars, clientVars, uploadVars, request, attempt>>
          /\ toClient' \subseteq toClient /\ toBox' \subseteq toBox
        BY <1>11 DEF ULose, LoseDatagram, Lose
    <2> QED
        BY <1>1, <2>1, WaitingStep
<1>12. CASE UNCHANGED uvars
    BY <1>12, UStutterStep
<1> QED
    BY <1>2, <1>3, <1>4, <1>5, <1>6, <1>7, <1>8, <1>9, <1>10, <1>11, <1>12 DEF UNext

-----------------------------------------------------------------------------
(* What follows.                                                             *)

\* What is on the box of a name is the old content or what was received.
LEMMA OnTheBox ==
    ASSUME UInv
    PROVE  \/ file = old
           \/ boxAt > Blocks /\ file = Stored
BY UTypeFacts DEF UInv, BoxInOrder

\* A box that numbers its answers and ignores repeats has all of what it closes.
LEMMA CarefulBox == UInv => BoxKeepsWholePrograms
<1> SUFFICES ASSUME UInv, firmware.echo, firmware.dedup, ~firmware.strips, file # old
             PROVE  file = program
    BY DEF BoxKeepsWholePrograms
<1>1. boxAt > Blocks /\ file = Stored
    BY OnTheBox
<1>2. Stored = buffer
    BY DEF Stored
<1>3. Len(buffer) = Len(program) /\ buffer = SubSeq(program, 1, Len(buffer))
    BY <1>1 DEF UInv, NothingSkipped, BufferIsPrefix
<1>4. program \in Seq(Byte)
    BY UTypeFacts DEF UInv
<1> QED
    BY <1>1, <1>2, <1>3, <1>4, SubSeqFull

\* A program read back in full is the file that was read: where full blocks may
\* hide the rest of the file, the box cannot hold a longer one.
LEMMA ReadBackTells == UInv => VerifiedMeansStored
<1> SUFFICES ASSUME UInv, Verified, reading = name,
                    \/ program = <<>> \/ Len(program) % BLOCK # 0
                    \/ firmware.dedup /\ ~GoesOn(old)
             PROVE  file = program
    BY DEF VerifiedMeansStored
<1>1. pulled = program /\ phase = "ok" /\ file = files[reading]
    BY DEF Verified, Matches, file
<1>2. ReadFrom(file)
    BY <1>1 DEF UInv, ReadSoFar
<1>3. CASE pulled = file
    BY <1>1, <1>3
<1>4. CASE pulled # file
    <2>1. /\ program # <<>> /\ Len(program) % BLOCK = 0 /\ Len(program) <= Len(file)
          /\ program = SubSeq(file, 1, Len(program))
        BY <1>1, <1>4 DEF UInv, ReadSoFar
    <2>2. firmware.dedup /\ ~GoesOn(old)
        BY <2>1
    <2>3. /\ file \in Seq(Byte) /\ Len(file) \in Nat
          /\ program \in Seq(Byte) /\ Len(program) \in Nat
        <3>1. name \in Names /\ file # Absent
            BY <1>2 DEF UInv, UTypeOK, ReadFrom
        <3> QED
            BY <3>1, UTypeFacts, LenProperties DEF UInv, file
    <2>4. Len(file) <= Len(program)
        <3>1. CASE file = old
            <4>1. file # Absent
                BY <1>2 DEF ReadFrom
            <4> QED
                BY <2>1, <2>2, <2>3, <3>1, <4>1 DEF GoesOn
        <3>2. CASE file = Stored
            <4>1. Len(Stored) <= Len(buffer) /\ Len(buffer) \in Nat
                BY StoredFacts, UTypeFacts DEF UInv, UTypeOK
            <4>2. Len(buffer) <= Len(program)
                BY <2>2 DEF UInv, BufferIsPrefix
            <4> QED
                BY <2>3, <3>2, <4>1, <4>2
        <3> QED
            BY <3>1, <3>2, OnTheBox
    <2>5. Len(program) = Len(file)
        BY <2>1, <2>3, <2>4
    <2> QED
        BY <2>1, <2>3, <2>5, SubSeqFull
<1> QED
    BY <1>3, <1>4

-----------------------------------------------------------------------------
(* The theorems.                                                             *)

\* The inductive invariant holds in every state of an upload: the box handles
\* upload()'s requests in order, has a beginning of the program, and sends
\* blocks of the one file it has open.
THEOREM UploadInvariance == USpec => []UInv
<1>1. UInit => UInv
    BY InitUInv
<1>2. UInv /\ [UNext]_uvars => UInv'
    BY UNextInv
<1> QED
    BY <1>1, <1>2, PTL DEF USpec

\* upload() keeps its types: attempts within RESENDS, blocks within the program
\* while they are sent, and an exchange runs until it returns or raises.
THEOREM UploadTypeCorrect == USpec => []UTypeOK
<1>1. UInv => UTypeOK
    BY DEF UInv
<1> QED
    BY <1>1, UploadInvariance, PTL

\* A careful firmware holds the old program or the whole new one, whatever step
\* upload() stops at and whatever the wire loses, delays or repeats.
THEOREM WholePrograms == USpec => []BoxKeepsWholePrograms
BY CarefulBox, UploadInvariance, PTL

\* upload(verify=True) returns only when the program is on the box, if the box
\* read back that name and the read-back's end proves that the file ends.
THEOREM VerifiedPrograms == USpec => []VerifiedMeansStored
BY ReadBackTells, UploadInvariance, PTL

=============================================================================
