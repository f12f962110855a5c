------------------------------- MODULE DncUpload -------------------------------
(***************************************************************************)
(* upload() of dnc_tftp.py and the verify_remote() that ends it: one client *)
(* sends one program to the box, closes it, and reads it back with the     *)
(* download() of DncDownload, whose variables and actions are reused for   *)
(* the read-back.                                                          *)
(*                                                                         *)
(* Requests reach the box in the order they were sent, each any number of  *)
(* times or never: a slow box answers late, resends queue up behind the    *)
(* first copy, but nothing on the way reorders them.  Replies are reordered *)
(* freely.                                                                 *)
(***************************************************************************)
EXTENDS DncDownload, FiniteSets

CONSTANTS
    Programs,   \* what may be uploaded
    MaxReplies, \* bound: replies under way at once; the box waits for room
    MaxBuffer   \* bound: bytes of an upload the box receives, repeats included

ASSUME ProgramsAssumption == Programs \subseteq Seq(Byte)

VARIABLES
    program,    \* data: the bytes of local_path
    old,        \* history: what the name held before
    boxAt       \* the place in the order of the last request the box handled

uploadVars == <<program, old, boxAt>>
uvars == <<vars, uploadVars>>

\* Phases of upload() itself; "opening" and "reading" are those of the read-back.
Sending == {"creating", "sending", "closing"}

\* "sent" ends an upload that is not verified; "ok" ends the read-back.
Finished == {"sent"} \cup Done

\* Blocks of the program: the last one is short, or empty for an exact multiple.
Blocks == Len(program) \div BLOCK + 1

\* The place of each request in the order the client first sends them.
Order(p) ==
    CASE p.op = "wrq"      -> 0
      [] p.op = "data"     -> p.block
      [] p.op = "up_close" -> Blocks + 1
      [] p.op = "dl_open"  -> Blocks + 2
      [] p.op = "reqdata"  -> Blocks + 2 + p.block

UTypeOK ==
    /\ BoxTypeOK
    /\ phase \in Sending \cup {"opening", "reading"} \cup Finished
    /\ block \in Nat \ {0} /\ (phase \in Sending => block <= Blocks)
    /\ data \in Seq(Byte) /\ pulled \in Seq(Byte) \cup {NoFile}
    /\ expected \in Nat \cup {NoSize}
    /\ attempt \in 0..Resends
    /\ attempt = 0 <=> phase \in Finished
    /\ name \in Names /\ program \in Programs /\ old \in Seq(Byte) \cup {Absent}
    /\ boxAt \in 0..Order(request)

-----------------------------------------------------------------------------
UInit ==
    /\ program \in Programs
    /\ files \in [Names -> Contents \cup {Absent}]
    /\ reading \in Names \cup {NoName}
    /\ writing = NoName /\ buffer = <<>>
    /\ firmware \in Firmwares
    /\ name \in Names
    /\ old = files[name]
    /\ phase = "creating" /\ block = 1
    /\ expected = NoSize /\ data = <<>> /\ pulled = NoFile
    /\ boxAt = 0
    /\ ExchangeInit(OpenWrite(name))

\* _accept_ack(): any acknowledgement opens the file.
AcceptCreate ==
    /\ phase = "creating"
    /\ \E r \in toClient : r.op \in {"ack", "bare_ack"} /\ Take(r)
    /\ phase' = "sending"
    /\ Begin(Write(1, Chunk(program, 1)))
    /\ UNCHANGED <<boxVars, name, expected, block, data, pulled, uploadVars>>

\* Mutant: the block number of an acknowledgement is not looked at.
AcksAnyBlock == {r \in toClient : r.op \in {"ack", "bare_ack"}}

\* _accept_ack(block): a bare ACK, or one that echoes this block.
Acks == {r \in toClient : r.op = "bare_ack" \/ (r.op = "ack" /\ r.block = block)}

\* Mutant: acknowledgements are accepted past the last block.
AcceptAckUnbounded ==
    /\ phase = "sending"
    /\ \E r \in Acks : Take(r)
    /\ block' = block + 1
    /\ Begin(Write(block + 1, Chunk(program, block + 1)))
    /\ UNCHANGED <<boxVars, name, expected, phase, data, pulled, uploadVars>>

\* One block is acknowledged: send the next.
AcceptAck ==
    /\ phase = "sending"
    /\ block < Blocks
    /\ \E r \in Acks : Take(r)
    /\ block' = block + 1
    /\ Begin(Write(block + 1, Chunk(program, block + 1)))
    /\ UNCHANGED <<boxVars, name, expected, phase, data, pulled, uploadVars>>

\* The last block is acknowledged: close the file.
AcceptLastAck ==
    /\ phase = "sending"
    /\ block = Blocks
    /\ \E r \in Acks : Take(r)
    /\ phase' = "closing"
    /\ Begin(CloseWrite)
    /\ UNCHANGED <<boxVars, name, expected, block, data, pulled, uploadVars>>

\* expected_size=len(expected) or None
SizeOf(bytes) == IF Len(bytes) = 0 THEN NoSize ELSE Len(bytes)

\* accept=None: any datagram answers the close.  With verify, read back.
AcceptClose ==
    /\ phase = "closing"
    /\ \E r \in toClient : Take(r)
    /\ phase' = "opening" /\ block' = 1 /\ expected' = SizeOf(program)
    /\ Begin(OpenRead(name))
    /\ UNCHANGED <<boxVars, name, data, pulled, uploadVars>>

\* Without verify, upload() returns once the close is answered.
AcceptCloseUnverified ==
    /\ phase = "closing"
    /\ \E r \in toClient : Take(r)
    /\ phase' = "sent"
    /\ Close
    /\ UNCHANGED <<boxVars, name, expected, block, data, pulled, uploadVars>>

\* A reply that is not an ACK, or acknowledges another block, is dropped.
DiscardAck ==
    /\ \/ phase = "sending" /\ Discard(Acks)
       \/ phase = "creating" /\ Discard({r \in toClient : r.op \in {"ack", "bare_ack"}})
    /\ UNCHANGED <<boxVars, clientVars, uploadVars>>

\* Mutant: only as many bytes are compared as came back.
MatchesPrefix(got) == got = SubSeq(program, 1, Least(Len(got), Len(program)))

\* verify_remote() returns True for these bytes; for others it raises.
Matches(got) == got = program

\* verify_remote()'s download().
ReadBack ==
    /\ AcceptOpen \/ AcceptBlock \/ AcceptLastBlock \/ DiscardReply
    /\ UNCHANGED uploadVars

OnTimer == (ResendRequest \/ TimeOut) /\ UNCHANGED uploadVars

\* The box handles a request that no later one has overtaken.
UBoxStep ==
    /\ \E p \in toBox :
          /\ Order(p) >= boxAt
          /\ \/ HandleOpenWrite(p) \/ HandleWrite(p) \/ HandleCloseWrite(p)
             \/ HandleOpenRead(p) \/ HandleRequest(p)
          /\ boxAt' = Order(p)
    /\ Cardinality(toClient') <= MaxReplies
    /\ Len(buffer') <= MaxBuffer
    /\ UNCHANGED <<clientVars, program, old>>

ULose == LoseDatagram /\ UNCHANGED uploadVars

UNext ==
    \/ AcceptCreate \/ AcceptAck \/ AcceptLastAck \/ DiscardAck
    \/ AcceptClose \/ AcceptCloseUnverified \/ ReadBack \/ OnTimer
    \/ UBoxStep \/ ULose

USpec == UInit /\ [][UNext]_uvars

-----------------------------------------------------------------------------
(* With a firmware that echoes block numbers and ignores a repeated block,  *)
(* the name holds the old program or the whole new one, whatever step the   *)
(* upload stops at: the client closes only what the box received in full.   *)
BoxKeepsWholePrograms ==
    firmware.echo /\ firmware.dedup /\ ~firmware.strips => file \in {old, program}

\* upload(verify=True) returned.
Verified == phase = "ok" /\ Matches(pulled)

\* f begins with the program and goes on.
GoesOn(f) ==
    /\ f # Absent /\ Len(f) > Len(program)
    /\ SubSeq(f, 1, Len(program)) = program

(* "Uploads are read back and compared": a verified program is the one on   *)
(* the box, whatever the firmware dropped or rewrote and whatever the wire  *)
(* lost - provided the box read back the right file, and what the read-back *)
(* does not look at cannot differ: its last block is not full, or the box   *)
(* ignores repeated blocks and did not hold a program that only goes on.    *)
VerifiedMeansStored ==
    /\ Verified /\ reading = name
    /\ \/ program = <<>> \/ Len(program) % BLOCK # 0
       \/ firmware.dedup /\ ~GoesOn(old)
    => file = program
=============================================================================
