-------------------------------- MODULE DncBox --------------------------------
(***************************************************************************)
(* The Micro DNC 2 box, as the toolkit's tests simulate it (BoxSimulator): *)
(* a disk of named files, the file open for download, and the file being   *)
(* uploaded with the bytes received so far.  The box keeps no notion of a  *)
(* session: an open stays until the next one.                              *)
(*                                                                         *)
(* What the source leaves open about the firmware is a rigid variable:     *)
(*   quiet    - says nothing when asked for a block past the end           *)
(*              ("this is what the Micro DNC 2 does"), else sends an       *)
(*              empty block                                                *)
(*   echo     - acknowledges an open for upload with a block number (0),   *)
(*              else with a bare ACK                                       *)
(*   dedup    - ignores a DATA block it already has, else appends it again *)
(*   strips   - drops carriage returns when it stores an upload            *)
(* A request the box does not answer is delivered with no reply.           *)
(***************************************************************************)
EXTENDS DncExchange, Bytes, Sequences

CONSTANTS
    Names,      \* file names
    NoName,     \* no file is open
    Byte,       \* the bytes programs are made of
    CR,         \* the byte a normalising firmware drops
    Absent,     \* the content of a name that is not on the disk
    BLOCK,      \* bytes per block (512)
    Firmwares   \* the firmwares considered

ASSUME BlockAssumption == BLOCK \in Nat \ {0}
ASSUME NameAssumption == NoName \notin Names
ASSUME AbsentAssumption == Absent \notin Seq(Byte)
ASSUME FirmwareAssumption ==
    Firmwares \subseteq [quiet : BOOLEAN, echo : BOOLEAN, dedup : BOOLEAN, strips : BOOLEAN]

VARIABLES
    files,      \* the disk
    reading,    \* the name open for download, or NoName
    writing,    \* the name open for upload, or NoName
    buffer,     \* the upload's bytes so far
    firmware    \* how this box behaves, fixed

boxVars == <<files, reading, writing, buffer, firmware>>

BoxTypeOK ==
    /\ files \in [Names -> Seq(Byte) \cup {Absent}]
    /\ reading \in Names \cup {NoName}
    /\ writing \in Names \cup {NoName}
    /\ buffer \in Seq(Byte)
    /\ firmware \in Firmwares

-----------------------------------------------------------------------------
(* Packets: the client's requests and the box's replies.                     *)

OpenRead(n)   == [op |-> "dl_open", name |-> n]
Request(b)    == [op |-> "reqdata", block |-> b]
OpenWrite(n)  == [op |-> "wrq", name |-> n]
Write(b, c)   == [op |-> "data", block |-> b, payload |-> c]
CloseWrite    == [op |-> "up_close"]

OpenAck       == [op |-> "dl_open_ack"]
Data(b, c)    == [op |-> "data_reply", block |-> b, payload |-> c]
Ack(b)        == [op |-> "ack", block |-> b]
BareAck       == [op |-> "bare_ack"]    \* an ACK with no block field
CloseAck      == [op |-> "up_close_ack"]

-----------------------------------------------------------------------------
(* Blocks of a file.                                                         *)

Least(a, b) == IF a <= b THEN a ELSE b

\* The bytes before block b.
Start(b) == (b - 1) * BLOCK

\* data[(block - 1) * BLOCK : block * BLOCK], clipped at the end as Python does.
Chunk(f, b) == SubSeq(f, Start(b) + 1, Least(Start(b) + BLOCK, Len(f)))

-----------------------------------------------------------------------------
(* The handlers.                                                             *)

\* Open a file for download; a name not on the disk is not answered.
HandleOpenRead(p) ==
    /\ p.op = "dl_open"
    /\ IF files[p.name] = Absent
       THEN Deliver(p, {}) /\ UNCHANGED reading
       ELSE Deliver(p, {OpenAck}) /\ reading' = p.name
    /\ UNCHANGED <<files, writing, buffer, firmware>>

\* Whether a request for block b of the open file is answered.
Answers(b) ==
    /\ reading # NoName
    /\ files[reading] # Absent
    /\ firmware.quiet => Chunk(files[reading], b) # <<>>

\* Send one block of whatever file is open.
HandleRequest(p) ==
    /\ p.op = "reqdata"
    /\ Deliver(p, IF Answers(p.block)
                  THEN {Data(p.block, Chunk(files[reading], p.block))}
                  ELSE {})
    /\ UNCHANGED boxVars

\* Open a file for upload: whatever was received so far is forgotten.
HandleOpenWrite(p) ==
    /\ p.op = "wrq"
    /\ Deliver(p, {IF firmware.echo THEN Ack(0) ELSE BareAck})
    /\ writing' = p.name
    /\ buffer' = <<>>
    /\ UNCHANGED <<files, reading, firmware>>

\* Receive one block; every copy is acknowledged.
HandleWrite(p) ==
    /\ p.op = "data"
    /\ Deliver(p, {Ack(p.block)})
    /\ buffer' = IF firmware.dedup /\ Len(buffer) # Start(p.block)
                 THEN buffer
                 ELSE buffer \o p.payload
    /\ UNCHANGED <<files, reading, writing, firmware>>

\* What the firmware stores of the bytes it was sent.
Stored == IF firmware.strips THEN Without(buffer, CR) ELSE buffer

\* Put the upload on the disk.  A second close finds nothing open.
HandleCloseWrite(p) ==
    /\ p.op = "up_close"
    /\ Deliver(p, {CloseAck})
    /\ files' = IF writing = NoName THEN files ELSE [files EXCEPT ![writing] = Stored]
    /\ writing' = NoName
    /\ UNCHANGED <<reading, buffer, firmware>>
=============================================================================
