------------------------------ MODULE DncDownload ------------------------------
(***************************************************************************)
(* download() of dnc_tftp.py: one client pulls one file from the box over  *)
(* the network of DncExchange.  The disk does not change meanwhile.        *)
(*                                                                         *)
(* Nothing of an earlier session is on the wire when the download begins,  *)
(* but the box may still have any file open for reading.                   *)
(***************************************************************************)
EXTENDS DncBox

CONSTANTS
    NoFile,     \* nothing was returned or written yet
    NoSize,     \* expected_size=None
    Contents,   \* what a file on the disk may hold
    Sizes       \* what the caller may pass as expected_size

ASSUME NoFileAssumption == NoFile \notin Seq(Byte)
ASSUME ContentsAssumption == Contents \subseteq Seq(Byte)
ASSUME SizesAssumption == NoSize \notin Nat /\ Sizes \subseteq Nat \cup {NoSize}

VARIABLES
    name,       \* remote_name
    expected,   \* expected_size
    phase,      \* "opening", "reading", then "ok", "timeout" or "protocol"
    block,      \* the block being asked for
    data,       \* the bytes collected so far
    pulled      \* what download() wrote to local_path, if given, and returned

clientVars == <<name, expected, phase, block, data, pulled>>
vars == <<exchangeVars, boxVars, clientVars>>

file == files[name]

\* The packets download() sends.
Requests == {OpenRead(name)} \cup [op : {"reqdata"}, block : Nat]

Done == {"ok", "timeout", "protocol"}

TypeOK ==
    /\ BoxTypeOK
    /\ name \in Names
    /\ expected \in Nat \cup {NoSize}
    /\ phase \in {"opening", "reading"} \cup Done
    /\ block \in Nat
    /\ data \in Seq(Byte)
    /\ pulled \in Seq(Byte) \cup {NoFile}
    /\ toBox \subseteq Requests
    /\ request \in Requests
    /\ attempt \in 0..Resends
    /\ disturbed \in BOOLEAN /\ silent \in BOOLEAN

-----------------------------------------------------------------------------
Init ==
    /\ files \in [Names -> Contents \cup {Absent}]
    /\ reading \in Names \cup {NoName}
    /\ writing = NoName /\ buffer = <<>>
    /\ firmware \in Firmwares
    /\ name \in Names
    /\ expected \in Sizes
    /\ phase = "opening" /\ block = 1 /\ data = <<>>
    /\ pulled = NoFile
    /\ ExchangeInit(OpenRead(name))

\* accept=None: the open takes any datagram for its answer.
AcceptOpen ==
    /\ phase = "opening"
    /\ \E r \in toClient : Take(r)
    /\ phase' = "reading"
    /\ Begin(Request(1))
    /\ UNCHANGED <<boxVars, name, expected, block, data, pulled>>

\* Mutant: the opcode is checked but not the block number.
AcceptableAnyBlock == {r \in toClient : r.op = "data_reply"}

\* _accept_block(block): the replies the block loop does not discard.
Acceptable == {r \in toClient : r.op = "data_reply" /\ r.block = block}

\* Mutant: with a size given, the short block is not looked at.
LastBlockBySizeOnly(payload) ==
    IF expected # NoSize THEN Len(data \o payload) >= expected
                         ELSE Len(payload) < BLOCK

\* Mutant: the size is not used to stop.
LastBlockShortOnly(payload) == Len(payload) < BLOCK

\* Every expected byte is there, or the block was short.
LastBlock(payload) ==
    \/ expected # NoSize /\ Len(data \o payload) >= expected
    \/ Len(payload) < BLOCK

\* The device sent more than the caller was told to expect.
TooLong(bytes) == expected # NoSize /\ Len(bytes) > expected

\* A block came that is not the last: ask for the next one.
AcceptBlock ==
    /\ phase = "reading"
    /\ \E r \in Acceptable :
          /\ ~LastBlock(r.payload)
          /\ Take(r)
          /\ data' = data \o r.payload
    /\ block' = block + 1
    /\ Begin(Request(block + 1))
    /\ UNCHANGED <<boxVars, name, expected, phase, pulled>>

\* The last block came: write the file and return, unless there is too much.
AcceptLastBlock ==
    /\ phase = "reading"
    /\ \E r \in Acceptable :
          /\ LastBlock(r.payload)
          /\ Take(r)
          /\ data' = data \o r.payload
          /\ IF TooLong(data')
             THEN phase' = "protocol" /\ UNCHANGED pulled
             ELSE phase' = "ok" /\ pulled' = data'
    /\ Close
    /\ UNCHANGED <<boxVars, name, expected, block>>

DiscardReply ==
    /\ phase = "reading"
    /\ Discard(Acceptable)
    /\ UNCHANGED <<boxVars, clientVars>>

ResendRequest == Resend /\ UNCHANGED <<boxVars, clientVars>>

\* Mutant: what arrived before the timeout is written all the same.
TimeOutKeepsPart ==
    /\ GiveUp
    /\ phase' = "timeout"
    /\ pulled' = data
    /\ UNCHANGED <<boxVars, name, expected, block, data>>

\* DncTimeout leaves download(): nothing is written.
TimeOut ==
    /\ GiveUp
    /\ phase' = "timeout"
    /\ UNCHANGED <<boxVars, name, expected, block, data, pulled>>

BoxStep ==
    /\ \E p \in toBox : HandleOpenRead(p) \/ HandleRequest(p)
    /\ UNCHANGED clientVars

LoseDatagram == Lose /\ UNCHANGED <<boxVars, clientVars>>

Next ==
    \/ AcceptOpen \/ AcceptBlock \/ AcceptLastBlock \/ DiscardReply
    \/ ResendRequest \/ TimeOut
    \/ BoxStep \/ LoseDatagram

Spec == Init /\ [][Next]_vars

\* Only the client's clock is fair: deadlines pass, whatever the wire and box do.
Timer == ResendRequest \/ TimeOut
FairSpec == Spec /\ WF_vars(Timer)

-----------------------------------------------------------------------------
\* The bytes download() owes its caller: the file, cut at expected_size.
Owed ==
    IF file = Absent THEN <<>>
    ELSE IF expected = NoSize THEN file
    ELSE SubSeq(file, 1, Least(expected, Len(file)))

(* A download that returns has written exactly the bytes it owes, and one   *)
(* that has not returned or that raises has written nothing ("a partial     *)
(* G-code program must never be written out as if it were complete"): lost, *)
(* duplicated, late and reordered datagrams notwithstanding.                *)
DownloadIntegrity == pulled = IF phase = "ok" THEN Owed ELSE NoFile

(* With a size given or not, download() never asks for a block beyond the   *)
(* one that tells it where the file ends ("without this the loop would      *)
(* request blocks for ever").                                               *)
NeverReadsPastEnd == phase = "reading" => Start(block) <= Len(file)

(* The file ends without a block that proves it: the box says nothing past  *)
(* a full last block, and the size given does not say that this is the end. *)
EndIsSilent ==
    /\ firmware.quiet
    /\ Len(file) % BLOCK = 0
    /\ file = <<>> \/ expected = NoSize \/ expected > Len(file)

(* A timeout accuses the wire: the client gives up on a file that is on the *)
(* box only if each of its attempts lost a datagram or outran one, except   *)
(* for the end of file that the docstring of download() warns about.        *)
TimeoutMeansTrouble ==
    phase = "timeout" /\ file # Absent /\ silent => EndIsSilent

(* What the caller sees is ProgramPull: the whole program or nothing.       *)
Pull == INSTANCE ProgramPull WITH
    program <- Owed,
    result  <- CASE phase = "ok" -> "ok"
                 [] phase \in {"timeout", "protocol"} -> "failed"
                 [] OTHER -> "pending",
    local   <- pulled
ImplementsPull == Pull!Spec

(* Whatever the box and the wire do, download() returns or raises: refused  *)
(* replies do not extend the window, and no file keeps it reading.          *)
Terminates == <>(phase \in Done)
=============================================================================
