----------------------------- MODULE FocasTransfer -----------------------------
(***************************************************************************)
(* FocasTransport (transport.py) over focas.py and focas_transfer.py:      *)
(* threads that send the queued file to a Fanuc control or fetch a program *)
(* from it, one at a time under one lock, through one cached handle; the   *)
(* control, which may refuse, fail or drop the connection; the planning    *)
(* department, which replaces the queued file; and the shutdown.           *)
(*                                                                         *)
(* A call answered EW_BUFFER is made again with nothing changed, so it is  *)
(* a stuttering step; that a control does not answer so for ever is what   *)
(* the fairness of Transfer assumes.                                       *)
(***************************************************************************)
EXTENDS TapeWrap

CONSTANTS
    Sends,          \* threads in send()
    Fetches,        \* threads in fetch()
    Number,         \* the program each fetch asks for
    InPlace,        \* fetches whose dest_path is the path receive() writes to
    Stored,         \* the programs on the control, by number
    Byte,           \* what a text is made of
    Texts,          \* contents of the queued file
    ChunkSize,      \* 256 in send()
    ReceiveMax,     \* 1280 in receive()
    MaxFailures,    \* bound: calls that fail for no other reason
    MaxReplaced,    \* bound: times the queued file is replaced
    Absent,         \* a file that is not there
    Free            \* _lock is free

Callers == Sends \cup Fetches
Numbers == DOMAIN Stored

ASSUME CallersAssumption ==
    /\ Sends \cap Fetches = {} /\ Free \notin Callers
    /\ InPlace \subseteq Fetches /\ Number \in [Fetches -> Numbers]
ASSUME ChunkAssumption ==
    /\ ChunkSize \in Nat \ {0} /\ ReceiveMax \in Nat \ {0}
    /\ MaxFailures \in Nat /\ MaxReplaced \in Nat
ASSUME TextAssumption ==
    /\ Mark \in Byte /\ Blank \in Byte
    /\ \A t \in Texts : t \in Seq(Byte)
    /\ \A n \in Numbers : Stored[n] \in Seq(Byte)
    /\ Absent \notin Texts

VARIABLES
    handle,     \* _handle: "none" or "open"
    handles,    \* handles of the library that were not freed
    alive,      \* the control still knows the handle
    lock,       \* the holder of _lock
    pc,         \* where each caller is
    text,       \* what the running send read from the file
    at,         \* the i of the running send, or the bytes the control has given a fetch
    chunks,     \* what the running fetch has collected
    queue,      \* the queued file
    spool,      \* programs/<number>.nc
    dest,       \* what each fetch that returned found at its dest_path
    transfer,   \* the control's transfer: "none", "down" or "up"
    tape,       \* what came in the control's transfer
    memory,     \* what the control kept of the sends
    failures, replaced,
    closed      \* close() has returned

libraryVars == <<handle, handles, alive>>
callVars == <<text, at, chunks>>
fileVars == <<queue, spool, dest, replaced>>
controlVars == <<transfer, tape, memory>>
vars == <<libraryVars, lock, pc, callVars, fileVars, controlVars, failures, closed>>

\* Where a caller is while it has the lock, and where it may be at all.
Inside == {"sending", "receiving", "ended", "saving"}
Places == Inside \cup {"idle", "waiting", "after", "ok", "error"}

TypeOK ==
    /\ handle \in {"none", "open"} /\ handles \in Nat /\ alive \in BOOLEAN
    /\ lock \in Callers \cup {Free}
    /\ pc \in [Callers -> Places]
    /\ \A c \in Callers : lock = c <=> pc[c] \in Inside
    /\ text \in Texts \cup {<<>>} /\ at \in Nat /\ chunks \in Seq(Byte)
    /\ queue \in Texts \cup {Absent} /\ replaced \in 0..MaxReplaced
    /\ spool \in [Numbers -> Seq(Byte) \cup {Absent}]
    /\ dest \in [Fetches -> Seq(Byte) \cup {Absent}]
    /\ transfer \in {"none", "down", "up"}
    /\ tape \in Seq(Byte) /\ memory \in Seq(Byte)
    /\ failures \in 0..MaxFailures /\ closed \in BOOLEAN

Init ==
    /\ handle = "none" /\ handles = 0 /\ alive = FALSE
    /\ lock = Free /\ pc = [c \in Callers |-> "idle"]
    /\ text = <<>> /\ at = 0 /\ chunks = <<>>
    /\ queue \in Texts \cup {Absent} /\ replaced = 0
    /\ spool = [n \in Numbers |-> Absent] /\ dest = [c \in Fetches |-> Absent]
    /\ transfer = "none" /\ tape = <<>> /\ memory = <<>>
    /\ failures = 0 /\ closed = FALSE

-----------------------------------------------------------------------------
(* The handle and the control.                                               *)

\* Mutant: every call connects.
ConnectAlways == handle' = "open" /\ handles' = handles + 1 /\ alive' = TRUE

\* _connect(): the first caller connects, the handle is kept for the others.
Connect ==
    /\ handle' = "open"
    /\ IF handle = "none"
       THEN handles' = handles + 1 /\ alive' = TRUE
       ELSE UNCHANGED <<handles, alive>>

\* A call of the library returns a code that is neither EW_OK nor EW_BUFFER.
Fault ==
    \/ handle = "open" /\ ~alive /\ UNCHANGED failures
    \/ failures < MaxFailures /\ failures' = failures + 1

\* The control forgets the handle: power, network, its own timeout.
DropSession ==
    /\ alive /\ failures < MaxFailures
    /\ failures' = failures + 1
    /\ alive' = FALSE
    /\ UNCHANGED <<handle, handles, lock, pc, callVars, fileVars, controlVars, closed>>

\* Production planning replaces or takes away the queued file.
Replace ==
    /\ replaced < MaxReplaced
    /\ replaced' = replaced + 1
    /\ queue' \in (Texts \cup {Absent}) \ {queue}
    /\ UNCHANGED <<libraryVars, lock, pc, callVars, spool, dest, controlVars, failures, closed>>

-----------------------------------------------------------------------------
(* Callers.                                                                  *)

Goes(c, where) == pc' = [pc EXCEPT ![c] = where]

Ask(c) ==
    /\ pc[c] = "idle"
    /\ Goes(c, "waiting")
    /\ UNCHANGED <<libraryVars, lock, callVars, fileVars, controlVars, failures, closed>>

\* The connection, the file, cnc_dwnstart4.
EnterSend(c) ==
    /\ c \in Sends /\ pc[c] = "waiting" /\ lock = Free
    /\ Connect /\ alive'
    /\ queue # Absent
    /\ lock' = c /\ Goes(c, "sending")
    /\ text' = queue /\ at' = 0
    /\ transfer' = "down" /\ tape' = <<>>
    /\ UNCHANGED <<chunks, fileVars, memory, failures, closed>>

\* The connection, cnc_upstart4.
EnterFetch(c) ==
    /\ c \in Fetches /\ pc[c] = "waiting" /\ lock = Free
    /\ Connect /\ alive'
    /\ lock' = c /\ Goes(c, "receiving")
    /\ chunks' = <<>> /\ at' = 0
    /\ transfer' = "up"
    /\ UNCHANGED <<text, fileVars, tape, memory, failures, closed>>

\* Connecting, opening the file or starting the transfer raises: the lock is
\* released, a handle that was obtained is kept.
EnterFails(c) ==
    /\ pc[c] = "waiting" /\ lock = Free
    /\ \/ handle = "none" /\ failures < MaxFailures /\ failures' = failures + 1
          /\ UNCHANGED libraryVars
       \/ Connect /\ Fault
       \/ Connect /\ c \in Sends /\ queue = Absent /\ UNCHANGED failures
    /\ Goes(c, "error")
    /\ UNCHANGED <<lock, callVars, fileVars, controlVars, closed>>

\* Mutant: the lock is not released.
LeaveHolding(c, where) == Goes(c, where) /\ UNCHANGED lock

\* Leave the with statement.
Leave(c, where) == lock' = Free /\ Goes(c, where)

-----------------------------------------------------------------------------
(* send()                                                                    *)

NextChunk ==
    LET data == Wrapped(text)
        end == IF at + ChunkSize < Len(data) THEN at + ChunkSize ELSE Len(data)
    IN  SubSeq(data, at + 1, end)

\* cnc_download4 took a chunk.
Download(c) ==
    /\ pc[c] = "sending" /\ alive
    /\ at < Len(Wrapped(text))
    /\ tape' = tape \o NextChunk
    /\ at' = at + Len(NextChunk)
    /\ UNCHANGED <<libraryVars, lock, pc, text, chunks, fileVars, transfer, memory,
                   failures, closed>>

\* cnc_dwnend4, whose code is not looked at: the control keeps what it was given,
\* or refuses, and then keeps it or drops it.
DownloadEnds(c) ==
    /\ pc[c] = "sending"
    /\ at >= Len(Wrapped(text))
    /\ transfer' = "none"
    /\ \/ alive /\ memory' = tape /\ UNCHANGED failures
       \/ Fault /\ memory' \in {tape, memory}
    /\ Leave(c, "after")
    /\ UNCHANGED <<libraryVars, callVars, fileVars, tape, closed>>

\* Mutant: the loop breaks and nothing is raised.
DownloadFailsQuietly(c) ==
    /\ pc[c] = "sending"
    /\ at < Len(Wrapped(text))
    /\ Fault
    /\ transfer' = "none" /\ memory' \in {tape, memory}
    /\ Leave(c, "after")
    /\ UNCHANGED <<libraryVars, callVars, fileVars, tape, closed>>

\* cnc_dwnend4 all the same: the control keeps the part or drops it.
DownloadFails(c) ==
    /\ pc[c] = "sending"
    /\ at < Len(Wrapped(text))
    /\ Fault
    /\ transfer' = "none" /\ memory' \in {tape, memory}
    /\ Leave(c, "error")
    /\ UNCHANGED <<libraryVars, callVars, fileVars, tape, closed>>

\* os.path.getsize(local_path), after the lock was released.
GetSize(c) ==
    /\ c \in Sends /\ pc[c] = "after"
    /\ Goes(c, IF queue = Absent THEN "error" ELSE "ok")
    /\ UNCHANGED <<libraryVars, lock, callVars, fileVars, controlVars, failures, closed>>

-----------------------------------------------------------------------------
(* fetch()                                                                   *)

\* The loop is over: cnc_upend4.
EndUpload(c) == transfer' = "none" /\ Goes(c, "ended")

\* What the control may answer: the next bytes of the program, up to the buffer's size.
Answers(c) ==
    {SubSeq(Stored[Number[c]], at + 1, at + n) :
        n \in {k \in 1..ReceiveMax : at + k <= Len(Stored[Number[c]])}}

\* Mutant: the chunk replaces what was collected.
UploadOver(c) ==
    /\ pc[c] = "receiving" /\ alive
    /\ \E chunk \in Answers(c) :
          /\ at' = at + Len(chunk)
          /\ chunks' = chunk
          /\ IF EndsTape(chunk) THEN EndUpload(c) ELSE UNCHANGED <<pc, transfer>>
    /\ UNCHANGED <<libraryVars, lock, text, fileVars, tape, memory, failures, closed>>

\* cnc_upload4 gave a chunk; one that ends with a mark is the last.
Upload(c) ==
    /\ pc[c] = "receiving" /\ alive
    /\ \E chunk \in Answers(c) :
          /\ at' = at + Len(chunk)
          /\ chunks' = chunks \o chunk
          /\ IF EndsTape(chunk) THEN EndUpload(c) ELSE UNCHANGED <<pc, transfer>>
    /\ UNCHANGED <<libraryVars, lock, text, fileVars, tape, memory, failures, closed>>

\* Mutant: the break leaves the control's transfer open.
UploadStopsOpen(c) ==
    /\ pc[c] = "receiving"
    /\ \/ at = Len(Stored[Number[c]]) /\ UNCHANGED failures
       \/ Fault
    /\ Goes(c, "ended")
    /\ UNCHANGED <<libraryVars, lock, callVars, fileVars, controlVars, closed>>

\* Mutant: a failure is retried like EW_BUFFER.
UploadStopsAtEnd(c) ==
    /\ pc[c] = "receiving"
    /\ at = Len(Stored[Number[c]]) /\ UNCHANGED failures
    /\ EndUpload(c)
    /\ UNCHANGED <<libraryVars, lock, callVars, fileVars, tape, memory, closed>>

\* Another code, for the end of the program or for a failure: what came is saved.
UploadStops(c) ==
    /\ pc[c] = "receiving"
    /\ \/ at = Len(Stored[Number[c]]) /\ UNCHANGED failures
       \/ Fault
    /\ EndUpload(c)
    /\ UNCHANGED <<libraryVars, lock, callVars, fileVars, tape, memory, closed>>

\* open(dest, "wb"): the file of an earlier fetch is gone, this one's is there in
\* part for whoever looks at it before it is closed.
OpenSpool(c) ==
    /\ pc[c] = "ended"
    /\ \E n \in 0..Len(chunks) : spool' = [spool EXCEPT ![Number[c]] = SubSeq(chunks, 1, n)]
    /\ Goes(c, "saving")
    /\ UNCHANGED <<libraryVars, lock, callVars, queue, dest, replaced, controlVars,
                   failures, closed>>

\* The file is written and closed, wherever it was moved to.
WriteSpool(c) ==
    /\ pc[c] = "saving"
    /\ spool' = IF spool[Number[c]] = Absent THEN spool
                ELSE [spool EXCEPT ![Number[c]] = chunks]
    /\ Leave(c, "after")
    /\ UNCHANGED <<libraryVars, callVars, queue, dest, replaced, controlVars, failures, closed>>

\* Opening or writing raises; what was written stays.
SaveFails(c) ==
    /\ pc[c] \in {"ended", "saving"}
    /\ failures < MaxFailures /\ failures' = failures + 1
    /\ Leave(c, "error")
    /\ UNCHANGED <<libraryVars, callVars, fileVars, controlVars, closed>>

\* The others that are writing the file a fetch is about to take.
Writing(c) == {d \in Fetches \ {c} : pc[d] = "saving" /\ Number[d] = Number[c]}

\* os.replace and os.path.getsize, after the lock was released.  A file that is
\* open may not be moved, on Windows; where it may, it is moved as it is.
Move(c) ==
    /\ c \in Fetches /\ pc[c] = "after"
    /\ LET written == spool[Number[c]]
       IN  \/ /\ written = Absent \/ (c \notin InPlace /\ Writing(c) # {})
              /\ Goes(c, "error") /\ UNCHANGED <<spool, dest>>
           \/ /\ written # Absent
              /\ Goes(c, "ok")
              /\ dest' = [dest EXCEPT ![c] = written]
              /\ spool' = IF c \in InPlace THEN spool
                          ELSE [spool EXCEPT ![Number[c]] = Absent]
    /\ UNCHANGED <<libraryVars, lock, callVars, queue, replaced, controlVars, failures, closed>>

-----------------------------------------------------------------------------
\* main() closes the transport on its way out, while calls may still be under way.
CloseHandle ==
    /\ ~closed /\ lock = Free
    /\ closed' = TRUE
    /\ handle' = "none"
    /\ handles' = IF handle = "open" THEN handles - 1 ELSE handles
    /\ alive' = FALSE
    /\ UNCHANGED <<lock, pc, callVars, fileVars, controlVars, failures>>

Enter(c) == EnterSend(c) \/ EnterFetch(c) \/ EnterFails(c)
Transfer(c) ==
    \/ Download(c) \/ DownloadEnds(c) \/ DownloadFails(c)
    \/ Upload(c) \/ UploadStops(c) \/ OpenSpool(c) \/ WriteSpool(c) \/ SaveFails(c)
After(c) == GetSize(c) \/ Move(c)

Next ==
    \/ \E c \in Callers : Ask(c) \/ Enter(c) \/ Transfer(c) \/ After(c)
    \/ DropSession \/ Replace \/ CloseHandle

Spec == Init /\ [][Next]_vars

\* A call that can go on does, and the control does not answer EW_BUFFER for ever.
FairSpec ==
    /\ Spec
    /\ \A c \in Callers : WF_vars(Enter(c)) /\ WF_vars(Transfer(c)) /\ WF_vars(After(c))

-----------------------------------------------------------------------------
(* The handle is the only one the library gave out and did not get back,    *)
(* whoever connects, fails or shuts down in between.                        *)
HandleAccounted == handles = IF handle = "open" THEN 1 ELSE 0

(* The finally clauses: the control is in a transfer exactly while a call   *)
(* is in its loop, so no transfer begins inside another.                    *)
EndsWhatItStarts ==
    /\ transfer = "down" <=> \E c \in Callers : pc[c] = "sending"
    /\ transfer = "up" <=> \E c \in Callers : pc[c] = "receiving"

(* "Ensure the % ... % tape wrapper": what the control has been given of a  *)
(* send that ended is a tape, unless the file was bare, and has the words   *)
(* of the file as it was when it was read; and the control has kept it,     *)
(* whole, if nothing failed.                                                *)
SendDelivers ==
    [][\A c \in Sends :
          pc[c] = "sending" /\ pc'[c] = "after" =>
              /\ IsTape(tape') \/ Bare(text)
              /\ Words(tape') = Words(text)
              /\ memory' = tape' \/ failures' > 0]_vars

\* The whole program, up to white space at its end.
Whole(c) == RStrip(dest[c]) = RStrip(Stored[Number[c]])

(* A fetch that returns gives the program from its beginning, and all of it *)
(* unless a call failed, a chunk happened to end at a mark inside the       *)
(* program, or another fetch was writing the same file just then - whoever  *)
(* fetched the same program before, and took the file away or not.          *)
FetchIntegrity ==
    [][\A c \in Fetches :
          pc[c] # "ok" /\ pc'[c] = "ok" =>
              /\ dest'[c] = SubSeq(Stored[Number[c]], 1, Len(dest'[c]))
              /\ Whole(c)' \/ EndsTape(dest'[c]) \/ failures > 0 \/ Writing(c) # {}]_vars

(* "If the device stops answering mid-transfer, the client raises instead   *)
(* of returning what it managed to collect. A partial program is never      *)
(* written to disk": what is returned is whole, or ended at a mark.         *)
SilenceIsAnError ==
    \A c \in Fetches : pc[c] = "ok" => Whole(c) \/ EndsTape(dest[c])

(* However calls, failures, the shutdown and the planning department come   *)
(* together, the callers see one call at a time and the control keeps whole *)
(* programs unless a send raised: the connection, the chunks and the        *)
(* control's transfers do not show.                                         *)
Calls == INSTANCE ProgramCalls WITH
    line    <- lock,
    given   <- IF lock \in Sends THEN text ELSE <<>>,
    outcome <- [c \in Callers |-> IF pc[c] \in {"after", "ok", "error"} THEN pc[c] ELSE "none"]
ImplementsCalls == Calls!Spec

(* A call that asked for the lock ends, if the control is not busy for ever. *)
EveryCallEnds ==
    \A c \in Callers : pc[c] = "waiting" ~> pc[c] \in {"ok", "error"}
=============================================================================
