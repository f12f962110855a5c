---------------------------- MODULE SerialTransport ----------------------------
(***************************************************************************)
(* The RS-232 transport of transport.py: one port, one lock, one listener  *)
(* thread that collects what the machine punches, the panel's threads that *)
(* send or drip-feed on the same wire, and the shutdown that closes it.    *)
(*                                                                         *)
(* The machine punches Programs programs.  Each is '%', Body bytes, '%',   *)
(* and a line end after the closing '%'.  The operating system buffers     *)
(* what arrives between two reads, up to RxCap bytes.                      *)
(***************************************************************************)
EXTENDS Naturals, Sequences, FiniteSets

CONSTANTS
    Sends,          \* threads that call send(), once each
    Drips,          \* threads that call drip_feed(), once each
    Listener,       \* the listener thread
    Free,           \* nobody holds the lock
    Programs,       \* bound: programs the machine punches
    Body,           \* bytes of a program between its '%' marks
    ReadMax,        \* bytes one read returns at most (256)
    RxCap,          \* bytes the operating system buffers
    Chunks,         \* chunks of a drip-feed
    MaxFailures     \* bound: reads, writes and deliveries that fail

Senders == Sends \cup Drips

ASSUME ThreadAssumption ==
    /\ Listener \notin Senders /\ Free \notin Senders \cup {Listener}
    /\ Sends \cap Drips = {}
ASSUME SizeAssumption ==
    /\ Programs \in Nat /\ Body \in Nat /\ Chunks \in Nat /\ MaxFailures \in Nat
    /\ ReadMax \in Nat \ {0} /\ RxCap \in Nat \ {0}

VARIABLES
    punched,        \* bytes the machine has put on the wire
    rx,             \* bytes that arrived and were not read
    failures,       \* failures so far
    lossy,          \* history: bytes were lost, or the machine stalled in a program
    glued,          \* history: a program began while the end of the last was unread
    lock,           \* the holder of _lock
    port,           \* _port: "none" or "open"
    opens,          \* history: how often open_port was called with success
    writeTimeout,   \* the port's write_timeout: "normal" or "drip"
    saved,          \* previous_timeout of the drip-feed that runs
    receiving,      \* _receiving
    buf,            \* the listener's buf
    percent,        \* the listener's percent
    program,        \* the program the listener is about to hand over
    lpc,            \* where the listener is
    delivered,      \* what on_program was given, in order
    spc,            \* where each sender is; how its call ended is not kept
    sent,           \* chunks a running drip-feed has written
    stop,           \* the stop event
    closed          \* close() has returned

lineVars == <<punched, rx, failures, lossy, glued>>
portVars == <<port, opens, writeTimeout, saved>>
listenVars == <<receiving, buf, percent, program, lpc, delivered>>
sendVars == <<spc, sent>>
stopVars == <<stop, closed>>
vars == <<lineVars, lock, portVars, listenVars, sendVars, stopVars>>

-----------------------------------------------------------------------------
(* What the machine punches.                                                 *)

\* Bytes of one program on the wire, its line end included.
Span == Body + 3

\* The k-th byte on the wire, marked with the program it belongs to.
Token(k) ==
    LET at == (k - 1) % Span
    IN  [of |-> (k - 1) \div Span + 1,
         byte |-> IF at \in {0, Body + 1} THEN "%" ELSE IF at = Span - 1 THEN "eol" ELSE "x"]

\* The bytes of program n, from its first '%' to its last.
Frame(n) == [i \in 1..Span - 1 |-> Token((n - 1) * Span + i)]

\* The machine has begun a program and not yet punched its closing '%'.
MidProgram == punched % Span \in 1..Span - 2

IsPercent(t) == t.byte = "%"

\* Mutant: b"%" in chunk, instead of a count.
PercentsInOnce(bytes) == IF \E i \in 1..Len(bytes) : IsPercent(bytes[i]) THEN 1 ELSE 0

PercentsIn(bytes) == Cardinality({i \in 1..Len(bytes) : IsPercent(bytes[i])})

\* chunk[chunk.find(b"%"):], and nothing if there is no '%'.
FromPercent(chunk) ==
    IF PercentsIn(chunk) = 0 THEN <<>>
    ELSE LET start == CHOOSE i \in 1..Len(chunk) :
                        IsPercent(chunk[i]) /\ \A j \in 1..i - 1 : ~IsPercent(chunk[j])
         IN  SubSeq(chunk, start, Len(chunk))

-----------------------------------------------------------------------------
TypeOK ==
    /\ punched \in 0..Programs * Span
    /\ Len(rx) <= RxCap
    /\ failures \in 0..MaxFailures
    /\ lossy \in BOOLEAN /\ glued \in BOOLEAN
    /\ lock \in Senders \cup {Listener, Free}
    /\ port \in {"none", "open"} /\ opens \in Nat
    /\ writeTimeout \in {"normal", "drip"} /\ saved \in {"normal", "drip"}
    /\ receiving \in BOOLEAN
    /\ percent \in Nat
    /\ lpc \in {"top", "waiting", "reading", "delivering", "failed", "clearing", "stopped"}
    /\ spc \in [Senders -> {"idle", "waiting", "writing", "done"}]
    /\ sent \in [Senders -> 0..Chunks]
    /\ stop \in BOOLEAN /\ closed \in BOOLEAN
    /\ lock = Listener <=> lpc = "reading"
    /\ \A s \in Senders : lock = s <=> spc[s] = "writing"

Init ==
    /\ punched = 0 /\ rx = <<>> /\ failures = 0 /\ lossy = FALSE /\ glued = FALSE
    /\ lock = Free
    /\ port = "none" /\ opens = 0 /\ writeTimeout = "normal" /\ saved = "normal"
    /\ receiving = FALSE /\ buf = <<>> /\ percent = 0 /\ program = <<>>
    /\ lpc = "top" /\ delivered = <<>>
    /\ spc = [s \in Senders |-> "idle"] /\ sent = [s \in Senders |-> 0]
    /\ stop = FALSE /\ closed = FALSE

\* Mutant: the port is opened for every use.
PortOpenAlways == port' = "open" /\ opens' = opens + 1 /\ writeTimeout' = "normal"

\* _port_open(), called with the lock held.
PortOpen ==
    /\ port' = "open"
    /\ IF port = "none"
       THEN opens' = opens + 1 /\ writeTimeout' = "normal"
       ELSE UNCHANGED <<opens, writeTimeout>>

\* _drop_port(): what the operating system buffered is gone.
DropPort == port' = "none" /\ rx' = <<>>

-----------------------------------------------------------------------------
(* The machine.                                                              *)

\* One byte arrives: buffered, or lost when the buffer is full or nobody opened the port.
Punch ==
    /\ punched < Programs * Span
    /\ punched' = punched + 1
    /\ LET t == Token(punched + 1)
       IN  IF port = "none" \/ Len(rx) = RxCap
           THEN lossy' = TRUE /\ UNCHANGED <<rx, glued>>
           ELSE /\ rx' = Append(rx, t)
                /\ glued' = (glued \/ \E i \in 1..Len(rx) :
                                          IsPercent(rx[i]) /\ rx[i].of # t.of)
                /\ UNCHANGED lossy
    /\ UNCHANGED <<failures, lock, portVars, listenVars, sendVars, stopVars>>

-----------------------------------------------------------------------------
(* The listener.                                                             *)

\* while not stop_event.is_set()
Loop ==
    /\ lpc = "top"
    /\ lpc' = IF stop THEN "stopped" ELSE "waiting"
    /\ UNCHANGED <<lineVars, lock, portVars, receiving, buf, percent, program, delivered,
                   sendVars, stopVars>>

ListenerAcquires ==
    /\ lpc = "waiting" /\ lock = Free
    /\ lock' = Listener
    /\ lpc' = "reading"
    /\ UNCHANGED <<lineVars, portVars, receiving, buf, percent, program, delivered,
                   sendVars, stopVars>>

\* read(256) after at most LISTEN_READ_TIMEOUT: everything that arrived, if anything did.
Arrived == SubSeq(rx, 1, IF Len(rx) < ReadMax THEN Len(rx) ELSE ReadMax)

\* Mutant: a program starts at whatever byte comes first.
KeptWithNoise == Arrived

\* What of it is kept: before the program starts, everything up to a '%' is noise.
Kept == IF buf = <<>> THEN FromPercent(Arrived) ELSE Arrived

\* The read, and everything done with it before the lock is released.
Read ==
    /\ lpc = "reading"
    /\ PortOpen
    /\ rx' = SubSeq(rx, Len(Arrived) + 1, Len(rx))
    /\ \E quiet \in BOOLEAN :   \* QUIET_END_SECONDS have passed since the last byte
          /\ quiet => buf # <<>> /\ Arrived = <<>>
          /\ lossy' = (lossy \/ (quiet /\ MidProgram))
          /\ LET all == buf \o Kept
                 marks == percent + PercentsIn(Kept)
             IN  IF all # <<>> /\ (marks >= 2 \/ quiet)
                 THEN /\ program' = all
                      /\ buf' = <<>> /\ percent' = 0 /\ receiving' = FALSE
                      /\ lpc' = "delivering"
                 ELSE /\ buf' = all /\ percent' = marks
                      /\ receiving' = (receiving \/ Kept # <<>>)
                      /\ lpc' = "top"
                      /\ UNCHANGED program
    /\ lock' = Free
    /\ UNCHANGED <<punched, failures, glued, saved, delivered, sendVars, stopVars>>

\* Mutant: the lock is not released on the way out.
ReadFailsLocked ==
    /\ lpc = "reading"
    /\ failures < MaxFailures
    /\ failures' = failures + 1
    /\ lossy' = TRUE
    /\ PortOpen \/ UNCHANGED <<port, opens, writeTimeout>>
    /\ lpc' = "failed"
    /\ UNCHANGED <<punched, rx, glued, lock, saved, receiving, buf, percent, program,
                   delivered, sendVars, stopVars>>

\* Opening the port or reading from it raises; the with statement releases the lock.
ReadFails ==
    /\ lpc = "reading"
    /\ failures < MaxFailures
    /\ failures' = failures + 1
    /\ lossy' = TRUE
    /\ PortOpen \/ UNCHANGED <<port, opens, writeTimeout>>
    /\ lock' = Free
    /\ lpc' = "failed"
    /\ UNCHANGED <<punched, rx, glued, saved, receiving, buf, percent, program, delivered,
                   sendVars, stopVars>>

\* Mutant: the busy mark of the lost program stays.
RecoverBusy ==
    /\ lpc = "failed" /\ lock = Free
    /\ DropPort
    /\ lpc' = "clearing"
    /\ UNCHANGED <<punched, failures, lossy, glued, lock, opens, writeTimeout, saved,
                   receiving, buf, percent, program, delivered, sendVars, stopVars>>

\* The except clause takes the lock again to drop the port ...
Recover ==
    /\ lpc = "failed" /\ lock = Free
    /\ DropPort
    /\ receiving' = FALSE
    /\ lpc' = "clearing"
    /\ UNCHANGED <<punched, failures, lossy, glued, lock, opens, writeTimeout, saved, buf,
                   percent, program, delivered, sendVars, stopVars>>

\* ... and forgets what was collected after it released it.
Clear ==
    /\ lpc = "clearing"
    /\ buf' = <<>> /\ percent' = 0
    /\ lpc' = "top"
    /\ UNCHANGED <<lineVars, lock, portVars, receiving, program, delivered, sendVars, stopVars>>

\* on_program(program), outside the lock.
Deliver ==
    /\ lpc = "delivering"
    /\ delivered' = Append(delivered, program)
    /\ program' = <<>>
    /\ lpc' = "top"
    /\ UNCHANGED <<lineVars, lock, portVars, receiving, buf, percent, sendVars, stopVars>>

\* on_program raises: listen() ends with it, and the panel calls listen() again.
DeliverFails ==
    /\ lpc = "delivering"
    /\ failures < MaxFailures
    /\ failures' = failures + 1
    /\ lossy' = TRUE
    /\ program' = <<>> /\ buf' = <<>> /\ percent' = 0
    /\ lpc' = "top"
    /\ UNCHANGED <<punched, rx, glued, lock, portVars, receiving, delivered, sendVars, stopVars>>

-----------------------------------------------------------------------------
(* The panel's threads.                                                      *)

\* The file is read and wrapped before the lock is asked for.
Ask(s) ==
    /\ spc[s] = "idle"
    /\ spc' = [spc EXCEPT ![s] = "waiting"]
    /\ UNCHANGED <<lineVars, lock, portVars, listenVars, sent, stopVars>>

\* TransportBusy: a program is arriving.
Refused(s) ==
    /\ spc[s] = "waiting" /\ lock = Free
    /\ receiving
    /\ spc' = [spc EXCEPT ![s] = "done"]
    /\ UNCHANGED <<lineVars, lock, portVars, listenVars, sent, stopVars>>

\* Mutant: the busy mark is not looked at.
EnterAnyway(s) ==
    /\ spc[s] = "waiting" /\ lock = Free
    /\ lock' = s
    /\ spc' = [spc EXCEPT ![s] = "writing"]
    /\ PortOpen
    /\ UNCHANGED <<lineVars, saved, listenVars, sent, stopVars>>

\* The wire is free: open the port; a drip-feed raises the write timeout.
Enter(s) ==
    /\ spc[s] = "waiting" /\ lock = Free
    /\ ~receiving
    /\ lock' = s
    /\ spc' = [spc EXCEPT ![s] = "writing"]
    /\ port' = "open"
    /\ opens' = IF port = "none" THEN opens + 1 ELSE opens
    /\ LET timeout == IF port = "none" THEN "normal" ELSE writeTimeout
       IN  IF s \in Drips
           THEN saved' = timeout /\ writeTimeout' = "drip"
           ELSE writeTimeout' = timeout /\ UNCHANGED saved
    /\ UNCHANGED <<lineVars, listenVars, sent, stopVars>>

\* open_port raises in the sender's thread: there is no port to drop.
EnterFails(s) ==
    /\ spc[s] = "waiting" /\ lock = Free
    /\ ~receiving /\ port = "none"
    /\ failures < MaxFailures
    /\ failures' = failures + 1
    /\ spc' = [spc EXCEPT ![s] = "done"]
    /\ UNCHANGED <<punched, rx, lossy, glued, lock, portVars, listenVars, sent, stopVars>>

\* Leave the with statement; a drip-feed restores the timeout whatever happened.
Leave(s) ==
    /\ lock' = Free
    /\ spc' = [spc EXCEPT ![s] = "done"]
    /\ sent' = [sent EXCEPT ![s] = 0]
    /\ writeTimeout' = IF s \in Drips THEN saved ELSE writeTimeout
    /\ UNCHANGED <<port, opens, saved>>

\* send(): the whole program goes out in one write.
WriteAll(s) ==
    /\ s \in Sends /\ spc[s] = "writing"
    /\ Leave(s)
    /\ UNCHANGED <<lineVars, listenVars, stopVars>>

\* The next chunk of a drip-feed is on the wire.
DripChunk(s) ==
    /\ s \in Drips /\ spc[s] = "writing" /\ sent[s] < Chunks
    /\ sent' = [sent EXCEPT ![s] = @ + 1]
    /\ UNCHANGED <<lineVars, lock, portVars, listenVars, spc, stopVars>>

\* Mutant: the timeout is restored only when the drip-feed ends well.
DripAbortsUnrestored(s) ==
    /\ s \in Drips /\ spc[s] = "writing" /\ sent[s] < Chunks
    /\ lock' = Free
    /\ spc' = [spc EXCEPT ![s] = "done"]
    /\ sent' = [sent EXCEPT ![s] = 0]
    /\ UNCHANGED <<lineVars, portVars, listenVars, stopVars>>

\* DripAborted, between two chunks.
DripAborts(s) ==
    /\ s \in Drips /\ spc[s] = "writing" /\ sent[s] < Chunks
    /\ Leave(s)
    /\ UNCHANGED <<lineVars, listenVars, stopVars>>

DripEnds(s) ==
    /\ s \in Drips /\ spc[s] = "writing" /\ sent[s] = Chunks
    /\ Leave(s)
    /\ UNCHANGED <<lineVars, listenVars, stopVars>>

\* A write or flush raises: the port stays as it is for the listener to find.
WriteFails(s) ==
    /\ spc[s] = "writing"
    /\ failures < MaxFailures
    /\ failures' = failures + 1
    /\ Leave(s)
    /\ UNCHANGED <<punched, rx, lossy, glued, listenVars, stopVars>>

Sender(s) ==
    \/ Ask(s) \/ Refused(s) \/ Enter(s) \/ EnterFails(s) \/ WriteAll(s)
    \/ DripChunk(s) \/ DripAborts(s) \/ DripEnds(s) \/ WriteFails(s)

-----------------------------------------------------------------------------
(* Shutdown: main() sets the stop event, then closes the transport.          *)

Stop ==
    /\ ~stop
    /\ stop' = TRUE
    /\ UNCHANGED <<lineVars, lock, portVars, listenVars, sendVars, closed>>

ClosePort ==
    /\ stop /\ ~closed /\ lock = Free
    /\ DropPort
    /\ lossy' = TRUE
    /\ closed' = TRUE
    /\ UNCHANGED <<punched, failures, glued, lock, opens, writeTimeout, saved,
                   listenVars, sendVars, stop>>

-----------------------------------------------------------------------------
Listening ==
    \/ Loop \/ ListenerAcquires \/ Read \/ ReadFails \/ Recover \/ Clear
    \/ Deliver \/ DeliverFails

Next == Punch \/ Listening \/ (\E s \in Senders : Sender(s)) \/ Stop \/ ClosePort

Spec == Init /\ [][Next]_vars

\* A thread that can move does, and a blocked write ends: it goes out or times out.
\* The lock (an RLock) promises no order among those that wait for it.
FairSpec ==
    /\ Spec
    /\ WF_vars(Listening)
    /\ \A s \in Senders : WF_vars(Refused(s) \/ Enter(s) \/ EnterFails(s))
    /\ \A s \in Senders : WF_vars(WriteAll(s) \/ DripChunk(s) \/ DripEnds(s) \/ WriteFails(s))
-----------------------------------------------------------------------------
(* The busy mark the senders look at says whether the listener holds the    *)
(* beginning of a program, and the listener's count of '%' is right - except *)
(* between the two halves of its recovery, when the mark is cleared and what *)
(* it marked is about to be thrown away outside the lock.                   *)
ReceivingMirrorsBuffer ==
    lpc # "clearing" =>
        /\ receiving <=> buf # <<>>
        /\ percent = PercentsIn(buf)

(* "Sending would collide with it on the same wire": nobody writes while    *)
(* the listener holds the beginning of a program it will hand over.         *)
NeverSendsIntoAProgram ==
    lock \in Senders /\ lpc # "clearing" => buf = <<>>

(* "The port is opened ONCE and kept open for the life of the process":     *)
(* until something fails or the process ends, whoever uses it first.        *)
PortOpenedOnce == failures = 0 /\ ~stop => opens <= 1

(* The long write timeout is in force exactly while a drip-feed runs.       *)
TimeoutFollowsDrip == writeTimeout = "drip" <=> lock \in Drips

\* Every program handed over is one the machine punched: whole, in order, none twice.
WholeSoFar ==
    \A n \in 1..Len(delivered) :
        delivered[n] \in {Frame(n), Append(Frame(n), Token(n * Span))}

(* on_program is "called by the listening transport for each complete       *)
(* program": if nothing failed or overflowed, the machine did not stall for *)
(* QUIET_END_SECONDS inside a program, and no program began before the end  *)
(* of the last one was read.                                                *)
DeliversWholePrograms == ~lossy /\ ~glued => WholeSoFar

(* The same for programs punched without a pause between them.              *)
DeliversEachProgram == ~lossy => WholeSoFar

(* Every program punched to its end is handed over, whoever sends meanwhile. *)
EveryProgramArrives ==
    \A n \in 1..Programs :
        punched >= n * Span - 1 ~> Len(delivered) >= n \/ lossy \/ glued \/ stop
=============================================================================
