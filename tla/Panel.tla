--------------------------------- MODULE Panel ---------------------------------
(***************************************************************************)
(* dnc_web.py: the operator's panel on a machine's Pi.  Web threads send   *)
(* the queued program when asked to, the listener's thread stores what the *)
(* machine sends, the planning department puts another program in the      *)
(* queue whenever it likes, and the Pi loses power.  The log has the name  *)
(* of the queued file and a number of bytes, and for FOCAS the number is   *)
(* that of the file in the queue after the send.                           *)
(*                                                                         *)
(* The transports are SerialTransport, DncUpload and FocasTransfer.  Here  *)
(* a send reads the queued file and hands it over, the whole of it, or     *)
(* raises, before that or after; what a device makes of what it was handed *)
(* is those modules'.                                                      *)
(***************************************************************************)
EXTENDS TransferLog

CONSTANTS
    Workers,        \* web threads that press "send"
    Queued,         \* programs the planning department queues
    Punched,        \* programs the machine sends
    Size,           \* the bytes of each program, as the transport counts them
    Seconds,        \* what the clock shows
    Nothing,        \* no program, no file, no name
    MaxTransfers,   \* bounds of the model: presses and programs received, together,
    MaxFaults       \* and writes cut and crashes, together

Sizes == {Size[p] : p \in Queued \cup Punched}

\* What record() is called with: the name of a received file, for that of a sent
\* one is always FIXED_SEND_FILE.
Rows == [direction : {"send", "receive"}, n : Sizes \cup {Nothing},
         name : Seconds \cup {Nothing}, result : {"ok", "error"}, quoted : BOOLEAN]

ASSUME SizeAssumption == Size \in [Queued \cup Punched -> Nat]
ASSUME NothingAssumption == Nothing \notin Queued \cup Punched \cup Seconds \cup Sizes
ASSUME WorkersAssumption == IsFiniteSet(Workers)
ASSUME HeaderAssumption == Header \notin Rows

VARIABLES
    transport,      \* the one the panel was built with
    queue,          \* the file at _queued_path(), or Nothing
    programs,       \* the received files, by the second in their name
    clock,
    worker,         \* where each web thread is, and the n it got from tr.send
    listener,       \* where the listener is, the program it got, its name
    left,           \* the programs the machine has yet to send
    sent,           \* history: the programs that were handed over whole
    unsaid,         \* history: of those, the ones whose send raised all the same
    clash,          \* history: two received programs had the same name
    presses, crashes

panelVars == <<transport, queue, programs, clock, worker, listener, left, sent,
               unsaid, clash, presses, crashes>>
vars == <<panelVars, logVars>>

Transfers == presses + Cardinality(Punched \ left)

Idle == [at |-> "idle", n |-> Nothing]
Listening == [at |-> "listening", program |-> Nothing, name |-> Nothing]

Row(direction, n, name, result) ==
    [direction |-> direction, n |-> n, name |-> name, result |-> result,
     quoted |-> result = "error"]

TypeOK ==
    /\ transport \in {"serial", "dnc-box", "focas"}
    /\ queue \in Queued \cup {Nothing}
    /\ programs \in [Seconds -> Punched \cup {Nothing}]
    /\ worker \in [Workers -> [at : {"idle", "sending", "handed", "sent", "failed"},
                               n : Sizes \cup {Nothing}]]
    /\ listener.at \in {"listening", "saving", "saved", "failed", "waiting"}
    /\ \A i \in 1..Len(sent) : sent[i] \in Queued
    /\ unsaid \in Nat
    /\ \A i \in 1..Len(lines) : lines[i] # <<>>

Init ==
    /\ transport \in {"serial", "dnc-box", "focas"}
    /\ queue = Nothing
    /\ programs = [s \in Seconds |-> Nothing]
    /\ clock \in Seconds
    /\ worker = [w \in Workers |-> Idle]
    /\ listener = Listening
    /\ left = Punched /\ sent = <<>> /\ unsaid = 0
    /\ clash = FALSE /\ presses = 0 /\ crashes = 0
    /\ LogInit

\* record(): the row goes in, or some of it; either way nothing is raised.
Record(row) ==
    \/ WriteRow(row)
    \/ cuts + crashes < MaxFaults /\ CutRow(row)

-----------------------------------------------------------------------------
(* The surroundings.                                                         *)

\* A program is put into the queue, over the one that is there, or taken out.
Replace ==
    /\ \E q \in Queued \cup {Nothing} : q # queue /\ queue' = q
    /\ UNCHANGED <<transport, programs, clock, worker, listener, left, sent, unsaid,
                   clash, presses, crashes, logVars>>

Tick ==
    /\ \E s \in Seconds : s > clock /\ clock' = s
    /\ UNCHANGED <<transport, queue, programs, worker, listener, left, sent, unsaid,
                   clash, presses, crashes, logVars>>

\* The rows the process is about to write.
SendRow(w) ==
    IF worker[w].at = "sent" THEN Row("send", worker[w].n, Nothing, "ok")
                             ELSE Row("send", Nothing, Nothing, "error")
ReceiveRow ==
    IF listener.at = "saved" THEN Row("receive", Size[listener.program], listener.name, "ok")
                             ELSE Row("receive", Nothing, Nothing, "error")
Due == {SendRow(w) : w \in {v \in Workers : worker[v].at \in {"sent", "failed"}}}
          \cup {ReceiveRow : l \in {listener.at} \cap {"saved", "failed"}}

\* The power goes, perhaps in the middle of a log line, and comes back; a Pi has
\* no clock of its own.
Crash ==
    /\ cuts + crashes < MaxFaults /\ crashes' = crashes + 1
    /\ \/ UNCHANGED logVars
       \/ \E row \in Due : CutRow(row)
    /\ worker' = [w \in Workers |-> Idle]
    /\ listener' = Listening
    /\ clock' \in Seconds
    /\ UNCHANGED <<transport, queue, programs, left, sent, unsaid, clash, presses>>

-----------------------------------------------------------------------------
(* send_queued().                                                            *)

WorkerOnly == UNCHANGED <<transport, queue, programs, clock, listener, left, clash, crashes>>
Worker(w, where, n) == worker' = [worker EXCEPT ![w] = [at |-> where, n |-> n]]

\* os.path.exists, before anything else; without a file that is the answer.
Press(w) ==
    /\ worker[w].at = "idle" /\ Transfers < MaxTransfers
    /\ presses' = presses + 1
    /\ IF queue = Nothing THEN UNCHANGED worker ELSE Worker(w, "sending", Nothing)
    /\ UNCHANGED <<sent, unsaid, logVars>> /\ WorkerOnly

\* Mutant: a file that has gone is sent as if it were there.
SendAnyway(w) ==
    /\ worker[w].at = "sending"
    /\ \/ Worker(w, "sent", IF queue = Nothing THEN 0 ELSE Size[queue])
          /\ sent' = Append(sent, queue)
       \/ Worker(w, "failed", Nothing) /\ UNCHANGED sent
    /\ UNCHANGED <<unsaid, presses, logVars>> /\ WorkerOnly

\* tr.send reads the file as it is now and hands it over: the wire has it, the box
\* has acknowledged it, the control has taken its chunks.
HandOver(w) ==
    /\ queue # Nothing /\ sent' = Append(sent, queue)
    /\ \/ /\ UNCHANGED unsaid
          /\ IF transport = "focas" THEN Worker(w, "handed", Nothing)
                                    ELSE Worker(w, "sent", Size[queue])
       \/ /\ transport # "focas" /\ unsaid' = unsaid + 1
          /\ Worker(w, "failed", Nothing)

\* It raises if the file has gone, the wire is busy or the device does not take it;
\* and, the program handed over, if the flush, the close or the read-back fails.
Send(w) ==
    /\ worker[w].at = "sending"
    /\ \/ HandOver(w)
       \/ Worker(w, "failed", Nothing) /\ UNCHANGED <<sent, unsaid>>
    /\ UNCHANGED <<presses, logVars>> /\ WorkerOnly

\* FocasTransport looks at the file again for its size: another by now, or none.
GetSize(w) ==
    /\ worker[w].at = "handed"
    /\ \/ queue # Nothing /\ Worker(w, "sent", Size[queue]) /\ UNCHANGED unsaid
       \/ queue = Nothing /\ Worker(w, "failed", Nothing) /\ unsaid' = unsaid + 1
    /\ UNCHANGED <<sent, presses, logVars>> /\ WorkerOnly

\* Mutant: the log gets the size of what is in the queue by then.
RecordSendFromQueue(w) ==
    /\ worker[w].at \in {"sent", "failed"}
    /\ Record(IF worker[w].at = "sent" /\ queue # Nothing
              THEN Row("send", Size[queue], Nothing, "ok") ELSE SendRow(w))
    /\ Worker(w, "idle", Nothing)
    /\ UNCHANGED <<sent, unsaid, presses>> /\ WorkerOnly

\* The log after either; the page's tiles, which show the last of each, are left out.
RecordSend(w) ==
    /\ worker[w].at \in {"sent", "failed"}
    /\ Record(SendRow(w))
    /\ Worker(w, "idle", Nothing)
    /\ UNCHANGED <<sent, unsaid, presses>> /\ WorkerOnly

-----------------------------------------------------------------------------
(* on_program_received() and the listener's loop around it.                  *)

ListenerOnly == UNCHANGED <<transport, queue, clock, worker, sent, unsaid, presses, crashes>>

\* Only the serial transport can listen; with another there is no such thread.
Arrive ==
    /\ transport = "serial" /\ listener.at = "listening" /\ Transfers < MaxTransfers
    /\ \E p \in left :
          /\ listener' = [at |-> "saving", program |-> p, name |-> Nothing]
          /\ left' = left \ {p}
    /\ UNCHANGED <<programs, clash, logVars>> /\ ListenerOnly

\* The name is the second; open(.., "wb") does not mind a file of that name.
\* It raises with the old file gone, if there was one, or without having opened it.
Save ==
    /\ listener.at = "saving"
    /\ \/ /\ programs' = [programs EXCEPT ![clock] = listener.program]
          /\ listener' = [listener EXCEPT !.at = "saved", !.name = clock]
          /\ clash' = (clash \/ programs[clock] # Nothing)
       \/ /\ programs' \in {programs, [programs EXCEPT ![clock] = Nothing]}
          /\ listener' = [listener EXCEPT !.at = "failed"]
          /\ clash' = (clash \/ programs' # programs)
    /\ UNCHANGED <<left, logVars>> /\ ListenerOnly

\* Mutant: the log asks the clock again for the name.
RecordReceivedNow ==
    /\ listener.at = "saved"
    /\ Record([ReceiveRow EXCEPT !.name = clock])
    /\ listener' = Listening
    /\ UNCHANGED <<programs, left, clash>> /\ ListenerOnly

\* The log, with the name the file was given.
RecordReceived ==
    /\ listener.at = "saved"
    /\ Record(ReceiveRow)
    /\ listener' = Listening
    /\ UNCHANGED <<programs, left, clash>> /\ ListenerOnly

\* Mutant: nothing catches what on_program_received raises.
RecordErrorNever == FALSE /\ RecordReceived

\* run() catches it, records an error without a name, and waits.
RecordError ==
    /\ listener.at = "failed"
    /\ Record(ReceiveRow)
    /\ listener' = [listener EXCEPT !.at = "waiting"]
    /\ UNCHANGED <<programs, left, clash>> /\ ListenerOnly

ListenAgain ==
    /\ listener.at = "waiting"
    /\ listener' = Listening
    /\ UNCHANGED <<programs, left, clash, logVars>> /\ ListenerOnly

-----------------------------------------------------------------------------
WorkerStep(w) == Press(w) \/ Send(w) \/ GetSize(w) \/ RecordSend(w)
Handling == Save \/ RecordReceived \/ RecordError \/ ListenAgain

Next ==
    \/ Replace \/ Tick \/ Crash
    \/ \E w \in Workers : WorkerStep(w)
    \/ Arrive \/ Handling

Spec == Init /\ [][Next]_vars

\* The listener's thread runs; nobody need press, punch or replace anything.
FairSpec == Spec /\ WF_vars(Handling)

-----------------------------------------------------------------------------
\* The rows that say a program of one of these sizes was sent, and the one that
\* says a send failed.
OkRows(sizes) == {Row("send", n, Nothing, "ok") : n \in sizes}
ErrorRow == Row("send", Nothing, Nothing, "error")

\* Where the log has them, and the workers who are about to record one.
Logged(rows) == {i \in Readable : lines[i][1].row \in rows}
Untold(rows) == {w \in Workers : worker[w].at \in {"sent", "failed"} /\ SendRow(w) \in rows}
Told(rows) == Cardinality(Logged(rows)) + Cardinality(Untold(rows))

Handed == {w \in Workers : worker[w].at = "handed"}
Deliveries(n) == {i \in 1..Len(sent) : Size[sent[i]] = n}

(* "Was the program sent at 14:32 or not?"  The log never says so more      *)
(* often than a program was handed over, nor, but for FOCAS, with another   *)
(* size than that program's, whatever was put in the queue meanwhile and    *)
(* however many threads send; and unless a write was cut or the power went, *)
(* a program handed over is in the log as sent, or its send raised after    *)
(* that and is there as an error.                                           *)
LogTellsWhatWasSent ==
    LET said == Told(OkRows(Sizes)) + Cardinality(Handed) + unsaid
    IN  /\ transport # "focas" =>
              \A n \in Sizes : Told(OkRows({n})) <= Cardinality(Deliveries(n))
        /\ said <= Len(sent)
        /\ cuts = 0 /\ crashes = 0 => said = Len(sent) /\ unsaid <= Told({ErrorRow})

(* The file the log names for a received program is there, as long as the   *)
(* log says, unless another program got the same second.                    *)
ReceivedIsKept ==
    ~clash => \A i \in Readable :
        LET row == lines[i][1].row
        IN  row.direction = "receive" /\ row.result = "ok" =>
                programs[row.name] # Nothing /\ Size[programs[row.name]] = row.n

(* Until a write is cut, the panel shows the newest records and nothing     *)
(* else, newest first: the header is not among them and none is skipped.    *)
TailIsNewest ==
    cuts = 0 => \A n \in 1..3 :
        LogTail(n) = SubSeq(Reverse(records), 1, IF n < Len(records) THEN n ELSE Len(records))

(* A write cut short costs its own record and at most the one after it.     *)
CutCostsTwo == Cardinality(Readable) + 2 * cuts >= Len(records)

(* "No entry can span more than one line", so whole rows among the lines    *)
(* read are on the page, whatever happened to the lines before them.        *)
NoEntrySpansLines ==
    \A n \in 1..3 : \A i \in Readable :
        i > Len(lines) - n => lines[i][1].row \in {LogTail(n)[k] : k \in DOMAIN LogTail(n)}

(* "This thread must never die": whatever a program's reception raises, the *)
(* listener listens again.                                                  *)
ListenerSurvives == []<>(listener.at = "listening")
=============================================================================
