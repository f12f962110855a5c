# A TLA+ model of dnc_micro_toolkit

`dnc_micro_toolkit` moves G-code programs between a PC and machine tools: over UDP to a
Micro DNC 2 box (`dnc_tftp.py`), over RS-232 (`serial_adapter.py`, `transport.py`), or over
Fanuc FOCAS; with a web panel, a WebDAV bridge and a hardware acceptance script on top. A
program that arrives truncated or scrambled "reaches the machine looking like a valid
program" (`README.md`, Integrity), so the properties here are about that: what is handed
over is whole, or nothing is.

## Inventory

| Part | State | Operations | Talks to |
|---|---|---|---|
| UDP exchange loop, `_exchange` (dnc_tftp.py 160-187) | the request, passes of its loop, the deadline of the pass | send, resend, accept a reply, discard one, give up | the box, one socket on port 69 |
| `download` (293-359) | block number, bytes collected | open, ask for block n, stop by size or by a short block | `_exchange` |
| `upload`, `verify_remote` (394-446) | the program, block number | open, send blocks, close, read back and compare | `_exchange`, `download` |
| `list_dir`, `download_all`, single commands (200-274, 362-373) | entry index | one exchange each | `_exchange`, `download` |
| The box (external; simulated by `BoxSimulator` in tests/test_hardware_check.py) | files, the file open for reading, the upload and its name | one handler per opcode | the client |
| `SerialTransport` (transport.py 77-210) | `_port`, `_lock`, `_receiving`; the listener's `buf`, `percent`, `last_byte_at` | `send`, `drip_feed`, `listen`, `close` | the control, the panel |
| `serial_adapter` | none between calls | `drip_feed` loop, `_wrap_tape`, interactive send and receive | pyserial |
| `DncBoxTransport`, `FocasTransport` (219-299) | a cached FOCAS handle and its lock | `send`, `fetch`, `browse`, `close` | `dnc_tftp`, `focas_transfer` |
| Panel (dnc_web.py) | `_status`, the stop event, the queued file | send the queued program, store what is received, page | a transport, the log |
| Transfer log (transfer_log.py) | a CSV file and a lock | `record`, `tail` | the panel |
| FOCAS (focas*.py) | the library's handle | chunked send and receive, read-only telemetry | Fwlib32.dll |
| WebDAV bridge (dnc_webdav.py) | bytes of a file being written | list, get, put, delete | `dnc_tftp` |
| hardware_check.py | the findings of one run | a sequence of calls with a canary file | `dnc_tftp` |

What is hard about it: UDP loses, duplicates, delays and reorders; the box has no session,
so a late reply of one request can be the answer to another; a size that is a multiple of
512 has no short last block, and the box says nothing past the end; one serial port and one
lock are shared by a listener that polls, threads that send, and a shutdown; a program's
end on the serial line is guessed from `%` marks or silence. `PROJECT.json` lists the
hazards one by one, each at its line.

What makes each part correct: a download returns the file or nothing; an upload leaves the
old program or the new one; a verified upload is on the box; the listener hands over each
punched program whole and once; nobody writes on the wire while a program arrives; the
operator's requests end.

## Modules

| Module | Models | Notes |
|---|---|---|
| `DncExchange` | `_exchange` and UDP | two sets of datagrams; operators the callers' actions conjoin |
| `DncBox` | the box | one `Handle...` per opcode; what is unknown of the firmware is a rigid record |
| `ProgramPull` | what a download promises | abstract: all in one step, or an error and nothing |
| `DncDownload` | `download()` | extends the two above; implements `ProgramPull` |
| `DncDownloadProofs` | | the theorems about `DncDownload` |
| `DncUpload` | `upload()`, `verify_remote()` | extends `DncDownload`: the read-back is its actions |
| `DncUploadProofs` | | the theorems about `DncUpload`; uses those about `DncDownload` |
| `DncFetchAll` | `list_dir()`, `download_all()`, the box's directory handlers | extends `DncDownload`: its calls follow each other on one local port |
| `DncFetchAllProofs` | | the theorems about `DncFetchAll`; uses those about `DncDownload` |
| `Bytes` | a text without one of its bytes: the line ends a firmware drops | one recursive function |
| `FileStore` | what the calls promise clients that share a box | abstract: each call in one step, for its own name |
| `BoxJobs` | the calls of several clients of one box, exchange by exchange | coarser than `DncDownload`; the box's open files and buffer are shared; an exchange may return on a late datagram |
| `WebDavBridge` | dnc_webdav.py: requests, threads, lookups, the write buffer | extends `BoxJobs` |
| `HardwareCheck` | hardware_check.py: the checks in order, their findings | extends `WebDavBridge`: script and bridge on one box; implements `FileStore` |
| `HardwareCheckProofs` | | the theorems about `HardwareCheck`, `WebDavBridge` and `BoxJobs` |
| `TransferLog` | transfer_log.py: `record`, `tail`, a write cut short | pieces of text on lines |
| `Panel` | dnc_web.py: the queued send, the listener's callback and loop | extends `TransferLog` |
| `PanelProofs` | | the theorems about `Panel` and `TransferLog` |
| `NaturalLemmas` | | the least number of a set, and by it what dropping a byte makes of a text and of a text with a byte more |
| `SerialTransport` | `SerialTransport`, its listener thread, the drip-feed loop, `main()`'s shutdown | independent of the others |
| `SerialTransportProofs` | | the theorems about `SerialTransport` |
| `TapeWrap` | `_wrap_tape` and the wrapping in `focas_transfer.send` | operators on texts; extends `Bytes` for the words of one |
| `ProgramCalls` | what `send()` and `fetch()` promise threads that share a control | abstract: one call at a time, done whole or not |
| `FocasTransfer` | `FocasTransport`, `focas.connect`, `receive`, `send` | extends `TapeWrap`; the control is external; implements `ProgramCalls` |
| `FocasTransferProofs` | theorems about it | extends `FocasTransfer` |
| `MC...` | | the instances TLC checks |

### The exchange and the network

`toBox` and `toClient` are sets of datagrams on the wire or in the socket buffer. Delivering
one may leave it there (a duplicate), any may be taken next (delay, reordering), any may be
lost. `attempt` counts passes of the `for` loop of `_exchange`. Time is abstracted: the
deadline of a pass can expire at any moment, so each behaviour of the real clock is one of
the model's. Accepting a reply and sending the next request is one step, since the client
does nothing else in between and does not look at the socket. `disturbed` and `silent` are
history variables for one property: whether an attempt ran out although nothing was lost and
nothing was under way.

`Begin`, `Take`, `Resend`, `GiveUp` and `Discard` are the client's half of the loop. An
exchange with `accept=None` (the two opens of a directory or file, the close) takes any
datagram, as the code does.

### The box

`firmware` is chosen at the start and never changes: whether a block past the end is
answered (`quiet`), whether the ACK of an open is numbered (`echo`), whether a repeated block
is ignored or appended (`dedup`), and whether carriage returns are dropped (`strips`). The
comments of `dnc_tftp.py` and the two switches of `BoxSimulator` name these; every other
step is `BoxSimulator`'s. Two places go beyond it: a request with no open file gets no
answer, and a second close with no upload open changes nothing, where the simulator would
raise inside the test.

### download()

`AcceptOpen`, `AcceptBlock` and `AcceptLastBlock` are the returns of `_exchange` at lines 311
and 315, split by whether the block was the last; `DiscardReply`, `ResendRequest` and
`TimeOut` are the rest of the loop. `Init` allows any file to be open on the box from before,
and a name that is not there.

### upload() and verify_remote()

Phases `creating`, `sending`, `closing` are the three kinds of exchange; then `AcceptClose`
starts the read-back (verify) or `AcceptCloseUnverified` ends the call. The read-back is
`download()` of the same module with `expected_size=len(expected) or None`. Requests reach
the box in the order they were first sent (each may be lost, repeated or delayed, replies in
any order): without that a late WRQ could erase an upload, which no client of this protocol
can prevent.

### list_dir() and download_all()

Every call opens a socket of its own, but all of them bind local port 69 and no packet says
which call it belongs to. So `DncFetchAll` is one session over the network of `DncExchange`
with nothing cleared between two calls: a request or reply that is still on the wire when a
call ends is there for the next one. What a closed socket had buffered is dropped, which
`FetchLose` may do. `AcceptOpenDir` takes any datagram (`accept=None`), `AcceptEntry` any
directory entry whatever its index (line 260), `AcceptEnd` the terminator; `OpenNext` begins
the next `download()` or ends the loop, and `DownloadStep` is the block loop of `DncDownload`
as it is. A terminator that never comes is a box whose `directory.marked` is false: the
exchange times out, and that leaves `download_all` as an error. The 2000 entries after which
`list_dir` raises are `MaxEntries`. `todo` holds the places in the listing still to be
downloaded, the next one being the first of them.

`stale` is a history variable: a call began while packets of an earlier one were on the wire
(for the next entry of a listing: a directory request or an entry). It is what the proviso of
`FetchIntegrity` is about, and `fetch_stale` shows that it is needed.

### Several clients of one box: BoxJobs, WebDavBridge, HardwareCheck

Threads of the bridge, the acceptance script and the panel are clients of a box that has one
file open for reading, one for writing and one buffer. `BoxJobs` keeps for each client the
call it is in, one step per exchange. An exchange ends in one of five ways. The box handles the
request and the exchange returns or raises (both ends of each action); it does not, and the
exchange raises (`Unheard`), or returns all the same, on a late datagram of an earlier call
(`LateReply`); or it handles the request twice. `LateReply` follows `accept`: an open for
reading, a close and a delete take any datagram (311, 417, 221), the open of an upload and a block
any ACK that is not numbered otherwise, and a read gets any blocks of the numbers it asked for
(`Late` says which bytes they may add up to). A block that is handled twice is appended twice by a
box that does not ignore repeats (`SendBlockTwice`), and a delete that is handled again may take
away what another client has written meanwhile (`DeleteFile` may stay where it is); any other
request changes nothing the second time. `slips` is the history of this: the kinds of exchanges
that returned on a late datagram, and `"twice"`; each job has its own. The properties name the
slips they except, and no others.

A resent close that finds another client's upload open is left out: two uploads have met then. So
is a request that the box hears only after its exchange has ended. The block loop of a read is one
step, `ReadFile`: between two blocks another client's open could change the file, and that case is
recorded instead (`mixed`, `crossed`: another client was in the middle of the same half of the box,
or at work on the same file). The properties say what holds for jobs that did not meet another. A
listing may lack a file, since a late entry is taken for the one asked for (`Listings`); that a
late entry brings back a file that has gone, or an old size, is left out.

`WebDavBridge` has a thread per request: the lookup (a listing; the name is missing, or the
box does not end its listings, and the answer is 404), then `GET` downloads without a size
(dnc_webdav.py 79), `PUT` receives into a buffer and uploads in `end_write` only if the body
came whole, `DELETE` deletes. Each ends in an answer, and nothing is kept.

`HardwareCheck` is the script, check by check, in its order: `check()` makes a `FAIL` of what
a check raises and goes on, `main()` stops where it looks at an outcome (an unreachable box,
the guard of the canary, the operator's no). Its `Init` allows any content under the canary's
name; the instance has a file of that name on some boxes.

### Panel and TransferLog

A web thread's send is three steps, since the file may be replaced between them, and four with
FOCAS: the `os.path.exists` of the page (`Press`); the transport reading the file and handing it
over (`Send`); the size of whatever is in the queue after a FOCAS send (`GetSize`,
transport.py 285), which may be another program's or missing; and the log (`RecordSend`). `Send` has
three ends: the file is handed over and the call returns; nothing is handed over and it raises; or
it is handed over and the call raises all the same, because the flush, the close or the read-back
failed (`HandOver`). "Handed over" is what this process can know: the wire has it, the box has
acknowledged it, the control has taken its chunks; what the device makes of it is the subject of
the transports' modules. `transport` is chosen at the start, and only the serial one listens. A row
of the log is what `record()` is given: the fixed name, so nothing but the number of bytes tells
one sent program from another; for a received one the second in its name. `Size` gives each program
its bytes as the transport counts them (a serial send counts the wrapper).

The listener's thread saves a program under the second of its clock (`Save`, which may raise with
the file truncated or not opened), records it, and after an exception records an error and waits
(`RecordError`, `ListenAgain`). `Replace` is the planning department, `Tick` the clock, `Crash` a
power cut: threads are gone, files and log stay, and the clock may be back where it was. The page's
two tiles (`_status`) show the last send and the last reception, and are left out.

The log file is a sequence of lines and a line the pieces of text on it. A record is one
piece; `CutRow` lets any beginning of it reach the disk (a whole piece without its line end,
half a piece, the header alone, nothing, or a piece that ends inside a quoted field), and the
next record goes on after it on the same line. `record()` swallows its exceptions, so its
callers go on in either case. A detail is quoted or not. `record()` flattens only `\n`,
and `splitlines()` in `tail()` cuts at `\r` and other separators too, which a detail may contain:
that is abstracted, a whole record is one line here. `Parse` is what `csv.reader` makes of a line, and `LogTail` is
`tail()`.

### SerialTransport

One action per step between two places where another thread can run: taking the lock, the
read with everything done before the lock is released, the two halves of the recovery, the
hand-over outside the lock, and for senders asking, being refused, entering, each chunk, the
end. Within the lock a read is one step: nobody else touches the port. The machine punches
`Programs` programs byte by byte, into a receive buffer that overflows at `RxCap` or is lost
when no port is open. `last_byte_at` is abstracted to the choice `quiet`: six seconds of
silence may have passed whenever a read returns nothing and something is collected.
`lossy` and `glued` are history variables that record what no receiver could repair (bytes
lost, a stall inside a program, a failed hand-over) and what this receiver does not separate
(a program that begins before the end of the last was read).

The lock is not modelled as reentrant, although it is an `RLock`: no thread takes it twice.

### FocasTransfer

Under the lock nobody else can use the handle, so connecting, opening the file and starting
the transfer are one step (`EnterSend`, `EnterFetch`, or `EnterFails` at any of the three);
each chunk is a step, since the control may drop the session between two of them; and what is
done after the lock is released (`GetSize`, `Move`) is a step of its own. A call answered
`EW_BUFFER` is made again with nothing changed: a stuttering step. The control gives a fetch
chunks of any length up to the buffer, and any other code once there is nothing more; it takes
each chunk of a send whole, since `send()` does not look at the length it gets back. What a
control keeps of a send that failed is left open. The code of `cnc_dwnend4` is not looked at
(focas_transfer.py 110): `DownloadEnds` has the control keep what it was given, or fail, and then
keep it or drop it, and the send returns either way.

`receive()` opens `programs/<number>.nc`, which empties it, and then writes it, under the lock;
`fetch()` moves that file and asks for its size after the lock is released (transport.py 291-293).
So `OpenSpool` leaves any beginning of what was collected for others to see, `WriteSpool` all of
it, `SaveFails` what was written so far, and another fetch's `Move` of the same number may come
before, between or after. FOCAS needs Windows, where a file that is open cannot be moved: `Move`
then raises; that it moves the file as it is, as elsewhere, is the other alternative, and a fetch
whose `dest_path` is that very path moves nothing and may find it in part. All white space is one
byte.

## Runs

| Run | Instance | Shows |
|---|---|---|
| `download` | 2 names, contents of 0 to 4 bytes, blocks of 2, `expected_size` None and 0..5, 2 attempts, both ends of file; 296,136 states | see below |
| `upload` | 2 names, programs of 0, 2 and 3 bytes, an old program that is none or goes on after a new one, 9 firmwares, 2 replies in flight, 5 bytes received; 793,184 states | see below |
| `fetch_all` | 3 directories of up to 3 entries with a folder, files of 0 to 2 blocks, 2 attempts, 2 datagrams under way in each direction, boxes that end their listings or do not; 1,268,208 states | see below |
| `fetch_stale` | the same | **violation**: a late reply of one download becomes a block of the next file |
| `hardware_check` | the script beside a bridge of 2 threads with one request, and the bridge alone with 3; 5 firmwares, late replies of 8 kinds, blocks appended twice; 2,013,240 states, one of each two that differ in which thread is which | see below |
| `bridge_get` | the same | **violation**: a GET runs into the silence past the end of a file |
| `panel` | 2 web threads, 2 queued programs, 2 received ones, 2 sizes, 2 seconds, 3 sends and receptions together, one write cut or crash, each of the three transports; 1,237,968 states | see below |
| `log_torn` | the same | **violation**: after a cut inside quotes, whole records are not on the page |
| `serial` | 2 programs of one byte, a sender, a drip-feed, one failure, the shutdown, with fairness; about 790,000 states | safety, and every program is handed over |
| `serial_glued` | reads of 5 bytes, longer than a program | **violation**: two programs handed over as one |
| `focas` | one send, two fetches of one program, chunks of 2 and up to 3 bytes, three texts, one failure, one replacement; 240,389 states | safety and liveness |
| `focas_partial` | the same | **violation**: a part of a program is returned as a success |

Properties of `download`:

- `DownloadIntegrity`: what is returned and written is exactly what is owed (the file, cut at
  `expected_size`), only on success.
- `NeverReadsPastEnd`: no request beyond the block that shows the end of the file.
- `TimeoutMeansTrouble`: a client that gives up on an existing file although one of its
  attempts ran out with nothing lost or in flight did so at the one end of file the docstring
  warns about. The size and the short-block test together are what makes it so.
- `ImplementsPull`: refinement of `ProgramPull`.
- `Terminates`: with only the client's clock fair, the call ends.

Properties of `upload`: `BoxKeepsWholePrograms` (the name holds the old or the whole new
program on a firmware that numbers its ACKs and ignores repeats) and `VerifiedMeansStored`
(`upload(verify=True)` returned, so the file is on the box) for every firmware, provided the
box read back the right file and what the read-back does not look at cannot differ: the last
block is not full, or the box ignores repeats and its old program is not the new one with more
behind it. The first proviso is needed because the open is exchanged with `accept=None`; the
second because the read-back stops after `len(expected)` bytes.

Properties of `fetch_all`:

- `ListingOnlyRepeats`: whatever is late, an accepted entry is an entry of the directory at or
  before the place it is put, and a listing that returns has asked past the last entry; so no
  program is hidden by a late terminator or by silence. It may hold an entry twice.
- `FetchIntegrity`: unless a call began with packets of an earlier one on the wire, every file
  saved is the box's file of that name, also when `download_all` raises in the middle, and
  when it returns none is missing.
- `FetchEnds`: it returns or raises.

Properties of `hardware_check`:

- `BridgeTellsTruth`: of a call that no other client met: a `GET` is the file and a `DELETE` left
  nothing, if none of its exchanges returned on a late datagram; and a verified `PUT` is on the
  box byte for byte, on the same condition, or if its last block is short and its read-back alone
  was answered by the box: then it may have lost any ACK, block or close, or had blocks appended
  twice, and the read-back has seen it. With a full last block it would not see what follows.
- `BoxHoldsWholePrograms`: whoever broke off or failed, and whatever closed on a late datagram, no
  file on the box is a part of a program, as long as no two clients met, no block was appended
  twice and no upload took a late ACK for that of its open or of a block. `DncUpload` shows the
  same of the firmwares that number their ACKs and ignore repeats, where these cannot happen.
- `NeverOverwrites`: the script changes nothing but the canary, and only after a listing that
  showed the name to be free; unless clients met, or an open for upload that went unheard left
  another file open for writing.
- `ReportIsTrue`: a passed check means that the firmware is as it says (Q1, Q2, the boundary
  of Q3), and a passed clean-up that the canary is gone, though its delete was never heard: the
  listing is what shows it. Q1 and Q3 need that no upload or read of anybody was answered by a
  late datagram and no block was appended twice; the clean-up, that no entry of a listing was lost
  and no open for upload went unheard.
- `ScriptGoesOn`: whatever raises, there is a next step until the report.
- `ImplementsStore`: refinement of `FileStore`. Until two calls have met, an exchange returned on
  a late datagram or a block was appended twice (`adrift`), the file changes in one
  step of the call that was asked to change it, under the name it asked for, and once (a delete
  until it is answered); a call that returns has been carried out, and a read gets the file, or as
  much of it as was asked for. Nothing that fails or breaks off shows in between: an upload that
  made room first, say, would.

Properties of `panel`:

- `LogTellsWhatWasSent`: the log says "sent" no more often than a program was handed over, and
  but for FOCAS no more often for a size than a program of that size was, although the queue
  changes and two threads send. With no cut or crash none is missing either: each program handed
  over is in the log as sent, or its send raised after that and is in the log as an error.
- `ReceivedIsKept`: for a program the log says was received there is a file of the name and of
  the size it gives, unless two programs got the same second (`clash`: the second one overwrites
  the first).
- `TailIsNewest`: until a write is cut, the page shows the newest records, newest first.
- `CutCostsTwo`: a cut costs its own record and at most the one glued to it.
- `ListenerSurvives`: whatever a reception raises, the listener listens again.

Properties of `serial`: `EveryProgramArrives` (every program punched to its end is handed
over, whoever sends meanwhile), `ReceivingMirrorsBuffer` (the busy mark and the `%` count agree with
what the listener holds, except between the two halves of its recovery),
`NeverSendsIntoAProgram`, `PortOpenedOnce`, `TimeoutFollowsDrip`, and `DeliversWholePrograms`
(what is handed over is a punched program, whole, in order and once).

Properties of `focas`: `HandleAccounted` (no handle of the library is lost or freed twice,
whoever connects and fails), `EndsWhatItStarts` (the control is in a transfer exactly while a
call is in its loop), `FetchIntegrity` (what a fetch returns is a beginning of the program,
and all of it unless a call failed, a chunk ended at an inner `%`, or another fetch was writing
the same file at that moment), `SendDelivers` (what the control was given of a send that ended is
a tape with the words of the file as it was read, or the file was bare, nothing but white space
and at most one `%`; and the control has kept it whole unless something failed), `EveryCallEnds`,
and `ImplementsCalls` (refinement of `ProgramCalls`: the callers see one call at a time; a send
that returns has put the file it took when it got the line into the control whole or, its end
refused, not at all, and only one that raises may leave a part; connections, chunks, dropped
sessions and the control's transfers do not show).

### Bounds

- Two-byte blocks and files up to two blocks: the file length is below, at, and above every
  block boundary, with a first, a middle and a last block; the arithmetic uses the block size
  only through `Start` and `Chunk`, and the proofs hold for any.
- Two attempts: a first and a last; the code treats those between alike.
- `MaxReplies` and `MaxBuffer` bound an upload whose DATA may be repeated any number of
  times; two replies are enough for a duplicate to meet the next request's answer, five bytes
  for every block of the longest program and a repeat.
- `VIEW` of `upload` leaves out requests that were overtaken (they cannot be handled any
  more), two history variables no property of that run reads, and replies after the call has
  ended. `SYMMETRY`: the names, and the bridge's threads in `hardware_check`; no liveness is
  checked in either run.
- Programs of one byte between their marks: a program is its marks, one byte and a line end,
  and `ReadMax` is shorter than that, so reads cut it anywhere. Two programs: an end and a
  beginning.
- FOCAS chunks of two and up to three bytes of a program of four: a program is cut anywhere,
  inside a mark's white space too. Texts that lack the first mark, the last, or both.
- `MaxReplaced` 1: the queued file before and after.
- `MaxInFlight` 2 in each direction: the packet of the current exchange and one of an earlier
  one. `END_OF_DIR` 9 is above every index, as 0xFFFF is above 2000. `MaxEntries` 3: a
  directory of two entries ends within the bound, one of three does not. The bound does not
  hold up the client's clock.
- `MaxRequests` 3 bounds the requests and the kinds of slips together, and the script counts for
  two requests: two requests that meet and one that finds what they left, one request and any two
  kinds of slips, the script and one request, or the script and one kind of slip. The script, a
  request and a late reply at once are left to the proofs, which have no bound.
- `Late`: a late block is one of another file (the one that fills its block) or of an earlier
  version of the canary.
- `MaxTransfers` 3 and `MaxFaults` 1: three sends, or two and a reception, or one and two, and a
  cut or a crash at any record. Two seconds: the same name or another. Two sizes: the same size
  or another.
- `MaxFailures` 1: one failure of a read, a write, a hand-over or an open, at any moment.

Deadlock is not checked: a call that has ended, or a process that was stopped, does nothing
more.

### Fairness

`DncDownload` assumes only that the client's deadlines pass (`WF` of `Timer`): recvfrom has
a timeout and the loop does nothing else. The box and the wire owe nothing.
`SerialTransport` assumes that a thread that can move continuously does (`WF`), and that a
blocked write ends, as `write_timeout` makes it; the lock promises no order (no `SF`), since
`threading.RLock` documents none. The machine is not fair: it may stop punching at any time.
`FocasTransfer` assumes the same of its threads (each makes one call, so `WF` is enough to get
the lock), and that the control does not answer `EW_BUFFER` for ever: nothing in the code
bounds that loop. `DncFetchAll` assumes the client's clock and that a loop goes on after a
download (`ClientMoves`). `Panel` assumes that the listener's thread runs once it has a
program (`Handling`); nobody need press, punch or replace anything. `HardwareCheck` assumes
nothing: `ScriptGoesOn` is an invariant.

## Proofs

`DncDownloadProofs` proves about `DncDownload`, for all constants that satisfy the named
assumptions (a positive block size and number of attempts, contents that are sequences of
bytes, `NoFile` and `Absent` not among them):

- `TypeCorrect`: `Spec => []TypeOK`
- `Integrity`: `Spec => []DownloadIntegrity`
- `Bounded`: `Spec => []NeverReadsPastEnd`
- `Refinement`: `Spec => ImplementsPull`
- `TimeoutsAccuse`: `Spec => []TimeoutMeansTrouble`

`DownloadIntegrity` is not inductive: it says nothing of what the client holds while it
reads, or of the replies under way. The strengthening `IInv` adds that every DATA reply
under way is the block of that number of the right file (`RepliesFromFile`), which rests on
nothing being sent before this file was opened (`OpenedFirst`); that what is collected is the
file up to the block asked for (`CollectedPrefix`); and that an exchange runs exactly while
the call does (`ExchangeRuns`). The lemmas `StartFacts`, `ChunkFacts` and `PrefixFacts` are
the arithmetic of blocks. `Invariance` is the inductive argument, one step per action.
`TimeoutMeansTrouble` looks back from the timeout, so `QuietInv` looks ahead: while nothing has
been lost, the request, its answer or the silence past the end is under way (`Answered`), and
what has been asked for is below the size the caller gave (`BelowSize`); an attempt that runs
out on an idle wire then meets the end of a file (`SilentEnd`).

`DncUploadProofs` proves about `DncUpload`, for the same constants, any programs and any
firmwares (each with its own answers to the four questions):

- `UploadTypeCorrect`: `USpec => []UTypeOK`
- `WholePrograms`: `USpec => []BoxKeepsWholePrograms`
- `VerifiedPrograms`: `USpec => []VerifiedMeansStored`

The invariant `UInv` follows a request through the upload. Every packet on the wire is one of
the upload's requests and none comes after the one the client is at (`SentInOrder`); up to the
last block the name holds the old program and is being written, after the close it holds what
was received (`BoxInOrder`). A box that ignores repeats has a beginning of the program
(`BufferIsPrefix`); one that numbers its ACKs is at most one request behind the client
(`NothingSkipped`), which is why a close finds all of it there. Of the read-back, `ReadSoFar`
says that what came is a beginning of the one file the box has open and is either all of it or
whole blocks: the second case is what the proviso of `VerifiedMeansStored` is about. The
proof needed that proviso stronger than the runs had shown: with an old program that begins
like the new one, a lost close and a duplicated ACK taken for its answer, the read-back
compares the old program's beginning and passes. The instance now has such a program.
`WithoutFacts` is about a recursive function over a text; it exists, and keeps what it keeps,
by the least number for which it would not (`LeastElement`, also of `NaturalLemmas`).

`SerialTransportProofs` proves about `SerialTransport`, for any number of sending and
drip-feeding threads, any program sizes, read size and buffer, and any number of failures:

- `TypeCorrect`: `Spec => []TypeOK` (the lock is held by exactly the thread that reads or writes)
- `BusyMark`: `Spec => []ReceivingMirrorsBuffer`
- `NoCollision`: `Spec => []NeverSendsIntoAProgram`
- `TimeoutRestored`: `Spec => []TimeoutFollowsDrip`
- `OneOpening`: `Spec => []PortOpenedOnce`
- `EachProgramWhole`: `Spec => []DeliversWholePrograms`

None of the last five is inductive alone. `NeverSendsIntoAProgram` holds because a sender
enters only while `receiving` is false, and `receiving` says what the listener holds only
outside its recovery (`BetweenPrograms`: nothing is collected while a program is handed over,
the line is not busy while the recovery is between its two halves). `TimeoutFollowsDrip` needs
the timeout a drip-feed saved never to be that of another drip-feed (`SavedIsNormal`), and
`PortOpenedOnce` counts openings against what is open (`OpensCounted`). That `percent` is the
number of `%` in the buffer after every read is the lemma `MarksAdd`: the count of a
concatenation is the sum of the counts, by a bijection between the marks of the second part
and their shifted places. `FromPercentType` finds the first `%` by well-founded induction.

`DeliversWholePrograms` says that what was handed over is the first programs punched, whole and
in order, unless bytes were lost or two programs met in one read. `DInv` says where every byte
is until then. While nothing is `lossy` or `glued`, what is on the wire and in the receive
buffer is a stretch of what the machine has punched, up to its last byte; what the listener
holds is the stretch before that, from the end of the last program it ended, without the noise
before the first `%` (`CollectedSoFar`); and once a `%` is unread, all that is unread behind it
is of the same program (`OneProgramAhead`). The marks in a stretch are
counted from its places (`StretchMarks`): two of them are a program's two ends, so the listener
ends where the machine did, and after one `%` with nothing unread the machine is inside a
program, where the stall that would let the silence rule end it is what `lossy` records.
`WholeStretch` says that the stretch of a program, noise dropped, is the program.

`DncFetchAllProofs` proves about `DncFetchAll`, for any directories, folders, files, block size,
number of attempts and bounds:

- `ListingIsHonest`: `FetchSpec => []ListingOnlyRepeats`
- `FetchIsFaithful`: `FetchSpec => []FetchIntegrity`

`ListingOnlyRepeats` says nothing of the wire; `ListingInv` adds that the client has never
asked beyond the first index it does not have (`AsksInOrder`), so that an entry under way is
one it has asked for and a terminator is under way only once it has asked past the end
(`AnswersInOrder`). This needs nothing about which call a packet belongs to.
`FetchIsFaithful` does: `FetchInv` says that, while `stale` is false, a listing has on the wire
only its own exchange (`ListingWire`), a download is a behaviour of `DncDownload`
(`FileUnderWay`: its inductive invariant `IInv` holds), and each file of the listing is saved
or still to do (`SavedSoFar`). A call that begins on an empty wire satisfies `IInv`
(`FreshCallIInv`), and from then on the lemmas of `DncDownloadProofs` keep it; when the call
returns, `DownloadIntegrity` and the size of the listing make what it returned the file.

`FocasTransferProofs` proves about `FocasTransfer`, for any number of sends and fetches, any
programs and texts over any bytes, chunk sizes, failures and replacements:

- `TypeCorrect`: `Spec => []TypeOK` (the lock is held by exactly the call that is in its loop)
- `OneHandle`: `Spec => []HandleAccounted`
- `TransfersEnd`: `Spec => []EndsWhatItStarts`
- `FetchedPrograms`: `Spec => []FetchIntegrity`
- `SentPrograms`: `Spec => SendDelivers`
- `CallRefinement`: `Spec => ImplementsCalls`

The lock gives the first part: with `TypeOK`, at most one call is in a loop, so what one action
ends is what was open. `FetchIntegrity` speaks of what was returned and needs what was held
before: the running fetch has collected the program up to what the control has given, and what
lies in the spool is already a beginning of its program, whole unless there is a reason
(`FetchedSoFar`), or is being written by the one fetch that is at `saving`, which is why a fetch
may move the file another fetch of the same number wrote. A control that has forgotten an open handle counts as a failure (`LostByFailure`), or a
call that fails for that reason would have none. `AnswerContinues` and `BeginningFacts` are the
arithmetic of chunks, `EndsTapeConcat` says that a text that ends with a mark still does behind
what was collected, and `LastExists` finds the last solid byte that `rstrip` keeps, by
well-founded induction. `SendDelivers` rests on the same exclusion: what the control has of the
running send is the wrapped text up to `at` (`SentSoFar`), whatever happens to the queued file
meanwhile, so a send that ends has given all of it. That a wrapped text is a tape is
`WrappedIsTape`; that it has the words of the file is `WrappedWords`, from what one more byte
does to the words of a text (`WordsAppend`), in front of it, behind it and for the white space
`rstrip` drops.

`CallRefinement` maps the lock to the line, the text of the call that holds it to what was given,
and of where a call is only how it left the lock and ended. Then most steps do not show (`HiddenStep`), and one
lemma for each of the others gives the step of `ProgramCalls` it is (`BeginsCall` ...
`ReturnsCall`). Getting the line and the file are one step because `EnterSend` reads the file under
the lock; opening `programs/<number>.nc` and writing it are steps that show (`FillsFile`,
`GetsProgram`), since another fetch may take it as it is. That a send which returns has put in all
of the file it was given, or its end was refused, and one that fails a beginning of it, is
`SentSoFar`; that what a fetch leaves in the spool is a beginning of its program is `FetchedSoFar`;
`OutcomeMoves` is the book-keeping of the mapping.

`HardwareCheckProofs` proves about `HardwareCheck`, for any number of bridge threads and requests,
any names, bodies and contents over any bytes, any block size and any firmwares. It assumes of the
script's two texts what they are made for: each has a byte that `Normalised` drops, the first does
not fill its last block and the second is one block (`BodyAssumption`, hardware_check.py 244-274).
The canary is not one of the names the bridge's users share (`CanaryAssumption`).

- `HardwareTypeCorrect`: `Spec => []TypeOK`
- `OnlyWholePrograms`: `Spec => []BoxHoldsWholePrograms`
- `BridgeTruth`: `Spec => BridgeTellsTruth`
- `ReportTruth`: `Spec => []ReportIsTrue`
- `OverwritesNothing`: `Spec => NeverOverwrites`
- `StoreRefinement`: `Spec => ImplementsStore`

All but the first speak of what a call is told when it ends, or of the box; none says what a call
in the middle has of the box. The invariant `IInv` does, in the layers of the modules.
`JobsInv` is about `BoxJobs`: an exchange is one of its call (`JobInOrder`); a job that met no
other has the box's buffer, or the open file, to itself, and unless it slipped on the way there the
file open is its own and the buffer is its program as far as it was sent (`HasTheBox`, which asks
of each only the slips that can spoil it: `BuffersIts`, `ReadsIts`); one that reads back without a
slip has on the box what it stored (`ReadsWhatItStored`). `SendGoes` and its like say where an exchange takes its
job, heard, unheard or late (`LateReplyMeans`), so that each exchange is one lemma that keeps this
for its own job and for every other (`OpenWriteKeeps` ... `DeleteFileKeeps`, `OthersKept`), and
from it follow what an exchange changes on the box and what is true when a call ends well
(`ExchangeWrites`, `OutcomeFacts`). That a verified upload with a short last block needs nothing
but an honest read-back is `WholeOrMore`: what was read is the body, and if the file went on
behind it, what was read would fill its last block or be longer.
`ThreadsInv` is about `WebDavBridge`: a thread has a job exactly while it works on a request, and
the job is the request's. `ScriptInv` is about the script: at each check it has the job of that
check (`ScriptJob`), past the guard the listing was there and without the canary (`Guarded`),
and the canary holds what was last uploaded, and what was read is that (`CanaryHolds`), so that a
comparison says something of the firmware, until an upload or a read slips. The threads cannot disturb this because the canary's
name is not theirs (`ThreadSparesCanary`). `ReportTruth`, for one, is then a case per check.

`StoreRefinement` is proved for the exchanges, not for the script and the bridge: all either does
besides is to ask for a call when it has none under way (`AskingStep`), which each thread's step
and each check is shown to do (`CheckAsks`). Of an exchange after which nothing is `adrift`,
`NoneMet` and `NoSlip` give that its job has the box to itself and that it is a plain exchange,
heard or failed. Then an opening or a block does not show
(`OpeningStep`), because the buffer and the open files are not in `FileStore`; a close is the step
that stores (`StoringStep`), because the buffer is the whole program under its own name; the blocks
of a read are the step that reads, or that confirms an upload, because the file open is the one
asked for (`ReadingStep`); and an exchange that raises is a failure with nothing done
(`BreaksOff`), or the step itself with that end. `FileStore` has `adrift` too: once two calls have
met or one has slipped it promises nothing, and nothing need be shown.

The proofs corrected the model twice. `HasTheBox` needs `mixed` or `crossed` to record every client a
step gets in the way of. A close stores the file that is open, and after two uploads have met that
may be a third client's, not the closing one's own; the history variable recorded only those at
work on the latter (`AtWork` now has both names). It takes three
threads and two names, which the instance of `hardware_check` does not have. And to say that a call
is carried out once is to ask what a resend does: a delete that was handled and not answered is
sent again (dnc_tftp.py 169-180) and then takes away what another client wrote under the name in
between, so `DeleteFile` may be repeated and `FileStore` lets it be.

`PanelProofs` proves about `Panel` and its log, for any finite set of web threads, any
programs and seconds, and any number of presses, cuts and crashes:

- `PanelTypeCorrect`: `Spec => []TypeOK`
- `LogTruth`: `Spec => []LogTellsWhatWasSent`
- `ReceivedFiles`: `Spec => []ReceivedIsKept`
- `PageTruth`: `Spec => []TailIsNewest`
- `CutsBounded`: `Spec => []CutCostsTwo`

They rest on what one record does to the file, cut or not (`LogTypes`, `LogGains`,
`OldOrNew`): a line is added, the unended line is spoilt, or only a header comes in, so the
rows that can be read are the old ones with at most the new row more, or some of the old ones.
`PInv` is the conjunction of what each property needs. For `LogTellsWhatWasSent` that is the
property itself (`Balance`), whose terms count: what the log and the workers say of a size
(`Told`), who has handed a program over and not yet asked for the size (`Handed`), what was handed
over (`Deliveries`) and whose send raised after it (`unsaid`). Each step changes them by amounts
that keep it (`ToldRecord`, `ToldCrash`, `ToldEnd`, `DeliveriesAfter`, `HandedAfter`), and whether a
record goes in whole without a cut depends on the file's last line being ended, which `PlainLog`
says of a log that was never cut.
`ReceivedIsKept` needs that what the listener is about to record is in its file
(`ListenerKept`) and that a row of a received program names a second (`RowsTrue`), so that a name
taken twice shows as a `clash`. `CutCostsTwo` needs to know which of its two records a cut has
already cost: while the last line is not ended and can still be read, one more is owed
(`CutsCost`). `TailIsNewest` needs no invariant of its own: by `PlainLog` the file is the
header and a line for each record, `ParsedRows` says what `csv.reader` makes of such lines, for
any number of them, and `ReversedEnds` what is cut off the end and turned round.

Only model-checked: the liveness properties `Terminates`, `FetchEnds`, `EveryProgramArrives`,
`EveryCallEnds` and `ListenerSurvives` (fairness is out of TLAPS's reach), and that the acceptance
script never stops short (`ScriptGoesOn`, which is ENABLED). Every other property of a passing run
is a theorem.

## Where code and documents part

1. `fetch_stale`: a datagram of one download answers the open of the next, or is taken for a
   block of it (dnc_tftp.py 136, 311), although the docstring says that a late or duplicated
   datagram cannot be accepted in place of the current block.
2. `bridge_get`: the bridge's `GET` (dnc_webdav.py 79) and `DncBoxTransport.fetch`
   (transport.py 250) do not pass the size the listing gave, although the README says the
   ordinary paths do; on a firmware that is silent past the end of a file the call fails after
   every byte has arrived.
3. `log_torn`: after a write cut inside a quoted field, `tail()` reads whole records as part of
   it (transfer_log.py 86), although the comment says no entry can span lines.
4. `serial_glued`: one read that spans two programs hands them over as one (transport.py 184).
5. `focas_partial`: a FOCAS fetch that fails in the middle writes and returns what it has
   (focas_transfer.py 62), although the README says a partial program is never written.

Seen on the way, and not stated as properties of their own: the close of an upload takes any
datagram for its answer (dnc_tftp.py 417), so without `verify` a duplicated ACK lets `upload()`
return while the box has not stored anything, and `delete_file` (221) may return with the file
still there (both are `LateReply`, and what `BridgeTellsTruth` and `ImplementsStore` except); the read-back does not look past `len(expected)` bytes (432),
so that with such a close, an old program that is the new one with more behind it stays on the
box and passes `verify` (`VerifiedMeansStored` without its last condition fails);
an `RLock` gives no turn to a sender that waits while the listener polls (transport.py 170),
and no fairness a lock of this kind documents would change that; the panel says "verified" of a
send over any transport, also those that do not read back (dnc_web.py 86); with FOCAS it says, and
logs, the size of the file that is in the queue after the send (transport.py 285), which by then
may be another program's, and reports a send as failed when there is none; `send()` in
focas_transfer.py ignores the code of `cnc_dwnend4` (110) and returns a length although the control
refused the end of the program; a queued file with nothing in it, or one `%`, goes to the machine
as a lone `%` (85-89, serial_adapter.py 84-87), because one mark is taken for the first and for the
last; and two fetches of one program write, move and measure one file outside the lock
(transport.py 291-293).

## Not modelled, and why

- The single commands `run`, `stop`, `message`, `newfolder`, `rename`: one exchange each with
  `accept=None`, and nothing that the other operations read but the names on the box.
- `DncBoxTransport` forwards to `upload`, `download` and `list_dir`; `build()` picks a class.
- A reply delivered to another process that shares local port 69: `DncFetchAll` has what
  follows within one process, and `BoxJobs` what sharing the box does.
- Requests overtaking each other in an upload (a WRQ or close that arrives late): no client of
  this protocol could tell.
- The blocks of two clients' reads alternating in one file (`BoxJobs` records that they met).
- `TAIL_BYTES`, the cut of the log that `tail()` reads: the first line of it may be half a
  record and is dropped by the slice in all but a log of very long lines.
- `serial_adapter`'s interactive commands, FOCAS probe and telemetry, the FOCAS menu:
  sequential, on a handle or port of their own, mostly formatting.
- The HTML page, its two tiles and its checks, configuration and deployment files.
- A detail in the log that holds `\r` or another separator at which `splitlines()` cuts: a whole row
  is one line in the model, where the code would read it as two.
- A request that the box hears only after its exchange has ended, in `BoxJobs`; and a late entry of
  a listing that brings back a file that is gone.

What could follow: the single commands as jobs of `BoxJobs`; `DncUpload` against the step of
`FileStore` that stores; a resend of the close that meets another client's upload.
