-------------------------------- MODULE BoxJobs --------------------------------
(***************************************************************************)
(* Several clients of one Micro DNC 2: the threads of the WebDAV bridge,   *)
(* the acceptance script, whatever else calls upload(), download() and     *)
(* delete_file() of dnc_tftp.py.  The box keeps one file open for reading, *)
(* one open for writing and one buffer, for all of them.                   *)
(*                                                                         *)
(* A job is one such call; its steps are its exchanges with the box.  The  *)
(* box handles the request of an exchange, and the exchange returns or     *)
(* raises; or it does not, and the exchange raises, or returns all the     *)
(* same, on a late datagram of an earlier call that accept() let through.  *)
(* A request sent again and handled again counts with a DATA block, which  *)
(* some boxes append twice, and with a delete, which may meet another      *)
(* client's upload.  For the others it changes nothing, unless another     *)
(* client has come between, and then the two have met.  The empty last     *)
(* block of an upload changes nothing either.                              *)
(***************************************************************************)
EXTENDS Bytes, Naturals, Sequences

CONSTANTS
    Clients,
    Names, NoName,  \* file names, and none
    Byte, CR,       \* bytes, and the one a normalising firmware drops
    BLOCK,          \* bytes per block
    Absent,         \* the content of a name not on the disk
    NoSize,         \* expected_size=None
    Firmwares,      \* [strips, quiet, marked, dedup]: drops CR; says nothing past
                    \* the end of a file; marks the end of a listing; does not
                    \* append a block it has already
    Late            \* bound of the model: what late blocks add up to

ASSUME BlockAssumption == BLOCK \in Nat \ {0}
ASSUME NameAssumption == NoName \notin Names
ASSUME FirmwareAssumption ==
    Firmwares \subseteq [strips : BOOLEAN, quiet : BOOLEAN, marked : BOOLEAN, dedup : BOOLEAN]
ASSUME LateAssumption == Late \subseteq Seq(Byte)

VARIABLES
    disk,       \* the files on the box
    reading,    \* the name open for download
    writing,    \* the name open for upload
    buffer,     \* the upload's bytes so far
    firmware,
    job,        \* what each client is doing
    mixed,      \* history: two clients' jobs got into each other's way
    slips       \* history: the kinds of exchanges that returned on a late datagram,
                \* and "twice" for a block that was appended twice

boxVars == <<disk, reading, writing, buffer, firmware>>
jobVars == <<boxVars, job, mixed, slips>>

NoJob == [at |-> "none", verb |-> "none", name |-> NoName, body |-> <<>>, sent |-> 0,
          size |-> NoSize, check |-> FALSE, got |-> <<>>, crossed |-> FALSE,
          slips |-> {}]

\* How a job ends: it returned, the wire failed, the box held its tongue at the
\* end of a file, or what came is not what was asked for.
Ends == {"ok", "failed", "silent", "wrong"}
Running(c) == job[c].at \in {"wrq", "data", "dl_open", "reqdata", "delete"}

Normalised(s) == Without(s, CR)
Stored(s) == IF firmware.strips THEN Normalised(s) ELSE s

-----------------------------------------------------------------------------
Upload(c, n, body, check) ==
    job' = [job EXCEPT ![c] = [NoJob EXCEPT !.at = "wrq", !.verb = "upload",
                !.name = n, !.body = body, !.check = check]]

Download(c, n, size) ==
    job' = [job EXCEPT ![c] = [NoJob EXCEPT !.at = "dl_open", !.verb = "download",
                !.name = n, !.size = size]]

Delete(c, n) ==
    job' = [job EXCEPT ![c] = [NoJob EXCEPT !.at = "delete", !.verb = "delete", !.name = n]]

\* The other clients in the middle of an upload, of a download, or at work on one of files.
Busy(c, where) == {d \in Clients \ {c} : job[d].at = where}
AtWork(c, files) == {d \in Clients \ {c} : Running(d) /\ job[d].name \in files}

\* c's job becomes j; it got mixed up with the clients in met, and changed the
\* file of those in hit.
Go(c, j, met, hit) ==
    /\ job' = [d \in Clients |->
                 IF d = c THEN [j EXCEPT !.crossed = @ \/ met # {}]
                          ELSE [job[d] EXCEPT !.crossed = @ \/ d \in met \cup hit]]
    /\ mixed' = (mixed \/ met # {})

At(c, where) == [job[c] EXCEPT !.at = where]

\* Nobody answered, and the box did not hear the request.
Unheard(c) == Go(c, At(c, "failed"), {}, {}) /\ UNCHANGED boxVars

\* Mutant: the old program is deleted to make room for the new one.
OpenWriteAfterDelete(c) ==
    /\ job[c].at = "wrq"
    /\ disk' = [disk EXCEPT ![job[c].name] = Absent]
    /\ writing' = job[c].name /\ buffer' = <<>>
    /\ \E where \in {"data", "failed"} : Go(c, At(c, where), Busy(c, "data"), {})
    /\ UNCHANGED <<reading, firmware>>

OpenWrite(c) ==
    /\ job[c].at = "wrq"
    /\ writing' = job[c].name /\ buffer' = <<>>
    /\ \E where \in {"data", "failed"} : Go(c, At(c, where), Busy(c, "data"), {})
    /\ UNCHANGED <<disk, reading, firmware>>

\* data[i:i + BLOCK], the last one shorter.
UpTo(j) == IF j.sent + BLOCK < Len(j.body) THEN j.sent + BLOCK ELSE Len(j.body)
Chunk(j) == SubSeq(j.body, j.sent + 1, UpTo(j))
Sent(j) == [j EXCEPT !.sent = UpTo(j)]

SendBlock(c) ==
    LET j == job[c] IN
    /\ j.at = "data" /\ j.sent < Len(j.body)
    /\ buffer' = IF firmware.dedup /\ Len(buffer) # j.sent THEN buffer ELSE buffer \o Chunk(j)
    /\ \E where \in {"data", "failed"} : Go(c, [Sent(j) EXCEPT !.at = where], {}, {})
    /\ UNCHANGED <<disk, reading, writing, firmware>>

\* The upload is over; with verify=True the read-back follows.
Closed(j) == [j EXCEPT !.at = IF j.check THEN "dl_open" ELSE "ok",
                       !.size = IF j.body = <<>> THEN NoSize ELSE Len(j.body)]

\* The box stores the upload.
CloseWrite(c) ==
    LET j == job[c] IN
    /\ j.at = "data" /\ j.sent = Len(j.body)
    /\ IF writing = NoName
       THEN UNCHANGED disk
       ELSE disk' = [disk EXCEPT ![writing] = Stored(buffer)]
    /\ writing' = NoName
    /\ \E k \in {Closed(j), At(c, "failed")} : Go(c, k, {}, AtWork(c, {j.name, writing}))
    /\ UNCHANGED <<reading, buffer, firmware>>

\* A name that is not on the disk is not answered.
OpenRead(c) ==
    /\ job[c].at = "dl_open"
    /\ disk[job[c].name] # Absent
    /\ reading' = job[c].name
    /\ \E where \in {"reqdata", "failed"} : Go(c, At(c, where), Busy(c, "reqdata"), {})
    /\ UNCHANGED <<disk, writing, buffer, firmware>>

\* What download() gets of a file f: whole blocks until the size is reached or
\* a block is short; past the last full block an empty one, or silence.
Whole(f, size) ==
    IF size # NoSize /\ Len(f) > size
    THEN LET blocks == (size + BLOCK - 1) \div BLOCK
         IN  SubSeq(f, 1, IF blocks * BLOCK < Len(f) THEN blocks * BLOCK ELSE Len(f))
    ELSE f
EndsInSilence(f, size) ==
    firmware.quiet /\ Len(f) % BLOCK = 0 /\ (size = NoSize \/ size > Len(f) \/ f = <<>>)

\* Mutant: the read-back compares text with its line ends normalised.
MatchesNormalised(got, body) == Normalised(got) = Normalised(body)

\* verify_remote: byte for byte.
Matches(got, body) == got = body

HasRead(j, got) ==
    [j EXCEPT !.got = got,
              !.at = IF \/ j.size # NoSize /\ Len(got) > j.size
                        \/ j.check /\ ~Matches(got, j.body) THEN "wrong" ELSE "ok"]

\* The blocks of whatever file is open, to the end.
ReadFile(c) ==
    LET j == job[c]
        f == disk[reading]
    IN  /\ j.at = "reqdata"
        /\ reading # NoName /\ f # Absent
        /\ Go(c, IF EndsInSilence(f, j.size) THEN At(c, "silent")
                 ELSE HasRead(j, Whole(f, j.size)), {}, {})
        /\ UNCHANGED boxVars

\* Not answered, the delete is sent again, whoever has written the name meanwhile.
DeleteFile(c) ==
    /\ job[c].at = "delete"
    /\ disk' = [disk EXCEPT ![job[c].name] = Absent]
    /\ \E where \in {"ok", "failed", "delete"} : Go(c, At(c, where), {}, AtWork(c, {job[c].name}))
    /\ UNCHANGED <<reading, writing, buffer, firmware>>

Slip(c, kind, j, met) ==
    /\ Go(c, [j EXCEPT !.slips = @ \cup {kind}], met, {})
    /\ slips' = slips \cup {kind}

\* Its ACK lost, a block is sent again and appended again; the bound: once more.
SendBlockTwice(c) ==
    LET j == job[c] IN
    /\ j.at = "data" /\ j.sent < Len(j.body)
    /\ ~firmware.dedup
    /\ buffer' = buffer \o Chunk(j) \o Chunk(j)
    /\ \E where \in {"data", "failed"} : Slip(c, "twice", [Sent(j) EXCEPT !.at = where], {})
    /\ UNCHANGED <<disk, reading, writing, firmware>>

\* An exchange returns on a late datagram, the box none the wiser: accept() looks
\* at the opcode, for DATA at the number of the block if the reply has one, and at
\* nothing when it is None: for open, close and delete.
LateReply(c) ==
    LET j == job[c] IN
    /\ \/ j.at = "wrq" /\ Slip(c, "wrq", At(c, "data"), Busy(c, "data"))
       \/ j.at = "data" /\ j.sent < Len(j.body) /\ Slip(c, "data", Sent(j), {})
       \/ j.at = "data" /\ j.sent = Len(j.body) /\ Slip(c, "close", Closed(j), {})
       \/ j.at = "dl_open" /\ Slip(c, "dl_open", At(c, "reqdata"), Busy(c, "reqdata"))
       \/ j.at = "reqdata" /\ \E got \in Late : Slip(c, "reqdata", HasRead(j, got), {})
       \/ j.at = "delete" /\ Slip(c, "delete", At(c, "ok"), {})
    /\ UNCHANGED boxVars

\* One exchange of c's job.
Exchange(c) ==
    \/ /\ \/ OpenWrite(c) \/ SendBlock(c) \/ CloseWrite(c)
          \/ OpenRead(c) \/ ReadFile(c) \/ DeleteFile(c)
          \/ Running(c) /\ Unheard(c)
       /\ UNCHANGED slips
    \/ SendBlockTwice(c) \/ LateReply(c)

\* list_dir: the sizes of the files on the box, where its end is marked.  Any entry
\* does for the one that was asked for: with a late one in its place it is missing.
\* (One that brings back a file that is gone, or an old size, is left out.)
Sizes == [n \in {m \in Names : disk[m] # Absent} |-> Len(disk[n])]
Listings == {[n \in names |-> Sizes[n]] : names \in SUBSET DOMAIN Sizes}
Listed(sizes) ==
    IF sizes = Sizes THEN UNCHANGED slips
    ELSE slips' = slips \cup {"listing"}
=============================================================================
