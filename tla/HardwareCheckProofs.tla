-------------------------- MODULE HardwareCheckProofs --------------------------
(***************************************************************************)
(* For any number of bridge threads and requests, any programs, block size *)
(* and firmwares, whatever late replies are taken for answers and whatever *)
(* blocks are appended twice: what the bridge answers and the script       *)
(* reports is true, the script writes over nothing, and the box holds      *)
(* whole programs, each with the provisos its property names.              *)
(***************************************************************************)
EXTENDS HardwareCheck, NaturalLemmas

-----------------------------------------------------------------------------
(* The invariant of the jobs: what the box holds for each of them.           *)

Kinds == {"wrq", "data", "twice", "close", "dl_open", "reqdata", "delete", "listing"}

JobRecord ==
    [at : Ends \cup {"none", "wrq", "data", "dl_open", "reqdata", "delete"},
     verb : {"none", "upload", "download", "delete"}, name : Names \cup {NoName},
     body : Seq(Byte), sent : Nat, size : Nat \cup {NoSize}, check : BOOLEAN,
     got : Seq(Byte), crossed : BOOLEAN, slips : SUBSET Kinds]

JobsTyped ==
    /\ disk \in [Names -> Seq(Byte) \cup {Absent}]
    /\ reading \in Names \cup {NoName} /\ writing \in Names \cup {NoName}
    /\ buffer \in Seq(Byte)
    /\ firmware \in Firmwares
    /\ job \in [Clients -> JobRecord]
    /\ mixed \in BOOLEAN /\ slips \in SUBSET Kinds

ReadingBack(c) == job[c].verb = "upload" /\ job[c].at \in {"dl_open", "reqdata"}

\* The exchange a job is at is one of its call.
JobInOrder(c) ==
    /\ Running(c) => job[c].name \in Names
    /\ job[c].at \in {"wrq", "data"} => job[c].verb = "upload" /\ job[c].sent <= Len(job[c].body)
    /\ job[c].at = "wrq" => job[c].sent = 0
    /\ job[c].at \in {"dl_open", "reqdata"} => job[c].verb \in {"upload", "download"}
    /\ ReadingBack(c) =>
          job[c].check /\ job[c].size = IF job[c].body = <<>> THEN NoSize ELSE Len(job[c].body)
    /\ job[c].at = "delete" => job[c].verb = "delete"
    /\ job[c].slips \subseteq slips

Alone(c) == ~mixed \/ ~job[c].crossed

\* With these an upload may store something else than its body.
Spoiling == {"wrq", "data", "twice"}

\* What the box holds for a job in the middle of an upload, or of a download.
BuffersIts(c) ==
    /\ "wrq" \notin job[c].slips => writing = job[c].name
    /\ job[c].slips \cap Spoiling = {} => buffer = SubSeq(job[c].body, 1, job[c].sent)
ReadsIts(c) == "dl_open" \notin job[c].slips => reading = job[c].name

\* The half of the box that a job no other has met is using is all its own.
HasTheBox(c) ==
    Alone(c) =>
        /\ job[c].at = "data" => BuffersIts(c) /\ \A d \in Clients \ {c} : job[d].at # "data"
        /\ job[c].at = "reqdata" => ReadsIts(c) /\ \A d \in Clients \ {c} : job[d].at # "reqdata"

\* What such a job reads back is what it stored.
ReadsWhatItStored(c) ==
    ReadingBack(c) /\ ~job[c].crossed /\ job[c].slips = {} =>
        disk[job[c].name] = Stored(job[c].body)

JobsInv ==
    /\ JobsTyped
    /\ \A c \in Clients : JobInOrder(c) /\ HasTheBox(c) /\ ReadsWhatItStored(c)

-----------------------------------------------------------------------------
(* The invariant of the threads of the bridge.                               *)

ThreadsTyped ==
    thread \in [Threads -> [at : {"idle", "lookup", "receiving", "working"},
                            verb : {"none", "GET", "PUT", "DELETE"}, name : Shared \cup {NoName}]]

\* A thread that has a request has a job for it once it works on it.
ThreadInOrder(t) ==
    /\ thread[t].at # "idle" => thread[t].name \in Shared /\ thread[t].verb # "none"
    /\ job[t].at # "none" <=> thread[t].at = "working"
    /\ job[t].at # "none" =>
          /\ job[t].name \in Shared
          /\ job[t].verb = "upload" => job[t].body \in Bodies
          /\ job[t].verb = "download" => job[t].size = NoSize

ThreadsInv == ThreadsTyped /\ \A t \in Threads : ThreadInOrder(t)

-----------------------------------------------------------------------------
(* The invariant of the script.                                              *)

ScriptTyped ==
    /\ at \in Checks \cup {"status", "info", "downloading", "writing?", "uploaded", "compare", "padded",
                           "measure", "deleted", "report"}
    /\ results \in [Checks -> {"-", "PASS", "FAIL", "SKIP"}]
    /\ entries # NoSize => DOMAIN entries \subseteq Names /\ entries \in [DOMAIN entries -> Nat]

ScriptHas(verb, body, size) ==
    /\ job[Script].at # "none"
    /\ job[Script].verb = verb /\ job[Script].name = CANARY
    /\ job[Script].body = body
    /\ verb # "upload" => job[Script].size = size
    /\ ~job[Script].check

\* The job of each check.
ScriptJob ==
    /\ at \in Checks \cup {"status", "info", "writing?", "report"} => job[Script].at = "none"
    /\ at = "downloading" => job[Script].verb = "download" /\ job[Script].at # "none"
                             /\ entries # NoSize /\ job[Script].name \in DOMAIN entries
    /\ at = "uploaded" => ScriptHas("upload", CANARY_BODY, NoSize)
    /\ at = "compare"  => ScriptHas("download", <<>>, Len(CANARY_BODY))
    /\ at = "padded"   => ScriptHas("upload", PAD, NoSize)
    /\ at = "measure"  => ScriptHas("download", <<>>, NoSize)
    /\ at = "deleted"  => ScriptHas("delete", <<>>, NoSize)

\* Past the guard the name was free in the listing.
Guarded ==
    at \in {"bytes", "uploaded", "compare", "boundary", "padded", "measure", "cleanup", "deleted"} =>
        CanaryIsFree

\* What the canary holds, and what was read of it.
CanaryHolds ==
    ~mixed /\ slips \subseteq {"delete", "listing"} =>
        /\ at = "compare" \/ (at = "uploaded" /\ job[Script].at = "ok") =>
              disk[CANARY] = Stored(CANARY_BODY)
        /\ at = "measure" \/ (at = "padded" /\ job[Script].at = "ok") =>
              disk[CANARY] = Stored(PAD)
        /\ at = "compare" /\ job[Script].at = "ok" =>
              Got = Whole(Stored(CANARY_BODY), Len(CANARY_BODY))
        /\ at = "measure" /\ job[Script].at = "ok" =>
              Got = Stored(PAD) /\ ~EndsInSilence(Stored(PAD), NoSize)

\* The clean-up is the last check.
CleanAtTheEnd == results["cleanup"] = "PASS" => at = "report"

ScriptInv == ScriptTyped /\ ScriptJob /\ Guarded /\ CanaryHolds /\ CleanAtTheEnd /\ ReportIsTrue

IInv == JobsInv /\ ThreadsInv /\ ScriptInv /\ BoxHoldsWholePrograms

-----------------------------------------------------------------------------
(* Texts.                                                                    *)

\* A beginning of a text.
LEMMA BeginningFacts ==
    ASSUME NEW s \in Seq(Byte), NEW k \in Int, k <= Len(s)
    PROVE  SubSeq(s, 1, k) \in Seq(Byte)
<1>1. Len(s) \in Nat
    BY LenProperties
<1>2. \A i \in 1..k : s[i] \in Byte
    <2>1. \A i \in 1..k : i \in 1..Len(s)
        BY <1>1
    <2> QED
        BY <2>1, ElementOfSeq
<1> QED
    BY <1>2, SubSeqProperties

\* A beginning and what follows it make a longer beginning.
LEMMA BeginningGrows ==
    ASSUME NEW s \in Seq(Byte), NEW a \in Nat, NEW b \in Nat, a <= b, b <= Len(s)
    PROVE  /\ SubSeq(s, a + 1, b) \in Seq(Byte)
           /\ SubSeq(s, 1, a) \o SubSeq(s, a + 1, b) = SubSeq(s, 1, b)
<1> DEFINE front == SubSeq(s, 1, a)
           next  == SubSeq(s, a + 1, b)
           both  == SubSeq(s, 1, b)
<1>1. \A i \in 1..Len(s) : s[i] \in Byte
    BY ElementOfSeq
<1>2. Len(s) \in Nat
    BY LenProperties
<1>3. \A i \in a + 1..b : s[i] \in Byte
    BY <1>1, <1>2
<1>4. \A i \in 1..b : s[i] \in Byte
    BY <1>1, <1>2
<1>5. \A i \in 1..a : s[i] \in Byte
    BY <1>1, <1>2
<1>6. /\ front \in Seq(Byte) /\ Len(front) = a
      /\ \A i \in 1..a : front[i] = s[i]
    BY <1>5, SubSeqProperties
<1>7. /\ next \in Seq(Byte) /\ Len(next) = b - a
      /\ \A i \in 1..b - a : next[i] = s[i + a]
    <2>1. a + 1 \in Int /\ b \in Int
        OBVIOUS
    <2>2. /\ next \in Seq(Byte) /\ Len(next) = IF a + 1 <= b THEN b - (a + 1) + 1 ELSE 0
          /\ \A i \in 1..b - (a + 1) + 1 : next[i] = s[a + 1 + i - 1]
        BY <1>3, <2>1, SubSeqProperties
    <2> HIDE DEF next
    <2> QED
        BY <2>2
<1>8. /\ both \in Seq(Byte) /\ Len(both) = b
      /\ \A i \in 1..b : both[i] = s[i]
    BY <1>4, SubSeqProperties
<1> HIDE DEF front, next, both
<1>9. /\ front \o next \in Seq(Byte) /\ Len(front \o next) = b
      /\ \A i \in 1..b : (front \o next)[i] = IF i <= a THEN front[i] ELSE next[i - a]
    <2>1. /\ front \o next \in Seq(Byte) /\ Len(front \o next) = Len(front) + Len(next)
          /\ \A i \in 1..Len(front) + Len(next) :
                (front \o next)[i] = IF i <= Len(front) THEN front[i] ELSE next[i - Len(front)]
        BY <1>6, <1>7, ConcatProperties
    <2>2. Len(front) + Len(next) = b
        BY <1>6, <1>7
    <2> QED
        BY <1>6, <2>1, <2>2
<1>10. \A i \in 1..b : (front \o next)[i] = both[i]
    <2> SUFFICES ASSUME NEW i \in 1..b PROVE (front \o next)[i] = both[i]
        OBVIOUS
    <2>1. CASE i <= a
        BY <1>6, <1>8, <1>9, <2>1
    <2>2. CASE ~(i <= a)
        <3>1. i - a \in 1..b - a /\ (i - a) + a = i
            BY <2>2
        <3> QED
            BY <1>7, <1>8, <1>9, <2>2, <3>1
    <2> QED
        BY <2>1, <2>2
<1>11. front \o next = both
    BY <1>8, <1>9, <1>10, SeqEqual
<1> QED
    BY <1>7, <1>11 DEF front, next, both

\* All of a text.
LEMMA WholeText ==
    ASSUME NEW s \in Seq(Byte)
    PROVE  SubSeq(s, 1, Len(s)) = s
<1>1. Len(s) \in Nat /\ \A i \in 1..Len(s) : s[i] \in Byte
    BY LenProperties, ElementOfSeq
<1>2. /\ SubSeq(s, 1, Len(s)) \in Seq(Byte) /\ Len(SubSeq(s, 1, Len(s))) = Len(s)
      /\ \A i \in 1..Len(s) : SubSeq(s, 1, Len(s))[i] = s[i]
    BY <1>1, SubSeqProperties
<1> QED
    BY <1>2, SeqEqual

\* What the firmware stores of a text is no longer, and if as long the text.
LEMMA StoredFacts ==
    ASSUME NEW s \in Seq(Byte)
    PROVE  /\ Stored(s) \in Seq(Byte) /\ Len(Stored(s)) <= Len(s)
           /\ Len(Stored(s)) = Len(s) => Stored(s) = s
           /\ Stored(s) \in {s, Normalised(s)}
           /\ firmware.strips => Stored(s) = Normalised(s)
<1>1. Len(s) \in Nat
    BY LenProperties
<1>2. /\ Normalised(s) \in Seq(Byte) /\ Len(Normalised(s)) <= Len(s)
      /\ Len(Normalised(s)) = Len(s) => Normalised(s) = s
    BY WithoutFacts DEF Normalised
<1> QED
    BY <1>1, <1>2 DEF Stored

\* What a download gets: all of a file if no size is known or the file is no longer.
LEMMA WholeFacts ==
    ASSUME NEW f \in Seq(Byte), NEW size \in Nat \cup {NoSize}
    PROVE  /\ Whole(f, size) \in Seq(Byte)
           /\ size = NoSize \/ Len(f) <= size => Whole(f, size) = f
<1>1. Len(f) \in Nat
    BY LenProperties
<1>2. CASE size = NoSize \/ Len(f) <= size
    BY <1>1, <1>2 DEF Whole
<1>3. CASE ~(size = NoSize \/ Len(f) <= size)
    <2> DEFINE blocks == (size + BLOCK - 1) \div BLOCK
               k == IF blocks * BLOCK < Len(f) THEN blocks * BLOCK ELSE Len(f)
    <2>1. Whole(f, size) = SubSeq(f, 1, k)
        <3>1. size # NoSize /\ Len(f) > size
            BY <1>1, <1>3
        <3> QED
            BY <3>1, Zenon DEF Whole
    <2>2. size + BLOCK - 1 \in Int /\ BLOCK \in Nat \ {0}
        BY <1>3, BlockAssumption
    <2>3. blocks \in Int
        BY <2>2
    <2>4. blocks * BLOCK \in Int
        <3> HIDE DEF blocks
        <3> QED
            BY <2>2, <2>3
    <2>5. k \in Int /\ k <= Len(f)
        <3> HIDE DEF blocks
        <3> QED
            BY <1>1, <2>4
    <2> QED
        BY <1>3, <2>1, <2>5, BeginningFacts
<1> QED
    BY <1>2, <1>3

-----------------------------------------------------------------------------
(* Jobs.                                                                     *)

\* The same call at the same exchange, whoever it met.
SameCall(i, j) ==
    /\ i.at = j.at /\ i.verb = j.verb /\ i.name = j.name /\ i.body = j.body
    /\ i.sent = j.sent /\ i.size = j.size /\ i.check = j.check /\ i.got = j.got
    /\ i.slips = j.slips

\* A job that another has met is still a job.
LEMMA CrossedJob ==
    ASSUME NEW j \in JobRecord, NEW x \in BOOLEAN,
           NEW i, i = [j EXCEPT !.crossed = @ \/ x]
    PROVE  i \in JobRecord /\ SameCall(i, j) /\ (i.crossed <=> j.crossed \/ x)
<1>1. j.crossed \in BOOLEAN
    BY DEF JobRecord
<1>2. (j.crossed \/ x) \in BOOLEAN
    OBVIOUS
<1>3. i = [j EXCEPT !.crossed = (j.crossed \/ x)]
    BY DEF JobRecord
<1>4. \A y \in BOOLEAN :
         LET k == [j EXCEPT !.crossed = y]
         IN  k \in JobRecord /\ SameCall(k, j) /\ k.crossed = y
    BY DEF JobRecord, SameCall
<1>5. i \in JobRecord /\ SameCall(i, j) /\ i.crossed = (j.crossed \/ x)
    BY <1>2, <1>3, <1>4, Zenon
<1> QED
    BY <1>5

\* What a step of c's job leaves of the others.
LEMMA GoFacts ==
    ASSUME job \in [Clients -> JobRecord], mixed \in BOOLEAN,
           NEW c \in Clients, NEW j \in JobRecord, NEW met, NEW hit, Go(c, j, met, hit)
    PROVE  /\ job' \in [Clients -> JobRecord] /\ mixed' \in BOOLEAN
           /\ mixed' <=> mixed \/ met # {}
           /\ SameCall(job'[c], j) /\ (job'[c].crossed <=> j.crossed \/ met # {})
           /\ \A d \in Clients \ {c} :
                 /\ SameCall(job'[d], job[d])
                 /\ job'[d].crossed <=> job[d].crossed \/ d \in met \cup hit
<1>1. job' = [d \in Clients |->
                IF d = c THEN [j EXCEPT !.crossed = @ \/ met # {}]
                         ELSE [job[d] EXCEPT !.crossed = @ \/ d \in met \cup hit]]
    BY DEF Go
<1>2. mixed' = (mixed \/ met # {})
    BY DEF Go
<1>3. job'[c] = [j EXCEPT !.crossed = @ \/ met # {}]
    BY <1>1
<1>4. /\ job'[c] \in JobRecord
      /\ SameCall(job'[c], j) /\ (job'[c].crossed <=> j.crossed \/ met # {})
    <2>1. (met # {}) \in BOOLEAN
        OBVIOUS
    <2> QED
        BY <1>3, <2>1, CrossedJob, Zenon
<1>5. ASSUME NEW d \in Clients \ {c}
      PROVE  /\ job'[d] \in JobRecord
             /\ SameCall(job'[d], job[d])
             /\ job'[d].crossed <=> job[d].crossed \/ d \in met \cup hit
    <2>1. job'[d] = [job[d] EXCEPT !.crossed = @ \/ d \in met \cup hit]
        BY <1>1
    <2>2. job[d] \in JobRecord
        OBVIOUS
    <2> QED
        <3>1. (d \in met \cup hit) \in BOOLEAN
            OBVIOUS
        <3> QED
            BY <2>1, <2>2, <3>1, CrossedJob, Zenon
<1>6. job' \in [Clients -> JobRecord]
    <2>1. \A d \in Clients : job'[d] \in JobRecord
        BY <1>4, <1>5
    <2>2. job' = [d \in Clients |-> job'[d]]
        BY <1>1
    <2> QED
        BY <2>1, <2>2
<1> QED
    BY <1>2, <1>4, <1>5, <1>6

\* What a step of c must leave alone for the others' jobs to stay in order.
LEMMA OthersKept ==
    ASSUME JobsInv, JobsTyped', firmware' = firmware,
           NEW c \in Clients, NEW j \in JobRecord, NEW met, NEW hit, Go(c, j, met, hit),
           NEW d \in Clients \ {c},
           slips \subseteq slips',
           job[d].at = "data" /\ d \notin met /\ Alone(d) =>
               writing' = writing /\ buffer' = buffer /\ j.at # "data",
           job[d].at = "reqdata" /\ d \notin met /\ Alone(d) =>
               reading' = reading /\ j.at # "reqdata",
           Running(d) /\ d \notin hit => disk'[job[d].name] = disk[job[d].name]
    PROVE  JobInOrder(d)' /\ HasTheBox(d)' /\ ReadsWhatItStored(d)'
<1>1. /\ job' \in [Clients -> JobRecord]
      /\ mixed' <=> mixed \/ met # {}
      /\ SameCall(job'[c], j)
      /\ \A e \in Clients \ {c} :
            /\ SameCall(job'[e], job[e])
            /\ job'[e].crossed <=> job[e].crossed \/ e \in met \cup hit
    BY GoFacts DEF JobsInv, JobsTyped
<1>2. SameCall(job'[d], job[d]) /\ (job'[d].crossed <=> job[d].crossed \/ d \in met \cup hit)
    BY <1>1
<1>3. JobInOrder(d) /\ HasTheBox(d) /\ ReadsWhatItStored(d)
    BY DEF JobsInv
<1>4. JobInOrder(d)'
    BY <1>2, <1>3 DEF JobInOrder, Running, ReadingBack, SameCall
<1>5. Alone(d)' => Alone(d) /\ d \notin met
    BY <1>1, <1>2 DEF Alone
<1>6. HasTheBox(d)'
    <2> SUFFICES ASSUME Alone(d)' PROVE HasTheBox(d)'
        BY DEF HasTheBox
    <2>1. Alone(d) /\ d \notin met
        BY <1>5
    <2>2. ASSUME job'[d].at = "data"
          PROVE  BuffersIts(d)' /\ \A e \in Clients \ {d} : job'[e].at # "data"
        <3>1. job[d].at = "data" /\ job'[d].name = job[d].name /\ job'[d].body = job[d].body
              /\ job'[d].sent = job[d].sent /\ job'[d].slips = job[d].slips
            BY <1>2, <2>2 DEF SameCall
        <3>2. /\ writing' = writing /\ buffer' = buffer /\ j.at # "data"
            BY <2>1, <3>1
        <3>3. /\ BuffersIts(d)
              /\ \A e \in Clients \ {d} : job[e].at # "data"
            BY <1>3, <2>1, <3>1 DEF HasTheBox
        <3>4. \A e \in Clients \ {d} : job'[e].at # "data"
            BY <1>1, <3>2, <3>3 DEF SameCall
        <3>5. BuffersIts(d)'
            BY <3>1, <3>2, <3>3 DEF BuffersIts
        <3> QED
            BY <3>4, <3>5
    <2>3. ASSUME job'[d].at = "reqdata"
          PROVE  ReadsIts(d)' /\ \A e \in Clients \ {d} : job'[e].at # "reqdata"
        <3>1. job[d].at = "reqdata" /\ job'[d].name = job[d].name /\ job'[d].slips = job[d].slips
            BY <1>2, <2>3 DEF SameCall
        <3>2. reading' = reading /\ j.at # "reqdata"
            BY <2>1, <3>1
        <3>3. /\ ReadsIts(d)
              /\ \A e \in Clients \ {d} : job[e].at # "reqdata"
            BY <1>3, <2>1, <3>1 DEF HasTheBox
        <3>4. \A e \in Clients \ {d} : job'[e].at # "reqdata"
            BY <1>1, <3>2, <3>3 DEF SameCall
        <3>5. ReadsIts(d)'
            BY <3>1, <3>2, <3>3 DEF ReadsIts
        <3> QED
            BY <3>4, <3>5
    <2> QED
        BY <2>2, <2>3 DEF HasTheBox
<1>7. ReadsWhatItStored(d)'
    <2> SUFFICES ASSUME ReadingBack(d)', ~job'[d].crossed, job'[d].slips = {}
                 PROVE  disk'[job'[d].name] = Stored(job[d].body)'
        BY DEF ReadsWhatItStored
    <2>1. /\ ReadingBack(d) /\ ~job[d].crossed /\ d \notin hit /\ job[d].slips = {}
          /\ job'[d].name = job[d].name /\ job'[d].body = job[d].body
        BY <1>2 DEF ReadingBack, SameCall
    <2>2. disk'[job[d].name] = disk[job[d].name]
        BY <2>1 DEF ReadingBack, Running
    <2>3. disk[job[d].name] = Stored(job[d].body)
        BY <1>3, <2>1 DEF ReadsWhatItStored
    <2>4. Stored(job[d].body)' = Stored(job[d].body)
        BY <2>1 DEF Stored
    <2> QED
        BY <2>1, <2>2, <2>3, <2>4
<1> QED
    BY <1>4, <1>6, <1>7

\* A call that begins, or none.
Fresh(j) ==
    /\ j.at \in {"none", "wrq", "dl_open", "delete"}
    /\ j.at # "none" => j.name \in Names
    /\ j.at = "wrq" => j.verb = "upload" /\ j.sent = 0
    /\ j.at = "dl_open" => j.verb = "download"
    /\ j.at = "delete" => j.verb = "delete"
    /\ j.slips = {}

\* A client begins a call, or is done with one.
LEMMA FreshJobKeeps ==
    ASSUME JobsInv, NEW c \in Clients, NEW j \in JobRecord, Fresh(j),
           job' = [job EXCEPT ![c] = j], UNCHANGED <<boxVars, mixed>>,
           slips \subseteq slips', slips' \in SUBSET Kinds
    PROVE  JobsInv'
<1> USE DEF Fresh
<1>1. /\ job \in [Clients -> JobRecord]
      /\ UNCHANGED <<disk, reading, writing, buffer, firmware, mixed>>
    BY DEF JobsInv, JobsTyped, boxVars
<1>2. JobsTyped'
    BY <1>1 DEF JobsInv, JobsTyped
<1>3. job'[c] = j /\ \A d \in Clients \ {c} : job'[d] = job[d]
    BY <1>1
<1>4. JobInOrder(c)' /\ HasTheBox(c)' /\ ReadsWhatItStored(c)'
    <2>1. Len(j.body) \in Nat
        BY LenProperties DEF JobRecord
    <2>2. JobInOrder(c)'
        BY <1>3, <2>1 DEF JobInOrder, Running, ReadingBack, Ends
    <2>3. HasTheBox(c)'
        BY <1>3 DEF HasTheBox
    <2>4. ReadsWhatItStored(c)'
        BY <1>3 DEF ReadsWhatItStored, ReadingBack
    <2> QED
        BY <2>2, <2>3, <2>4
<1>5. ASSUME NEW d \in Clients \ {c}
      PROVE  JobInOrder(d)' /\ HasTheBox(d)' /\ ReadsWhatItStored(d)'
    <2>1. JobInOrder(d) /\ HasTheBox(d) /\ ReadsWhatItStored(d) /\ job'[d] = job[d]
        BY <1>3 DEF JobsInv
    <2>2. JobInOrder(d)'
        BY <1>1, <2>1 DEF JobInOrder, Running, ReadingBack
    <2>3. HasTheBox(d)'
        <3>1. \A e \in Clients : job'[e].at \in {"data", "reqdata"} => job[e].at = job'[e].at
            BY <1>3
        <3> QED
            BY <1>1, <2>1, <3>1 DEF HasTheBox, Alone, BuffersIts, ReadsIts
    <2>4. ReadsWhatItStored(d)'
        BY <1>1, <2>1 DEF ReadsWhatItStored, ReadingBack, Stored
    <2> QED
        BY <2>2, <2>3, <2>4
<1> QED
    BY <1>2, <1>4, <1>5 DEF JobsInv

-----------------------------------------------------------------------------
(* Where an exchange takes its job.                                          *)

Places == Ends \cup {"wrq", "data", "dl_open", "reqdata", "delete"}

\* The call as it was asked for.
SameAsked(i, j) ==
    /\ i.verb = j.verb /\ i.name = j.name /\ i.body = j.body /\ i.check = j.check

\* c's job goes on as i.
GoesOnAs(c, i) ==
    /\ i \in JobRecord /\ i.at \in Places /\ SameAsked(i, job[c])
    /\ job[c].verb # "upload" => i.size = job[c].size
    /\ i.crossed = job[c].crossed
    /\ job[c].slips \subseteq i.slips /\ i.slips \subseteq slips'
    /\ slips \subseteq slips' /\ slips' \in SUBSET Kinds

\* A job at another place is still a job.
LEMMA PlacedJob ==
    ASSUME NEW j \in JobRecord, NEW where \in Places, NEW i, i = [j EXCEPT !.at = where]
    PROVE  /\ i \in JobRecord /\ i.at = where /\ SameAsked(i, j)
           /\ i.sent = j.sent /\ i.size = j.size /\ i.got = j.got
           /\ i.crossed = j.crossed /\ i.slips = j.slips
BY DEF JobRecord, SameAsked, Places

\* So is one whose exchange returned on a late datagram.
LEMMA SlippedJob ==
    ASSUME NEW j \in JobRecord, NEW kind \in Kinds, NEW i, i = [j EXCEPT !.slips = @ \cup {kind}]
    PROVE  /\ i \in JobRecord /\ i.at = j.at /\ SameAsked(i, j)
           /\ i.sent = j.sent /\ i.size = j.size /\ i.got = j.got
           /\ i.crossed = j.crossed /\ i.slips = j.slips \cup {kind}
<1>1. j.slips \in SUBSET Kinds
    BY DEF JobRecord
<1>2. j.slips \cup {kind} \in SUBSET Kinds
    BY <1>1
<1>3. i.at = j.at /\ i.verb = j.verb /\ i.name = j.name /\ i.body = j.body /\ i.sent = j.sent
    BY DEF JobRecord
<1>4. i.size = j.size /\ i.check = j.check /\ i.got = j.got /\ i.crossed = j.crossed
    BY DEF JobRecord
<1>5. i.slips = j.slips \cup {kind}
    BY DEF JobRecord
<1>6. i \in JobRecord
    BY <1>2 DEF JobRecord
<1> QED
    BY <1>3, <1>4, <1>5, <1>6 DEF SameAsked

\* The jobs as they are.
LEMMA JobFacts ==
    ASSUME JobsInv, NEW c \in Clients
    PROVE  /\ job[c] \in JobRecord /\ JobInOrder(c) /\ HasTheBox(c) /\ ReadsWhatItStored(c)
           /\ job[c].body \in Seq(Byte) /\ Len(job[c].body) \in Nat /\ job[c].sent \in Nat
           /\ job[c].size \in Nat \cup {NoSize} /\ job[c].got \in Seq(Byte)
           /\ job[c].slips \in SUBSET Kinds /\ job[c].slips \subseteq slips
<1>1. job[c] \in JobRecord /\ JobInOrder(c) /\ HasTheBox(c) /\ ReadsWhatItStored(c)
    BY DEF JobsInv, JobsTyped
<1>2. /\ job[c].body \in Seq(Byte) /\ job[c].sent \in Nat
      /\ job[c].size \in Nat \cup {NoSize} /\ job[c].got \in Seq(Byte)
      /\ job[c].slips \in SUBSET Kinds
    BY <1>1 DEF JobRecord
<1> QED
    BY <1>1, <1>2, LenProperties DEF JobInOrder

\* The job that a heard or unheard exchange leaves.
LEMMA Placed ==
    ASSUME JobsInv, NEW c \in Clients, NEW where \in Places, UNCHANGED slips
    PROVE  /\ GoesOnAs(c, At(c, where)) /\ At(c, where).at = where
           /\ At(c, where).sent = job[c].sent /\ At(c, where).size = job[c].size
           /\ At(c, where).got = job[c].got /\ At(c, where).slips = job[c].slips
<1>1. /\ job[c] \in JobRecord /\ job[c].slips \subseteq slips /\ slips \in SUBSET Kinds
    BY JobFacts DEF JobsInv, JobsTyped
<1> DEFINE i == At(c, where)
<1>2. i = [job[c] EXCEPT !.at = where]
    BY DEF At
<1> HIDE DEF i
<1>3. /\ i \in JobRecord /\ i.at = where /\ SameAsked(i, job[c])
      /\ i.sent = job[c].sent /\ i.size = job[c].size /\ i.got = job[c].got
      /\ i.crossed = job[c].crossed /\ i.slips = job[c].slips
    BY <1>1, <1>2, PlacedJob
<1> QED
    BY <1>1, <1>3 DEF i, GoesOnAs

\* The job that a slip leaves.
LEMMA Slipped ==
    ASSUME JobsInv, NEW c \in Clients, NEW kind \in Kinds, NEW met,
           NEW j \in JobRecord, j.at \in Places, SameAsked(j, job[c]),
           job[c].verb # "upload" => j.size = job[c].size,
           j.crossed = job[c].crossed, j.slips = job[c].slips, Slip(c, kind, j, met)
    PROVE  \E i : /\ GoesOnAs(c, i) /\ Go(c, i, met, {})
                  /\ i.at = j.at /\ i.sent = j.sent /\ i.size = j.size /\ i.got = j.got
                  /\ kind \in i.slips /\ i.slips = job[c].slips \cup {kind}
<1>1. job[c].slips \subseteq slips /\ slips \in SUBSET Kinds
    BY JobFacts DEF JobsInv, JobsTyped
<1> DEFINE i == [j EXCEPT !.slips = @ \cup {kind}]
<1>2. Go(c, i, met, {}) /\ slips' = slips \cup {kind}
    BY DEF Slip
<1>3. /\ i \in JobRecord /\ i.at = j.at /\ SameAsked(i, j)
      /\ i.sent = j.sent /\ i.size = j.size /\ i.got = j.got
      /\ i.crossed = j.crossed /\ i.slips = j.slips \cup {kind}
    BY SlippedJob
<1> HIDE DEF i
<1>4. SameAsked(i, job[c])
    BY <1>3 DEF SameAsked
<1>5. GoesOnAs(c, i)
    BY <1>1, <1>2, <1>3, <1>4 DEF GoesOnAs
<1> QED
    BY <1>2, <1>3, <1>5

\* A late reply, exchange by exchange.
LateOpenWrite(c) ==
    job[c].at = "wrq" /\ Slip(c, "wrq", At(c, "data"), Busy(c, "data")) /\ UNCHANGED boxVars
LateSend(c) ==
    /\ job[c].at = "data" /\ job[c].sent < Len(job[c].body)
    /\ Slip(c, "data", Sent(job[c]), {}) /\ UNCHANGED boxVars
LateClose(c) ==
    /\ job[c].at = "data" /\ job[c].sent = Len(job[c].body)
    /\ Slip(c, "close", Closed(job[c]), {}) /\ UNCHANGED boxVars
LateOpenRead(c) ==
    job[c].at = "dl_open" /\ Slip(c, "dl_open", At(c, "reqdata"), Busy(c, "reqdata")) /\ UNCHANGED boxVars
LateRead(c) ==
    /\ job[c].at = "reqdata"
    /\ \E got \in Late : Slip(c, "reqdata", HasRead(job[c], got), {})
    /\ UNCHANGED boxVars
LateDelete(c) ==
    job[c].at = "delete" /\ Slip(c, "delete", At(c, "ok"), {}) /\ UNCHANGED boxVars

LEMMA LateReplyMeans ==
    ASSUME NEW c, LateReply(c)
    PROVE  LateOpenWrite(c) \/ LateSend(c) \/ LateClose(c) \/ LateOpenRead(c) \/ LateRead(c) \/ LateDelete(c)
BY DEF LateReply, LateOpenWrite, LateSend, LateClose, LateOpenRead, LateRead, LateDelete

\* The two ways an upload is opened.
LEMMA OpenWriteGoes ==
    ASSUME JobsInv, NEW c \in Clients, (OpenWrite(c) /\ UNCHANGED slips) \/ LateOpenWrite(c)
    PROVE  /\ job[c].at = "wrq" /\ UNCHANGED <<disk, reading, firmware>>
           /\ \E i : /\ GoesOnAs(c, i) /\ Go(c, i, Busy(c, "data"), {})
                     /\ i.at \in {"data", "failed"} /\ i.sent = job[c].sent /\ i.got = job[c].got
                     /\ \/ "wrq" \in i.slips /\ UNCHANGED <<writing, buffer>>
                        \/ writing' = job[c].name /\ buffer' = <<>>
<1>1. job[c] \in JobRecord
    BY JobFacts
<1>2. CASE OpenWrite(c) /\ UNCHANGED slips
    <2>1. PICK where \in {"data", "failed"} : Go(c, At(c, where), Busy(c, "data"), {})
        BY <1>2 DEF OpenWrite
    <2>2. where \in Places
        BY DEF Places, Ends
    <2>3. /\ GoesOnAs(c, At(c, where)) /\ At(c, where).at = where
          /\ At(c, where).sent = job[c].sent /\ At(c, where).got = job[c].got
        BY <1>2, <2>2, Placed
    <2> QED
        BY <1>2, <2>1, <2>3 DEF OpenWrite
<1>3. CASE LateOpenWrite(c)
    <2> DEFINE j == At(c, "data")
    <2>1. j = [job[c] EXCEPT !.at = "data"]
        BY DEF At
    <2>2. /\ "data" \in Places /\ "wrq" \in Kinds
          /\ Slip(c, "wrq", j, Busy(c, "data"))
        BY <1>3 DEF LateOpenWrite, Places, Kinds
    <2> HIDE DEF j
    <2>3. /\ j \in JobRecord /\ j.at = "data" /\ SameAsked(j, job[c])
          /\ j.sent = job[c].sent /\ j.size = job[c].size /\ j.got = job[c].got
          /\ j.crossed = job[c].crossed /\ j.slips = job[c].slips
        BY <1>1, <2>1, <2>2, PlacedJob
    <2>4. PICK i : /\ GoesOnAs(c, i) /\ Go(c, i, Busy(c, "data"), {})
                   /\ i.at = j.at /\ i.sent = j.sent /\ i.got = j.got /\ "wrq" \in i.slips
        BY <2>2, <2>3, Slipped
    <2> QED
        BY <1>3, <2>3, <2>4 DEF LateOpenWrite, boxVars
<1> QED
    BY <1>2, <1>3

\* A block that is sent.
LEMMA SentJob ==
    ASSUME JobsInv, NEW c \in Clients, job[c].at = "data"
    PROVE  /\ UpTo(job[c]) \in Nat /\ job[c].sent <= UpTo(job[c]) /\ UpTo(job[c]) <= Len(job[c].body)
           /\ Chunk(job[c]) \in Seq(Byte)
           /\ SubSeq(job[c].body, 1, job[c].sent) \o Chunk(job[c]) = SubSeq(job[c].body, 1, UpTo(job[c]))
           /\ Sent(job[c]) \in JobRecord /\ Sent(job[c]).at = "data" /\ SameAsked(Sent(job[c]), job[c])
           /\ Sent(job[c]).sent = UpTo(job[c]) /\ Sent(job[c]).size = job[c].size
           /\ Sent(job[c]).got = job[c].got
           /\ Sent(job[c]).crossed = job[c].crossed /\ Sent(job[c]).slips = job[c].slips
<1> DEFINE j == job[c]
           upTo == UpTo(j)
<1>1. /\ j \in JobRecord /\ j.body \in Seq(Byte) /\ Len(j.body) \in Nat /\ j.sent \in Nat
      /\ j.sent <= Len(j.body) /\ j.at = "data"
    BY JobFacts DEF JobInOrder
<1>2. upTo = IF j.sent + BLOCK < Len(j.body) THEN j.sent + BLOCK ELSE Len(j.body)
    BY DEF UpTo
<1> HIDE DEF j, upTo
<1>3. upTo \in Nat /\ j.sent <= upTo /\ upTo <= Len(j.body)
    <2> DEFINE sent == j.sent
               length == Len(j.body)
    <2>1. sent \in Nat /\ length \in Nat /\ sent <= length
        BY <1>1
    <2>2. upTo = IF sent + BLOCK < length THEN sent + BLOCK ELSE length
        BY <1>2
    <2> HIDE DEF sent, length
    <2>3. upTo \in Nat /\ sent <= upTo /\ upTo <= length
        BY <2>1, <2>2, BlockAssumption
    <2> QED
        BY <2>3 DEF sent, length
<1>4. /\ Chunk(j) \in Seq(Byte)
      /\ SubSeq(j.body, 1, j.sent) \o Chunk(j) = SubSeq(j.body, 1, upTo)
    BY <1>1, <1>3, BeginningGrows DEF Chunk, upTo
<1>5. Sent(j) = [j EXCEPT !.sent = upTo]
    BY DEF Sent, upTo
<1>6. /\ Sent(j) \in JobRecord /\ Sent(j).at = "data" /\ SameAsked(Sent(j), j)
      /\ Sent(j).sent = upTo /\ Sent(j).size = j.size /\ Sent(j).got = j.got
      /\ Sent(j).crossed = j.crossed /\ Sent(j).slips = j.slips
    BY <1>1, <1>3, <1>5 DEF JobRecord, SameAsked
<1> QED
    BY <1>3, <1>4, <1>6 DEF j, upTo

\* The three ways a block is sent.
LEMMA SendGoes ==
    ASSUME JobsInv, NEW c \in Clients,
           (SendBlock(c) /\ UNCHANGED slips) \/ SendBlockTwice(c) \/ LateSend(c)
    PROVE  /\ job[c].at = "data" /\ UNCHANGED <<disk, reading, writing, firmware>>
           /\ buffer' \in Seq(Byte)
           /\ \E i : /\ GoesOnAs(c, i) /\ Go(c, i, {}, {})
                     /\ i.at \in {"data", "failed"} /\ i.sent <= Len(job[c].body) /\ i.got = job[c].got
                     /\ /\ i.slips \cap Spoiling = {}
                        /\ buffer = SubSeq(job[c].body, 1, job[c].sent)
                        => buffer' = SubSeq(job[c].body, 1, i.sent)
<1> DEFINE j == job[c]
           k == Sent(j)
           chunk == Chunk(j)
<1>1. job[c].at = "data" /\ UNCHANGED <<disk, reading, writing, firmware>>
    BY DEF SendBlock, SendBlockTwice, LateSend, boxVars
<1>2. /\ chunk \in Seq(Byte)
      /\ SubSeq(j.body, 1, j.sent) \o chunk = SubSeq(j.body, 1, k.sent)
      /\ k \in JobRecord /\ k.at = "data" /\ SameAsked(k, j)
      /\ k.sent <= Len(j.body) /\ k.size = j.size /\ k.got = j.got
      /\ k.crossed = j.crossed /\ k.slips = j.slips
    BY <1>1, SentJob
<1>3. /\ buffer \in Seq(Byte) /\ slips \in SUBSET Kinds /\ j.slips \subseteq slips
      /\ j.body \in Seq(Byte) /\ Len(j.body) \in Nat /\ j.sent \in Nat /\ j.sent <= Len(j.body)
    BY <1>1, JobFacts DEF JobsInv, JobsTyped, JobInOrder
<1>4. buffer \o chunk \in Seq(Byte) /\ (buffer \o chunk) \o chunk \in Seq(Byte)
    BY <1>2, <1>3, ConcatProperties
<1>5. Len(SubSeq(j.body, 1, j.sent)) = j.sent
    <2>1. \A n \in 1..j.sent : j.body[n] \in Byte
        BY <1>3, ElementOfSeq
    <2> QED
        BY <1>3, <2>1, SubSeqProperties
<1>6. \A where \in {"data", "failed"} :
         LET i == [k EXCEPT !.at = where]
         IN  /\ i \in JobRecord /\ i.at = where /\ where \in Places /\ SameAsked(i, j)
             /\ i.sent = k.sent /\ i.size = j.size /\ i.got = j.got
             /\ i.crossed = j.crossed /\ i.slips = j.slips
    <2> HIDE DEF j, k
    <2> SUFFICES ASSUME NEW where \in {"data", "failed"}, NEW i, i = [k EXCEPT !.at = where]
                 PROVE  /\ i \in JobRecord /\ i.at = where /\ where \in Places /\ SameAsked(i, j)
                        /\ i.sent = k.sent /\ i.size = j.size /\ i.got = j.got
                        /\ i.crossed = j.crossed /\ i.slips = j.slips
        OBVIOUS
    <2>1. where \in Places
        BY DEF Places, Ends
    <2>2. /\ i \in JobRecord /\ i.at = where /\ SameAsked(i, k)
          /\ i.sent = k.sent /\ i.size = k.size /\ i.got = k.got
          /\ i.crossed = k.crossed /\ i.slips = k.slips
        BY <1>2, <2>1, PlacedJob
    <2> QED
        BY <1>2, <2>1, <2>2 DEF SameAsked
<1>7. "twice" \in Kinds \cap Spoiling /\ "data" \in Kinds \cap Spoiling
    BY DEF Kinds, Spoiling
<1>8. CASE SendBlock(c) /\ UNCHANGED slips
    <2>1. PICK where \in {"data", "failed"} : Go(c, [k EXCEPT !.at = where], {}, {})
        BY <1>8 DEF SendBlock
    <2>2. buffer' = IF firmware.dedup /\ Len(buffer) # j.sent THEN buffer ELSE buffer \o chunk
        BY <1>8 DEF SendBlock
    <2> DEFINE i == [k EXCEPT !.at = where]
    <2>3. /\ i \in JobRecord /\ i.at = where /\ where \in Places /\ SameAsked(i, j)
          /\ i.sent = k.sent /\ i.size = j.size /\ i.got = j.got
          /\ i.crossed = j.crossed /\ i.slips = j.slips
        BY <1>6
    <2>4. Go(c, i, {}, {})
        BY <2>1
    <2> HIDE DEF i
    <2>5. GoesOnAs(c, i)
        BY <1>3, <1>8, <2>3 DEF GoesOnAs, j
    <2>6. buffer' \in Seq(Byte)
        BY <1>3, <1>4, <2>2
    <2>7. buffer = SubSeq(j.body, 1, j.sent) => buffer' = SubSeq(j.body, 1, i.sent)
        BY <1>2, <1>5, <2>2, <2>3
    <2> QED
        BY <1>1, <1>2, <2>3, <2>4, <2>5, <2>6, <2>7
<1>9. CASE SendBlockTwice(c)
    <2>1. PICK where \in {"data", "failed"} : Slip(c, "twice", [k EXCEPT !.at = where], {})
        BY <1>9 DEF SendBlockTwice
    <2>2. buffer' = buffer \o chunk \o chunk
        BY <1>9 DEF SendBlockTwice
    <2> DEFINE i == [k EXCEPT !.at = where]
    <2>3. /\ i \in JobRecord /\ i.at = where /\ where \in Places /\ SameAsked(i, j)
          /\ i.sent = k.sent /\ i.size = j.size /\ i.got = j.got
          /\ i.crossed = j.crossed /\ i.slips = j.slips
        BY <1>6
    <2>4. Slip(c, "twice", i, {})
        BY <2>1
    <2> HIDE DEF i
    <2>5. PICK h : /\ GoesOnAs(c, h) /\ Go(c, h, {}, {})
                   /\ h.at = i.at /\ h.sent = i.sent /\ h.got = i.got /\ "twice" \in h.slips
        BY <1>7, <2>3, <2>4, Slipped
    <2> QED
        BY <1>1, <1>2, <1>4, <1>7, <2>2, <2>3, <2>5
<1>10. CASE LateSend(c)
    <2>1. Slip(c, "data", k, {}) /\ buffer' = buffer
        BY <1>10 DEF LateSend, boxVars
    <2>2. k.at \in Places /\ (job[c].verb # "upload" => k.size = job[c].size)
        BY <1>2 DEF Places
    <2> HIDE DEF k
    <2>3. PICK h : /\ GoesOnAs(c, h) /\ Go(c, h, {}, {})
                   /\ h.at = k.at /\ h.sent = k.sent /\ h.got = k.got /\ "data" \in h.slips
        BY <1>2, <1>7, <2>1, <2>2, Slipped
    <2> QED
        BY <1>1, <1>2, <1>3, <1>7, <2>1, <2>3
<1> QED
    BY <1>8, <1>9, <1>10

\* An upload that was closed.
LEMMA ClosedJob ==
    ASSUME JobsInv, NEW c \in Clients, job[c].at = "data"
    PROVE  /\ Closed(job[c]) \in JobRecord /\ SameAsked(Closed(job[c]), job[c])
           /\ Closed(job[c]).at = IF job[c].check THEN "dl_open" ELSE "ok"
           /\ Closed(job[c]).size = IF job[c].body = <<>> THEN NoSize ELSE Len(job[c].body)
           /\ Closed(job[c]).got = job[c].got
           /\ Closed(job[c]).crossed = job[c].crossed /\ Closed(job[c]).slips = job[c].slips
<1> DEFINE j == job[c]
           where == IF j.check THEN "dl_open" ELSE "ok"
           size == IF j.body = <<>> THEN NoSize ELSE Len(j.body)
<1>1. j \in JobRecord /\ where \in {"dl_open", "ok"} /\ size \in Nat \cup {NoSize}
    BY JobFacts
<1>2. Closed(j) = [j EXCEPT !.at = where, !.size = size]
    BY DEF Closed
<1> HIDE DEF j, where, size
<1>3. /\ Closed(j) \in JobRecord /\ SameAsked(Closed(j), j)
      /\ Closed(j).at = where /\ Closed(j).size = size /\ Closed(j).got = j.got
      /\ Closed(j).crossed = j.crossed /\ Closed(j).slips = j.slips
    BY <1>1, <1>2 DEF JobRecord, SameAsked, Ends
<1> QED
    BY <1>3 DEF j, where, size

\* The two ways an upload is closed.
LEMMA CloseGoes ==
    ASSUME JobsInv, NEW c \in Clients, (CloseWrite(c) /\ UNCHANGED slips) \/ LateClose(c)
    PROVE  /\ job[c].at = "data" /\ job[c].verb = "upload" /\ UNCHANGED <<reading, buffer, firmware>>
           /\ \E i, hit :
                 /\ GoesOnAs(c, i) /\ Go(c, i, {}, hit) /\ i.got = job[c].got
                 /\ \/ i.at = "failed"
                    \/ /\ i.at = IF job[c].check THEN "dl_open" ELSE "ok"
                       /\ i.size = IF job[c].body = <<>> THEN NoSize ELSE Len(job[c].body)
                 /\ \/ CloseWrite(c) /\ hit = AtWork(c, {job[c].name, writing})
                       /\ i.slips = job[c].slips /\ UNCHANGED slips
                    \/ UNCHANGED <<disk, writing>> /\ hit = {} /\ "close" \in i.slips
<1> DEFINE j == job[c]
           k == Closed(j)
<1>1. /\ j.at = "data" /\ j.verb = "upload" /\ j.slips \subseteq slips /\ slips \in SUBSET Kinds
      /\ UNCHANGED <<reading, buffer, firmware>>
    BY JobFacts DEF CloseWrite, LateClose, boxVars, JobInOrder, JobsInv, JobsTyped
<1>2. /\ k \in JobRecord /\ SameAsked(k, j)
      /\ k.at = IF j.check THEN "dl_open" ELSE "ok"
      /\ k.size = IF j.body = <<>> THEN NoSize ELSE Len(j.body)
      /\ k.got = j.got /\ k.crossed = j.crossed /\ k.slips = j.slips
    BY <1>1, ClosedJob
<1>3. k.at \in Places /\ "failed" \in Places /\ "close" \in Kinds
    BY <1>2 DEF Places, Ends, Kinds
<1>4. CASE CloseWrite(c) /\ UNCHANGED slips
    <2> DEFINE hit == AtWork(c, {j.name, writing})
    <2>1. Go(c, k, {}, hit) \/ Go(c, At(c, "failed"), {}, hit)
        BY <1>4 DEF CloseWrite
    <2>2. CASE Go(c, k, {}, hit)
        <3> HIDE DEF k
        <3>1. GoesOnAs(c, k)
            BY <1>1, <1>2, <1>3, <1>4 DEF GoesOnAs
        <3> QED
            BY <1>1, <1>2, <1>4, <2>2, <3>1
    <2>3. CASE Go(c, At(c, "failed"), {}, hit)
        BY <1>1, <1>3, <1>4, <2>3, Placed
    <2> QED
        BY <2>1, <2>2, <2>3
<1>5. CASE LateClose(c)
    <2>1. Slip(c, "close", k, {}) /\ UNCHANGED <<disk, writing>>
        BY <1>5 DEF LateClose, boxVars
    <2>2. job[c].verb # "upload" => k.size = job[c].size
        BY <1>1
    <2> HIDE DEF k
    <2>3. PICK i : /\ GoesOnAs(c, i) /\ Go(c, i, {}, {})
                   /\ i.at = k.at /\ i.size = k.size /\ i.got = k.got /\ "close" \in i.slips
        BY <1>2, <1>3, <2>1, <2>2, Slipped
    <2> QED
        BY <1>1, <1>2, <2>1, <2>3
<1> QED
    BY <1>4, <1>5

\* The two ways a file is opened for reading.
LEMMA OpenReadGoes ==
    ASSUME JobsInv, NEW c \in Clients, (OpenRead(c) /\ UNCHANGED slips) \/ LateOpenRead(c)
    PROVE  /\ job[c].at = "dl_open" /\ UNCHANGED <<disk, writing, buffer, firmware>>
           /\ \E i : /\ GoesOnAs(c, i) /\ Go(c, i, Busy(c, "reqdata"), {})
                     /\ i.at \in {"reqdata", "failed"} /\ i.size = job[c].size /\ i.got = job[c].got
                     /\ \/ "dl_open" \in i.slips /\ reading' = reading
                        \/ reading' = job[c].name
<1>1. job[c] \in JobRecord
    BY JobFacts
<1>2. CASE OpenRead(c) /\ UNCHANGED slips
    <2>1. PICK where \in {"reqdata", "failed"} : Go(c, At(c, where), Busy(c, "reqdata"), {})
        BY <1>2 DEF OpenRead
    <2>2. where \in Places
        BY DEF Places, Ends
    <2>3. /\ GoesOnAs(c, At(c, where)) /\ At(c, where).at = where
          /\ At(c, where).size = job[c].size /\ At(c, where).got = job[c].got
        BY <1>2, <2>2, Placed
    <2> QED
        BY <1>2, <2>1, <2>3 DEF OpenRead
<1>3. CASE LateOpenRead(c)
    <2> DEFINE j == At(c, "reqdata")
    <2>1. j = [job[c] EXCEPT !.at = "reqdata"]
        BY DEF At
    <2>2. /\ "reqdata" \in Places /\ "dl_open" \in Kinds
          /\ Slip(c, "dl_open", j, Busy(c, "reqdata"))
        BY <1>3 DEF LateOpenRead, Places, Kinds
    <2> HIDE DEF j
    <2>3. /\ j \in JobRecord /\ j.at = "reqdata" /\ SameAsked(j, job[c])
          /\ j.size = job[c].size /\ j.got = job[c].got
          /\ j.crossed = job[c].crossed /\ j.slips = job[c].slips
        BY <1>1, <2>1, <2>2, PlacedJob
    <2>4. PICK i : /\ GoesOnAs(c, i) /\ Go(c, i, Busy(c, "reqdata"), {})
                   /\ i.at = j.at /\ i.size = j.size /\ i.got = j.got /\ "dl_open" \in i.slips
        BY <2>2, <2>3, Slipped
    <2> QED
        BY <1>3, <2>3, <2>4 DEF LateOpenRead, boxVars
<1> QED
    BY <1>2, <1>3

\* What a read leaves of its job.
LEMMA HasReadJob ==
    ASSUME NEW j \in JobRecord, NEW got \in Seq(Byte)
    PROVE  /\ HasRead(j, got) \in JobRecord /\ SameAsked(HasRead(j, got), j)
           /\ HasRead(j, got).at \in {"ok", "wrong"} /\ HasRead(j, got).got = got
           /\ HasRead(j, got).size = j.size
           /\ HasRead(j, got).crossed = j.crossed /\ HasRead(j, got).slips = j.slips
           /\ HasRead(j, got).at = "ok" =>
                 /\ ~(j.size # NoSize /\ Len(got) > j.size)
                 /\ j.check => got = j.body
<1> DEFINE Q == j.size # NoSize /\ Len(got) > j.size
           R == j.check /\ ~Matches(got, j.body)
           where == IF Q \/ R THEN "wrong" ELSE "ok"
           i == HasRead(j, got)
<1>1. i = [j EXCEPT !.got = got, !.at = where]
    BY DEF HasRead
<1>2. where \in {"ok", "wrong"} /\ (where = "ok" => ~Q /\ ~R)
    OBVIOUS
<1> HIDE DEF i, Q, R, where
<1>3. /\ i \in JobRecord /\ SameAsked(i, j) /\ i.at = where /\ i.got = got /\ i.size = j.size
      /\ i.crossed = j.crossed /\ i.slips = j.slips
    BY <1>1, <1>2 DEF JobRecord, SameAsked, Ends
<1> QED
    BY <1>2, <1>3 DEF i, Q, R, Matches

\* What a read does.
LEMMA ReadFileGets ==
    ASSUME JobsInv, NEW c \in Clients, ReadFile(c), UNCHANGED slips
    PROVE  /\ job[c].at = "reqdata" /\ reading \in Names /\ disk[reading] \in Seq(Byte)
           /\ disk[reading] # Absent /\ UNCHANGED boxVars
           /\ \E i : /\ GoesOnAs(c, i) /\ Go(c, i, {}, {})
                     /\ i.at \in {"ok", "silent", "wrong"} /\ i.slips = job[c].slips
                     /\ i.at = "ok" =>
                           /\ ~EndsInSilence(disk[reading], job[c].size)
                           /\ i.got = Whole(disk[reading], job[c].size)
                           /\ ~(job[c].size # NoSize /\ Len(i.got) > job[c].size)
                           /\ job[c].check => i.got = job[c].body
<1> DEFINE j == job[c]
           f == disk[reading]
           got == Whole(f, j.size)
           k == HasRead(j, got)
<1>1. /\ j.at = "reqdata" /\ reading # NoName /\ f # Absent /\ UNCHANGED boxVars
      /\ Go(c, IF EndsInSilence(f, j.size) THEN At(c, "silent") ELSE k, {}, {})
    BY DEF ReadFile
<1>2. reading \in Names /\ f \in Seq(Byte) /\ slips \in SUBSET Kinds
    BY <1>1 DEF JobsInv, JobsTyped
<1>3. j \in JobRecord /\ j.size \in Nat \cup {NoSize} /\ j.slips \subseteq slips
    BY JobFacts
<1>4. got \in Seq(Byte)
    BY <1>2, <1>3, WholeFacts
<1>5. CASE EndsInSilence(f, j.size)
    <2>1. "silent" \in Places /\ Go(c, At(c, "silent"), {}, {})
        BY <1>1, <1>5 DEF Places, Ends
    <2> QED
        BY <1>1, <1>2, <2>1, Placed
<1>6. CASE ~EndsInSilence(f, j.size)
    <2>1. Go(c, k, {}, {})
        BY <1>1, <1>6
    <2>2. /\ k \in JobRecord /\ SameAsked(k, j) /\ k.at \in {"ok", "wrong"} /\ k.got = got
          /\ k.size = j.size /\ k.crossed = j.crossed /\ k.slips = j.slips
          /\ k.at = "ok" => /\ ~(j.size # NoSize /\ Len(got) > j.size)
                            /\ j.check => got = j.body
        <3> HIDE DEF got
        <3> QED
            BY <1>3, <1>4, HasReadJob
    <2> HIDE DEF k
    <2>3. GoesOnAs(c, k)
        BY <1>2, <1>3, <2>2 DEF GoesOnAs, Places, Ends
    <2> QED
        BY <1>1, <1>2, <1>6, <2>1, <2>2, <2>3
<1> QED
    BY <1>5, <1>6

\* The exchanges that end a call and leave the box as it is.
LEMMA EndGoes ==
    ASSUME JobsInv, NEW c \in Clients,
           \/ ((Running(c) /\ Unheard(c)) \/ ReadFile(c)) /\ UNCHANGED slips
           \/ LateRead(c) \/ LateDelete(c)
    PROVE  /\ Running(c) /\ UNCHANGED boxVars
           /\ \E i : /\ GoesOnAs(c, i) /\ Go(c, i, {}, {}) /\ i.at \in Ends
                     /\ i.at = "ok" =>
                           \/ ReadFile(c) /\ UNCHANGED slips
                           \/ job[c].at = "reqdata" /\ "reqdata" \in i.slips
                           \/ job[c].at = "delete" /\ "delete" \in i.slips
<1>1. job[c] \in JobRecord
    BY JobFacts
<1>2. {"failed", "ok", "silent", "wrong"} \subseteq Places \cap Ends /\ {"reqdata", "delete"} \subseteq Kinds
    BY DEF Places, Ends, Kinds
<1>3. CASE Running(c) /\ Unheard(c) /\ UNCHANGED slips
    BY <1>2, <1>3, Placed DEF Unheard
<1>4. CASE ReadFile(c) /\ UNCHANGED slips
    BY <1>2, <1>4, ReadFileGets DEF Running
<1>5. CASE LateRead(c)
    <2>1. PICK got \in Late : Slip(c, "reqdata", HasRead(job[c], got), {})
        BY <1>5 DEF LateRead
    <2>2. got \in Seq(Byte)
        BY LateAssumption
    <2> DEFINE k == HasRead(job[c], got)
    <2>3. /\ k \in JobRecord /\ SameAsked(k, job[c]) /\ k.at \in {"ok", "wrong"}
          /\ k.size = job[c].size /\ k.crossed = job[c].crossed /\ k.slips = job[c].slips
        BY <1>1, <2>2, HasReadJob
    <2>4. Slip(c, "reqdata", k, {}) /\ "reqdata" \in Kinds /\ k.at \in Places /\ k.at \in Ends
        BY <1>2, <2>1, <2>3
    <2> HIDE DEF k
    <2>5. PICK i : GoesOnAs(c, i) /\ Go(c, i, {}, {}) /\ i.at = k.at /\ "reqdata" \in i.slips
        BY <2>3, <2>4, Slipped
    <2> QED
        BY <1>5, <2>4, <2>5 DEF LateRead, Running
<1>6. CASE LateDelete(c)
    <2> DEFINE k == At(c, "ok")
    <2>1. k = [job[c] EXCEPT !.at = "ok"]
        BY DEF At
    <2>2. Slip(c, "delete", k, {})
        BY <1>6 DEF LateDelete
    <2> HIDE DEF k
    <2>3. /\ k \in JobRecord /\ SameAsked(k, job[c]) /\ k.at = "ok"
          /\ k.size = job[c].size /\ k.crossed = job[c].crossed /\ k.slips = job[c].slips
        BY <1>1, <1>2, <2>1, PlacedJob
    <2>4. k.at \in Places /\ k.at \in Ends /\ "delete" \in Kinds
        BY <1>2, <2>3
    <2>5. PICK i : GoesOnAs(c, i) /\ Go(c, i, {}, {}) /\ i.at = k.at /\ "delete" \in i.slips
        BY <2>2, <2>3, <2>4, Slipped
    <2> QED
        BY <1>6, <2>4, <2>5 DEF LateDelete, Running
<1> QED
    BY <1>3, <1>4, <1>5, <1>6

\* A delete.
LEMMA DeleteGoes ==
    ASSUME JobsInv, NEW c \in Clients, DeleteFile(c), UNCHANGED slips
    PROVE  /\ job[c].at = "delete" /\ job[c].verb = "delete"
           /\ disk' = [disk EXCEPT ![job[c].name] = Absent]
           /\ UNCHANGED <<reading, writing, buffer, firmware>>
           /\ \E i : /\ GoesOnAs(c, i) /\ Go(c, i, {}, AtWork(c, {job[c].name}))
                     /\ i.at \in {"ok", "failed", "delete"} /\ i.got = job[c].got
<1>1. PICK where \in {"ok", "failed", "delete"} : Go(c, At(c, where), {}, AtWork(c, {job[c].name}))
    BY DEF DeleteFile
<1>2. where \in Places
    BY DEF Places, Ends
<1>3. GoesOnAs(c, At(c, where)) /\ At(c, where).at = where /\ At(c, where).got = job[c].got
    BY <1>2, Placed
<1> QED
    BY <1>1, <1>3, JobFacts DEF DeleteFile, JobInOrder

\* Every exchange is one of these.
LEMMA ExchangeMeans ==
    ASSUME NEW c, Exchange(c)
    PROVE  \/ (OpenWrite(c) /\ UNCHANGED slips) \/ LateOpenWrite(c)
           \/ (SendBlock(c) /\ UNCHANGED slips) \/ SendBlockTwice(c) \/ LateSend(c)
           \/ (CloseWrite(c) /\ UNCHANGED slips) \/ LateClose(c)
           \/ (OpenRead(c) /\ UNCHANGED slips) \/ LateOpenRead(c)
           \/ ((Running(c) /\ Unheard(c)) \/ ReadFile(c)) /\ UNCHANGED slips
           \/ LateRead(c) \/ LateDelete(c)
           \/ DeleteFile(c) /\ UNCHANGED slips
BY LateReplyMeans DEF Exchange

-----------------------------------------------------------------------------
(* The exchanges keep the jobs in order.                                     *)

\* A job that has ended claims nothing.
LEMMA EndedJob ==
    ASSUME NEW c \in Clients, job'[c].at \in Ends, job'[c].slips \subseteq slips'
    PROVE  JobInOrder(c)' /\ HasTheBox(c)' /\ ReadsWhatItStored(c)'
<1>1. ~Running(c)' /\ job'[c].at \notin {"wrq", "data", "dl_open", "reqdata", "delete"}
    BY DEF Running, Ends
<1>2. JobInOrder(c)'
    BY <1>1 DEF JobInOrder, ReadingBack
<1>3. HasTheBox(c)'
    BY <1>1 DEF HasTheBox
<1>4. ReadsWhatItStored(c)'
    BY <1>1 DEF ReadsWhatItStored, ReadingBack
<1> QED
    BY <1>2, <1>3, <1>4

\* c's job after an exchange that took it to i.
LEMMA Gone ==
    ASSUME JobsInv, NEW c \in Clients, NEW i, GoesOnAs(c, i), NEW met, NEW hit, Go(c, i, met, hit)
    PROVE  /\ job' \in [Clients -> JobRecord] /\ mixed' \in BOOLEAN /\ slips' \in SUBSET Kinds
           /\ mixed' <=> mixed \/ met # {}
           /\ SameCall(job'[c], i) /\ (job'[c].crossed <=> job[c].crossed \/ met # {})
           /\ job'[c].verb = job[c].verb /\ job'[c].name = job[c].name
           /\ job'[c].body = job[c].body /\ job'[c].check = job[c].check
           /\ job[c].slips \subseteq job'[c].slips /\ job'[c].slips \subseteq slips'
           /\ \A d \in Clients \ {c} : SameCall(job'[d], job[d])
           /\ Alone(c)' => met = {} /\ Alone(c)
<1>1. /\ job' \in [Clients -> JobRecord] /\ mixed' \in BOOLEAN
      /\ mixed' <=> mixed \/ met # {}
      /\ SameCall(job'[c], i) /\ (job'[c].crossed <=> i.crossed \/ met # {})
      /\ \A d \in Clients \ {c} : SameCall(job'[d], job[d])
    BY GoFacts DEF GoesOnAs, JobsInv, JobsTyped
<1> QED
    BY <1>1 DEF GoesOnAs, SameAsked, SameCall, Alone

LEMMA OpenWriteKeeps ==
    ASSUME JobsInv, NEW c \in Clients, (OpenWrite(c) /\ UNCHANGED slips) \/ LateOpenWrite(c)
    PROVE  JobsInv'
<1> DEFINE met == Busy(c, "data")
<1>1. job[c].at = "wrq" /\ UNCHANGED <<disk, reading, firmware>>
    BY OpenWriteGoes
<1>2. PICK i : /\ GoesOnAs(c, i) /\ Go(c, i, met, {})
               /\ i.at \in {"data", "failed"} /\ i.sent = job[c].sent
               /\ \/ "wrq" \in i.slips /\ UNCHANGED <<writing, buffer>>
                  \/ writing' = job[c].name /\ buffer' = <<>>
    BY OpenWriteGoes
<1>3. \A d \in Clients \ {c} : d \in met <=> job[d].at = "data"
    BY DEF Busy
<1> HIDE DEF met
<1>4. /\ job' \in [Clients -> JobRecord] /\ mixed' \in BOOLEAN /\ slips' \in SUBSET Kinds
      /\ SameCall(job'[c], i)
      /\ job'[c].verb = job[c].verb /\ job'[c].name = job[c].name /\ job'[c].body = job[c].body
      /\ job'[c].slips \subseteq slips'
      /\ \A d \in Clients \ {c} : SameCall(job'[d], job[d])
      /\ Alone(c)' => met = {} /\ Alone(c)
    BY <1>2, Gone
<1>5. JobInOrder(c) /\ job[c].name \in Names /\ Len(job[c].body) \in Nat
    BY <1>1, JobFacts DEF JobInOrder, Running
<1>6. JobsTyped'
    <2>1. buffer' \in Seq(Byte) /\ writing' \in Names \cup {NoName}
        BY <1>2, <1>5, EmptySeq DEF JobsInv, JobsTyped
    <2> QED
        BY <1>1, <1>4, <2>1 DEF JobsInv, JobsTyped
<1>7. JobInOrder(c)' /\ HasTheBox(c)' /\ ReadsWhatItStored(c)'
    <2>1. CASE i.at = "failed"
        BY <1>4, <2>1, EndedJob DEF SameCall, Ends
    <2>2. CASE i.at = "data"
        <3>1. job'[c].at = "data" /\ job'[c].sent = job[c].sent /\ job'[c].slips = i.slips
            BY <1>2, <1>4, <2>2 DEF SameCall
        <3>2. JobInOrder(c)'
            BY <1>1, <1>4, <1>5, <3>1 DEF JobInOrder, Running, ReadingBack
        <3>3. HasTheBox(c)'
            <4> SUFFICES ASSUME Alone(c)'
                         PROVE  BuffersIts(c)' /\ \A d \in Clients \ {c} : job'[d].at # "data"
                BY <3>1 DEF HasTheBox
            <4>1. job[c].sent = 0
                BY <1>1, <1>5 DEF JobInOrder
            <4>2. SubSeq(job'[c].body, 1, job'[c].sent) = <<>>
                BY <3>1, <4>1, SubSeqEmpty
            <4>3. BuffersIts(c)'
                BY <1>2, <1>4, <3>1, <4>2 DEF BuffersIts, Spoiling
            <4>4. \A d \in Clients \ {c} : job'[d].at # "data"
                BY <1>3, <1>4 DEF SameCall
            <4> QED
                BY <4>3, <4>4
        <3>4. ReadsWhatItStored(c)'
            BY <3>1 DEF ReadsWhatItStored, ReadingBack
        <3> QED
            BY <3>2, <3>3, <3>4
    <2> QED
        BY <1>2, <2>1, <2>2
<1>8. \A d \in Clients \ {c} : JobInOrder(d)' /\ HasTheBox(d)' /\ ReadsWhatItStored(d)'
    <2> SUFFICES ASSUME NEW d \in Clients \ {c}
                 PROVE  JobInOrder(d)' /\ HasTheBox(d)' /\ ReadsWhatItStored(d)'
        OBVIOUS
    <2>1. job[d].at = "data" => d \in met
        BY <1>3
    <2>2. i.at # "reqdata" /\ i \in JobRecord /\ slips \subseteq slips'
        BY <1>2 DEF GoesOnAs
    <2> QED
        BY <1>1, <1>2, <1>6, <2>1, <2>2, OthersKept
<1> QED
    BY <1>6, <1>7, <1>8 DEF JobsInv

LEMMA SendKeeps ==
    ASSUME JobsInv, NEW c \in Clients,
           (SendBlock(c) /\ UNCHANGED slips) \/ SendBlockTwice(c) \/ LateSend(c)
    PROVE  JobsInv'
<1>1. /\ job[c].at = "data" /\ UNCHANGED <<disk, reading, writing, firmware>>
      /\ buffer' \in Seq(Byte)
    BY SendGoes
<1>2. PICK i : /\ GoesOnAs(c, i) /\ Go(c, i, {}, {})
               /\ i.at \in {"data", "failed"} /\ i.sent <= Len(job[c].body)
               /\ /\ i.slips \cap Spoiling = {}
                  /\ buffer = SubSeq(job[c].body, 1, job[c].sent)
                  => buffer' = SubSeq(job[c].body, 1, i.sent)
    BY SendGoes
<1>3. /\ job' \in [Clients -> JobRecord] /\ mixed' \in BOOLEAN /\ slips' \in SUBSET Kinds
      /\ SameCall(job'[c], i)
      /\ job'[c].verb = job[c].verb /\ job'[c].name = job[c].name /\ job'[c].body = job[c].body
      /\ job[c].slips \subseteq job'[c].slips /\ job'[c].slips \subseteq slips'
      /\ \A d \in Clients \ {c} : SameCall(job'[d], job[d])
      /\ Alone(c)' => Alone(c)
    BY <1>2, Gone
<1>4. JobInOrder(c) /\ HasTheBox(c)
    BY DEF JobsInv
<1>5. JobsTyped'
    BY <1>1, <1>3 DEF JobsInv, JobsTyped
<1>6. JobInOrder(c)' /\ HasTheBox(c)' /\ ReadsWhatItStored(c)'
    <2>1. CASE i.at = "failed"
        BY <1>3, <2>1, EndedJob DEF SameCall, Ends
    <2>2. CASE i.at = "data"
        <3>1. job'[c].at = "data" /\ job'[c].sent = i.sent /\ job'[c].slips = i.slips
            BY <1>2, <1>3, <2>2 DEF SameCall
        <3>2. JobInOrder(c)'
            BY <1>1, <1>2, <1>3, <1>4, <3>1 DEF JobInOrder, Running, ReadingBack
        <3>3. HasTheBox(c)'
            <4> SUFFICES ASSUME Alone(c)'
                         PROVE  BuffersIts(c)' /\ \A d \in Clients \ {c} : job'[d].at # "data"
                BY <3>1 DEF HasTheBox
            <4>1. BuffersIts(c) /\ \A d \in Clients \ {c} : job[d].at # "data"
                BY <1>1, <1>3, <1>4 DEF HasTheBox
            <4>2. BuffersIts(c)'
                <5>1. "wrq" \notin i.slips => writing = job[c].name
                    BY <1>3, <3>1, <4>1 DEF BuffersIts
                <5>2. i.slips \cap Spoiling = {} => buffer = SubSeq(job[c].body, 1, job[c].sent)
                    BY <1>3, <3>1, <4>1 DEF BuffersIts
                <5> QED
                    BY <1>1, <1>2, <1>3, <3>1, <5>1, <5>2 DEF BuffersIts
            <4>3. \A d \in Clients \ {c} : job'[d].at # "data"
                BY <1>3, <4>1 DEF SameCall
            <4> QED
                BY <4>2, <4>3
        <3>4. ReadsWhatItStored(c)'
            BY <3>1 DEF ReadsWhatItStored, ReadingBack
        <3> QED
            BY <3>2, <3>3, <3>4
    <2> QED
        BY <1>2, <2>1, <2>2
<1>7. \A d \in Clients \ {c} : JobInOrder(d)' /\ HasTheBox(d)' /\ ReadsWhatItStored(d)'
    <2> SUFFICES ASSUME NEW d \in Clients \ {c}
                 PROVE  JobInOrder(d)' /\ HasTheBox(d)' /\ ReadsWhatItStored(d)'
        OBVIOUS
    <2>1. ~(job[d].at = "data" /\ Alone(d))
        BY <1>1 DEF JobsInv, HasTheBox
    <2>2. i.at # "reqdata" /\ i \in JobRecord /\ slips \subseteq slips'
        BY <1>2 DEF GoesOnAs
    <2> QED
        BY <1>1, <1>2, <1>5, <2>1, <2>2, OthersKept
<1> QED
    BY <1>5, <1>6, <1>7 DEF JobsInv

\* A close stores the buffer under the open name, and a job alone its program.
LEMMA CloseWriteStores ==
    ASSUME JobsInv, NEW c \in Clients, CloseWrite(c)
    PROVE  /\ disk' \in [Names -> Seq(Byte) \cup {Absent}]
           /\ \A n \in Names \ {writing} : disk'[n] = disk[n]
           /\ Alone(c) /\ "wrq" \notin job[c].slips =>
                 \A n \in Names \ {job[c].name} : disk'[n] = disk[n]
           /\ Alone(c) /\ job[c].slips \cap Spoiling = {} =>
                 disk' = [disk EXCEPT ![job[c].name] = Stored(job[c].body)]
<1>1. /\ job[c].at = "data" /\ job[c].sent = Len(job[c].body)
      /\ IF writing = NoName
         THEN UNCHANGED disk
         ELSE disk' = [disk EXCEPT ![writing] = Stored(buffer)]
    BY DEF CloseWrite
<1>2. Stored(buffer) \in Seq(Byte)
    BY StoredFacts DEF JobsInv, JobsTyped
<1>3. job[c].body \in Seq(Byte) /\ job[c].name \in Names /\ HasTheBox(c)
    BY <1>1, JobFacts DEF JobInOrder, Running
<1>4. /\ disk' \in [Names -> Seq(Byte) \cup {Absent}]
      /\ \A n \in Names \ {writing} : disk'[n] = disk[n]
    BY <1>1, <1>2 DEF JobsInv, JobsTyped
<1>5. Alone(c) /\ "wrq" \notin job[c].slips => writing = job[c].name
    BY <1>1, <1>3 DEF HasTheBox, BuffersIts
<1>6. ASSUME Alone(c), job[c].slips \cap Spoiling = {}
      PROVE  disk' = [disk EXCEPT ![job[c].name] = Stored(job[c].body)]
    <2>1. "wrq" \notin job[c].slips
        BY <1>6 DEF Spoiling
    <2>2. buffer = SubSeq(job[c].body, 1, job[c].sent)
        BY <1>1, <1>3, <1>6 DEF HasTheBox, BuffersIts
    <2>3. buffer = job[c].body
        BY <1>1, <1>3, <2>2, WholeText
    <2> QED
        BY <1>1, <1>3, <1>5, <1>6, <2>1, <2>3, NameAssumption
<1> QED
    BY <1>4, <1>5, <1>6

LEMMA CloseKeeps ==
    ASSUME JobsInv, NEW c \in Clients, (CloseWrite(c) /\ UNCHANGED slips) \/ LateClose(c)
    PROVE  JobsInv'
<1>1. job[c].at = "data" /\ job[c].verb = "upload" /\ UNCHANGED <<reading, buffer, firmware>>
    BY CloseGoes
<1>2. PICK i, hit :
          /\ GoesOnAs(c, i) /\ Go(c, i, {}, hit)
          /\ \/ i.at = "failed"
             \/ /\ i.at = IF job[c].check THEN "dl_open" ELSE "ok"
                /\ i.size = IF job[c].body = <<>> THEN NoSize ELSE Len(job[c].body)
          /\ \/ CloseWrite(c) /\ hit = AtWork(c, {job[c].name, writing}) /\ i.slips = job[c].slips
             \/ UNCHANGED <<disk, writing>> /\ hit = {} /\ "close" \in i.slips
    BY CloseGoes
<1>3. /\ job' \in [Clients -> JobRecord] /\ mixed' \in BOOLEAN /\ slips' \in SUBSET Kinds
      /\ SameCall(job'[c], i) /\ (job'[c].crossed <=> job[c].crossed)
      /\ job'[c].verb = job[c].verb /\ job'[c].name = job[c].name
      /\ job'[c].body = job[c].body /\ job'[c].check = job[c].check
      /\ job'[c].slips \subseteq slips'
    BY <1>2, Gone
<1>4. job[c].name \in Names
    BY <1>1, JobFacts DEF JobInOrder, Running
<1>5. /\ disk' \in [Names -> Seq(Byte) \cup {Absent}] /\ writing' \in Names \cup {NoName}
      /\ \A d \in Clients \ {c} : Running(d) /\ d \notin hit => disk'[job[d].name] = disk[job[d].name]
    <2>1. CASE CloseWrite(c) /\ hit = AtWork(c, {job[c].name, writing})
        <3>1. /\ disk' \in [Names -> Seq(Byte) \cup {Absent}] /\ writing' = NoName
              /\ \A n \in Names \ {writing} : disk'[n] = disk[n]
            BY <2>1, CloseWriteStores DEF CloseWrite
        <3>2. \A d \in Clients \ {c} : Running(d) => job[d].name \in Names
            BY DEF JobsInv, JobInOrder
        <3> QED
            BY <2>1, <3>1, <3>2 DEF AtWork
    <2>2. CASE UNCHANGED <<disk, writing>>
        BY <2>2 DEF JobsInv, JobsTyped
    <2> QED
        BY <1>2, <2>1, <2>2
<1>6. JobsTyped'
    BY <1>1, <1>3, <1>5 DEF JobsInv, JobsTyped
<1>7. JobInOrder(c)' /\ HasTheBox(c)' /\ ReadsWhatItStored(c)'
    <2>1. CASE i.at \in Ends
        BY <1>3, <2>1, EndedJob DEF SameCall
    <2>2. CASE i.at \notin Ends
        <3>1. /\ job'[c].at = "dl_open" /\ job'[c].check /\ job'[c].slips = i.slips
              /\ job'[c].size = IF job[c].body = <<>> THEN NoSize ELSE Len(job[c].body)
            BY <1>2, <1>3, <2>2 DEF SameCall, Ends
        <3>2. JobInOrder(c)'
            BY <1>1, <1>3, <1>4, <3>1 DEF JobInOrder, Running, ReadingBack
        <3>3. HasTheBox(c)'
            BY <3>1 DEF HasTheBox
        <3>4. ReadsWhatItStored(c)'
            <4> SUFFICES ASSUME ~job'[c].crossed, job'[c].slips = {}
                         PROVE  disk'[job[c].name] = Stored(job[c].body)'
                BY <1>3 DEF ReadsWhatItStored
            <4>1. CloseWrite(c) /\ job[c].slips = {} /\ Alone(c)
                BY <1>2, <1>3, <3>1 DEF Alone
            <4>2. disk' = [disk EXCEPT ![job[c].name] = Stored(job[c].body)]
                BY <4>1, CloseWriteStores
            <4>3. disk'[job[c].name] = Stored(job[c].body)
                BY <1>4, <4>2 DEF JobsInv, JobsTyped
            <4> QED
                BY <1>1, <1>3, <4>3 DEF Stored
        <3> QED
            BY <3>2, <3>3, <3>4
    <2> QED
        BY <2>1, <2>2
<1>8. \A d \in Clients \ {c} : JobInOrder(d)' /\ HasTheBox(d)' /\ ReadsWhatItStored(d)'
    <2> SUFFICES ASSUME NEW d \in Clients \ {c}
                 PROVE  JobInOrder(d)' /\ HasTheBox(d)' /\ ReadsWhatItStored(d)'
        OBVIOUS
    <2>1. ~(job[d].at = "data" /\ Alone(d))
        BY <1>1 DEF JobsInv, HasTheBox
    <2>2. i.at # "reqdata" /\ i \in JobRecord /\ slips \subseteq slips'
        BY <1>2 DEF GoesOnAs, Ends
    <2> QED
        BY <1>1, <1>2, <1>5, <1>6, <2>1, <2>2, OthersKept
<1> QED
    BY <1>6, <1>7, <1>8 DEF JobsInv

LEMMA OpenReadKeeps ==
    ASSUME JobsInv, NEW c \in Clients, (OpenRead(c) /\ UNCHANGED slips) \/ LateOpenRead(c)
    PROVE  JobsInv'
<1> DEFINE met == Busy(c, "reqdata")
<1>1. job[c].at = "dl_open" /\ UNCHANGED <<disk, writing, buffer, firmware>>
    BY OpenReadGoes
<1>2. PICK i : /\ GoesOnAs(c, i) /\ Go(c, i, met, {})
               /\ i.at \in {"reqdata", "failed"} /\ i.size = job[c].size
               /\ \/ "dl_open" \in i.slips /\ reading' = reading
                  \/ reading' = job[c].name
    BY OpenReadGoes
<1>3. \A d \in Clients \ {c} : d \in met <=> job[d].at = "reqdata"
    BY DEF Busy
<1> HIDE DEF met
<1>4. /\ job' \in [Clients -> JobRecord] /\ mixed' \in BOOLEAN /\ slips' \in SUBSET Kinds
      /\ SameCall(job'[c], i) /\ (job'[c].crossed <=> job[c].crossed \/ met # {})
      /\ job'[c].verb = job[c].verb /\ job'[c].name = job[c].name
      /\ job'[c].body = job[c].body /\ job'[c].check = job[c].check
      /\ job[c].slips \subseteq job'[c].slips /\ job'[c].slips \subseteq slips'
      /\ \A d \in Clients \ {c} : SameCall(job'[d], job[d])
      /\ Alone(c)' => met = {} /\ Alone(c)
    BY <1>2, Gone
<1>5. JobInOrder(c) /\ ReadsWhatItStored(c) /\ job[c].name \in Names
    BY <1>1, JobFacts DEF JobInOrder, Running
<1>6. JobsTyped'
    BY <1>1, <1>2, <1>4, <1>5 DEF JobsInv, JobsTyped
<1>7. JobInOrder(c)' /\ HasTheBox(c)' /\ ReadsWhatItStored(c)'
    <2>1. CASE i.at = "failed"
        BY <1>4, <2>1, EndedJob DEF SameCall, Ends
    <2>2. CASE i.at = "reqdata"
        <3>1. job'[c].at = "reqdata" /\ job'[c].size = job[c].size /\ job'[c].slips = i.slips
            BY <1>2, <1>4, <2>2 DEF SameCall
        <3>2. JobInOrder(c)'
            BY <1>1, <1>4, <1>5, <3>1 DEF JobInOrder, Running, ReadingBack
        <3>3. HasTheBox(c)'
            <4> SUFFICES ASSUME Alone(c)'
                         PROVE  ReadsIts(c)' /\ \A d \in Clients \ {c} : job'[d].at # "reqdata"
                BY <3>1 DEF HasTheBox
            <4>1. \A d \in Clients \ {c} : job'[d].at # "reqdata"
                BY <1>3, <1>4 DEF SameCall
            <4> QED
                BY <1>2, <1>4, <3>1, <4>1 DEF ReadsIts
        <3>4. ReadsWhatItStored(c)'
            <4> SUFFICES ASSUME ReadingBack(c)', ~job'[c].crossed, job'[c].slips = {}
                         PROVE  disk'[job'[c].name] = Stored(job[c].body)'
                BY <1>4 DEF ReadsWhatItStored, Stored
            <4>1. ReadingBack(c) /\ ~job[c].crossed /\ job[c].slips = {}
                BY <1>1, <1>4, <3>1 DEF ReadingBack
            <4>2. disk[job[c].name] = Stored(job[c].body)
                BY <1>5, <4>1 DEF ReadsWhatItStored
            <4> QED
                BY <1>1, <1>4, <4>2 DEF Stored
        <3> QED
            BY <3>2, <3>3, <3>4
    <2> QED
        BY <1>2, <2>1, <2>2
<1>8. \A d \in Clients \ {c} : JobInOrder(d)' /\ HasTheBox(d)' /\ ReadsWhatItStored(d)'
    <2> SUFFICES ASSUME NEW d \in Clients \ {c}
                 PROVE  JobInOrder(d)' /\ HasTheBox(d)' /\ ReadsWhatItStored(d)'
        OBVIOUS
    <2>1. job[d].at = "reqdata" => d \in met
        BY <1>3
    <2>2. i.at # "data" /\ i \in JobRecord /\ slips \subseteq slips'
        BY <1>2 DEF GoesOnAs
    <2> QED
        BY <1>1, <1>2, <1>6, <2>1, <2>2, OthersKept
<1> QED
    BY <1>6, <1>7, <1>8 DEF JobsInv

LEMMA EndKeeps ==
    ASSUME JobsInv, NEW c \in Clients,
           \/ ((Running(c) /\ Unheard(c)) \/ ReadFile(c)) /\ UNCHANGED slips
           \/ LateRead(c) \/ LateDelete(c)
    PROVE  JobsInv'
<1>1. UNCHANGED <<disk, reading, writing, buffer, firmware>>
    BY EndGoes DEF boxVars
<1>2. PICK i : GoesOnAs(c, i) /\ Go(c, i, {}, {}) /\ i.at \in Ends
    BY EndGoes
<1>3. /\ job' \in [Clients -> JobRecord] /\ mixed' \in BOOLEAN /\ slips' \in SUBSET Kinds
      /\ SameCall(job'[c], i) /\ job'[c].slips \subseteq slips'
    BY <1>2, Gone
<1>4. JobsTyped'
    BY <1>1, <1>3 DEF JobsInv, JobsTyped
<1>5. JobInOrder(c)' /\ HasTheBox(c)' /\ ReadsWhatItStored(c)'
    BY <1>2, <1>3, EndedJob DEF SameCall
<1>6. i.at # "data" /\ i.at # "reqdata" /\ i \in JobRecord /\ slips \subseteq slips'
    BY <1>2 DEF Ends, GoesOnAs
<1>7. \A d \in Clients \ {c} : JobInOrder(d)' /\ HasTheBox(d)' /\ ReadsWhatItStored(d)'
    BY <1>1, <1>2, <1>4, <1>6, OthersKept
<1> QED
    BY <1>4, <1>5, <1>7 DEF JobsInv

LEMMA DeleteFileKeeps ==
    ASSUME JobsInv, NEW c \in Clients, DeleteFile(c), UNCHANGED slips
    PROVE  JobsInv'
<1> DEFINE hit == AtWork(c, {job[c].name})
<1>1. /\ job[c].at = "delete" /\ job[c].verb = "delete"
      /\ disk' = [disk EXCEPT ![job[c].name] = Absent]
      /\ UNCHANGED <<reading, writing, buffer, firmware>>
    BY DeleteGoes
<1>2. PICK i : GoesOnAs(c, i) /\ Go(c, i, {}, hit) /\ i.at \in {"ok", "failed", "delete"}
    BY DeleteGoes
<1>3. \A d \in Clients \ {c} : Running(d) /\ d \notin hit => job[d].name # job[c].name
    BY DEF AtWork
<1> HIDE DEF hit
<1>4. /\ job' \in [Clients -> JobRecord] /\ mixed' \in BOOLEAN /\ slips' \in SUBSET Kinds
      /\ SameCall(job'[c], i)
      /\ job'[c].verb = job[c].verb /\ job'[c].name = job[c].name
      /\ job'[c].slips \subseteq slips'
    BY <1>2, Gone
<1>5. JobsTyped'
    BY <1>1, <1>4 DEF JobsInv, JobsTyped
<1>6. JobInOrder(c)' /\ HasTheBox(c)' /\ ReadsWhatItStored(c)'
    <2>1. CASE i.at \in Ends
        BY <1>4, <2>1, EndedJob DEF SameCall
    <2>2. CASE i.at = "delete"
        <3>1. job'[c].at = "delete" /\ job'[c].verb = "delete" /\ job'[c].name \in Names
            BY <1>1, <1>4, <2>2, JobFacts DEF SameCall, JobInOrder, Running
        <3>2. JobInOrder(c)'
            BY <1>4, <3>1 DEF JobInOrder, ReadingBack
        <3>3. HasTheBox(c)' /\ ReadsWhatItStored(c)'
            BY <3>1 DEF HasTheBox, ReadsWhatItStored, ReadingBack
        <3> QED
            BY <3>2, <3>3
    <2> QED
        BY <1>2, <2>1, <2>2 DEF Ends
<1>7. i.at # "data" /\ i.at # "reqdata" /\ i \in JobRecord /\ slips \subseteq slips'
    BY <1>2 DEF GoesOnAs
<1>8. ASSUME NEW d \in Clients \ {c}
      PROVE  JobInOrder(d)' /\ HasTheBox(d)' /\ ReadsWhatItStored(d)'
    <2>1. Running(d) /\ d \notin hit => disk'[job[d].name] = disk[job[d].name]
        BY <1>1, <1>3 DEF JobsInv, JobsTyped, JobInOrder
    <2> QED
        BY <1>1, <1>2, <1>5, <1>7, <2>1, OthersKept
<1> QED
    BY <1>5, <1>6, <1>8 DEF JobsInv

LEMMA ExchangeKeeps ==
    ASSUME JobsInv, NEW c \in Clients, Exchange(c)
    PROVE  JobsInv'
<1>1. CASE (OpenWrite(c) /\ UNCHANGED slips) \/ LateOpenWrite(c)
    BY <1>1, OpenWriteKeeps
<1>2. CASE (SendBlock(c) /\ UNCHANGED slips) \/ SendBlockTwice(c) \/ LateSend(c)
    BY <1>2, SendKeeps
<1>3. CASE (CloseWrite(c) /\ UNCHANGED slips) \/ LateClose(c)
    BY <1>3, CloseKeeps
<1>4. CASE (OpenRead(c) /\ UNCHANGED slips) \/ LateOpenRead(c)
    BY <1>4, OpenReadKeeps
<1>5. CASE (((Running(c) /\ Unheard(c)) \/ ReadFile(c)) /\ UNCHANGED slips) \/ LateRead(c) \/ LateDelete(c)
    BY <1>5, EndKeeps
<1>6. CASE DeleteFile(c) /\ UNCHANGED slips
    BY <1>6, DeleteFileKeeps
<1> QED
    BY <1>1, <1>2, <1>3, <1>4, <1>5, <1>6, ExchangeMeans

-----------------------------------------------------------------------------
(* What an exchange does.                                                    *)

\* An exchange moves its own job on, and no other.
LEMMA ExchangeFacts ==
    ASSUME JobsInv, NEW c \in Clients, Exchange(c)
    PROVE  /\ Running(c) /\ firmware' = firmware
           /\ mixed => mixed'
           /\ \A d \in Clients \ {c} : SameCall(job'[d], job[d])
           /\ job'[c].at # "none" /\ job'[c].verb = job[c].verb /\ job'[c].name = job[c].name
           /\ job'[c].body = job[c].body /\ job'[c].check = job[c].check
           /\ job[c].verb # "upload" => job'[c].size = job[c].size
           /\ job[c].crossed => job'[c].crossed
           /\ job[c].slips \subseteq job'[c].slips /\ job'[c].slips \subseteq slips'
           /\ slips \subseteq slips' /\ slips' \in SUBSET Kinds
<1>1. Running(c) /\ firmware' = firmware /\ \E i, met, hit : GoesOnAs(c, i) /\ Go(c, i, met, hit)
    <2>1. CASE (OpenWrite(c) /\ UNCHANGED slips) \/ LateOpenWrite(c)
        BY <2>1, OpenWriteGoes DEF Running
    <2>2. CASE (SendBlock(c) /\ UNCHANGED slips) \/ SendBlockTwice(c) \/ LateSend(c)
        BY <2>2, SendGoes DEF Running
    <2>3. CASE (CloseWrite(c) /\ UNCHANGED slips) \/ LateClose(c)
        BY <2>3, CloseGoes DEF Running
    <2>4. CASE (OpenRead(c) /\ UNCHANGED slips) \/ LateOpenRead(c)
        BY <2>4, OpenReadGoes DEF Running
    <2>5. CASE (((Running(c) /\ Unheard(c)) \/ ReadFile(c)) /\ UNCHANGED slips) \/ LateRead(c) \/ LateDelete(c)
        BY <2>5, EndGoes DEF boxVars
    <2>6. CASE DeleteFile(c) /\ UNCHANGED slips
        BY <2>6, DeleteGoes DEF Running
    <2> QED
        BY <2>1, <2>2, <2>3, <2>4, <2>5, <2>6, ExchangeMeans
<1>2. PICK i, met, hit : GoesOnAs(c, i) /\ Go(c, i, met, hit)
    BY <1>1
<1>3. i.at # "none"
    BY <1>2 DEF GoesOnAs, Places, Ends
<1> QED
    BY <1>1, <1>2, <1>3, Gone DEF SameCall, GoesOnAs

\* A job alone writes under its own name: its whole program, or nothing.
LEMMA ExchangeWrites ==
    ASSUME JobsInv, NEW c \in Clients, Exchange(c), Alone(c)
    PROVE  /\ job[c].name \in Names
           /\ \/ disk' = disk
              \/ /\ job[c].verb = "upload"
                 /\ "wrq" \notin job[c].slips => \A n \in Names \ {job[c].name} : disk'[n] = disk[n]
                 /\ job[c].slips \cap Spoiling = {} =>
                       disk' = [disk EXCEPT ![job[c].name] = Stored(job[c].body)]
              \/ job[c].verb = "delete" /\ disk' = [disk EXCEPT ![job[c].name] = Absent]
<1>1. JobInOrder(c) /\ job[c].name \in Names
    BY ExchangeFacts DEF JobsInv, JobInOrder
<1>2. CASE CloseWrite(c)
    <2>1. job[c].verb = "upload"
        BY <1>1, <1>2 DEF CloseWrite, JobInOrder
    <2> QED
        BY <1>1, <1>2, <2>1, CloseWriteStores
<1>3. CASE DeleteFile(c)
    BY <1>1, <1>3 DEF DeleteFile, JobInOrder
<1>4. CASE \/ Unheard(c) \/ OpenWrite(c) \/ SendBlock(c) \/ OpenRead(c) \/ ReadFile(c)
           \/ SendBlockTwice(c) \/ LateReply(c)
    <2>1. disk' = disk
        BY <1>4 DEF Unheard, OpenWrite, SendBlock, OpenRead, ReadFile, SendBlockTwice, LateReply, boxVars
    <2> QED
        BY <1>1, <2>1
<1> QED
    BY <1>2, <1>3, <1>4 DEF Exchange

\* A download that got no more than its size of a file got the whole of it, if
\* the size is none or no multiple of a block.
LEMMA WholeOrMore ==
    ASSUME NEW f \in Seq(Byte), NEW size \in Nat \cup {NoSize}, size = NoSize \/ size % BLOCK # 0,
           ~(size # NoSize /\ Len(Whole(f, size)) > size)
    PROVE  Whole(f, size) = f
<1>1. Len(f) \in Nat
    BY LenProperties
<1>2. CASE size = NoSize \/ Len(f) <= size
    BY <1>2, WholeFacts
<1>3. CASE ~(size = NoSize \/ Len(f) <= size)
    <2> DEFINE n == size + BLOCK - 1
               q == n \div BLOCK
               upTo == q * BLOCK
               k == IF upTo < Len(f) THEN upTo ELSE Len(f)
    <2>1. size \in Nat /\ size # NoSize /\ Len(f) > size /\ size % BLOCK # 0
        BY <1>1, <1>3
    <2>2. Whole(f, size) = SubSeq(f, 1, k)
        BY <2>1, Zenon DEF Whole
    <2>3. upTo \in Nat /\ size < upTo
        <3>1. n \in Nat /\ BLOCK \in Nat \ {0} /\ n = size + BLOCK - 1
            BY <2>1, BlockAssumption
        <3> HIDE DEF n
        <3>2. q \in Nat /\ n = (BLOCK * q) + (n % BLOCK) /\ n % BLOCK \in Nat /\ n % BLOCK < BLOCK
            BY <3>1
        <3> HIDE DEF q
        <3>3. q * BLOCK \in Nat /\ q * BLOCK = BLOCK * q
            BY <3>1, <3>2
        <3>4. size # q * BLOCK
            <4> SUFFICES ASSUME size = q * BLOCK PROVE FALSE
                OBVIOUS
            <4>1. size % BLOCK = 0
                BY <3>1, <3>2
            <4> QED
                BY <2>1, <4>1
        <3> QED
            BY <2>1, <3>1, <3>2, <3>3, <3>4
    <2> HIDE DEF upTo
    <2>4. k \in Nat /\ k <= Len(f) /\ size < k
        BY <1>1, <2>1, <2>3
    <2> HIDE DEF k
    <2>5. Len(SubSeq(f, 1, k)) = k
        <3>1. \A i \in 1..k : f[i] \in Byte
            <4>1. \A i \in 1..k : i \in 1..Len(f)
                BY <1>1, <2>4
            <4> QED
                BY <4>1, ElementOfSeq
        <3> QED
            BY <2>4, <3>1, SubSeqProperties
    <2> QED
        BY <2>1, <2>2, <2>4, <2>5
<1> QED
    BY <1>2, <1>3

\* What is true when the call of a job alone returns.
LEMMA OutcomeFacts ==
    ASSUME JobsInv, NEW c \in Clients, Exchange(c), job'[c].at = "ok", Alone(c)'
    PROVE  LET j == job[c]
               slipped == job'[c].slips
               proven == \/ slipped = {} /\ ~job'[c].crossed
                         \/ /\ j.body = <<>> \/ Len(j.body) % BLOCK # 0
                            /\ slipped \cap {"dl_open", "reqdata"} = {}
           IN  /\ j.verb \in {"upload", "download", "delete"} /\ j.name \in Names
               /\ j.verb = "upload" /\ ~j.check /\ slipped \cap (Spoiling \cup {"close"}) = {} =>
                     disk'[j.name] = Stored(j.body)
               /\ j.verb = "upload" /\ j.check /\ proven => disk'[j.name] = j.body
               /\ j.verb = "download" /\ slipped \cap {"dl_open", "reqdata"} = {} =>
                     /\ disk' = disk /\ disk[j.name] \in Seq(Byte)
                     /\ job'[c].got = Whole(disk[j.name], j.size)
                     /\ ~EndsInSilence(disk[j.name], j.size)
               /\ j.verb = "delete" /\ "delete" \notin slipped => disk'[j.name] = Absent
<1>1. /\ JobInOrder(c) /\ HasTheBox(c) /\ ReadsWhatItStored(c) /\ job[c] \in JobRecord
      /\ disk \in [Names -> Seq(Byte) \cup {Absent}]
      /\ job[c].body \in Seq(Byte) /\ Len(job[c].body) \in Nat /\ job[c].size \in Nat \cup {NoSize}
    BY JobFacts DEF JobsInv, JobsTyped
<1>2. /\ job[c].name \in Names /\ Alone(c)
      /\ ~job'[c].crossed => ~job[c].crossed
      /\ job[c].slips \subseteq job'[c].slips
    BY <1>1, ExchangeFacts DEF JobInOrder, Alone
<1>3. ASSUME NEW i, GoesOnAs(c, i), NEW met, NEW hit, Go(c, i, met, hit)
      PROVE  i.at = "ok" /\ i.slips = job'[c].slips /\ i.got = job'[c].got
    BY <1>3, Gone DEF SameCall
<1>4. CASE (OpenWrite(c) /\ UNCHANGED slips) \/ LateOpenWrite(c)
    BY <1>3, <1>4, OpenWriteGoes
<1>5. CASE (SendBlock(c) /\ UNCHANGED slips) \/ SendBlockTwice(c) \/ LateSend(c)
    BY <1>3, <1>5, SendGoes
<1>6. CASE (OpenRead(c) /\ UNCHANGED slips) \/ LateOpenRead(c)
    BY <1>3, <1>6, OpenReadGoes
<1>7. CASE (CloseWrite(c) /\ UNCHANGED slips) \/ LateClose(c)
    <2>1. job[c].verb = "upload"
        BY <1>7, CloseGoes
    <2>2. PICK i, hit :
             /\ GoesOnAs(c, i) /\ Go(c, i, {}, hit)
             /\ i.at = "failed" \/ i.at = IF job[c].check THEN "dl_open" ELSE "ok"
             /\ CloseWrite(c) \/ "close" \in i.slips
        BY <1>7, CloseGoes
    <2>3. ~job[c].check /\ (CloseWrite(c) \/ "close" \in job'[c].slips)
        BY <1>3, <2>2
    <2>4. ASSUME job'[c].slips \cap (Spoiling \cup {"close"}) = {}
          PROVE  disk'[job[c].name] = Stored(job[c].body)
        <3>1. CloseWrite(c) /\ job[c].slips \cap Spoiling = {}
            BY <1>2, <2>3, <2>4
        <3>2. disk' = [disk EXCEPT ![job[c].name] = Stored(job[c].body)]
            BY <1>2, <3>1, CloseWriteStores
        <3> QED
            BY <1>1, <1>2, <3>2
    <2> QED
        BY <1>2, <2>1, <2>3, <2>4
<1>8. CASE DeleteFile(c) /\ UNCHANGED slips
    <2>1. job[c].verb = "delete" /\ disk' = [disk EXCEPT ![job[c].name] = Absent]
        BY <1>8, DeleteGoes
    <2> QED
        BY <1>1, <1>2, <2>1
<1>9. CASE (((Running(c) /\ Unheard(c)) \/ ReadFile(c)) /\ UNCHANGED slips) \/ LateRead(c) \/ LateDelete(c)
    <2>1. disk' = disk
        BY <1>9, EndGoes DEF boxVars
    <2>2. PICK i : /\ GoesOnAs(c, i) /\ Go(c, i, {}, {})
                   /\ i.at = "ok" =>
                         \/ ReadFile(c) /\ UNCHANGED slips
                         \/ job[c].at = "reqdata" /\ "reqdata" \in i.slips
                         \/ job[c].at = "delete" /\ "delete" \in i.slips
        BY <1>9, EndGoes
    <2>3. \/ ReadFile(c) /\ UNCHANGED slips
          \/ job[c].at = "reqdata" /\ "reqdata" \in job'[c].slips
          \/ job[c].at = "delete" /\ "delete" \in job'[c].slips
        BY <1>3, <2>2
    <2>4. CASE job[c].at = "delete" /\ "delete" \in job'[c].slips
        BY <1>1, <1>2, <2>4 DEF JobInOrder
    <2>5. CASE job[c].at = "reqdata" /\ "reqdata" \in job'[c].slips
        BY <1>1, <1>2, <2>5 DEF JobInOrder, ReadingBack
    <2>6. CASE ReadFile(c) /\ UNCHANGED slips
        <3> DEFINE f == disk[reading]
        <3>1. job[c].at = "reqdata" /\ f \in Seq(Byte)
            BY <2>6, ReadFileGets
        <3>2. PICK k : /\ GoesOnAs(c, k) /\ Go(c, k, {}, {})
                       /\ k.at = "ok" =>
                             /\ ~EndsInSilence(f, job[c].size)
                             /\ k.got = Whole(f, job[c].size)
                             /\ ~(job[c].size # NoSize /\ Len(k.got) > job[c].size)
                             /\ job[c].check => k.got = job[c].body
            BY <2>6, ReadFileGets
        <3>3. /\ ~EndsInSilence(f, job[c].size)
              /\ job'[c].got = Whole(f, job[c].size)
              /\ ~(job[c].size # NoSize /\ Len(Whole(f, job[c].size)) > job[c].size)
              /\ job[c].check => Whole(f, job[c].size) = job[c].body
            BY <1>3, <3>2
        <3>4. "dl_open" \notin job'[c].slips => reading = job[c].name
            BY <1>1, <1>2, <3>1 DEF HasTheBox, ReadsIts
        <3>5. job[c].verb \in {"upload", "download"} /\ (job[c].verb = "upload" => ReadingBack(c))
            BY <1>1, <3>1 DEF JobInOrder, ReadingBack
        <3>6. job[c].verb = "upload" =>
                 /\ job[c].check
                 /\ job[c].size = IF job[c].body = <<>> THEN NoSize ELSE Len(job[c].body)
            BY <1>1, <3>5 DEF JobInOrder
        <3>7. ASSUME job[c].verb = "upload", job'[c].slips = {}, ~job'[c].crossed
              PROVE  disk'[job[c].name] = job[c].body
            <4>1. disk[job[c].name] = Stored(job[c].body) /\ reading = job[c].name
                BY <1>1, <1>2, <3>4, <3>5, <3>7 DEF ReadsWhatItStored
            <4>2. /\ Stored(job[c].body) \in Seq(Byte)
                  /\ Len(Stored(job[c].body)) <= Len(job[c].body)
                BY <1>1, StoredFacts
            <4>3. Whole(Stored(job[c].body), job[c].size) = Stored(job[c].body)
                BY <1>1, <3>6, <3>7, <4>2, WholeFacts
            <4> QED
                BY <2>1, <3>3, <3>6, <3>7, <4>1, <4>3
        <3>8. ASSUME job[c].verb = "upload", job'[c].slips \cap {"dl_open", "reqdata"} = {},
                     job[c].body = <<>> \/ Len(job[c].body) % BLOCK # 0
              PROVE  disk'[job[c].name] = job[c].body
            <4>1. reading = job[c].name
                BY <3>4, <3>8
            <4>2. job[c].size = NoSize \/ job[c].size % BLOCK # 0
                BY <3>6, <3>8
            <4>3. Whole(f, job[c].size) = f
                <5> DEFINE size == job[c].size
                <5>1. size \in Nat \cup {NoSize} /\ (size = NoSize \/ size % BLOCK # 0)
                      /\ ~(size # NoSize /\ Len(Whole(f, size)) > size)
                    BY <1>1, <3>3, <4>2
                <5> HIDE DEF f, size
                <5>2. Whole(f, size) = f
                    BY <3>1, <5>1, WholeOrMore
                <5> QED
                    BY <5>2 DEF size
            <4> QED
                BY <2>1, <3>3, <3>6, <3>8, <4>1, <4>3
        <3>9. ASSUME job[c].verb = "download", job'[c].slips \cap {"dl_open", "reqdata"} = {}
              PROVE  /\ disk' = disk /\ disk[job[c].name] \in Seq(Byte)
                     /\ job'[c].got = Whole(disk[job[c].name], job[c].size)
                     /\ ~EndsInSilence(disk[job[c].name], job[c].size)
            BY <2>1, <3>1, <3>3, <3>4, <3>9
        <3> QED
            BY <1>2, <3>5, <3>6, <3>7, <3>8, <3>9
    <2> QED
        BY <2>3, <2>4, <2>5, <2>6
<1> QED
    BY <1>4, <1>5, <1>6, <1>7, <1>8, <1>9, ExchangeMeans

-----------------------------------------------------------------------------
(* New calls.                                                                *)

LEMMA NoJobIsFresh == NoJob \in JobRecord /\ Fresh(NoJob) /\ NoJob.at = "none"
<1>1. <<>> \in Seq(Byte)
    BY EmptySeq
<1> QED
    BY <1>1 DEF NoJob, JobRecord, Fresh

LEMMA UploadIsFresh ==
    ASSUME NEW c \in Clients, NEW n \in Names, NEW body \in Seq(Byte), NEW check \in BOOLEAN,
           Upload(c, n, body, check)
    PROVE  \E j \in JobRecord :
              /\ Fresh(j) /\ job' = [job EXCEPT ![c] = j]
              /\ j.at = "wrq" /\ j.verb = "upload" /\ j.name = n /\ j.body = body /\ j.check = check
<1> DEFINE j == [NoJob EXCEPT !.at = "wrq", !.verb = "upload", !.name = n, !.body = body,
                              !.check = check]
<1>1. NoJob \in JobRecord /\ NoJob.sent = 0 /\ NoJob.slips = {}
    BY NoJobIsFresh DEF NoJob
<1>2. /\ j \in JobRecord /\ Fresh(j)
      /\ j.at = "wrq" /\ j.verb = "upload" /\ j.name = n /\ j.body = body /\ j.check = check
    BY <1>1 DEF JobRecord, Fresh
<1>3. job' = [job EXCEPT ![c] = j]
    BY DEF Upload
<1> HIDE DEF j
<1> QED
    BY <1>2, <1>3

LEMMA DownloadIsFresh ==
    ASSUME NEW c \in Clients, NEW n \in Names, NEW size \in Nat \cup {NoSize},
           Download(c, n, size)
    PROVE  \E j \in JobRecord :
              /\ Fresh(j) /\ job' = [job EXCEPT ![c] = j]
              /\ j.at = "dl_open" /\ j.verb = "download" /\ j.name = n /\ j.body = <<>>
              /\ j.size = size /\ ~j.check
<1> DEFINE j == [NoJob EXCEPT !.at = "dl_open", !.verb = "download", !.name = n, !.size = size]
<1>1. NoJob \in JobRecord /\ NoJob.body = <<>> /\ NoJob.check = FALSE /\ NoJob.slips = {}
    BY NoJobIsFresh DEF NoJob
<1>2. /\ j \in JobRecord /\ Fresh(j)
      /\ j.at = "dl_open" /\ j.verb = "download" /\ j.name = n /\ j.body = <<>>
      /\ j.size = size /\ ~j.check
    BY <1>1 DEF JobRecord, Fresh
<1>3. job' = [job EXCEPT ![c] = j]
    BY DEF Download
<1> HIDE DEF j
<1> QED
    BY <1>2, <1>3

LEMMA DeleteIsFresh ==
    ASSUME NEW c \in Clients, NEW n \in Names, Delete(c, n)
    PROVE  \E j \in JobRecord :
              /\ Fresh(j) /\ job' = [job EXCEPT ![c] = j]
              /\ j.at = "delete" /\ j.verb = "delete" /\ j.name = n /\ j.body = <<>>
              /\ j.size = NoSize /\ ~j.check
<1> DEFINE j == [NoJob EXCEPT !.at = "delete", !.verb = "delete", !.name = n]
<1>1. /\ NoJob \in JobRecord /\ NoJob.body = <<>> /\ NoJob.check = FALSE /\ NoJob.size = NoSize
      /\ NoJob.slips = {}
    BY NoJobIsFresh DEF NoJob
<1>2. /\ j \in JobRecord /\ Fresh(j)
      /\ j.at = "delete" /\ j.verb = "delete" /\ j.name = n /\ j.body = <<>>
      /\ j.size = NoSize /\ ~j.check
    BY <1>1 DEF JobRecord, Fresh
<1>3. job' = [job EXCEPT ![c] = j]
    BY DEF Delete
<1> HIDE DEF j
<1> QED
    BY <1>2, <1>3

-----------------------------------------------------------------------------
(* The bridge.                                                               *)

LEMMA ThreadIsClient ==
    ASSUME NEW t \in Threads
    PROVE  t \in Clients /\ t # Script
BY ClientsAssumption

\* A thread's job and request, after its own step.
LEMMA ThreadStep ==
    ASSUME JobsInv, ThreadsInv, NEW t \in Threads,
           Receive(t) \/ NotFound(t) \/ Found(t) \/ EndWrite(t) \/ Respond(t)
    PROVE  /\ JobsInv' /\ ThreadsInv'
           /\ UNCHANGED <<disk, firmware, mixed, slips>>
           /\ \A d \in Clients \ {t} : job'[d] = job[d]
           /\ ~(Running(t) /\ job'[t].at = "ok")
           /\ ~Running(t) /\ (job' = job \/ \E j \in JobRecord : Fresh(j) /\ job' = [job EXCEPT ![t] = j])
<1> DEFINE Kept == UNCHANGED <<boxVars, mixed, slips>>
<1>1. /\ t \in Clients
      /\ job \in [Clients -> JobRecord]
      /\ thread \in [Threads -> [at : {"idle", "lookup", "receiving", "working"},
                                 verb : {"none", "GET", "PUT", "DELETE"}, name : Shared \cup {NoName}]]
      /\ \A s \in Threads : ThreadInOrder(s) /\ s \in Clients
    BY ThreadIsClient DEF JobsInv, JobsTyped, ThreadsInv, ThreadsTyped
<1>2. NoRequest.at = "idle" /\ NoRequest.verb = "none" /\ NoRequest.name = NoName
      /\ NoRequest \in [at : {"idle", "lookup", "receiving", "working"},
                        verb : {"none", "GET", "PUT", "DELETE"}, name : Shared \cup {NoName}]
    BY DEF NoRequest
<1>3. CASE job' = job /\ Kept /\ job[t].at = "none"
           /\ \/ \E v \in {"GET", "PUT", "DELETE"}, n \in Shared :
                    thread' = [thread EXCEPT ![t] = [at |-> "lookup", verb |-> v, name |-> n]]
              \/ thread' = [thread EXCEPT ![t] = NoRequest]
              \/ thread' = [thread EXCEPT ![t].at = "receiving"] /\ thread[t].at = "lookup"
    <2>1. JobsInv'
        <3>1. UNCHANGED <<disk, reading, writing, buffer, firmware, mixed, job, slips>>
            BY <1>3 DEF boxVars
        <3> QED
            BY <3>1 DEF JobsInv, JobsTyped, JobInOrder, HasTheBox, ReadsWhatItStored, Running,
                        ReadingBack, Alone, Stored, BuffersIts, ReadsIts
    <2>2. thread' \in [Threads -> [at : {"idle", "lookup", "receiving", "working"},
                                   verb : {"none", "GET", "PUT", "DELETE"}, name : Shared \cup {NoName}]]
          /\ thread'[t].at # "working" /\ (thread'[t].at # "idle" => thread'[t].name \in Shared /\ thread'[t].verb # "none")
          /\ \A s \in Threads \ {t} : thread'[s] = thread[s]
        <3>1. CASE \E v \in {"GET", "PUT", "DELETE"}, n \in Shared :
                      thread' = [thread EXCEPT ![t] = [at |-> "lookup", verb |-> v, name |-> n]]
            BY <1>1, <3>1
        <3>2. CASE thread' = [thread EXCEPT ![t] = NoRequest]
            BY <1>1, <1>2, <3>2
        <3>3. CASE thread' = [thread EXCEPT ![t].at = "receiving"] /\ thread[t].at = "lookup"
            BY <1>1, <3>3 DEF ThreadInOrder
        <3> QED
            BY <1>3, <3>1, <3>2, <3>3
    <2>3. ThreadsInv'
        BY <1>1, <1>3, <2>2 DEF ThreadsInv, ThreadsTyped, ThreadInOrder
    <2> QED
        BY <1>3, <2>1, <2>3 DEF boxVars, Running
<1>4. ASSUME NEW j \in JobRecord, Fresh(j), job' = [job EXCEPT ![t] = j], Kept, job[t].at \in Ends \cup {"none"},
             thread' \in [Threads -> [at : {"idle", "lookup", "receiving", "working"},
                                      verb : {"none", "GET", "PUT", "DELETE"},
                                      name : Shared \cup {NoName}]],
             \A s \in Threads \ {t} : thread'[s] = thread[s],
             thread'[t].at # "idle" => thread'[t].name \in Shared /\ thread'[t].verb # "none",
             j.at # "none" <=> thread'[t].at = "working",
             j.at # "none" => /\ j.name \in Shared
                              /\ j.verb = "upload" => j.body \in Bodies
                              /\ j.verb = "download" => j.size = NoSize
      PROVE  /\ JobsInv' /\ ThreadsInv'
             /\ UNCHANGED <<disk, firmware, mixed, slips>>
             /\ \A d \in Clients \ {t} : job'[d] = job[d]
             /\ ~(Running(t) /\ job'[t].at = "ok")
             /\ ~Running(t) /\ (job' = job \/ \E i \in JobRecord : Fresh(i) /\ job' = [job EXCEPT ![t] = i])
    <2>1. JobsInv'
        <3>1. slips \subseteq slips' /\ slips' \in SUBSET Kinds
            BY <1>4 DEF JobsInv, JobsTyped
        <3> QED
            BY <1>1, <1>4, <3>1, FreshJobKeeps
    <2>2. job'[t] = j /\ \A d \in Clients \ {t} : job'[d] = job[d]
        BY <1>1, <1>4
    <2>3. ThreadsInv'
        BY <1>1, <1>4, <2>2 DEF ThreadsInv, ThreadsTyped, ThreadInOrder
    <2>4. job'[t].at # "ok"
        BY <1>4, <2>2 DEF Fresh
    <2> QED
        BY <1>4, <2>1, <2>2, <2>3, <2>4 DEF boxVars, Running, Ends
<1>5. CASE Receive(t)
    BY <1>1, <1>3, <1>5 DEF Receive, jobVars, ThreadInOrder
<1>6. CASE NotFound(t)
    BY <1>1, <1>3, <1>6 DEF NotFound, Answer, jobVars, ThreadInOrder
<1>7. CASE Found(t)
    <2> DEFINE r == thread[t]
    <2>1. /\ r.at = "lookup" /\ r.name \in Shared /\ r.name \in Names /\ Kept
          /\ r.verb \in {"GET", "PUT", "DELETE"} /\ job[t].at = "none"
        BY <1>1, <1>7, SharedAssumption DEF Found, ThreadInOrder
    <2>2. CASE r.verb \in {"GET", "DELETE"}
        <3>1. thread' = [thread EXCEPT ![t].at = "working"]
            BY <1>7, <2>2 DEF Found
        <3>2. \/ Download(t, r.name, NoSize)
              \/ Delete(t, r.name)
            <4>1. CASE r.verb = "GET"
                BY <1>7, <4>1 DEF Found
            <4>2. CASE r.verb = "DELETE"
                BY <1>7, <4>2 DEF Found
            <4> QED
                BY <2>2, <4>1, <4>2
        <3>3. \E j \in JobRecord :
                 /\ Fresh(j) /\ job' = [job EXCEPT ![t] = j]
                 /\ j.at # "none" /\ j.verb # "upload" /\ j.name = r.name /\ j.size = NoSize
            <4>1. CASE Download(t, r.name, NoSize)
                <5>1. t \in Clients /\ r.name \in Names /\ NoSize \in Nat \cup {NoSize}
                    BY <1>1, <2>1
                <5> HIDE DEF r
                <5>2. PICK j \in JobRecord :
                         /\ Fresh(j) /\ job' = [job EXCEPT ![t] = j]
                         /\ j.at = "dl_open" /\ j.verb = "download" /\ j.name = r.name /\ j.body = <<>>
                         /\ j.size = NoSize /\ ~j.check
                    BY <4>1, <5>1, DownloadIsFresh, Zenon
                <5> QED
                    BY <5>2
            <4>2. CASE Delete(t, r.name)
                BY <1>1, <2>1, <4>2, DeleteIsFresh
            <4> QED
                BY <3>2, <4>1, <4>2
        <3>4. /\ thread' \in [Threads -> [at : {"idle", "lookup", "receiving", "working"},
                                          verb : {"none", "GET", "PUT", "DELETE"},
                                          name : Shared \cup {NoName}]]
              /\ \A s \in Threads \ {t} : thread'[s] = thread[s]
              /\ thread'[t].at = "working" /\ thread'[t].name = r.name /\ thread'[t].verb = r.verb
            BY <1>1, <3>1
        <3> QED
            BY <1>4, <2>1, <3>3, <3>4
    <2>3. CASE r.verb \notin {"GET", "DELETE"}
        <3>1. r.verb = "PUT"
            BY <2>1, <2>3
        <3>2. job' = job /\ thread' = [thread EXCEPT ![t].at = "receiving"]
            BY <1>7, <3>1 DEF Found
        <3> QED
            BY <1>3, <2>1, <3>2
    <2> QED
        BY <2>2, <2>3
<1>8. CASE EndWrite(t)
    <2>1. /\ thread[t].at = "receiving" /\ thread[t].name \in Shared /\ thread[t].name \in Names
          /\ thread[t].verb # "none" /\ Kept /\ job[t].at = "none"
        BY <1>1, <1>8, SharedAssumption DEF EndWrite, ThreadInOrder
    <2>2. CASE Answer(t) /\ UNCHANGED job
        BY <1>3, <2>1, <2>2 DEF Answer
    <2>3. CASE /\ \E body \in Bodies, check \in BOOLEAN : Upload(t, thread[t].name, body, check)
               /\ thread' = [thread EXCEPT ![t].at = "working"]
        <3>1. \E j \in JobRecord :
                 /\ Fresh(j) /\ job' = [job EXCEPT ![t] = j]
                 /\ j.at # "none" /\ j.verb = "upload" /\ j.name = thread[t].name /\ j.body \in Bodies
            <4>1. PICK body \in Bodies, check \in BOOLEAN : Upload(t, thread[t].name, body, check)
                BY <2>3
            <4>2. body \in Seq(Byte)
                BY BodiesAssumption
            <4>3. PICK j \in JobRecord :
                     /\ Fresh(j) /\ job' = [job EXCEPT ![t] = j]
                     /\ j.at = "wrq" /\ j.verb = "upload" /\ j.name = thread[t].name /\ j.body = body
                BY <1>1, <2>1, <4>1, <4>2, UploadIsFresh
            <4> QED
                BY <4>3
        <3>2. /\ thread' \in [Threads -> [at : {"idle", "lookup", "receiving", "working"},
                                          verb : {"none", "GET", "PUT", "DELETE"},
                                          name : Shared \cup {NoName}]]
              /\ \A s \in Threads \ {t} : thread'[s] = thread[s]
              /\ thread'[t].at = "working" /\ thread'[t].name = thread[t].name
              /\ thread'[t].verb = thread[t].verb
            BY <1>1, <2>3
        <3> QED
            BY <1>4, <2>1, <3>1, <3>2
    <2> QED
        BY <1>8, <2>2, <2>3 DEF EndWrite
<1>9. CASE Respond(t)
    <2>1. /\ job' = [job EXCEPT ![t] = NoJob] /\ Kept /\ job[t].at \in Ends
          /\ thread' = [thread EXCEPT ![t] = NoRequest]
        BY <1>9 DEF Respond, Answer
    <2>2. /\ thread' \in [Threads -> [at : {"idle", "lookup", "receiving", "working"},
                                      verb : {"none", "GET", "PUT", "DELETE"},
                                      name : Shared \cup {NoName}]]
          /\ \A s \in Threads \ {t} : thread'[s] = thread[s]
          /\ thread'[t].at = "idle"
        BY <1>1, <1>2, <2>1
    <2> QED
        BY <1>4, <2>1, <2>2, NoJobIsFresh
<1> QED
    BY <1>5, <1>6, <1>7, <1>8, <1>9

\* The exchanges of the bridge and of the script leave the requests as they are.
LEMMA ExchangeKeepsThreads ==
    ASSUME JobsInv, ThreadsInv, NEW c \in Clients, Exchange(c), thread' = thread
    PROVE  ThreadsInv'
<1>1. ThreadsTyped'
    BY DEF ThreadsInv, ThreadsTyped
<1>2. ASSUME NEW t \in Threads PROVE ThreadInOrder(t)'
    <2>1. ThreadInOrder(t) /\ t \in Clients
        BY ThreadIsClient DEF ThreadsInv
    <2>2. CASE t = c
        <3>1. job[t].at # "none"
            BY <2>2, ExchangeFacts DEF Running
        <3>2. /\ job'[t].at # "none" /\ job'[t].verb = job[t].verb /\ job'[t].name = job[t].name
              /\ job'[t].body = job[t].body
              /\ job[t].verb # "upload" => job'[t].size = job[t].size
            BY <2>2, ExchangeFacts
        <3> QED
            BY <2>1, <3>1, <3>2 DEF ThreadInOrder
    <2>3. CASE t # c
        <3>1. SameCall(job'[t], job[t])
            BY <2>1, <2>3, ExchangeFacts
        <3> QED
            BY <2>1, <3>1 DEF ThreadInOrder, SameCall
    <2> QED
        BY <2>2, <2>3
<1> QED
    BY <1>1, <1>2 DEF ThreadsInv

\* A thread alone changes no file but those its users ask for.
LEMMA ThreadSparesCanary ==
    ASSUME JobsInv, ThreadsInv, NEW t \in Threads, Exchange(t), ~mixed, "wrq" \notin slips
    PROVE  disk'[CANARY] = disk[CANARY]
<1>1. t \in Clients /\ Alone(t) /\ "wrq" \notin job[t].slips
    BY ThreadIsClient, JobFacts DEF Alone
<1>2. job[t].name \in Shared /\ job[t].name # CANARY
    <2>1. Running(t)
        BY <1>1, ExchangeFacts
    <2> QED
        BY <2>1, CanaryAssumption DEF Running, ThreadsInv, ThreadInOrder
<1> QED
    BY <1>1, <1>2, ExchangeWrites, CanaryAssumption DEF JobsInv, JobsTyped

-----------------------------------------------------------------------------
(* Whole programs.                                                           *)

Programs == Contents \cup Bodies \cup {CANARY_BODY, PAD}
Held == Programs \cup {Normalised(p) : p \in Programs} \cup {Absent}

\* The programs anyone uploads.
LEMMA UploadsPrograms ==
    ASSUME JobsInv, ThreadsInv, ScriptInv, NEW c \in Clients, Running(c), job[c].verb = "upload"
    PROVE  job[c].body \in Programs
<1>1. job[c].at # "none"
    BY DEF Running
<1>2. CASE c \in Threads
    BY <1>1, <1>2 DEF ThreadsInv, ThreadInOrder, Programs
<1>3. CASE c = Script
    <2>1. at \in {"uploaded", "padded"}
        BY <1>1, <1>3 DEF ScriptInv, ScriptTyped, ScriptJob, ScriptHas
    <2> QED
        BY <1>3, <2>1 DEF ScriptInv, ScriptJob, ScriptHas, Programs
<1> QED
    BY <1>2, <1>3, ClientsAssumption

LEMMA WholeProgramsMeans ==
    BoxHoldsWholePrograms <=> (~mixed /\ slips \cap Spoiling = {} => \A n \in Names : disk[n] \in Held)
BY DEF BoxHoldsWholePrograms, Held, Programs, Spoiling

\* An exchange leaves whole programs on the box.
LEMMA ExchangeKeepsPrograms ==
    ASSUME JobsInv, ThreadsInv, ScriptInv, BoxHoldsWholePrograms, NEW c \in Clients, Exchange(c)
    PROVE  BoxHoldsWholePrograms'
<1> SUFFICES ASSUME ~mixed', slips' \cap Spoiling = {} PROVE \A n \in Names : disk'[n] \in Held
    BY DEF BoxHoldsWholePrograms, Held, Programs, Spoiling
<1>1. /\ ~mixed /\ Alone(c) /\ Running(c)
      /\ slips \cap Spoiling = {} /\ job[c].slips \cap Spoiling = {}
    BY ExchangeFacts DEF Alone
<1>2. \A n \in Names : disk[n] \in Held
    BY <1>1, WholeProgramsMeans
<1>3. job[c].verb = "upload" => Stored(job[c].body) \in Held
    <2> SUFFICES ASSUME job[c].verb = "upload" PROVE Stored(job[c].body) \in Held
        OBVIOUS
    <2>1. job[c].body \in Programs
        BY <1>1, UploadsPrograms
    <2> QED
        BY <2>1 DEF Stored, Held
<1>4. Absent \in Held
    BY DEF Held
<1>5. /\ job[c].name \in Names
      /\ \/ disk' = disk
         \/ job[c].verb = "upload" /\ disk' = [disk EXCEPT ![job[c].name] = Stored(job[c].body)]
         \/ job[c].verb = "delete" /\ disk' = [disk EXCEPT ![job[c].name] = Absent]
    BY <1>1, ExchangeWrites
<1> HIDE DEF Held
<1> QED
    BY <1>2, <1>3, <1>4, <1>5 DEF JobsInv, JobsTyped

-----------------------------------------------------------------------------
(* The script and the others.                                                *)

\* The report does not depend on what the firmware never changes.
LEMMA ScriptUndisturbed ==
    ASSUME ScriptInv, UNCHANGED scriptVars, firmware' = firmware, mixed => mixed',
           slips \subseteq slips', SameCall(job'[Script], job[Script]),
           ~mixed' /\ "wrq" \notin slips' => disk'[CANARY] = disk[CANARY]
    PROVE  ScriptInv'
<1>1. at' = at /\ results' = results /\ entries' = entries
    BY DEF scriptVars
<1>2. ScriptTyped'
    BY <1>1 DEF ScriptInv, ScriptTyped
<1>3. ScriptJob'
    BY <1>1 DEF ScriptInv, ScriptJob, ScriptHas, SameCall
<1>4. Guarded'
    BY <1>1 DEF ScriptInv, Guarded, CanaryIsFree
<1>5. CanaryHolds'
    <2>1. /\ Stored(CANARY_BODY)' = Stored(CANARY_BODY) /\ Stored(PAD)' = Stored(PAD)
        BY DEF Stored
    <2>2. EndsInSilence(Stored(PAD), NoSize)' = EndsInSilence(Stored(PAD), NoSize)
        BY <2>1 DEF EndsInSilence
    <2>3. Got' = Got /\ job'[Script].at = job[Script].at
        BY DEF Got, SameCall
    <2>4. Whole(Stored(CANARY_BODY), Len(CANARY_BODY))' = Whole(Stored(CANARY_BODY), Len(CANARY_BODY))
        BY <2>1 DEF Whole
    <2>5. ~mixed' /\ slips' \subseteq {"delete", "listing"} =>
              ~mixed /\ slips \subseteq {"delete", "listing"} /\ disk'[CANARY] = disk[CANARY]
        OBVIOUS
    <2> QED
        BY <1>1, <2>1, <2>2, <2>3, <2>4, <2>5 DEF ScriptInv, CanaryHolds
<1>6. CleanAtTheEnd' /\ ReportIsTrue'
    BY <1>1 DEF ScriptInv, CleanAtTheEnd, ReportIsTrue
<1> QED
    BY <1>2, <1>3, <1>4, <1>5, <1>6 DEF ScriptInv

LEMMA BridgeKeeps ==
    ASSUME IInv, NEW t \in Threads, BridgeStep(t), UNCHANGED scriptVars
    PROVE  IInv'
<1>1. t \in Clients /\ Script \in Clients \ {t}
    BY ThreadIsClient, ClientsAssumption
<1>2. CASE Exchange(t) /\ UNCHANGED bridgeVars
    <2>1. /\ SameCall(job'[Script], job[Script]) /\ firmware' = firmware /\ (mixed => mixed')
          /\ slips \subseteq slips'
        BY <1>1, <1>2, ExchangeFacts DEF IInv
    <2>2. ~mixed' /\ "wrq" \notin slips' => disk'[CANARY] = disk[CANARY]
        BY <1>2, <2>1, ThreadSparesCanary DEF IInv
    <2>3. ScriptInv'
        BY <2>1, <2>2, ScriptUndisturbed DEF IInv
    <2>4. thread' = thread
        BY <1>2 DEF bridgeVars
    <2> QED
        BY <1>1, <1>2, <2>3, <2>4, ExchangeKeeps, ExchangeKeepsThreads, ExchangeKeepsPrograms DEF IInv
<1>3. CASE Receive(t) \/ NotFound(t) \/ Found(t) \/ EndWrite(t) \/ Respond(t)
    <2>1. /\ JobsInv' /\ ThreadsInv'
          /\ UNCHANGED <<disk, firmware, mixed, slips>>
          /\ job'[Script] = job[Script]
        BY <1>1, <1>3, ThreadStep DEF IInv
    <2>2. ScriptInv'
        BY <2>1, ScriptUndisturbed DEF IInv, SameCall
    <2>3. BoxHoldsWholePrograms'
        BY <2>1 DEF IInv, BoxHoldsWholePrograms
    <2> QED
        BY <2>1, <2>2, <2>3 DEF IInv
<1> QED
    BY <1>2, <1>3 DEF BridgeStep

\* The script's own exchanges.
LEMMA ScriptExchangeKeeps ==
    ASSUME IInv, Exchange(Script), UNCHANGED <<bridgeVars, scriptVars>>
    PROVE  IInv'
<1>1. Script \in Clients
    BY ClientsAssumption
<1>2. /\ Running(Script) /\ firmware' = firmware /\ (mixed => mixed')
      /\ job'[Script].at # "none" /\ job'[Script].verb = job[Script].verb
      /\ job'[Script].name = job[Script].name /\ job'[Script].body = job[Script].body
      /\ job'[Script].check = job[Script].check
      /\ job[Script].verb # "upload" => job'[Script].size = job[Script].size
      /\ job[Script].slips \subseteq slips /\ job'[Script].slips \subseteq slips'
      /\ slips \subseteq slips'
    BY <1>1, ExchangeFacts, JobFacts DEF IInv
<1>3. at' = at /\ results' = results /\ entries' = entries /\ thread' = thread
    BY DEF scriptVars, bridgeVars
<1>4. JobsInv' /\ ThreadsInv' /\ BoxHoldsWholePrograms'
    BY <1>1, <1>3, ExchangeKeeps, ExchangeKeepsThreads, ExchangeKeepsPrograms DEF IInv
<1>5. /\ ScriptTyped /\ ScriptJob /\ Guarded /\ CanaryHolds /\ CleanAtTheEnd /\ ReportIsTrue
      /\ job[Script].at # "none"
    BY <1>2 DEF IInv, ScriptInv, Running
<1>6. ScriptTyped' /\ Guarded' /\ CleanAtTheEnd'
    BY <1>3, <1>5 DEF ScriptTyped, Guarded, CanaryIsFree, CleanAtTheEnd
<1>7. ScriptJob'
    BY <1>2, <1>3, <1>5 DEF ScriptJob, ScriptHas
<1>8. ReportIsTrue'
    <2>1. at # "report"
        BY <1>5 DEF ScriptJob
    <2> QED
        BY <1>2, <1>3, <1>5, <2>1 DEF CleanAtTheEnd, ReportIsTrue
<1>9. CanaryHolds'
    <2> SUFFICES ASSUME ~mixed', slips' \subseteq {"delete", "listing"} PROVE CanaryHolds'
        BY DEF CanaryHolds
    <2>1. /\ ~mixed /\ Alone(Script) /\ Alone(Script)' /\ slips \subseteq {"delete", "listing"}
          /\ job'[Script].slips \cap (Spoiling \cup {"close"}) = {}
          /\ job'[Script].slips \cap {"dl_open", "reqdata"} = {}
        BY <1>2 DEF Alone, Spoiling
    <2>2. Stored(CANARY_BODY)' = Stored(CANARY_BODY) /\ Stored(PAD)' = Stored(PAD)
        BY <1>2 DEF Stored
    <2>3. EndsInSilence(Stored(PAD), NoSize)' = EndsInSilence(Stored(PAD), NoSize)
        BY <1>2, <2>2 DEF EndsInSilence
    <2>4. Whole(Stored(CANARY_BODY), Len(CANARY_BODY))' = Whole(Stored(CANARY_BODY), Len(CANARY_BODY))
        BY <2>2 DEF Whole
    <2>5. job[Script].verb = "download" => disk' = disk
        BY <1>1, <2>1, ExchangeWrites DEF IInv
    <2>6. CASE at = "uploaded"
        <3>1. /\ job[Script].verb = "upload" /\ job[Script].name = CANARY
              /\ job[Script].body = CANARY_BODY /\ ~job[Script].check
            BY <1>5, <2>6 DEF ScriptJob, ScriptHas
        <3>2. job'[Script].at = "ok" => disk'[CANARY] = Stored(CANARY_BODY)
            BY <1>1, <2>1, <3>1, OutcomeFacts DEF IInv
        <3> QED
            BY <1>3, <2>2, <2>6, <3>2 DEF CanaryHolds
    <2>7. CASE at = "padded"
        <3>1. /\ job[Script].verb = "upload" /\ job[Script].name = CANARY
              /\ job[Script].body = PAD /\ ~job[Script].check
            BY <1>5, <2>7 DEF ScriptJob, ScriptHas
        <3>2. job'[Script].at = "ok" => disk'[CANARY] = Stored(PAD)
            BY <1>1, <2>1, <3>1, OutcomeFacts DEF IInv
        <3> QED
            BY <1>3, <2>2, <2>7, <3>2 DEF CanaryHolds
    <2>8. CASE at = "compare"
        <3>1. /\ job[Script].verb = "download" /\ job[Script].name = CANARY
              /\ job[Script].size = Len(CANARY_BODY)
            BY <1>5, <2>8 DEF ScriptJob, ScriptHas
        <3>2. disk[CANARY] = Stored(CANARY_BODY)
            BY <1>5, <2>1, <2>8 DEF CanaryHolds
        <3>3. job'[Script].at = "ok" =>
                  job'[Script].got = Whole(Stored(CANARY_BODY), Len(CANARY_BODY))
            BY <1>1, <2>1, <3>1, <3>2, OutcomeFacts DEF IInv
        <3> QED
            BY <1>3, <2>2, <2>4, <2>5, <2>8, <3>1, <3>2, <3>3 DEF CanaryHolds, Got
    <2>9. CASE at = "measure"
        <3>1. /\ job[Script].verb = "download" /\ job[Script].name = CANARY
              /\ job[Script].size = NoSize
            BY <1>5, <2>9 DEF ScriptJob, ScriptHas
        <3>2. disk[CANARY] = Stored(PAD)
            BY <1>5, <2>1, <2>9 DEF CanaryHolds
        <3>3. Whole(Stored(PAD), NoSize) = Stored(PAD)
            BY DEF Whole
        <3>4. job'[Script].at = "ok" =>
                  job'[Script].got = Stored(PAD) /\ ~EndsInSilence(Stored(PAD), NoSize)
            BY <1>1, <2>1, <3>1, <3>2, <3>3, OutcomeFacts DEF IInv
        <3> QED
            BY <1>3, <2>2, <2>3, <2>5, <2>9, <3>1, <3>2, <3>4 DEF CanaryHolds, Got
    <2> QED
        BY <1>3, <2>6, <2>7, <2>8, <2>9 DEF CanaryHolds
<1> QED
    BY <1>4, <1>6, <1>7, <1>8, <1>9 DEF IInv, ScriptInv

-----------------------------------------------------------------------------
(* The checks of the script.                                                 *)

\* Where the script has no call under way.
Between == Checks \cup {"status", "info", "writing?", "report"}
PastTheGuard == {"bytes", "uploaded", "compare", "boundary", "padded", "measure", "cleanup", "deleted"}

\* A step of the script that begins a call, or none, leaves the box and the bridge alone.
LEMMA ScriptMoves ==
    ASSUME IInv, NEW j \in JobRecord, Fresh(j), job' = [job EXCEPT ![Script] = j],
           UNCHANGED <<boxVars, mixed, bridgeVars>>, slips \subseteq slips', slips' \in SUBSET Kinds,
           ScriptInv'
    PROVE  IInv'
<1>1. Script \in Clients /\ job \in [Clients -> JobRecord]
    BY ClientsAssumption DEF IInv, JobsInv, JobsTyped
<1>2. JobsInv'
    BY <1>1, FreshJobKeeps DEF IInv
<1>3. \A t \in Threads : job'[t] = job[t]
    BY <1>1, ThreadIsClient
<1>4. ThreadsInv'
    BY <1>3 DEF IInv, ThreadsInv, ThreadsTyped, ThreadInOrder, bridgeVars
<1>5. BoxHoldsWholePrograms'
    <2>1. slips' \cap {"wrq", "data", "twice"} = {} => slips \cap {"wrq", "data", "twice"} = {}
        OBVIOUS
    <2> QED
        BY <2>1 DEF IInv, BoxHoldsWholePrograms, boxVars
<1> QED
    BY <1>2, <1>4, <1>5 DEF IInv

\* What a passed check says.
Says(k, there) ==
    LET spared == ~mixed /\ slips \subseteq {"delete", "listing"}
    IN  /\ k = "listing" => firmware.marked
        /\ k = "bytes" /\ spared => ~firmware.strips
        /\ k = "boundary" /\ spared => ~firmware.strips /\ ~firmware.quiet
        /\ k = "cleanup" =>
              there = "report" /\ ("listing" \notin slips' => disk[CANARY] = Absent)

\* A step that looks at what the last call left and is done with it.
LEMMA LooksKeeps ==
    ASSUME IInv, Looks, slips \subseteq slips', slips' \in SUBSET Kinds, at # "report", at' \in Between,
           results' \in [Checks -> {"-", "PASS", "FAIL", "SKIP"}],
           \A k \in Checks : results'[k] = "PASS" => results[k] = "PASS" \/ Says(k, at'),
           entries' # NoSize => DOMAIN entries' \subseteq Names /\ entries' \in [DOMAIN entries' -> Nat],
           at' \in PastTheGuard => CanaryIsFree'
    PROVE  IInv'
<1>1. /\ job' = [job EXCEPT ![Script] = NoJob]
      /\ UNCHANGED <<boxVars, mixed, bridgeVars>>
      /\ UNCHANGED <<disk, firmware, mixed>>
    BY DEF Looks, boxVars
<1>2. job'[Script].at = "none"
    BY <1>1, NoJobIsFresh, ClientsAssumption DEF IInv, JobsInv, JobsTyped
<1>3. at' \in Checks \cup {"status", "info", "writing?", "report"}
    BY DEF Between
<1>4. ScriptTyped'
    BY <1>3 DEF ScriptTyped
<1>5. ScriptJob' /\ CanaryHolds'
    BY <1>2, <1>3 DEF ScriptJob, CanaryHolds, Checks
<1>6. Guarded'
    BY DEF Guarded, PastTheGuard
<1>7. results["cleanup"] # "PASS" /\ ReportIsTrue
    BY DEF IInv, ScriptInv, CleanAtTheEnd
<1>8. CleanAtTheEnd'
    BY <1>7 DEF CleanAtTheEnd, Says, Checks
<1>9. ReportIsTrue'
    <2>1. /\ "listing" \in Checks /\ "bytes" \in Checks
          /\ "boundary" \in Checks /\ "cleanup" \in Checks
        BY DEF Checks
    <2> QED
        BY <1>1, <1>7, <2>1 DEF ReportIsTrue, Says
<1>10. ScriptInv'
    BY <1>4, <1>5, <1>6, <1>8, <1>9 DEF ScriptInv
<1> QED
    BY <1>1, <1>10, NoJobIsFresh, ScriptMoves

LEMMA QuietKeeps ==
    ASSUME IInv, Quiet, at # "report", at' \in Between,
           results' \in [Checks -> {"-", "PASS", "FAIL", "SKIP"}],
           \A k \in Checks : results'[k] = "PASS" => results[k] = "PASS" \/ Says(k, at'),
           entries' # NoSize => DOMAIN entries' \subseteq Names /\ entries' \in [DOMAIN entries' -> Nat],
           at' \in PastTheGuard => CanaryIsFree'
    PROVE  IInv'
<1>1. Looks /\ slips \subseteq slips' /\ slips' \in SUBSET Kinds
    BY DEF Quiet, IInv, JobsInv, JobsTyped
<1> QED
    BY <1>1, LooksKeeps

\* A step that begins a call.
LEMMA StartsKeeps ==
    ASSUME IInv, NEW j \in JobRecord, Fresh(j), job' = [job EXCEPT ![Script] = j],
           UNCHANGED <<boxVars, mixed, slips, bridgeVars, results, entries>>,
           at # "report", j.at \in {"wrq", "dl_open", "delete"},
           at' \in {"downloading", "uploaded", "compare", "padded", "measure", "deleted"},
           ScriptJob',
           at' \in PastTheGuard => at \in PastTheGuard,
           at' = "compare" /\ ~mixed /\ slips \subseteq {"delete", "listing"} =>
               disk[CANARY] = Stored(CANARY_BODY),
           at' = "measure" /\ ~mixed /\ slips \subseteq {"delete", "listing"} =>
               disk[CANARY] = Stored(PAD)
    PROVE  IInv'
<1>1. UNCHANGED <<disk, firmware, mixed, slips, results, entries>>
    BY DEF boxVars
<1>2. job'[Script] = j
    BY ClientsAssumption DEF IInv, JobsInv, JobsTyped
<1>3. /\ ScriptTyped /\ Guarded /\ CleanAtTheEnd /\ ReportIsTrue
    BY DEF IInv, ScriptInv
<1>4. ScriptTyped' /\ CleanAtTheEnd' /\ ReportIsTrue'
    BY <1>1, <1>3 DEF ScriptTyped, CleanAtTheEnd, ReportIsTrue
<1>5. Guarded'
    BY <1>1, <1>3 DEF Guarded, CanaryIsFree, PastTheGuard
<1>6. CanaryHolds'
    BY <1>1, <1>2 DEF CanaryHolds, Stored
<1>7. ScriptInv'
    BY <1>4, <1>5, <1>6 DEF ScriptInv
<1>8. slips \subseteq slips' /\ slips' \in SUBSET Kinds
    BY <1>1 DEF IInv, JobsInv, JobsTyped
<1> QED
    BY <1>7, <1>8, ScriptMoves

\* What a listing shows.
LEMMA ListedFacts ==
    ASSUME JobsInv, NEW sizes \in Listings, Listed(sizes)
    PROVE  /\ DOMAIN sizes \subseteq Names /\ sizes \in [DOMAIN sizes -> Nat]
           /\ slips \subseteq slips' /\ slips' \in SUBSET Kinds
           /\ "listing" \notin slips' => sizes = Sizes
<1> DEFINE S == {m \in Names : disk[m] # Absent}
<1>1. \A n \in S : Len(disk[n]) \in Nat
    BY LenProperties DEF JobsInv, JobsTyped
<1>2. Sizes = [n \in S |-> Len(disk[n])] /\ S \subseteq Names
    BY DEF Sizes
<1> HIDE DEF S
<1>3. DOMAIN Sizes = S /\ \A n \in S : Sizes[n] \in Nat
    BY <1>1, <1>2
<1>4. PICK names \in SUBSET S : sizes = [n \in names |-> Sizes[n]]
    BY <1>3 DEF Listings
<1>5. DOMAIN sizes \subseteq Names /\ sizes \in [DOMAIN sizes -> Nat]
    BY <1>2, <1>3, <1>4
<1> QED
    BY <1>5 DEF Listed, Kinds, JobsInv, JobsTyped

LEMMA StartAndListingKeep ==
    ASSUME IInv, StatusCheck \/ InfoCheck \/ ListingCheck
    PROVE  IInv'
<1>1. /\ results \in [Checks -> {"-", "PASS", "FAIL", "SKIP"}]
      /\ entries # NoSize => DOMAIN entries \subseteq Names /\ entries \in [DOMAIN entries -> Nat]
    BY DEF IInv, ScriptInv, ScriptTyped
<1>2. CASE StatusCheck \/ InfoCheck
    <2>1. /\ Quiet /\ at # "report" /\ at' \in Between /\ at' \notin PastTheGuard
          /\ results' = results /\ entries' = entries
        BY <1>2 DEF StatusCheck, InfoCheck, Between, Checks, PastTheGuard
    <2> QED
        BY <1>1, <2>1, QuietKeeps
<1>3. CASE ListingCheck
    <2>1. /\ Looks /\ at # "report" /\ at' \in Between /\ at' \notin PastTheGuard
          /\ slips \subseteq slips' /\ slips' \in SUBSET Kinds
        BY <1>3, ListedFacts DEF ListingCheck, Between, Checks, PastTheGuard, IInv, JobsInv, JobsTyped
    <2>2. /\ results' \in [Checks -> {"-", "PASS", "FAIL", "SKIP"}]
          /\ \A k \in Checks : results'[k] = "PASS" => results[k] = "PASS" \/ Says(k, at')
        BY <1>1, <1>3 DEF ListingCheck, Result, Says, Checks
    <2>3. entries' # NoSize => DOMAIN entries' \subseteq Names /\ entries' \in [DOMAIN entries' -> Nat]
        <3>1. CASE entries' = entries
            BY <1>1, <3>1
        <3>2. CASE \E sizes \in Listings : Listed(sizes) /\ entries' = sizes
            BY <3>2, ListedFacts DEF IInv
        <3> QED
            BY <1>3, <3>1, <3>2 DEF ListingCheck
    <2> QED
        BY <2>1, <2>2, <2>3, LooksKeeps
<1> QED
    BY <1>2, <1>3

LEMMA DownloadChecksKeep ==
    ASSUME IInv, DownloadElsewhere \/ DownloadStarts \/ DownloadCheck
    PROVE  IInv'
<1>1. /\ results \in [Checks -> {"-", "PASS", "FAIL", "SKIP"}]
      /\ entries # NoSize => DOMAIN entries \subseteq Names /\ entries \in [DOMAIN entries -> Nat]
    BY DEF IInv, ScriptInv, ScriptTyped
<1>2. CASE DownloadElsewhere \/ DownloadCheck
    <2>1. /\ Quiet /\ at # "report" /\ at' \in Between /\ at' \notin PastTheGuard
          /\ entries' = entries
          /\ \E r \in {"PASS", "FAIL", "SKIP"} : Result("download", r)
        BY <1>2 DEF DownloadElsewhere, DownloadCheck, Between, Checks, PastTheGuard
    <2>2. /\ results' \in [Checks -> {"-", "PASS", "FAIL", "SKIP"}]
          /\ \A k \in Checks : results'[k] = "PASS" => results[k] = "PASS" \/ Says(k, at')
        BY <1>1, <2>1 DEF Result, Says, Checks
    <2> QED
        BY <1>1, <2>1, <2>2, QuietKeeps
<1>3. CASE DownloadStarts
    <2>1. /\ at = "download" /\ at' = "downloading"
          /\ UNCHANGED <<boxVars, mixed, slips, bridgeVars, results, entries>>
        BY <1>3 DEF DownloadStarts
    <2>2. PICK n \in Readable : Download(Script, n, IF entries[n] = 0 THEN NoSize ELSE entries[n])
        BY <1>3 DEF DownloadStarts
    <2>3. entries # NoSize /\ n \in DOMAIN entries /\ n \in Names /\ entries[n] \in Nat
        BY <1>1, <2>2 DEF Readable
    <2> DEFINE size == IF entries[n] = 0 THEN NoSize ELSE entries[n]
    <2>4. size \in Nat \cup {NoSize} /\ Download(Script, n, size) /\ Script \in Clients
        BY <2>2, <2>3, ClientsAssumption
    <2> HIDE DEF size
    <2>5. PICK j \in JobRecord :
             /\ Fresh(j) /\ job' = [job EXCEPT ![Script] = j]
             /\ j.at = "dl_open" /\ j.verb = "download" /\ j.name = n /\ j.body = <<>>
             /\ j.size = size /\ ~j.check
        BY <2>3, <2>4, DownloadIsFresh, Zenon
    <2>6. job'[Script] = j
        BY <2>4, <2>5 DEF IInv, JobsInv, JobsTyped
    <2>7. ScriptJob'
        BY <2>1, <2>3, <2>5, <2>6 DEF ScriptJob, Checks
    <2>8. at' \notin PastTheGuard
        BY <2>1 DEF PastTheGuard
    <2> QED
        BY <2>1, <2>5, <2>7, <2>8, StartsKeeps
<1> QED
    BY <1>2, <1>3

LEMMA GateKeeps ==
    ASSUME IInv, Declined \/ Proceeds \/ GuardCheck
    PROVE  IInv'
<1>1. /\ results \in [Checks -> {"-", "PASS", "FAIL", "SKIP"}]
      /\ entries # NoSize => DOMAIN entries \subseteq Names /\ entries \in [DOMAIN entries -> Nat]
    BY DEF IInv, ScriptInv, ScriptTyped
<1>2. /\ Quiet /\ at # "report" /\ at' \in Between /\ entries' = entries
    BY DEF Declined, Proceeds, GuardCheck, Between, Checks
<1>3. at' \in PastTheGuard => CanaryIsFree'
    BY <1>2 DEF Declined, Proceeds, GuardCheck, PastTheGuard, CanaryIsFree
<1>4. /\ results' \in [Checks -> {"-", "PASS", "FAIL", "SKIP"}]
      /\ \A k \in Checks : results'[k] = "PASS" => results[k] = "PASS" \/ Says(k, at')
    <2>1. CASE Declined
        BY <1>1, <2>1 DEF Declined, Result, Says, Checks
    <2>2. CASE Proceeds
        BY <1>1, <2>2 DEF Proceeds
    <2>3. CASE GuardCheck
        BY <1>1, <2>3 DEF GuardCheck, Result, Says, Checks
    <2> QED
        BY <2>1, <2>2, <2>3
<1> QED
    BY <1>1, <1>2, <1>3, <1>4, QuietKeeps

\* A check that failed because its call did.
LEMMA RaisedKeeps ==
    ASSUME IInv, NEW from \in PastTheGuard, NEW k \in Checks, NEW to \in Between,
           from # "report", Raised(from, k, to)
    PROVE  IInv'
<1>1. /\ results \in [Checks -> {"-", "PASS", "FAIL", "SKIP"}] /\ Guarded
      /\ entries # NoSize => DOMAIN entries \subseteq Names /\ entries \in [DOMAIN entries -> Nat]
    BY DEF IInv, ScriptInv, ScriptTyped
<1>2. /\ Quiet /\ at = from /\ at' = to /\ entries' = entries
      /\ results' = [results EXCEPT ![k] = "FAIL"]
    BY DEF Raised, Result
<1>3. /\ results' \in [Checks -> {"-", "PASS", "FAIL", "SKIP"}]
      /\ \A l \in Checks : results'[l] = "PASS" => results[l] = "PASS" \/ Says(l, at')
    BY <1>1, <1>2
<1>4. CanaryIsFree'
    BY <1>1, <1>2 DEF Guarded, PastTheGuard, CanaryIsFree
<1> QED
    BY <1>1, <1>2, <1>3, <1>4, QuietKeeps

\* An upload of the canary begins.
LEMMA UploadStartKeeps ==
    ASSUME IInv, NEW from \in {"bytes", "boundary"}, NEW to \in {"uploaded", "padded"},
           NEW body \in Seq(Byte), body = IF to = "uploaded" THEN CANARY_BODY ELSE PAD,
           Starts(from, to, Upload(Script, CANARY, body, FALSE))
    PROVE  IInv'
<1>1. /\ at = from /\ at' = to /\ Upload(Script, CANARY, body, FALSE)
      /\ UNCHANGED <<boxVars, mixed, slips, bridgeVars, results, entries>>
    BY DEF Starts
<1>2. Script \in Clients /\ CANARY \in Names
    BY ClientsAssumption, CanaryAssumption
<1> DEFINE check == FALSE
<1>2a. check \in BOOLEAN /\ ~check /\ Upload(Script, CANARY, body, check)
    BY <1>1
<1> HIDE DEF check
<1>3. PICK j \in JobRecord :
         /\ Fresh(j) /\ job' = [job EXCEPT ![Script] = j]
         /\ j.at = "wrq" /\ j.verb = "upload" /\ j.name = CANARY /\ j.body = body /\ j.check = check
    BY <1>2, <1>2a, UploadIsFresh
<1>4. job'[Script] = j
    BY <1>2, <1>3 DEF IInv, JobsInv, JobsTyped
<1>5. ScriptJob'
    BY <1>1, <1>2a, <1>3, <1>4 DEF ScriptJob, ScriptHas, Checks
<1>6. at # "report" /\ at \in PastTheGuard /\ at' \notin {"compare", "measure"}
    BY <1>1 DEF PastTheGuard
<1> QED
    BY <1>1, <1>3, <1>5, <1>6, StartsKeeps

\* A download of the canary begins, after its upload has returned.
LEMMA DownloadStartKeeps ==
    ASSUME IInv, NEW from, NEW to, NEW size \in Nat \cup {NoSize},
           \/ from = "uploaded" /\ to = "compare" /\ size = Len(CANARY_BODY)
           \/ from = "padded" /\ to = "measure" /\ size = NoSize,
           job[Script].at = "ok",
           Starts(from, to, Download(Script, CANARY, size))
    PROVE  IInv'
<1>1. /\ at = from /\ at' = to /\ Download(Script, CANARY, size)
      /\ UNCHANGED <<boxVars, mixed, slips, bridgeVars, results, entries>>
    BY DEF Starts
<1>2. Script \in Clients /\ CANARY \in Names
    BY ClientsAssumption, CanaryAssumption
<1>3. PICK j \in JobRecord :
         /\ Fresh(j) /\ job' = [job EXCEPT ![Script] = j]
         /\ j.at = "dl_open" /\ j.verb = "download" /\ j.name = CANARY /\ j.body = <<>>
         /\ j.size = size /\ ~j.check
    <2>1. Download(Script, CANARY, size)
        BY <1>1
    <2> QED
        BY <1>2, <2>1, DownloadIsFresh
<1>4. job'[Script] = j
    BY <1>2, <1>3 DEF IInv, JobsInv, JobsTyped
<1>5. ScriptJob'
    BY <1>1, <1>3, <1>4 DEF ScriptJob, ScriptHas, Checks
<1>6. at # "report" /\ at \in PastTheGuard
    BY <1>1 DEF PastTheGuard
<1>7. /\ at' = "compare" /\ ~mixed /\ slips \subseteq {"delete", "listing"} =>
            disk[CANARY] = Stored(CANARY_BODY)
      /\ at' = "measure" /\ ~mixed /\ slips \subseteq {"delete", "listing"} =>
            disk[CANARY] = Stored(PAD)
    BY <1>1 DEF IInv, ScriptInv, CanaryHolds
<1> QED
    BY <1>1, <1>3, <1>5, <1>6, <1>7, StartsKeeps

\* A check that compares what its calls got.
LEMMA ComparedKeeps ==
    ASSUME IInv, Looks, slips \subseteq slips', slips' \in SUBSET Kinds, NEW from \in PastTheGuard, NEW k \in Checks, NEW to \in Between, from # "report",
           NEW r \in {"PASS", "FAIL"}, r = "PASS" => Says(k, to),
           at = from, at' = to, Result(k, r), UNCHANGED entries
    PROVE  IInv'
<1>1. /\ results \in [Checks -> {"-", "PASS", "FAIL", "SKIP"}] /\ Guarded
      /\ entries # NoSize => DOMAIN entries \subseteq Names /\ entries \in [DOMAIN entries -> Nat]
    BY DEF IInv, ScriptInv, ScriptTyped
<1>2. /\ results' \in [Checks -> {"-", "PASS", "FAIL", "SKIP"}]
      /\ \A l \in Checks : results'[l] = "PASS" => results[l] = "PASS" \/ Says(l, at')
    BY <1>1 DEF Result
<1>3. CanaryIsFree'
    BY <1>1 DEF Guarded, PastTheGuard, CanaryIsFree
<1> QED
    BY <1>1, <1>2, <1>3, LooksKeeps

LEMMA BytesCheckKeeps ==
    ASSUME IInv, BytesCheck
    PROVE  IInv'
<1>1. /\ CANARY_BODY \in Seq(Byte) /\ Len(CANARY_BODY) \in Nat
      /\ "bytes" \in PastTheGuard /\ "uploaded" \in PastTheGuard /\ "compare" \in PastTheGuard
      /\ "bytes" \in Checks /\ "boundary" \in Between
    BY BodyAssumption, LenProperties DEF PastTheGuard, Checks, Between
<1>2. CASE Starts("bytes", "uploaded", Upload(Script, CANARY, CANARY_BODY, FALSE))
    BY <1>1, <1>2, UploadStartKeeps
<1>3. CASE Raised("uploaded", "bytes", "boundary") \/ Raised("compare", "bytes", "boundary")
    BY <1>1, <1>3, RaisedKeeps
<1>4. CASE /\ job[Script].at = "ok"
           /\ Starts("uploaded", "compare", Download(Script, CANARY, Len(CANARY_BODY)))
    <2> DEFINE size == Len(CANARY_BODY)
    <2>1. size \in Nat \cup {NoSize} /\ size = Len(CANARY_BODY)
          /\ Starts("uploaded", "compare", Download(Script, CANARY, size))
        BY <1>1, <1>4
    <2> HIDE DEF size
    <2> QED
        BY <1>4, <2>1, DownloadStartKeeps
<1>5. CASE /\ at = "compare" /\ job[Script].at = "ok"
           /\ Result("bytes", IF Got = CANARY_BODY THEN "PASS" ELSE "FAIL")
           /\ at' = "boundary"
           /\ UNCHANGED entries /\ Quiet
    <2> DEFINE r == IF Got = CANARY_BODY THEN "PASS" ELSE "FAIL"
    <2>1. r = "PASS" => Says("bytes", "boundary")
        <3> SUFFICES ASSUME Got = CANARY_BODY, ~mixed, slips \subseteq {"delete", "listing"}
                     PROVE  ~firmware.strips
            BY DEF Says
        <3>1. Got = Whole(Stored(CANARY_BODY), Len(CANARY_BODY))
            BY <1>5 DEF IInv, ScriptInv, CanaryHolds
        <3>2. /\ Stored(CANARY_BODY) \in Seq(Byte)
              /\ Len(Stored(CANARY_BODY)) <= Len(CANARY_BODY)
              /\ firmware.strips => Stored(CANARY_BODY) = Normalised(CANARY_BODY)
            BY <1>1, StoredFacts
        <3>3. Whole(Stored(CANARY_BODY), Len(CANARY_BODY)) = Stored(CANARY_BODY)
            BY <1>1, <3>2, WholeFacts
        <3> QED
            BY <3>1, <3>2, <3>3, BodyAssumption
    <2>2. r \in {"PASS", "FAIL"} /\ Result("bytes", r)
        BY <1>5
    <2>3. Looks /\ slips \subseteq slips' /\ slips' \in SUBSET Kinds
        BY <1>5 DEF Quiet, IInv, JobsInv, JobsTyped
    <2> HIDE DEF r
    <2> QED
        BY <1>1, <1>5, <2>1, <2>2, <2>3, ComparedKeeps
<1> QED
    BY <1>2, <1>3, <1>4, <1>5 DEF BytesCheck

LEMMA BoundaryCheckKeeps ==
    ASSUME IInv, BoundaryCheck
    PROVE  IInv'
<1>1. /\ PAD \in Seq(Byte) /\ Len(PAD) \in Nat
      /\ "boundary" \in PastTheGuard /\ "padded" \in PastTheGuard /\ "measure" \in PastTheGuard
      /\ "boundary" \in Checks /\ "cleanup" \in Between
    BY BodyAssumption, LenProperties DEF PastTheGuard, Checks, Between
<1>2. CASE Starts("boundary", "padded", Upload(Script, CANARY, PAD, FALSE))
    BY <1>1, <1>2, UploadStartKeeps
<1>3. CASE Raised("padded", "boundary", "cleanup") \/ Raised("measure", "boundary", "cleanup")
    BY <1>1, <1>3, RaisedKeeps
<1>4. CASE /\ job[Script].at = "ok"
           /\ Starts("padded", "measure", Download(Script, CANARY, BoundarySize))
    <2>1. BoundarySize \in Nat \cup {NoSize} /\ BoundarySize = NoSize
        BY DEF BoundarySize
    <2> QED
        BY <1>4, <2>1, DownloadStartKeeps
<1>5. CASE /\ at = "measure" /\ job[Script].at = "ok"
           /\ Result("boundary", IF Len(Got) = Len(PAD) THEN "PASS" ELSE "FAIL")
           /\ at' = "cleanup"
           /\ UNCHANGED entries /\ Quiet
    <2> DEFINE r == IF Len(Got) = Len(PAD) THEN "PASS" ELSE "FAIL"
    <2>1. r = "PASS" => Says("boundary", "cleanup")
        <3> SUFFICES ASSUME Len(Got) = Len(PAD), ~mixed, slips \subseteq {"delete", "listing"}
                     PROVE  ~firmware.strips /\ ~firmware.quiet
            BY DEF Says
        <3>1. Got = Stored(PAD) /\ ~EndsInSilence(Stored(PAD), NoSize)
            BY <1>5 DEF IInv, ScriptInv, CanaryHolds
        <3>2. Stored(PAD) = PAD
            BY <1>1, <3>1, StoredFacts
        <3>3. ~firmware.strips
            BY <1>1, <3>2, StoredFacts, BodyAssumption
        <3>4. Len(PAD) % BLOCK = 0
            <4>1. BLOCK % BLOCK = 0
                BY BlockAssumption
            <4> QED
                BY <4>1, BodyAssumption
        <3>5. ~firmware.quiet
            BY <3>1, <3>2, <3>4 DEF EndsInSilence
        <3> QED
            BY <3>3, <3>5
    <2>2. r \in {"PASS", "FAIL"} /\ Result("boundary", r)
        BY <1>5
    <2>3. Looks /\ slips \subseteq slips' /\ slips' \in SUBSET Kinds
        BY <1>5 DEF Quiet, IInv, JobsInv, JobsTyped
    <2> HIDE DEF r
    <2> QED
        BY <1>1, <1>5, <2>1, <2>2, <2>3, ComparedKeeps
<1> QED
    BY <1>2, <1>3, <1>4, <1>5 DEF BoundaryCheck

LEMMA CleanupCheckKeeps ==
    ASSUME IInv, CleanupCheck
    PROVE  IInv'
<1>1. /\ "cleanup" \in PastTheGuard /\ "deleted" \in PastTheGuard
      /\ "cleanup" \in Checks /\ "report" \in Between
    BY DEF PastTheGuard, Checks, Between
<1>2. CASE Starts("cleanup", "deleted", Delete(Script, CANARY))
    <2>1. /\ at = "cleanup" /\ at' = "deleted" /\ Delete(Script, CANARY)
          /\ UNCHANGED <<boxVars, mixed, slips, bridgeVars, results, entries>>
        BY <1>2 DEF Starts
    <2>2. Script \in Clients /\ CANARY \in Names
        BY ClientsAssumption, CanaryAssumption
    <2>3. PICK j \in JobRecord :
             /\ Fresh(j) /\ job' = [job EXCEPT ![Script] = j]
             /\ j.at = "delete" /\ j.verb = "delete" /\ j.name = CANARY /\ j.body = <<>>
             /\ j.size = NoSize /\ ~j.check
        <3>1. Delete(Script, CANARY)
            BY <2>1
        <3> QED
            BY <2>2, <3>1, DeleteIsFresh
    <2>4. job'[Script] = j
        BY <2>2, <2>3 DEF IInv, JobsInv, JobsTyped
    <2>5. ScriptJob'
        BY <2>1, <2>3, <2>4 DEF ScriptJob, ScriptHas, Checks
    <2>6. at # "report" /\ at \in PastTheGuard /\ at' \notin {"compare", "measure"}
        BY <2>1 DEF PastTheGuard
    <2> QED
        BY <2>1, <2>3, <2>5, <2>6, StartsKeeps
<1>3. CASE Raised("deleted", "cleanup", "report")
    BY <1>1, <1>3, RaisedKeeps
<1>4. ASSUME at = "deleted", NEW sizes \in Listings, Listed(sizes),
             Result("cleanup", IF CANARY \notin DOMAIN sizes THEN "PASS" ELSE "FAIL"),
             at' = "report", UNCHANGED entries, Looks
      PROVE  IInv'
    <2> DEFINE r == IF CANARY \notin DOMAIN sizes THEN "PASS" ELSE "FAIL"
    <2>1. /\ slips \subseteq slips' /\ slips' \in SUBSET Kinds
          /\ "listing" \notin slips' => sizes = Sizes
        BY <1>4, ListedFacts DEF IInv
    <2>2. r = "PASS" => Says("cleanup", "report")
        BY <2>1, CanaryAssumption DEF Says, Sizes
    <2>3. r \in {"PASS", "FAIL"} /\ Result("cleanup", r)
        BY <1>4
    <2> HIDE DEF r
    <2> QED
        BY <1>1, <1>4, <2>1, <2>2, <2>3, ComparedKeeps
<1>5. CASE /\ at = "deleted"
           /\ Result("cleanup", "FAIL") /\ at' = "report"
           /\ UNCHANGED entries /\ Quiet
    <2> DEFINE r == "FAIL"
    <2>1. r \in {"PASS", "FAIL"} /\ r # "PASS" /\ Result("cleanup", r)
        BY <1>5
    <2>2. Looks /\ slips \subseteq slips' /\ slips' \in SUBSET Kinds
        BY <1>5 DEF Quiet, IInv, JobsInv, JobsTyped
    <2> HIDE DEF r
    <2> QED
        BY <1>1, <1>5, <2>1, <2>2, ComparedKeeps
<1> QED
    BY <1>2, <1>3, <1>4, <1>5 DEF CleanupCheck

-----------------------------------------------------------------------------
(* The invariant.                                                            *)

ScriptCheck ==
    \/ StatusCheck \/ InfoCheck \/ ListingCheck
    \/ DownloadElsewhere \/ DownloadStarts \/ DownloadCheck
    \/ Declined \/ Proceeds \/ GuardCheck
    \/ BytesCheck \/ BoundaryCheck \/ CleanupCheck

LEMMA NextMeans ==
    ASSUME Next
    PROVE  \/ ScriptCheck
           \/ Exchange(Script) /\ UNCHANGED <<bridgeVars, scriptVars>>
           \/ \E t \in Threads : BridgeStep(t) /\ UNCHANGED scriptVars
BY DEF Next, ScriptStep, ScriptCheck

LEMMA InitIInv ==
    ASSUME Init
    PROVE  IInv
<1>1. /\ disk \in [Names -> Contents \cup {Absent}]
      /\ reading = NoName /\ writing = NoName /\ buffer = <<>> /\ firmware \in Firmwares
      /\ job = [c \in Clients |-> NoJob] /\ mixed = FALSE /\ slips = {}
      /\ thread = [t \in Threads |-> NoRequest]
      /\ at \in {"status", "report"} /\ results = [k \in Checks |-> "-"] /\ entries = NoSize
    BY DEF Init, BridgeInit
<1>2. \A c \in Clients : job[c] = NoJob /\ job[c].at = "none" /\ job[c].slips = {}
    BY <1>1, NoJobIsFresh DEF Fresh
<1>3. JobsTyped
    <2>1. disk \in [Names -> Seq(Byte) \cup {Absent}]
        BY <1>1, ContentsAssumption
    <2>2. job \in [Clients -> JobRecord]
        BY <1>1, NoJobIsFresh
    <2> QED
        BY <1>1, <2>1, <2>2, EmptySeq DEF JobsTyped
<1>4. \A c \in Clients : JobInOrder(c) /\ HasTheBox(c) /\ ReadsWhatItStored(c)
    BY <1>2 DEF JobInOrder, HasTheBox, ReadsWhatItStored, Running, ReadingBack
<1>5. ThreadsInv
    <2>1. NoRequest \in [at : {"idle", "lookup", "receiving", "working"},
                         verb : {"none", "GET", "PUT", "DELETE"}, name : Shared \cup {NoName}]
          /\ NoRequest.at = "idle"
        BY DEF NoRequest
    <2>2. \A t \in Threads : thread[t] = NoRequest /\ job[t].at = "none"
        BY <1>1, <1>2, ThreadIsClient
    <2> QED
        BY <1>1, <2>1, <2>2 DEF ThreadsInv, ThreadsTyped, ThreadInOrder
<1>6. ScriptInv
    <2>1. job[Script].at = "none"
        BY <1>2, ClientsAssumption
    <2>2. \A k \in Checks : results[k] = "-"
        BY <1>1
    <2>3. ScriptTyped
        BY <1>1 DEF ScriptTyped
    <2>4. ScriptJob /\ Guarded /\ CanaryHolds
        BY <1>1, <2>1 DEF ScriptJob, Guarded, CanaryHolds, Checks
    <2>5. CleanAtTheEnd /\ ReportIsTrue
        BY <2>2 DEF CleanAtTheEnd, ReportIsTrue, Checks
    <2> QED
        BY <2>3, <2>4, <2>5 DEF ScriptInv
<1>7. BoxHoldsWholePrograms
    BY <1>1 DEF BoxHoldsWholePrograms
<1> QED
    BY <1>3, <1>4, <1>5, <1>6, <1>7 DEF IInv, JobsInv

LEMMA NextIInv ==
    ASSUME IInv, [Next]_vars
    PROVE  IInv'
<1>1. CASE ScriptCheck
    BY <1>1, StartAndListingKeep, DownloadChecksKeep, GateKeeps, BytesCheckKeeps, BoundaryCheckKeeps,
       CleanupCheckKeeps DEF ScriptCheck
<1>2. CASE Exchange(Script) /\ UNCHANGED <<bridgeVars, scriptVars>>
    BY <1>2, ScriptExchangeKeeps
<1>3. CASE \E t \in Threads : BridgeStep(t) /\ UNCHANGED scriptVars
    BY <1>3, BridgeKeeps
<1>4. CASE UNCHANGED vars
    <2>1. /\ UNCHANGED <<disk, reading, writing, buffer, firmware, job, mixed, slips>>
          /\ UNCHANGED thread /\ UNCHANGED <<at, results, entries>>
        BY <1>4 DEF vars, jobVars, boxVars, bridgeVars, scriptVars
    <2>2. JobsInv'
        BY <2>1 DEF IInv, JobsInv, JobsTyped, JobInOrder, HasTheBox, ReadsWhatItStored, Running,
                    ReadingBack, Alone, Stored, BuffersIts, ReadsIts
    <2>3. ThreadsInv' /\ BoxHoldsWholePrograms'
        BY <2>1 DEF IInv, ThreadsInv, ThreadsTyped, ThreadInOrder, BoxHoldsWholePrograms
    <2>4. ScriptInv'
        BY <2>1, ScriptUndisturbed DEF IInv, SameCall, scriptVars
    <2> QED
        BY <2>2, <2>3, <2>4 DEF IInv
<1> QED
    BY <1>1, <1>2, <1>3, <1>4, NextMeans

THEOREM HardwareInvariance == Spec => []IInv
<1>1. Init => IInv
    BY InitIInv
<1>2. IInv /\ [Next]_vars => IInv'
    BY NextIInv
<1> QED
    BY <1>1, <1>2, PTL DEF Spec

-----------------------------------------------------------------------------
(* The results.                                                              *)

\* The state is of its types, and a thread works exactly while its job exists.
THEOREM HardwareTypeCorrect == Spec => []TypeOK
<1>1. IInv => TypeOK
    <2> SUFFICES ASSUME IInv PROVE TypeOK
        OBVIOUS
    <2>1. \A c \in Clients : /\ job[c].at \in Ends \cup {"none"} \/ Running(c)
                             /\ job[c].slips \subseteq slips
        <3>1. \A c \in Clients : job[c] \in JobRecord /\ job[c].slips \subseteq slips
            BY JobFacts DEF IInv
        <3> QED
            BY <3>1 DEF JobRecord, Running
    <2>2. \A t \in Threads : /\ thread[t].at \in {"idle", "lookup", "receiving", "working"}
                             /\ job[t].at # "none" <=> thread[t].at = "working"
        BY DEF IInv, ThreadsInv, ThreadsTyped, ThreadInOrder
    <2> QED
        BY <2>1, <2>2 DEF TypeOK, IInv, JobsInv, JobsTyped, ScriptInv, ScriptTyped
<1> QED
    BY <1>1, HardwareInvariance, PTL

\* No file on the box is a part of a program, whoever broke off, failed or timed
\* out in the middle of storing one: unless two clients met, a block was appended
\* twice, or an upload took a late ACK for that of its open or of a block.
THEOREM OnlyWholePrograms == Spec => []BoxHoldsWholePrograms
<1>1. IInv => BoxHoldsWholePrograms
    BY DEF IInv
<1> QED
    BY <1>1, HardwareInvariance, PTL

\* What the acceptance script reports as passed is so, if no two clients met: of
\* the bytes and the boundary, if the box answered every exchange of an upload or
\* a read and appended no block twice; of the clean-up, if no open for upload went
\* unheard and no entry of a listing was lost.
THEOREM ReportTruth == Spec => []ReportIsTrue
<1>1. IInv => ReportIsTrue
    BY DEF IInv, ScriptInv
<1> QED
    BY <1>1, HardwareInvariance, PTL

\* A check touches neither the box nor the other clients.
LEMMA CheckTouchesNothing ==
    ASSUME IInv, ScriptCheck
    PROVE  disk' = disk /\ \A d \in Clients \ {Script} : job'[d] = job[d]
<1>1. job \in [Clients -> JobRecord] /\ Script \in Clients
    BY ClientsAssumption DEF IInv, JobsInv, JobsTyped
<1>2. UNCHANGED boxVars /\ \E j : job' = [job EXCEPT ![Script] = j]
    <2>1. CASE StatusCheck \/ InfoCheck \/ ListingCheck \/ DownloadElsewhere \/ DownloadCheck
               \/ Declined \/ Proceeds \/ GuardCheck
        BY <2>1 DEF StatusCheck, InfoCheck, ListingCheck, DownloadElsewhere, DownloadCheck, Declined,
                    Proceeds, GuardCheck, Quiet, Looks
    <2>2. CASE DownloadStarts
        BY <2>2 DEF DownloadStarts, Download
    <2>3. CASE BytesCheck
        BY <2>3 DEF BytesCheck, Starts, Raised, Upload, Download, Quiet, Looks
    <2>4. CASE BoundaryCheck
        BY <2>4 DEF BoundaryCheck, Starts, Raised, Upload, Download, Quiet, Looks
    <2>5. CASE CleanupCheck
        BY <2>5 DEF CleanupCheck, Starts, Raised, Delete, Quiet, Looks
    <2> QED
        BY <2>1, <2>2, <2>3, <2>4, <2>5 DEF ScriptCheck
<1> QED
    BY <1>1, <1>2 DEF boxVars

\* What the bridge answers is true, unless another client or a late reply got
\* into it; a verified PUT whose last block is short need only have read back
\* the right file.
THEOREM BridgeTruth == Spec => BridgeTellsTruth
<1> DEFINE Truth(t) ==
        Running(t) /\ job'[t].at = "ok" /\ ~job'[t].crossed =>
            LET j == job[t]
                slipped == job'[t].slips
                readsToItsEnd == j.body = <<>> \/ Len(j.body) % BLOCK # 0
                proven == \/ slipped = {}
                          \/ readsToItsEnd /\ slipped \cap {"dl_open", "reqdata"} = {}
            IN  /\ j.verb = "upload" /\ j.check /\ proven => disk'[j.name] = j.body
                /\ j.verb = "download" /\ slipped = {} => job'[t].got = disk'[j.name]
                /\ j.verb = "delete" /\ slipped = {} => disk'[j.name] = Absent
<1>1. ASSUME IInv, Next, NEW t \in Threads PROVE Truth(t)
    <2> SUFFICES ASSUME Running(t), job'[t].at = "ok", ~job'[t].crossed
                 PROVE  Truth(t)
        OBVIOUS
    <2>1. t \in Clients /\ t # Script /\ job[t].at # "ok" /\ job[t].at # "none"
        BY ThreadIsClient DEF Running
    <2>2. CASE Exchange(t)
        <3>1. Alone(t)'
            BY DEF Alone
        <3>2. job[t].verb = "download" => job[t].size = NoSize
            BY <1>1, <2>1 DEF IInv, ThreadsInv, ThreadInOrder
        <3>3. \A f : Whole(f, NoSize) = f
            BY DEF Whole
        <3> QED
            BY <1>1, <2>1, <2>2, <3>1, <3>2, <3>3, OutcomeFacts DEF IInv
    <2>3. ASSUME NEW c \in Clients, c # t, Exchange(c) PROVE FALSE
        <3>1. SameCall(job'[t], job[t])
            BY <1>1, <2>1, <2>3, ExchangeFacts DEF IInv
        <3> QED
            BY <2>1, <3>1 DEF SameCall
    <2>4. CASE ScriptCheck
        BY <1>1, <2>1, <2>4, CheckTouchesNothing
    <2>5. ASSUME NEW s \in Threads,
                 Receive(s) \/ NotFound(s) \/ Found(s) \/ EndWrite(s) \/ Respond(s)
          PROVE  FALSE
        <3>1. /\ \A d \in Clients \ {s} : job'[d] = job[d]
              /\ ~(Running(s) /\ job'[s].at = "ok")
            BY <1>1, <2>5, ThreadStep DEF IInv
        <3> QED
            BY <2>1, <3>1
    <2> QED
        BY <1>1, <2>1, <2>2, <2>3, <2>4, <2>5, NextMeans, ThreadIsClient, ClientsAssumption
        DEF BridgeStep
<1>2. IInv /\ [Next]_vars => [\A t \in Threads : Truth(t)]_vars
    BY <1>1
<1> QED
    BY <1>2, HardwareInvariance, PTL DEF Spec, BridgeTellsTruth

\* The script changes nothing but the canary, whose name a listing showed to be
\* free: unless two clients met or an open for upload was not heard.
THEOREM OverwritesNothing == Spec => NeverOverwrites
<1> DEFINE Spares == ~mixed' /\ "wrq" \notin slips' => \A n \in Changes : n = CANARY /\ entries # NoSize /\ CANARY \notin DOMAIN entries
<1>1. ASSUME IInv, Next PROVE Spares
    <2>1. Script \in Clients /\ disk \in [Names -> Seq(Byte) \cup {Absent}]
        BY <1>1, ClientsAssumption DEF IInv, JobsInv, JobsTyped
    <2>2. CASE ScriptCheck
        BY <1>1, <2>2, CheckTouchesNothing DEF Changes
    <2>3. CASE Exchange(Script)
        <3> SUFFICES ASSUME ~mixed', "wrq" \notin slips', NEW n \in Names, disk'[n] # disk[n]
                     PROVE  n = CANARY /\ CanaryIsFree
            BY DEF Changes, CanaryIsFree
        <3>1. Running(Script) /\ Alone(Script) /\ "wrq" \notin job[Script].slips
            BY <1>1, <2>1, <2>3, ExchangeFacts DEF IInv, Alone
        <3>2. n = job[Script].name /\ job[Script].verb \in {"upload", "delete"}
            BY <1>1, <2>1, <2>3, <3>1, ExchangeWrites DEF IInv
        <3>3. at \in {"uploaded", "padded", "deleted"}
            BY <1>1, <3>1, <3>2 DEF IInv, ScriptInv, ScriptTyped, ScriptJob, ScriptHas, Running
        <3> QED
            BY <1>1, <3>2, <3>3 DEF IInv, ScriptInv, ScriptJob, ScriptHas, Guarded
    <2>4. ASSUME NEW t \in Threads, BridgeStep(t) PROVE Changes = {}
        <3>1. t \in Clients /\ t # Script
            BY ThreadIsClient
        <3>2. job'[Script].at = job[Script].at
            <4>1. CASE Exchange(t)
                BY <1>1, <2>1, <3>1, <4>1, ExchangeFacts DEF IInv, SameCall
            <4>2. CASE Receive(t) \/ NotFound(t) \/ Found(t) \/ EndWrite(t) \/ Respond(t)
                BY <1>1, <2>1, <3>1, <4>2, ThreadStep DEF IInv
            <4> QED
                BY <2>4, <4>1, <4>2 DEF BridgeStep
        <3> QED
            BY <3>2 DEF Changes
    <2> QED
        BY <1>1, <2>2, <2>3, <2>4, NextMeans
<1>2. IInv /\ [Next]_vars => [Spares]_vars
    BY <1>1
<1> QED
    BY <1>2, HardwareInvariance, PTL DEF Spec, NeverOverwrites

-----------------------------------------------------------------------------
(* Clients that do not meet share a store that does one call at a time.      *)

Calls == [c \in Clients |-> CallOf(job[c])]

\* Where a call is, by its job.
LEMMA CallFacts ==
    ASSUME NEW j
    PROVE  /\ CallOf(j).verb = j.verb /\ CallOf(j).name = j.name /\ CallOf(j).body = j.body
           /\ CallOf(j).kept = Stored(j.body) /\ CallOf(j).check = j.check /\ CallOf(j).got = j.got
           /\ CallOf(j).size = IF j.verb = "upload" THEN NoSize ELSE j.size
           /\ j.at \in {"wrq", "data", "delete"} => CallOf(j).at = "asked"
           /\ j.at \in {"dl_open", "reqdata"} =>
                 CallOf(j).at = IF j.verb = "upload" THEN "done" ELSE "asked"
           /\ j.at \in Ends \cup {"none"} => CallOf(j).at = j.at
<1>1. CallOf(j).at = CallAt(j)
    BY DEF CallOf
<1>2. /\ j.at \in {"wrq", "data", "delete"} => CallAt(j) = "asked"
      /\ j.at \in {"dl_open", "reqdata"} =>
            CallAt(j) = IF j.verb = "upload" THEN "done" ELSE "asked"
      /\ j.at \in Ends \cup {"none"} => CallAt(j) = j.at
    BY DEF CallAt, Ends
<1> QED
    BY <1>1, <1>2 DEF CallOf

\* A job of the same call elsewhere is the call with another place and text.
LEMMA CallOfMoves ==
    ASSUME NEW i, NEW j, i.verb = j.verb, i.name = j.name, i.body = j.body, i.check = j.check,
           j.verb # "upload" => i.size = j.size
    PROVE  /\ CallOf(i) = [CallOf(j) EXCEPT !.at = CallOf(i).at, !.got = CallOf(i).got]
           /\ CallOf(i).at = CallOf(j).at /\ CallOf(i).got = CallOf(j).got => CallOf(i) = CallOf(j)
<1> DEFINE a == CallAt(i)
           b == CallAt(j)
           g == i.got
           h == j.got
           kept == Stored(j.body)
           size == IF j.verb = "upload" THEN NoSize ELSE j.size
           Call(where, got) == [at |-> where, verb |-> j.verb, name |-> j.name, body |-> j.body,
                                kept |-> kept, size |-> size, check |-> j.check, got |-> got]
<1>1. CallOf(i) = Call(a, g) /\ CallOf(j) = Call(b, h)
    BY DEF CallOf
<1> HIDE DEF a, b, g, h, kept, size
<1>2. /\ Call(a, g).at = a /\ Call(a, g).got = g
      /\ Call(b, h).at = b /\ Call(b, h).got = h
    OBVIOUS
<1>3. Call(a, g) = [Call(b, h) EXCEPT !.at = a, !.got = g]
    <2> DEFINE r == Call(b, h)
               q == [r EXCEPT !.at = a, !.got = g]
    <2>1. q = [r EXCEPT !.at = a, !.got = g]
        OBVIOUS
    <2>2. r = Call(b, h)
        OBVIOUS
    <2> HIDE DEF q, r
    <2>3. Call(a, g) = q
        BY <2>1, <2>2
    <2> QED
        BY <2>3 DEF q, r
<1>4. a = b /\ g = h => Call(a, g) = Call(b, h)
    OBVIOUS
<1> HIDE DEF Call
<1> QED
    BY <1>1, <1>2, <1>3, <1>4

\* Two jobs of the same call at the same place.
LEMMA SameCallOf ==
    ASSUME NEW i, NEW j, SameCall(i, j)
    PROVE  CallOf(i) = CallOf(j)
BY DEF SameCall, CallOf, CallAt

\* The calls of the jobs of the next state.
LEMMA CallsFacts ==
    ASSUME firmware' = firmware
    PROVE  /\ \A c \in Clients : Calls[c] = CallOf(job[c])
           /\ Calls' = [c \in Clients |-> CallOf(job'[c])]
           /\ \A c \in Clients : Calls'[c] = CallOf(job'[c])
<1>1. Calls' = [c \in Clients |-> CallOf(job'[c])]
    BY DEF Calls, CallOf, CallAt, Stored
<1> QED
    BY <1>1 DEF Calls

\* What an exchange makes of the calls: only its own moves on.
LEMMA ExchangeCalls ==
    ASSUME JobsInv, NEW c \in Clients, Exchange(c)
    PROVE  /\ Calls[c] = CallOf(job[c]) /\ Calls'[c] = CallOf(job'[c])
           /\ Calls' = [Calls EXCEPT ![c].at = Calls'[c].at, ![c].got = Calls'[c].got]
           /\ Calls'[c].at = Calls[c].at /\ Calls'[c].got = Calls[c].got => Calls' = Calls
<1>1. /\ firmware' = firmware /\ \A d \in Clients \ {c} : SameCall(job'[d], job[d])
      /\ job'[c].verb = job[c].verb /\ job'[c].name = job[c].name
      /\ job'[c].body = job[c].body /\ job'[c].check = job[c].check
      /\ job[c].verb # "upload" => job'[c].size = job[c].size
    BY ExchangeFacts
<1>2. /\ \A d \in Clients : Calls[d] = CallOf(job[d]) /\ Calls'[d] = CallOf(job'[d])
      /\ Calls' = [d \in Clients |-> CallOf(job'[d])]
    BY <1>1, CallsFacts
<1>3. \A d \in Clients \ {c} : Calls'[d] = Calls[d]
    BY <1>1, <1>2, SameCallOf
<1> DEFINE a == Calls'[c].at
           g == Calls'[c].got
<1>4. /\ Calls'[c] = [Calls[c] EXCEPT !.at = a, !.got = g]
      /\ a = Calls[c].at /\ g = Calls[c].got => Calls'[c] = Calls[c]
    <2> DEFINE i == job'[c]
               j == job[c]
    <2>1. /\ i.verb = j.verb /\ i.name = j.name /\ i.body = j.body /\ i.check = j.check
          /\ j.verb # "upload" => i.size = j.size
          /\ Calls[c] = CallOf(j) /\ Calls'[c] = CallOf(i)
        BY <1>1, <1>2
    <2> HIDE DEF i, j
    <2>2. /\ CallOf(i) = [CallOf(j) EXCEPT !.at = CallOf(i).at, !.got = CallOf(i).got]
          /\ CallOf(i).at = CallOf(j).at /\ CallOf(i).got = CallOf(j).got => CallOf(i) = CallOf(j)
        BY <2>1, CallOfMoves
    <2> QED
        BY <2>1, <2>2, Zenon
<1> HIDE DEF a, g
<1>5. Calls = [d \in Clients |-> Calls[d]] /\ Calls' = [d \in Clients |-> Calls'[d]]
    BY <1>2 DEF Calls
<1>6. Calls' = [Calls EXCEPT ![c].at = a, ![c].got = g]
    <2> DEFINE moved == [Calls EXCEPT ![c].at = a, ![c].got = g]
    <2>1. /\ moved = [d \in Clients |-> moved[d]]
          /\ moved[c] = [Calls[c] EXCEPT !.at = a, !.got = g]
          /\ \A d \in Clients \ {c} : moved[d] = Calls[d]
        BY <1>5
    <2>2. \A d \in Clients : Calls'[d] = moved[d]
        BY <1>3, <1>4, <2>1
    <2> HIDE DEF moved
    <2>3. Calls' = moved
        BY <1>5, <2>1, <2>2
    <2> QED
        BY <2>3 DEF moved
<1>7. ASSUME a = Calls[c].at, g = Calls[c].got PROVE Calls' = Calls
    <2>1. Calls'[c] = Calls[c]
        BY <1>4, <1>7
    <2> QED
        BY <1>3, <1>5, <2>1
<1> QED
    BY <1>2, <1>6, <1>7 DEF a, g

\* A read gets the whole file, or its beginning as far as the size goes.
LEMMA WholeBegins ==
    ASSUME NEW f \in Seq(Byte), NEW size \in Nat \cup {NoSize}
    PROVE  LET got == Whole(f, size)
           IN  /\ Files!Begins(got, f)
               /\ ~(size # NoSize /\ Len(got) > size) => got = f \/ (size # NoSize /\ Len(got) = size)
<1>1. Len(f) \in Nat
    BY LenProperties
<1>2. CASE size = NoSize \/ Len(f) <= size
    <2>1. Whole(f, size) = f /\ SubSeq(f, 1, Len(f)) = f
        BY <1>2, WholeFacts, WholeText
    <2> QED
        BY <1>1, <2>1 DEF Files!Begins
<1>3. CASE ~(size = NoSize \/ Len(f) <= size)
    <2> DEFINE n == size + BLOCK - 1
               q == n \div BLOCK
               upTo == q * BLOCK
               k == IF upTo < Len(f) THEN upTo ELSE Len(f)
    <2>1. size \in Nat /\ size # NoSize /\ Len(f) > size
        BY <1>1, <1>3
    <2>2. Whole(f, size) = SubSeq(f, 1, k)
        BY <2>1, Zenon DEF Whole
    <2>3. upTo \in Nat /\ size <= upTo
        <3>1. n \in Nat /\ BLOCK \in Nat \ {0} /\ n = size + BLOCK - 1
            BY <2>1, BlockAssumption
        <3> HIDE DEF n
        <3>2. q \in Nat /\ n = (BLOCK * q) + (n % BLOCK) /\ n % BLOCK \in Nat /\ n % BLOCK < BLOCK
            BY <3>1
        <3> HIDE DEF q
        <3>3. q * BLOCK \in Nat /\ q * BLOCK = BLOCK * q
            BY <3>1, <3>2
        <3> QED
            BY <2>1, <3>1, <3>2, <3>3
    <2> HIDE DEF upTo
    <2>4. k \in Nat /\ k <= Len(f) /\ size <= k
        BY <1>1, <2>1, <2>3
    <2> HIDE DEF k
    <2>5. Len(SubSeq(f, 1, k)) = k
        <3>1. \A i \in 1..k : f[i] \in Byte
            <4>1. \A i \in 1..k : i \in 1..Len(f)
                BY <1>1, <2>4
            <4> QED
                BY <4>1, ElementOfSeq
        <3> QED
            BY <2>4, <3>1, SubSeqProperties
    <2> QED
        BY <1>1, <2>1, <2>2, <2>4, <2>5 DEF Files!Begins
<1> QED
    BY <1>2, <1>3


\* The step an exchange is of the store, once it is known where its job went.
LEMMA ExchangeMoves ==
    ASSUME JobsInv, NEW c \in Clients, Exchange(c),
           NEW places, CallOf(job'[c]).at \in places
    PROVE  Files!Moves(c, places)
BY ExchangeCalls DEF Files!Moves, Calls

\* Two clients met, or an exchange returned on a late datagram.
Adrift == mixed \/ slips # {}

\* Where nothing is adrift, nothing was before.
LEMMA NoneMet ==
    ASSUME JobsInv, NEW c \in Clients, Exchange(c), ~Adrift'
    PROVE  /\ Adrift' = Adrift /\ Alone(c) /\ ~Adrift
           /\ slips' = {} /\ slips = {} /\ job[c].slips = {}
<1>1. (mixed => mixed') /\ slips \subseteq slips' /\ job[c].slips \subseteq slips
    BY ExchangeFacts, JobFacts
<1>2. ~mixed' /\ slips' = {}
    BY DEF Adrift
<1> QED
    BY <1>1, <1>2 DEF Adrift, Alone

\* Then every exchange is of a request the box heard, or of one nobody answered.
LEMMA NoSlip ==
    ASSUME JobsInv, NEW c \in Clients, Exchange(c), ~Adrift'
    PROVE  /\ UNCHANGED slips
           /\ \/ OpenWrite(c) \/ SendBlock(c) \/ CloseWrite(c) \/ OpenRead(c)
              \/ ReadFile(c) \/ DeleteFile(c) \/ (Running(c) /\ Unheard(c))
<1>1. slips' = {} /\ slips = {}
    BY NoneMet
<1>2. ~LateReply(c) /\ ~SendBlockTwice(c)
    BY <1>1 DEF LateReply, SendBlockTwice, Slip
<1> QED
    BY <1>1, <1>2 DEF Exchange

\* A call that breaks off has done nothing.
LEMMA BreaksOff ==
    ASSUME JobsInv, NEW c \in Clients, Exchange(c), ~Adrift', disk' = disk,
           job'[c].at \in {"failed", "silent", "wrong"}
    PROVE  Files!Next
<1>1. Adrift' = Adrift /\ Running(c)
    BY NoneMet, ExchangeFacts
<1>2. CallOf(job[c]).at \in {"asked", "done"}
    BY <1>1, CallFacts DEF Running
<1>3. CallOf(job'[c]).at \in {"failed", "silent", "wrong"}
    BY CallFacts DEF Ends
<1>4. Files!Moves(c, {"failed", "silent", "wrong"})
    BY <1>3, ExchangeMoves
<1>5. Files!Fail(c)
    BY <1>2, <1>4 DEF Files!Fail, Files!Open
<1> QED
    BY <1>1, <1>5 DEF Files!Next, Files!Step, Adrift

\* A call that goes on with its exchanges does not show.
LEMMA GoesOn ==
    ASSUME JobsInv, NEW c \in Clients, Exchange(c), ~Adrift', disk' = disk,
           CallOf(job'[c]).at = CallOf(job[c]).at, job'[c].got = job[c].got
    PROVE  UNCHANGED Files!vars
<1>1. Adrift' = Adrift
    BY NoneMet
<1>2. Calls' = Calls
    <2>1. /\ Calls[c].at = CallOf(job[c]).at /\ Calls'[c].at = CallOf(job'[c]).at
          /\ Calls[c].got = job[c].got
        BY ExchangeCalls, CallFacts
    <2> DEFINE j == job'[c]
    <2>2. CallOf(j).got = j.got
        BY CallFacts
    <2>3. Calls'[c].got = job'[c].got
        BY <2>2, ExchangeCalls
    <2> QED
        BY <2>1, <2>3, ExchangeCalls
<1> QED
    BY <1>1, <1>2 DEF Files!vars, Calls, Adrift

\* The first and the middle exchanges of an upload, the first of a download.
LEMMA OpeningStep ==
    ASSUME JobsInv, NEW c \in Clients, OpenWrite(c) \/ SendBlock(c) \/ OpenRead(c),
           UNCHANGED slips, ~Adrift'
    PROVE  Files!Next \/ UNCHANGED Files!vars
<1>1. Exchange(c) /\ disk' = disk
    BY DEF Exchange, OpenWrite, SendBlock, OpenRead
<1>2. \E i, met : /\ GoesOnAs(c, i) /\ Go(c, i, met, {}) /\ i.got = job[c].got
                  /\ \/ i.at = "failed"
                     \/ job[c].at \in {"wrq", "data"} /\ i.at = "data"
                     \/ job[c].at = "dl_open" /\ i.at = "reqdata"
    <2>1. CASE OpenWrite(c)
        BY <2>1, OpenWriteGoes
    <2>2. CASE SendBlock(c)
        BY <2>2, SendGoes
    <2>3. CASE OpenRead(c)
        BY <2>3, OpenReadGoes
    <2> QED
        BY <2>1, <2>2, <2>3
<1>3. /\ job'[c].got = job[c].got /\ job'[c].verb = job[c].verb
      /\ \/ job'[c].at = "failed"
         \/ job[c].at \in {"wrq", "data"} /\ job'[c].at = "data"
         \/ job[c].at = "dl_open" /\ job'[c].at = "reqdata"
    BY <1>2, Gone DEF SameCall
<1>4. CASE job'[c].at = "failed"
    BY <1>1, <1>4, BreaksOff
<1>5. CASE job'[c].at # "failed"
    <2>1. CallOf(job'[c]).at = CallOf(job[c]).at
        BY <1>3, <1>5, CallFacts
    <2> QED
        BY <1>1, <1>3, <2>1, GoesOn
<1> QED
    BY <1>4, <1>5

\* The close of an upload is the step that stores it.
LEMMA StoringStep ==
    ASSUME JobsInv, NEW c \in Clients, CloseWrite(c), UNCHANGED slips, ~Adrift'
    PROVE  Files!Next
<1>1. Exchange(c)
    BY DEF Exchange
<1>2. /\ Adrift' = Adrift /\ Alone(c) /\ job[c].slips = {} /\ firmware' = firmware
      /\ job'[c].verb = job[c].verb
    BY <1>1, NoneMet, ExchangeFacts
<1>3. job[c].at = "data" /\ job[c].verb = "upload"
    BY CloseGoes
<1>4. disk' = [disk EXCEPT ![job[c].name] = Stored(job[c].body)]
    BY <1>2, CloseWriteStores
<1>5. job'[c].at \in {IF job[c].check THEN "dl_open" ELSE "ok", "failed"}
    <2>1. PICK i, hit : /\ GoesOnAs(c, i) /\ Go(c, i, {}, hit)
                        /\ i.at = "failed" \/ i.at = IF job[c].check THEN "dl_open" ELSE "ok"
        BY CloseGoes
    <2> QED
        BY <2>1, Gone DEF SameCall
<1>6. CallOf(job'[c]).at \in {IF job[c].check THEN "done" ELSE "ok", "failed"}
    BY <1>2, <1>3, <1>5, CallFacts DEF Ends
<1>7. Files!Moves(c, {IF job[c].check THEN "done" ELSE "ok", "failed"})
    BY <1>1, <1>6, ExchangeMoves
<1>8. /\ Calls[c].at = "asked" /\ Calls[c].verb = "upload" /\ Calls[c].name = job[c].name
      /\ Calls[c].kept = Stored(job[c].body) /\ Calls[c].check = job[c].check
    <2> DEFINE j == job[c]
    <2>1. /\ CallOf(j).at = "asked" /\ CallOf(j).verb = j.verb /\ CallOf(j).name = j.name
          /\ CallOf(j).kept = Stored(j.body) /\ CallOf(j).check = j.check
        <3>1. j.at = "data"
            BY <1>3
        <3> HIDE DEF j
        <3> QED
            BY <3>1, CallFacts
    <2> QED
        BY <1>1, <1>3, <2>1, ExchangeCalls
<1>9. Files!Store(c)
    BY <1>4, <1>7, <1>8 DEF Files!Store, Calls
<1> QED
    BY <1>2, <1>9 DEF Files!Next, Files!Step, Adrift

\* The delete is the step that takes the file away.
LEMMA RemovingStep ==
    ASSUME JobsInv, NEW c \in Clients, DeleteFile(c), UNCHANGED slips, ~Adrift'
    PROVE  Files!Next
<1>1. Exchange(c)
    BY DEF Exchange
<1>2. Adrift' = Adrift
    BY <1>1, NoneMet
<1>3. job[c].at = "delete" /\ job[c].verb = "delete"
    BY DeleteGoes
<1>4. job'[c].at \in {"ok", "failed", "delete"}
    <2>1. PICK i, hit : GoesOnAs(c, i) /\ Go(c, i, {}, hit) /\ i.at \in {"ok", "failed", "delete"}
        BY DeleteGoes
    <2> QED
        BY <2>1, Gone DEF SameCall
<1>5. Files!Moves(c, {"ok", "failed", "asked"})
    BY <1>1, <1>4, ExchangeMoves, CallFacts DEF Ends
<1>6. Calls[c].at = "asked" /\ Calls[c].verb = "delete" /\ Calls[c].name = job[c].name
    <2> DEFINE j == job[c]
    <2>1. Calls[c] = CallOf(j) /\ j.at = "delete" /\ j.verb = "delete" /\ j.name = job[c].name
        BY <1>1, <1>3, ExchangeCalls
    <2> HIDE DEF j
    <2> QED
        BY <2>1, CallFacts
<1>7. Files!Remove(c)
    BY <1>5, <1>6 DEF DeleteFile, Files!Remove, Calls
<1> QED
    BY <1>2, <1>7 DEF Files!Next, Files!Step, Adrift

\* The blocks of a download are the step that reads, those of a read-back the
\* step that confirms.
LEMMA ReadingStep ==
    ASSUME JobsInv, NEW c \in Clients, ReadFile(c), UNCHANGED slips, ~Adrift'
    PROVE  Files!Next
<1>1. Exchange(c)
    BY DEF Exchange
<1>2. Adrift' = Adrift /\ Alone(c) /\ job[c].slips = {}
    BY <1>1, NoneMet
<1>3. /\ job[c].at = "reqdata" /\ disk[reading] \in Seq(Byte) /\ disk' = disk
      /\ disk[reading] # Absent
    BY ReadFileGets DEF boxVars
<1>4. PICK i : /\ GoesOnAs(c, i) /\ Go(c, i, {}, {}) /\ i.at \in {"ok", "silent", "wrong"}
               /\ i.at = "ok" =>
                     /\ i.got = Whole(disk[reading], job[c].size)
                     /\ ~(job[c].size # NoSize /\ Len(i.got) > job[c].size)
                     /\ job[c].check => i.got = job[c].body
    BY ReadFileGets
<1>5. job'[c].at = i.at /\ job'[c].got = i.got
    BY <1>4, Gone DEF SameCall
<1>6. reading = job[c].name
    BY <1>2, <1>3, JobFacts DEF HasTheBox, ReadsIts
<1>7. /\ job[c].verb \in {"upload", "download"}
      /\ job[c].verb = "upload" => job[c].check
      /\ job[c].size \in Nat \cup {NoSize}
    BY <1>3, JobFacts DEF JobInOrder, ReadingBack
<1>8. CASE i.at # "ok"
    <2>1. job'[c].at \in {"failed", "silent", "wrong"}
        BY <1>4, <1>5, <1>8
    <2> QED
        BY <1>1, <1>3, <2>1, BreaksOff
<1>9. CASE i.at = "ok"
    <2>1. /\ i.got = Whole(disk[reading], job[c].size)
          /\ ~(job[c].size # NoSize /\ Len(i.got) > job[c].size)
          /\ job[c].check => i.got = job[c].body
        BY <1>4, <1>9
    <2>2. /\ Files!Begins(i.got, disk[reading])
          /\ i.got = disk[reading] \/ (job[c].size # NoSize /\ Len(i.got) = job[c].size)
        BY <1>3, <1>7, <2>1, WholeBegins
    <2>3. Files!Moves(c, {"ok"})
        BY <1>1, <1>5, <1>9, ExchangeMoves, CallFacts DEF Ends
    <2>4. /\ Calls[c].name = reading /\ Calls[c].verb = job[c].verb /\ Calls[c].body = job[c].body
          /\ Calls[c].at = IF job[c].verb = "upload" THEN "done" ELSE "asked"
          /\ job[c].verb # "upload" => Calls[c].size = job[c].size
          /\ Calls'[c].got = i.got
        <3> DEFINE h == job'[c]
                   k == job[c]
        <3>1. /\ Calls[c] = CallOf(k) /\ Calls'[c] = CallOf(h)
              /\ k.at = "reqdata" /\ k.name = reading /\ h.got = i.got
            BY <1>1, <1>3, <1>5, <1>6, ExchangeCalls
        <3>2. k.verb = job[c].verb /\ k.body = job[c].body /\ k.size = job[c].size
            OBVIOUS
        <3> HIDE DEF h, k
        <3> QED
            BY <3>1, <3>2, CallFacts
    <2>5. CASE job[c].verb = "upload"
        <3>1. Files!Confirm(c)
            BY <1>3, <1>7, <2>1, <2>2, <2>3, <2>4, <2>5 DEF Files!Confirm, Calls
        <3> QED
            BY <1>2, <3>1 DEF Files!Next, Files!Step, Adrift
    <2>6. CASE job[c].verb = "download"
        <3>1. Files!Read(c)
            BY <1>3, <2>2, <2>3, <2>4, <2>6 DEF Files!Read, Calls
        <3> QED
            BY <1>2, <3>1 DEF Files!Next, Files!Step, Adrift
    <2> QED
        BY <1>7, <2>5, <2>6
<1> QED
    BY <1>8, <1>9

\* An exchange of a client that met no other is a step of the store, or none.
LEMMA ExchangeStep ==
    ASSUME JobsInv, NEW c \in Clients, Exchange(c), ~Adrift'
    PROVE  Files!Next \/ UNCHANGED Files!vars
<1>1. /\ UNCHANGED slips
      /\ \/ OpenWrite(c) \/ SendBlock(c) \/ CloseWrite(c) \/ OpenRead(c)
         \/ ReadFile(c) \/ DeleteFile(c) \/ (Running(c) /\ Unheard(c))
    BY NoSlip
<1>2. CASE Running(c) /\ Unheard(c)
    <2>1. disk' = disk
        BY <1>2 DEF Unheard, boxVars
    <2>2. job'[c].at = "failed"
        <3>1. "failed" \in Places
            BY DEF Places, Ends
        <3>2. GoesOnAs(c, At(c, "failed")) /\ At(c, "failed").at = "failed"
            BY <1>1, <3>1, Placed
        <3> QED
            BY <1>2, <3>2, Gone DEF Unheard, SameCall
    <2> QED
        BY <2>1, <2>2, BreaksOff
<1>3. CASE OpenWrite(c) \/ SendBlock(c) \/ OpenRead(c)
    BY <1>1, <1>3, OpeningStep
<1>4. CASE CloseWrite(c)
    BY <1>1, <1>4, StoringStep
<1>5. CASE ReadFile(c)
    BY <1>1, <1>5, ReadingStep
<1>6. CASE DeleteFile(c)
    BY <1>1, <1>6, RemovingStep
<1> QED
    BY <1>1, <1>2, <1>3, <1>4, <1>5, <1>6

\* A client between two calls, or that begins one, asks; the box does nothing.
LEMMA AskingStep ==
    ASSUME JobsInv, NEW c \in Clients, ~Running(c), UNCHANGED <<disk, firmware, mixed, slips>>,
           job' = job \/ \E j \in JobRecord : Fresh(j) /\ job' = [job EXCEPT ![c] = j]
    PROVE  Files!Next \/ UNCHANGED Files!vars
<1>1. job \in [Clients -> JobRecord]
    BY DEF JobsInv, JobsTyped
<1>2. /\ \A d \in Clients : Calls[d] = CallOf(job[d]) /\ Calls'[d] = CallOf(job'[d])
      /\ Calls = [d \in Clients |-> Calls[d]] /\ Calls' = [d \in Clients |-> Calls'[d]]
    <2>1. /\ \A d \in Clients : Calls[d] = CallOf(job[d]) /\ Calls'[d] = CallOf(job'[d])
          /\ Calls' = [d \in Clients |-> CallOf(job'[d])]
        BY CallsFacts
    <2> QED
        BY <2>1 DEF Calls
<1>3. CASE job' = job
    <2>1. Calls' = Calls
        BY <1>2, <1>3
    <2> QED
        BY <2>1 DEF Files!vars, Calls
<1>4. ASSUME NEW j \in JobRecord, Fresh(j), job' = [job EXCEPT ![c] = j]
      PROVE  Files!Next
    <2>1. job'[c] = j /\ \A d \in Clients \ {c} : job'[d] = job[d]
        BY <1>1, <1>4
    <2>2. Calls[c].at \notin {"asked", "done"}
        <3>1. job[c].at \in Ends \cup {"none"}
            BY <1>1 DEF JobRecord, Running
        <3> QED
            BY <1>2, <3>1, CallFacts DEF Ends
    <2>3. Calls'[c].at \in {"asked", "none"}
        <3>1. j.at \in {"none", "wrq", "dl_open", "delete"} /\ (j.at = "dl_open" => j.verb = "download")
            BY <1>4 DEF Fresh
        <3> QED
            BY <1>2, <2>1, <3>1, CallFacts
    <2>4. Calls' = [Calls EXCEPT ![c] = Calls'[c]]
        <3> DEFINE k == Calls'[c]
                   asks == [Calls EXCEPT ![c] = k]
        <3>1. \A d \in Clients \ {c} : Calls'[d] = Calls[d]
            BY <1>2, <2>1
        <3>2. asks = [d \in Clients |-> asks[d]] /\ asks[c] = k /\ \A d \in Clients \ {c} : asks[d] = Calls[d]
            BY <1>2
        <3>3. k = Calls'[c]
            OBVIOUS
        <3> HIDE DEF k, asks
        <3>4. \A d \in Clients : Calls'[d] = asks[d]
            BY <3>1, <3>2, <3>3
        <3>5. Calls' = asks
            BY <1>2, <3>2, <3>4
        <3> QED
            BY <3>5 DEF asks, k
    <2>5. Files!Ask(c)
        BY <2>2, <2>3, <2>4 DEF Files!Ask, Files!Open, Calls
    <2> QED
        BY <2>5 DEF Files!Next, Files!Step
<1> QED
    BY <1>3, <1>4

\* A check of the script begins a call, or is done with one.
LEMMA CheckAsks ==
    ASSUME IInv, ScriptCheck, ~Adrift'
    PROVE  /\ ~Running(Script) /\ UNCHANGED <<disk, firmware, mixed, slips>>
           /\ \E j \in JobRecord : Fresh(j) /\ job' = [job EXCEPT ![Script] = j]
<1>1. /\ Script \in Clients /\ CANARY \in Names
      /\ <<>> \in Seq(Byte) /\ CANARY_BODY \in Seq(Byte) /\ PAD \in Seq(Byte)
      /\ Len(CANARY_BODY) \in Nat
    BY ClientsAssumption, CanaryAssumption, BodyAssumption, EmptySeq, LenProperties
<1>2. at \in Checks \cup {"status", "info", "writing?", "report"} => job[Script].at = "none"
    BY DEF IInv, ScriptInv, ScriptJob
<1>3. CASE Looks /\ slips \subseteq slips'
    <2>1. /\ UNCHANGED <<disk, firmware, mixed, slips>>
          /\ job' = [job EXCEPT ![Script] = NoJob]
        BY <1>3 DEF Looks, boxVars, Adrift
    <2>2. ~Running(Script)
        <3>1. at \in Checks \cup {"status", "info", "writing?", "report"} \/ Over
            BY DEF ScriptCheck, StatusCheck, InfoCheck, ListingCheck, DownloadElsewhere, DownloadStarts,
                   DownloadCheck, Declined, Proceeds, GuardCheck, BytesCheck, BoundaryCheck, CleanupCheck,
                   Starts, Raised, Checks
        <3> QED
            BY <1>2, <3>1 DEF Over, Ends, Running
    <2> QED
        BY <2>1, <2>2, NoJobIsFresh
<1>4. ASSUME \/ \E n \in Names, size \in Nat \cup {NoSize} : Download(Script, n, size)
             \/ \E body \in Seq(Byte) : Upload(Script, CANARY, body, FALSE)
             \/ Delete(Script, CANARY),
             UNCHANGED <<disk, firmware, mixed, slips>>, job[Script].at \in Ends \cup {"none"}
      PROVE  /\ ~Running(Script) /\ UNCHANGED <<disk, firmware, mixed, slips>>
             /\ \E j \in JobRecord : Fresh(j) /\ job' = [job EXCEPT ![Script] = j]
    <2>1. ~Running(Script)
        BY <1>4 DEF Ends, Running
    <2>2. CASE \E n \in Names, size \in Nat \cup {NoSize} : Download(Script, n, size)
        <3>1. PICK n \in Names, size \in Nat \cup {NoSize} : Download(Script, n, size)
            BY <2>2
        <3>2. \E j \in JobRecord : Fresh(j) /\ job' = [job EXCEPT ![Script] = j]
            BY <1>1, <3>1, DownloadIsFresh
        <3> QED
            BY <1>4, <2>1, <3>2
    <2>3. CASE \E body \in Seq(Byte) : Upload(Script, CANARY, body, FALSE)
        <3>1. PICK body \in Seq(Byte) : Upload(Script, CANARY, body, FALSE)
            BY <2>3
        <3> DEFINE check == FALSE
        <3>1a. check \in BOOLEAN /\ Upload(Script, CANARY, body, check)
            BY <3>1
        <3> HIDE DEF check
        <3>2. \E j \in JobRecord : Fresh(j) /\ job' = [job EXCEPT ![Script] = j]
            BY <1>1, <3>1a, UploadIsFresh
        <3> QED
            BY <1>4, <2>1, <3>2
    <2>4. CASE Delete(Script, CANARY)
        BY <1>1, <1>4, <2>1, <2>4, DeleteIsFresh
    <2> QED
        BY <1>4, <2>2, <2>3, <2>4
<1>3a. Quiet => Looks /\ slips \subseteq slips'
    BY DEF Quiet
<1>5. CASE DownloadStarts
    <2>1. /\ at = "download" /\ UNCHANGED <<disk, firmware, mixed, slips>>
          /\ \E n \in Readable : Download(Script, n, IF entries[n] = 0 THEN NoSize ELSE entries[n])
        BY <1>5 DEF DownloadStarts, boxVars
    <2>2. \A n \in Readable : n \in Names /\ entries[n] \in Nat
        BY DEF Readable, IInv, ScriptInv, ScriptTyped
    <2> QED
        BY <1>2, <1>4, <2>1, <2>2 DEF Checks
<1>6. ASSUME NEW from, NEW to, NEW start, Starts(from, to, start)
      PROVE  at = from /\ start /\ UNCHANGED <<disk, firmware, mixed, slips>>
    BY <1>6 DEF Starts, boxVars
<1>7. CASE BytesCheck
    <2>1. \/ Quiet
          \/ Starts("bytes", "uploaded", Upload(Script, CANARY, CANARY_BODY, FALSE))
          \/ Over /\ Starts("uploaded", "compare", Download(Script, CANARY, Len(CANARY_BODY)))
        BY <1>7 DEF BytesCheck, Raised
    <2> QED
        BY <1>1, <1>2, <1>3, <1>3a, <1>4, <2>1 DEF Starts, Over, Checks, boxVars
<1>8. CASE BoundaryCheck
    <2>1. \/ Quiet
          \/ Starts("boundary", "padded", Upload(Script, CANARY, PAD, FALSE))
          \/ Over /\ Starts("padded", "measure", Download(Script, CANARY, NoSize))
        BY <1>8 DEF BoundaryCheck, Raised, BoundarySize
    <2> QED
        BY <1>1, <1>2, <1>3, <1>3a, <1>4, <2>1 DEF Starts, Over, Checks, boxVars
<1>9. CASE CleanupCheck
    <2>1. \/ Looks /\ slips \subseteq slips'
          \/ Starts("cleanup", "deleted", Delete(Script, CANARY))
        BY <1>3a, <1>9, ListedFacts DEF CleanupCheck, Raised, IInv
    <2> QED
        BY <1>2, <1>3, <1>4, <2>1 DEF Starts, Checks, boxVars
<1>10. CASE StatusCheck \/ InfoCheck \/ ListingCheck \/ DownloadElsewhere \/ DownloadCheck
            \/ Declined \/ Proceeds \/ GuardCheck
    <2>1. Looks /\ slips \subseteq slips'
        BY <1>3a, <1>10, ListedFacts
        DEF StatusCheck, InfoCheck, ListingCheck, DownloadElsewhere, DownloadCheck, Declined, Proceeds,
            GuardCheck, IInv
    <2> QED
        BY <1>3, <2>1
<1> QED
    BY <1>5, <1>7, <1>8, <1>9, <1>10 DEF ScriptCheck

\* As long as no two clients met, no late reply was taken for an answer and no
\* block was appended twice, the box is a store that carries out each call in one
\* step, for the one name it asked for and at most once, whatever breaks off in
\* between; a delete until it is answered.
THEOREM StoreRefinement == Spec => ImplementsStore
<1>1. Init => Files!Init
    <2> SUFFICES ASSUME Init PROVE Files!Init
        OBVIOUS
    <2>1. job = [c \in Clients |-> NoJob] /\ ~mixed /\ slips = {}
        BY DEF Init
    <2>2. CallOf(NoJob).at = "none"
        BY CallFacts, NoJobIsFresh
    <2> QED
        BY <2>1, <2>2 DEF Files!Init
<1>2. IInv /\ [Next]_vars => [Files!Next]_Files!vars
    <2> SUFFICES ASSUME IInv, [Next]_vars PROVE [Files!Next]_Files!vars
        OBVIOUS
    <2>1. CASE Adrift'
        BY <2>1 DEF Files!Next, Adrift
    <2>2. CASE ~Adrift'
        <3>1. CASE ScriptCheck
            BY <2>2, <3>1, CheckAsks, AskingStep, ClientsAssumption DEF IInv
        <3>2. ASSUME NEW c \in Clients, Exchange(c) PROVE [Files!Next]_Files!vars
            BY <2>2, <3>2, ExchangeStep DEF IInv
        <3>3. ASSUME NEW t \in Threads,
                     Receive(t) \/ NotFound(t) \/ Found(t) \/ EndWrite(t) \/ Respond(t)
              PROVE  [Files!Next]_Files!vars
            BY <3>3, ThreadStep, AskingStep, ThreadIsClient DEF IInv
        <3>4. CASE UNCHANGED vars
            <4>1. UNCHANGED <<disk, firmware, mixed, slips, job>>
                BY <3>4 DEF vars, jobVars, boxVars
            <4>2. Calls' = Calls
                BY <4>1, CallsFacts DEF Calls
            <4> QED
                BY <4>1, <4>2 DEF Files!vars, Calls
        <3> QED
            BY <3>1, <3>2, <3>3, <3>4, NextMeans, ThreadIsClient, ClientsAssumption DEF BridgeStep
    <2> QED
        BY <2>1, <2>2
<1> QED
    BY <1>1, <1>2, HardwareInvariance, PTL DEF Spec, ImplementsStore, Files!Spec

=============================================================================
