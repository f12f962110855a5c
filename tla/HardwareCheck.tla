----------------------------- MODULE HardwareCheck -----------------------------
(***************************************************************************)
(* hardware_check.py: the acceptance run against a real box, as one client *)
(* of BoxJobs, next to a WebDAV bridge in use.  The checks run in order;   *)
(* check() turns what a check raises into a FAIL and goes on, except where *)
(* main() looks at the outcome.                                            *)
(***************************************************************************)
EXTENDS WebDavBridge, FiniteSets

CONSTANTS
    Script,         \* the client that runs hardware_check.py
    CANARY,         \* the name it writes
    CANARY_BODY,    \* mixed line ends
    PAD,            \* exactly one block
    Contents        \* what a file may hold when the run starts

ASSUME ClientsAssumption == Script \notin Threads /\ Clients = Threads \cup {Script}
ASSUME CanaryAssumption == CANARY \in Names \ Shared
ASSUME ContentsAssumption == Contents \subseteq Seq(Byte)
ASSUME BodyAssumption ==
    /\ CANARY_BODY \in Seq(Byte) /\ PAD \in Seq(Byte)
    /\ Normalised(CANARY_BODY) # CANARY_BODY /\ Normalised(PAD) # PAD
    /\ Len(CANARY_BODY) % BLOCK # 0 /\ Len(PAD) = BLOCK

VARIABLES
    at,         \* the check the script is at
    results,    \* RESULTS by check, but for the first two, which nothing depends on
    entries     \* state["entries"]: the sizes listed, or NoSize if it has none

scriptVars == <<at, results, entries>>
vars == <<jobVars, bridgeVars, scriptVars>>

Checks == {"listing", "download", "guard", "bytes", "boundary", "cleanup"}

TypeOK ==
    /\ disk \in [Names -> Seq(Byte) \cup {Absent}]
    /\ reading \in Names \cup {NoName} /\ writing \in Names \cup {NoName}
    /\ \A c \in Clients : /\ job[c].at \in Ends \cup {"none"} \/ Running(c)
                          /\ job[c].slips \subseteq slips
    /\ \A t \in Threads : /\ thread[t].at \in {"idle", "lookup", "receiving", "working"}
                          /\ job[t].at # "none" <=> thread[t].at = "working"
    /\ at \in Checks \cup {"status", "info", "downloading", "writing?", "uploaded", "compare", "padded",
                           "measure", "deleted", "report"}
    /\ results \in [Checks -> {"-", "PASS", "FAIL", "SKIP"}]

Init ==
    /\ disk \in [Names -> Contents \cup {Absent}]
    /\ reading = NoName /\ writing = NoName /\ buffer = <<>>
    /\ firmware \in Firmwares
    /\ job = [c \in Clients |-> NoJob]
    /\ mixed = FALSE /\ slips = {}
    /\ BridgeInit
    \* The bound: a run of the script and one of either, or none and no canary.
    /\ \/ at = "status" /\ requests = MaxRequests - 1
       \/ at = "report" /\ requests = 0 /\ disk[CANARY] = Absent
    /\ results = [k \in Checks |-> "-"]
    /\ entries = NoSize

-----------------------------------------------------------------------------
Result(k, r) == results' = [results EXCEPT ![k] = r]

\* A step that changes nothing on the box; the job it looked at, if any, is over.
Looks ==
    /\ job' = [job EXCEPT ![Script] = NoJob]
    /\ UNCHANGED <<boxVars, mixed, bridgeVars>>
Quiet == Looks /\ UNCHANGED slips

\* Unreachable is the end; a missing model string is not.
StatusCheck ==
    /\ at = "status"
    /\ at' \in {"info", "report"}
    /\ UNCHANGED <<results, entries>> /\ Quiet

InfoCheck ==
    /\ at = "info"
    /\ at' = "listing"
    /\ UNCHANGED <<results, entries>> /\ Quiet

\* A listing that fails, or that the box does not end, leaves state without entries.
ListingCheck ==
    /\ at = "listing"
    /\ \/ /\ firmware.marked /\ Result("listing", "PASS")
          /\ \E sizes \in Listings : Listed(sizes) /\ entries' = sizes
       \/ Result("listing", "FAIL") /\ UNCHANGED <<entries, slips>>
    /\ at' = "download"
    /\ Looks

\* _find_readable: the largest file of the root.
Readable ==
    IF entries = NoSize THEN {}
    ELSE {n \in DOMAIN entries : \A m \in DOMAIN entries : entries[m] <= entries[n]}

\* No file in the root: one in some folder, read or not; without a listing nothing.
DownloadElsewhere ==
    /\ at = "download"
    /\ Readable = {}
    /\ \E r \in IF entries = NoSize THEN {"SKIP"} ELSE {"PASS", "FAIL", "SKIP"} :
          Result("download", r)
    /\ at' = "writing?"
    /\ UNCHANGED entries /\ Quiet

DownloadStarts ==
    /\ at = "download"
    /\ \E n \in Readable :
          Download(Script, n, IF entries[n] = 0 THEN NoSize ELSE entries[n])
    /\ at' = "downloading"
    /\ UNCHANGED <<boxVars, mixed, slips, bridgeVars, results, entries>>

Over == job[Script].at \in Ends
Got == job[Script].got

DownloadCheck ==
    /\ at = "downloading" /\ Over
    /\ LET n == job[Script].name
       IN  Result("download",
              IF job[Script].at = "ok" /\ (entries[n] = 0 \/ Len(Got) = entries[n])
              THEN "PASS" ELSE "FAIL")
    /\ at' = "writing?"
    /\ UNCHANGED entries /\ Quiet

\* --read-only, or the operator does not say yes.
Declined ==
    /\ at = "writing?"
    /\ Result("bytes", "SKIP") /\ at' = "report"
    /\ UNCHANGED entries /\ Quiet

Proceeds ==
    /\ at = "writing?"
    /\ at' = "guard"
    /\ UNCHANGED <<results, entries>> /\ Quiet

\* The guard: a listing is needed, and the name must not be in it.
CanaryIsFree == entries # NoSize /\ CANARY \notin DOMAIN entries

\* Mutant: the guard is a note in the report and not a gate.
GuardNoted ==
    /\ at = "guard"
    /\ Result("guard", IF CanaryIsFree THEN "PASS" ELSE "FAIL")
    /\ at' = "bytes"
    /\ UNCHANGED entries /\ Quiet

GuardCheck ==
    /\ at = "guard"
    /\ IF CanaryIsFree
       THEN Result("guard", "PASS") /\ at' = "bytes"
       ELSE /\ results' = [results EXCEPT !["guard"] = "FAIL", !["bytes"] = "SKIP"]
            /\ at' = "report"
    /\ UNCHANGED entries /\ Quiet

\* The script's job for the step it is at, and the step that looks at its end.
Starts(from, to, start) ==
    /\ at = from /\ at' = to
    /\ start
    /\ UNCHANGED <<boxVars, mixed, slips, bridgeVars, results, entries>>

\* _upload_bytes raised: the check has failed without a download.
Raised(from, k, to) ==
    /\ at = from /\ Over /\ job[Script].at # "ok"
    /\ Result(k, "FAIL") /\ at' = to
    /\ UNCHANGED entries /\ Quiet

BytesCheck ==
    \/ Starts("bytes", "uploaded", Upload(Script, CANARY, CANARY_BODY, FALSE))
    \/ Raised("uploaded", "bytes", "boundary")
    \/ /\ Over /\ job[Script].at = "ok"
       /\ Starts("uploaded", "compare", Download(Script, CANARY, Len(CANARY_BODY)))
    \/ Raised("compare", "bytes", "boundary")
    \/ /\ at = "compare" /\ Over /\ job[Script].at = "ok"
       /\ Result("bytes", IF Got = CANARY_BODY THEN "PASS" ELSE "FAIL")
       /\ at' = "boundary"
       /\ UNCHANGED entries /\ Quiet

\* Mutant: the size is known, so it is passed.
BoundarySizeGiven == Len(PAD)

\* The download is not told the size: that is the question.
BoundarySize == NoSize

BoundaryCheck ==
    \/ Starts("boundary", "padded", Upload(Script, CANARY, PAD, FALSE))
    \/ Raised("padded", "boundary", "cleanup")
    \/ /\ Over /\ job[Script].at = "ok"
       /\ Starts("padded", "measure", Download(Script, CANARY, BoundarySize))
    \/ Raised("measure", "boundary", "cleanup")
    \/ /\ at = "measure" /\ Over /\ job[Script].at = "ok"
       /\ Result("boundary", IF Len(Got) = Len(PAD) THEN "PASS" ELSE "FAIL")
       /\ at' = "cleanup"
       /\ UNCHANGED entries /\ Quiet

\* Mutant: only what the box client raises becomes a FAIL; a mismatch ends the script.
CleanupUncaught ==
    \/ Starts("cleanup", "deleted", Delete(Script, CANARY))
    \/ /\ at = "deleted" /\ Over /\ job[Script].at = "ok"
       /\ firmware.marked /\ CANARY \notin DOMAIN Sizes
       /\ Result("cleanup", "PASS") /\ at' = "report"
       /\ UNCHANGED entries /\ Quiet

\* Delete, then list again to see it gone.
CleanupCheck ==
    \/ Starts("cleanup", "deleted", Delete(Script, CANARY))
    \/ Raised("deleted", "cleanup", "report")
    \/ /\ at = "deleted" /\ Over /\ job[Script].at = "ok"
       /\ firmware.marked
       /\ \E sizes \in Listings :
             /\ Listed(sizes)
             /\ Result("cleanup", IF CANARY \notin DOMAIN sizes THEN "PASS" ELSE "FAIL")
       /\ at' = "report"
       /\ UNCHANGED entries /\ Looks
    \/ /\ at = "deleted" /\ Over    \* the second listing fails, or does not end
       /\ Result("cleanup", "FAIL") /\ at' = "report"
       /\ UNCHANGED entries /\ Quiet

ScriptStep ==
    \/ StatusCheck \/ InfoCheck \/ ListingCheck
    \/ DownloadElsewhere \/ DownloadStarts \/ DownloadCheck
    \/ Declined \/ Proceeds \/ GuardCheck
    \/ BytesCheck \/ BoundaryCheck \/ CleanupCheck
    \/ Exchange(Script) /\ UNCHANGED <<bridgeVars, scriptVars>>

Next ==
    /\ \/ ScriptStep
       \/ \E t \in Threads : BridgeStep(t) /\ UNCHANGED scriptVars
    /\ requests' + Cardinality(slips') <= MaxRequests

Spec == Init /\ [][Next]_vars

-----------------------------------------------------------------------------
(* What the bridge answers is true, unless another client's session with    *)
(* the box got into it or a late reply did: a GET is the file as it is, a   *)
(* DELETE left nothing, and a verified PUT is on the box byte for byte.  A  *)
(* PUT need only have read back the right file, whatever became of its      *)
(* blocks and its close, unless its last block is full: the read-back does  *)
(* not see what follows that.                                               *)
BridgeTellsTruth ==
    [][\A t \in Threads :
         Running(t) /\ job'[t].at = "ok" /\ ~job'[t].crossed =>
             LET j == job[t]
                 slipped == job'[t].slips
                 readsToItsEnd == j.body = <<>> \/ Len(j.body) % BLOCK # 0
                 proven == \/ slipped = {}
                           \/ readsToItsEnd /\ slipped \cap {"dl_open", "reqdata"} = {}
             IN  /\ j.verb = "upload" /\ j.check /\ proven => disk'[j.name] = j.body
                 /\ j.verb = "download" /\ slipped = {} => job'[t].got = disk'[j.name]
                 /\ j.verb = "delete" /\ slipped = {} => disk'[j.name] = Absent]_vars

(* "A silent partial write into a CNC program is not an acceptable failure  *)
(* mode": as long as no two sessions met, no block was appended twice and   *)
(* no upload took a late ACK for that of its open or of a block, every file *)
(* on the box is a whole program as the firmware stores it, whoever broke   *)
(* off, failed or was killed by a timeout in the middle of storing one.     *)
BoxHoldsWholePrograms ==
    LET programs == Contents \cup Bodies \cup {CANARY_BODY, PAD}
    IN  ~mixed /\ slips \cap {"wrq", "data", "twice"} = {} => \A n \in Names :
            disk[n] \in programs \cup {Normalised(p) : p \in programs} \cup {Absent}

\* The names an exchange of the script changes on the box.
Changes == IF job'[Script].at = job[Script].at THEN {}
           ELSE {n \in Names : disk'[n] # disk[n]}

(* "It NEVER writes over an existing file": what the script changes or      *)
(* deletes on the box is the canary and nothing else, and only after a      *)
(* listing that showed the name to be free; unless two sessions met or an   *)
(* open for upload was not heard but seemed so, and the box still had       *)
(* another file open.                                                       *)
NeverOverwrites ==
    [][~mixed' /\ "wrq" \notin slips' => \A n \in Changes :
         n = CANARY /\ entries # NoSize /\ CANARY \notin DOMAIN entries]_vars

(* The report can be believed: Q2 passes only on a box that marks the end   *)
(* of a listing; without another's session, late replies and blocks taken   *)
(* twice, Q1 passes only on one that keeps bytes and Q3's boundary only on  *)
(* one that does and is not silent past the end; and a clean-up that passed *)
(* left no canary.                                                          *)
ReportIsTrue ==
    /\ results["listing"] = "PASS" => firmware.marked
    /\ ~mixed /\ slips \subseteq {"delete", "listing"} =>
          /\ results["bytes"] = "PASS" => ~firmware.strips
          /\ results["boundary"] = "PASS" => ~firmware.strips /\ ~firmware.quiet
    /\ ~mixed /\ slips \cap {"wrq", "listing"} = {} /\ results["cleanup"] = "PASS" =>
          disk[CANARY] = Absent

(* Whatever raises, the script goes on, to its report.                      *)
ScriptGoesOn == at # "report" => ENABLED ScriptStep

(* Until two calls meet, a late reply is taken for an answer or a block is  *)
(* appended twice, the box is a store that carries out each call in one     *)
(* step, for the one name it asked for, and at most once, whoever asks,     *)
(* fails or breaks off meanwhile; a delete until it is answered.            *)
CallAt(j) ==
    IF j.at \in Ends \cup {"none"} THEN j.at
    ELSE IF j.verb = "upload" /\ j.at \in {"dl_open", "reqdata"} THEN "done"
    ELSE "asked"
CallOf(j) ==
    [at   |-> CallAt(j), verb |-> j.verb, name |-> j.name, body |-> j.body,
     kept |-> Stored(j.body), size |-> IF j.verb = "upload" THEN NoSize ELSE j.size,
     check |-> j.check, got |-> j.got]
Files == INSTANCE FileStore WITH call <- [c \in Clients |-> CallOf(job[c])],
                                 adrift <- mixed \/ slips # {}
ImplementsStore == Files!Spec

(* "The ordinary paths are already covered": a GET of a file on the box     *)
(* does not run into the silence past the end of the file.                  *)
GetIsNotSilent ==
    \A t \in Threads : job[t].verb = "download" /\ job[t].at = "silent" =>
        job[t].crossed \/ job[t].slips # {}
=============================================================================
