------------------------------- MODULE FileStore -------------------------------
(***************************************************************************)
(* What the calls of dnc_tftp.py promise clients that share a box and do   *)
(* not get in each other's way: an upload stores its file, a delete takes  *)
(* it away and a download reads it in one step, for the name that was      *)
(* asked and at most once for each call; only a delete that is not         *)
(* answered may be carried out again.  A call that raises may have done    *)
(* its work or not.  Once two calls have met, a late reply was taken for   *)
(* an answer or a resent block appended twice, nothing is promised.        *)
(***************************************************************************)
EXTENDS Naturals, Sequences

CONSTANTS
    Absent,     \* the content of a name not on the disk
    NoSize      \* a download that is not told the size

VARIABLES
    disk,       \* the files, by name
    call,       \* what each client asked for, and what became of it
    adrift      \* nothing is promised any more

vars == <<disk, call, adrift>>

\* A call is asked for; an upload that will be verified is done and goes on.
Open == {"asked", "done"}

Init ==
    /\ \A c \in DOMAIN call : call[c].at = "none"
    /\ ~adrift

\* A client looks at how its call ended, and asks for another or not.
Ask(c) ==
    /\ call[c].at \notin Open
    /\ call'[c].at \in {"asked", "none"}
    /\ call' = [call EXCEPT ![c] = call'[c]]
    /\ UNCHANGED disk

\* c's call gets to one of these places; what was asked stays.
Moves(c, places) ==
    /\ call'[c].at \in places
    /\ call' = [call EXCEPT ![c].at = call'[c].at, ![c].got = call'[c].got]

\* kept is what the box makes of the body.
Store(c) ==
    /\ call[c].at = "asked" /\ call[c].verb = "upload"
    /\ disk' = [disk EXCEPT ![call[c].name] = call[c].kept]
    /\ Moves(c, {IF call[c].check THEN "done" ELSE "ok", "failed"})

\* A delete that is not answered goes on, and may take the name away again.
Remove(c) ==
    /\ call[c].at = "asked" /\ call[c].verb = "delete"
    /\ disk' = [disk EXCEPT ![call[c].name] = Absent]
    /\ Moves(c, {"ok", "failed", "asked"})

Begins(s, f) == Len(s) <= Len(f) /\ s = SubSeq(f, 1, Len(s))

\* The file, or as much of it as was asked for.
Read(c) ==
    LET f == disk[call[c].name]
        got == call'[c].got
    IN  /\ call[c].at = "asked" /\ call[c].verb = "download"
        /\ f # Absent
        /\ Begins(got, f)
        /\ got = f \/ (call[c].size # NoSize /\ Len(got) = call[c].size)
        /\ Moves(c, {"ok"})
        /\ UNCHANGED disk

\* The read-back has found the body, as far as it goes.
Confirm(c) ==
    /\ call[c].at = "done"
    /\ disk[call[c].name] # Absent /\ Begins(call[c].body, disk[call[c].name])
    /\ Moves(c, {"ok"})
    /\ UNCHANGED disk

Fail(c) ==
    /\ call[c].at \in Open
    /\ Moves(c, {"failed", "silent", "wrong"})
    /\ UNCHANGED disk

Step(c) == Ask(c) \/ Store(c) \/ Remove(c) \/ Read(c) \/ Confirm(c) \/ Fail(c)

Next ==
    \/ adrift'
    \/ UNCHANGED adrift /\ \E c \in DOMAIN call : Step(c)

Spec == Init /\ [][Next]_vars
=============================================================================
