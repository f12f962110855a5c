----------------------------- MODULE ProgramCalls -----------------------------
(***************************************************************************)
(* What send() and fetch() of a transport to a control promise threads     *)
(* that share it: one call has the line at a time.  A send takes the file  *)
(* as it is when it gets the line; when it returns, the control has the    *)
(* whole of it, as it goes to the machine, or what it had before, and only *)
(* one that raises may leave a part.  A fetch gets a beginning of its      *)
(* program, which others can see in the making, and whoever comes first    *)
(* takes it.  Connections, chunks and failures do not show.                *)
(***************************************************************************)
EXTENDS TapeWrap

CONSTANTS Sends, Fetches, Number, InPlace, Stored, Texts, Absent, Free

VARIABLES
    queue,      \* the queued file
    memory,     \* what the control kept of the sends
    spool,      \* what was fetched and is nobody's yet, by number
    dest,       \* what each fetch returned
    line,       \* the call that has the line
    given,      \* the text it is sending
    outcome     \* how far each call has come

vars == <<queue, memory, spool, dest, line, given, outcome>>

Callers == Sends \cup Fetches
Beginnings(s) == {SubSeq(s, 1, n) : n \in 0..Len(s)}

Init ==
    /\ queue \in Texts \cup {Absent} /\ memory = <<>>
    /\ spool = [n \in DOMAIN Stored |-> Absent] /\ dest = [c \in Fetches |-> Absent]
    /\ line = Free /\ given = <<>>
    /\ outcome = [c \in Callers |-> "none"]

Becomes(c, how) == outcome' = [outcome EXCEPT ![c] = how]

Begin(c) ==
    /\ outcome[c] = "none" /\ line = Free
    /\ line' = c
    /\ IF c \in Sends THEN queue # Absent /\ given' = queue ELSE UNCHANGED given
    /\ UNCHANGED <<queue, memory, spool, dest, outcome>>

Refuse(c) ==
    /\ outcome[c] = "none" /\ line = Free
    /\ Becomes(c, "error")
    /\ UNCHANGED <<queue, memory, spool, dest, line, given>>

Put(c) ==
    /\ line = c /\ c \in Sends
    /\ line' = Free /\ given' = <<>>
    /\ \/ Becomes(c, "after") /\ memory' \in {memory, Wrapped(given)}
       \/ Becomes(c, "error") /\ memory' \in {memory} \cup Beginnings(Wrapped(given))
    /\ UNCHANGED <<queue, spool, dest>>

\* What a fetch has so far is there.
Fill(c) ==
    /\ line = c /\ c \in Fetches
    /\ \E s \in Beginnings(Stored[Number[c]]) : spool' = [spool EXCEPT ![Number[c]] = s]
    /\ UNCHANGED <<queue, memory, dest, line, given, outcome>>

\* Unless another has taken it by then.
Get(c) ==
    /\ line = c /\ c \in Fetches
    /\ line' = Free
    /\ \/ Becomes(c, "after")
          /\ \/ \E s \in Beginnings(Stored[Number[c]]) :
                    spool' = [spool EXCEPT ![Number[c]] = s]
             \/ spool[Number[c]] = Absent /\ UNCHANGED spool
       \/ Becomes(c, "error") /\ UNCHANGED spool
    /\ UNCHANGED <<queue, memory, dest, given>>

\* A send looks at the file again before it returns.
Return(c) ==
    /\ c \in Sends /\ outcome[c] = "after"
    /\ Becomes(c, IF queue = Absent THEN "error" ELSE "ok")
    /\ UNCHANGED <<queue, memory, spool, dest, line, given>>

\* A fetch takes what is there, if another has not taken it or is not at it.
Take(c) ==
    LET n == Number[c] IN
    /\ c \in Fetches /\ outcome[c] = "after"
    /\ \/ /\ spool[n] = Absent \/ (line \in Fetches /\ Number[line] = n)
          /\ Becomes(c, "error") /\ UNCHANGED <<spool, dest>>
       \/ /\ spool[n] # Absent
          /\ Becomes(c, "ok") /\ dest' = [dest EXCEPT ![c] = spool[n]]
          /\ spool' = IF c \in InPlace THEN spool ELSE [spool EXCEPT ![n] = Absent]
    /\ UNCHANGED <<queue, memory, line, given>>

Replace ==
    /\ queue' \in Texts \cup {Absent}
    /\ UNCHANGED <<memory, spool, dest, line, given, outcome>>

Next ==
    \/ \E c \in Callers : Begin(c) \/ Refuse(c) \/ Put(c) \/ Fill(c) \/ Get(c) \/ Return(c) \/ Take(c)
    \/ Replace

Spec == Init /\ [][Next]_vars
=============================================================================
