------------------------------ MODULE WebDavBridge ------------------------------
(***************************************************************************)
(* dnc_webdav.py: the box as a network folder.  Every request has a thread *)
(* of its own; a thread looks the name up with a listing of the folder,    *)
(* then downloads, uploads what it received, or deletes.  There is no lock *)
(* between the threads.                                                    *)
(***************************************************************************)
EXTENDS BoxJobs

CONSTANTS
    Threads,        \* the server's worker threads
    Shared,         \* the names users ask for
    Bodies,         \* the programs they store
    MaxRequests     \* bound of the model: requests, and kinds of slips, together

ASSUME SharedAssumption == Shared \subseteq Names
ASSUME BodiesAssumption == Bodies \subseteq Seq(Byte)

VARIABLES
    thread,         \* the request each worker is at
    requests        \* requests begun

bridgeVars == <<thread, requests>>

NoRequest == [at |-> "idle", verb |-> "none", name |-> NoName]

BridgeInit ==
    /\ thread = [t \in Threads |-> NoRequest]

\* A request comes in.
Receive(t) ==
    /\ thread[t].at = "idle"
    /\ requests < MaxRequests
    /\ requests' = requests + 1
    /\ \E v \in {"GET", "PUT", "DELETE"}, n \in Shared :
          thread' = [thread EXCEPT ![t] = [at |-> "lookup", verb |-> v, name |-> n]]
    /\ UNCHANGED jobVars

Answer(t) == thread' = [thread EXCEPT ![t] = NoRequest]

\* get_resource_inst: the listing fails, does not end, or does not have the name.
NotFound(t) ==
    /\ thread[t].at = "lookup"
    /\ Answer(t)
    /\ UNCHANGED <<jobVars, requests>>

\* get_member finds it, or create_empty_resource makes a new one for a PUT.
Found(t) ==
    LET r == thread[t] IN
    /\ r.at = "lookup"
    /\ firmware.marked
    /\ r.verb = "PUT" \/ r.name \in DOMAIN Sizes
    /\ CASE r.verb = "GET"    -> Download(t, r.name, NoSize)
         [] r.verb = "DELETE" -> Delete(t, r.name)
         [] OTHER             -> UNCHANGED job
    /\ thread' = [thread EXCEPT ![t].at = IF r.verb = "PUT" THEN "receiving" ELSE "working"]
    /\ UNCHANGED <<boxVars, mixed, slips, requests>>

\* Mutant: what was received is uploaded, whole or not.
EndWriteAnyway(t) ==
    /\ thread[t].at = "receiving"
    /\ \E body \in Bodies : \E n \in 0..Len(body) :
          Upload(t, thread[t].name, SubSeq(body, 1, n), TRUE)
    /\ thread' = [thread EXCEPT ![t].at = "working"]
    /\ UNCHANGED <<boxVars, mixed, slips, requests>>

\* begin_write, the body, _WriteBuf.close and end_write: with_errors if the user
\* broke off, and then nothing is uploaded.
EndWrite(t) ==
    /\ thread[t].at = "receiving"
    /\ \/ /\ \E body \in Bodies, VERIFY_UPLOAD \in BOOLEAN :
                Upload(t, thread[t].name, body, VERIFY_UPLOAD)
          /\ thread' = [thread EXCEPT ![t].at = "working"]
       \/ /\ Answer(t)
          /\ UNCHANGED job
    /\ UNCHANGED <<boxVars, mixed, slips, requests>>

\* Mutant: the next request finds the outcome of this one.
RespondKeepingJob(t) ==
    /\ thread[t].at = "working"
    /\ job[t].at \in Ends
    /\ Answer(t)
    /\ UNCHANGED <<jobVars, requests>>

\* The call returned or raised: the answer goes out.
Respond(t) ==
    /\ thread[t].at = "working"
    /\ job[t].at \in Ends
    /\ job' = [job EXCEPT ![t] = NoJob]
    /\ Answer(t)
    /\ UNCHANGED <<boxVars, mixed, slips, requests>>

BridgeStep(t) ==
    \/ Receive(t) \/ NotFound(t) \/ Found(t) \/ EndWrite(t) \/ Respond(t)
    \/ Exchange(t) /\ UNCHANGED bridgeVars
=============================================================================
