------------------------------ MODULE DncExchange ------------------------------
(***************************************************************************)
(* The request/reply loop every command of the UDP client goes through     *)
(* (_exchange in dnc_tftp.py), and the network under it.                   *)
(*                                                                         *)
(* The two directions of the wire are sets of datagrams.  A datagram stays *)
(* in its set until it is lost or delivered, may be delivered more than    *)
(* once and may overtake others: UDP loses, delays, duplicates and         *)
(* reorders.  A set cannot hold two equal datagrams, which loses nothing:  *)
(* a delivery may leave its datagram on the wire.                          *)
(*                                                                         *)
(* The client runs one exchange at a time.  Accepting a reply and sending  *)
(* the next request is one step, because the socket is not read between.   *)
(***************************************************************************)
EXTENDS Naturals

CONSTANT
    Resends     \* RESENDS: how many times a request is sent before giving up

ASSUME ResendsAssumption == Resends \in Nat \ {0}

VARIABLES
    toBox,      \* datagrams on their way to the box
    toClient,   \* datagrams on their way to the client, its socket buffer included
    request,    \* the packet _exchange is sending, or sent last
    attempt,    \* passes of its loop already begun, 0 outside an exchange
    disturbed,  \* history: a datagram was lost since this attempt was sent
    silent      \* history: an attempt ran out with nothing lost and nothing in flight

exchangeVars == <<toBox, toClient, request, attempt, disturbed, silent>>

ExchangeInit(first) ==
    /\ toBox = {first}
    /\ toClient = {}
    /\ request = first
    /\ attempt = 1
    /\ disturbed = FALSE
    /\ silent = FALSE

-----------------------------------------------------------------------------
(* The client's half.  These are conjuncts of the caller's actions.          *)

\* sock.sendto(pkt) of the first pass of a new exchange.
Begin(pkt) ==
    /\ request' = pkt
    /\ attempt' = 1
    /\ toBox' = toBox \cup {pkt}
    /\ disturbed' = FALSE
    /\ UNCHANGED silent

\* The caller asks for nothing more: its socket is closed.
Close ==
    /\ attempt' = 0
    /\ UNCHANGED <<toBox, request, disturbed, silent>>

\* recvfrom returned r; a duplicate of r may still be on its way.
Take(r) == toClient' \in {toClient, toClient \ {r}}

\* The window of this attempt passed although nothing is or was under way.
RanOutQuietly == ~disturbed /\ toBox = {} /\ toClient = {}

\* Mutant: a resend that is not counted against RESENDS.
ResendUncounted ==
    /\ attempt \in 1..Resends-1
    /\ toBox' = toBox \cup {request}
    /\ disturbed' = FALSE
    /\ silent' = (silent \/ RanOutQuietly)
    /\ UNCHANGED <<toClient, request, attempt>>

\* Mutant: one resend too many.
ResendOffByOne ==
    /\ attempt \in 1..Resends
    /\ attempt' = attempt + 1
    /\ toBox' = toBox \cup {request}
    /\ disturbed' = FALSE
    /\ silent' = (silent \/ RanOutQuietly)
    /\ UNCHANGED <<toClient, request>>

\* The deadline passed and attempts are left: send the same packet again.
Resend ==
    /\ attempt \in 1..Resends-1
    /\ attempt' = attempt + 1
    /\ toBox' = toBox \cup {request}
    /\ disturbed' = FALSE
    /\ silent' = (silent \/ RanOutQuietly)
    /\ UNCHANGED <<toClient, request>>

\* Every attempt is exhausted: DncTimeout.
GiveUp ==
    /\ attempt = Resends
    /\ attempt' = 0
    /\ silent' = (silent \/ RanOutQuietly)
    /\ UNCHANGED <<toBox, toClient, request, disturbed>>

\* A reply the caller's accept function refuses is dropped; the window runs on.
Discard(acceptable) ==
    /\ attempt > 0
    /\ \E r \in toClient \ acceptable : toClient' = toClient \ {r}
    /\ UNCHANGED <<toBox, request, attempt, disturbed, silent>>

-----------------------------------------------------------------------------
(* The network's half.                                                       *)

\* The wire drops a datagram in either direction.
Lose ==
    /\ \/ \E p \in toBox : toBox' = toBox \ {p} /\ UNCHANGED toClient
       \/ \E r \in toClient : toClient' = toClient \ {r} /\ UNCHANGED toBox
    /\ disturbed' = TRUE
    /\ UNCHANGED <<request, attempt, silent>>

\* The box takes p off the wire, or leaves a duplicate of it, and answers with replies.
Deliver(p, replies) ==
    /\ toBox' \in {toBox, toBox \ {p}}
    /\ toClient' = toClient \cup replies
    /\ UNCHANGED <<request, attempt, disturbed, silent>>
=============================================================================
