------------------------------ MODULE DncFetchAll ------------------------------
(***************************************************************************)
(* list_dir() and download_all() of dnc_tftp.py: the client lists the root *)
(* of the box and downloads every file in it, one after the other.         *)
(*                                                                         *)
(* Every call opens a socket of its own, but all of them on local port 69, *)
(* and no packet says which call it belongs to: what is still on the wire  *)
(* when a call ends is delivered to the next one.  So each call is a step  *)
(* of one session over the network of DncExchange, and nothing clears      *)
(* toBox or toClient in between.  What the closed socket had buffered is   *)
(* dropped, which LoseDatagram may do.                                     *)
(*                                                                         *)
(* phase goes on where DncDownload's does not: "opendir" and "readdir"     *)
(* before the first download, "done" after the last.                       *)
(***************************************************************************)
EXTENDS DncDownload, FiniteSets

CONSTANTS
    Folders,        \* names of folders in the root
    Directories,    \* what the root may hold, in the order the box lists it
    END_OF_DIR,     \* the sequence number of the terminator (0xFFFF)
    MaxEntries,     \* list_dir's bound on the loop (2000)
    MaxInFlight     \* bound of the model: datagrams under way in each direction

ASSUME DirectoriesAssumption == Directories \subseteq Seq(Names \cup Folders)
ASSUME FoldersAssumption == Folders \cap Names = {}
ASSUME EntriesAssumption ==
    /\ MaxEntries \in Nat \ {0}
    /\ END_OF_DIR \in Nat
    /\ \A d \in Directories : Len(d) <= END_OF_DIR
    /\ MaxEntries <= END_OF_DIR

VARIABLES
    directory,  \* the root: its entries, and whether the box marks their end
    items,      \* list_dir: the entries accepted so far
    todo,       \* download_all: the items still to download, by index
    saved,      \* the files in dest_dir
    stale       \* history: a call began with packets of an earlier one on the wire

fetchVars == <<directory, items, todo, saved, stale>>
allVars == <<vars, fetchVars>>

-----------------------------------------------------------------------------
OpenDir       == [op |-> "opendir"]
ReadDir(i)    == [op |-> "readdir", index |-> i]
OpenDirAck    == [op |-> "opendir_ack"]
Entry(i)      ==
    LET n == directory.entries[i + 1]
    IN  [op |-> "dir_entry", seq |-> i, name |-> n,
         size |-> IF n \in Folders THEN 0 ELSE Len(files[n])]
EndOfDir      == [op |-> "dir_entry", seq |-> END_OF_DIR, name |-> NoName, size |-> 0]

HandleOpenDir(p) ==
    /\ p.op = "opendir"
    /\ Deliver(p, {OpenDirAck})
    /\ UNCHANGED boxVars

\* One entry by its index; past the last one the terminator, or nothing.
HandleReadDir(p) ==
    /\ p.op = "readdir"
    /\ Deliver(p, IF p.index < Len(directory.entries) THEN {Entry(p.index)}
                  ELSE IF directory.marked THEN {EndOfDir} ELSE {})
    /\ UNCHANGED boxVars

-----------------------------------------------------------------------------
FetchInit ==
    /\ directory \in [entries : Directories, marked : BOOLEAN]
    /\ LET listed == {directory.entries[i] : i \in 1..Len(directory.entries)}
       IN  files \in {f \in [Names -> Contents \cup {Absent}] :
                        \A n \in Names : f[n] # Absent <=> n \in listed}
    /\ reading \in {NoName} \cup {n \in Names : files[n] # Absent}
    /\ writing = NoName /\ buffer = <<>>
    /\ firmware \in Firmwares
    /\ name = NoName /\ expected = NoSize
    /\ phase = "opendir" /\ block = 1 /\ data = <<>> /\ pulled = NoFile
    /\ ExchangeInit(OpenDir)
    /\ items = <<>> /\ todo = {}
    /\ saved = [n \in Names |-> NoFile]
    /\ stale = FALSE

\* Packets that an earlier call left on the wire.
Leftover(ops) == \E p \in toBox \cup toClient' : p.op \in ops

\* accept=None: the open takes any datagram for its answer.
AcceptOpenDir ==
    /\ phase = "opendir"
    /\ \E r \in toClient : Take(r)
    /\ phase' = "readdir"
    /\ Begin(ReadDir(0))
    /\ UNCHANGED <<boxVars, name, expected, block, data, pulled, fetchVars>>

\* accept=lambda r: opcode_of(r) == OP_DIR_ENTRY: the index is not looked at.
Entries == {r \in toClient : r.op = "dir_entry"}

\* items.append(entry), then the next index, or the bound of the loop.
AcceptEntry ==
    /\ phase = "readdir"
    /\ \E r \in Entries :
          /\ r.seq # END_OF_DIR
          /\ Take(r)
          /\ items' = Append(items, r)
    /\ IF Len(items') < MaxEntries
       THEN /\ Begin(ReadDir(Len(items')))
            /\ stale' = (stale \/ Leftover({"readdir", "dir_entry"}))
            /\ UNCHANGED phase
       ELSE Close /\ phase' = "protocol" /\ UNCHANGED stale
    /\ UNCHANGED <<boxVars, name, expected, block, data, pulled, directory, todo, saved>>

\* download(entry["name"], ..., expected_size=entry["size"] or None)
Open(e) ==
    /\ name' = e.name
    /\ expected' = IF e.size = 0 THEN NoSize ELSE e.size
    /\ phase' = "opening" /\ block' = 1 /\ data' = <<>> /\ pulled' = NoFile
    /\ Begin(OpenRead(e.name))

\* The files among the entries: folders are skipped.
FileEntries == {i \in 1..Len(items) : items[i].name \notin Folders}

IsFirst(i, S) == i \in S /\ \A j \in S : i <= j

\* The next of the files left, or the end of the loop.
OpenNext(left) ==
    /\ todo' = left
    /\ IF left = {}
       THEN /\ Close /\ phase' = "done"
            /\ UNCHANGED <<name, expected, block, data, pulled, stale>>
       ELSE /\ \E i \in left : IsFirst(i, left) /\ Open(items[i])
            /\ stale' = (stale \/ toBox # {} \/ toClient' # {})

\* The terminator: the listing is complete.
AcceptEnd ==
    /\ phase = "readdir"
    /\ \E r \in Entries : r.seq = END_OF_DIR /\ Take(r)
    /\ OpenNext(FileEntries)
    /\ UNCHANGED <<boxVars, directory, items, saved>>

\* Mutant: silence ends the listing, as it would with _try_rpc.
TimeOutEndsListing ==
    /\ UNCHANGED <<directory, items, saved>>
    /\ IF phase = "readdir"
       THEN /\ attempt = Resends
            /\ OpenNext(FileEntries)
            /\ UNCHANGED <<boxVars, toClient>>
       ELSE TimeOut /\ UNCHANGED <<todo, stale>>

\* Mutant: a file that fails is left out and the loop goes on.
TimeOutSkipsFile ==
    /\ UNCHANGED <<directory, items, saved>>
    /\ IF phase \in {"opening", "reading"}
       THEN /\ attempt = Resends
            /\ \E i \in todo : IsFirst(i, todo) /\ OpenNext(todo \ {i})
            /\ UNCHANGED <<boxVars, toClient>>
       ELSE TimeOut /\ UNCHANGED <<todo, stale>>

\* DncTimeout leaves list_dir(), download() and download_all().
FetchTimeOut == TimeOut /\ UNCHANGED fetchVars

DiscardInListing ==
    /\ phase = "readdir"
    /\ Discard(Entries)
    /\ UNCHANGED <<boxVars, clientVars, fetchVars>>

\* download() returned: its file is in dest_dir, the loop goes on.
FileDone ==
    /\ phase = "ok"
    /\ saved' = [saved EXCEPT ![name] = pulled]
    /\ UNCHANGED toClient
    /\ \E i \in todo : IsFirst(i, todo) /\ OpenNext(todo \ {i})
    /\ UNCHANGED <<boxVars, directory, items>>

\* The block loop of one download, as it is.
DownloadStep ==
    /\ AcceptOpen \/ AcceptBlock \/ AcceptLastBlock \/ DiscardReply
    /\ UNCHANGED fetchVars

FetchBoxStep ==
    /\ \E p \in toBox : \/ HandleOpenDir(p) \/ HandleReadDir(p)
                        \/ HandleOpenRead(p) \/ HandleRequest(p)
    /\ UNCHANGED <<clientVars, fetchVars>>

FetchResend == ResendRequest /\ UNCHANGED fetchVars

FetchLose == LoseDatagram /\ UNCHANGED fetchVars

\* The bound on what is under way; the client's clock is not held up by it.
Uncrowded == Cardinality(toBox') <= MaxInFlight /\ Cardinality(toClient') <= MaxInFlight

FetchNext ==
    \/ AcceptOpenDir /\ Uncrowded
    \/ AcceptEntry /\ Uncrowded
    \/ AcceptEnd /\ Uncrowded
    \/ DownloadStep /\ Uncrowded
    \/ FetchBoxStep /\ Uncrowded
    \/ DiscardInListing \/ FileDone \/ FetchResend \/ FetchTimeOut \/ FetchLose

FetchSpec == FetchInit /\ [][FetchNext]_allVars

\* The client's clock, and the client's own next step after a download.
ClientMoves == FetchResend \/ FetchTimeOut \/ FileDone
FetchFairSpec == FetchSpec /\ WF_allVars(ClientMoves)

-----------------------------------------------------------------------------
Listed == phase \in {"opening", "reading", "ok", "done"}

(* Late replies may repeat an entry of the listing, but never invent one    *)
(* and never end the listing early: an accepted entry is the one asked for  *)
(* or an earlier one, and a listing that returns is at least as long as the *)
(* directory ("swallowing [a timeout] would silently hide programs").       *)
ListingOnlyRepeats ==
    /\ \A i \in 1..Len(items) :
          items[i].seq < i /\ items[i] = Entry(items[i].seq)
    /\ Listed => Len(items) >= Len(directory.entries)

(* Where no call began with packets of an earlier one on the wire, what is  *)
(* in dest_dir is what the box holds under that name, whether download_all  *)
(* returned or raised in the middle, and if it returned no file is missing. *)
FetchIntegrity ==
    ~stale =>
        /\ \A n \in Names : saved[n] \in {NoFile, files[n]}
        /\ phase = "done" =>
              \A n \in Names : saved[n] = IF files[n] = Absent THEN NoFile ELSE files[n]

(* The same without the proviso, as the header of dnc_tftp.py has it: "a    *)
(* late or duplicated UDP datagram cannot be accepted in place of the       *)
(* current block".                                                          *)
EveryFileIsItsOwn == \A n \in Names : saved[n] \in {NoFile, files[n]}

(* Whatever the wire does and however many entries the box lists,           *)
(* download_all returns or raises.                                          *)
FetchEnds == <>(phase \in {"done", "timeout", "protocol"})
=============================================================================
