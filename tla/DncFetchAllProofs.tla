-------------------------- MODULE DncFetchAllProofs --------------------------
(***************************************************************************)
(* For every directory, every bound on the listing and every behaviour of  *)
(* the wire, between calls and during them, a listing never invents an     *)
(* entry and never ends early.                                             *)
(***************************************************************************)
EXTENDS DncFetchAll, DncDownloadProofs, SequenceTheorems, TLAPS

-----------------------------------------------------------------------------
(* The inductive invariant.                                                  *)

\* What the box may answer to a ReadDir inside the directory.
DirEntries == {Entry(i) : i \in 0..Len(directory.entries) - 1}

\* The client never asks beyond the first index it does not have.
AsksInOrder(p) == p.op = "readdir" => p.index \in 0..Len(items)

\* An entry that is under way, or was, is one the client has asked for; the
\* terminator is under way only once the client has asked past the end.
AnswersInOrder(r) ==
    r.op = "dir_entry" =>
        \/ r \in DirEntries /\ r.seq <= Len(items)
        \/ r = EndOfDir /\ Len(directory.entries) <= Len(items)

ListingInv ==
    /\ directory \in [entries : Directories, marked : BOOLEAN]
    /\ items \in Seq(DirEntries)
    /\ \A i \in 1..Len(items) : items[i].seq < i
    /\ \A p \in toBox \cup {request} : AsksInOrder(p)
    /\ \A r \in toClient : AnswersInOrder(r)
    /\ Listed => Len(items) >= Len(directory.entries)

\* An entry of the directory is its own Entry, and no terminator.
LEMMA EntryFacts ==
    ASSUME directory \in [entries : Directories, marked : BOOLEAN],
           NEW r \in DirEntries
    PROVE  /\ r.seq \in Nat /\ r.seq < Len(directory.entries)
           /\ r.seq < END_OF_DIR
           /\ r = Entry(r.seq)
<1>1. Len(directory.entries) \in Nat /\ Len(directory.entries) <= END_OF_DIR
    BY DirectoriesAssumption, EntriesAssumption, LenProperties
<1>2. PICK i \in 0..Len(directory.entries) - 1 : r = Entry(i)
    BY DEF DirEntries
<1>3. r.seq = i
    BY <1>2 DEF Entry
<1> QED
    BY <1>1, <1>2, <1>3, EntriesAssumption

\* The invariant says what ListingOnlyRepeats says.
LEMMA ListingInvSuffices == ListingInv => ListingOnlyRepeats
<1> SUFFICES ASSUME ListingInv PROVE ListingOnlyRepeats
    OBVIOUS
<1>1. \A i \in 1..Len(items) : items[i] \in DirEntries
    BY ElementOfSeq DEF ListingInv
<1>2. \A i \in 1..Len(items) : items[i] = Entry(items[i].seq)
    BY <1>1, EntryFacts DEF ListingInv
<1> QED
    BY <1>2 DEF ListingInv, ListingOnlyRepeats

\* The first call has asked for nothing yet.
LEMMA InitListingInv == FetchInit => ListingInv
<1> SUFFICES ASSUME FetchInit PROVE ListingInv
    OBVIOUS
<1>1. items \in Seq(DirEntries) /\ Len(items) = 0
    BY EmptySeq DEF FetchInit
<1>2. \A p \in toBox \cup {request} : AsksInOrder(p)
    BY DEF FetchInit, ExchangeInit, OpenDir, AsksInOrder
<1> QED
    BY <1>1, <1>2 DEF FetchInit, ExchangeInit, ListingInv, Listed

-----------------------------------------------------------------------------
(* Each action preserves it.                                                 *)

\* A step that accepts no entry and puts nothing new on the wire in order.
LEMMA QuietStep ==
    ASSUME ListingInv,
           UNCHANGED <<directory, files, items>>,
           \A p \in toBox' \cup {request'} : p \in toBox \cup {request} \/ AsksInOrder(p),
           \A r \in toClient' : r \in toClient \/ AnswersInOrder(r),
           Listed' => Listed \/ Len(items) >= Len(directory.entries)
    PROVE  ListingInv'
<1>1. DirEntries' = DirEntries
    BY DEF DirEntries, Entry
<1>2. \A p : AsksInOrder(p)' <=> AsksInOrder(p)
    BY DEF AsksInOrder
<1>3. \A r : AnswersInOrder(r)' <=> AnswersInOrder(r)
    BY <1>1 DEF AnswersInOrder, EndOfDir
<1>4. \A p \in toBox' \cup {request'} : AsksInOrder(p)'
    BY <1>2 DEF ListingInv
<1>5. \A r \in toClient' : AnswersInOrder(r)'
    BY <1>3 DEF ListingInv
<1> QED
    BY <1>1, <1>4, <1>5 DEF ListingInv

\* The end of the listing, or of a file: the next file is opened, or the loop ends.
LEMMA OpenNextStep ==
    ASSUME ListingInv, NEW left, OpenNext(left),
           UNCHANGED <<directory, files, items>>,
           toClient' \subseteq toClient,
           Len(items) >= Len(directory.entries)
    PROVE  ListingInv'
<1>1. \A p \in toBox' \cup {request'} : p \in toBox \cup {request} \/ AsksInOrder(p)
    BY DEF OpenNext, Open, Begin, Close, OpenRead, AsksInOrder
<1> QED
    BY <1>1, QuietStep

\* The open of the directory is answered, and the first entry asked for.
LEMMA AcceptOpenDirStep == ASSUME ListingInv, AcceptOpenDir PROVE ListingInv'
<1> USE DEF AcceptOpenDir
<1>1. Len(items) \in Nat
    BY LenProperties DEF ListingInv
<1>2. \A p \in toBox' \cup {request'} : p \in toBox \cup {request} \/ AsksInOrder(p)
    BY <1>1 DEF Begin, ReadDir, AsksInOrder
<1>3. toClient' \subseteq toClient /\ UNCHANGED <<directory, files, items>>
    BY DEF Take, boxVars, fetchVars
<1>4. ~Listed'
    BY DEF Listed
<1> QED
    BY <1>2, <1>3, <1>4, QuietStep

\* An entry is accepted: it is the one asked for, or an earlier one again.
LEMMA AcceptEntryStep == ASSUME ListingInv, AcceptEntry PROVE ListingInv'
<1> USE DEF AcceptEntry
<1>1. PICK r \in Entries : r.seq # END_OF_DIR /\ Take(r) /\ items' = Append(items, r)
    OBVIOUS
<1>2. UNCHANGED <<directory, files>> /\ toClient' \subseteq toClient
    BY <1>1 DEF Take, boxVars
<1>3. DirEntries' = DirEntries
    BY <1>2 DEF DirEntries, Entry
<1>4. r \in DirEntries /\ r.seq \in Nat /\ r.seq <= Len(items)
    <2>1. AnswersInOrder(r) /\ r.op = "dir_entry" /\ r # EndOfDir
        BY <1>1 DEF ListingInv, Entries, EndOfDir
    <2> QED
        BY <2>1, EntryFacts DEF AnswersInOrder, ListingInv
<1>5. /\ items' \in Seq(DirEntries)
      /\ Len(items') = Len(items) + 1
      /\ \A i \in 1..Len(items) : items'[i] = items[i]
      /\ items'[Len(items) + 1] = r
    BY <1>1, <1>4, AppendProperties DEF ListingInv
<1>6. Len(items) \in Nat
    BY LenProperties DEF ListingInv
<1>7. \A i \in 1..Len(items') : items'[i].seq < i
    <2> SUFFICES ASSUME NEW i \in 1..Len(items') PROVE items'[i].seq < i
        OBVIOUS
    <2>1. CASE i = Len(items) + 1
        BY <1>4, <1>5, <1>6, <2>1
    <2>2. CASE i # Len(items) + 1
        <3>1. i \in 1..Len(items)
            BY <1>5, <1>6, <2>2
        <3> QED
            BY <1>5, <3>1 DEF ListingInv
    <2> QED
        BY <2>1, <2>2
<1>8. \A p \in toBox' \cup {request'} : AsksInOrder(p)'
    <2> SUFFICES ASSUME NEW p \in toBox' \cup {request'} PROVE AsksInOrder(p)'
        OBVIOUS
    <2>1. p \in toBox \cup {request} \/ p = ReadDir(Len(items'))
        BY DEF Begin, Close
    <2>2. CASE p \in toBox \cup {request}
        BY <1>5, <1>6, <2>2 DEF ListingInv, AsksInOrder
    <2>3. CASE p = ReadDir(Len(items'))
        BY <1>5, <1>6, <2>3 DEF ReadDir, AsksInOrder
    <2> QED
        BY <2>1, <2>2, <2>3
<1>9. \A q \in toClient' : AnswersInOrder(q)'
    <2> SUFFICES ASSUME NEW q \in toClient', q.op = "dir_entry" PROVE AnswersInOrder(q)'
        BY DEF AnswersInOrder
    <2>1. AnswersInOrder(q)
        BY <1>2 DEF ListingInv
    <2>2. CASE q \in DirEntries /\ q.seq <= Len(items)
        <3>1. q.seq \in Nat
            BY <2>2, EntryFacts DEF ListingInv
        <3> QED
            BY <1>3, <1>5, <1>6, <2>2, <3>1 DEF AnswersInOrder
    <2>3. CASE q = EndOfDir /\ Len(directory.entries) <= Len(items)
        <3>1. Len(directory.entries) \in Nat
            BY DirectoriesAssumption, LenProperties DEF ListingInv
        <3> QED
            BY <1>2, <1>5, <1>6, <2>3, <3>1 DEF AnswersInOrder, EndOfDir
    <2> QED
        BY <2>1, <2>2, <2>3 DEF AnswersInOrder
<1>10. ~Listed'
    BY DEF Listed, Close
<1> QED
    BY <1>2, <1>3, <1>5, <1>7, <1>8, <1>9, <1>10 DEF ListingInv

\* The terminator is accepted: the client has asked past the end of the directory.
LEMMA AcceptEndStep == ASSUME ListingInv, AcceptEnd PROVE ListingInv'
<1> USE DEF AcceptEnd
<1>1. PICK r \in Entries : r.seq = END_OF_DIR /\ Take(r)
    OBVIOUS
<1>2. AnswersInOrder(r) /\ r.op = "dir_entry"
    BY DEF ListingInv, Entries
<1>3. r \notin DirEntries
    <2> SUFFICES ASSUME r \in DirEntries PROVE FALSE
        OBVIOUS
    <2>1. r.seq \in Nat /\ r.seq < END_OF_DIR
        BY EntryFacts DEF ListingInv
    <2> QED
        BY <1>1, <2>1
<1>4. Len(items) >= Len(directory.entries)
    <2>1. Len(directory.entries) <= Len(items)
        BY <1>2, <1>3 DEF AnswersInOrder
    <2> QED
        BY <2>1, DirectoriesAssumption, LenProperties DEF ListingInv
<1>5. toClient' \subseteq toClient /\ UNCHANGED <<directory, files, items>>
    BY <1>1 DEF Take, boxVars
<1> QED
    BY <1>4, <1>5, OpenNextStep

\* A file is saved and the loop goes on.
LEMMA FileDoneStep == ASSUME ListingInv, FileDone PROVE ListingInv'
<1> USE DEF FileDone
<1>1. PICK i \in todo : OpenNext(todo \ {i})
    OBVIOUS
<1>2. Len(items) >= Len(directory.entries)
    BY DEF ListingInv, Listed
<1>3. toClient' \subseteq toClient /\ UNCHANGED <<directory, files, items>>
    BY DEF boxVars
<1> QED
    BY <1>1, <1>2, <1>3, OpenNextStep

\* The block loop asks for no entry, and ends no listing.
LEMMA DownloadStepStep == ASSUME ListingInv, DownloadStep PROVE ListingInv'
<1> USE DEF DownloadStep, fetchVars
<1>1. UNCHANGED <<directory, files, items>>
    BY DEF AcceptOpen, AcceptBlock, AcceptLastBlock, DiscardReply, boxVars
<1>2. toClient' \subseteq toClient
    BY DEF AcceptOpen, AcceptBlock, AcceptLastBlock, DiscardReply, Discard, Take
<1>3. \A p \in toBox' \cup {request'} : p \in toBox \cup {request} \/ AsksInOrder(p)
    BY DEF AcceptOpen, AcceptBlock, AcceptLastBlock, DiscardReply, Discard, Begin, Close,
           Request, AsksInOrder
<1>4. Listed' => Listed
    <2>1. CASE AcceptOpen
        BY <2>1 DEF AcceptOpen, Listed
    <2>2. CASE AcceptBlock \/ AcceptLastBlock \/ DiscardReply
        BY <2>2 DEF AcceptBlock, AcceptLastBlock, DiscardReply, Listed, clientVars
    <2> QED
        BY <2>1, <2>2
<1> QED
    BY <1>1, <1>2, <1>3, <1>4, QuietStep

\* The box answers a ReadDir with the entry of its index, or past the end with the terminator.
LEMMA FetchBoxStepStep == ASSUME ListingInv, FetchBoxStep PROVE ListingInv'
<1> USE DEF FetchBoxStep, clientVars, fetchVars
<1>1. PICK p \in toBox : HandleOpenDir(p) \/ HandleReadDir(p)
                         \/ HandleOpenRead(p) \/ HandleRequest(p)
    OBVIOUS
<1>2. /\ toBox' \subseteq toBox /\ request' = request
      /\ UNCHANGED <<directory, files, items, phase>>
    BY <1>1 DEF HandleOpenDir, HandleReadDir, HandleOpenRead, HandleRequest, Deliver, boxVars
<1>3. \A r \in toClient' : r \in toClient \/ AnswersInOrder(r)
    <2>1. CASE HandleOpenDir(p)
        BY <2>1 DEF HandleOpenDir, Deliver, OpenDirAck, AnswersInOrder
    <2>2. CASE HandleReadDir(p)
        <3>1. p.index \in 0..Len(items)
            BY <2>2 DEF HandleReadDir, ListingInv, AsksInOrder
        <3>2. Len(directory.entries) \in Nat
            BY DirectoriesAssumption, LenProperties DEF ListingInv
        <3>3. CASE p.index < Len(directory.entries)
            <4>1. p.index \in 0..Len(directory.entries) - 1
                BY <3>1, <3>2, <3>3
            <4>2. Entry(p.index) \in DirEntries
                BY <4>1 DEF DirEntries
            <4>3. Entry(p.index).seq = p.index
                BY DEF Entry
            <4>4. AnswersInOrder(Entry(p.index))
                BY <3>1, <4>2, <4>3 DEF AnswersInOrder
            <4> QED
                BY <2>2, <3>3, <4>4 DEF HandleReadDir, Deliver
        <3>4. CASE ~(p.index < Len(directory.entries))
            <4>1. AnswersInOrder(EndOfDir)
                BY <3>1, <3>2, <3>4 DEF AnswersInOrder
            <4> QED
                BY <2>2, <3>4, <4>1 DEF HandleReadDir, Deliver
        <3> QED
            BY <3>3, <3>4
    <2>3. CASE HandleOpenRead(p)
        BY <2>3 DEF HandleOpenRead, Deliver, OpenAck, AnswersInOrder
    <2>4. CASE HandleRequest(p)
        BY <2>4 DEF HandleRequest, Deliver, Data, AnswersInOrder
    <2> QED
        BY <1>1, <2>1, <2>2, <2>3, <2>4
<1>4. Listed' => Listed
    BY <1>2 DEF Listed
<1> QED
    BY <1>2, <1>3, <1>4, QuietStep

\* Discards, resends, timeouts and losses take from the wire or repeat what was on it.
LEMMA WireStep ==
    ASSUME ListingInv, DiscardInListing \/ FetchResend \/ FetchTimeOut \/ FetchLose
    PROVE  ListingInv'
<1> USE DEF DiscardInListing, FetchResend, FetchTimeOut, FetchLose, fetchVars
<1>1. UNCHANGED <<directory, files, items>>
    BY DEF ResendRequest, TimeOut, LoseDatagram, boxVars
<1>2. toClient' \subseteq toClient
    BY DEF Discard, ResendRequest, Resend, TimeOut, GiveUp, LoseDatagram, Lose
<1>3. \A p \in toBox' \cup {request'} : p \in toBox \cup {request}
    BY DEF Discard, ResendRequest, Resend, TimeOut, GiveUp, LoseDatagram, Lose
<1>4. Listed' => Listed
    BY DEF Listed, ResendRequest, TimeOut, LoseDatagram, clientVars
<1> QED
    BY <1>1, <1>2, <1>3, <1>4, QuietStep

\* The induction step.
LEMMA NextListingInv == ListingInv /\ [FetchNext]_allVars => ListingInv'
<1> SUFFICES ASSUME ListingInv, [FetchNext]_allVars PROVE ListingInv'
    OBVIOUS
<1>1. CASE AcceptOpenDir
    BY <1>1, AcceptOpenDirStep
<1>2. CASE AcceptEntry
    BY <1>2, AcceptEntryStep
<1>3. CASE AcceptEnd
    BY <1>3, AcceptEndStep
<1>4. CASE DownloadStep
    BY <1>4, DownloadStepStep
<1>5. CASE FetchBoxStep
    BY <1>5, FetchBoxStepStep
<1>6. CASE FileDone
    BY <1>6, FileDoneStep
<1>7. CASE DiscardInListing \/ FetchResend \/ FetchTimeOut \/ FetchLose
    BY <1>7, WireStep
<1>8. CASE UNCHANGED allVars
    <2>1. UNCHANGED <<directory, files, items, toBox, toClient, request, phase>>
        BY <1>8 DEF allVars, vars, exchangeVars, boxVars, clientVars, fetchVars
    <2>2. Listed' => Listed
        BY <2>1 DEF Listed
    <2> QED
        BY <2>1, <2>2, QuietStep
<1> QED
    BY <1>1, <1>2, <1>3, <1>4, <1>5, <1>6, <1>7, <1>8 DEF FetchNext

(* Whatever a call leaves on the wire for the next one, the listing holds   *)
(* entries of the directory, none of them ahead of its place, and a listing *)
(* that returns has asked past the last entry.                              *)
THEOREM ListingIsHonest == FetchSpec => []ListingOnlyRepeats
<1>1. FetchInit => ListingInv
    BY InitListingInv
<1>2. ListingInv /\ [FetchNext]_allVars => ListingInv'
    BY NextListingInv
<1>3. ListingInv => ListingOnlyRepeats
    BY ListingInvSuffices
<1> QED
    BY <1>1, <1>2, <1>3, PTL DEF FetchSpec

-----------------------------------------------------------------------------
(* The inductive invariant of what is saved.                                 *)

\* The disk does not change, and the root lists exactly the files on it.
DiskListed ==
    /\ directory \in [entries : Directories, marked : BOOLEAN]
    /\ files \in [Names -> Seq(Byte) \cup {Absent}]
    /\ \A n \in Names :
          files[n] # Absent <=> n \in {directory.entries[i] : i \in 1..Len(directory.entries)}
    /\ writing = NoName /\ buffer = <<>> /\ firmware \in Firmwares

\* No entry is repeated.
EachEntryOnce == \A i \in 1..Len(items) : items[i].seq = i - 1

\* While it lists, only the opening and the current ReadDir are under way, and what answers them.
ListingWire ==
    phase \in {"opendir", "readdir"} =>
        /\ phase = "opendir" => items = <<>>
        /\ toBox \cup {request} \subseteq {OpenDir, ReadDir(Len(items))}
        /\ \A r \in toClient : r.op = "dir_entry" => r.seq \in {Len(items), END_OF_DIR}
        /\ reading \in Names \cup {NoName}
        /\ disturbed \in BOOLEAN /\ silent \in BOOLEAN

\* While it downloads, the call is one of DncDownload, for the first file left.
FileUnderWay ==
    phase \in {"opening", "reading", "ok"} =>
        /\ IInv
        /\ file # Absent
        /\ expected \in {NoSize, Len(file)}
        /\ \E i \in FileEntries : IsFirst(i, todo) /\ name = items[i].name

\* Every file of the listing is saved or still to do.
SavedSoFar ==
    /\ saved \in [Names -> Seq(Byte) \cup {NoFile}]
    /\ \A n \in Names : saved[n] = NoFile \/ (files[n] # Absent /\ saved[n] = files[n])
    /\ Listed => todo \subseteq FileEntries
    /\ Listed => \A i \in FileEntries \ todo : saved[items[i].name] = files[items[i].name]
    /\ phase = "done" => todo = {}

Undisturbed == EachEntryOnce /\ ListingWire /\ FileUnderWay /\ SavedSoFar

FetchInv ==
    /\ ListingInv
    /\ DiskListed
    /\ ~stale => Undisturbed

\* A file of the listing is on the box, under the name and with the size listed.
LEMMA FileEntryFacts ==
    ASSUME ListingInv, DiskListed, EachEntryOnce, NEW i \in FileEntries
    PROVE  /\ i \in 1..Len(directory.entries)
           /\ items[i].name = directory.entries[i]
           /\ items[i].name \in Names
           /\ files[items[i].name] \in Seq(Byte)
           /\ files[items[i].name] # Absent
           /\ items[i].size = Len(files[items[i].name])
<1>1. i \in 1..Len(items) /\ items[i].name \notin Folders
    BY DEF FileEntries
<1>2. items[i] \in DirEntries
    BY <1>1, ElementOfSeq DEF ListingInv
<1>3. items[i].seq = i - 1
    BY <1>1 DEF EachEntryOnce
<1>4. items[i] = Entry(i - 1) /\ i - 1 < Len(directory.entries)
    BY <1>2, <1>3, EntryFacts DEF ListingInv
<1>5. i \in Nat /\ Len(directory.entries) \in Nat /\ directory.entries \in Seq(Names \cup Folders)
    BY <1>1, DirectoriesAssumption, LenProperties DEF DiskListed, ListingInv
<1>6. i \in 1..Len(directory.entries) /\ (i - 1) + 1 = i
    BY <1>1, <1>4, <1>5
<1>7. /\ items[i].name = directory.entries[i]
      /\ items[i].size = IF directory.entries[i] \in Folders THEN 0
                         ELSE Len(files[directory.entries[i]])
    BY <1>4, <1>6 DEF Entry
<1>8. directory.entries[i] \in Names
    BY <1>1, <1>5, <1>6, <1>7, ElementOfSeq
<1>9. files[directory.entries[i]] # Absent
    BY <1>6, <1>8 DEF DiskListed
<1>10. files[directory.entries[i]] \in Seq(Byte)
    BY <1>8, <1>9 DEF DiskListed
<1> QED
    BY <1>1, <1>6, <1>7, <1>8, <1>9, <1>10

\* A set of indices has one first element.
LEMMA FirstIsUnique ==
    ASSUME NEW S \in SUBSET Nat, NEW i, NEW j, IsFirst(i, S), IsFirst(j, S)
    PROVE  i = j
<1>1. i \in Nat /\ j \in Nat /\ i <= j /\ j <= i
    BY DEF IsFirst
<1> QED
    BY <1>1

\* The listing at its end holds every file that is on the box.
LEMMA ListingIsComplete ==
    ASSUME ListingInv, DiskListed, EachEntryOnce, Listed,
           NEW n \in Names, files[n] # Absent
    PROVE  \E i \in FileEntries : items[i].name = n
<1>1. PICK i \in 1..Len(directory.entries) : n = directory.entries[i]
    BY DEF DiskListed
<1>2. Len(directory.entries) \in Nat /\ Len(items) \in Nat
    BY DirectoriesAssumption, LenProperties DEF ListingInv
<1>3. i \in 1..Len(items)
    BY <1>2 DEF ListingInv
<1>4. items[i] \in DirEntries /\ items[i].seq = i - 1
    BY <1>3, ElementOfSeq DEF ListingInv, EachEntryOnce
<1>5. items[i] = Entry(i - 1)
    BY <1>4, EntryFacts DEF ListingInv
<1>6. (i - 1) + 1 = i
    BY <1>2
<1>7. items[i].name = n
    BY <1>1, <1>5, <1>6 DEF Entry
<1>8. n \notin Folders
    BY FoldersAssumption
<1> QED
    BY <1>3, <1>7, <1>8 DEF FileEntries

\* The invariant says what FetchIntegrity says.
LEMMA FetchInvSuffices == FetchInv => FetchIntegrity
<1> SUFFICES ASSUME FetchInv, ~stale PROVE
        /\ \A n \in Names : saved[n] \in {NoFile, files[n]}
        /\ phase = "done" =>
              \A n \in Names : saved[n] = IF files[n] = Absent THEN NoFile ELSE files[n]
    BY DEF FetchIntegrity
<1>1. Undisturbed /\ SavedSoFar /\ EachEntryOnce /\ ListingInv /\ DiskListed
    BY DEF FetchInv, Undisturbed
<1>2. \A n \in Names : saved[n] \in {NoFile, files[n]}
    BY <1>1 DEF SavedSoFar
<1>3. ASSUME phase = "done", NEW n \in Names
      PROVE  saved[n] = IF files[n] = Absent THEN NoFile ELSE files[n]
    <2>1. CASE files[n] = Absent
        BY <1>1, <2>1 DEF SavedSoFar
    <2>2. CASE files[n] # Absent
        <3>1. Listed /\ todo = {}
            BY <1>1, <1>3 DEF Listed, SavedSoFar
        <3>2. PICK i \in FileEntries : items[i].name = n
            BY <1>1, <2>2, <3>1, ListingIsComplete
        <3> QED
            BY <1>1, <2>2, <3>1, <3>2 DEF SavedSoFar
    <2> QED
        BY <2>1, <2>2
<1> QED
    BY <1>2, <1>3

\* Nothing is listed, saved or stale at the start.
LEMMA InitFetchInv == FetchInit => FetchInv
<1> SUFFICES ASSUME FetchInit PROVE FetchInv
    OBVIOUS
<1> USE DEF FetchInit, ExchangeInit
<1>1. DiskListed
    <2>1. files \in [Names -> Seq(Byte) \cup {Absent}]
        BY ContentsAssumption
    <2> QED
        BY <2>1 DEF DiskListed
<1>2. EachEntryOnce /\ FileUnderWay
    BY DEF EachEntryOnce, FileUnderWay
<1>3. ListingWire
    BY DEF ListingWire
<1>4. SavedSoFar
    BY DEF SavedSoFar, Listed
<1> QED
    BY <1>1, <1>2, <1>3, <1>4, InitListingInv DEF FetchInv, Undisturbed

-----------------------------------------------------------------------------
(* A call that begins on an empty wire is a download of its own.             *)

FreshCall ==
    /\ files \in [Names -> Seq(Byte) \cup {Absent}]
    /\ writing = NoName /\ buffer = <<>> /\ firmware \in Firmwares
    /\ reading \in Names \cup {NoName}
    /\ name \in Names
    /\ expected \in Nat \cup {NoSize}
    /\ phase = "opening" /\ block = 1 /\ data = <<>> /\ pulled = NoFile
    /\ toBox = {OpenRead(name)} /\ toClient = {}
    /\ request = OpenRead(name) /\ attempt = 1
    /\ disturbed \in BOOLEAN /\ silent \in BOOLEAN

\* It satisfies the invariant of a download.
LEMMA FreshCallIInv == FreshCall => IInv
<1> SUFFICES ASSUME FreshCall PROVE IInv
    OBVIOUS
<1> USE DEF FreshCall
<1>1. TypeOK
    <2>1. buffer \in Seq(Byte) /\ data \in Seq(Byte)
        BY EmptySeq
    <2>2. attempt \in 0..Resends
        BY ResendsAssumption
    <2>3. toBox \subseteq Requests /\ request \in Requests
        BY DEF Requests
    <2> QED
        BY <2>1, <2>2, <2>3 DEF TypeOK, BoxTypeOK
<1>2. RepliesFromFile /\ OpenedFirst
    BY DEF RepliesFromFile, OpenedFirst, OpenRead
<1>3. CollectedPrefix /\ ExchangeRuns /\ DownloadIntegrity
    BY DEF CollectedPrefix, ExchangeRuns, Done, DownloadIntegrity
<1> QED
    BY <1>1, <1>2, <1>3 DEF IInv

\* The same of the state after a step.
LEMMA FreshCallIInvNext == FreshCall' => IInv'
BY FreshCallIInv, PTL

-----------------------------------------------------------------------------
(* Each action preserves it.                                                 *)

\* The disk and the directory are those of the start.
LEMMA DiskStep == DiskListed /\ [FetchNext]_allVars => DiskListed'
<1> SUFFICES ASSUME DiskListed, [FetchNext]_allVars PROVE DiskListed'
    OBVIOUS
<1>1. UNCHANGED <<directory, files, writing, buffer, firmware>>
    <2>1. CASE AcceptOpenDir \/ AcceptEntry \/ AcceptEnd \/ FileDone \/ DiscardInListing
        BY <2>1 DEF AcceptOpenDir, AcceptEntry, AcceptEnd, FileDone, DiscardInListing,
                    fetchVars, boxVars
    <2>2. CASE DownloadStep
        BY <2>2 DEF DownloadStep, AcceptOpen, AcceptBlock, AcceptLastBlock, DiscardReply,
                    fetchVars, boxVars
    <2>3. CASE FetchBoxStep
        BY <2>3 DEF FetchBoxStep, HandleOpenDir, HandleReadDir, HandleOpenRead,
                    HandleRequest, fetchVars, boxVars
    <2>4. CASE FetchResend \/ FetchTimeOut \/ FetchLose
        BY <2>4 DEF FetchResend, ResendRequest, FetchTimeOut, TimeOut, FetchLose,
                    LoseDatagram, fetchVars, boxVars
    <2>5. CASE UNCHANGED allVars
        BY <2>5 DEF allVars, vars, boxVars, fetchVars
    <2> QED
        BY <2>1, <2>2, <2>3, <2>4, <2>5 DEF FetchNext
<1> QED
    BY <1>1 DEF DiskListed

\* What is saved stays saved while the loop stands still.
LEMMA SavedKept ==
    ASSUME SavedSoFar,
           UNCHANGED <<files, items, todo, saved>>,
           Listed' => Listed,
           phase' = "done" => phase = "done"
    PROVE  SavedSoFar'
<1>1. FileEntries' = FileEntries
    BY DEF FileEntries
<1> QED
    BY <1>1 DEF SavedSoFar

\* The same call goes on.
LEMMA FileKept ==
    ASSUME FileUnderWay,
           UNCHANGED <<files, items, todo, name, expected>>,
           phase' \in {"opening", "reading", "ok"} =>
               IInv' /\ phase \in {"opening", "reading", "ok"}
    PROVE  FileUnderWay'
<1>1. FileEntries' = FileEntries /\ file' = file
    BY DEF FileEntries, file
<1> QED
    BY <1>1 DEF FileUnderWay, IsFirst

\* Opening the next file on an empty wire begins a download for it, or ends the loop.
LEMMA OpenNextUndisturbed ==
    ASSUME ListingInv, DiskListed, EachEntryOnce,
           NEW left \in SUBSET FileEntries, OpenNext(left), ~stale',
           UNCHANGED boxVars, UNCHANGED <<directory, items>>,
           reading \in Names \cup {NoName},
           silent \in BOOLEAN
    PROVE  /\ EachEntryOnce' /\ ListingWire' /\ FileUnderWay'
           /\ phase' \in {"opening", "done"} /\ todo' = left
           /\ phase' = "done" => left = {}
<1>1. todo' = left /\ (phase' = "done" => left = {}) /\ phase' \in {"opening", "done"}
    BY DEF OpenNext, Open
<1>2. EachEntryOnce'
    BY DEF EachEntryOnce
<1>3. ListingWire'
    BY <1>1 DEF ListingWire
<1>4. ASSUME phase' = "opening" PROVE FileUnderWay'
    <2>1. left # {}
        BY <1>4 DEF OpenNext
    <2>2. PICK i \in left : IsFirst(i, left) /\ Open(items[i])
        BY <2>1 DEF OpenNext
    <2>3. toBox = {} /\ toClient' = {}
        BY <2>1 DEF OpenNext
    <2>4. /\ items[i].name \in Names
          /\ files[items[i].name] \in Seq(Byte)
          /\ files[items[i].name] # Absent
          /\ items[i].size = Len(files[items[i].name])
        BY FileEntryFacts
    <2>5. /\ name' = items[i].name
          /\ expected' \in {NoSize, Len(files[name'])}
        BY <2>2, <2>4 DEF Open
    <2>6. expected' \in Nat \cup {NoSize}
        BY <2>4, <2>5, LenProperties
    <2>7. FreshCall'
        <3>1. /\ phase' = "opening" /\ block' = 1 /\ data' = <<>> /\ pulled' = NoFile
              /\ toBox' = {OpenRead(name)}' /\ (request = OpenRead(name))' /\ attempt' = 1
              /\ disturbed' = FALSE /\ silent' = silent
            BY <2>2, <2>3 DEF Open, Begin, OpenRead
        <3>2. /\ files' = files /\ reading' = reading /\ writing' = writing
              /\ buffer' = buffer /\ firmware' = firmware
            BY DEF boxVars
        <3> QED
            BY <2>3, <2>4, <2>5, <2>6, <3>1, <3>2 DEF FreshCall, DiskListed
    <2>8. IInv'
        BY <2>7, FreshCallIInvNext
    <2>9. FileEntries' = FileEntries /\ file' = files[name']
        BY DEF FileEntries, file, boxVars
    <2>10. IsFirst(i, todo)' /\ i \in FileEntries'
        BY <1>1, <2>2, <2>9 DEF IsFirst
    <2>11. name' = items'[i].name
        BY <2>5
    <2>12. file' # Absent /\ expected' \in {NoSize, Len(file')}
        BY <2>4, <2>5, <2>9
    <2> QED
        BY <2>8, <2>10, <2>11, <2>12 DEF FileUnderWay
<1>5. ASSUME phase' = "done" PROVE FileUnderWay'
    BY <1>5 DEF FileUnderWay
<1> QED
    BY <1>1, <1>2, <1>3, <1>4, <1>5

\* The open of the directory is answered.
LEMMA AcceptOpenDirUndisturbed ==
    ASSUME FetchInv, AcceptOpenDir, ~stale' PROVE Undisturbed'
<1> USE DEF AcceptOpenDir
<1>1. UNCHANGED <<files, items, todo, saved, directory, stale, reading>>
    BY DEF fetchVars, boxVars
<1>2. Undisturbed
    BY <1>1 DEF FetchInv
<1>3. items = <<>> /\ Len(items) = 0 /\ toBox \subseteq {OpenDir, ReadDir(0)}
      /\ \A r \in toClient : r.op = "dir_entry" => r.seq \in {0, END_OF_DIR}
    BY <1>2 DEF Undisturbed, ListingWire
<1>4. ListingWire'
    <2>1. toBox' \cup {request'} \subseteq {OpenDir, ReadDir(0)}
        BY <1>3 DEF Begin
    <2>2. toClient' \subseteq toClient
        BY DEF Take
    <2>3. reading \in Names \cup {NoName} /\ disturbed' \in BOOLEAN /\ silent' \in BOOLEAN
        BY <1>2 DEF Begin, Undisturbed, ListingWire
    <2>4. OpenDir' = OpenDir /\ Len(items') = 0 /\ ReadDir(Len(items))' = ReadDir(0)
        BY <1>1, <1>3 DEF OpenDir, ReadDir
    <2> QED
        BY <1>1, <1>3, <2>1, <2>2, <2>3, <2>4 DEF ListingWire
<1>5. EachEntryOnce' /\ FileUnderWay'
    BY <1>1, <1>2 DEF Undisturbed, EachEntryOnce, FileUnderWay
<1>6. SavedSoFar'
    BY <1>1, <1>2, SavedKept DEF Undisturbed, Listed
<1> QED
    BY <1>4, <1>5, <1>6 DEF Undisturbed

\* An entry is accepted, and nothing of its exchange is left on the wire.
LEMMA AcceptEntryUndisturbed ==
    ASSUME FetchInv, AcceptEntry, ~stale' PROVE Undisturbed'
<1> USE DEF AcceptEntry
<1>1. UNCHANGED <<files, todo, saved, directory, reading>> /\ ~stale
    BY DEF boxVars
<1>2. Undisturbed /\ ListingInv
    BY <1>1 DEF FetchInv
<1>3. PICK r \in Entries : r.seq # END_OF_DIR /\ Take(r) /\ items' = Append(items, r)
    OBVIOUS
<1>4. r.seq = Len(items)
    BY <1>2, <1>3 DEF Entries, Undisturbed, ListingWire
<1>5. r \in DirEntries
    BY <1>2, <1>3 DEF Entries, ListingInv, AnswersInOrder, EndOfDir
<1>6. /\ Len(items') = Len(items) + 1 /\ Len(items) \in Nat
      /\ \A i \in 1..Len(items) : items'[i] = items[i]
      /\ items'[Len(items) + 1] = r
    BY <1>2, <1>3, <1>5, AppendProperties, LenProperties DEF ListingInv
<1>7. EachEntryOnce'
    <2> SUFFICES ASSUME NEW i \in 1..Len(items') PROVE items'[i].seq = i - 1
        BY DEF EachEntryOnce
    <2>1. CASE i = Len(items) + 1
        BY <1>4, <1>6, <2>1
    <2>2. CASE i # Len(items) + 1
        <3>1. i \in 1..Len(items)
            BY <1>6, <2>2
        <3> QED
            BY <1>2, <1>6, <3>1 DEF Undisturbed, EachEntryOnce
    <2> QED
        BY <2>1, <2>2
<1>8. phase' \in {"readdir", "protocol"} /\ (phase' = "readdir" => Len(items') < MaxEntries)
    BY DEF Close
<1>9. ListingWire'
    <2> SUFFICES ASSUME phase' = "readdir", Len(items') < MaxEntries PROVE ListingWire'
        BY <1>8 DEF ListingWire
    <2>1. /\ toBox' = toBox \cup {ReadDir(Len(items'))} /\ request' = ReadDir(Len(items'))
          /\ disturbed' = FALSE /\ silent' = silent
        BY DEF Begin
    <2>2. ~Leftover({"readdir", "dir_entry"})
        OBVIOUS
    <2>3. toBox \subseteq {OpenDir}
        BY <1>2, <2>2 DEF Leftover, Undisturbed, ListingWire, ReadDir
    <2>4. \A q \in toClient' : q.op # "dir_entry"
        BY <2>2 DEF Leftover
    <2>5. OpenDir' = OpenDir /\ ReadDir(Len(items))' = ReadDir(Len(items'))
        BY DEF OpenDir, ReadDir
    <2>6. reading \in Names \cup {NoName} /\ silent \in BOOLEAN
        BY <1>2 DEF Undisturbed, ListingWire
    <2> QED
        BY <1>1, <2>1, <2>3, <2>4, <2>5, <2>6 DEF ListingWire
<1>10. FileUnderWay'
    BY <1>8 DEF FileUnderWay
<1>11. SavedSoFar'
    BY <1>1, <1>2, <1>8 DEF Undisturbed, SavedSoFar, Listed
<1> QED
    BY <1>7, <1>9, <1>10, <1>11 DEF Undisturbed

\* The listing is complete and the first file is opened.
LEMMA AcceptEndUndisturbed ==
    ASSUME FetchInv, AcceptEnd, ~stale' PROVE Undisturbed'
<1> USE DEF AcceptEnd
<1>1. UNCHANGED <<files, items, saved, directory>> /\ ~stale
    BY DEF OpenNext, boxVars
<1>2. Undisturbed /\ ListingInv /\ DiskListed
    BY <1>1 DEF FetchInv
<1>3. /\ EachEntryOnce' /\ ListingWire' /\ FileUnderWay'
      /\ phase' \in {"opening", "done"} /\ todo' = FileEntries
      /\ phase' = "done" => FileEntries = {}
    BY <1>2, OpenNextUndisturbed DEF Undisturbed, ListingWire
<1>4. FileEntries' = FileEntries
    BY <1>1 DEF FileEntries
<1>5. SavedSoFar'
    BY <1>1, <1>2, <1>3, <1>4 DEF Undisturbed, SavedSoFar
<1> QED
    BY <1>3, <1>5 DEF Undisturbed

\* A file is saved, and the next one is opened.
LEMMA FileDoneUndisturbed ==
    ASSUME FetchInv, FileDone, ~stale' PROVE Undisturbed'
<1> USE DEF FileDone
<1>1. UNCHANGED <<files, items, directory, reading>> /\ ~stale
    BY DEF OpenNext, boxVars
<1>2. Undisturbed /\ ListingInv /\ DiskListed /\ IInv
    BY <1>1 DEF FetchInv, Undisturbed, FileUnderWay
<1>3. PICK i \in todo : IsFirst(i, todo) /\ OpenNext(todo \ {i})
    OBVIOUS
<1>4. todo \subseteq FileEntries
    BY <1>2 DEF Undisturbed, SavedSoFar, Listed
<1>5. name = items[i].name
    <2>1. PICK j \in FileEntries : IsFirst(j, todo) /\ name = items[j].name
        BY <1>2 DEF Undisturbed, FileUnderWay
    <2>2. todo \in SUBSET Nat
        BY <1>4 DEF FileEntries
    <2> QED
        BY <1>3, <2>1, <2>2, FirstIsUnique
\* What the download returned is the file.
<1>6. pulled = file /\ file \in Seq(Byte) /\ file # Absent /\ name \in Names
    <2>1. file # Absent /\ expected \in {NoSize, Len(file)}
        BY <1>2 DEF Undisturbed, FileUnderWay
    <2>2. name \in Names /\ file \in Seq(Byte)
        BY <1>2, <2>1 DEF IInv, TypeOK, BoxTypeOK, file
    <2>3. pulled = Owed
        BY <1>2 DEF IInv, DownloadIntegrity
    <2>4. Len(file) \in Nat
        BY <2>2, LenProperties
    <2>5. Least(Len(file), Len(file)) = Len(file)
        BY <2>4 DEF Least
    <2>6. Owed = file
        BY <2>1, <2>2, <2>5, SubSeqFull DEF Owed
    <2> QED
        BY <2>1, <2>2, <2>3, <2>6
<1>7. /\ EachEntryOnce' /\ ListingWire' /\ FileUnderWay'
      /\ phase' \in {"opening", "done"} /\ todo' = todo \ {i}
      /\ phase' = "done" => todo \ {i} = {}
    <2>1. reading \in Names \cup {NoName} /\ silent \in BOOLEAN
        BY <1>2 DEF IInv, TypeOK, BoxTypeOK
    <2>2. todo \ {i} \in SUBSET FileEntries /\ EachEntryOnce
        BY <1>2, <1>4 DEF Undisturbed
    <2> QED
        BY <1>1, <1>2, <1>3, <2>1, <2>2, OpenNextUndisturbed
<1>8. SavedSoFar'
    <2>1. FileEntries' = FileEntries
        BY <1>1 DEF FileEntries
    <2>2. saved \in [Names -> Seq(Byte) \cup {NoFile}]
        BY <1>2 DEF Undisturbed, SavedSoFar
    <2>3. /\ saved' \in [Names -> Seq(Byte) \cup {NoFile}]
          /\ saved'[name] = files[name]
          /\ \A n \in Names : n # name => saved'[n] = saved[n]
        BY <1>6, <2>2 DEF file
    <2>4. \A n \in Names :
            saved'[n] = NoFile \/ (files'[n] # Absent /\ saved'[n] = files'[n])
        BY <1>1, <1>2, <1>6, <2>3 DEF file, Undisturbed, SavedSoFar
    <2>5. \A j \in FileEntries \ (todo \ {i}) : saved'[items[j].name] = files[items[j].name]
        <3> SUFFICES ASSUME NEW j \in FileEntries \ (todo \ {i})
                     PROVE  saved'[items[j].name] = files[items[j].name]
            OBVIOUS
        <3>1. CASE items[j].name = name
            BY <2>3, <3>1
        <3>2. CASE items[j].name # name
            <4>1. j \in FileEntries \ todo
                BY <1>5, <3>2
            <4>2. saved[items[j].name] = files[items[j].name]
                BY <1>2, <4>1 DEF Undisturbed, SavedSoFar, Listed
            <4>3. items[j].name \in Names
                BY <1>2, FileEntryFacts DEF Undisturbed
            <4> QED
                BY <2>3, <3>2, <4>2, <4>3
        <3> QED
            BY <3>1, <3>2
    <2> QED
        BY <1>1, <1>4, <1>7, <2>1, <2>3, <2>4, <2>5 DEF SavedSoFar
<1> QED
    BY <1>7, <1>8 DEF Undisturbed

\* The block loop of one download keeps the invariant of a download.
LEMMA DownloadStepUndisturbed ==
    ASSUME FetchInv, DownloadStep, ~stale' PROVE Undisturbed'
<1> USE DEF DownloadStep
<1>1. UNCHANGED <<files, items, todo, saved, directory, stale, name, expected>>
    BY DEF AcceptOpen, AcceptBlock, AcceptLastBlock, DiscardReply, fetchVars, boxVars,
           clientVars
<1>2. Undisturbed
    BY <1>1 DEF FetchInv
<1>3. phase \in {"opening", "reading"} /\ phase' \in {"reading", "ok", "protocol"}
    BY DEF AcceptOpen, AcceptBlock, AcceptLastBlock, DiscardReply, clientVars
<1>4. IInv
    BY <1>2, <1>3 DEF Undisturbed, FileUnderWay
<1>5. IInv'
    BY <1>4, AcceptOpenStep, AcceptBlockStep, AcceptLastBlockStep, DiscardReplyStep
<1>6. EachEntryOnce' /\ ListingWire'
    BY <1>1, <1>2, <1>3 DEF Undisturbed, EachEntryOnce, ListingWire
<1>7. FileUnderWay'
    BY <1>1, <1>2, <1>3, <1>5, FileKept DEF Undisturbed
<1>8. SavedSoFar'
    BY <1>1, <1>2, <1>3, SavedKept DEF Undisturbed, Listed
<1> QED
    BY <1>6, <1>7, <1>8 DEF Undisturbed

\* The box answers what the client asks, and nothing else is there to answer.
LEMMA FetchBoxStepUndisturbed ==
    ASSUME FetchInv, FetchBoxStep, ~stale' PROVE Undisturbed'
<1>1. UNCHANGED <<items, todo, saved, directory, stale, phase, name, expected>>
    BY DEF FetchBoxStep, clientVars, fetchVars
<1>2. Undisturbed /\ ListingInv
    BY <1>1 DEF FetchInv
<1>3. PICK p \in toBox : HandleOpenDir(p) \/ HandleReadDir(p)
                         \/ HandleOpenRead(p) \/ HandleRequest(p)
    BY DEF FetchBoxStep
<1>4. /\ toBox' \subseteq toBox
      /\ UNCHANGED <<files, request, attempt, disturbed, silent>>
    BY <1>3 DEF HandleOpenDir, HandleReadDir, HandleOpenRead, HandleRequest, Deliver, boxVars
<1>5. ListingWire'
    <2> SUFFICES ASSUME phase \in {"opendir", "readdir"} PROVE ListingWire'
        BY <1>1 DEF ListingWire
    <2>1. /\ toBox \cup {request} \subseteq {OpenDir, ReadDir(Len(items))}
          /\ \A r \in toClient : r.op = "dir_entry" => r.seq \in {Len(items), END_OF_DIR}
          /\ reading \in Names \cup {NoName} /\ disturbed \in BOOLEAN /\ silent \in BOOLEAN
          /\ phase = "opendir" => items = <<>>
        BY <1>2 DEF Undisturbed, ListingWire
    <2>2. HandleOpenDir(p) \/ (HandleReadDir(p) /\ p.index = Len(items))
        BY <1>3, <2>1 DEF HandleReadDir, HandleOpenRead, HandleRequest, OpenDir, ReadDir
    <2>3. reading' = reading
        BY <2>2 DEF HandleOpenDir, HandleReadDir, boxVars
    <2>4. \A r \in toClient' : r.op = "dir_entry" => r.seq \in {Len(items), END_OF_DIR}
        <3>1. CASE HandleOpenDir(p)
            BY <2>1, <3>1 DEF HandleOpenDir, Deliver, OpenDirAck
        <3>2. CASE HandleReadDir(p) /\ p.index = Len(items)
            <4>1. /\ Entry(p.index).seq = Len(items)
                  /\ EndOfDir.seq = END_OF_DIR
                BY <3>2 DEF Entry, EndOfDir
            <4>2. \A r \in toClient' : r \in toClient \/ r = Entry(p.index) \/ r = EndOfDir
                BY <3>2 DEF HandleReadDir, Deliver
            <4> QED
                BY <2>1, <4>1, <4>2
        <3> QED
            BY <2>2, <3>1, <3>2
    <2>5. OpenDir' = OpenDir /\ ReadDir(Len(items))' = ReadDir(Len(items))
        BY <1>1 DEF OpenDir, ReadDir
    <2> QED
        BY <1>1, <1>4, <2>1, <2>3, <2>4, <2>5 DEF ListingWire
<1>6. FileUnderWay'
    <2> SUFFICES ASSUME phase \in {"opening", "reading", "ok"} PROVE IInv'
        BY <1>1, <1>2, <1>4, FileKept DEF Undisturbed
    <2>1. IInv
        BY <1>2 DEF Undisturbed, FileUnderWay
    <2>2. p \in Requests
        BY <2>1 DEF IInv, TypeOK
    <2>3. HandleOpenRead(p) \/ HandleRequest(p)
        BY <1>3, <2>2 DEF Requests, OpenRead, HandleOpenDir, HandleReadDir
    <2>4. BoxStep
        BY <2>3 DEF BoxStep, FetchBoxStep
    <2> QED
        BY <2>1, <2>4, BoxStepStep
<1>7. EachEntryOnce' /\ SavedSoFar'
    BY <1>1, <1>2, <1>4, SavedKept DEF Undisturbed, EachEntryOnce, Listed
<1> QED
    BY <1>5, <1>6, <1>7 DEF Undisturbed

\* Discards, resends, timeouts and losses, in a listing or in a download.
LEMMA WireUndisturbed ==
    ASSUME FetchInv, DiscardInListing \/ FetchResend \/ FetchTimeOut \/ FetchLose, ~stale'
    PROVE  Undisturbed'
<1> USE DEF DiscardInListing, FetchResend, FetchTimeOut, FetchLose
<1>1. UNCHANGED <<files, items, todo, saved, directory, stale, reading, name, expected>>
    BY DEF ResendRequest, TimeOut, LoseDatagram, boxVars, clientVars, fetchVars
<1>2. Undisturbed
    BY <1>1 DEF FetchInv
<1>3. phase' = phase \/ phase' = "timeout"
    BY DEF ResendRequest, TimeOut, LoseDatagram, clientVars
<1>4. ListingWire'
    <2> SUFFICES ASSUME phase \in {"opendir", "readdir"}, phase' = phase PROVE ListingWire'
        BY <1>3 DEF ListingWire
    <2>1. /\ toBox \cup {request} \subseteq {OpenDir, ReadDir(Len(items))}
          /\ \A r \in toClient : r.op = "dir_entry" => r.seq \in {Len(items), END_OF_DIR}
          /\ reading \in Names \cup {NoName} /\ disturbed \in BOOLEAN /\ silent \in BOOLEAN
          /\ phase = "opendir" => items = <<>>
        BY <1>2 DEF Undisturbed, ListingWire
    <2>2. /\ toBox' \subseteq toBox \cup {request} /\ request' = request
          /\ toClient' \subseteq toClient
        BY DEF Discard, ResendRequest, Resend, TimeOut, GiveUp, LoseDatagram, Lose
    <2>3. disturbed' \in BOOLEAN /\ silent' \in BOOLEAN
        BY <2>1 DEF Discard, ResendRequest, Resend, TimeOut, GiveUp, LoseDatagram, Lose,
                    RanOutQuietly
    <2>4. OpenDir' = OpenDir /\ ReadDir(Len(items))' = ReadDir(Len(items))
        BY <1>1 DEF OpenDir, ReadDir
    <2> QED
        BY <1>1, <2>1, <2>2, <2>3, <2>4 DEF ListingWire
<1>5. FileUnderWay'
    <2> SUFFICES ASSUME phase \in {"opening", "reading", "ok"}, phase' = phase PROVE IInv'
        BY <1>1, <1>2, <1>3, FileKept DEF Undisturbed
    <2>1. IInv
        BY <1>2 DEF Undisturbed, FileUnderWay
    <2>2. ~DiscardInListing
        OBVIOUS
    <2> QED
        BY <2>1, <2>2, ResendRequestStep, TimeOutStep, LoseDatagramStep
<1>6. EachEntryOnce' /\ SavedSoFar'
    BY <1>1, <1>2, <1>3, SavedKept DEF Undisturbed, EachEntryOnce, Listed
<1> QED
    BY <1>4, <1>5, <1>6 DEF Undisturbed

\* The induction step.
LEMMA NextFetchInv == FetchInv /\ [FetchNext]_allVars => FetchInv'
<1> SUFFICES ASSUME FetchInv, [FetchNext]_allVars PROVE FetchInv'
    OBVIOUS
<1>1. ListingInv' /\ DiskListed'
    BY NextListingInv, DiskStep DEF FetchInv
<1>2. ASSUME ~stale' PROVE Undisturbed'
    <2>1. CASE AcceptOpenDir
        BY <1>2, <2>1, AcceptOpenDirUndisturbed
    <2>2. CASE AcceptEntry
        BY <1>2, <2>2, AcceptEntryUndisturbed
    <2>3. CASE AcceptEnd
        BY <1>2, <2>3, AcceptEndUndisturbed
    <2>4. CASE FileDone
        BY <1>2, <2>4, FileDoneUndisturbed
    <2>5. CASE DownloadStep
        BY <1>2, <2>5, DownloadStepUndisturbed
    <2>6. CASE FetchBoxStep
        BY <1>2, <2>6, FetchBoxStepUndisturbed
    <2>7. CASE DiscardInListing \/ FetchResend \/ FetchTimeOut \/ FetchLose
        BY <1>2, <2>7, WireUndisturbed
    <2>8. CASE UNCHANGED allVars
        <3> USE <2>8 DEF allVars, vars, exchangeVars, clientVars, boxVars, fetchVars
        <3>1. Undisturbed
            BY <1>2 DEF FetchInv
        <3>2. IInv => IInv'
            BY NextIInv
        <3>3. EachEntryOnce' /\ ListingWire'
            BY <3>1 DEF Undisturbed, EachEntryOnce, ListingWire, OpenDir, ReadDir
        <3>4. FileUnderWay'
            BY <3>1, <3>2, FileKept DEF Undisturbed, FileUnderWay
        <3>5. SavedSoFar'
            BY <3>1, SavedKept DEF Undisturbed, Listed
        <3> QED
            BY <3>3, <3>4, <3>5 DEF Undisturbed
    <2> QED
        BY <2>1, <2>2, <2>3, <2>4, <2>5, <2>6, <2>7, <2>8 DEF FetchNext
<1> QED
    BY <1>1, <1>2 DEF FetchInv

(* Where no call began with packets of an earlier one on the wire, what     *)
(* download_all saved is what the box holds under that name, and when it    *)
(* returns no file is missing: for every directory, file, block size and    *)
(* number of attempts, and whatever the wire does during a call.            *)
THEOREM FetchIsFaithful == FetchSpec => []FetchIntegrity
<1>1. FetchInit => FetchInv
    BY InitFetchInv
<1>2. FetchInv /\ [FetchNext]_allVars => FetchInv'
    BY NextFetchInv
<1>3. FetchInv => FetchIntegrity
    BY FetchInvSuffices
<1> QED
    BY <1>1, <1>2, <1>3, PTL DEF FetchSpec
=============================================================================
