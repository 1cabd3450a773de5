-------------------------------- MODULE Ingest --------------------------------
(***************************************************************************)
(* Scans of a file-drop source (services/ingest.py, connectors/csv_dir):   *)
(* a scan lists the folder, skips the files it knows and reads the others, *)
(* each into the cache first and then into its source_files row.  The job  *)
(* holds the source's lock, so there is one scan at a time; its worker may *)
(* die at any step, and the next poll scans again.  People drop, change,   *)
(* touch and remove files at any time.                                     *)
(*                                                                         *)
(* A file is modelled by its content, numbered in the order it has had     *)
(* them, and the time it changed; its digest is its content.  A file that  *)
(* goes back to an earlier content is left out: see the README.  What a    *)
(* file holds goes to several series.                                      *)
(***************************************************************************)
EXTENDS Naturals, Sequences, FiniteSets

CONSTANTS
    Paths,          \* names of files, numbers
    Parts,          \* how many series a file holds
    Unreadable,     \* <<path, content>> that cannot be read as configured
    Settle,         \* settle_s
    FilesPerScan,   \* max_files_per_scan
    LastContent, LastTime, ScanDeaths  \* bounds of the contents, the clock and the deaths

ASSUME IngestAssumption ==
    /\ Paths \subseteq Nat /\ Parts \in Nat \ {0} /\ FilesPerScan \in Nat \ {0}
    /\ Settle \in Nat \ {0}  \* within one tick of the clock a change would not show
    /\ LastContent \in Nat /\ LastTime \in Nat /\ ScanDeaths \in Nat

VARIABLES
    folder,      \* the files: whether each is there, its content and when it changed
    folderTime,  \* the clock
    file,        \* the source_files rows
    store,       \* what the cache holds of each file: the content each of its series comes from
    scan,        \* what the scan is doing
    deaths       \* scans that were cut short

ingestVars == <<folder, folderTime, file, store, scan, deaths>>

Absent    == 0
NotListed == LastTime + 1
NoFile    == [status |-> "none", changed |-> 0, digest |-> Absent]
Rested    == [step |-> "idle", more |-> FALSE, todo |-> <<>>, content |-> Absent, next |-> 1, left |-> {},
              listing |-> [p \in Paths |-> NotListed]]

\* The type invariant.
IngestTypeOK ==
    /\ folder \in [Paths -> [there : BOOLEAN, content : 0..LastContent, changed : 0..LastTime]]
    /\ folderTime \in 0..LastTime
    /\ file \in [Paths -> {NoFile} \union
          [status : {"ingested", "failed"}, changed : 0..LastTime, digest : 1..LastContent]]
    /\ store \in [Paths -> [1..Parts -> 0..LastContent]]
    /\ deaths \in 0..ScanDeaths
    /\ scan.step \in {"idle", "sorting", "reading", "writing"}
    /\ scan.listing \in [Paths -> 0..NotListed]
    /\ scan.left \subseteq {p \in Paths : scan.listing[p] # NotListed} /\ scan.more \in BOOLEAN
    /\ scan.todo \in Seq([path : Paths, changed : 0..LastTime, digest : 1..LastContent])
    /\ Len(scan.todo) <= FilesPerScan
    /\ scan.content \in 0..LastContent /\ scan.next \in 1..Parts + 1

IngestInit ==
    /\ folder = [p \in Paths |-> [there |-> FALSE, content |-> Absent, changed |-> 0]]
    /\ folderTime = 0
    /\ file = [p \in Paths |-> NoFile]
    /\ store = [p \in Paths |-> [k \in 1..Parts |-> Absent]]
    /\ scan = Rested
    /\ deaths = 0

-----------------------------------------------------------------------------
(* The folder *)

\* A file is dropped, or replaced by another content.
DropFile(p) ==
    /\ folder[p].content < LastContent
    /\ folder' = [folder EXCEPT ![p] = [there |-> TRUE, content |-> @.content + 1, changed |-> folderTime]]
    /\ UNCHANGED <<folderTime, file, store, scan, deaths>>

\* The same content is copied again.
TouchFile(p) ==
    /\ folder[p].there /\ folder[p].changed # folderTime
    /\ folder' = [folder EXCEPT ![p].changed = folderTime]
    /\ UNCHANGED <<folderTime, file, store, scan, deaths>>

RemoveFile(p) ==
    /\ folder[p].there
    /\ folder' = [folder EXCEPT ![p].there = FALSE]
    /\ UNCHANGED <<folderTime, file, store, scan, deaths>>

PassFolderTime ==
    /\ folderTime < LastTime /\ folderTime' = folderTime + 1
    /\ UNCHANGED <<folder, file, store, scan, deaths>>

-----------------------------------------------------------------------------
(* A scan *)

\* Not changed within settle_s: nobody is still copying it.
Settled(p) == folder[p].there /\ folder[p].changed + Settle <= folderTime

\* list_files: the settled files and when each changed.
List ==
    /\ scan.step = "idle"
    /\ scan' = [Rested EXCEPT !.step = "sorting", !.left = {p \in Paths : Settled(p)},
                              !.listing = [p \in Paths |-> IF Settled(p) THEN folder[p].changed ELSE NotListed]]
    /\ UNCHANGED <<folder, folderTime, file, store, deaths>>

\* The oldest first; of one time, by path.
Oldest(S) ==
    CHOOSE p \in S : \A q \in S : \/ scan.listing[p] < scan.listing[q]
                                  \/ scan.listing[p] = scan.listing[q] /\ p <= q

\* Mutant of SameStat: any file with a row is known.
SameStatAlways(p) == file[p] # NoFile

SameStat(p)   == file[p] # NoFile /\ file[p].changed = scan.listing[p]
SameDigest(p) == file[p] # NoFile /\ file[p].digest = folder[p].content

NextToSort(p) == scan.step = "sorting" /\ scan.left # {} /\ p = Oldest(scan.left)
Taken(s, p) == [s EXCEPT !.left = @ \ {p}]
CapReached == Len(scan.todo) >= FilesPerScan

\* The next listed file is known by its time, or is gone; or waits for another scan, over the cap.
PassOver(p) ==
    /\ NextToSort(p)
    /\ \/ (SameStat(p) \/ (~CapReached /\ ~folder[p].there)) /\ scan' = Taken(scan, p)
       \/ ~SameStat(p) /\ CapReached /\ scan' = [Taken(scan, p) EXCEPT !.more = TRUE]
    /\ UNCHANGED <<folder, folderTime, file, store, deaths>>

\* _touch: it is known by its digest, and its row takes the new time.
TouchRow(p) ==
    /\ NextToSort(p) /\ ~SameStat(p) /\ ~CapReached /\ folder[p].there /\ SameDigest(p)
    /\ scan' = Taken(scan, p)
    /\ file' = [file EXCEPT ![p].changed = scan.listing[p]]
    /\ UNCHANGED <<folder, folderTime, store, deaths>>

\* It is new or changed.
TakeUp(p) ==
    /\ NextToSort(p) /\ ~SameStat(p) /\ ~CapReached /\ folder[p].there /\ ~SameDigest(p)
    /\ scan' = [Taken(scan, p) EXCEPT !.todo =
                  Append(@, [path |-> p, changed |-> scan.listing[p], digest |-> folder[p].content])]
    /\ UNCHANGED <<folder, folderTime, file, store, deaths>>

BeginReading ==
    /\ scan.step = "sorting" /\ scan.left = {}
    /\ scan' = [scan EXCEPT !.step = "reading"]
    /\ UNCHANGED <<folder, folderTime, file, store, deaths>>

\* _upsert: the row takes what was listed and digested before the file was read.
Upserted(f, status) == [file EXCEPT ![f.path] = [status |-> status, changed |-> f.changed, digest |-> f.digest]]
NextFile(s) == [s EXCEPT !.step = "reading", !.todo = Tail(@), !.content = Absent, !.next = 1]

\* Mutant of Failed: a file that cannot be read leaves no row.
FailedSilently(f) == file

\* _record_failure
Failed(f) == Upserted(f, "failed")

\* What the reader makes of a content as the source is configured: rows, or an error.
CanRead(p, c) == <<p, c>> \notin Unreadable

\* read_file: what the file holds now, unless it is gone or cannot be read.
ReadFile ==
    LET f == Head(scan.todo)
        c == folder[f.path].content
    IN
    /\ scan.step = "reading" /\ scan.todo # <<>>
    /\ IF folder[f.path].there /\ CanRead(f.path, c)
       THEN scan' = [scan EXCEPT !.step = "writing", !.content = c] /\ UNCHANGED file
       ELSE scan' = NextFile(scan) /\ file' = Failed(f)
    /\ UNCHANGED <<folder, folderTime, store, deaths>>

WritingPart == scan.step = "writing" /\ scan.next <= Parts

\* Mutant of WritePart: the row is there before the rows of the file are.
WritePartRowFirst ==
    /\ WritingPart
    /\ store' = [store EXCEPT ![Head(scan.todo).path][scan.next] = scan.content]
    /\ file' = IF scan.next = 1 THEN Upserted(Head(scan.todo), "ingested") ELSE file
    /\ scan' = [scan EXCEPT !.next = @ + 1]
    /\ UNCHANGED <<folder, folderTime, deaths>>

\* One series after the other goes to the cache.
WritePart ==
    /\ WritingPart
    /\ store' = [store EXCEPT ![Head(scan.todo).path][scan.next] = scan.content]
    /\ scan' = [scan EXCEPT !.next = @ + 1]
    /\ UNCHANGED <<folder, folderTime, file, deaths>>

\* The coverage, the row and the counters, in one transaction.
RecordFile ==
    /\ scan.step = "writing" /\ scan.next > Parts
    /\ file' = Upserted(Head(scan.todo), "ingested")
    /\ scan' = NextFile(scan)
    /\ UNCHANGED <<folder, folderTime, store, deaths>>

EndScan ==
    /\ scan.step = "reading" /\ scan.todo = <<>>
    /\ scan' = Rested
    /\ UNCHANGED <<folder, folderTime, file, store, deaths>>

\* The cache or the database fails, or the worker dies: what was not recorded is read again.
StopScan ==
    /\ scan.step # "idle" /\ deaths < ScanDeaths
    /\ scan' = Rested /\ deaths' = deaths + 1
    /\ UNCHANGED <<folder, folderTime, file, store>>

ScanStep ==
    \/ List \/ BeginReading \/ ReadFile \/ WritePart \/ RecordFile \/ EndScan
    \/ \E p \in Paths : PassOver(p) \/ TouchRow(p) \/ TakeUp(p)
IngestNext ==
    \/ ScanStep \/ StopScan \/ PassFolderTime
    \/ \E p \in Paths : DropFile(p) \/ TouchFile(p) \/ RemoveFile(p)

\* The source is polled again and again, workers go on, and time passes.
IngestFairness == WF_ingestVars(ScanStep) /\ WF_ingestVars(PassFolderTime)

IngestSpec == IngestInit /\ [][IngestNext]_ingestVars /\ IngestFairness

-----------------------------------------------------------------------------
(* Properties *)

Readable(p) == folder[p].there /\ CanRead(p, folder[p].content)
AllHeld(p)  == \A k \in 1..Parts : store[p][k] = folder[p].content

\* "A rescan skips known files; a changed file is read again and its values win" (spec 026): when a
\* scan has left nothing for later, the cache holds every listed file that is still what was
\* listed, whatever earlier scans died of and whatever happened to the folder meanwhile.
ScanCatchesUp ==
    [][scan.step = "reading" /\ scan'.step = "idle" /\ deaths' = deaths /\ ~scan.more =>
          \A p \in Paths : folder[p].changed = scan.listing[p] /\ Readable(p) => AllHeld(p)]_ingestVars

\* Every file that can be read is read in the end, at most FilesPerScan files at a time: files that
\* cannot be read do not keep the others out for ever.  (A change in the model's last moments
\* settles after the clock has stopped.)
FolderGetsRead == \A p \in Paths : []<>(Readable(p) => AllHeld(p) \/ folder[p].changed + Settle > LastTime)

=============================================================================
