------------------------------ MODULE Monitors ------------------------------
(***************************************************************************)
(* The loops that watch the host (modules/file_monitor.py,                 *)
(* log_analyzer.py, network_monitor.py) up to the analysis job they submit *)
(* (AnalysisQueue): what they remember so that everything is reported, and *)
(* reported once, while files, processes, lines and packets come and go    *)
(* between their steps.                                                    *)
(*                                                                         *)
(* The monitors share nothing but the queue, so that one of them acts in a *)
(* behaviour.  A file's content is a version, 0 when there is no file; its *)
(* test and its digest are one step.  What the log monitor keeps is what   *)
(* readline() returns, a piece of a line, when the piece passes the        *)
(* patterns; pieces and events that pass are numbered.  Lines that do not  *)
(* pass as a whole are left out.  A scan or a reader may end early: the    *)
(* walk fails, or submit() raises because no worker thread can be started. *)
(* Bounds: MaxContent versions; MaxChange changes of the host, of lines.   *)
(***************************************************************************)
EXTENDS Integers, Sequences, FiniteSets

CONSTANTS File, Pid, MaxContent, MaxChange,
          BatchSize,           \* log_analyzer._BATCH_SIZE
          FlaggedMin, FlaggedMax

ASSUME MonitorsAssumption ==
    {MaxContent, MaxChange, BatchSize, FlaggedMin, FlaggedMax} \subseteq Nat \ {0}

VARIABLES monitor,       \* the one that acts in this behaviour
          changes,       \* changes of the host so far
          content,       \* version of each file
          current,       \* digests of the scan under way
          scan,          \* "idle", "digest", "compare" or "removed"
          left,          \* files or processes the pass has still to visit
          baseline,      \* FileIntegrityMonitor._baseline, 0 for no entry
          told,          \* version the last job about a file spoke of,
          echoed,        \* whether a job repeated the one before, and
          complete,      \* whether the last scan was not cut short (history)
          running,       \* suspicious process under each id: its number or 0
          seenPids,      \* ProcessMonitor._seen_pids
          reported,      \* numbers of the processes analysed, and how many
          refused,       \* jobs about a process could not be submitted (history)
          buffer,        \* lines or events kept for the next batch
          lastBatch,     \* the batch submitted last
          handed,        \* the last piece or event submitted (history)
          reader,        \* "on", "rotated" (the log was replaced under the
                         \* open handle) or "ended"
          line,          \* the line read last, and
          partial,       \* whether its end is still to be written
          pieces,        \* line of each piece kept, and
          split          \* the lines read in pieces (history)

fileVars == <<content, current, baseline, told, echoed, complete>>
processVars == <<running, seenPids, reported, refused>>
batchVars == <<buffer, lastBatch, handed>>
lineVars == <<line, partial, pieces, split>>
bufferVars == <<batchVars, reader, lineVars>>
monitorsVars == <<monitor, changes, scan, left, fileVars, processVars, bufferVars>>

Lines == monitor \in {"log", "network"}

\* start(): build_baseline, before the loop runs
MonitorsInit ==
    /\ monitor \in {"file", "process", "log", "network"}
    /\ changes = 0
    /\ scan = "idle" /\ left = {}
    /\ content \in IF monitor = "file" THEN [File -> 0..1] ELSE {[f \in File |-> 0]}
    /\ current = content /\ baseline = content
    /\ told = content /\ echoed = FALSE /\ complete = TRUE
    /\ running = [p \in Pid |-> 0] /\ seenPids = {} /\ reported = {} /\ refused = 0
    /\ buffer = <<>> /\ lastBatch = <<>> /\ handed = 0 /\ reader = "on"
    /\ line = 0 /\ partial = FALSE /\ pieces = <<>> /\ split = {}

Changing == changes < MaxChange /\ changes' = changes + 1

-----------------------------------------------------------------------------
(* FileIntegrityMonitor                                                    *)

FileChanges(f, v) ==
    /\ monitor = "file" /\ Changing
    /\ content[f] # v
    /\ content' = [content EXCEPT ![f] = v]
    /\ UNCHANGED <<monitor, scan, left, current, baseline, told, echoed, complete, processVars, bufferVars>>

ScanBegins ==
    /\ monitor = "file" /\ scan = "idle"
    /\ scan' = "digest" /\ left' = File
    /\ current' = [f \in File |-> 0]
    /\ complete' = FALSE
    /\ UNCHANGED <<monitor, changes, content, baseline, told, echoed, processVars, bufferVars>>

Digest(f) ==
    /\ scan = "digest" /\ f \in left
    /\ current' = [current EXCEPT ![f] = content[f]]
    /\ left' = left \ {f}
    /\ UNCHANGED <<monitor, changes, scan, content, baseline, told, echoed, complete, processVars, bufferVars>>

\* Mutant: a new file is analysed, but enters the baseline only when it changes.
NoteLate(f) == IF baseline[f] = 0 /\ current[f] = 1 THEN baseline ELSE [baseline EXCEPT ![f] = current[f]]

\* The job is submitted, then the baseline follows.
Note(f) == [baseline EXCEPT ![f] = current[f]]

\* _analyze_file_event
Tell(f) ==
    /\ told' = [told EXCEPT ![f] = current[f]]
    /\ echoed' = (echoed \/ told[f] = current[f])

\* NEW_FILE or MODIFIED
Compare(f) ==
    /\ scan = "compare" /\ f \in left
    /\ left' = left \ {f}
    /\ IF current[f] \notin {0, baseline[f]}
       THEN baseline' = Note(f) /\ Tell(f)
       ELSE UNCHANGED <<baseline, told, echoed>>
    /\ UNCHANGED <<monitor, changes, scan, content, current, complete, processVars, bufferVars>>

\* DELETED
Removed(f) ==
    /\ scan = "removed" /\ f \in left
    /\ left' = left \ {f}
    /\ IF baseline[f] # 0 /\ current[f] = 0
       THEN baseline' = Note(f) /\ Tell(f)
       ELSE UNCHANGED <<baseline, told, echoed>>
    /\ UNCHANGED <<monitor, changes, scan, content, current, complete, processVars, bufferVars>>

NextPass ==
    /\ monitor = "file" /\ left = {}
    /\ \/ scan = "digest" /\ scan' = "compare" /\ left' = File /\ UNCHANGED complete
       \/ scan = "compare" /\ scan' = "removed" /\ left' = File /\ UNCHANGED complete
       \/ scan = "removed" /\ scan' = "idle" /\ left' = {} /\ complete' = TRUE
    /\ UNCHANGED <<monitor, changes, content, current, baseline, told, echoed, processVars, bufferVars>>

\* The loops swallow every exception: of the walk, of the process table, of
\* submit() before the job is queued.  What is left waits for the next scan.
ScanAborts ==
    /\ scan # "idle" \/ left # {}
    /\ scan' = "idle" /\ left' = {}
    /\ UNCHANGED <<monitor, changes, fileVars, processVars, bufferVars>>

-----------------------------------------------------------------------------
(* ProcessMonitor                                                          *)

\* A suspicious process starts under a free id, or the one there exits.
ProcessChanges(p) ==
    /\ monitor = "process" /\ Changing
    /\ running' = [running EXCEPT ![p] = IF @ = 0 THEN changes + 1 ELSE 0]
    /\ UNCHANGED <<monitor, scan, left, fileVars, seenPids, reported, refused, bufferVars>>

Visit(p) ==
    /\ monitor = "process"
    /\ p \in left
    /\ left' = left \ {p}
    /\ IF running[p] # 0 /\ p \notin seenPids
       THEN seenPids' = seenPids \cup {p} /\ reported' = reported \cup {running[p]}
       ELSE UNCHANGED <<seenPids, reported>>
    /\ UNCHANGED <<monitor, changes, scan, fileVars, running, refused, bufferVars>>

\* The id is noted before the job is submitted, which raises: the scan ends.
VisitRefused(p) ==
    /\ monitor = "process"
    /\ p \in left
    /\ running[p] # 0 /\ p \notin seenPids
    /\ seenPids' = seenPids \cup {p} /\ refused' = refused + 1
    /\ left' = {}
    /\ UNCHANGED <<monitor, changes, scan, fileVars, running, reported, bufferVars>>

ProcessScan ==
    /\ monitor = "process" /\ left = {}
    /\ left' = Pid
    /\ UNCHANGED <<monitor, changes, scan, fileVars, processVars, bufferVars>>

-----------------------------------------------------------------------------
(* LogAnalyzer and HeuristicTracker                                        *)

\* The batch is a copy of the lines; the buffer is emptied in place.
Submit(n) ==
    /\ lastBatch' = SubSeq(buffer, 1, n)
    /\ handed' = buffer[n]
    /\ buffer' = SubSeq(buffer, n + 1, Len(buffer))

\* _tail_file: readline() returns the rest of a line, or as much of it as is
\* written, which may pass the patterns or not (kept) whatever the rest does.
ReadLine(last, kept) ==
    LET whole == ~partial /\ last
        n == IF partial THEN line ELSE line + 1
    IN  /\ monitor = "log" /\ reader = "on"
        /\ Len(buffer) < BatchSize
        /\ n <= MaxChange
        /\ whole => kept
        /\ line' = n /\ partial' = ~last
        /\ split' = IF whole THEN split ELSE split \cup {n}
        /\ IF kept
           THEN Changing /\ buffer' = Append(buffer, changes + 1) /\ pieces' = Append(pieces, n)
           ELSE UNCHANGED <<changes, buffer, pieces>>
        /\ UNCHANGED <<monitor, scan, left, fileVars, processVars, lastBatch, handed, reader>>

\* The handle goes on reading the file that was renamed.
Rotate ==
    /\ monitor = "log" /\ reader = "on"
    /\ reader' = "rotated"
    /\ UNCHANGED <<monitor, changes, scan, left, fileVars, processVars, batchVars, lineVars>>

\* readline() or submit() raises: the thread ends, with what it kept.
TailEnds ==
    /\ monitor = "log" /\ reader # "ended"
    /\ reader' = "ended"
    /\ UNCHANGED <<monitor, changes, scan, left, fileVars, processVars, batchVars, lineVars>>

\* A full buffer, or one _BATCH_TIMEOUT old, is handed over whole.
Flush ==
    /\ monitor = "log" /\ reader # "ended"
    /\ buffer # <<>>
    /\ Submit(Len(buffer))
    /\ UNCHANGED <<monitor, changes, scan, left, fileVars, processVars, reader, lineVars>>

\* HeuristicTracker.ingest: at FlaggedMin the first FlaggedMax go; what is
\* kept below that is never handed over.  submit() may raise out of the packet
\* handler: the batch is lost and the capture ends.
Flag(submitted) ==
    /\ monitor = "network" /\ reader = "on" /\ Changing
    /\ LET flagged == Append(buffer, changes + 1)
           n == IF Len(flagged) < FlaggedMax THEN Len(flagged) ELSE FlaggedMax
       IN  IF Len(flagged) < FlaggedMin
           THEN buffer' = flagged /\ UNCHANGED <<lastBatch, handed, reader>>
           ELSE /\ buffer' = SubSeq(flagged, n + 1, Len(flagged))
                /\ IF submitted
                   THEN lastBatch' = SubSeq(flagged, 1, n) /\ handed' = flagged[n] /\ UNCHANGED reader
                   ELSE reader' = "ended" /\ UNCHANGED <<lastBatch, handed>>
    /\ UNCHANGED <<monitor, scan, left, fileVars, processVars, lineVars>>

MonitorsNext ==
    \/ \E f \in File :
        \/ \E v \in 0..MaxContent : FileChanges(f, v)
        \/ Digest(f) \/ Compare(f) \/ Removed(f)
    \/ ScanBegins \/ NextPass \/ ScanAborts
    \/ \E p \in Pid : ProcessChanges(p) \/ Visit(p) \/ VisitRefused(p)
    \/ ProcessScan
    \/ \E last, kept \in BOOLEAN : ReadLine(last, kept)
    \/ Rotate \/ TailEnds \/ Flush
    \/ \E submitted \in BOOLEAN : Flag(submitted)

MonitorsSpec == MonitorsInit /\ [][MonitorsNext]_monitorsVars

-----------------------------------------------------------------------------
(* Properties                                                              *)

\* Every variable has its type, and the buffers stay below their batch.
MonitorsTypeOK ==
    /\ content \in [File -> 0..MaxContent] /\ current \in [File -> 0..MaxContent]
    /\ baseline \in [File -> 0..MaxContent]
    /\ scan \in {"idle", "digest", "compare", "removed"}
    /\ left \subseteq File \cup Pid
    /\ running \in [Pid -> 0..MaxChange]
    /\ reader \in {"on", "rotated", "ended"} /\ line \in 0..MaxChange /\ split \subseteq 1..line
    /\ Len(buffer) <= IF monitor = "log" THEN BatchSize ELSE FlaggedMin - 1

\* Lines and events.  Every piece and event kept is in exactly one batch, in
\* order, or still kept; a line read whole is one piece, a line read in pieces
\* is in pieces that follow each other, or in none.  Only a capture that ended
\* loses the events of its last batch.
InOneBatch ==
    /\ \A i \in DOMAIN lastBatch : lastBatch[i] = handed - Len(lastBatch) + i
    /\ ~(monitor = "network" /\ reader = "ended") =>
          /\ \A i \in DOMAIN buffer : buffer[i] = handed + i
          /\ handed + Len(buffer) = changes
    /\ monitor = "log" =>
          /\ Len(pieces) = changes
          /\ \A j, k \in DOMAIN pieces :
                j < k => pieces[j] < pieces[k] \/ (pieces[j] = pieces[k] /\ pieces[j] \in split)
          /\ \A n \in (1..line) \ split : \E k \in DOMAIN pieces : pieces[k] = n

\* No process id is given up for a process that was not analysed, unless its
\* job could not be submitted; a scan of the files that is not cut short ends
\* with a job for every difference, also those that scans cut short before it
\* left behind, and no difference is told twice; and what is read from a log
\* or flagged is handed over once (InOneBatch).
ReportedOnce ==
    /\ Lines => InOneBatch
    /\ Cardinality(seenPids) = Cardinality(reported) + refused
    /\ complete => told = current
    /\ ~echoed

=============================================================================
