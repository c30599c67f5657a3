------------------------------- MODULE Pipeline -------------------------------
(***************************************************************************)
(* The processor process (part_000 lines 76-188) consuming the log the     *)
(* spooler process writes (Wal).  The processor's own WALLog never appends, *)
(* so it sees the log only through the files: get_high_water_mark scans    *)
(* the index files and read uses a segment list it caches for up to 5 s    *)
(* (part_008 lines 296-329).  Pipeline::process_batch (part_010 lines      *)
(* 209-260) is one step: load the committed offset, compare it with the    *)
(* high water mark, read up to MaxBatch records, process them, commit the  *)
(* offset of the last one.  The step is atomic because the processor is    *)
(* single-threaded and its effect depends only on the files it reads, not  *)
(* on when within the step the spooler changes them.                       *)
(*                                                                         *)
(* Decoding, correlation and rules are abstracted to "the message was      *)
(* processed": procCount counts, up to 2, how often each message went      *)
(* through rule_engine->process.                                           *)
(***************************************************************************)
EXTENDS Wal

CONSTANTS
    MaxBatch,           \* the max_messages argument of process_batch
    MaxProcRestarts     \* bound on processor restarts

VARIABLES
    committed,      \* consumer_offsets_["processor"][0] in the processor
    offsetFile,     \* offsets/processor_p0.offset: an offset, or None if absent or empty
    cache,          \* segment_cache_[0] of the processor: a set of bases, or None
    procCount,      \* message -> times processed, capped at 2
    procRestarts

procVars == <<committed, offsetFile, cache, procCount, procRestarts>>
vars == <<walVars, procVars>>

\* load_consumer_offsets at start-up (part_008 lines 440-463) followed by
\* load_offset (lines 421-431): a missing or short file leaves no entry,
\* and load_offset returns 0.
LoadOffsetMinusOne(file) == IF file = None THEN -1 ELSE file

LoadOffset(file) == IF file = None THEN 0 ELSE file

\* The count of message m after processing the records recs.
Counted(count, recs, m) ==
    LET n == count + Len(SelectSeq(recs, LAMBDA r : r.msg = m))
    IN  IF n > 2 THEN 2 ELSE n

(***************************************************************************)
(* process_batch for partition 0.  When the segment cache may have expired *)
(* (`fresh`) or holds nothing, the directory is scanned again.  A torn     *)
(* commit is the processor dying inside save_consumer_offset (part_008     *)
(* lines 465-474) after the file was truncated and before it was written;  *)
(* the next process starts from the empty file.                            *)
(***************************************************************************)
ProcessBatch ==
    LET o  == committed
        hw == HighWaterMark(idxDisk)
    IN  IF o >= hw THEN UNCHANGED <<vars>>
        ELSE
        \E fresh \in IF cache = None THEN {TRUE} ELSE BOOLEAN :
        LET segs == IF fresh THEN DOMAIN logDisk ELSE cache
            recs == Read(logDisk, idxDisk, segs, o, MaxBatch)
            last == IF recs = <<>> THEN o ELSE recs[Len(recs)].off
        IN  /\ procCount' = [m \in Msgs |-> Counted(procCount[m], recs, m)]
            /\ \E torn \in IF last > o /\ procRestarts < MaxProcRestarts
                           THEN BOOLEAN ELSE {FALSE} :
                 IF torn
                 THEN /\ offsetFile'   = None
                      /\ committed'    = LoadOffset(None)
                      /\ cache'        = None
                      /\ procRestarts' = procRestarts + 1
                 ELSE /\ committed'  = IF last > o THEN last ELSE o
                      /\ offsetFile' = IF last > o THEN last ELSE offsetFile
                      /\ cache'      = segs
                      /\ UNCHANGED procRestarts
            /\ UNCHANGED walVars

\* The processor process stops and starts again: a new WALLog loads the
\* offset file and has an empty segment cache.
ProcessorRestart ==
    /\ procRestarts < MaxProcRestarts
    /\ committed'    = LoadOffset(offsetFile)
    /\ cache'        = None
    /\ procRestarts' = procRestarts + 1
    /\ UNCHANGED <<offsetFile, procCount, walVars>>

Init ==
    /\ WalInit
    /\ committed    = LoadOffset(None)
    /\ offsetFile   = None
    /\ cache        = None
    /\ procCount    = [m \in Msgs |-> 0]
    /\ procRestarts = 0

Next ==
    \/ WalNext /\ UNCHANGED procVars
    \/ ProcessBatch
    \/ ProcessorRestart

\* run_continuous / the processor main loop calls process_batch every
\* 100 ms for as long as the process runs.
Spec == Init /\ [][Next]_vars /\ WF_vars(ProcessBatch)

-----------------------------------------------------------------------------
(* Properties.                                                             *)

PipelineTypeOK ==
    /\ committed \in Offsets
    /\ offsetFile \in Offsets \cup {None}
    /\ cache \in SUBSET Offsets \cup {None}
    /\ procCount \in [Msgs -> 0..2]
    /\ procRestarts \in 0..MaxProcRestarts

\* Message m has reached the log file on disk.
OnDisk(m) == \E b \in DOMAIN logDisk : \E i \in 1..Len(logDisk[b]) : logDisk[b][i].msg = m

\* Message m and its index entry have both reached disk.
Durable(m) ==
    \E b \in DOMAIN logDisk : \E i \in 1..Len(logDisk[b]) :
        /\ logDisk[b][i].msg = m
        /\ \E j \in 1..Len(idxDisk[b]) : idxDisk[b][j].off = logDisk[b][i].off

\* The consumer never passes over a message: once a message has been
\* processed, every earlier message that is on disk has been processed too
\* (read resumes from the committed offset and filters by offset).
NoMessageSkipped ==
    \A m2 \in Msgs : procCount[m2] > 0 =>
        \A m1 \in 1..(m2 - 1) : OnDisk(m1) => procCount[m1] > 0

\* Each record is processed once: process_batch never hands a message to
\* the rule engine twice.
ProcessedAtMostOnce == \A m \in Msgs : procCount[m] <= 1

\* Every message whose record and index entry are on disk is eventually
\* processed by the processor's loop.
DurableEventuallyProcessed ==
    \A m \in Msgs : Durable(m) ~> procCount[m] > 0
==============================================================================
