--------------------------------- MODULE Wal ---------------------------------
(***************************************************************************)
(* The write-ahead log WALLog (src/unnamed/part_008, wal_log.cc) as the    *)
(* spooler process drives it: appends into the active segment of one       *)
(* partition, per-segment log and index buffers, rotation, and the process *)
(* stopping and starting again.  Both deployed programs configure one      *)
(* partition (part_000 lines 48 and 136), so partition_for_message is      *)
(* constant and the model has a single partition.                          *)
(*                                                                         *)
(* Files are sequences: logDisk[b] is the list of records in               *)
(* segment_<b>.log, idxDisk[b] the (offset, position) entries of           *)
(* segment_<b>.idx.  A byte position is abstracted to the number of        *)
(* records before it in the segment; segment and buffer sizes are counted  *)
(* in records (SegmentCap, LogBufCap, IdxBufCap).  A serialized record is  *)
(* longer than a 16-byte index entry, so the log buffer fills first:       *)
(* LogBufCap < IdxBufCap.  A message is named by its append number.        *)
(*                                                                         *)
(* The reader side (get_high_water_mark, read) is defined here as          *)
(* operators over the files; the processor process that calls them is     *)
(* modelled in Pipeline.                                                   *)
(***************************************************************************)
EXTENDS Naturals, Sequences, FiniteSets, SequencesExt

CONSTANTS
    MaxAppends,    \* bound on append calls that return an offset
    SegmentCap,    \* max_segment_size, in records
    LogBufCap,     \* SegmentInfo::BUFFER_SIZE of log bytes, in records
    IdxBufCap,     \* SegmentInfo::BUFFER_SIZE of index bytes, in records
    MaxRestarts,   \* bound on spooler process restarts
    None

ASSUME LogBufCap < IdxBufCap

Msgs == 1..MaxAppends
\* Offsets and segment bases reachable within the bounds.
Offsets == 0..(MaxAppends + MaxRestarts + 1)
Rec   == [off : Offsets, msg : Msgs]
Entry == [off : Offsets, pos : 0..MaxAppends]

\* struct SegmentInfo, without paths and file handles.
Segment == [base : Offsets, cur : Offsets, size : 0..SegmentCap,
            logBuf : Seq(Rec), idxBuf : Seq(Entry)]

VARIABLES
    active,     \* active_segments_[0] of the spooler, or None
    logDisk,    \* base offset -> records in segment_<base>.log
    idxDisk,    \* base offset -> entries in segment_<base>.idx
    spooler,    \* "up", "killed" (signal or crash) or "faulted" (crashed in append)
    acked,      \* the offsets append returned, in call order
    restarts    \* spooler starts after the first

walVars == <<active, logDisk, idxDisk, spooler, acked, restarts>>

-----------------------------------------------------------------------------
(* Writer side.                                                            *)

\* get_or_create_segment without an active segment (lines 78-127): the new
\* base is one past the highest base on disk, or 0; the files are opened
\* for append, which creates them empty.  The branch that resumes an
\* existing log file (lines 99-112) needs segment_<base>.log to exist for a
\* base no file has yet, and is never taken.
NewBase(disk) == IF DOMAIN disk = {} THEN 0 ELSE Max(DOMAIN disk) + 1

NewSegment(disk) ==
    [base |-> NewBase(disk), cur |-> NewBase(disk), size |-> 0,
     logBuf |-> <<>>, idxBuf |-> <<>>]

\* Create empty files for base b unless they exist.
Touch(disk, b) == IF b \in DOMAIN disk THEN disk ELSE (b :> <<>>) @@ disk

\* flush_segment_buffers (lines 247-268): both buffers are written out.
FlushedLog(disk, seg) == [disk EXCEPT ![seg.base] = @ \o seg.logBuf]
FlushedIdx(disk, seg) == [disk EXCEPT ![seg.base] = @ \o seg.idxBuf]

\* The (offset, position) entry of a record: position is file_size before
\* the record is written (line 170).
IndexEntryAfterWrite(seg) == [off |-> seg.cur, pos |-> seg.size + 1]

IndexEntry(seg) == [off |-> seg.cur, pos |-> seg.size]

(***************************************************************************)
(* append (lines 147-227) into a segment that is not full: take           *)
(* offset = current_offset++, add the record to the log buffer and the     *)
(* entry to the index buffer, write out a buffer that reached its size,    *)
(* and flush both when the fsync interval has elapsed (`fsync`).           *)
\* Mutant: a log buffer that was written out is not cleared.
AppendToKeepLogBuffer(seg, fsync) ==
    LET r     == [off |-> seg.cur, msg |-> Len(acked) + 1]
        lb    == Append(seg.logBuf, r)
        ib    == Append(seg.idxBuf, IndexEntry(seg))
        outL  == fsync \/ Len(lb) >= LogBufCap
        outI  == fsync \/ Len(ib) >= IdxBufCap
        seg1  == [seg EXCEPT !.cur = @ + 1, !.size = @ + 1,
                             !.logBuf = lb,
                             !.idxBuf = IF outI THEN <<>> ELSE ib]
        lDisk == Touch(logDisk, seg.base)
        iDisk == Touch(idxDisk, seg.base)
    IN  /\ active'  = seg1
        /\ logDisk' = IF outL THEN [lDisk EXCEPT ![seg.base] = @ \o lb] ELSE lDisk
        /\ idxDisk' = IF outI THEN [iDisk EXCEPT ![seg.base] = @ \o ib] ELSE iDisk
        /\ acked'   = Append(acked, seg.cur)

(***************************************************************************)
AppendTo(seg, fsync) ==
    LET r     == [off |-> seg.cur, msg |-> Len(acked) + 1]
        lb    == Append(seg.logBuf, r)
        ib    == Append(seg.idxBuf, IndexEntry(seg))
        outL  == fsync \/ Len(lb) >= LogBufCap
        outI  == fsync \/ Len(ib) >= IdxBufCap
        seg1  == [seg EXCEPT !.cur = @ + 1, !.size = @ + 1,
                             !.logBuf = IF outL THEN <<>> ELSE lb,
                             !.idxBuf = IF outI THEN <<>> ELSE ib]
        lDisk == Touch(logDisk, seg.base)
        iDisk == Touch(idxDisk, seg.base)
    IN  /\ active'  = seg1
        /\ logDisk' = IF outL THEN [lDisk EXCEPT ![seg.base] = @ \o lb] ELSE lDisk
        /\ idxDisk' = IF outI THEN [iDisk EXCEPT ![seg.base] = @ \o ib] ELSE iDisk
        /\ acked'   = Append(acked, seg.cur)

\* The rotation test of get_or_create_segment (line 71).
SegmentOverfull(seg) == seg # None /\ seg.size > SegmentCap

SegmentFull(seg) == seg # None /\ seg.size >= SegmentCap

Append1 ==
    /\ spooler = "up"
    /\ Len(acked) < MaxAppends
    /\ ~SegmentFull(active)
    /\ \E fsync \in BOOLEAN :
           AppendTo(IF active = None THEN NewSegment(logDisk) ELSE active, fsync)
    /\ UNCHANGED <<spooler, restarts>>

(***************************************************************************)
(* append when the active segment is full (lines 70-75): rotate_segment   *)
(* flushes, closes and erases it, then `it = active_segments_.find(...)`  *)
(* is end() and `it->second.get()` dereferences it.  The build's outcome   *)
(* of that read through a null node is a segmentation fault of the         *)
(* spooler before an offset is assigned.                                   *)
(***************************************************************************)
AppendRotate ==
    /\ spooler = "up"
    /\ Len(acked) < MaxAppends
    /\ SegmentFull(active)
    /\ logDisk' = FlushedLog(logDisk, active)
    /\ idxDisk' = FlushedIdx(idxDisk, active)
    /\ active'  = None
    /\ spooler' = "faulted"
    /\ UNCHANGED <<acked, restarts>>

(***************************************************************************)
(* The spooler stops: a crash, or SIGINT/SIGTERM, whose handler calls      *)
(* exit(0) (part_000 lines 23-28) while main still holds the Spool: the    *)
(* WALLog destructor never runs, so both buffers are lost.                 *)
(***************************************************************************)
SpoolerStop ==
    /\ spooler = "up"
    /\ active'  = None
    /\ spooler' = "killed"
    /\ UNCHANGED <<logDisk, idxDisk, acked, restarts>>

\* A new spooler process: the WALLog constructor (lines 30-37) opens no
\* segment.
SpoolerStart ==
    /\ spooler # "up"
    /\ restarts < MaxRestarts
    /\ spooler'  = "up"
    /\ restarts' = restarts + 1
    /\ UNCHANGED <<active, logDisk, idxDisk, acked>>

-----------------------------------------------------------------------------
(* Reader side, as a WALLog with no active segment sees the files.         *)

\* get_high_water_mark with no active segment (lines 492-522): the largest
\* last-entry offset over all index files, starting from 0.
HighWaterMark(idx) ==
    Max({0} \cup {idx[b][Len(idx[b])].off : b \in {c \in DOMAIN idx : idx[c] # <<>>}})

(***************************************************************************)
(* The binary search of read (lines 360-381) over the entries of one index *)
(* file: the 0-based number of the first entry whose offset is >= o, or    *)
(* -1 when there is none.                                                  *)
(***************************************************************************)
RECURSIVE BSearchLe(_, _, _, _, _)
BSearchLe(idx, o, left, right, found) ==
    IF left > right THEN found
    ELSE LET mid == left + (right - left) \div 2
         IN  IF idx[mid + 1].off <= o
             THEN BSearchLe(idx, o, mid + 1, right, found)
             ELSE BSearchLe(idx, o, left, mid - 1, mid)

RECURSIVE BSearch(_, _, _, _, _)
BSearch(idx, o, left, right, found) ==
    IF left > right THEN found
    ELSE LET mid == left + (right - left) \div 2
         IN  IF idx[mid + 1].off < o
             THEN BSearch(idx, o, mid + 1, right, found)
             ELSE BSearch(idx, o, left, mid - 1, mid)

FindEntry(idx, o) == BSearch(idx, o, 0, Len(idx) - 1, -1)

\* Lines 390-406: the records of log from position pos on whose offset is
\* >= o, at most budget of them.
ReadFromNext(log, pos, o, budget) ==
    LET kept == SelectSeq(SubSeq(log, pos + 2, Len(log)), LAMBDA r : r.off >= o)
    IN  SubSeq(kept, 1, IF budget < Len(kept) THEN budget ELSE Len(kept))

ReadFrom(log, pos, o, budget) ==
    LET kept == SelectSeq(SubSeq(log, pos + 1, Len(log)), LAMBDA r : r.off >= o)
    IN  SubSeq(kept, 1, IF budget < Len(kept) THEN budget ELSE Len(kept))

(***************************************************************************)
(* read (lines 331-413) over the segment bases segs: for each base in      *)
(* ascending order, skip it if o < base or its index has no entry >= o;    *)
(* otherwise read on from that entry's position, until max records.        *)
(***************************************************************************)
ReadSegment(log, idx, b, o, max, acc) ==
    IF o < b \/ Len(acc) >= max THEN acc
    ELSE LET e == FindEntry(idx[b], o)
         IN  IF e < 0 THEN acc
             ELSE acc \o ReadFrom(log[b], idx[b][e + 1].pos, o, max - Len(acc))

Read(log, idx, segs, o, max) ==
    FoldLeft(LAMBDA acc, b : ReadSegment(log, idx, b, o, max, acc),
             <<>>, SetToSortSeq(segs, <))

-----------------------------------------------------------------------------
(* The spooler as a state machine.                                         *)

WalInit ==
    /\ active   = None
    /\ logDisk  = <<>>
    /\ idxDisk  = <<>>
    /\ spooler  = "up"
    /\ acked    = <<>>
    /\ restarts = 0

WalNext ==
    \/ Append1
    \/ AppendRotate
    \/ SpoolerStop
    \/ SpoolerStart

WalSpec == WalInit /\ [][WalNext]_walVars

-----------------------------------------------------------------------------
(* Properties.                                                             *)

\* Besides the types: the active segment never holds more than
\* max_segment_size, since append rotates a segment that reached it.
WalTypeOK ==
    /\ active \in {None} \cup Segment
    /\ DOMAIN logDisk = DOMAIN idxDisk
    /\ DOMAIN logDisk \subseteq Offsets
    /\ \A b \in DOMAIN logDisk : logDisk[b] \in Seq(Rec) /\ idxDisk[b] \in Seq(Entry)
    /\ spooler \in {"up", "killed", "faulted"}
    /\ acked \in Seq(Offsets)
    /\ restarts \in 0..MaxRestarts

\* Every index entry on disk whose position lies within the log file on
\* disk names the offset of the record at that position, whatever the
\* interleaving of the separately flushed log and index buffers, rotations
\* and lost buffers; read's binary search relies on it.
IndexMatchesLog ==
    \A b \in DOMAIN idxDisk : \A i \in 1..Len(idxDisk[b]) :
        LET e == idxDisk[b][i]
        IN  e.pos < Len(logDisk[b]) => logDisk[b][e.pos + 1].off = e.off

\* The binary search of read finds the first index entry at or above the
\* requested offset: compared with a linear reference over every index
\* file the spooler has on disk in the current state, and over every index
\* file of up to four entries with increasing offsets below 6, for every
\* requested offset.
FirstAtLeast(idx, o) ==
    LET I == {i \in 1..Len(idx) : idx[i].off >= o}
    IN  IF I = {} THEN -1 ELSE Min(I) - 1

SortedIndexFiles ==
    {[i \in 1..Cardinality(S) |-> [off |-> SetToSortSeq(S, <)[i], pos |-> i - 1]] :
        S \in {T \in SUBSET (0..5) : Cardinality(T) <= 4}}

BSearchMatchesReference ==
    \A idx \in SortedIndexFiles \cup {idxDisk[b] : b \in DOMAIN idxDisk} :
        \A o \in Offsets \cup {Max(Offsets) + 1} : FindEntry(idx, o) = FirstAtLeast(idx, o)

(***************************************************************************)
(* The log the files and the buffers hold, read the way `read` walks them *)
(* (segments in ascending base order, records in file order), as the      *)
(* abstract log of SpoolLog: durable records are the files' records,      *)
(* pending ones the active segment's log buffer.                          *)
(***************************************************************************)
MsgsOf(recs) == [i \in 1..Len(recs) |-> recs[i].msg]

DurableMsgs ==
    FoldLeft(LAMBDA acc, b : acc \o MsgsOf(logDisk[b]), <<>>, SetToSortSeq(DOMAIN logDisk, <))

PendingMsgs == IF active = None THEN <<>> ELSE MsgsOf(active.logBuf)

SL == INSTANCE SpoolLog WITH appended <- Len(acked), durable <- DurableMsgs,
                             pending <- PendingMsgs

\* Spec section 4.5: the files only ever grow by the buffered records, in
\* append order, each written once, and a stop loses exactly the buffered
\* ones; buffer write-outs at either cap, fsync flushes, rotation and
\* restarts that open a new segment implement that log (SpoolLog).
WalRefinesSpoolLog == SL!LogSpec

\* Spec section 4.5: an append to a full segment rotates it and goes on;
\* the spooler never dies inside append.
SpoolerNeverFaults == spooler # "faulted"
==============================================================================
