------------------------------- MODULE SpoolLog -------------------------------
(***************************************************************************)
(* What the log of spec section 4.5 promises a single partition, with the  *)
(* per-segment buffers of `use_buffering`: append assigns the next message *)
(* a place after everything appended before it; buffered records reach the *)
(* files in append order, either when a buffer fills or when the fsync     *)
(* interval elapses; a process that stops loses what is still buffered.    *)
(* Records are never rewritten, reordered or written twice.                *)
(*                                                                         *)
(* A message is named by its append number.  `durable` is the sequence of  *)
(* records in the files in read order, `pending` the buffered ones.        *)
(***************************************************************************)
EXTENDS Naturals, Sequences

CONSTANT MaxAppends

VARIABLES
    appended,   \* number of appends that returned an offset
    durable,    \* messages in the log files, in read order
    pending     \* messages appended but still in the buffer

logVars == <<appended, durable, pending>>

LogInit ==
    /\ appended = 0
    /\ durable = <<>>
    /\ pending = <<>>

\* An append; with `flush` the buffer, the new record included, reaches
\* the file in the same step.
LogAppend(flush) ==
    /\ appended < MaxAppends
    /\ appended' = appended + 1
    /\ IF flush
       THEN /\ durable' = durable \o Append(pending, appended + 1)
            /\ pending' = <<>>
       ELSE /\ pending' = Append(pending, appended + 1)
            /\ UNCHANGED durable

\* The buffer is written out without an append.
LogFlush ==
    /\ durable' = durable \o pending
    /\ pending' = <<>>
    /\ UNCHANGED appended

\* The process stops: the buffer is lost.
LogLose ==
    /\ pending' = <<>>
    /\ UNCHANGED <<appended, durable>>

LogNext ==
    \/ \E flush \in BOOLEAN : LogAppend(flush)
    \/ LogFlush
    \/ LogLose

LogSpec == LogInit /\ [][LogNext]_logVars
==============================================================================
