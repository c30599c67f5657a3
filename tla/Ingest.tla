-------------------------------- MODULE Ingest --------------------------------
(***************************************************************************)
(* The spooler daemon as its clients see it: GrpcIngestAdapter::Ingest     *)
(* (src/src/ingest/kafka_adapter.cc lines 83-126, the file that also holds *)
(* grpc_adapter.cc) serving one bidirectional stream per client, each      *)
(* message appended through append_to_spool (part_004 lines 46-51) and     *)
(* Spool::append (spool.cc lines 21-23) to the WALLog of Wal, and the      *)
(* clients written as s1see_demo_generator (apps/s1see_demo_generator.cc   *)
(* lines 28-107): write a message, read its ack, NumMessages times, then   *)
(* WritesDone and Finish.                                                  *)
(*                                                                         *)
(* A stream is two FIFO queues, messages up and acks down, and the call's  *)
(* status: "open", or the status Finish returns: "OK", "INTERNAL" (the     *)
(* handler returned an error) or "UNAVAILABLE" (the transport failed: a    *)
(* broken connection, or the spooler process died).  Message i of client  *)
(* c is <<c, i>>; Wal names the record by its append number, and the      *)
(* history sentBy maps append numbers back to <<c, i>>.                    *)
(***************************************************************************)
EXTENDS Wal

CONSTANTS
    Clients,        \* demo generator processes, each with one stream
    NumMessages,    \* num_messages of each client
    MaxFaults       \* bound on broken streams and failed segment opens

VARIABLES
    cli,      \* client -> [pc, i (loop index), status]
    srv,      \* client -> the Ingest handler serving it: [pc, seq, off]
    up,       \* client -> messages written and not yet read by the handler
    down,     \* client -> acks written and not yet read by the client
    half,     \* client -> WritesDone was called
    rpc,      \* client -> "none", "open" or the call's final status
    got,      \* client -> the acks the client read, [i, ok, off] (history)
    sentBy,   \* append number -> <<c, i>> of the message appended (history)
    faults,
    stopping  \* the signal handler is inside GrpcIngestAdapter::stop

ingestVars == <<cli, srv, up, down, half, rpc, got, sentBy, faults, stopping>>
vars == <<walVars, ingestVars>>

Ack(ok, off) == [ok |-> ok, off |-> off]

\* The process is gone without waiting for its handlers: every open call
\* fails with UNAVAILABLE, every handler is gone, and messages in flight
\* to it are lost.
TearDown ==
    /\ rpc'  = [c \in Clients |-> IF rpc[c] = "open" THEN "UNAVAILABLE" ELSE rpc[c]]
    /\ srv'  = [c \in Clients |-> [srv[c] EXCEPT !.pc = IF @ = "none" THEN @ ELSE "done"]]
    /\ up'   = [c \in Clients |-> <<>>]

-----------------------------------------------------------------------------
(* The client: s1see_demo_generator's main.                                *)

\* stub->Ingest (lines 44-50): the spooler starts a handler for the call;
\* a spooler that is not running, or whose server is shutting down, fails
\* it.
Connect(c) ==
    /\ cli[c].pc = "idle"
    /\ cli' = [cli EXCEPT ![c].pc = "write"]
    /\ IF spooler = "up" /\ ~stopping
       THEN /\ rpc' = [rpc EXCEPT ![c] = "open"]
            /\ srv' = [srv EXCEPT ![c].pc = "read"]
       ELSE /\ rpc' = [rpc EXCEPT ![c] = "UNAVAILABLE"]
            /\ UNCHANGED srv
    /\ UNCHANGED <<walVars, up, down, half, got, sentBy, faults, stopping>>

\* Mutant: the loop runs while i <= num_messages.
ClientWriteInclusive(c) ==
    /\ cli[c].pc = "write"
    /\ IF cli[c].i <= NumMessages /\ rpc[c] = "open"
       THEN /\ up'  = [up EXCEPT ![c] = Append(@, cli[c].i)]
            /\ cli' = [cli EXCEPT ![c].pc = "read"]
            /\ UNCHANGED half
       ELSE /\ half' = [half EXCEPT ![c] = TRUE]
            /\ cli'  = [cli EXCEPT ![c].pc = "finish"]
            /\ UNCHANGED up
    /\ UNCHANGED <<walVars, srv, down, rpc, got, sentBy, faults, stopping>>

\* The loop head and stream->Write (lines 63-81): a write to a call that
\* has ended fails and breaks the loop; after the loop, WritesDone
\* (line 98).
ClientWrite(c) ==
    /\ cli[c].pc = "write"
    /\ IF cli[c].i < NumMessages /\ rpc[c] = "open"
       THEN /\ up'  = [up EXCEPT ![c] = Append(@, cli[c].i)]
            /\ cli' = [cli EXCEPT ![c].pc = "read"]
            /\ UNCHANGED half
       ELSE /\ half' = [half EXCEPT ![c] = TRUE]
            /\ cli'  = [cli EXCEPT ![c].pc = "finish"]
            /\ UNCHANGED up
    /\ UNCHANGED <<walVars, srv, down, rpc, got, sentBy, faults, stopping>>

\* stream->Read(&ack) (lines 83-92): the next ack, or false once the call
\* has ended (a broken call may drop acks not yet read); either way the
\* loop goes on with the next message.
ReadAck(c) ==
    /\ down[c] # <<>>
    /\ got'  = [got EXCEPT ![c] = Append(@, [i |-> cli[c].i, ok |-> Head(down[c]).ok,
                                             off |-> Head(down[c]).off])]
    /\ down' = [down EXCEPT ![c] = Tail(@)]

ReadEnded(c) ==
    /\ rpc[c] # "open"
    /\ down[c] = <<>> \/ rpc[c] = "UNAVAILABLE"
    /\ UNCHANGED <<down, got>>

\* Mutant: a Read that returns false is retried.
ClientReadRetries(c) ==
    /\ cli[c].pc = "read"
    /\ \/ ReadAck(c) /\ cli' = [cli EXCEPT ![c].pc = "write", ![c].i = @ + 1]
       \/ ReadEnded(c) /\ UNCHANGED cli
    /\ UNCHANGED <<walVars, srv, up, half, rpc, sentBy, faults, stopping>>

ClientRead(c) ==
    /\ cli[c].pc = "read"
    /\ ReadAck(c) \/ ReadEnded(c)
    /\ cli' = [cli EXCEPT ![c].pc = "write", ![c].i = @ + 1]
    /\ UNCHANGED <<walVars, srv, up, half, rpc, sentBy, faults, stopping>>

\* stream->Finish (lines 99-104) returns once the call has ended.
ClientFinish(c) ==
    /\ cli[c].pc = "finish"
    /\ rpc[c] # "open"
    /\ cli' = [cli EXCEPT ![c].pc = "done", ![c].status = rpc[c]]
    /\ UNCHANGED <<walVars, srv, up, down, half, rpc, got, sentBy, faults, stopping>>

-----------------------------------------------------------------------------
(* The handler: GrpcIngestAdapter::Ingest, one per call.                   *)

\* stream->Read and append_to_spool (lines 90-102), the append succeeding:
\* WALLog::append under its mutex (Wal's Append1).
ServerAppend(c) ==
    /\ srv[c].pc = "read"
    /\ rpc[c] = "open"
    /\ up[c] # <<>>
    /\ Append1
    /\ srv'    = [srv EXCEPT ![c] = [pc |-> "ack", seq |-> @.seq + 1, off |-> acked'[Len(acked')]]]
    /\ sentBy' = Append(sentBy, <<c, Head(up[c])>>)
    /\ up'     = [up EXCEPT ![c] = Tail(@)]
    /\ UNCHANGED <<cli, down, half, rpc, got, faults, stopping>>

\* The append reaches a full segment and the spooler dies (Wal's
\* AppendRotate).
ServerAppendRotate(c) ==
    /\ srv[c].pc = "read"
    /\ rpc[c] = "open"
    /\ up[c] # <<>>
    /\ AppendRotate
    /\ TearDown
    /\ stopping' = FALSE
    /\ UNCHANGED <<cli, down, half, got, sentBy, faults>>

\* The append throws: get_or_create_segment fails to open the new
\* segment's files (part_008 lines 124 and 229-245) before any state
\* changes.  The catch block (lines 115-122) writes a failed ack and
\* returns INTERNAL.
ServerAppendThrowsNoReturn(c) ==
    /\ srv[c].pc = "read"
    /\ rpc[c] = "open"
    /\ up[c] # <<>>
    /\ spooler = "up"
    /\ active = None
    /\ faults < MaxFaults
    /\ down'   = [down EXCEPT ![c] = Append(@, Ack(FALSE, None))]
    /\ srv'    = [srv EXCEPT ![c].seq = @ + 1]
    /\ up'     = [up EXCEPT ![c] = Tail(@)]
    /\ faults' = faults + 1
    /\ UNCHANGED <<walVars, cli, half, rpc, got, sentBy, stopping>>

ServerAppendThrows(c) ==
    /\ srv[c].pc = "read"
    /\ rpc[c] = "open"
    /\ up[c] # <<>>
    /\ spooler = "up"
    /\ active = None
    /\ faults < MaxFaults
    /\ down'   = [down EXCEPT ![c] = Append(@, Ack(FALSE, None))]
    /\ srv'    = [srv EXCEPT ![c] = [@ EXCEPT !.pc = "done", !.seq = @ + 1]]
    /\ rpc'    = [rpc EXCEPT ![c] = "INTERNAL"]
    /\ up'     = [up EXCEPT ![c] = Tail(@)]
    /\ faults' = faults + 1
    /\ UNCHANGED <<walVars, cli, half, got, sentBy, stopping>>

\* stream->Write(ack) (lines 104-114): a write to a call that has ended
\* fails and the handler returns.
ServerAck(c) ==
    /\ srv[c].pc = "ack"
    /\ IF rpc[c] = "open"
       THEN /\ down' = [down EXCEPT ![c] = Append(@, Ack(TRUE, srv[c].off))]
            /\ srv'  = [srv EXCEPT ![c].pc = "read"]
       ELSE /\ srv'  = [srv EXCEPT ![c].pc = "done"]
            /\ UNCHANGED down
    /\ UNCHANGED <<walVars, cli, up, half, rpc, got, sentBy, faults, stopping>>

\* stream->Read returns false after WritesDone, or once the call has
\* ended; the handler returns OK (line 125).
ServerReadEnd(c) ==
    /\ srv[c].pc = "read"
    /\ up[c] = <<>>
    /\ half[c] \/ rpc[c] # "open"
    /\ srv' = [srv EXCEPT ![c].pc = "done"]
    /\ rpc' = [rpc EXCEPT ![c] = IF @ = "open" THEN "OK" ELSE @]
    /\ UNCHANGED <<walVars, cli, up, down, half, got, sentBy, faults, stopping>>

-----------------------------------------------------------------------------
(* Faults and the spooler process.                                         *)

\* The connection breaks: the call fails and messages in flight are lost.
StreamBreak(c) ==
    /\ rpc[c] = "open"
    /\ faults < MaxFaults
    /\ rpc'    = [rpc EXCEPT ![c] = "UNAVAILABLE"]
    /\ up'     = [up EXCEPT ![c] = <<>>]
    /\ faults' = faults + 1
    /\ UNCHANGED <<walVars, cli, srv, down, half, got, sentBy, stopping>>

\* SIGINT or SIGTERM: signal_handler (part_000 lines 23-28) calls stop()
\* (kafka_adapter.cc lines 69-81), whose Shutdown() without a deadline
\* refuses new calls and waits until every handler has returned.
SignalStop ==
    /\ spooler = "up"
    /\ ~stopping
    /\ stopping' = TRUE
    /\ UNCHANGED <<walVars, cli, srv, up, down, half, rpc, got, sentBy, faults>>

\* Shutdown() and the join return once no handler runs; exit(0) follows
\* (Wal's SpoolerStop: the WAL buffers are lost).
SignalExit ==
    /\ stopping
    /\ \A c \in Clients : srv[c].pc \in {"none", "done"}
    /\ SpoolerStop
    /\ stopping' = FALSE
    /\ UNCHANGED <<cli, srv, up, down, half, rpc, got, sentBy, faults>>

\* The other signal arrives while the handler waits in Shutdown(): the
\* nested signal_handler finds running_ already false (line 70), stop()
\* returns at once, and exit(0) ends the process under its handlers.  A
\* SIGKILL or a crash outside append has the same effect.
SecondSignal ==
    /\ stopping
    /\ SpoolerStop
    /\ TearDown
    /\ stopping' = FALSE
    /\ UNCHANGED <<cli, down, half, got, sentBy, faults>>

SpoolerRestarts ==
    /\ SpoolerStart
    /\ UNCHANGED ingestVars

IngestInit ==
    /\ WalInit
    /\ cli    = [c \in Clients |-> [pc |-> "idle", i |-> 0, status |-> None]]
    /\ srv    = [c \in Clients |-> [pc |-> "none", seq |-> 0, off |-> None]]
    /\ up     = [c \in Clients |-> <<>>]
    /\ down   = [c \in Clients |-> <<>>]
    /\ half   = [c \in Clients |-> FALSE]
    /\ rpc    = [c \in Clients |-> "none"]
    /\ got    = [c \in Clients |-> <<>>]
    /\ sentBy = <<>>
    /\ faults = 0
    /\ stopping = FALSE

ClientStep(c) == ClientWrite(c) \/ ClientRead(c) \/ ClientFinish(c)

ServerStep(c) ==
    \/ ServerAppend(c)
    \/ ServerAppendRotate(c)
    \/ ServerAppendThrows(c)
    \/ ServerAck(c)
    \/ ServerReadEnd(c)

IngestNext ==
    \/ \E c \in Clients : Connect(c) \/ ClientStep(c) \/ ServerStep(c) \/ StreamBreak(c)
    \/ SignalStop
    \/ SignalExit
    \/ SecondSignal
    \/ SpoolerRestarts

\* Each client and each handler runs on its own thread and takes its next
\* step once it is enabled; starting a client, faults and signals are not
\* assumed to happen.
IngestSpec ==
    /\ IngestInit
    /\ [][IngestNext]_vars
    /\ \A c \in Clients : WF_vars(ClientStep(c)) /\ WF_vars(ServerStep(c))

-----------------------------------------------------------------------------
(* Properties.                                                             *)

IngestTypeOK ==
    /\ cli \in [Clients -> [pc : {"idle", "write", "read", "finish", "done"},
                            i : 0..NumMessages,
                            status : {None, "OK", "INTERNAL", "UNAVAILABLE"}]]
    /\ srv \in [Clients -> [pc : {"none", "read", "ack", "done"}, seq : 0..NumMessages,
                            off : Offsets \cup {None}]]
    /\ rpc \in [Clients -> {"none", "open", "OK", "INTERNAL", "UNAVAILABLE"}]
    /\ Len(sentBy) = Len(acked)
    /\ faults \in 0..MaxFaults
    /\ stopping \in BOOLEAN

\* The appends that carried message i of client c.
AppendsOf(c, i) == {j \in 1..Len(sentBy) : sentBy[j] = <<c, i>>}

\* A demo generator that returns 0 ("Demo complete", Finish returned OK)
\* had every one of its messages appended exactly once, and the ack it
\* read for each names the offset that append returned: across streams
\* interleaving on the WALLog mutex, broken connections, a failed segment
\* open, and the spooler dying and restarting.
ClientOkMeansAllAppended ==
    \A c \in Clients : cli[c].status = "OK" =>
        \A i \in 0..(NumMessages - 1) :
            \E k \in 1..Len(got[c]), j \in AppendsOf(c, i) :
                /\ got[c][k].i = i
                /\ got[c][k].ok
                /\ AppendsOf(c, i) = {j}
                /\ acked[j] = got[c][k].off

\* Every demo generator that started eventually returns from Finish: no
\* client waits forever on an ack or on the end of its call, whatever
\* faults happen.
EveryClientFinishes ==
    \A c \in Clients : cli[c].pc # "idle" ~> cli[c].pc = "done"
==============================================================================
