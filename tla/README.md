# TLA+ models of S1-SEE

S1-SEE takes S1AP signalling through two processes:

* **The spooler** (`s1see_spoolerd`, `src/unnamed/part_000` lines 1-75). It receives messages on gRPC streams (`GrpcIngestAdapter::Ingest`, in `src/src/ingest/kafka_adapter.cc` lines 32-126, one handler thread per stream), from clients such as `s1see_demo_generator` (`src/apps/s1see_demo_generator.cc`). It appends each one to a write-ahead log, `WALLog` (`src/unnamed/part_008`). The log lives in segment files: `segment_<base>.log` holds length-prefixed records and `.idx` holds (offset, position) pairs. Both are written through 64 KB buffers.
* **The processor** (`s1see_processor`, `part_000` lines 76-188). Every 100 ms it calls `Pipeline::process_batch` (`part_010` lines 209-260). That function loads the consumer offset, compares it with the log's high water mark, reads a batch, and decodes each record. It then correlates the record to a subscriber (`S1apUeCorrelator`, `src/src/s1ap_ue_correlator.cpp`), runs it through the rule engine (`src/src/rules/rule_engine.cc`), emits events to the sinks, and commits the offset of the last record.

The two processes share only the files in the spool directory.

## Inventory

| Part | Source | Module | Status |
|---|---|---|---|
| Subscriber identity store (`S1apUeCorrelator`: `getOrCreateSubscriber`, `associate*`, `remove*`, `processS1apFrame`) | `src/src/s1ap_ue_correlator.cpp`, record type in `src/src/sinks/jsonl_sink.cc` | `SubscriberStore` | partly |
| Write-ahead log (`WALLog::append`, rotation, buffers, `read`, `get_high_water_mark`) | `part_008`, `spool.h` | `Wal` (refines `SpoolLog`) | partly |
| Spooler daemon and gRPC ingest (`GrpcIngestAdapter::Ingest`, `start`, `stop`; the demo generator client) | `part_000`, `kafka_adapter.cc` lines 32-126, `spool.cc`, `s1see_demo_generator.cc` | `Ingest` (extends `Wal`) | partly |
| Processor and pipeline (`process_batch`, offset commit and load) | `part_010`, `part_000`, `part_008` lines 415-474 | `Pipeline` | partly |
| Rule engine (`process`, single and sequence rules, `cleanup_expired_sequences`) | `src/src/rules/rule_engine.cc` | `RuleEngine` | modelled |
| UE context correlator (`Correlator::get_or_create_context`, `update_context_from_subscriber`, `cleanup_expired`) | `src/ARCHITECTURE_FLOW.md` lines 279-695 (the only copy of correlator.cc in the repository), `ue_context.h`, `ue_context.cc` | `Correlator` (extends `SubscriberStore`), `UEContext` (refines `HandoverSpec`) | partly |
| S1AP decoder (`RealS1APDecoder::decode`, `extractS1apFromSctp`, `parseS1apPdu`, `decodeERabSetupListCtxtSURes`, `extractTmsiFromIEList`, `extractTmsisFromS1ap`, `extractS1apIds`) | `src/src/s1ap_parser.cpp` | `S1apCodec` | partly |
| NAS parser, sinks, Kafka/NATS/AMQP adapters, PCAP reader, YAML loader | see PROJECT.json | none | not modelled: NAS decoding, formatting and I/O |

## Modules

### `SubscriberStore.tla` (with `MCSubscriberStore.tla`)

**State.** The state is the correlator's subscriber table:

* `records` maps an id to a record of optional IMSI, TMSI, IMEISV, MME and eNB UE S1AP ids, plus a set of TEIDs;
* `index` holds the six identifier→id maps;
* `nextId` is `next_subscriber_id_`;
* the history variable `released` holds the S1AP ids removed by a UEContextReleaseComplete.

**Operations.** Each public operation is one action, and each helper it calls is a store-valued operator:

* `GetOrCreate` does the lookup chain in the code's order (imsi, tmsi, imeisv, then both S1AP ids, then TEIDs). It then falls back to `Fallback`, which translates lines 389-457: the unique S1AP match, else the highest-id record with a stable identity. Failing both, it creates a record, then associates each identifier it was given, in the code's order.
* `AssociateStable`, `AssociateS1ap` and `AssociateTeid` model `associateImsi/Tmsi/Imeisv`, `associateMme/EnbUeS1apId` and `associateTeid`, conflict handling included.
* `ProcessS1apFrame` models `processS1apFrame` as a whole. It calls getOrCreate, re-derives the subscriber id from the first identifier present, associates the S1AP ids and TEIDs, and removes the S1AP ids on a release.

**Inputs.** Frames come in two kinds:

* identifier updates;
* UEContextReleaseComplete frames, which carry only S1AP ids.

The direct `getOrCreateSubscriber` calls take only the arguments the correlator passes, which never include a TEID.

### `Wal.tla` (with `MCWal.tla`)

**State.** The variables are:

* the spooler's active segment, with its base, next offset, size, and unflushed log and index buffers;
* the log and index files on disk, one sequence of records or entries per base;
* the spooler's status (`up`, `killed`, or `faulted` after the undefined dereference);
* `acked`, the offsets `append` returned.

**Actions.**

* `Append1` is `append`, including `get_or_create_segment`'s choice of base. Writing out a buffer at its cap and fsync are part of the step. Whether fsync happens is an input, because the timed flush of `fsync_on_append` is what writes the buffers.
* `AppendRotate` is an append that hits the rotation branch (lines 72-76).
* `SpoolerStop` is the signal handler: `exit(0)` loses the buffers.
* `SpoolerStart` is a new process.

**Reader operators.** `HighWaterMark`, `FindEntry`/`BSearch` (RECURSIVE), `ReadFrom` and `Read` translate the reader side. They are checked inside `Pipeline`.

**Refinement.** `SpoolLog.tla` is the log that spec 4.5 promises one partition: append gives the next message a place after every earlier one; buffered records reach the files in append order, when a buffer fills or at a timed flush; a stopped process loses its buffer. Records are never rewritten, reordered or written twice. `Wal` implements it under this mapping:

* `appended` is the number of offsets handed out;
* `durable` is the messages of the log files, read in base order (`DurableMsgs`);
* `pending` is the active segment's log buffer (`PendingMsgs`).

`WalRefinesSpoolLog` is checked in spooler_safety, on the WAL as `Ingest` drives it. `MCWal.cfg` checks the same properties on the WAL alone with larger bounds (6 appends, 2 restarts); it is kept beside the runs.

**Bounds.** Caps are counted in records, not bytes: LogBufCap 2 and IdxBufCap 3 stand for the fact that an index entry is smaller than a record, so the log buffer fills first. The `ASSUME` states this.

### `Ingest.tla` (with `MCIngest.tla`)

`Ingest` extends `Wal` and puts the spooler's clients in front of it: the gRPC handler `GrpcIngestAdapter::Ingest` (`kafka_adapter.cc` lines 83-126), one per call, and the client loop of `s1see_demo_generator` (lines 43-107).

**State.** Per client: the client's program counter, loop index and final status (`cli`); its handler's program counter, sequence number and the offset of its last append (`srv`); the stream as two FIFO queues, messages up and acks down; whether WritesDone was called; and the call's status (`rpc`: open, OK, INTERNAL or UNAVAILABLE). Two history variables record the acks each client read and, for every append, which client's message it carried (`sentBy`).

**Actions.**

* Client: `Connect` (`stub->Ingest`; a spooler that is down fails the call), `ClientWrite` (the loop head and `Write`; a write to an ended call breaks the loop into WritesDone), `ClientRead` (`Read`: the next ack, or false once the call ended, after which the loop goes on), `ClientFinish` (`Finish` returns the call's status).
* Handler: `ServerAppend` is `Read` plus `append_to_spool` composed with `Wal`'s `Append1` under the WAL mutex; `ServerAppendRotate` is the append that hits rotation and kills the process; `ServerAppendThrows` is the catch block, reached when `open_segment_files` throws for a new segment; `ServerAck` writes the ack (or returns when the call ended); `ServerReadEnd` returns OK after WritesDone.
* Faults and the process: `StreamBreak` (a broken connection); `SignalStop`, SIGINT or SIGTERM, whose `stop()` calls `Shutdown()` without a deadline, so new calls are refused and the open ones run to their end; `SignalExit`, `exit(0)` once no handler runs (the WAL buffers are lost); `SecondSignal`, the other signal arriving during `Shutdown()`, whose nested `stop()` returns at once because `running_` is already false, so `exit(0)` ends the process under live handlers and their calls fail (a SIGKILL has the same effect); and `SpoolerRestarts`.
* Because the graceful path lets calls end with OK before `exit(0)`, a client can exit 0 on messages that are then lost from the buffers. `ClientOkMeansAllAppended` is about the append (each message appended once, at the offset its ack names); the loss at `exit(0)` is the separate hazard that `IndexMatchesLog` and `NoMessageSkipped` cover.

**Fairness.** Every client and every handler is a thread that runs once it is unblocked, so each has weak fairness on its steps. Connecting, faults and signals have none.

### `Pipeline.tla` (with `MCPipeline.tla`)

`Pipeline.tla` extends `Wal` with the processor:

* `committed` is the in-memory consumer offset and `offsetFile` the file on disk;
* `cache` is the processor's segment list cache;
* `procCount` counts, capped at 2, how often each message went through the rule engine.

**Actions.**

* `ProcessBatch` is `process_batch` for partition 0. It includes the 5 s cache that may be stale, and a torn commit (`save_consumer_offset` truncates the file before writing it).
* `ProcessorRestart` is a new processor.

**Fairness.** Only `ProcessBatch` is fair (weak fairness), because the processor loop calls it every 100 ms for as long as it runs. The spooler gets no fairness, since it appends only when messages arrive.

### `RuleEngine.tla` (with `MCRuleEngine.tla`)

**State.**

* `seqStates` is `sequence_states_`: a map from subscriber key to the list of pending `SequenceState`s.
* `now` is the clock in whole seconds.
* `events` holds the events `process` returned.
* `seen` is a history of the processed messages, each with its key, type, offset and time.

A message is abstracted to its subscriber key, its `msg_type` and its spool offset.

**Actions.**

* `ReceiveMessage` is one `process` call. It runs the single-message rules, then `check_sequence_rules`:
  * the cleanup first;
  * then every sequence rule in order, as a `FoldLeft` of `SequenceStep` over the rule list.
* `CleanupExpiredSequences` is the cleanup at the end of `process_batch`.
* `Tick` advances the clock.

**Modelling choice.** A second message consumes every pending state whose first type matches its rule. The model keeps this, because the code's `SequenceState` does not record its rule.

### `Correlator.tla` (with `MCCorrelator.tla`)

`Correlator.tla` extends `SubscriberStore` with `contexts_`, a map from subscriber key to a `UEContext` restricted to the identifier fields correlation reads, and with `next_unknown_id_`. Keys are pairs such as `<<"imsi", i1>>`.

**The lookup operators** follow the code's branches in order:

* `MsgIds`, the identifiers taken from the message;
* `MatchingKeys`, the scan of `contexts_`;
* `Merge`;
* `SubscriberFor`, which uses the `processS1apFrame` record, else the first identifier present for a release (looked up through the store's `getSubscriberBy*` getters, `GetSubscriberBy`), else `getOrCreateSubscriber`;
* `KeyOfRecord` and `NewKeyBetter`.

**The result operator.** `GetOrCreateContextResult` is the whole function as a `CASE`, with one arm per return path and a comment giving its line range. `UpdateFromSubscriber` includes the release branch, which removes the context's own S1AP ids from the store.

**Actions.**

* `GetOrCreateContext(m)` is one call.
* `CleanupExpired` erases one expired context.

**Nondeterminism.** Which matching context the scan meets first depends on `unordered_map` order, so it is an existential choice (`ExistingChoices`).

**History.** `lastCall` records the message, the key returned and the subscriber record used.

**Evaluation.** The store operators pass intermediate stores through `AndThen`, a one-element set binding. This only makes TLC evaluate each intermediate store once. It does not change what the operators denote.

### `UEContext.tla` (with `MCUEContext.tla`) and `HandoverSpec.tla`

`HandoverSpec.tla` is the handover state machine that spec 4.3 gives every UEContext, together with the context's lifetime. Its state is the in-progress flag, the start time, the current and source ECGI, the last procedure and a clock. A message is its type, its ECGI and its target ECGI.

`UEContext.tla` models the `UEContext` struct (`ue_context.h` lines 24-58) as a record. Strings and optional values are model values, or None when empty or absent. Its operators translate the code:

* `Update` is `UEContext::update`: it overlays the message's fields, then runs `UpdateCompositeKeys`, then the handover block `HandoverUpdate`, then `GenerateSubscriberKey`;
* `MatchesStableIdentity` and `IsExpired` are the methods of the same names;
* `FromSubscriber` is the context side of `Correlator::update_context_from_subscriber` (ARCHITECTURE_FLOW.md lines 608-669).

The module has two specifications:

* `ClassSpec` applies `update` to one context message after message, as `tests/test_ue_context.cc` does.
* `CorrLifecycleSpec` is one UE's context as `get_or_create_context` keeps it. `CreateContext` (lines 594-605) and `UpdateContext` (lines 575-591) go through `update_context_from_subscriber`. `CleanupExpired` is `cleanup_expired` (lines 684-695). Every message that carries an identifier reaches a subscriber record, so the unknown-subscriber path (line 536), the only caller of `update`, is not taken.

`HandoverRefinement` maps the context onto `HandoverSpec`. No context maps to a fresh one.

The realistic messages (`MCMsgs`) follow the decoder:

* HandoverRequired and HandoverCommand carry no EUTRAN-CGI;
* HandoverNotify and InitialUEMessage carry one;
* no message carries a target ECGI, because no IE name matches the decoder's target/CGI test (`s1ap_parser.cpp` lines 2504-2530).

### `S1apCodec.tla` (with `MCS1apCodec.tla`)

`S1apCodec.tla` models the decoder over bytes. A byte is a natural 0..255, a buffer is a sequence, and C++ index i is position i + 1. The code keeps an IE value as a hex string and every reader turns it back into bytes, so the model keeps the bytes.

**Operators, each a translation of one function.**

* `ExtractS1apFromSctp`, with `IpLayer`, `Ipv6Ext` and `FirstDataChunk`: the Ethernet/VLAN, IPv4/IPv6 (at most 8 extension headers) and SCTP chunk walk, with 4-byte padding. The first DATA chunk decides, and a PPID other than 18 gives up.
* `ParseS1apPdu` and `ParseIes`, with `ValueLength`: the header (CHOICE bits, procedure code, the SEQUENCE OF count read at offset 6 or 7 as the code does) and the IE loop. A later IE with the same id replaces an earlier one.
* `IdFromIe`: `std::stoul` of the whole hex string, cast to `uint32_t`. An id is kept as its 4 octets (`Uint32`), because TLC's integers are 32-bit signed. A value longer than 8 bytes makes `stoul` throw, and the id is left unset.
* `DecodeERabSetupList`, `ERabItems`, `ERabItemTeid` and `BitLength`: `decodeERabSetupListCtxtSURes`. `decoded` holds only when every item decoded.
* `TmsiFromIeList`, `ExtractTmsisFromS1ap` and `ExtractS1apIds`: what `processS1apFrame` hands the subscriber store.
* `Canonical`: the canonical message of `RealS1APDecoder::decode`.

**Reference encoders.** `EncodePdu` and `Frame` are APER (TS 36.413) and SCTP/IP framing written from the standards, not from this repository. They turn a PDU descriptor into bytes. `ExpectedIes` and `ExpectedStore` give what a correct decoder returns for it.

**The action.** `DecodeRecord` is one record through `Pipeline::process_message`: it picks a descriptor and a framing, decodes the bytes, and records the canonical message (`out`) and what the store receives (`store`). The property that compares two records is an action property.

## Runs

| Run | Config | Checks | Result |
|---|---|---|---|
| store_safety | `MCSubscriberStore.cfg` | TypeOK, S1apIndexConsistent, TeidOwnershipExclusive, ReleaseIsFinal, ImsiNeverMigrates | pass |
| spooler_safety | `MCIngest.cfg` | WalTypeOK, IndexMatchesLog, BSearchMatchesReference, IngestTypeOK, ClientOkMeansAllAppended, WalRefinesSpoolLog, EveryClientFinishes | pass |
| wal_rotation | `MCWal_rotation.cfg` | SpoolerNeverFaults | violation |
| pipeline_safety | `MCPipeline.cfg` | PipelineTypeOK, NoMessageSkipped | pass |
| pipeline_duplicates | `MCPipeline_dup.cfg` | ProcessedAtMostOnce | violation |
| pipeline_skip | `MCPipeline_skip.cfg` | NoMessageSkipped | violation |
| pipeline_progress | `MCPipeline_progress.cfg` | DurableEventuallyProcessed | violation |
| rules_safety | `MCRuleEngine.cfg` | RETypeOK, SequenceRuleWithinWindow | pass |
| corr_safety | `MCCorrelator.cfg` | SubscriberIdentityMerge | pass |
| corr_release | `MCCorrelator_release.cfg` | ReleaseKeepsOtherSubscribers | violation |
| codec_safety | `MCS1apCodec.cfg` | DecodeRecoversPdu, StoreGetsTmsiAndTeids, S1apIdsStable | pass |
| uectx_handover | `MCUEContext.cfg` | HandoverRefinement | violation |

### What the passing runs show

* **store_safety.** After any sequence of frames, getOrCreate calls and removals:
  * every S1AP index entry points at a record that holds that id;
  * a TEID belongs to one record;
  * an id removed by a release stays removed until a frame carries it again;
  * an IMSI never moves from one record to another.
* **spooler_safety.** Two demo generators stream two messages each through their own handlers into one WAL, with one fault (a broken stream or a failed segment open) and one restart. A client that exits 0 had each of its messages appended exactly once, at the offset its ack names, however the handlers interleave on the WAL. A broken stream, a failed append or a dead spooler ends the client with an error, never with OK. Every client that started returns from Finish. In the WAL underneath, every index entry on disk names the record at its position, even though the buffers are written out independently and can be lost. The binary search in `read` agrees with a linear search over sorted index files. The WAL implements the spec's append-only log: what the files hold, read in base order, is always a prefix of the appended messages in append order, followed by the buffered ones.
* **pipeline_safety.** With a single segment, no message is processed before an earlier message that is on disk, through torn commits, restarts and the stale cache.
* **rules_safety.** With one sequence rule:
  * every isolated first/second pair of a subscriber yields exactly one event naming both messages when the pair is within the window, and none otherwise;
  * this holds across two subscribers, clock ticks and cleanups at any point.
* **corr_safety.** Spec Property 3 holds through `get_or_create_context` across updates, releases, unknown-key contexts and expiry. A message with IMSI X and MME id Y, followed by one carrying only the S1AP ids, is correlated to the same record, and that record still holds X.

* **codec_safety.** 128 PDUs, each bare or in one of three SCTP frames (VLAN, IPv6 extension header, a SACK bundled before the DATA chunk). Each decodes to its type, procedure and every IE, with values of 2, 100 and 130 bytes in both length forms. The store gets the m-TMSI and every E-RAB TEID in order. A nonzero id of one to four octets is never lost, and decodes to the same value under every framing and next to every other IE.

### What the violations show (details in PROJECT.json "findings")

* **wal_rotation.** The first append to a full segment dereferences `end()` and crashes.
* **pipeline_duplicates.** `process_batch` commits the last processed offset and `read` is inclusive, so the boundary record is processed twice without any crash.
* **pipeline_skip.** A spooler restart that loses the index buffer leaves on-disk records that `read` never reaches, while newer records (with reused offsets) are processed.
* **pipeline_progress.** A lone record at offset 0 is never processed, because the high water mark is 0.
* **corr_release.** UE2 reuses UE1's eNB UE S1AP id and so meets UE1's stale context. That context then takes UE1's new MME id. When UE2 is released, `update_context_from_subscriber` removes that MME id from UE1's record. The trace needs `processS1apFrame`'s release branch (`s1ap_ue_correlator.cpp` lines 205-206) to fire on that release. Its test reads `s1ap_result.pdu_type`, which `get_or_create_context` never assigns (`ARCHITECTURE_FLOW.md` lines 287-290; `S1apParseResult` has no initializer). `Correlator` therefore takes the branch or not, whichever value the field holds (`FrameReleaseChoices`). With the branch never taken, TLC finds no violation.

* **uectx_handover.** The first HandoverRequired for a known subscriber creates or updates its context through `update_context_from_subscriber`. That function sets `last_procedure` but leaves `handover_in_progress` FALSE, which `HandoverSpec` does not allow. The deployed correlator never runs the spec's handover machine. `UEContext::update` implements it, but `update` is reached only for unknown subscribers.

Further configurations are kept beside the runs:

* **`MCRuleEngine_shared.cfg`** (SequenceRuleWithinWindow). Take two sequence rules that start on HandoverRequest. One HandoverNotify consumes both pending states and emits the Completed event twice.
* **`MCUEContext_class.cfg`** (HandoverRefinement, holds: 944 states). `UEContext::update`, driven with hand-built target ECGIs, implements `HandoverSpec`. Its `target_ecgi` is never cleared. A later handover without a target then moves back to the old target, which the mapping cannot tell from a message naming that cell; see the hazards.

* **`MCCorrelator_key.cfg`** (ImsiMessageKeyedByImsi). A message carrying IMSI i2 and a TMSI that the store holds for i1's record is returned under the key `imsi:i1`, although the record now holds i2.
* **`MCSubscriberStore_stable.cfg`** (StableIdentityUnique). `associateTmsi` (and the IMSI and IMEISV variants) take over an identifier without clearing it from the record that held it, so two records claim one TMSI.
* **`MCS1apCodec_ids.cfg`** (S1apIdsDistinguishUes). `stoul` converts the APER length-prefix octet along with the id. MME UE S1AP id 70000 (`80 01 11 70`) and id 0x80011170 (`C0 80 01 11 70`) therefore both decode to 0x80011170. Id 0 decodes to 0, which the correlator reads as absent.
* **`MCS1apCodec_pair.cfg`** (S1apReadersAgree). A UEContextReleaseCommand names its UE only by UE-S1AP-IDs. `decode` ignores that IE, so the canonical message has no ids. `extractS1apIds` reads it as two raw 4-byte words, so the store gets values that are not the ids.
* **The sequence event's evidence.** It is `[second, first, second]`, where spec 4.4 says `[first, second]`.

All are listed as hazards in PROJECT.json. All but the class configuration and the evidence order make TLC report the violation when run with their configuration.

### Bounds

* **Store.** 2 IMSIs, 2 TMSIs, 1 IMEISV, 2 MME ids, 1 eNB id, 1 TEID, and at most 2 subscribers. Two records are the least that can conflict. Two values of the contested kinds let an id move and be replaced. MaxSubscribers 3 did not finish within 15 minutes. Symmetry is taken over the interchangeable identifier sets.
* **Wal.** 6 appends, segment cap 2 and 2 restarts. These reach rotation, buffer write-outs at both caps, and a kill with full buffers.
* **Ingest.** 2 clients of 2 messages, 4 appends, segment cap 2, one fault and one restart (119,341 states). Two clients are the least that interleave on the WAL; two messages let a fault fall before, between or after the acks. With segment cap 2 the third append meets a full segment, so rotation, a restart into a new segment and a failed open of that segment all happen within the four appends.
* **RuleEngine.** 2 keys, 4 messages, clock 0..3, window 1 and MaxSequenceAge 2 (the 60 s cap scaled down, still above the window). A pair can therefore be inside the window, at its boundary, or outside it; and a state can be cleaned up before its second message arrives.
* **Correlator.** 2 IMSIs, 1 TMSI, 1 MME id, 1 eNB id and 2 records; every UE then shares the S1AP ids over time. The release run uses 2 MME ids, which the violation needs.
* **Pipeline.** 4 appends, batch 2, one torn commit or restart. The skip run needs 6 appends and one spooler restart so that both segments exist with overlapping offsets.

* **UEContext.** Two cells, one subscriber record, clock 0..3 and expiry 1. A context can therefore be created, handed over, released, expire and be created again. The class configuration adds HandoverRequired and HandoverCommand with and without target c2.

* **S1apCodec.** Ids of one to four octets (5, 70000, 0xC8270170; eNB 0, 4464, 70000), absent or present. IE values of 2, 100 and 130 bytes. E-RAB lists of one and two items, with 32- and 128-bit addresses. Two procedures. Four framings. Every length form the code reads appears in the instance. Values of 256 bytes or more, where the code's extended length form leaves APER, do not.

Each property of a passing run has a mutant in PROJECT.json, a plausible code bug under which TLC finds the property violated.

## Not modelled, and plan for later sittings

1. **Correlator TEID lookups and GUTI-derived fields.** `mme_group_id` and `mme_code` are set by no producer. `Correlator` contexts carry only the identifier fields that correlation reads; `UEContext` has the rest.
2. **Processing failure.** A record whose processing throws, to show that the commit passes over it.
3. **NAS decoding.** The NAS parser (`part_012`-`part_014`: BCD IMSI digits, the TMSI within a GUTI, IMEISV) and the paths of `extractTmsisFromS1ap` that feed it: NAS-PDU, and the E-RABToBeSetupListCtxtSUReq loop, whose per-item `offset = 2` (line 1510) re-reads the first item. `map_procedure_to_msg_type` and ECGI parsing are string tables.
4. **Composite keys.** `mme_composite_key`, `enb_composite_key` and `tmsi_composite_key` are computed, `UpdateCompositeKeys`, but nothing reads them. They can be stale after a release (computed before the ids are cleared) or a handover (computed before the cell moves), with no effect.
5. **Excluded parts.** Sinks, the Kafka/NATS/AMQP adapters (stubs), the PCAP reader and the YAML loader are I/O or formatting, and stay out. The JSONL sink writes into an unflushed `ofstream`, so events can be lost after their offset was committed; this is listed as a hazard.
6. **Background flush.** The timed flush runs only inside `append`. An acked message can stay buffered as long as no other message arrives. Stating eventual durability needs a clock and fairness the code does not give, so this is a hazard without a property.
