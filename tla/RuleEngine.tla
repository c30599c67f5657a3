------------------------------ MODULE RuleEngine ------------------------------
(***************************************************************************)
(* RuleEngine (src/src/rules/rule_engine.cc) for one loaded ruleset, the   *)
(* way the processor loads it (part_010 line 144).                         *)
(*                                                                         *)
(* A message is abstracted to its subscriber key, its msg_type and its     *)
(* spool offset; an event to its name and its evidence offsets.  The       *)
(* clock is system_clock::now() in whole seconds: windows are compared in  *)
(* milliseconds and the 60 s cap in truncated seconds, which agree when    *)
(* every time_window_ms is a multiple of 1000.                             *)
(***************************************************************************)
EXTENDS Naturals, Sequences, SequencesExt

CONSTANTS
    Keys,            \* subscriber keys the correlator hands to process
    MsgTypes,        \* msg_type strings
    SingleRules,     \* ruleset.single_message_rules: Seq of [name, type]
    SeqRules,        \* ruleset.sequence_rules: Seq of [name, first, second, window]
    MaxSequenceAge,  \* max_sequence_age in cleanup_expired_sequences (60 s)
    MaxMsgs,         \* bound on processed messages
    MaxTime          \* bound on the clock

VARIABLES
    seqStates,   \* sequence_states_: key -> Seq of SequenceState
    now,         \* system_clock::now()
    events,      \* every event returned by process, in order
    seen         \* history: every processed message with its time

reVars == <<seqStates, now, events, seen>>

\* A SequenceState keeps first_msg_type, the first message (its offset is
\* all its evidence needs) and first_seen; it does not record its rule.
State == [first : MsgTypes, off : Nat, seen : Nat]
Offs  == 0..(MaxMsgs - 1)
Event == [name : {r.name : r \in ToSet(SingleRules) \cup ToSet(SeqRules)},
          evidence : Seq(Offs)]

\* cleanup_expired_sequences (lines 293-316): drop every state older than
\* max_sequence_age and every key whose list becomes empty.
Cleanup(st, t) ==
    LET keep(k) == SelectSeq(st[k], LAMBDA s : ~(t - s.seen > MaxSequenceAge))
        live    == {k \in DOMAIN st : keep(k) # <<>>}
    IN  [k \in live |-> keep(k)]

\* check_single_message_rules (lines 64-88): one event per rule whose
\* msg_type pattern equals the message type; create_event (lines 163-201)
\* gives it the message's own offset as evidence.
SingleEventsNextOffset(type, off) ==
    LET hits == SelectSeq(SingleRules, LAMBDA r : r.type = type)
    IN  [i \in 1..Len(hits) |-> [name |-> hits[i].name, evidence |-> <<off + 1>>]]

SingleEvents(type, off) ==
    LET hits == SelectSeq(SingleRules, LAMBDA r : r.type = type)
    IN  [i \in 1..Len(hits) |-> [name |-> hits[i].name, evidence |-> <<off>>]]

\* The body of the loop over sequence_rules for one rule (lines 100-157):
\* a first message appends a state; otherwise a second message consumes
\* every state whose first_msg_type is the rule's and that is within the
\* rule's window, emitting one event per consumed state.  Its evidence is
\* the current offset added by create_event, then the first message's
\* offset and the current offset again (lines 133-148).
MatchWithinLt(r, s, t) == s.first = r.first /\ t - s.seen < r.window

Match(r, s, t) == s.first = r.first /\ t - s.seen <= r.window

SequenceStep(acc, r, type, off, t) ==
    IF type = r.first
    THEN [acc EXCEPT !.list = Append(@, [first |-> type, off |-> off, seen |-> t])]
    ELSE IF type = r.second
    THEN LET hit == SelectSeq(acc.list, LAMBDA s : Match(r, s, t))
         IN  [list |-> SelectSeq(acc.list, LAMBDA s : ~Match(r, s, t)),
              ev   |-> acc.ev \o [i \in 1..Len(hit) |->
                          [name |-> r.name, evidence |-> <<off, hit[i].off, off>>]]]
    ELSE acc

\* check_sequence_rules (lines 89-161): cleanup first, then every rule in
\* order against sequence_states_[key] (created empty by operator[]).
SequenceRulesResult(st, k, type, off, t) ==
    LET cl   == Cleanup(st, t)
        res  == FoldLeft(LAMBDA acc, r : SequenceStep(acc, r, type, off, t),
                         [list |-> IF k \in DOMAIN cl THEN cl[k] ELSE <<>>, ev |-> <<>>],
                         SeqRules)
    IN  [st |-> (k :> res.list) @@ cl, ev |-> res.ev]

\* RuleEngine::process (lines 43-62) for a message of type `type` under
\* subscriber key k at spool offset `off`.
Process(k, type, off) ==
    LET r == SequenceRulesResult(seqStates, k, type, off, now)
    IN  /\ seqStates' = r.st
        /\ events'    = events \o SingleEvents(type, off) \o r.ev
        /\ seen'      = Append(seen, [key |-> k, type |-> type, off |-> off, t |-> now])
        /\ UNCHANGED now

\* The cleanup at the end of Pipeline::process_batch (part_010 line 257).
CleanupExpiredSequences ==
    /\ seqStates' = Cleanup(seqStates, now)
    /\ UNCHANGED <<now, events, seen>>

Tick ==
    /\ now < MaxTime
    /\ now' = now + 1
    /\ UNCHANGED <<seqStates, events, seen>>

ReceiveMessage ==
    /\ Len(seen) < MaxMsgs
    /\ \E k \in Keys, type \in MsgTypes : Process(k, type, Len(seen))

REInit ==
    /\ seqStates = <<>>
    /\ now = 0
    /\ events = <<>>
    /\ seen = <<>>

RENext == ReceiveMessage \/ CleanupExpiredSequences \/ Tick

RESpec == REInit /\ [][RENext]_reVars

-----------------------------------------------------------------------------
(* Properties.                                                             *)

RETypeOK ==
    /\ \A k \in DOMAIN seqStates : k \in Keys /\ seqStates[k] \in Seq(State)
    /\ now \in 0..MaxTime
    /\ events \in Seq(Event)
    /\ seen \in Seq([key : Keys, type : MsgTypes, off : Nat, t : 0..MaxTime])

\* An isolated pair for rule r: message i of type first and message j > i
\* of type second under the same key, with no message of either type
\* between them under that key.
IsolatedPair(r, i, j) ==
    /\ i < j
    /\ seen[i].key = seen[j].key
    /\ seen[i].type = r.first /\ seen[j].type = r.second
    /\ \A l \in (i + 1)..(j - 1) :
           seen[l].key = seen[i].key => seen[l].type \notin {r.first, r.second}

\* The events of rule r whose evidence names exactly the offsets of
\* messages i and j.
Emitted(r, i, j) ==
    {e \in 1..Len(events) : /\ events[e].name = r.name
                            /\ ToSet(events[e].evidence) = {seen[i].off, seen[j].off}}

\* Spec Property 6, about check_sequence_rules: a subscriber that sees the
\* rule's first message at t and its second at t + d yields exactly one
\* event naming both messages when d <= window, and none when d > window.
SequenceRuleWithinWindow ==
    \A n \in 1..Len(SeqRules) : \A i, j \in 1..Len(seen) :
        LET r == SeqRules[n] IN
        IsolatedPair(r, i, j) =>
            Cardinality(Emitted(r, i, j)) =
                IF seen[j].t - seen[i].t <= r.window THEN 1 ELSE 0

==============================================================================
