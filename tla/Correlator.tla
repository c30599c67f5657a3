------------------------------ MODULE Correlator ------------------------------
(***************************************************************************)
(* Correlator::get_or_create_context (correlator.cc, reproduced in         *)
(* src/ARCHITECTURE_FLOW.md lines 283-606) over the subscriber store of     *)
(* SubscriberStore: the map subscriber_key -> UEContext kept beside the    *)
(* S1apUeCorrelator it owns.                                               *)
(*                                                                         *)
(* A message is a frame of SubscriberStore: the identifiers the canonical  *)
(* message carries are the ones processS1apFrame extracts from the same    *)
(* bytes.  A subscriber key "imsi:X", "tmsi:X", "mme_ue_s1ap_id:N",        *)
(* "enb_ue_s1ap_id:N" or "unknown_N" is the pair <<kind, value>>.  A      *)
(* UEContext keeps the identifier fields that correlation reads; cell,    *)
(* GUTI and handover fields are written but never read by                  *)
(* get_or_create_context.  Expiry depends on wall-clock time and is a     *)
(* nondeterministic removal.                                               *)
(***************************************************************************)
EXTENDS SubscriberStore

CONSTANTS
    Messages,     \* the messages the processor may see
    MaxUnknown    \* bound on next_unknown_id_ - 1

VARIABLES
    contexts,     \* contexts_: key -> UEContext
    nextUnknown,  \* next_unknown_id_
    lastCall      \* history: [msg, key, sub] of the last call (key NoKey for ""), or None

corrVars == <<contexts, nextUnknown, lastCall>>
allVars  == <<vars, corrVars>>

NoKey == <<"none", 0>>

Fields == {"imsi", "tmsi", "mme", "enb", "imei"}

\* UEContext, identifier fields; `imei` holds the IMEISV (lines 608-651).
Ctx == [imsi : Opt(Imsis), tmsi : Opt(Tmsis), mme : Opt(MmeIds),
        enb : Opt(EnbIds), imei : Opt(Imeisvs)]

EmptyCtx == [f \in Fields |-> None]

\* The identifiers taken from the message (lines 355-413).
MsgIds(m) == [imsi |-> m.imsi, tmsi |-> m.tmsi, mme |-> m.mme,
              enb |-> m.enb, imei |-> m.imeisv]

\* The scan of contexts_ (lines 415-455): a context matches when it holds
\* any identifier of the message.  contexts_ is an unordered_map, so which
\* of several matching contexts the loop meets first is left open.
CtxMatches(c, ids) == \E f \in Fields : ids[f] # None /\ c[f] = ids[f]

MatchingKeys(ids) == {k \in DOMAIN contexts : CtxMatches(contexts[k], ids)}

\* Lines 457-479: identifiers the message lacks are taken from the context.
Merge(ids, ek) ==
    [f \in Fields |-> IF ids[f] = None /\ ek # NoKey THEN contexts[ek][f] ELSE ids[f]]

\* S1apUeCorrelator::getSubscriberByImsi ... getSubscriberByImeisv
\* (s1ap_ue_correlator.cpp lines 507-572): the indexed id, if it is not 0
\* and names a record; 0 (nullptr) otherwise.
GetSubscriberBy(s, k, v) ==
    IF v # None /\ Lookup(s, k, v) \in RecIds(s) THEN Lookup(s, k, v) ELSE 0

\* Lines 501-520: a release looks up the first identifier present only.
LookupFirstPresent(s, ids) ==
    CASE ids.imsi # None -> GetSubscriberBy(s, "imsi", ids.imsi)
      [] ids.tmsi # None -> GetSubscriberBy(s, "tmsi", ids.tmsi)
      [] ids.mme  # None -> GetSubscriberBy(s, "mme", ids.mme)
      [] ids.enb  # None -> GetSubscriberBy(s, "enb", ids.enb)
      [] OTHER           -> GetSubscriberBy(s, "imeisv", ids.imei)

\* Lines 542-554: the key from the subscriber record; without IMSI, TMSI
\* or an S1AP id a fresh unknown_N.
KeyOfRecord(rec, n) ==
    CASE rec.imsi # None -> <<"imsi", rec.imsi>>
      [] rec.tmsi # None -> <<"tmsi", rec.tmsi>>
      [] rec.mme  # None -> <<"mme", rec.mme>>
      [] rec.enb  # None -> <<"enb", rec.enb>>
      [] OTHER           -> <<"unknown", n>>

\* Lines 558-574: IMSI > TMSI > MME/eNB > unknown, by key prefix.
NewKeyBetter(new, old) ==
    \/ new[1] = "imsi" /\ old[1] # "imsi"
    \/ new[1] = "tmsi" /\ old[1] \notin {"imsi", "tmsi"}
    \/ new[1] \in {"mme", "enb"} /\ old[1] = "unknown"

(***************************************************************************)
(* update_context_from_subscriber (lines 608-669): copy every identifier   *)
(* the record holds (absent ones leave the context's value), then on       *)
(* UEContextReleaseComplete remove the context's MME id and eNB id from   *)
(* the store and the context.  Returns [ctx, st].                          *)
(***************************************************************************)
CopyFromRecord(c, rec) ==
    [f \in Fields |-> LET v == IF f = "imei" THEN rec.imeisv ELSE rec[f]
                      IN  IF v # None THEN v ELSE c[f]]

UpdateFromSubscriber(c, s, sub, m) ==
    LET c1 == CopyFromRecord(c, s.rec[sub])
    IN  IF m.release
        THEN [ctx |-> [c1 EXCEPT !.mme = None, !.enb = None],
              st  |-> RemoveIfPresent(RemoveIfPresent(s, "mme", c1.mme), "enb", c1.enb)]
        ELSE [ctx |-> c1, st |-> s]

(***************************************************************************)
(* get_or_create_context for message m when the scan met context ek (or    *)
(* NoKey).  Returns [st, ctxs, unk, key].                                  *)
(***************************************************************************)
\* Lines 491-527: the record processS1apFrame returned; failing that, for a
\* release the record of the first identifier present, otherwise
\* getOrCreateSubscriber with the merged identifiers.  Returns [st, sub].
SubscriberForAlwaysMerged(f, ids, m) ==
    GetOrCreate(f.st, [imsi |-> ids.imsi, tmsi |-> ids.tmsi, imeisv |-> ids.imei,
                       mme |-> ids.mme, enb |-> ids.enb, teid |-> None])

SubscriberFor(f, ids, m) ==
    IF f.sub # 0 \/ m.release
    THEN [st |-> f.st, sub |-> IF f.sub # 0 THEN f.sub ELSE LookupFirstPresent(f.st, ids)]
    ELSE GetOrCreate(f.st, [imsi |-> ids.imsi, tmsi |-> ids.tmsi, imeisv |-> ids.imei,
                            mme |-> ids.mme, enb |-> ids.enb, teid |-> None])

(***************************************************************************)
(* get_or_create_context for message m when the scan met context ek (or    *)
(* NoKey).  Returns [st, ctxs, unk, key, sub].                             *)
(***************************************************************************)
GetOrCreateContextResult(m, ek, f, g) ==
    LET ids   == Merge(MsgIds(m), ek)
        key   == KeyOfRecord(g.st.rec[g.sub], nextUnknown)
        unk   == IF key[1] = "unknown" THEN nextUnknown + 1 ELSE nextUnknown
        upd(c) == UpdateFromSubscriber(c, g.st, g.sub, m)
        done(st, ctxs, n, k) == [st |-> st, ctxs |-> ctxs, unk |-> n, key |-> k, sub |-> g.sub]
    IN
    CASE \A fl \in Fields : ids[fl] = None                 \* lines 481-489
            -> done(f.st, contexts, nextUnknown, NoKey)
      [] g.sub = 0 /\ m.release                             \* lines 522-532
            -> done(g.st, contexts, nextUnknown, NoKey)
      [] g.sub = 0                                          \* lines 533-540
            -> done(g.st, (<<"unknown", nextUnknown>> :> CopyFromRecord(EmptyCtx,
                          [imsi |-> m.imsi, tmsi |-> m.tmsi, mme |-> m.mme,
                           enb |-> m.enb, imeisv |-> m.imeisv])) @@ contexts,
                    nextUnknown + 1, <<"unknown", nextUnknown>>)
      [] ek # NoKey /\ key # ek /\ NewKeyBetter(key, ek)    \* lines 575-581
            -> LET u == upd(contexts[ek])
               IN  done(u.st, [k \in (DOMAIN contexts \ {ek}) \cup {key} |->
                                 IF k = key THEN u.ctx ELSE contexts[k]], unk, key)
      [] ek # NoKey                                         \* lines 582-591
            -> LET u == upd(contexts[ek])
               IN  done(u.st, [contexts EXCEPT ![ek] = u.ctx], unk, ek)
      [] m.release                                          \* lines 594-598
            -> done(g.st, contexts, unk, NoKey)
      [] OTHER                                              \* lines 600-605
            -> LET u == upd(EmptyCtx)
               IN  done(u.st, (key :> u.ctx) @@ contexts, unk, key)

ExistingChoices(m) ==
    LET ks == MatchingKeys(MsgIds(m)) IN IF ks = {} THEN {NoKey} ELSE ks

CorrInit ==
    /\ Init
    /\ contexts = <<>>
    /\ nextUnknown = 1
    /\ lastCall = None

\* processS1apFrame's release branch (s1ap_ue_correlator.cpp lines 205-206)
\* tests s1ap_result.pdu_type, which get_or_create_context never assigns
\* (lines 287-290; S1apParseResult, part_013 line 283, has no initializer):
\* on a release the branch is taken or not, whichever value the
\* uninitialized field holds.
FrameReleaseChoices(m) == IF m.release THEN BOOLEAN ELSE {FALSE}

\* RuleEngine::process calls get_or_create_context once per message.
GetOrCreateContext(m) ==
    \E ek \in ExistingChoices(m), rel \in FrameReleaseChoices(m) :
    \E f \in {ProcessS1apFrame(Store, [m EXCEPT !.release = rel])} :
    \E g \in {SubscriberFor(f, Merge(MsgIds(m), ek), m)} :
    \E r \in {GetOrCreateContextResult(m, ek, f, g)} :
            /\ WithinBound(r.st)
            /\ r.unk <= MaxUnknown + 1
            /\ SetStore(r.st)
            /\ released' = IF rel /\ FrameHasIds(m)
                           THEN [mme |-> m.mme, enb |-> m.enb] ELSE None
            /\ contexts' = r.ctxs
            /\ nextUnknown' = r.unk
            /\ lastCall' = [msg |-> m, key |-> r.key, sub |-> r.sub]

\* cleanup_expired (lines 684-695): a context whose last_seen is older than
\* context_expiry is erased; which ones have expired depends on the clock.
CleanupExpired ==
    /\ \E k \in DOMAIN contexts : contexts' = [c \in DOMAIN contexts \ {k} |-> contexts[c]]
    /\ lastCall' = None
    /\ UNCHANGED <<vars, nextUnknown>>

CorrNext ==
    \/ \E m \in Messages : GetOrCreateContext(m)
    \/ CleanupExpired

CorrSpec == CorrInit /\ [][CorrNext]_allVars

-----------------------------------------------------------------------------
(* Properties.                                                             *)

Keys == ({"imsi"} \X Imsis) \cup ({"tmsi"} \X Tmsis) \cup ({"mme"} \X MmeIds)
        \cup ({"enb"} \X EnbIds) \cup ({"unknown"} \X (1..MaxUnknown))

CorrTypeOK ==
    /\ TypeOK
    /\ DOMAIN contexts \subseteq Keys
    /\ \A k \in DOMAIN contexts : contexts[k] \in Ctx
    /\ nextUnknown \in 1..(MaxUnknown + 1)
    /\ lastCall \in {None} \cup [msg : Messages, key : Keys \cup {NoKey}, sub : IdOrZero]

\* Spec Property 3 through get_or_create_context: a message carrying IMSI X
\* and MME id Y, followed by one carrying only the S1AP ids (MME id Y), are
\* correlated to the same subscriber record, which still holds IMSI X.
SubscriberIdentityMerge ==
    [][ /\ lastCall # None /\ lastCall' # None
        /\ lastCall.msg.imsi # None /\ lastCall.msg.mme # None
        /\ ~lastCall.msg.release /\ ~lastCall'.msg.release
        /\ lastCall'.msg.mme = lastCall.msg.mme
        /\ lastCall'.msg.imsi = None /\ lastCall'.msg.tmsi = None
        => /\ lastCall'.sub = lastCall.sub
           /\ records'[lastCall'.sub].imsi = lastCall.msg.imsi ]_allVars

\* Spec section 4.3 (key priority IMSI first): a message that carries IMSI
\* X is handed to the rule engine under the key "imsi:X".
ImsiMessageKeyedByImsi ==
    lastCall # None /\ lastCall.msg.imsi # None =>
        lastCall.key = <<"imsi", lastCall.msg.imsi>>

\* Spec Property 5: a UEContextReleaseComplete clears the S1AP ids of the
\* released subscriber; an S1AP id another record holds, other than the
\* ids the release frame names, is left in place.
ReleaseKeepsOtherSubscribers ==
    [][ lastCall' # None /\ lastCall'.msg.release =>
        \A r \in DOMAIN records, k \in S1apKinds :
            r # lastCall'.sub /\ records[r][k] # lastCall'.msg[k] =>
                records'[r][k] = records[r][k] ]_allVars
==============================================================================
