------------------------------- MODULE UEContext -------------------------------
(***************************************************************************)
(* UEContext (src/src/correlate/ue_context.cc, ue_context.h) and the way   *)
(* Correlator::get_or_create_context keeps one (src/ARCHITECTURE_FLOW.md,  *)
(* the repository's copy of correlator.cc).                                *)
(*                                                                         *)
(* Strings are model values and an empty string or an absent optional is   *)
(* None.  A canonical message is a record of the fields UEContext reads;   *)
(* mme_group_id and mme_code are set by no producer of canonical messages  *)
(* and are left out.  A subscriber key or composite key is the tuple of    *)
(* the parts the code concatenates.  system_clock::now() is `now`, in      *)
(* whole clock units.                                                      *)
(***************************************************************************)
EXTENDS Naturals

CONSTANTS
    Msgs,            \* canonical messages
    Records,         \* subscriber records the store hands the correlator
    None,
    ContextExpiry,   \* context_expiry, in clock units
    MaxTime

VARIABLES
    ctx,   \* the UEContext, or None while the correlator holds none
    now

ctxVars == <<ctx, now>>

IdFields   == {"imsi", "guti", "tmsi", "imei", "mme", "enb", "enbId", "mmeId"}
CellFields == {"ecgi", "target"}

\* A default-constructed UEContext (ue_context.h lines 24-58).
EmptyCtx ==
    [imsi |-> None, guti |-> None, tmsi |-> None, imei |-> None, mme |-> None,
     enb |-> None, enbId |-> None, mmeId |-> None, ecgi |-> None, target |-> None,
     source |-> None, lastProc |-> None, inProgress |-> FALSE, start |-> None,
     mmeKey |-> None, enbKey |-> None, tmsiKey |-> None, key |-> None, lastSeen |-> None]

\* Field f of m when the message carries it, else the context's value:
\* every `if (!msg.x().empty()) x = msg.x()` of update.
Overlay(c, m, fs) == [f \in DOMAIN c |-> IF f \in fs /\ m[f] # None THEN m[f] ELSE c[f]]

\* update_composite_keys (lines 187-208).
UpdateCompositeKeys(c) ==
    [c EXCEPT !.mmeKey  = IF c.mmeId # None /\ c.mme # None THEN <<c.mmeId, c.mme>> ELSE None,
              !.enbKey  = IF c.enbId # None /\ c.enb # None THEN <<c.enbId, c.enb>> ELSE None,
              !.tmsiKey = IF c.tmsi # None /\ c.ecgi # None THEN <<c.tmsi, c.ecgi>> ELSE None]

\* generate_subscriber_key (lines 125-158), in priority order.
GenerateSubscriberKey(c) ==
    CASE c.imsi # None                    -> <<"imsi", c.imsi>>
      [] c.guti # None                    -> <<"guti", c.guti>>
      [] c.tmsi # None /\ c.ecgi # None   -> <<"tmsi", c.tmsi, c.ecgi>>
      [] c.mmeId # None /\ c.mme # None   -> <<"mme", c.mmeId, c.mme>>
      [] c.enbId # None /\ c.enb # None   -> <<"enb", c.enbId, c.enb>>
      [] c.imei # None                    -> <<"imei", c.imei>>
      [] c.mme # None                     -> <<"mme", c.mme>>
      [] c.enb # None                     -> <<"enb", c.enb>>
      [] OTHER                            -> <<"unknown">>

\* The handover block of update (lines 91-120) on a context whose fields
\* the message has already updated.
HandoverUpdate(c, type, t) ==
    CASE type = "HandoverRequired" ->
            [c EXCEPT !.inProgress = TRUE, !.start = t, !.source = c.ecgi,
                      !.ecgi = IF c.target # None THEN c.target ELSE c.ecgi]
      [] type = "HandoverCommand" ->
            [c EXCEPT !.inProgress = TRUE, !.start = IF c.start = None THEN t ELSE c.start,
                      !.source = c.ecgi,
                      !.ecgi = IF c.target # None THEN c.target ELSE c.ecgi]
      [] type = "HandoverNotify" /\ c.inProgress ->
            [c EXCEPT !.inProgress = FALSE,
                      !.ecgi = IF c.target # None THEN c.target ELSE c.ecgi]
      [] OTHER -> c

\* UEContext::update (lines 34-123): identifiers and cells from the
\* message, last_procedure and last_seen, the composite keys, then the
\* handover block, then the subscriber key.
Update(c, m, t) ==
    LET c1 == [Overlay(c, m, IdFields \cup CellFields) EXCEPT !.lastProc = m.type, !.lastSeen = t]
        c2 == HandoverUpdate(UpdateCompositeKeys(c1), m.type, t)
    IN  [c2 EXCEPT !.key = GenerateSubscriberKey(c2)]

\* matches_stable_identity (lines 160-179).
MatchesStableIdentity(a, b) ==
    \E f \in {"imsi", "guti", "imei"} : a[f] # None /\ a[f] = b[f]

\* is_expired (lines 181-185).
IsExpired(c, t) == t - c.lastSeen > ContextExpiry

(***************************************************************************)
(* Correlator::update_context_from_subscriber (ARCHITECTURE_FLOW.md lines  *)
(* 608-669) on the context side: the record's identifiers, the message's   *)
(* cells, GUTI and network element ids, last_procedure, last_seen, the     *)
(* composite keys, and on UEContextReleaseComplete the S1AP ids dropped.   *)
(* The store side of the release is modelled in Correlator.               *)
(***************************************************************************)
FromSubscriber(c, rec, m, t) ==
    LET c1 == [c EXCEPT !.imsi = IF rec.imsi # None THEN rec.imsi ELSE @,
                        !.tmsi = IF rec.tmsi # None THEN rec.tmsi ELSE @,
                        !.mme  = IF rec.mme # None THEN rec.mme ELSE @,
                        !.enb  = IF rec.enb # None THEN rec.enb ELSE @,
                        !.imei = IF rec.imeisv # None THEN rec.imeisv ELSE @]
        c2 == [Overlay(c1, m, CellFields \cup {"guti", "mmeId", "enbId"})
                  EXCEPT !.lastProc = m.type, !.lastSeen = t]
        c3 == UpdateCompositeKeys(c2)
    IN  IF m.type = "UEContextReleaseComplete" THEN [c3 EXCEPT !.mme = None, !.enb = None]
        ELSE c3

Tick ==
    /\ now < MaxTime
    /\ now' = now + 1
    /\ UNCHANGED ctx

-----------------------------------------------------------------------------
(* The class as its own tests drive it: update on one context, message     *)
(* after message (tests/test_ue_context.cc).                               *)

ClassInit ==
    /\ ctx = EmptyCtx
    /\ now = 0

ClassUpdate ==
    /\ \E m \in Msgs : ctx' = Update(ctx, m, now)
    /\ UNCHANGED now

ClassSpec == ClassInit /\ [][ClassUpdate \/ Tick]_ctxVars

-----------------------------------------------------------------------------
(* One UE's context as get_or_create_context keeps it.  Every message      *)
(* that carries an identifier reaches a subscriber record (lines 481-527), *)
(* so the context is created and updated by update_context_from_subscriber *)
(* (lines 594-605 and 575-591); a release creates none (lines 594-598);    *)
(* cleanup_expired (lines 684-695) erases an expired one.                  *)

CorrInit ==
    /\ ctx = None
    /\ now = 0

CreateContext ==
    /\ ctx = None
    /\ \E rec \in Records, m \in Msgs :
           /\ m.type # "UEContextReleaseComplete"
           /\ ctx' = FromSubscriber(EmptyCtx, rec, m, now)
    /\ UNCHANGED now

UpdateContext ==
    /\ ctx # None
    /\ \E rec \in Records, m \in Msgs : ctx' = FromSubscriber(ctx, rec, m, now)
    /\ UNCHANGED now

CleanupExpired ==
    /\ ctx # None
    /\ IsExpired(ctx, now)
    /\ ctx' = None
    /\ UNCHANGED now

CorrLifecycleSpec ==
    CorrInit /\ [][CreateContext \/ UpdateContext \/ CleanupExpired \/ Tick]_ctxVars

-----------------------------------------------------------------------------
(* Properties.                                                             *)

\* The state of the spec's handover machine the context stands for; no
\* context is the state of a fresh one.
Field(f, dflt) == IF ctx = None THEN dflt ELSE ctx[f]

HO == INSTANCE HandoverSpec WITH
        inProgress <- Field("inProgress", FALSE), start <- Field("start", None),
        cell <- Field("ecgi", None), source <- Field("source", None),
        last <- Field("lastProc", None)

\* Spec section 4.3: every UEContext follows the handover state machine:
\* HandoverRequired and HandoverCommand mark a handover in progress, keep
\* the pre-handover cell as source and move to the target the message
\* names, HandoverNotify ends it; other messages leave the flags alone.
HandoverRefinement == HO!HoSpec
==============================================================================
