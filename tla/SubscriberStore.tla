--------------------------- MODULE SubscriberStore ---------------------------
(***************************************************************************)
(* The subscriber store of S1apUeCorrelator (src/s1ap_ue_correlator.cpp):  *)
(* subscriber records keyed by a numeric id, and one index per identifier  *)
(* kind from identifier value to record id.                                *)
(*                                                                         *)
(* A store value is a record [rec, idx, next] standing for the three       *)
(* members subscriber_records_, the six *_to_subscriber_id_ maps and       *)
(* next_subscriber_id_.  The C++ methods mutate the store in sequence      *)
(* inside one call; they are modelled as operators from a store value to a *)
(* store value, so that a public method is one atomic action composed of   *)
(* its callees in the order the code calls them.                           *)
(*                                                                         *)
(* Identifier values are model values; the code only compares them for     *)
(* equality (normalisation of the strings happens before the store sees    *)
(* them).  An absent index entry is 0, which the code never stores: record *)
(* ids start at 1.  Timestamps, GPS fields and the write-only auxiliary    *)
(* maps (imsi_to_teids_ ...) are left out: nothing reads them back.        *)
(***************************************************************************)
EXTENDS Naturals, FiniteSets, SequencesExt

CONSTANTS
    Imsis, Tmsis, Imeisvs,   \* stable identifier values
    MmeIds, EnbIds,          \* MME-UE-S1AP-ID and eNB-UE-S1AP-ID values
    Teids,                   \* GTP-U tunnel endpoint ids
    None,                    \* std::nullopt
    MaxSubscribers           \* bound on next_subscriber_id_ - 1

StableKinds == {"imsi", "tmsi", "imeisv"}
S1apKinds   == {"mme", "enb"}
Kinds       == StableKinds \cup S1apKinds

\* The values each identifier kind ranges over.
Vals == [imsi |-> Imsis, tmsi |-> Tmsis, imeisv |-> Imeisvs,
         mme |-> MmeIds, enb |-> EnbIds]

Opt(S) == S \cup {None}

\* struct SubscriberRecord, identifier fields only.
Record == [imsi : Opt(Imsis), tmsi : Opt(Tmsis), imeisv : Opt(Imeisvs),
           mme : Opt(MmeIds), enb : Opt(EnbIds), teids : SUBSET Teids]

EmptyRecord == [imsi |-> None, tmsi |-> None, imeisv |-> None,
                mme |-> None, enb |-> None, teids |-> {}]

Ids == 1..MaxSubscribers
IdOrZero == 0..MaxSubscribers

IndexType == [imsi : [Imsis -> IdOrZero], tmsi : [Tmsis -> IdOrZero],
              imeisv : [Imeisvs -> IdOrZero], mme : [MmeIds -> IdOrZero],
              enb : [EnbIds -> IdOrZero], teid : [Teids -> IdOrZero]]

EmptyIndex == [k \in Kinds \cup {"teid"} |->
                 [v \in IF k = "teid" THEN Teids ELSE Vals[k] |-> 0]]

\* The store right after the constructor: no records, next id 1.
InitStore == [rec |-> <<>>, idx |-> EmptyIndex, next |-> 1]

(***************************************************************************)
(* Lookups.                                                                *)
(***************************************************************************)

\* index.find(v) for an optional v: 0 when v is absent or not indexed.
Lookup(s, k, v) == IF v = None THEN 0 ELSE s.idx[k][v]

\* The record ids that exist.
RecIds(s) == DOMAIN s.rec

(***************************************************************************)
(* associateImsi / associateTmsi / associateImeisv: erase the record's own *)
(* previous value from the index, then set field and index.  There is no  *)
(* check whether the value is indexed to a different record.               *)
(***************************************************************************)
AssociateStable(s, p, r, k, v) ==
    LET old  == s.rec[p][k]
        idx1 == IF old # None THEN [s.idx[k] EXCEPT ![old] = 0] ELSE s.idx[k]
    IN  [s EXCEPT !.rec[p][k] = v, !.idx[k] = [idx1 EXCEPT ![v] = r]]

(***************************************************************************)
(* associateEnbUeS1apId / associateMmeUeS1apId: a record that holds the    *)
(* value under a different id loses the field; the record's own different *)
(* old value is erased from the index; then field and index are set.       *)
(***************************************************************************)
AssociateS1apNoConflict(s, p, r, k, v) ==
    LET old  == s.rec[p][k]
        idx1 == IF old # None /\ old # v THEN [s.idx[k] EXCEPT ![old] = 0]
                                         ELSE s.idx[k]
    IN  [s EXCEPT !.rec[p][k] = v, !.idx[k] = [idx1 EXCEPT ![v] = r]]

AssociateS1ap(s, p, r, k, v) ==
    LET other == s.idx[k][v]
        rec1  == IF other # 0 /\ other # r /\ other \in RecIds(s)
                 THEN [s.rec EXCEPT ![other][k] = None] ELSE s.rec
        old   == rec1[p][k]
        idx1  == IF old # None /\ old # v THEN [s.idx[k] EXCEPT ![old] = 0]
                                          ELSE s.idx[k]
    IN  [s EXCEPT !.rec = [rec1 EXCEPT ![p][k] = v],
                  !.idx[k] = [idx1 EXCEPT ![v] = r]]

(***************************************************************************)
(* associateTeid: the previous owner, if another record, loses the TEID    *)
(* from its set; the TEID joins this record's set and the index.           *)
(***************************************************************************)
AssociateTeidKeepOld(s, p, r, t) ==
    [s EXCEPT !.rec[p].teids = @ \cup {t}, !.idx.teid[t] = r]

AssociateTeid(s, p, r, t) ==
    LET old  == s.idx.teid[t]
        rec1 == IF old # 0 /\ old # r /\ old \in RecIds(s)
                THEN [s.rec EXCEPT ![old].teids = @ \ {t}] ELSE s.rec
    IN  [s EXCEPT !.rec = [rec1 EXCEPT ![p].teids = @ \cup {t}],
                  !.idx.teid[t] = r]

\* The loop `for (uint32_t teid : teids) associateTeid(...)`.
AssociateTeids(s, p, r, T) ==
    FoldSet(LAMBDA t, acc : AssociateTeid(acc, p, r, t), s, T)

(***************************************************************************)
(* remove*Association: when the value is indexed, clear the owning         *)
(* record's field (TEIDs: erase from the set) and erase the index entry.   *)
(***************************************************************************)
RemoveAssociation(s, k, v) ==
    LET r == s.idx[k][v]
    IN  IF r = 0 THEN s
        ELSE [s EXCEPT !.rec = IF r \in RecIds(s)
                                THEN [@ EXCEPT ![r][k] = None] ELSE @,
                       !.idx[k][v] = 0]

\* removeMme / removeEnb for an optional value, as the release path calls it.
RemoveIfPresent(s, k, v) == IF v = None THEN s ELSE RemoveAssociation(s, k, v)

\* `if (x.has_value()) associate...(subscriber, id, x.value())`.
StableIfPresent(s, p, r, k, v) == IF v = None THEN s ELSE AssociateStable(s, p, r, k, v)
S1apIfPresent(s, p, r, k, v)   == IF v = None THEN s ELSE AssociateS1ap(s, p, r, k, v)

(***************************************************************************)
(* getOrCreateSubscriber (lines 311-505).  `id` carries the six optional   *)
(* arguments.  Lookup order: IMSI, TMSI, IMEISV, both S1AP ids naming the  *)
(* same record, MME id, eNB id, TEID.                                      *)
(***************************************************************************)
Arguments == [imsi : Opt(Imsis), tmsi : Opt(Tmsis), imeisv : Opt(Imeisvs),
              mme : Opt(MmeIds), enb : Opt(EnbIds), teid : Opt(Teids)]

\* The arguments its one caller passes: Correlator::get_or_create_context
\* (ARCHITECTURE_FLOW.md line 523) never passes a TEID.
CallerArguments == {a \in Arguments : a.teid = None}

\* The first non-zero entry of a chain of lookups, or 0.
FirstFound(chain) ==
    LET i == SelectInSeq(chain, LAMBDA x : x # 0)
    IN  IF i = 0 THEN 0 ELSE chain[i]

BothS1ap(s, id) ==
    IF /\ id.mme # None /\ id.enb # None
       /\ Lookup(s, "mme", id.mme) # 0
       /\ Lookup(s, "mme", id.mme) = Lookup(s, "enb", id.enb)
    THEN Lookup(s, "mme", id.mme) ELSE 0

FindByIndexTmsiFirst(s, id) ==
    FirstFound(<<Lookup(s, "tmsi", id.tmsi), Lookup(s, "imsi", id.imsi),
                 Lookup(s, "imeisv", id.imeisv), BothS1ap(s, id),
                 Lookup(s, "mme", id.mme), Lookup(s, "enb", id.enb),
                 IF id.teid = None THEN 0 ELSE s.idx.teid[id.teid]>>)

FindByIndex(s, id) ==
    FirstFound(<<Lookup(s, "imsi", id.imsi), Lookup(s, "tmsi", id.tmsi),
                 Lookup(s, "imeisv", id.imeisv), BothS1ap(s, id),
                 Lookup(s, "mme", id.mme), Lookup(s, "enb", id.enb),
                 IF id.teid = None THEN 0 ELSE s.idx.teid[id.teid]>>)

\* The fallback applies to a call with S1AP ids and no stable identifier.
FallbackApplies(id) ==
    /\ id.imsi = None /\ id.tmsi = None /\ id.imeisv = None
    /\ (id.mme # None \/ id.enb # None)

\* Lines 387-457: the unique record whose fields hold the given S1AP ids
\* (two or more matches count as none); else the highest id among records
\* with an IMSI or a TMSI; else 0.
Fallback(s, id) ==
    LET byS1ap == {r \in RecIds(s) :
                     /\ id.mme = None \/ s.rec[r].mme = id.mme
                     /\ id.enb = None \/ s.rec[r].enb = id.enb
                     /\ s.rec[r].mme # None \/ s.rec[r].enb # None}
        stable == {r \in RecIds(s) : s.rec[r].imsi # None \/ s.rec[r].tmsi # None}
    IN  IF Cardinality(byS1ap) = 1 THEN CHOOSE r \in byS1ap : TRUE
        ELSE IF stable # {} THEN Max(stable) ELSE 0

Selected(s, id) ==
    LET f == FindByIndex(s, id)
    IN  IF f = 0 /\ FallbackApplies(id) THEN Fallback(s, id) ELSE f

\* `subscriber_id = next_subscriber_id_++`
NewIdPreIncrement(s) == s.next + 1

NewId(s) == s.next

\* Op applied to the value of e.  TLC evaluates e once here; a LET
\* definition is evaluated again at each use when TLC collects coverage,
\* which makes the chains of store updates below exponential.
AndThen(e, Op(_)) == CHOOSE v \in {Op(x) : x \in {e}} : TRUE

\* Returns [st |-> store after the call, sub |-> id of the returned record].
GetOrCreate(s, id) ==
    LET sel == Selected(s, id)
        r   == IF sel = 0 THEN NewId(s) ELSE sel
    IN  AndThen(IF sel = 0
                THEN [s EXCEPT !.rec = (r :> EmptyRecord) @@ @, !.next = @ + 1]
                ELSE s, LAMBDA s0 :
        AndThen(StableIfPresent(s0, r, r, "imsi", id.imsi), LAMBDA s1 :
        AndThen(StableIfPresent(s1, r, r, "tmsi", id.tmsi), LAMBDA s2 :
        AndThen(S1apIfPresent(s2, r, r, "enb", id.enb), LAMBDA s3 :
        AndThen(S1apIfPresent(s3, r, r, "mme", id.mme), LAMBDA s4 :
        AndThen(IF id.teid = None THEN s4 ELSE AssociateTeid(s4, r, r, id.teid), LAMBDA s5 :
                [st |-> StableIfPresent(s5, r, r, "imeisv", id.imeisv), sub |-> r]))))))

(***************************************************************************)
(* processS1apFrame (lines 47-231).  A frame is abstracted to the first    *)
(* IMSI, TMSI and IMEISV it carries (lines 125-127), its S1AP id pair, its *)
(* TEIDs, and whether it is a UEContextRelease successful outcome          *)
(* (procedure 23, line 205).                                               *)
(***************************************************************************)
FrameHasIds(m) ==
    \E k \in Kinds : m[k] # None

\* Lines 147-192: recompute the id from the indexes, then associate the
\* S1AP ids and every TEID of the frame to it.
FrameAssociate(s, p, m) ==
    LET sid == FirstFound(<<Lookup(s, "imsi", m.imsi), Lookup(s, "tmsi", m.tmsi),
                            Lookup(s, "imeisv", m.imeisv), Lookup(s, "mme", m.mme),
                            Lookup(s, "enb", m.enb)>>)
    IN  IF sid = 0 THEN s
        ELSE AssociateTeids(S1apIfPresent(S1apIfPresent(s, p, sid, "mme", m.mme),
                                          p, sid, "enb", m.enb), p, sid, m.teids)

\* Lines 205-222: on release, remove the frame's MME id, then its eNB id.
FrameRelease(s, m) ==
    IF m.release THEN RemoveIfPresent(RemoveIfPresent(s, "mme", m.mme), "enb", m.enb)
    ELSE s

FrameArguments(m) ==
    [imsi |-> m.imsi, tmsi |-> m.tmsi, imeisv |-> m.imeisv,
     mme |-> m.mme, enb |-> m.enb, teid |-> None]

ProcessS1apFrameReleaseFirst(s, m) ==
    IF ~FrameHasIds(m) THEN [st |-> s, sub |-> 0]
    ELSE AndThen(GetOrCreate(FrameRelease(s, m), FrameArguments(m)), LAMBDA g :
             [st |-> FrameAssociate(g.st, g.sub, m), sub |-> g.sub])

\* Returns [st, sub]; sub = 0 stands for the nullptr result.
ProcessS1apFrame(s, m) ==
    IF ~FrameHasIds(m) THEN [st |-> s, sub |-> 0]
    ELSE AndThen(GetOrCreate(s, FrameArguments(m)), LAMBDA g :
             [st |-> FrameRelease(FrameAssociate(g.st, g.sub, m), m), sub |-> g.sub])

-----------------------------------------------------------------------------
(***************************************************************************)
(* The store as a state machine: every public method of S1apUeCorrelator   *)
(* that changes the store is an action.  `released` is a history variable: *)
(* the S1AP id pair of the release frame processed by the last step, or    *)
(* None.                                                                   *)
(***************************************************************************)
VARIABLES records, index, nextId, released

vars == <<records, index, nextId, released>>

Store == [rec |-> records, idx |-> index, next |-> nextId]

\* Frames other than a release: any mix of identifiers.
UpdateFrames == [imsi : Opt(Imsis), tmsi : Opt(Tmsis), imeisv : Opt(Imeisvs),
                 mme : Opt(MmeIds), enb : Opt(EnbIds), teids : SUBSET Teids,
                 release : {FALSE}]

\* UEContextReleaseComplete carries the S1AP id pair and no NAS identity.
ReleaseFrames == [imsi : {None}, tmsi : {None}, imeisv : {None},
                  mme : MmeIds, enb : EnbIds, teids : {{}}, release : {TRUE}]

Frames == UpdateFrames \cup ReleaseFrames

\* A step may not allocate more than MaxSubscribers records.
WithinBound(s) == s.next <= MaxSubscribers + 1

SetStore(s) ==
    /\ records' = s.rec
    /\ index'   = s.idx
    /\ nextId'  = s.next

Init ==
    /\ records  = InitStore.rec
    /\ index    = InitStore.idx
    /\ nextId   = InitStore.next
    /\ released = None

ProcessFrame(m) ==
    LET f == ProcessS1apFrame(Store, m)
    IN  /\ WithinBound(f.st)
        /\ SetStore(f.st)
        /\ released' = IF m.release THEN [mme |-> m.mme, enb |-> m.enb] ELSE None

GetOrCreateSubscriber(id) ==
    LET g == GetOrCreate(Store, id)
    IN  /\ WithinBound(g.st)
        /\ SetStore(g.st)
        /\ released' = None

\* removeMmeUeS1apIdAssociation / removeEnbUeS1apIdAssociation as the UE
\* context layer calls them, with any value.  The removals of the other
\* kinds have no caller.
RemoveIdentifier(k, v) ==
    /\ SetStore(RemoveAssociation(Store, k, v))
    /\ released' = None

Next ==
    \/ \E m \in Frames : ProcessFrame(m)
    \/ \E id \in CallerArguments : GetOrCreateSubscriber(id)
    \/ \E k \in S1apKinds : \E v \in Vals[k] : RemoveIdentifier(k, v)

Spec == Init /\ [][Next]_vars

-----------------------------------------------------------------------------
(* Properties.                                                             *)

\* Records are numbered 1..next_subscriber_id_-1 and every index entry
\* names an id or is absent.
TypeOK ==
    /\ nextId \in 1..(MaxSubscribers + 1)
    /\ records \in [1..(nextId - 1) -> Record]
    /\ index \in IndexType
    /\ released \in {None} \cup [mme : MmeIds, enb : EnbIds]

\* The index of kind k and the records agree both ways: an indexed value is
\* held by the record it names, and a value a record holds is indexed to it.
IndexConsistent(k) ==
    /\ \A v \in Vals[k] : index[k][v] # 0 =>
           index[k][v] \in DOMAIN records /\ records[index[k][v]][k] = v
    /\ \A r \in DOMAIN records : records[r][k] # None =>
           index[k][records[r][k]] = r

\* The conflict handling of associateMmeUeS1apId / associateEnbUeS1apId
\* keeps each S1AP id on one record and its index consistent, across any
\* sequence of frames, lookups and removals (spec section 3).
S1apIndexConsistent == \A k \in S1apKinds : IndexConsistent(k)

\* associateTeid gives every TEID one owner: the record the TEID index names
\* holds the TEID in its set, and no other record does.
TeidOwnershipExclusive ==
    \A t \in Teids :
        /\ index.teid[t] # 0 => t \in records[index.teid[t]].teids
        /\ \A r \in DOMAIN records : t \in records[r].teids => index.teid[t] = r

\* processS1apFrame removes the S1AP ids of a UEContextReleaseComplete as
\* its last step: right after a release frame, neither id is indexed and no
\* record holds it.
ReleaseIsFinal ==
    released # None =>
        /\ index.mme[released.mme] = 0
        /\ index.enb[released.enb] = 0
        /\ \A r \in DOMAIN records : records[r].mme # released.mme
                                     /\ records[r].enb # released.enb

\* IMSI has the highest lookup priority: once indexed, an IMSI stays on its
\* record until removed; no frame or lookup moves it to another record.
ImsiNeverMigrates ==
    [][\A v \in Imsis : index.imsi[v] # 0 => index'.imsi[v] \in {0, index.imsi[v]}]_vars

\* Spec section 3: no two records hold the same IMSI, TMSI or IMEISV.
StableIdentityUnique ==
    \A k \in StableKinds : \A r1, r2 \in DOMAIN records :
        r1 # r2 /\ records[r1][k] # None => records[r1][k] # records[r2][k]
==============================================================================
