----------------------------- MODULE HandoverSpec -----------------------------
(***************************************************************************)
(* The handover state machine spec section 4.3 gives every UEContext,      *)
(* driven by the message type, together with the context's lifetime        *)
(* (created on the first correlated message, destroyed on expiry).  A      *)
(* message is abstracted to its type, its ECGI and its target ECGI (None   *)
(* when absent); the current ECGI follows the ECGI a message carries.      *)
(***************************************************************************)
EXTENDS Naturals

CONSTANTS
    Msgs,       \* [type, ecgi, target, ...] records
    None,
    MaxTime

VARIABLES
    inProgress,  \* handover-in-progress flag
    start,       \* handover start timestamp, None before the first
    cell,        \* current ECGI
    source,      \* source ECGI (pre-handover)
    last,        \* last procedure, None before the first message
    now

hoVars == <<inProgress, start, cell, source, last, now>>

HoInit ==
    /\ inProgress = FALSE
    /\ start = None
    /\ cell = None
    /\ source = None
    /\ last = None
    /\ now = 0

\* The ECGI a message leaves current, and the one a handover advances to.
CellIn(m)   == IF m.ecgi # None THEN m.ecgi ELSE cell
Advance(m)  == IF m.target # None THEN m.target ELSE CellIn(m)

HoStep(m) ==
    /\ CASE m.type = "HandoverRequired" ->
              /\ inProgress' = TRUE
              /\ start' = now
              /\ source' = CellIn(m)
              /\ cell' = Advance(m)
         [] m.type = "HandoverCommand" ->
              /\ inProgress' = TRUE
              /\ start' = IF start = None THEN now ELSE start
              /\ source' = CellIn(m)
              /\ cell' = Advance(m)
         [] m.type = "HandoverNotify" ->
              /\ inProgress' = FALSE
              /\ cell' = Advance(m)
              /\ UNCHANGED <<start, source>>
         [] OTHER ->
              /\ cell' = CellIn(m)
              /\ UNCHANGED <<inProgress, start, source>>
    /\ last' = m.type
    /\ UNCHANGED now

\* Expiry destroys the context; a later message starts a fresh one.
HoExpire ==
    /\ inProgress' = FALSE
    /\ start' = None
    /\ cell' = None
    /\ source' = None
    /\ last' = None
    /\ UNCHANGED now

HoTick ==
    /\ now < MaxTime
    /\ now' = now + 1
    /\ UNCHANGED <<inProgress, start, cell, source, last>>

HoNext == (\E m \in Msgs : HoStep(m)) \/ HoExpire \/ HoTick

HoSpec == HoInit /\ [][HoNext]_hoVars
==============================================================================
