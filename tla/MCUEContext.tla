---------------------------- MODULE MCUEContext ----------------------------
EXTENDS UEContext, TLC

CONSTANTS c1, c2, i1, u1, n1, e1

MsgTypes == {"HandoverRequired", "HandoverCommand", "HandoverNotify",
             "InitialUEMessage", "UEContextReleaseComplete"}

\* A canonical message that carries no identifier of its own; the
\* identifiers reach the context from the subscriber record.
Msg(type, ecgi, target) ==
    [type |-> type, ecgi |-> ecgi, target |-> target, imsi |-> None, guti |-> None,
     tmsi |-> None, imei |-> None, mme |-> None, enb |-> u1, enbId |-> e1, mmeId |-> None]

\* What the decoder produces: HandoverRequired and HandoverCommand carry
\* no EUTRAN-CGI, HandoverNotify and InitialUEMessage carry one, and no
\* message carries a target ECGI (s1ap_parser.cpp lines 2504-2530).
MCMsgs ==
    {Msg(t, None, None) : t \in {"HandoverRequired", "HandoverCommand", "UEContextReleaseComplete"}}
    \cup {Msg(t, c, None) : t \in {"HandoverNotify", "InitialUEMessage"}, c \in {c1, c2}}

\* Messages as the class's tests build them, target ECGI included.
MCTargetMsgs ==
    {Msg(t, None, c) : t \in {"HandoverRequired", "HandoverCommand"}, c \in {None, c2}}
    \cup {Msg(t, c, None) : t \in {"HandoverNotify", "InitialUEMessage"}, c \in {c1, c2}}

MCRecords == {[imsi |-> i1, tmsi |-> None, mme |-> n1, enb |-> u1, imeisv |-> None]}
==============================================================================
