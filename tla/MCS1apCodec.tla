------------------------------ MODULE MCS1apCodec ------------------------------
(* Model-checking instance of S1apCodec.  The ids take one, two, three and *)
(* four octets in APER; IE values of 2, 100 and 130 bytes take the short   *)
(* and the two-byte length form, and a 130-byte value also makes the PDU   *)
(* header use the two-byte form.  E-RAB lists have one and two items, with *)
(* an IPv4 (32-bit) and an IPv6 (128-bit, two-byte form) address.  Frames  *)
(* cover IPv4 and IPv6 with an extension header, with and without VLAN tag *)
(* and a SACK chunk bundled before the DATA chunk.                         *)
EXTENDS S1apCodec

\* MME ids 5, 70000 and 0xC8270170; eNB ids 0, 4464 and 70000.
MCMmeIds == {None, <<5>>, <<1, 17, 112>>, <<200, 39, 1, 112>>}
MCEnbIds == {None, <<0>>, <<17, 112>>, <<1, 17, 112>>}

MCSTmsi == [mmec |-> 7, mtmsi |-> <<192, 1, 2, 3>>]
MCERab1 == [id |-> 5, bits |-> 32, teid |-> <<0, 0, 1, 0>>]
MCERab2 == [id |-> 6, bits |-> 128, teid |-> <<222, 173, 190, 239>>]

\* The IEs besides the ids: S-TMSI, E-RABSetupListCtxtSURes, others.
MCPayloads ==
    {[stmsi |-> None, erabs |-> <<>>, extra |-> <<>>],
     [stmsi |-> MCSTmsi, erabs |-> <<>>, extra |-> <<[id |-> 67, len |-> 100]>>],
     [stmsi |-> None, erabs |-> <<MCERab1>>,
      extra |-> <<[id |-> 100, len |-> 130], [id |-> 67, len |-> 2]>>],
     [stmsi |-> MCSTmsi, erabs |-> <<MCERab1, MCERab2>>, extra |-> <<>>]}

MCPdu(h, m, e, pair, x) ==
    [type |-> h[1], proc |-> h[2], mme |-> m, enb |-> e, pair |-> pair,
     stmsi |-> x.stmsi, erabs |-> x.erabs, extra |-> x.extra]

MCPdus ==
    {MCPdu(h, m, e, FALSE, x) :
        h \in {<<0, 12>>, <<2, 23>>}, m \in MCMmeIds, e \in MCEnbIds, x \in MCPayloads}

MCFramings ==
    {None,
     [vlan |-> FALSE, ip |-> "v4", ext |-> FALSE, sack |-> FALSE],
     [vlan |-> TRUE,  ip |-> "v6", ext |-> TRUE,  sack |-> TRUE],
     [vlan |-> FALSE, ip |-> "v6", ext |-> FALSE, sack |-> TRUE]}

MCNoPayload == [stmsi |-> None, erabs |-> <<>>, extra |-> <<>>]

\* MME UE S1AP ids 0, 70000 and 0x80011170, bare or in an IPv4 frame.
MCCollidingPdus ==
    {MCPdu(<<0, 12>>, m, None, FALSE, MCNoPayload) :
        m \in {<<0>>, <<1, 17, 112>>, <<128, 1, 17, 112>>}}
MCIdFramings == {None, [vlan |-> FALSE, ip |-> "v4", ext |-> FALSE, sack |-> FALSE]}

\* UEContextReleaseCommand (procedure 23) names its UE by UE-S1AP-IDs
\* only; MME id 0xC8270170 with eNB id 70000 or 5 with 4464.
MCPairPdus ==
    {MCPdu(<<0, 23>>, ids[1], ids[2], TRUE, MCNoPayload) :
        ids \in {<<<<200, 39, 1, 112>>, <<1, 17, 112>>>>, <<<<5>>, <<17, 112>>>>}}
==============================================================================
