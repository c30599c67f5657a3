------------------------------- MODULE S1apCodec -------------------------------
(***************************************************************************)
(* The S1AP decoder the processor runs on every spooled record             *)
(* (RealS1APDecoder::decode, src/src/s1ap_parser.cpp lines 2388-2557):     *)
(* extractS1apFromSctp (lines 30-154) strips Ethernet/IP/SCTP framing when *)
(* the raw bytes are a captured frame, parseS1apPdu (lines 631-909) walks  *)
(* the APER header and the protocol IEs, and the S1AP ids are read from    *)
(* the IE map.                                                             *)
(*                                                                         *)
(* Bytes are naturals 0..255 and a buffer is a sequence of them; the C++   *)
(* index i is position i + 1.  An IE value is kept as its bytes: the code  *)
(* stores it as a hex string and every reader converts it back, so the     *)
(* string is a faithful encoding of the bytes.  getIeNameFromId (lines     *)
(* 406-577) gives every id a distinct name, so the IE map is keyed by id.  *)
(*                                                                         *)
(* The encoders below are the reference: APER as TS 36.413/X.691 and spec  *)
(* section 4.1.1 describe it, and SCTP/IP framing.  They are not code of   *)
(* this repository.                                                        *)
(***************************************************************************)
EXTENDS Naturals, Sequences, SequencesExt

CONSTANTS
    None,       \* absent value
    Pdus,       \* PDU descriptors the decoder may be given
    Framings    \* framings a PDU may arrive in (None for a bare PDU)

At(b, i)  == b[i + 1]
U16(b, i) == At(b, i) * 256 + At(b, i + 1)

\* Big-endian value of a byte sequence, as std::stoul reads the hex string.
BE(b) == FoldLeft(LAMBDA acc, x : acc * 256 + x, 0, b)

\* The map m with key k set to v.
SetKey(m, k, v) == [x \in DOMAIN m \cup {k} |-> IF x = k THEN v ELSE m[x]]

Zeros(n) == [i \in 1..n |-> 0]

\* A uint32_t is kept as its four big-endian octets (TLC's integers stop
\* at 2^31 - 1): the value of b modulo 2^32 is that of its last 4 bytes.
Uint32(b) ==
    IF Len(b) >= 4 THEN SubSeq(b, Len(b) - 3, Len(b)) ELSE Zeros(4 - Len(b)) \o b

-----------------------------------------------------------------------------
(***************************************************************************)
(* extractS1apFromSctp (lines 30-154).                                     *)
(***************************************************************************)
EtherVlan == {33024, 34984}     \* 0x8100, 0x88A8
EtherIpv4 == 2048               \* 0x0800
EtherIpv6 == 34525              \* 0x86DD
IpProtoSctp == 132

\* Lines 81-97: follow at most 8 IPv6 extension headers (next header 0,
\* 43, 44, 60).  Returns [proto, off], or None when a header is truncated.
RECURSIVE Ipv6Ext(_, _, _, _)
Ipv6Ext(p, proto, off, n) ==
    IF proto = IpProtoSctp \/ n >= 8 \/ off >= Len(p) \/ proto \notin {0, 43, 44, 60}
    THEN [proto |-> proto, off |-> off]
    ELSE IF Len(p) < off + 8 THEN None
    ELSE LET hl == (At(p, off + 1) + 1) * 8
         IN  IF Len(p) < off + hl THEN None
             ELSE Ipv6Ext(p, At(p, off), off + hl, n + 1)

\* Lines 56-100: the IP layer at offset off for ether type et.
IpLayer(p, et, off) ==
    CASE et = EtherIpv4 ->
            IF Len(p) < off + 20 \/ At(p, off) \div 16 # 4 THEN None
            ELSE LET ihl == (At(p, off) % 16) * 4
                 IN  IF Len(p) < off + ihl THEN None
                     ELSE [proto |-> At(p, off + 9), off |-> off + ihl]
      [] et = EtherIpv6 ->
            IF Len(p) < off + 40 \/ At(p, off) \div 16 # 6 THEN None
            ELSE Ipv6Ext(p, At(p, off + 6), off + 40, 0)
      [] OTHER -> None

\* The 32-bit payload protocol id is 18 (S1AP).
IsS1apPpid(p, off) == U16(p, off + 12) = 0 /\ U16(p, off + 14) = 18

\* Lines 116-151: walk the chunks; the first DATA chunk decides.  A DATA
\* chunk whose payload protocol id is not 18 ends the search with nothing.
RECURSIVE FirstDataChunk(_, _)
FirstDataChunk(p, off) ==
    IF off + 4 > Len(p) THEN None
    ELSE LET cl == U16(p, off + 2)
             isData == At(p, off) = 0 /\ cl >= 16
         IN  CASE cl < 4 \/ off + cl > Len(p)                -> None
               [] isData /\ ~IsS1apPpid(p, off)          -> None
               [] isData /\ cl > 16                          -> SubSeq(p, off + 17, off + cl)
               [] OTHER -> FirstDataChunk(p, off + cl + ((4 - (cl % 4)) % 4))

ExtractS1apFromSctp(p) ==
    IF Len(p) < 14 THEN None
    ELSE LET et0  == U16(p, 12)
             vlan == et0 \in EtherVlan /\ Len(p) >= 18
             ip   == IpLayer(p, IF vlan THEN U16(p, 16) ELSE et0, IF vlan THEN 18 ELSE 14)
         IN  IF ip = None \/ ip.proto # IpProtoSctp \/ Len(p) < ip.off + 12 THEN None
             ELSE FirstDataChunk(p, ip.off + 12)

-----------------------------------------------------------------------------
(***************************************************************************)
(* parseS1apPdu (lines 631-909).  Returns [decoded, type, proc, ies].      *)
(* Three reads may fall one byte past the buffer (lines 737, 744 and 805   *)
(* on a truncated PDU); in each case the next bound check stops before the *)
(* byte is used, so the result does not depend on it.                      *)
(***************************************************************************)
\* Mutant: the short form masked with 0x3F, as for a two-bit prefix.
ValueLengthMasked(b, off) ==
    LET lb == At(b, off)
    IN  IF lb < 128 THEN [len |-> lb % 64, start |-> off + 1]
        ELSE LET n == (lb - 128) + 1
             IN  IF n > 4 \/ off + 1 + n > Len(b) THEN None
                 ELSE [len |-> BE(SubSeq(b, off + 2, off + 1 + n)), start |-> off + 1 + n]

\* Lines 829-853: the OPEN TYPE length at offset off.  The extended form
\* takes (b & 0x7F) + 1 length bytes starting after the first one.
\* Returns [len, start] or None when the loop breaks.
ValueLength(b, off) ==
    LET lb == At(b, off)
    IN  IF lb < 128 THEN [len |-> lb, start |-> off + 1]
        ELSE LET n == (lb - 128) + 1
             IN  IF n > 4 \/ off + 1 + n > Len(b) THEN None
                 ELSE [len |-> BE(SubSeq(b, off + 2, off + 1 + n)), start |-> off + 1 + n]

\* Lines 780-903: up to n IEs from offset off; a later IE of the same id
\* replaces an earlier one (information_elements[ie_name] = ...).
RECURSIVE ParseIes(_, _, _, _)
ParseIes(b, off, n, ies) ==
    IF n = 0 \/ off + 3 >= Len(b) THEN ies
    ELSE LET v == ValueLength(b, off + 3)
         IN  IF v = None \/ v.start + v.len > Len(b) THEN ies
             ELSE ParseIes(b, v.start + v.len, n - 1,
                           SetKey(ies, U16(b, off), SubSeq(b, v.start + 1, v.start + v.len)))

NotDecoded == [decoded |-> FALSE, type |-> 0, proc |-> 0, ies |-> <<>>]

\* Lines 631-779: CHOICE index in bits 5-6 of the first byte, procedure
\* code, criticality, then the SEQUENCE OF count: the low byte at 6
\* (short length form) or 7 (extended form), the IEs following it.
ParseS1apPdu(b) ==
    LET choice == (At(b, 0) \div 32) % 4
        hdr    == [decoded |-> TRUE, type |-> choice, proc |-> At(b, 1), ies |-> <<>>]
        first  == IF At(b, 3) < 128 THEN 6 ELSE 7
    IN  CASE Len(b) < 1 \/ choice > 2 \/ Len(b) < 2 -> NotDecoded
          [] Len(b) < 4                             -> hdr
          [] OTHER -> [hdr EXCEPT !.ies = IF first >= Len(b) THEN <<>>
                                          ELSE ParseIes(b, first + 1, At(b, first), <<>>)]

-----------------------------------------------------------------------------
(***************************************************************************)
(* RealS1APDecoder::decode (lines 2388-2458): the canonical message's       *)
(* procedure, PDU type and S1AP ids.                                       *)
(***************************************************************************)
IeMmeUeS1apId == 0
IeEnbUeS1apId == 8

\* Mutant: the value kept whole, without the cast to uint32_t.
IdFromIeNoCast(ies, id) ==
    IF id \notin DOMAIN ies \/ Len(ies[id]) = 0 \/ Len(ies[id]) > 8 THEN None
    ELSE IF Len(ies[id]) > 4 THEN ies[id] ELSE Uint32(ies[id])

\* Mutant: strings of more than 8 hex digits rejected as out of range.
IdFromIeEightDigits(ies, id) ==
    IF id \notin DOMAIN ies \/ Len(ies[id]) = 0 \/ Len(ies[id]) > 4 THEN None
    ELSE Uint32(ies[id])

\* Lines 2434-2458: std::stoul of the hex string, cast to uint32_t.  An
\* empty string, or one longer than 16 hex digits, throws and is ignored.
IdFromIe(ies, id) ==
    IF id \notin DOMAIN ies \/ Len(ies[id]) = 0 \/ Len(ies[id]) > 8 THEN None
    ELSE Uint32(ies[id])

IeUeS1apIds == 99
IeSTmsi     == 96
IeERabSetupListCtxtSURes == 51

-----------------------------------------------------------------------------
(***************************************************************************)
(* decodeERabSetupListCtxtSURes (lines 1002-1259): the SEQUENCE OF count   *)
(* less one in a short-form byte (else the extended form), then per item   *)
(* a ProtocolIE-Field: id, criticality, OPEN TYPE length, and the value    *)
(* e-RAB-ID (one byte), transportLayerAddress (length in bits, then the    *)
(* bytes), gTP-TEID (4 bytes); bytes left in the item are extensions.      *)
(***************************************************************************)
\* Lines 1155-1189: the bit-length determinant at off, within item end lim.
BitLength(v, off, lim) ==
    LET lb == At(v, off)
    IN  IF lb < 128 THEN [len |-> lb, start |-> off + 1]
        ELSE LET n == (lb - 128) + 1
             IN  IF n > 4 \/ off + 1 + n > lim THEN None
                 ELSE [len |-> BE(SubSeq(v, off + 2, off + 1 + n)), start |-> off + 1 + n]

\* Lines 1140-1236: the TEID of the item value v[p+1..lim], or None.
ERabItemTeid(v, p, lim) ==
    IF p + 1 >= lim THEN None
    ELSE LET a == BitLength(v, p + 1, lim)
         IN  IF a = None THEN None
             ELSE LET t == a.start + (a.len + 7) \div 8
                  IN  IF t + 4 > lim THEN None ELSE SubSeq(v, t + 1, t + 4)

\* Lines 1069-1254: up to n items from off; the loop breaks at the first
\* item that does not fit.  An item's extensions are skipped (line 1249).
RECURSIVE ERabItems(_, _, _, _)
ERabItems(v, off, n, teids) ==
    IF n = 0 \/ off + 3 >= Len(v) THEN teids
    ELSE LET l == ValueLength(v, off + 3)
         IN  IF l = None \/ l.start + l.len > Len(v) THEN teids
             ELSE LET teid == ERabItemTeid(v, l.start, l.start + l.len)
                  IN  IF teid = None THEN teids
                      ELSE ERabItems(v, l.start + l.len, n - 1, Append(teids, teid))

\* Mutant: the count byte read as the count itself, not the count less one.
DecodeERabSetupListCountAsIs(v) ==
    LET cnt == IF At(v, 0) < 128 THEN [len |-> At(v, 0), start |-> 1]
               ELSE BitLength(v, 0, Len(v))
        items == ERabItems(v, cnt.start, cnt.len, <<>>)
    IN  IF Len(v) < 1 \/ cnt = None THEN [decoded |-> FALSE, teids |-> <<>>]
        ELSE [decoded |-> Len(items) = cnt.len, teids |-> items]

\* Lines 1002-1068 and 1256: decoded only when every item was.
DecodeERabSetupList(v) ==
    LET cnt == IF At(v, 0) < 128 THEN [len |-> 1 + At(v, 0), start |-> 1]
               ELSE BitLength(v, 0, Len(v))
        items == ERabItems(v, cnt.start, cnt.len, <<>>)
    IN  IF Len(v) < 1 \/ cnt = None THEN [decoded |-> FALSE, teids |-> <<>>]
        ELSE [decoded |-> Len(items) = cnt.len, teids |-> items]

\* extractTmsiFromIEList (lines 1278-1333): the last 4 bytes of an S-TMSI
\* value of at least 5 bytes are the m-TMSI (as 8 hex digits).
TmsiFromIeList(ies) ==
    IF IeSTmsi \notin DOMAIN ies \/ Len(ies[IeSTmsi]) < 5 THEN None
    ELSE SubSeq(ies[IeSTmsi], Len(ies[IeSTmsi]) - 3, Len(ies[IeSTmsi]))

\* extractTmsisFromS1ap (lines 1432-1445 and 1647-1664): the TMSI of the
\* S-TMSI IE and the TEIDs of a fully decoded E-RABSetupListCtxtSURes.
\* The NAS-PDU and E-RABToBeSetupListCtxtSUReq paths hand bytes to the NAS
\* parser; the PDUs below carry neither IE.
ExtractTmsisFromS1ap(ies) ==
    LET l == IF IeERabSetupListCtxtSURes \in DOMAIN ies /\ Len(ies[IeERabSetupListCtxtSURes]) > 0
             THEN DecodeERabSetupList(ies[IeERabSetupListCtxtSURes])
             ELSE [decoded |-> FALSE, teids |-> <<>>]
    IN  [tmsi |-> TmsiFromIeList(ies), teids |-> IF l.decoded THEN l.teids ELSE <<>>]

\* s1ap_parser::extractS1apIds (lines 1736-1842), the reader
\* processS1apFrame uses (s1ap_ue_correlator.cpp line 80): a UE-S1AP-IDs
\* value of at least 8 bytes gives both ids as two 4-byte big-endian
\* words (hexToBytes, lines 1265-1274, undoes the hex string); an id it
\* does not give is read from its own IE as decode reads it.
ExtractS1apIds(ies) ==
    LET pair == IeUeS1apIds \in DOMAIN ies /\ Len(ies[IeUeS1apIds]) >= 8
    IN  [mme |-> IF pair THEN SubSeq(ies[IeUeS1apIds], 1, 4) ELSE IdFromIe(ies, IeMmeUeS1apId),
         enb |-> IF pair THEN SubSeq(ies[IeUeS1apIds], 5, 8) ELSE IdFromIe(ies, IeEnbUeS1apId)]

\* Lines 2397-2405: the SCTP payload when there is one, else the raw bytes.
S1apBytes(raw) ==
    LET sctp == ExtractS1apFromSctp(raw) IN IF sctp # None THEN sctp ELSE raw

\* Lines 2391-2458 for raw bytes whose S1AP part parsed to r.
Canonical(raw, r) ==
    IF raw = <<>> \/ ~r.decoded
        THEN [failed |-> TRUE, type |-> 0, proc |-> 0, ies |-> <<>>, mme |-> None, enb |-> None]
        ELSE [failed |-> FALSE, type |-> r.type, proc |-> r.proc, ies |-> r.ies,
              mme |-> IdFromIe(r.ies, IeMmeUeS1apId), enb |-> IdFromIe(r.ies, IeEnbUeS1apId)]

-----------------------------------------------------------------------------
(***************************************************************************)
(* Reference encoders.  A PDU descriptor gives the PDU type, procedure     *)
(* code, the MME and eNB UE S1AP ids it carries (or None) and further IEs  *)
(* by id and value length, in the order S1AP messages list them.  A        *)
(* framing gives the frame a PDU is captured in, or None for a bare PDU.   *)
(***************************************************************************)
Filler(n) == [i \in 1..n |-> i % 256]

\* Length determinant: one byte below 128, else 10xxxxxx xxxxxxxx.
LengthDet(n) == IF n < 128 THEN <<n>> ELSE <<128 + n \div 256, n % 256>>

\* A constrained INTEGER with a range above 64K: the octet count less one
\* in the top two bits of a byte, then the value in that many octets.
\* An id is given by its octets, the first one not zero unless it is alone.
AperUnsigned(octets) == <<(Len(octets) - 1) * 64>> \o octets

\* UE-S1AP-IDs, CHOICE uE-S1AP-ID-pair: two preamble bits of the CHOICE
\* and two of the SEQUENCE, the MME id's octet count less one in two bits,
\* alignment; then the eNB id's count in two bits, alignment.
UeS1apIdPair(mme, enb) ==
    <<(Len(mme) - 1) * 4>> \o mme \o <<(Len(enb) - 1) * 64>> \o enb

\* S-TMSI: two preamble bits, the 1-octet mMEC unaligned, alignment, the
\* 4-octet m-TMSI.
STmsiValue(st) == <<st.mmec \div 4, (st.mmec % 4) * 64>> \o st.mtmsi

\* E-RABSetupItemCtxtSURes in the layout of spec 4.1.3, and the list of
\* ProtocolIE-SingleContainers (id 50) with the count less one in front.
ERabItem(e) == <<e.id>> \o LengthDet(e.bits) \o Filler((e.bits + 7) \div 8) \o e.teid
ERabList(es) ==
    <<Len(es) - 1>> \o FlattenSeq([i \in 1..Len(es) |->
        <<0, 50, 0>> \o LengthDet(Len(ERabItem(es[i]))) \o ERabItem(es[i])])

IdIes(p) ==
    IF p.pair
    THEN <<[id |-> IeUeS1apIds, val |-> UeS1apIdPair(p.mme, p.enb)]>>
    ELSE (IF p.mme = None THEN <<>> ELSE <<[id |-> IeMmeUeS1apId, val |-> AperUnsigned(p.mme)]>>)
         \o (IF p.enb = None THEN <<>> ELSE <<[id |-> IeEnbUeS1apId, val |-> AperUnsigned(p.enb)]>>)

IeList(p) ==
    IdIes(p)
    \o (IF p.stmsi = None THEN <<>> ELSE <<[id |-> IeSTmsi, val |-> STmsiValue(p.stmsi)]>>)
    \o (IF p.erabs = <<>> THEN <<>>
        ELSE <<[id |-> IeERabSetupListCtxtSURes, val |-> ERabList(p.erabs)]>>)
    \o [i \in 1..Len(p.extra) |-> [id |-> p.extra[i].id, val |-> Filler(p.extra[i].len)]]

EncodeIe(ie) == <<ie.id \div 256, ie.id % 256, 0>> \o LengthDet(Len(ie.val)) \o ie.val

EncodePdu(p) ==
    LET ies  == IeList(p)
        body == <<0, Len(ies) \div 256, Len(ies) % 256>>
                \o FlattenSeq([i \in 1..Len(ies) |-> EncodeIe(ies[i])])
    IN  <<p.type * 32, p.proc, 0>> \o LengthDet(Len(body)) \o body

\* The IE map the PDU carries: a later IE of an id replaces an earlier one.
ExpectedIes(p) == FoldLeft(LAMBDA m, ie : SetKey(m, ie.id, ie.val), <<>>, IeList(p))

\* The TMSI and TEIDs the PDU gives the subscriber store.
ExpectedStore(p) ==
    [tmsi  |-> IF p.stmsi = None THEN None ELSE p.stmsi.mtmsi,
     teids |-> [i \in 1..Len(p.erabs) |-> p.erabs[i].teid]]

DataChunk(pdu) ==
    LET cl == 16 + Len(pdu)
    IN  <<0, 3, cl \div 256, cl % 256>> \o Zeros(8) \o <<0, 0, 0, 18>> \o pdu
        \o Zeros((4 - (cl % 4)) % 4)

SackChunk == <<3, 0, 0, 16>> \o Zeros(12)

Frame(f, pdu) ==
    LET sctp == Zeros(12) \o (IF f.sack THEN SackChunk ELSE <<>>) \o DataChunk(pdu)
        ip   == IF f.ip = "v4"
                THEN <<69, 0, 0, 0, 0, 0, 0, 0, 64, IpProtoSctp>> \o Zeros(10)
                ELSE <<96, 0, 0, 0, 0, 0, IF f.ext THEN 0 ELSE IpProtoSctp, 64>> \o Zeros(32)
                     \o (IF f.ext THEN <<IpProtoSctp, 0>> \o Zeros(6) ELSE <<>>)
        eth  == Zeros(12) \o (IF f.vlan THEN <<129, 0, 0, 100>> ELSE <<>>)
                \o (IF f.ip = "v4" THEN <<8, 0>> ELSE <<134, 221>>)
    IN  eth \o ip \o sctp

Raw(p, f) == IF f = None THEN EncodePdu(p) ELSE Frame(f, EncodePdu(p))

-----------------------------------------------------------------------------
(***************************************************************************)
(* The decoder as the processor runs it: one record after another, each    *)
(* decoded on its own (process_message, part_010 lines 184-199).  `input`  *)
(* is the descriptor of the record last decoded, `out` its canonical      *)
(* message and `store` what processS1apFrame reads from the same frame    *)
(* for the subscriber store: S1AP ids, TMSI and TEIDs.                    *)
(***************************************************************************)
VARIABLES input, out, store

codecVars == <<input, out, store>>

CodecInit ==
    /\ input = None
    /\ out = None
    /\ store = None

DecodeRecord ==
    \E p \in Pdus, f \in Framings :
        LET raw == Raw(p, f)
        IN  \E r \in {ParseS1apPdu(S1apBytes(raw))} :
                /\ input' = [pdu |-> p, framing |-> f]
                /\ out' = Canonical(raw, r)
                /\ store' = LET ids == ExtractS1apIds(r.ies)
                                 tt  == ExtractTmsisFromS1ap(r.ies)
                             IN  [mme |-> ids.mme, enb |-> ids.enb, tmsi |-> tt.tmsi, teids |-> tt.teids]

CodecSpec == CodecInit /\ [][DecodeRecord]_codecVars

-----------------------------------------------------------------------------
(* Properties.                                                             *)

CodecTypeOK ==
    /\ input \in {None} \cup [pdu : Pdus, framing : Framings]
    /\ out = None \/ /\ out.failed \in BOOLEAN
                     /\ out.mme \in {None} \cup [1..4 -> 0..255]
                     /\ out.enb \in {None} \cup [1..4 -> 0..255]
    /\ store = None \/ /\ DOMAIN store = {"mme", "enb", "tmsi", "teids"}
                       /\ \A k \in {"mme", "enb", "tmsi"} : store[k] \in {None} \cup [1..4 -> 0..255]
                       /\ store.teids \in Seq([1..4 -> 0..255])

\* Spec 4.1.1: a well-formed S1AP PDU, bare or in an SCTP DATA chunk of an
\* S1 association, decodes to its PDU type, procedure code and every IE
\* with its value bytes (parseS1apPdu and extractS1apFromSctp).
DecodeRecoversPdu ==
    input # None =>
        /\ ~out.failed
        /\ out.type = input.pdu.type
        /\ out.proc = input.pdu.proc
        /\ out.ies = ExpectedIes(input.pdu)

\* The key the correlator takes from a decoded id: 0 counts as absent
\* (ARCHITECTURE_FLOW.md lines 333-343 and 391-413).
IdKey(v) == IF v \in {None, Zeros(4)} THEN None ELSE v

\* The correlator tells UEs apart by these ids, so a record that carries
\* a nonzero id in its own IE always yields it (a 0 in the protobuf field
\* reads as unset), and the same id yields the same value whatever the
\* framing, the procedure and the other IEs (RealS1APDecoder::decode).
S1apIdsStable ==
    [][ input # None /\ input' # None =>
        \A k \in {"mme", "enb"} :
            /\ input'.pdu[k] \notin {None, <<0>>} /\ ~input'.pdu.pair => IdKey(out'[k]) # None
            /\ input.pdu[k] # None /\ input.pdu[k] = input'.pdu[k] => out[k] = out'[k] ]_codecVars

\* Two records that carry different MME (or eNB) UE S1AP ids reach the
\* correlator with different ids, and a carried id is never lost: the
\* hex-to-integer conversion in RealS1APDecoder::decode keeps UEs apart.
S1apIdsDistinguishUes ==
    [][ input # None /\ input' # None =>
        \A k \in {"mme", "enb"} :
            /\ input'.pdu[k] # None => IdKey(out'[k]) # None
            /\ input.pdu[k] # None /\ input'.pdu[k] # None /\ input.pdu[k] # input'.pdu[k]
                => IdKey(out[k]) # IdKey(out'[k]) ]_codecVars

\* The canonical message and the subscriber store see the same S1AP ids
\* for a frame: RealS1APDecoder::decode reads MME-UE-S1AP-ID and
\* eNB-UE-S1AP-ID, processS1apFrame reads them through extractS1apIds,
\* which prefers UE-S1AP-IDs (spec 4.1.2).
S1apReadersAgree ==
    input # None => store.mme = out.mme /\ store.enb = out.enb

\* Spec 4.1.2-4.1.3: the subscriber store receives the m-TMSI of the
\* S-TMSI IE and the gTP-TEID of every E-RAB item of
\* E-RABSetupListCtxtSURes, in order (extractTmsisFromS1ap,
\* decodeERabSetupListCtxtSURes).
StoreGetsTmsiAndTeids ==
    input # None =>
        /\ store.tmsi = ExpectedStore(input.pdu).tmsi
        /\ store.teids = ExpectedStore(input.pdu).teids
==============================================================================
