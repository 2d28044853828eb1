------------------------------ MODULE SchcCodec ------------------------------
(***************************************************************************)
(* The SCHC codec of schcCompressor.c as pure operators over byte          *)
(* sequences: the header parse of schc_output, schc_compression, the       *)
(* field-by-field schc_decompression and the header serialisation and      *)
(* pbuf assembly of schc_input.                                            *)
(*                                                                         *)
(* A byte buffer is a sequence of bytes; C offset i is element i + 1.      *)
(***************************************************************************)
EXTENDS SchcRules
LOCAL INSTANCE SequencesExt
LOCAL INSTANCE Bitwise

CONSTANTS
  Rules,      \* the global rules[]: an array 0..3 of rules
  ScanBound,  \* the bound of the rule scan in schc_compression
  DevEui      \* DevEuiArray, the 8-byte LoRaWAN device EUI

ASSUME DOMAIN Rules = 0 .. 3
ASSUME ScanBound \in 1 .. 4
ASSUME DevEui \in [1 .. 8 -> Byte]

\* buffer[i] of a byte array
At(B, i) == B[i + 1]
\* lwIP pbuf_get_at(): the byte at offset i, 0 when i is past tot_len
GetAt(fr, i) == IF i < Len(fr) THEN fr[i + 1] ELSE 0
\* (buffer[i] << 8) | buffer[i + 1]
BE16(B, i) == At(B, i) * 256 + At(B, i + 1)
\* memcpy of 4 bytes into a uint32 word
WordAt(B, i) == Word(At(B, i), At(B, i + 1), At(B, i + 2), At(B, i + 3))

\* The header context as the C globals hold it before any packet.
ZeroContext == [f \in Fields |-> IF f \in WordFields THEN ZeroWord ELSE 0]

(***************************************************************************)
(* schc_output: the 48 header bytes put in the global ipv6_header and      *)
(* udp_header: packed fields and ports in network order, address words     *)
(* copied as they lie in memory.                                           *)
(***************************************************************************)
ParseHeader(B) ==
  [f \in Fields |->
     CASE f = 0 -> (At(B, 0) \div 16) & 15
       [] f = 1 -> ((At(B, 0) * 16) & 240) | ((At(B, 1) \div 16) & 15)
       [] f = 2 -> ((At(B, 1) * 65536) & 983040) | ((At(B, 2) * 256) & 65280) | At(B, 3)
       [] f = 3 -> BE16(B, 4)
       [] f \in {4, 5} -> At(B, f + 2)
       [] f \in WordFields -> WordAt(B, 8 + 4 * (f - 6))
       [] f \in 14 .. 17 -> BE16(B, 40 + 2 * (f - 14))]

(***************************************************************************)
(* schc_input: the global header context written back into buffer[48].     *)
(* Each assignment to a uint8_t keeps the low 8 bits.                      *)
(***************************************************************************)
SerializeHeader(h) ==
  << (h[0] * 16 + h[1] \div 16) % 256,
     (h[1] * 16 + h[2] \div 65536) % 256,
     (h[2] \div 256) % 256, h[2] % 256,
     (h[3] \div 256) % 256, h[3] % 256,
     h[4], h[5] >>
  \o FlattenSeq([i \in 1 .. 8 |-> h[5 + i]])
  \o FlattenSeq([i \in 1 .. 4 |-> << (h[13 + i] \div 256) % 256, h[13 + i] % 256 >>])

(***************************************************************************)
(* schc_compression.  The scan visits rules 0 .. ScanBound - 1 and stops   *)
(* at the first that matches; the code's bound is 1 (ruleId < 1).  For a   *)
(* VALUESENT field memcpy copies the first ceil(len/8) bytes of the        *)
(* rule's targetValue, i.e. its low bytes on a little-endian target.       *)
(***************************************************************************)
ScannedMatches(h) == {i \in 0 .. ScanBound - 1 : Matches(Rules[i], h)}

TargetBytes(fd, f) ==
  LET n == ByteLength(fd.len)
  IN  IF f \in WordFields THEN SubSeq(fd.tv, 1, n)
                          ELSE [k \in 1 .. n |-> (fd.tv \div 256 ^ (k - 1)) % 256]

EncodeField(fd, f) == IF fd.act = "VALUESENT" THEN TargetBytes(fd, f) ELSE <<>>

Residue(rule) == FlattenSeq([i \in 1 .. 18 |-> EncodeField(rule[i - 1], i - 1)])

\* The bytes schc_compression writes to schc_header[0 .. schc_offset - 1].
SchcCompression(h) ==
  IF ScannedMatches(h) = {} THEN <<0>>
  ELSE LET i == Min(ScannedMatches(h)) IN << i + 1 >> \o Residue(Rules[i])

\* schc_output: a packet whose header matched no rule goes out behind a
\* 0 tag; otherwise the SCHC header replaces the 48 IPv6 and UDP bytes.
OutputFrame(pkt) ==
  LET schc == SchcCompression(ParseHeader(pkt))
  IN  IF schc[1] = 0 THEN schc \o pkt
                     ELSE schc \o SubSeq(pkt, 49, Len(pkt))

(***************************************************************************)
(* schc_decompression, one operator per switch of the code.  Each returns  *)
(* the value the switch leaves in the global field (v; 'old' when no case  *)
(* applies) and the bytes it consumes (n), reading at offset off.          *)
(***************************************************************************)
Same(old) == [v |-> old, n |-> 0]

\* (targetValue << (fieldLength - msbLength)) || byte: a logical OR, 0 or 1
LsbLogicalOr(fd, fr, off) ==
  IF (fd.tv * 2 ^ (fd.len - fd.msb)) % 2 ^ 32 # 0 \/ GetAt(fr, off) # 0 THEN 1 ELSE 0

\* IPv6 version: always the rule's target value, whatever the action.
DecodeVersion(fd, f, fr, off, old) == [v |-> fd.tv % 16, n |-> 0]

DecodeTClass(fd, f, fr, off, old) ==
  CASE fd.act = "NOTSENT"   -> [v |-> fd.tv % 256, n |-> 0]
    [] fd.act = "VALUESENT" -> [v |-> GetAt(fr, off), n |-> 1]
    [] fd.act = "LSB"       -> [v |-> LsbLogicalOr(fd, fr, off), n |-> 1]
    [] OTHER                -> Same(old)

\* The VALUESENT masks keep only the third byte; the field is 20 bits wide.
DecodeFLabel(fd, f, fr, off, old) ==
  CASE fd.act = "NOTSENT"   -> [v |-> fd.tv % 2 ^ 20, n |-> 0]
    [] fd.act = "VALUESENT" ->
         [v |-> ((GetAt(fr, off) * 2 ^ 20) & 983040)
                | ((GetAt(fr, off + 1) * 65536) & 65280) | GetAt(fr, off + 2),
          n |-> 3]
    [] fd.act = "LSB"       -> [v |-> LsbLogicalOr(fd, fr, off),
                                n |-> ByteLength(fd.len - fd.msb)]
    [] OTHER                -> Same(old)

\* Only VALUESENT is handled here; COMPUTELENGTH is applied at the end.
DecodePayLength(fd, f, fr, off, old) ==
  IF fd.act = "VALUESENT"
  THEN [v |-> ((GetAt(fr, off) * 65536) & 65280) | (GetAt(fr, off + 1) & 255), n |-> 2]
  ELSE Same(old)

\* Next header and hop limit (uint8_t).
DecodeOctet(fd, f, fr, off, old) ==
  CASE fd.act = "NOTSENT"   -> [v |-> fd.tv % 256, n |-> 0]
    [] fd.act = "VALUESENT" -> [v |-> GetAt(fr, off), n |-> 1]
    [] OTHER                -> Same(old)

\* Address words, combined little-endian; IID halves may come from the EUI.
DecodeWord(fd, f, fr, off, old) ==
  CASE fd.act = "NOTSENT"   -> [v |-> fd.tv, n |-> 0]
    [] fd.act = "VALUESENT" ->
         [v |-> Word(GetAt(fr, off), GetAt(fr, off + 1), GetAt(fr, off + 2), GetAt(fr, off + 3)),
          n |-> 4]
    [] fd.act = "BUILDIID" /\ f \in IIDFields -> [v |-> BuildIID(DevEui, f), n |-> 0]
    [] OTHER                -> Same(old)

\* UDP ports: a VALUESENT port is read as a single byte.
DecodePort(fd, f, fr, off, old) ==
  CASE fd.act = "NOTSENT"   -> [v |-> fd.tv % 65536, n |-> 0]
    [] fd.act = "VALUESENT" -> [v |-> GetAt(fr, off), n |-> 1]
    [] OTHER                -> Same(old)

DecodeUdpLength(fd, f, fr, off, old) ==
  IF fd.act = "VALUESENT"
  THEN [v |-> GetAt(fr, off) * 256 + GetAt(fr, off + 1), n |-> 2]
  ELSE Same(old)

\* Seeded fault for mutation checking: no COMPUTECHECKSUM case.
DecodeChecksumNoCompute(fd, f, fr, off, old) ==
  CASE fd.act = "NOTSENT"   -> [v |-> fd.tv % 65536, n |-> 0]
    [] fd.act = "VALUESENT" -> [v |-> GetAt(fr, off), n |-> 1]
    [] OTHER                -> Same(old)

DecodeChecksum(fd, f, fr, off, old) ==
  CASE fd.act = "NOTSENT"         -> [v |-> fd.tv % 65536, n |-> 0]
    [] fd.act = "VALUESENT"       -> [v |-> GetAt(fr, off), n |-> 1]
    [] fd.act = "COMPUTECHECKSUM" -> [v |-> 0, n |-> 0]
    [] OTHER                      -> Same(old)

DecodeField(fd, f, fr, off, old) ==
  CASE f = 0 -> DecodeVersion(fd, f, fr, off, old)
    [] f = 1 -> DecodeTClass(fd, f, fr, off, old)
    [] f = 2 -> DecodeFLabel(fd, f, fr, off, old)
    [] f = 3 -> DecodePayLength(fd, f, fr, off, old)
    [] f \in {4, 5} -> DecodeOctet(fd, f, fr, off, old)
    [] f \in WordFields -> DecodeWord(fd, f, fr, off, old)
    [] f \in {14, 15} -> DecodePort(fd, f, fr, off, old)
    [] f = 16 -> DecodeUdpLength(fd, f, fr, off, old)
    [] f = 17 -> DecodeChecksum(fd, f, fr, off, old)

\* The 18 switches in order, threading the global context and schc_offset.
RECURSIVE DecodeFrom(_, _, _, _)
DecodeFrom(rule, fr, f, st) ==
  IF f > 17 THEN st
  ELSE LET r == DecodeField(rule[f], f, fr, st.off, st.ctx[f])
       IN  DecodeFrom(rule, fr, f + 1,
                      [ctx |-> [st.ctx EXCEPT ![f] = r.v], off |-> st.off + r.n])

\* Seeded fault for mutation checking: UDP_HLEN left out of the length.
ComputedLengthNoUdpHeader(fr, off) == ((Len(fr) % 256) - off) % 65536

\* (uint8_t) p->tot_len + UDP_HLEN - schc_offset, stored in a uint16_t
ComputedLength(fr, off) == ((Len(fr) % 256) + 8 - off) % 65536

\* The two COMPUTELENGTH switches after the walk over the fields.
ComputeLengths(rule, fr, st) ==
  [st EXCEPT !.ctx = [f \in Fields |->
      IF f \in {3, 16} /\ rule[f].act = "COMPUTELENGTH"
      THEN ComputedLength(fr, st.off) ELSE st.ctx[f]]]

\* schc_decompression(p, ruleId): rules[ruleId - 1], reading from offset 1.
SchcDecompression(ctx, fr, tag) ==
  LET rule == Rules[tag - 1]
  IN  ComputeLengths(rule, fr, DecodeFrom(rule, fr, 0, [ctx |-> ctx, off |-> 1]))

(***************************************************************************)
(* schc_input: the packet q handed to ip6_input, as its allocated size and *)
(* the bytes pbuf_take/pbuf_take_at managed to write into it (each copies  *)
(* nothing when q is too short), and the header context left behind.       *)
(***************************************************************************)
SchcInputResult(ctx, fr) ==
  IF GetAt(fr, 0) = 0
  THEN [ctx |-> ctx, size |-> (Len(fr) - 1) % 65536, bytes |-> Tail(fr)]
  ELSE LET d     == SchcDecompression(ctx, fr, GetAt(fr, 0))
           size  == (40 + d.ctx[3]) % 65536
           dlen  == (Len(fr) - d.off) % 65536
           hdr   == IF size >= 48 THEN SerializeHeader(d.ctx) ELSE <<>>
           data  == IF size >= 48 + dlen THEN SubSeq(fr, d.off + 1, Len(fr)) ELSE <<>>
       IN  [ctx |-> d.ctx, size |-> size, bytes |-> hdr \o data]
=============================================================================
