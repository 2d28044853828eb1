---------------------------- MODULE SchcPackets ----------------------------
(***************************************************************************)
(* IPv6/UDP packets as the lwIP stack lays them out, for the models of the *)
(* SCHC interface: the addresses of the deployment, a packet builder and   *)
(* a reference reading of the header fields.                              *)
(***************************************************************************)
EXTENDS SchcRules

\* The sensor's global address (low_level_init) and the CoAP server's
\* (udp_coap_pcpb_init), in network byte order.
SensorAddr == <<\h20, \h01, \h06, \hA8, \h1D, \h80, \h06, \h02,
                \h00, \hAF, \h00, \h85, \h89, \hA1, \h00, \h1F>>
ServerAddr == <<\h20, \h01, \h06, \hA8, \h1D, \h80, \h20, \h21,
                \h02, \h30, \h48, \hFF, \hFE, \h5A, \h3E, \hE4>>

\* The interface identifier of the sensor's address.
SensorIID == SubSeq(SensorAddr, 9, 16)

\* An IPv6/UDP packet as lwIP lays it out (RFC 8200, RFC 768).
MkPacket(tc, fl, nh, hl, src, dst, sp, dp, data) ==
  LET plen == 8 + Len(data)
      be(x) == << x \div 256, x % 256 >>
  IN  << 6 * 16 + tc \div 16, (tc % 16) * 16 + fl \div 65536,
         (fl \div 256) % 256, fl % 256 >>
      \o be(plen) \o << nh, hl >> \o src \o dst
      \o be(sp) \o be(dp) \o be(plen) \o be(\h5A3C) \o data

-----------------------------------------------------------------------------
(***************************************************************************)
(* Reference reading of a header in the RFC 8200 / RFC 768 layout: field   *)
(* f is 'width' bits, 'shift' bits above the end of the big-endian number  *)
(* made of 'n' bytes from byte 'start'; an address word is its 4 bytes.    *)
(***************************************************************************)
Layout ==
  [f \in Fields \ WordFields |->
     CASE f = 0 -> [start |-> 0, n |-> 1, shift |-> 4, width |-> 4]
       [] f = 1 -> [start |-> 0, n |-> 2, shift |-> 4, width |-> 8]
       [] f = 2 -> [start |-> 1, n |-> 3, shift |-> 0, width |-> 20]
       [] f = 3 -> [start |-> 4, n |-> 2, shift |-> 0, width |-> 16]
       [] f \in {4, 5} -> [start |-> f + 2, n |-> 1, shift |-> 0, width |-> 8]
       [] f \in 14 .. 17 -> [start |-> 40 + 2 * (f - 14), n |-> 2, shift |-> 0, width |-> 16]]

RECURSIVE BigEndian(_, _, _)
BigEndian(B, i, n) == IF n = 0 THEN 0 ELSE BigEndian(B, i, n - 1) * 256 + B[i + n]

WireField(B, f) ==
  IF f \in WordFields
  THEN SubSeq(B, 9 + 4 * (f - 6), 12 + 4 * (f - 6))
  ELSE LET l == Layout[f]
       IN  (BigEndian(B, l.start, l.n) \div 2 ^ l.shift) % 2 ^ l.width

Payload(B) == SubSeq(B, 49, Len(B))

=============================================================================
