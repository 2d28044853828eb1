--------------------------- MODULE SchcCodecCheck ---------------------------
(***************************************************************************)
(* The compressor and decompressor of schcCompressor.c as functions,       *)
(* checked against the contracts of the codec on every packet of a         *)
(* bounded set: the packet under test is chosen in the initial state.      *)
(***************************************************************************)
EXTENDS SchcCodec, SchcPackets

CONSTANT TestPackets

VARIABLE pkt

CheckInit == pkt \in TestPackets
CheckNext == UNCHANGED pkt
CheckSpec == CheckInit /\ [][CheckNext]_pkt

\* The frame schc_output sends for the packet under test, its tag, and the
\* packet schc_input rebuilds from it in a fresh context.
Sent == OutputFrame(pkt)
SentTag == Sent[1]
Rebuilt == SchcInputResult(ZeroContext, Sent).bytes

(***************************************************************************)
(* First match (match_rule): the tag names the first rule of the rule set  *)
(* whose fields all match the header, and is 0 only when none matches.     *)
(***************************************************************************)
FirstMatchSelected ==
  LET h == ParseHeader(pkt)
      matching == {i \in 0 .. DefinedRuleCount - 1 : Matches(Rules[i], h)}
  IN  IF matching = {} THEN SentTag = 0
      ELSE SentTag = 1 + CHOOSE i \in matching : \A j \in matching : i <= j

(***************************************************************************)
(* Round trip: decompress(compress(h)) = h on every field the rule does    *)
(* not mark COMPUTELENGTH or COMPUTECHECKSUM, and on the payload.          *)
(***************************************************************************)
RoundTrip ==
  SentTag > 0 =>
    LET rule == Rules[SentTag - 1]
    IN  /\ Payload(Rebuilt) = Payload(pkt)
        /\ \A f \in Fields :
             rule[f].act \notin {"COMPUTELENGTH", "COMPUTECHECKSUM"} =>
               WireField(Rebuilt, f) = WireField(pkt, f)

(***************************************************************************)
(* The residue is sound (spec 4.2 step 2, 4.3 step 3: ceil(bitLength/8)    *)
(* bytes for every VALUESENT field): the tag and residue schc_compression  *)
(* writes for a matched packet fit uint8_t schc_header[40] ("allocate      *)
(* buffer for maximum 40 bytes"), and decompressing the frame consumes     *)
(* exactly those bytes, so the payload is read from where it was put.      *)
(***************************************************************************)
ResidueSound ==
  SentTag > 0 =>
    LET schc == SchcCompression(ParseHeader(pkt))
    IN  /\ Len(schc) <= 40
        /\ SchcDecompression(ZeroContext, Sent, SentTag).off = Len(schc)
=============================================================================
