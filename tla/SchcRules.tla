----------------------------- MODULE SchcRules -----------------------------
(***************************************************************************)
(* The static context of the SCHC compressor (schcCompressor.h/.c): field  *)
(* descriptors, the rules built by initializeRules(), the three matching   *)
(* operators and the interface identifier built from the LoRaWAN DevEUI.   *)
(*                                                                         *)
(* Data representation.  A header field is a natural number, except the    *)
(* eight 32-bit address words (Prefix1..IID2 of ip6_src and ip6_dst),      *)
(* which the code fills with memcpy from the packet and compares as        *)
(* uint32.  They are kept as the 4 bytes of the word in memory order       *)
(* (little-endian target), so the constant 0xA8060120 of the code is the   *)
(* word <<16^^20, 16^^01, 16^^06, 16^^A8>>; equality of words is equality  *)
(* of the uint32 values, and no value exceeds TLC's integer range.         *)
(***************************************************************************)
EXTENDS Naturals, Sequences

\* Positions of the 18 fields of a rule and of the header context.
Fields == 0 .. 17
\* The positions holding a 32-bit address word (ip6_src, ip6_dst).
WordFields == 6 .. 13
\* The interface-identifier halves, which BUILDIID may derive.
IIDFields == {8, 9, 12, 13}

Byte == 0 .. 255
Word(b0, b1, b2, b3) == <<b0, b1, b2, b3>>
ZeroWord == Word(0, 0, 0, 0)

\* CompDecompAction (schcCompressor.h:50).
Actions == {"NOTSENT", "VALUESENT", "LSB", "COMPUTELENGTH",
            "COMPUTECHECKSUM", "BUILDIID"}
\* The matching operator a field's function pointer designates; "none" is
\* the NULL pointer of a zero-initialised SCHC_Field.
MatchOps == {"equal", "ignore", "MSB", "none"}

(***************************************************************************)
(* struct SCHC_Field.  initializeRules() never assigns msbLength, so the   *)
(* stack copies carry an indeterminate value; no rule it builds uses MSB   *)
(* or LSB, the only readers of msbLength, so it is kept at 0.  The rule    *)
(* id is assigned but never read by the codec (the tag is the array index  *)
(* plus one) and is left out.                                              *)
(***************************************************************************)
Field(len, tv, mo, act) == [len |-> len, msb |-> 0, tv |-> tv, mo |-> mo, act |-> act]

\* A zero-initialised global SCHC_Field (rule3, rule4 are never filled in).
ZeroField(f) == Field(0, IF f \in WordFields THEN ZeroWord ELSE 0, "none", "NOTSENT")
ZeroRule == [f \in Fields |-> ZeroField(f)]

\* Address words of the deployment, as stored by memcpy (little-endian).
Prefix2001_06A8 == Word(\h20, \h01, \h06, \hA8)     \* 0xA8060120
SensorPrefix2   == Word(\h1D, \h80, \h06, \h02)     \* 0x0206801D
ServerPrefix2   == Word(\h1D, \h80, \h20, \h21)     \* 0x2120801D
ServerIID1      == Word(\h02, \h30, \h48, \hFF)     \* 0xFF483002
ServerIID2      == Word(\hFE, \h5A, \h3E, \hE4)     \* 0xE43E5AFE

(***************************************************************************)
(* rule1 of initializeRules(): uplink, sensor (IID from the DevEUI) to the *)
(* server, UDP 1086 -> 5683.                                               *)
(***************************************************************************)
Rule1 ==
  <<Field(4, 6, "equal", "NOTSENT"), Field(8, 0, "equal", "NOTSENT"),
    Field(20, 0, "equal", "NOTSENT"), Field(16, 0, "ignore", "COMPUTELENGTH"),
    Field(8, 17, "equal", "NOTSENT"), Field(8, 255, "ignore", "NOTSENT"),
    Field(32, Prefix2001_06A8, "equal", "NOTSENT"), Field(32, SensorPrefix2, "equal", "NOTSENT"),
    Field(0, ZeroWord, "ignore", "BUILDIID"), Field(0, ZeroWord, "ignore", "BUILDIID"),
    Field(32, Prefix2001_06A8, "equal", "NOTSENT"), Field(32, ServerPrefix2, "equal", "NOTSENT"),
    Field(32, ServerIID1, "equal", "NOTSENT"), Field(32, ServerIID2, "equal", "NOTSENT"),
    Field(16, 1086, "equal", "NOTSENT"), Field(16, 5683, "equal", "NOTSENT"),
    Field(16, 0, "ignore", "COMPUTELENGTH"), Field(16, 0, "ignore", "COMPUTECHECKSUM")>>

(***************************************************************************)
(* rule2 of initializeRules(): downlink, server to the sensor (IID from    *)
(* the DevEUI), UDP 5683 -> 1086; traffic class and flow label ignored.    *)
(***************************************************************************)
Rule2 ==
  <<Field(4, 6, "equal", "NOTSENT"), Field(8, 0, "ignore", "NOTSENT"),
    Field(20, 0, "ignore", "NOTSENT"), Field(16, 0, "ignore", "COMPUTELENGTH"),
    Field(8, 17, "equal", "NOTSENT"), Field(8, 255, "ignore", "NOTSENT"),
    Field(32, Prefix2001_06A8, "equal", "NOTSENT"), Field(32, ServerPrefix2, "equal", "NOTSENT"),
    Field(32, ServerIID1, "equal", "NOTSENT"), Field(32, ServerIID2, "equal", "NOTSENT"),
    Field(32, Prefix2001_06A8, "equal", "NOTSENT"), Field(32, SensorPrefix2, "equal", "NOTSENT"),
    Field(0, ZeroWord, "ignore", "BUILDIID"), Field(0, ZeroWord, "ignore", "BUILDIID"),
    Field(16, 5683, "equal", "NOTSENT"), Field(16, 1086, "equal", "NOTSENT"),
    Field(16, 0, "ignore", "COMPUTELENGTH"), Field(16, 0, "ignore", "COMPUTECHECKSUM")>>

\* A rule as an array indexed by field position 0..17.
AsRule(seq) == [f \in Fields |-> seq[f + 1]]

\* The global rules[4] after initializeRules(): rule3 and rule4 stay zero.
InitializedRules ==
  LET rules == <<AsRule(Rule1), AsRule(Rule2), ZeroRule, ZeroRule>>
  IN  [i \in 0 .. 3 |-> rules[i + 1]]

\* The rules initializeRules() defines (tags 1 .. 2 on the wire).
DefinedRuleCount == 2

(***************************************************************************)
(* Matching operators equal(), ignore() and MSB().  The header value is    *)
(* passed as uint32; MSB shifts both values right by fieldLength -         *)
(* msbLength (defined for the numeric fields only: no rule applies it to   *)
(* an address word).                                                       *)
(***************************************************************************)
MatchEqual(fd, v) == fd.tv = v
MatchMSB(fd, v) ==
  LET s == 2 ^ (fd.len - fd.msb) IN fd.tv \div s = v \div s
Accepts(fd, v) ==
  CASE fd.mo = "equal"  -> MatchEqual(fd, v)
    [] fd.mo = "ignore" -> TRUE
    [] fd.mo = "MSB"    -> MatchMSB(fd, v)

\* Seeded fault for mutation checking: the destination-port test is lost.
MatchesSkippingDstPort(rule, h) == \A f \in Fields \ {15} : Accepts(rule[f], h[f])

\* A rule matches a header context when every field's operator accepts it
\* (the chain of early 'continue's in the loop of schc_compression).
Matches(rule, h) == \A f \in Fields : Accepts(rule[f], h[f])

\* ceil(fieldLength / 8), the byte count of a VALUESENT field.
ByteLength(len) == IF len % 8 = 0 THEN len \div 8 ELSE len \div 8 + 1

(***************************************************************************)
(* Identity synthesizer: BUILDIID sets IID1 from DevEuiArray[0..3] and     *)
(* IID2 from DevEuiArray[4..7], each combined little-endian, i.e. the      *)
(* memory image of the word is those four bytes in order.                  *)
(***************************************************************************)
BuildIID(devEui, f) ==
  IF f \in {8, 12} THEN Word(devEui[1], devEui[2], devEui[3], devEui[4])
                   ELSE Word(devEui[5], devEui[6], devEui[7], devEui[8])
=============================================================================
