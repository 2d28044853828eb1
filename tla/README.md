# TLA+ models of the SCHC LoRaWAN interface

This directory holds TLA+ models of the IPv6/UDP header compression
interface in `src/LwIP`: the SCHC compressor and decompressor
(`netif/schcCompressor.c`), the virtual LoRa interface that connects them to
the LoRaMAC layer (`netif/virtualloraif.c`) and the CoAP client that produces
the traffic (`apps/picocoap/coapClient.c`). Every definition is translated
from those sources. `PROJECT.json` lists, for each definition, the lines it
models (`map`), the runs, the mutants, the findings and the hazards.

## The system

| Part | Code | State | Operations |
|------|------|-------|------------|
| Static context | `schcCompressor.h`, `initializeRules` | `rule1..rule4`, `rules[4]` (rules 3 and 4 are zero globals with NULL operators) | `initializeRules` |
| Matching engine | `equal`, `ignore`, `MSB`, the loop in `schc_compression` | none | scan of the rules, first match wins, bounded by `ruleId<1` |
| Compressor | `schc_output`, `schc_compression`, `schc_frag` | the globals `ipv6_header`, `udp_header` (the header context) | parse the header into the globals, pick a rule, emit the residue and the frame |
| Decompressor | `schc_input`, `schc_decompression` | the same globals | decode field by field, compute the lengths, serialise `buffer[48]`, allocate and fill `q` |
| Identity synthesizer | the `BUILDIID` cases | `DevEuiArray` | IID1/IID2 from the DevEUI, little-endian |
| Link glue | `low_level_output`, `low_level_input`, `virtualloraif_input` | `AppData[240]`, `AppDataSize` (declared in `virtualloraif.h`, shared with LoRaMAC) | copy a frame out or in, hand it to `netif->input` |
| CoAP client | `coap_output`, `coap_input`, `udp_coap_pcpb_init` | the UDP pcb, requests in the lwIP heap | build a PUT to the server, 1086 -> 5683 |

How they interact: `udp_send` -> `ip6_output` -> `netif->output_ip6 =
schc_output` -> `schc_frag` -> `netif->linkoutput = low_level_output` ->
LoRaMAC. A received frame goes through `virtualloraif_input` ->
`low_level_input` -> `netif->input = schc_input` -> `ip6_input`. With
`NO_SYS 1` (lwipopts.h) everything runs in one main loop, so each handler runs
to completion. They share one piece of mutable state: the global header
context. Whatever one packet, in either direction, leaves in `ipv6_header` and
`udp_header` is what the next one starts from.

The hard behaviours are the following.

- The shared context sees interleaved uplinks and downlinks. The link loses,
  duplicates and reorders frames.
- The tag byte comes off the air and is used as an array index.
- The lengths are recomputed with 8- and 16-bit arithmetic.
- The encoder and the decoder are written separately, field by field, and must
  agree.
- The pbuf ownership passes between the handlers, which share a pool of two
  pbufs; lwIP answers an ICMPv6 echo from inside the receive path, so a whole
  send nests inside a receive.
- Which init function brings the netif up decides which function pointers
  are set.

## Modules

| Module | Models | Contents |
|--------|--------|----------|
| `SchcRules` | `schcCompressor.h`, `initializeRules`, the matching operators, `BUILDIID` | field descriptors, `Rule1`, `Rule2`, `InitializedRules`, `Matches`, `BuildIID` |
| `SchcCodec` | `schc_output`'s parsing, `schc_compression`, `schc_decompression`, `schc_input` | pure operators: `ParseHeader`, `SchcCompression`, `OutputFrame`, one decoder per field switch, `DecodeFrom` (RECURSIVE fold over the 18 fields), `ComputeLengths`, `SchcInputResult` |
| `SchcPackets` | the addresses of `low_level_init` and `udp_coap_pcpb_init` | packet builder and a reference RFC 8200 / RFC 768 reading (`WireField`, `Payload`) used by the properties |
| `SchcNode` | the interface as a state machine | variables `ctx` (the globals), `air` (frames sent), `delivered` (what reached `ip6_input`), and the actions `SchcOutput` and `VirtualLoraIfInput` |
| `SchcCodecCheck` | the codec as a function | checks rule selection, the round trip, and the residue (alignment and the `schc_header[40]` bound) for one packet at a time |
| `SchcLink` | the abstract link (spec 4.2, 4.3, 8) | variables `sent`, `delivered`; a delivered packet of the node is a sent one, byte for byte up to a zeroed checksum |
| `PbufLifecycle` | the pbuf ownership of both paths, statement by statement | `buf` (state, reference count, chain of each pbuf), `pool`, `pc`, `sender`, `frame`, `fault`; lwIP's `pbuf_alloc`, `pbuf_cat`, `pbuf_free` as operators |
| `NetifInit` | `schc_if_init`, `virtualloraif_init`, `low_level_init`, `initializeRules` | the netif's function pointers, `mtu`, the link-up flag, whether the rules are filled, the CoAP pcb, the requests leaked in the heap |
| `MC_SchcNode`, `MC_SchcCodecCheck` | model values | the deployment's packets and downlinks (with and without a tag-3 frame); `MCAllSentRules`, the deployed rules with every field of rule 1 sent |

`SchcCodec` is parameterised by `Rules` (the `rules[4]` array), `ScanBound` (the
loop bound, 1 in the code) and `DevEui`. A header field is a natural number. The
eight 32-bit address words are 4-byte tuples in memory order, so that `memcpy`
and little-endian constants translate without leaving TLC's integer range.

Here is how the code maps to the model.

- **`SchcOutput(pkt)`** is the whole of `schc_output`, including the call to
  `schc_compression`. It parses the header into `ctx` and places
  `OutputFrame(pkt)` on the air via `LowLevelOutput` (`schc_frag` only
  forwards).
- **`VirtualLoraIfInput(fr, orig)`** is `virtualloraif_input`. It calls
  `low_level_input`, whose `uint8_t` length truncates the frame, and then
  `schc_input`. It leaves the context the decoder wrote in `ctx` and records
  the delivery.
- **`Next`** has three disjuncts:
  - output of any packet;
  - input of any frame on the air, any number of times and in any order (loss,
    duplication and reordering);
  - input of a downlink frame from the network.
- **Reads past the end of the frame**: `pbuf_get_at` returns 0 there, which is
  `GetAt`.
- **Short pbufs**: `pbuf_take` and `pbuf_take_at` copy nothing if the pbuf is
  too short, which is how `SchcInputResult` builds the bytes.
- **Refinement**: `SchcNode` instantiates `SchcLink` with `sent` mapped to the
  packets whose frames are on the air, and `delivered` to what reached
  `ip6_input`. `LinkSpec` is checked as a property.

In `PbufLifecycle` each action is one handler statement group, named after the
function (`IpOutput` is `coap_output` up to `udp_send`; `SchcOutput`,
`SchcOutputRelease`, `LowLevelOutput`, `CallerFree`; `VirtualLoraIfInput`,
`SchcInput`, `Ip6Input`, `Icmp6Free`). `pc` is the statement the main loop is
at. lwIP's functions follow their contract:
- `pbuf_alloc` returns NULL when the pool cannot hold the length;
- `pbuf_cat` hands the tail's reference to the head;
- `pbuf_free` walks the chain until a pbuf stays referenced;
- a netif's output functions must not free their argument.

A memory error is recorded in `fault`, and the run goes on as the code does.
Each pbuf has its length. `TotLen` of a chain is `p->tot_len`.
`CopyToAppData` is `low_level_output`'s copy into `AppData` and its
assignment of the 8-bit `AppDataSize`. `QLen` is the length `schc_input` asks
for. It picks the branch from the tag (lines 44-49). Behind tag 0 it is the
16-bit `tot_len-1` (`QLenPassthrough`, line 50). Otherwise it is 40 plus the
payload length computed at line 694 (`QLenDecompressed`, line 97).

`NetifInit` models start-up and sending:
- `NetifAdd(init)` runs one of the two init functions;
- `InitializeRules` is `main()` calling it itself;
- `UdpCoapPcbInit` is `udp_coap_pcpb_init`;
- `CoapOutput` is `coap_output`.

`CoapOutput` follows lwIP:
- `pbuf_alloc` fails once leaked requests (102 bytes each: `struct mem`, `struct pbuf`, lwIP's default 14-byte `PBUF_LINK_HLEN`, the IPv6 and UDP headroom, and the 16-byte message) fill `MEM_SIZE`;
- `udp_send` fails with `ERR_RTE` while the link is down, and the request
  then leaks;
- a routed packet calls `output_ip6`, the first `matchingOperator` and
  `linkoutput`, in that order.

## Runs

| Run | Expect | What it shows |
|-----|--------|---------------|
| `node_real` (`SchcNode_real.cfg`) | pass | With the real rules, scan bound and traffic, the node implements `SchcLink` (`LinkSpec`) under any interleaving of uplinks, downlinks, lost, duplicated and reordered frames. `RebuiltLengthsConsistent` and `NoStaleContext` also hold. |
| `pbuf_real` | pass | `IdlePoolFull`, `AppDataFits` and `BuffersReleased` hold for every mix of CoAP sends, lwIP sends and received frames of the four kinds. |
| `unknown_tag` | violation of `UnknownTagRejected` | A tag-3 frame is decompressed with the zero `rules[2]`, and a 40-byte packet reaches `ip6_input`. |
| `stale_context` | violation of `NoStaleContext` | After an uplink, a tag-3 frame is rebuilt with the uplink's payload length (the length switches only assign for `VALUESENT`/`COMPUTELENGTH`). |
| `first_match` | violation of `FirstMatchSelected` | A packet matching only rule 2 gets tag 0: the scan stops at `ruleId<1`. |
| `round_trip` | violation of `RoundTrip` | A rule-1 packet with hop limit 64 comes back with 255 (`ignore` plus `NOTSENT`). |
| `residue` | violation of `ResidueSound` | With every field of rule 1 sent, `schc_compression` writes 42 bytes into `schc_header[40]`. The decoder also reads 1 byte for each port and the checksum, and 0 for the version, so it is misaligned. |
| `pbuf_illegal_free` | violation of `NoIllegalFree` | Every send makes two frees that lwIP asserts on. First, `schc_output` calls `mem_free` on its stack array `schc_header` (line 194). lwIP's own heap is in use (`MEM_SIZE`, no `MEM_LIBC_MALLOC`), so `mem_free` raises `LWIP_MEM_ILLEGAL_FREE`. Two steps later, `coap_output` calls `pbuf_free` on the `p` that `schc_output` already freed. TLC reports the first of the two. |
| `pbuf_use_after_free` | violation of `NoUseAfterFree` | An uncompressed packet is `pbuf_cat`-ed into the frame and freed at line 193, and `low_level_output` then copies it. The commented-out `pbuf_chain` would remove this, but not the double free. |
| `pbuf_null_deref` | violation of `NoNullDeref` | An empty tag-0 frame asks the pool for 65535 bytes, and the NULL `q` reaches `pbuf_take` and `ip6_input`. |
| `init_null_call` | violation of `NoNullCall` | With `virtualloraif_init` and no `initializeRules()`, the first CoAP send calls the NULL `matchingOperator` of `rules[0]`. |
| `init_request_leak` | violation of `NoLeakedRequest` | `schc_if_init` never runs `low_level_init`, so the link never comes up. `udp_send` returns `ERR_RTE` and `coap_output` returns without freeing its request. Repeated sends exhaust the heap, and then `pbuf_take` gets NULL. `schc_if_init`'s NULL `linkoutput` is never reached. |

No run checks a type invariant. Each assignment in the models already keeps
its C width (bitfields, `uint8_t`, `u16_t`), so typing would hold whatever
the code did. Every pbuf carries one reference only because no statement
calls `pbuf_ref` or `pbuf_chain`, which says nothing about the code.

The properties of the passing runs are these.

- **`LinkSpec`**: the refinement. A frame of the node that comes back yields
  the packet that was sent, byte for byte, except a checksum decompression set
  to 0. It holds because the deployed uplinks use hop limit 255 (`UDP_TTL`);
  `round_trip` shows the other case.
- **`RebuiltLengthsConsistent`**: for any compressed frame, the node's or the
  network's, the pbuf size equals the bytes written, and both length fields
  equal size - 40.
- **`NoStaleContext`**: every delivery equals what a fresh context would
  produce from the same frame, whatever the history.
- **`IdlePoolFull`**: whenever the main loop is idle, both pool pbufs are
  back, including after an echo reply nested in the receive path.
- **`AppDataFits`**: every frame `low_level_output` copies fits `AppData[240]`,
  and `AppDataSize` equals its length. The echo reply to the largest downlink
  (240 bytes) is exactly 240 bytes: the tag stripped by `schc_input` is added
  back by `schc_output`.
- **`BuffersReleased`** (liveness): every pbuf that goes live is eventually
  released.

Each property has a mutant in `PROJECT.json` that TLC catches:
- a computed length without the UDP header;
- a checksum not reset;
- a matcher that skips the destination port (breaks `LinkSpec`);
- a received pbuf never freed;
- a driver that keeps the frame's pbuf;
- a tag-0 copy that keeps the tag (breaks `AppDataFits`).

### Bounds

`MC_SchcNode` gives the node five uplink packets:
- the CoAP uplink with and without payload, which matches rule 1;
- one with a DSCP/flow label, which goes uncompressed;
- one to another port, which goes uncompressed;
- one ICMPv6 packet, which goes uncompressed.

It gives four downlinks: two rule-2 frames, one rule-1 frame, and one
uncompressed packet behind tag 0.

Payloads are 0 to 2 bytes: no property depends on the payload length beyond
"empty or not". The run has about 1,100 states. It reaches every field decoder
path the real rules use.

`PbufLifecycle` uses:
- the real `PBUF_POOL_SIZE` of 2;
- lwIP's default `PBUF_POOL_BUFSIZE` of 592;
- three frame kinds: compressed, uncompressed and echo request;
- the frame lengths 0, 1, 49 and 240.

The lengths cover:
- the empty frame, whose `tot_len-1` wraps;
- a tag alone;
- the shortest echo request;
- a full `AppData`.

Every `q` except the empty frame's fits one pool pbuf. The nested echo reply
of a 240-byte request is the deepest path. The run has 728 states.

`NetifInit` uses `MEM_SIZE` 3000, so 29 requests leak before the heap runs
out.

The codec checks take one packet at a time from four test packets, under the
deployed rules or a variant. The variant is the rule set changed as the
comment at schcCompressor.c:16 allows: rule 1 with every field sent.

### Fairness

With `NO_SYS 1` the main loop runs each handler to completion. `PbufLifecycle`
therefore assumes weak fairness of `HandlerStep`, the handler-internal steps,
and none for the environment: nobody owes the node a packet to send or a
frame. `BuffersReleased` is checked under that fairness. `SchcNode`, `NetifInit` and the
codec checks have no fairness: each handler there is one atomic step.

## What is not modelled, and why

- **The order `main()` calls things in**: it is outside the repository. The
  models let it run either init function, call `initializeRules()` or not,
  and set up the CoAP pcb before the first send.
- **The abort branches of `udp_coap_pcpb_init`**: `udp_new` and `udp_bind`
  cannot fail at start-up (the pcb pool has free entries, port 1086 is free).
- **The CoAP PDU building**: picocoap library code outside the repository.
- **`lwipopts.h`**: it contains only build-time constants. `NO_SYS`,
  `PBUF_POOL_SIZE` and `MEM_SIZE` are used as above.
- **What the port's assertion handler does**: `LWIP_PLATFORM_ASSERT` is
  defined in the port's `arch/cc.h`, outside the repository. A failed
  `mem_free(schc_header)` may stop the node or return. `PbufLifecycle` records
  the fault and lets the send continue, which is the only case in which the
  double free that follows can happen.
- **`VALUESENT` fields under the deployed rules**: `schc_compression` sends the
  rule's `targetValue` instead of the packet's value (spec 4.2, flagged in section 9).
  The deployed rules send no field, so no run meets this case.
  `RoundTrip` breaks on it under `MCAllSentRules`, but those rules are given
  to the `residue` run.
- **`DevEuiArray`**: `Comissioning.h` is not in the repository. `MC_SchcNode`
  takes the DevEUI to be the interface identifier of the sensor's address.
  `LinkSpec` and `RoundTrip` depend on this for the `BUILDIID` fields.
- **`ip6_input` trimming `q`** to 40 + payload length (`pbuf_realloc`): it is
  left out, so the echo reply's length in `PbufLifecycle` is an upper bound.
  This errs on the side of `AppDataFits`.
- **Tags 5 to 255**: they read outside `rules[4]`, which is undefined
  behaviour, and are not enumerated.
