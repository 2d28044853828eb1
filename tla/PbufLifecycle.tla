--------------------------- MODULE PbufLifecycle ---------------------------
(***************************************************************************)
(* Ownership of the lwIP packet buffers (pbufs) along the two paths of the *)
(* SCHC interface, statement by statement:                                 *)
(*                                                                         *)
(*   send:    coap_output -> udp_send -> schc_output -> schc_frag ->       *)
(*            low_level_output, then back in the caller                    *)
(*   receive: virtualloraif_input -> low_level_input -> schc_input ->      *)
(*            ip6_input -> coap_input                                      *)
(*                                                                         *)
(* With NO_SYS 1 one path runs at a time, to completion, so the state is   *)
(* one program counter.  The bytes are left out (SchcNode models them):    *)
(* what matters here is which pbufs are allocated, chained, read and       *)
(* freed, and the PBUF_POOL they come from.  The lwIP calls follow their   *)
(* contract: pbuf_alloc returns NULL when the pool cannot hold the length, *)
(* pbuf_cat hands the tail's reference to the head, pbuf_free drops one   *)
(* reference of each pbuf of a chain until one stays referenced, and the  *)
(* output functions of a netif must not free the pbuf they are given.     *)
(* A memory error is recorded in 'fault' and the run goes on.  Lengths are *)
(* kept: the frames pass through AppData[240] (virtualloraif.h), which     *)
(* low_level_output writes and LoRaMAC fills with a received frame.        *)
(***************************************************************************)
EXTENDS Naturals

CONSTANTS
  PBUF_POOL_SIZE,     \* lwipopts.h
  PBUF_POOL_BUFSIZE,  \* lwIP's default (lwipopts.h leaves it unset)
  Frames,             \* kinds of the frames the radio may leave in AppData
  FrameLens           \* their lengths, the AppDataSize values LoRaMAC sets

\* A frame is compressed by a rule, or a tag 0 frame: a packet for
\* coap_input, or an ICMPv6 echo request, which lwIP answers from inside
\* ip6_input (no rule compresses ICMPv6, so both come as tag 0).  An empty
\* frame reads as tag 0 (pbuf_get_at returns 0 past the end).
FrameKinds == {"compressed", "uncompressed", "echo"}

\* uint8_t AppData[240] (virtualloraif.h).
AppDataLen == 240

IP6_HLEN == 40
UDP_HLEN == 8
\* msg_send.len of coap_output: 4-byte header, the Uri-Path option "temp"
\* (1 + 4 bytes), the payload marker and the 6-byte payload.
CoapLen == 16
\* An ICMPv6 echo request: the IPv6 header and the 8-byte echo header.
EchoMinLen == IP6_HLEN + 8

\* The frames LoRaMAC may hand over: a compressed frame has its tag, an
\* echo request a whole echo header behind the tag.
Received ==
  { f \in [kind : Frames, len : FrameLens] :
      /\ f.kind = "compressed" => f.len >= 1
      /\ f.kind = "echo" => f.len >= 1 + EchoMinLen }
\* Senders of IPv6 packets: coap_output, whose request rule 1 compresses, and
\* lwIP itself (neighbour discovery, MLD), whose packets match no rule.
Senders == {"coap", "stack"}

\* The pbufs of the two paths: the sender's p, schc_output's p_compressed,
\* low_level_input's p (here rx) and schc_input's q.
Bufs == {"p", "p_compressed", "rx", "q"}
PoolBufs == {"rx", "q"}
None == "none"

Faults == {"double_free", "use_after_free", "foreign_free", "null_deref"}

\* No frame on the receive path.
NoFrame == [kind |-> None, len |-> 0]

\* A pbuf variable that holds no pbuf (never allocated, or NULL).
NoBuf == [st |-> "unused", ref |-> 0, next |-> None, len |-> 0]

VARIABLES
  buf,    \* buf[b]: "live" with a reference count, or "freed"; next = chain
  pool,   \* pbufs left in PBUF_POOL
  pc,     \* the statement the main loop is at
  sender, \* the sender whose packet is on the send path, or None
  frame,  \* the frame on the receive path, or None
  fault,  \* memory errors committed so far
  appData \* AppDataSize, and the bytes last copied into AppData

vars == <<buf, pool, pc, sender, frame, fault, appData>>

Init ==
  /\ buf = [b \in Bufs |-> NoBuf]
  /\ pool = PBUF_POOL_SIZE
  /\ pc = "idle"
  /\ sender = None
  /\ frame = NoFrame
  /\ fault = {}
  /\ appData = [size |-> 0, copied |-> 0]

-----------------------------------------------------------------------------
(* lwIP's pbuf operations, as functions of the buffer state.               *)

\* The pbufs of the chain that starts at b.
RECURSIVE ChainOf(_, _)
ChainOf(bs, b) == IF b = None THEN {} ELSE {b} \cup ChainOf(bs, bs[b].next)

\* pbuf_free(b) over s = [buf, pool, fault].
\* p->tot_len: the lengths of the pbufs of the chain.
RECURSIVE TotLen(_, _)
TotLen(bs, b) == IF b = None THEN 0 ELSE bs[b].len + TotLen(bs, bs[b].next)

RECURSIVE FreeChain(_, _)
FreeChain(s, b) ==
  IF b = None THEN s
  ELSE IF s.buf[b].st # "live" THEN [s EXCEPT !.fault = @ \cup {"double_free"}]
  ELSE IF s.buf[b].ref > 1 THEN [s EXCEPT !.buf[b].ref = @ - 1]
  ELSE FreeChain([s EXCEPT !.buf[b].st = "freed", !.buf[b].ref = 0,
                           !.pool = IF b \in PoolBufs THEN @ + 1 ELSE @],
                 s.buf[b].next)

Mem == [buf |-> buf, pool |-> pool, fault |-> fault]

\* A fresh pbuf in b; pool pbufs come out of PBUF_POOL.
Alloc(s, b, next, len) ==
  [s EXCEPT !.buf[b] = [st |-> "live", ref |-> 1, next |-> next, len |-> len],
            !.pool = IF b \in PoolBufs THEN @ - 1 ELSE @]

\* Reading a chain (pbuf_copy_partial, pbuf_take_at's source).
Read(s, b) ==
  IF \A c \in ChainOf(s.buf, b) : s.buf[c].st = "live" THEN s
  ELSE [s EXCEPT !.fault = @ \cup {"use_after_free"}]

SetMem(s) == buf' = s.buf /\ pool' = s.pool /\ fault' = s.fault

-----------------------------------------------------------------------------
(* The send path.                                                          *)

\* coap_output: pbuf_alloc(PBUF_TRANSPORT, len, PBUF_RAM), pbuf_take, and
\* udp_send down to netif->output_ip6 (UDP and IPv6 headers go into the
\* room PBUF_TRANSPORT reserved, so schc_output gets this same pbuf).
IpOutput(s) ==
  /\ pc = "idle"
  /\ SetMem(Alloc(Mem, "p", None, IP6_HLEN + UDP_HLEN + CoapLen))
  /\ pc' = "schc_output"
  /\ sender' = s
  /\ UNCHANGED <<frame, appData>>

\* The frame's first pbuf: the tag alone, with p chained behind it, when no
\* rule matches (lwIP's own packets); the tag, rule 1's empty residue and
\* p's payload behind the 48 header bytes, for the CoAP request.
CompressedLen == 1 + buf["p"].len - IP6_HLEN - UDP_HLEN

\* schc_output: p_compressed = pbuf_alloc(..., PBUF_RAM); uncompressed, it
\* gets the tag and pbuf_cat(p_compressed, p); compressed, it gets the
\* residue and the payload copied out of p.
SchcOutput ==
  /\ pc = "schc_output"
  /\ SetMem(IF sender = "stack" THEN Alloc(Mem, "p_compressed", "p", 1)
                                ELSE Alloc(Read(Mem, "p"), "p_compressed", None, CompressedLen))
  /\ pc' = "schc_output_release"
  /\ UNCHANGED <<sender, frame, appData>>

\* schc_output: pbuf_free(p); mem_free(schc_header) of the stack array.
\* lwIP's mem_free finds the pointer outside its heap (MEM_SIZE, no
\* MEM_LIBC_MALLOC in lwipopts.h) and raises LWIP_MEM_ILLEGAL_FREE, an
\* LWIP_ASSERT; whether the port's assert handler stops or returns is
\* outside this repository, so the fault is recorded and the send goes on.
SchcOutputRelease ==
  /\ pc = "schc_output_release"
  /\ LET s == FreeChain(Mem, "p")
     IN  SetMem([s EXCEPT !.fault = @ \cup {"foreign_free"}])
  /\ pc' = "linkoutput"
  /\ UNCHANGED <<sender, frame, appData>>

\* low_level_output's copy: p->tot_len bytes into AppData, and the uint8_t
\* AppDataSize = p->tot_len.
CopyToAppData ==
  LET n == TotLen(buf, "p_compressed") IN appData' = [size |-> n % 256, copied |-> n]

\* Seeded fault for mutation checking: the driver keeps the frame's pbuf.
LowLevelOutputNoFree ==
  /\ pc = "linkoutput"
  /\ SetMem(Read(Mem, "p_compressed"))
  /\ CopyToAppData
  /\ pc' = "caller_free"
  /\ UNCHANGED <<sender, frame>>

\* schc_frag -> low_level_output: pbuf_copy_partial into AppData, pbuf_free.
LowLevelOutput ==
  /\ pc = "linkoutput"
  /\ SetMem(FreeChain(Read(Mem, "p_compressed"), "p_compressed"))
  /\ CopyToAppData
  /\ pc' = "caller_free"
  /\ UNCHANGED <<sender, frame>>

\* ERR_OK comes back up to the sender, which then pbuf_free(p): coap_output,
\* or lwIP's own sender, back in the receive path if it was answering.
CallerFree ==
  /\ pc = "caller_free"
  /\ SetMem(FreeChain(Mem, "p"))
  /\ pc' = IF frame = NoFrame THEN "idle" ELSE "icmp6_free"
  /\ sender' = None
  /\ UNCHANGED <<frame, appData>>

-----------------------------------------------------------------------------
(* The receive path.                                                       *)

\* LoRaMAC leaves a frame in AppData and AppDataSize; virtualloraif_input
\* -> low_level_input: pbuf_alloc(PBUF_RAW, AppDataSize, PBUF_POOL) and
\* pbuf_take from AppData; a NULL p drops the frame.
VirtualLoraIfInput(f) ==
  /\ pc = "idle"
  /\ appData' = [size |-> f.len, copied |-> f.len]
  /\ pool > 0
  /\ SetMem(Alloc(Mem, "rx", None, f.len))
  /\ pc' = "schc_input"
  /\ frame' = f
  /\ UNCHANGED sender

\* Seeded fault for mutation checking: the tag-0 copy keeps the tag byte
\* (p->tot_len instead of p->tot_len-1).
QLenPassthroughKeepsTag(f) == f.len % 65536

\* Tag 0: pbuf_alloc(PBUF_IP, p->tot_len-1, PBUF_POOL), a u16_t length.
QLenPassthrough(f) == (f.len - 1) % 65536

\* A rule's tag: pbuf_alloc(PBUF_IP, IP6_HLEN + ipv6_header.paylength,
\* PBUF_POOL), the payload length computed at line 694 as (uint8_t)
\* p->tot_len + UDP_HLEN - schc_offset, with the deployed rules' empty
\* residue (schc_offset 1).
QLenDecompressed(f) == IP6_HLEN + (((f.len % 256) + UDP_HLEN - 1) % 65536)

\* schc_input reads the tag with pbuf_get_at(p, 0), which gives 0 for an
\* empty frame, and takes the branch for it.
QLen(f) ==
  IF f.kind # "compressed" \/ f.len = 0 THEN QLenPassthrough(f) ELSE QLenDecompressed(f)

\* Pool pbufs the request needs: pbuf_alloc chains PBUF_POOL_BUFSIZE-byte
\* pbufs, at least one.
QPbufs(f) ==
  IF QLen(f) = 0 THEN 1 ELSE (QLen(f) + PBUF_POOL_BUFSIZE - 1) \div PBUF_POOL_BUFSIZE

\* Seeded fault for mutation checking: the received pbuf is never freed.
SchcInputKeepsRx ==
  /\ pc = "schc_input"
  /\ SetMem(IF pool >= QPbufs(frame) THEN Alloc(Read(Mem, "rx"), "q", None, QLen(frame))
                                      ELSE [Mem EXCEPT !.buf["q"] = NoBuf])
  /\ pc' = "ip6_input"
  /\ UNCHANGED <<sender, frame, appData>>

\* schc_input: q = pbuf_alloc(PBUF_IP, ..., PBUF_POOL) while p is held,
\* pbuf_take(s) into q (nothing when q is NULL), then pbuf_free(p).
SchcInput ==
  /\ pc = "schc_input"
  /\ LET s == IF pool >= QPbufs(frame) THEN Alloc(Read(Mem, "rx"), "q", None, QLen(frame))
                                       ELSE [Mem EXCEPT !.buf["q"] = NoBuf]
     IN  SetMem(FreeChain(s, "rx"))
  /\ pc' = "ip6_input"
  /\ UNCHANGED <<sender, frame, appData>>

\* return ip6_input(q, netif): a NULL q is dereferenced and the node stops.
\* An echo request is answered from icmp6_input: a PBUF_RAM reply of the
\* request's length goes down the send path while q is held.  Any other
\* packet reaches coap_input (or is dropped by ip6_input), which
\* pbuf_free(q).  ip6_input's pbuf_realloc of q to 40 + payload length is
\* left out: the reply's length q.len is an upper bound of the real one.
Ip6Input ==
  /\ pc = "ip6_input"
  /\ \/ /\ buf["q"].st # "live"
        /\ fault' = fault \cup {"null_deref"}
        /\ pc' = "halted"
        /\ UNCHANGED <<buf, pool, sender, frame>>
     \/ /\ buf["q"].st = "live"
        /\ frame.kind = "echo"
        /\ SetMem(Alloc(Read(Mem, "q"), "p", None, buf["q"].len))
        /\ pc' = "schc_output"
        /\ sender' = "stack"
        /\ UNCHANGED frame
     \/ /\ buf["q"].st = "live"
        /\ frame.kind # "echo"
        /\ SetMem(FreeChain(Mem, "q"))
        /\ pc' = "idle"
        /\ frame' = NoFrame
        /\ UNCHANGED sender
  /\ UNCHANGED appData

\* icmp6_input, after the reply is sent: pbuf_free(p) of the request.
Icmp6Free ==
  /\ pc = "icmp6_free"
  /\ SetMem(FreeChain(Mem, "q"))
  /\ pc' = "idle"
  /\ frame' = NoFrame
  /\ UNCHANGED <<sender, appData>>

-----
\* The handlers' own steps: once started, a path runs to completion.
HandlerStep ==
  \/ SchcOutput \/ SchcOutputRelease \/ LowLevelOutput \/ CallerFree
  \/ SchcInput \/ Ip6Input \/ Icmp6Free

Next ==
  \/ \E s \in Senders : IpOutput(s)
  \/ \E f \in Received : VirtualLoraIfInput(f)
  \/ HandlerStep

\* The environment (a packet to send, a frame received) owes nothing; the
\* main loop, once in a handler, keeps executing it.
Fairness == WF_vars(HandlerStep)

Spec == Init /\ [][Next]_vars /\ Fairness

-----------------------------------------------------------------------------
(***************************************************************************)
(* No pool pbuf leaks across handlers: whenever the main loop is back in   *)
(* its idle state, every pbuf that low_level_input and schc_input took     *)
(* from PBUF_POOL (only 2 of them) has been returned, so the next frame    *)
(* can be received.                                                        *)
(***************************************************************************)
IdlePoolFull == pc = "idle" => pool = PBUF_POOL_SIZE

(***************************************************************************)
(* Every pbuf allocated on either path (the sender's p, p_compressed, the  *)
(* received p and q) is eventually released: nothing is left for the heap *)
(* or the pool to lose, whatever the packets and frames.                   *)
(***************************************************************************)
BuffersReleased == \A b \in Bufs : buf[b].st = "live" ~> buf[b].st # "live"

(***************************************************************************)
(* Every frame low_level_output copies into AppData fits its 240 bytes,    *)
(* and AppDataSize (a uint8_t) holds its length, whatever reaches the send *)
(* path: the CoAP request, or an echo reply as long as the largest request *)
(* LoRaMAC can deliver.                                                    *)
(***************************************************************************)
AppDataFits == appData.copied <= AppDataLen /\ appData.size = appData.copied

(***************************************************************************)
(* Every free on the send and receive paths releases a block lwIP's        *)
(* allocators hold as allocated: pbuf_free never meets a pbuf whose        *)
(* reference is already gone (schc_output's pbuf_free(p) against the       *)
(* sender's own), and mem_free is only given heap memory (schc_output's    *)
(* mem_free of its stack array schc_header).  lwIP asserts on either.      *)
(***************************************************************************)
NoIllegalFree == fault \cap {"double_free", "foreign_free"} = {}

\* No pbuf is read after it was freed (the frame copied to AppData is intact).
NoUseAfterFree == "use_after_free" \notin fault

\* ip6_input is never handed a NULL pbuf (the receive path cannot crash).
NoNullDeref == "null_deref" \notin fault
=============================================================================
