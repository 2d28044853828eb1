----------------------------- MODULE NetifInit -----------------------------
(***************************************************************************)
(* Bringing the SCHC interface and the CoAP client up, then sending.       *)
(* main() (outside this repository) passes one init function to           *)
(* netif_add: schc_if_init or virtualloraif_init; it may also call the     *)
(* exported initializeRules() itself, and sets up the CoAP pcb with        *)
(* udp_coap_pcpb_init before it sends.  Each init fills in part of the     *)
(* netif and of the static context.  coap_output then goes through lwIP:   *)
(* udp_send routes the packet (the single netif, if its link is up), and   *)
(* ip6_output calls netif->output_ip6; schc_output calls the first rule's  *)
(* matchingOperator and schc_frag netif->linkoutput.  The netif and the    *)
(* rules are zero-initialised globals, so an unset pointer is NULL.        *)
(***************************************************************************)
EXTENDS Naturals

CONSTANTS
  Inits,     \* init functions main() may pass to netif_add
  MEM_SIZE   \* lwipopts.h: the lwIP heap PBUF_RAM pbufs come from

VARIABLES
  output_ip6,   \* netif->output_ip6
  linkoutput,   \* netif->linkoutput
  mtu,          \* netif->mtu
  linkUp,       \* NETIF_FLAG_LINK_UP in netif->flags
  rulesSet,     \* initializeRules() has filled rules[]
  added,        \* netif_add has run the init function
  pcb,          \* the global udp_pcb of coapClient.c
  leaked,       \* requests coap_output allocated and never freed
  fault         \* NULL pointers called or dereferenced

vars == <<output_ip6, linkoutput, mtu, linkUp, rulesSet, added, pcb, leaked, fault>>

\* Heap bytes of one request: struct mem (8), struct pbuf (16), the
\* PBUF_TRANSPORT headroom (lwIP's default PBUF_LINK_HLEN 14, which
\* lwipopts.h leaves as it is, + IPv6 40 + UDP 8) and the 16-byte CoAP
\* message; MEM_ALIGNMENT is left at 1, so nothing is padded.
RequestMem == 8 + 16 + (14 + 40 + 8) + 16

Init ==
  /\ output_ip6 = "NULL"
  /\ linkoutput = "NULL"
  /\ mtu = 0
  /\ linkUp = FALSE
  /\ rulesSet = FALSE
  /\ added = FALSE
  /\ pcb = "NULL"
  /\ leaked = 0
  /\ fault = {}

\* low_level_init: MTU 255, NETIF_FLAG_LINK_UP, the global address.
LowLevelInit == mtu' = 255 /\ linkUp' = TRUE

\* schc_if_init: name, output_ip6 = schc_output, initializeRules().
SchcIfInit ==
  /\ output_ip6' = "schc_output"
  /\ rulesSet' = TRUE
  /\ UNCHANGED <<linkoutput, mtu, linkUp>>

\* virtualloraif_init: name, output_ip6 = schc_output, linkoutput =
\* low_level_output, low_level_init(); the rules are left as they are.
VirtualLoraIfInit ==
  /\ output_ip6' = "schc_output"
  /\ linkoutput' = "low_level_output"
  /\ LowLevelInit
  /\ UNCHANGED rulesSet

NetifAdd(init) ==
  /\ ~added
  /\ added' = TRUE
  /\ IF init = "schc_if_init" THEN SchcIfInit ELSE VirtualLoraIfInit
  /\ UNCHANGED <<pcb, leaked, fault>>

\* main() calling initializeRules() itself.
InitializeRules ==
  /\ rulesSet' = TRUE
  /\ UNCHANGED <<output_ip6, linkoutput, mtu, linkUp, added, pcb, leaked, fault>>

\* udp_coap_pcpb_init, once: the server address, udp_new_ip_type, udp_bind
\* to 1086, udp_connect to 5683 and udp_recv(coap_input).  At start-up
\* the pcb pool is not empty and port 1086 is free, so neither abort
\* branch is taken.
UdpCoapPcbInit ==
  /\ pcb = "NULL"
  /\ pcb' = "connected"
  /\ UNCHANGED <<output_ip6, linkoutput, mtu, linkUp, rulesSet, added, leaked, fault>>

\* The NULL pointers a routed packet calls, in the order the code calls
\* them; the first one stops the node.
\* schc_compression: rules[0].fields[0].matchingOperator(...).
MatchCall == IF rulesSet THEN {} ELSE {"matchingOperator"}
\* schc_frag: netif->linkoutput(netif, p).
FragCall == IF linkoutput = "NULL" THEN {"linkoutput"} ELSE {}

NullCalls ==
  IF output_ip6 = "NULL" THEN {"output_ip6"}
  ELSE IF MatchCall # {} THEN MatchCall
  ELSE FragCall

\* coap_output, after main() has set the interface and the pcb up:
\* pbuf_alloc(PBUF_RAM) fails once the leaked requests fill the heap, and
\* pbuf_take and udp_send get the NULL p.  Otherwise udp_send finds no
\* route while the link is down and returns ERR_RTE, and coap_output
\* returns 1 without pbuf_free(p); a routed packet goes down to schc_frag
\* and p is freed.
CoapOutput ==
  /\ added
  /\ pcb = "connected"
  /\ fault = {}
  /\ \/ /\ (leaked + 1) * RequestMem > MEM_SIZE
        /\ fault' = {"pbuf_take"}
        /\ UNCHANGED leaked
     \/ /\ (leaked + 1) * RequestMem <= MEM_SIZE
        /\ ~linkUp
        /\ leaked' = leaked + 1
        /\ UNCHANGED fault
     \/ /\ (leaked + 1) * RequestMem <= MEM_SIZE
        /\ linkUp
        /\ fault' = NullCalls
        /\ UNCHANGED leaked
  /\ UNCHANGED <<output_ip6, linkoutput, mtu, linkUp, rulesSet, added, pcb>>

Next ==
  \/ \E init \in Inits : NetifAdd(init)
  \/ InitializeRules
  \/ UdpCoapPcbInit
  \/ CoapOutput

Spec == Init /\ [][Next]_vars

TypeOK ==
  /\ output_ip6 \in {"NULL", "schc_output"}
  /\ linkoutput \in {"NULL", "low_level_output"}
  /\ mtu \in {0, 255}
  /\ pcb \in {"NULL", "connected"}
  /\ leaked \in 0 .. MEM_SIZE \div RequestMem
  /\ fault \subseteq {"pbuf_take", "output_ip6", "matchingOperator", "linkoutput"}

(***************************************************************************)
(* Whatever init function main() passes to netif_add, and whether or not   *)
(* it also calls initializeRules(), no send calls a NULL function pointer  *)
(* or hands a NULL pbuf on.                                                *)
(***************************************************************************)
NoNullCall == fault = {}

(***************************************************************************)
(* Every request coap_output allocates is released: by the driver path on  *)
(* success, or by coap_output itself when udp_send fails.                  *)
(***************************************************************************)
NoLeakedRequest == leaked = 0
=============================================================================
