------------------------------- MODULE NetDev -------------------------------
(***************************************************************************)
(* The network drivers of src/network and the packets that they are given: *)
(*   "stub"      lab1_network.c: frees the packet;                         *)
(*   "simple"    lab3_transmit_simple.c: prints it and frees it;           *)
(*   "transmit"  lab3_transmit.c: the same, and counts it;                 *)
(*   "receive"   lab4_receive.c: prints and counts it, and gives it back   *)
(*               to the stack, which frees it.                             *)
(* The stack calls start_xmit under the lock of the one transmit queue;    *)
(* the packets in the backlog are delivered by a softirq meanwhile.        *)
(***************************************************************************)
EXTENDS Integers, FiniteSets

CONSTANTS
  Packets,   \* the packets that are sent, once each
  Kinds      \* the drivers considered

VARIABLES
  kind,
  state,        \* "out", "down", "up", "closing", "gone"
  queue,        \* the transmit queue is started
  xpc,          \* where start_xmit is: "idle", "print", "free", "count", "rx", "netif_rx"
  skb,          \* its argument: a set of at most one packet
  backlog,      \* packets given to netif_rx
  sent,         \* packets that start_xmit was called with
  frees,        \* per packet: how often it was freed
  tx_packets, rx_packets    \* stats

vars == <<kind, state, queue, xpc, skb, backlog, sent, frees, tx_packets, rx_packets>>

Init ==
  /\ kind \in Kinds
  /\ state = "out" /\ queue = FALSE
  /\ xpc = "idle" /\ skb = {} /\ backlog = {} /\ sent = {}
  /\ frees = [p \in Packets |-> 0]
  /\ tx_packets = 0 /\ rx_packets = 0

-----------------------------------------------------------------------------
(* The device                                                              *)

\* alloc_netdev, my_setup and register_netdev: no packets, counters zero
Load ==
  /\ state = "out" /\ state' = "down"
  /\ UNCHANGED <<kind, queue, xpc, skb, backlog, sent, frees, tx_packets, rx_packets>>

my_open ==
  /\ state = "down" /\ state' = "up" /\ queue' = TRUE
  /\ UNCHANGED <<kind, xpc, skb, backlog, sent, frees, tx_packets, rx_packets>>

\* The stack takes the queue away first and waits for start_xmit.
Deactivate ==
  /\ state = "up" /\ state' = "closing"
  /\ UNCHANGED <<kind, queue, xpc, skb, backlog, sent, frees, tx_packets, rx_packets>>

my_close ==
  /\ state = "closing" /\ xpc = "idle"
  /\ state' = "down" /\ queue' = FALSE
  /\ UNCHANGED <<kind, xpc, skb, backlog, sent, frees, tx_packets, rx_packets>>

\* unregister_netdev frees what the device left in the backlog.
Unload ==
  /\ state = "down" /\ state' = "gone"
  /\ backlog' = {} /\ frees' = [p \in Packets |-> frees[p] + IF p \in backlog THEN 1 ELSE 0]
  /\ UNCHANGED <<kind, queue, xpc, skb, sent, tx_packets, rx_packets>>

-----------------------------------------------------------------------------
(* start_xmit                                                              *)

\* The stub goes on to free the packet, the others print it.
Xmit(p) ==
  /\ state = "up" /\ queue /\ xpc = "idle" /\ p \notin sent
  /\ xpc' = IF kind = "stub" THEN "free" ELSE "print"
  /\ skb' = {p} /\ sent' = sent \cup {p}
  /\ UNCHANGED <<kind, state, queue, backlog, frees, tx_packets, rx_packets>>

\* printline for each 16 bytes of the packet
PrintPacket ==
  /\ xpc = "print" /\ xpc' = IF kind = "receive" THEN "count" ELSE "free"
  /\ UNCHANGED <<kind, state, queue, skb, backlog, sent, frees, tx_packets, rx_packets>>

Free ==
  /\ xpc = "free"
  /\ frees' = [p \in Packets |-> frees[p] + IF p \in skb THEN 1 ELSE 0]
  /\ IF kind = "transmit" THEN xpc' = "count" /\ UNCHANGED skb ELSE xpc' = "idle" /\ skb' = {}
  /\ UNCHANGED <<kind, state, queue, backlog, sent, tx_packets, rx_packets>>

Count ==
  /\ xpc = "count"
  /\ tx_packets' = tx_packets + 1
  /\ IF kind = "receive" THEN xpc' = "rx" /\ UNCHANGED skb ELSE xpc' = "idle" /\ skb' = {}
  /\ UNCHANGED <<kind, state, queue, backlog, sent, frees, rx_packets>>

RxCount ==
  /\ xpc = "rx" /\ xpc' = "netif_rx"
  /\ rx_packets' = rx_packets + 1
  /\ UNCHANGED <<kind, state, queue, skb, backlog, sent, frees, tx_packets>>

\* As if the driver still freed what it transmits.
NetifRx_Freed ==
  /\ xpc = "netif_rx" /\ xpc' = "idle" /\ skb' = {}
  /\ backlog' = backlog \cup skb
  /\ frees' = [p \in Packets |-> frees[p] + IF p \in skb THEN 1 ELSE 0]
  /\ UNCHANGED <<kind, state, queue, sent, tx_packets, rx_packets>>

\* netif_rx takes the packet, or drops it when the backlog is full.
NetifRx ==
  /\ xpc = "netif_rx" /\ xpc' = "idle" /\ skb' = {}
  /\ \/ backlog' = backlog \cup skb /\ UNCHANGED frees
     \/ frees' = [p \in Packets |-> frees[p] + IF p \in skb THEN 1 ELSE 0] /\ UNCHANGED backlog
  /\ UNCHANGED <<kind, state, queue, sent, tx_packets, rx_packets>>

\* The softirq delivers a packet; its last reader frees it.
Deliver(p) ==
  /\ p \in backlog /\ backlog' = backlog \ {p}
  /\ frees' = [frees EXCEPT ![p] = @ + 1]
  /\ UNCHANGED <<kind, state, queue, xpc, skb, sent, tx_packets, rx_packets>>

Next ==
  \/ Load \/ my_open \/ Deactivate \/ my_close \/ Unload
  \/ PrintPacket \/ Free \/ Count \/ RxCount \/ NetifRx
  \/ \E p \in Packets : Xmit(p) \/ Deliver(p)

Spec == Init /\ [][Next]_vars

-----------------------------------------------------------------------------
(* Properties                                                              *)

\* The driver has the packet and has not freed it.
Held(p) == p \in skb /\ ~(kind = "transmit" /\ xpc = "count")

\* "Be careful not to create memory leaks!": at any time a packet is with the
\* stack, with the driver, in the backlog, or freed, once; none is left when the
\* device is gone.  And the statistics, which a reader may see at any time, count
\* a packet as sent before they count it as received, and miss none.
PacketsAccounted ==
  /\ \A p \in Packets : frees[p] = IF p \notin sent \/ p \in backlog \/ Held(p) THEN 0 ELSE 1
  /\ state = "gone" => \A p \in sent : frees[p] = 1
  /\ kind = "receive" => tx_packets - rx_packets = IF xpc = "rx" THEN 1 ELSE 0
  /\ xpc = "idle" /\ kind \in {"transmit", "receive"} => tx_packets = Cardinality(sent)
=============================================================================
