--------------------------- MODULE ProcessBuffer ---------------------------
(***************************************************************************)
(* The buffer between a worker and its queue of the NIC                    *)
(* (process_buffer.hpp), driven by the worker's poll loop: rx_process()    *)
(* receives until a short batch, then the worker transmits some packets.   *)
(* Packets handed over are collected in tx_bufs and given to the NIC in    *)
(* bursts; the NIC may take only a part of a burst, and what is left has   *)
(* to move to the front.  A burst that never fills up is sent by a timer   *)
(* that counts calls of receive().                                         *)
(*                                                                         *)
(* External: the rings of the NIC.  A descriptor of the transmit ring is   *)
(* taken until the NIC has sent the packet and the driver reclaimed it;    *)
(* rte_eth_tx_burst() takes as many packets as there are descriptors.      *)
(***************************************************************************)
EXTENDS Integers, Sequences, SequencesExt

CONSTANTS
    tx_size, rx_size,   \* MAX_PKT_BURST both (main.cpp:357)
    Ports,              \* kinds of port: count, whether its driver can count
                        \* the transmit queue, and its descriptors txd
    RxRing,             \* descriptors of a receive queue: nb_rxd
    MaxTx, MaxRx        \* bounds: packets sent by, and arriving for, a worker

ASSUME BufferAssumption ==
    /\ tx_size \in Nat \ {0} /\ rx_size \in Nat \ {0}
    /\ Ports \subseteq [count : BOOLEAN, txd : Nat \ {0}] /\ RxRing \in Nat \ {0}
    /\ MaxTx \in Nat /\ MaxRx \in Nat

VARIABLES
    port,               \* worker.cpp:238 and main.cpp:44-50, 84
    tx_bufs, tx_nb, flush_timer,
    rx_bufs, rx_nb, rx_iter,
    total_tx_nb,        \* packets sent so far; the n-th one is packet n
    pc,                 \* "rx", "tx", or "send": inside send()
    nic_tx, nic_rx,     \* the rings of the NIC
    arrived,            \* packets the network delivered; the n-th is packet n
    wire,               \* packets the NIC sent, in order
    taken               \* packets receive() returned, in order

txVars == <<tx_bufs, tx_nb, flush_timer, nic_tx>>
rxVars == <<rx_bufs, rx_nb, rx_iter, nic_rx, arrived, taken>>
vars == <<port, txVars, rxVars, total_tx_nb, pc, wire>>

MAX_PKT_BURST == rx_size
NoBuf == 0
Slots(n) == 0 .. n - 1

(* The constructor: pointers are NULL, counters and timer are zero.        *)
Init ==
    /\ port \in Ports
    /\ tx_bufs = [i \in Slots(tx_size) |-> NoBuf] /\ tx_nb = 0
    /\ rx_bufs = [i \in Slots(rx_size) |-> NoBuf] /\ rx_nb = 0 /\ rx_iter = 0
    /\ flush_timer = 0 /\ total_tx_nb = 0
    /\ pc = "rx" /\ nic_tx = <<>> /\ nic_rx = <<>> /\ arrived = 0
    /\ wire = <<>> /\ taken = <<>>

-----------------------------------------------------------------------------
(* rte_eth_tx_burst() and rte_eth_rx_burst(): how many packets are moved.  *)
TxBurst(nb) == LET room == port.txd - Len(nic_tx) IN IF nb < room THEN nb ELSE room
RxBurst == IF Len(nic_rx) < rx_size THEN Len(nic_rx) ELSE rx_size

(* A faulty move that shifts the rest of the burst by one place only, as   *)
(* the memmove() of process_buffer_copy.hpp with a count in bytes would.   *)
CompactShort(bufs, nb, complete_nb) ==
    [i \in Slots(tx_size) |->
        IF nb > 0 /\ complete_nb > 0 /\ i = 0 THEN bufs[complete_nb] ELSE bufs[i]]

(* The rest of a burst moves to the front.                                 *)
Compact(bufs, nb, complete_nb) ==
    [i \in Slots(tx_size) |->
        IF complete_nb > 0 /\ i < nb THEN bufs[i + complete_nb] ELSE bufs[i]]

(* flush_once() of a burst: it may flush nothing.                          *)
FlushOnce(bufs, nb) ==
    LET complete_nb == TxBurst(nb)
    IN  /\ nic_tx' = nic_tx \o [i \in 1 .. complete_nb |-> bufs[i - 1]]
        /\ tx_nb' = nb - complete_nb
        /\ tx_bufs' = Compact(bufs, nb - complete_nb, complete_nb)
        /\ flush_timer' = 0

(* A faulty timer that is reset by a call that has nothing to flush.       *)
CheckFlushTimerReset ==
    IF flush_timer < tx_size * 2
    THEN /\ flush_timer' = IF tx_nb < tx_size THEN 0 ELSE flush_timer + 1
         /\ UNCHANGED <<tx_bufs, tx_nb, nic_tx>>
    ELSE FlushOnce(tx_bufs, tx_nb)

CheckFlushTimer ==
    IF flush_timer < tx_size * 2
    THEN flush_timer' = flush_timer + 1 /\ UNCHANGED <<tx_bufs, tx_nb, nic_tx>>
    ELSE FlushOnce(tx_bufs, tx_nb)

(* A faulty receive() that fetches a batch before the last one is used up. *)
RefillEarly == rx_iter + 1 >= rx_nb

Refill == rx_iter = rx_nb

(* One round of the loop of rx_process(): receive(), which checks the      *)
(* flush timer, returns NULL when a refill finds nothing and the next      *)
(* packet otherwise; the packet is processed and dropped.  The loop ends   *)
(* on NULL, or when nothing is buffered and less than a batch is waiting.  *)
RxProcess ==
    LET n   == RxBurst
        buf == IF Refill
               THEN [i \in Slots(rx_size) |-> IF i < n THEN nic_rx[i + 1] ELSE rx_bufs[i]]
               ELSE rx_bufs
        it  == IF Refill THEN 0 ELSE rx_iter
        nb  == IF Refill THEN n ELSE rx_nb
    IN  /\ pc = "rx"
        /\ CheckFlushTimer
        /\ rx_bufs' = buf /\ rx_nb' = nb
        /\ nic_rx' = IF Refill THEN SubSeq(nic_rx, n + 1, Len(nic_rx)) ELSE nic_rx
        /\ \/ /\ nb = 0
              /\ rx_iter' = it /\ taken' = taken
              /\ pc' = "tx"
           \/ /\ nb # 0
              /\ rx_iter' = it + 1 /\ taken' = Append(taken, buf[it])
              /\ pc' = IF nb = it + 1 /\ Len(nic_rx') < MAX_PKT_BURST
                       THEN "tx" ELSE "rx"
        /\ UNCHANGED <<port, total_tx_nb, arrived, wire>>

(* The worker calls transmit().                                            *)
Transmit ==
    /\ pc = "tx" /\ total_tx_nb < MaxTx
    /\ pc' = "send"
    /\ UNCHANGED <<port, txVars, rxVars, total_tx_nb, wire>>

(* A faulty transmit() that does not wait.                                 *)
ReadyAlways == TRUE

(* The spinning wait of transmit(), if the driver can count its queue:     *)
(* nothing is flushed meanwhile, only the NIC can end it.                  *)
Ready == port.count => tx_nb + Len(nic_tx) < 2 * MAX_PKT_BURST

(* send(), the loop: there is no room in tx_bufs.                          *)
SendWait ==
    /\ pc = "send" /\ Ready /\ tx_nb = tx_size
    /\ FlushOnce(tx_bufs, tx_nb)
    /\ UNCHANGED <<port, rxVars, total_tx_nb, pc, wire>>

(* send(), the rest: append, and flush a full burst.                       *)
Send ==
    LET bufs == [tx_bufs EXCEPT ![tx_nb] = total_tx_nb + 1]
    IN  /\ pc = "send" /\ Ready /\ tx_nb < tx_size
        /\ total_tx_nb' = total_tx_nb + 1
        /\ IF tx_nb + 1 = tx_size
           THEN FlushOnce(bufs, tx_nb + 1)
           ELSE /\ tx_bufs' = bufs /\ tx_nb' = tx_nb + 1
                /\ UNCHANGED <<flush_timer, nic_tx>>
        /\ pc' = "tx"
        /\ UNCHANGED <<port, rxVars, wire>>

(* The worker has no more to send in this round.                           *)
EndTx ==
    /\ pc = "tx" /\ pc' = "rx"
    /\ UNCHANGED <<port, txVars, rxVars, total_tx_nb, wire>>

(* The NIC sends a packet and gives its descriptor back.                   *)
NicSend ==
    /\ nic_tx # <<>>
    /\ nic_tx' = Tail(nic_tx) /\ wire' = Append(wire, Head(nic_tx))
    /\ UNCHANGED <<port, tx_bufs, tx_nb, flush_timer, rxVars, total_tx_nb, pc>>

(* A packet arrives; without a free descriptor the NIC drops it.           *)
NicReceive ==
    /\ arrived < MaxRx
    /\ arrived' = arrived + 1
    /\ nic_rx' = IF Len(nic_rx) < RxRing THEN Append(nic_rx, arrived + 1) ELSE nic_rx
    /\ UNCHANGED <<port, txVars, rx_bufs, rx_nb, rx_iter, taken, total_tx_nb, pc, wire>>

Next ==
    \/ RxProcess \/ Transmit \/ SendWait \/ Send \/ EndTx
    \/ NicSend \/ NicReceive

(* The worker polls for ever and the NIC sends what it is given.           *)
Spec ==
    /\ Init /\ [][Next]_vars
    /\ WF_vars(RxProcess) /\ WF_vars(EndTx) /\ WF_vars(SendWait) /\ WF_vars(Send)
    /\ WF_vars(NicSend)

-----------------------------------------------------------------------------
(* Types; a burst never outgrows tx_bufs nor the NIC its ring.             *)
TypeOK ==
    /\ tx_bufs \in [Slots(tx_size) -> 0 .. MaxTx] /\ tx_nb \in 0 .. tx_size
    /\ rx_bufs \in [Slots(rx_size) -> 0 .. MaxRx]
    /\ rx_nb \in 0 .. rx_size /\ rx_iter \in 0 .. rx_nb
    /\ flush_timer \in 0 .. 2 * tx_size
    /\ total_tx_nb \in 0 .. MaxTx /\ arrived \in 0 .. MaxRx
    /\ pc \in {"rx", "tx", "send"}
    /\ nic_tx \in Seq(1 .. MaxTx) /\ Len(nic_tx) <= port.txd
    /\ nic_rx \in Seq(1 .. MaxRx) /\ Len(nic_rx) <= RxRing
    /\ wire \in Seq(1 .. MaxTx) /\ taken \in Seq(1 .. MaxRx)

(* Both directions seen as one queue: the ring of the NIC, then tx_bufs;   *)
(* the unread part of rx_bufs, then the ring of the NIC.                   *)
TxPending == nic_tx \o [i \in 1 .. tx_nb |-> tx_bufs[i - 1]]
RxPending == [i \in 1 .. rx_nb - rx_iter |-> rx_bufs[rx_iter + i - 1]] \o nic_rx

Tx == INSTANCE PacketQueue WITH
          Packet <- 1 .. MaxTx, queue <- TxPending, out <- wire
Rx == INSTANCE PacketQueue WITH
          Packet <- 1 .. MaxRx, queue <- RxPending, out <- taken

(* send() and its bursts are an ordered queue to the network: every packet *)
(* handed to send() departs, once and in order, however the NIC cuts the   *)
(* bursts, and also when the burst never fills up.                         *)
TxImplementsQueue == Tx!Spec

(* receive() returns every packet the NIC accepted, once and in order.     *)
RxImplementsQueue == Rx!Spec

(* Packets are sent in the order of send(): none is lost on the way from   *)
(* tx_bufs through the ring to the wire.                                   *)
SentWhole == TypeOK /\ wire \o TxPending = [n \in 1 .. total_tx_nb |-> n]

(* With a driver that can count its queue, the wait of transmit() keeps    *)
(* the packets between the worker and the wire to two bursts, although the *)
(* ring of the NIC is as large as a window (main.cpp:45).                  *)
InFlightLimited == port.count => Len(TxPending) <= 2 * MAX_PKT_BURST
=============================================================================
