------------------------ MODULE ProcessBufferProofs ------------------------
(***************************************************************************)
(* Proofs about ProcessBuffer, for bursts, rings and numbers of packets of *)
(* any size.  The packets of either direction are numbered, and those on   *)
(* the way out are consecutive: the invariant says which are where.        *)
(***************************************************************************)
EXTENDS ProcessBuffer, ProofLemmas

-----------------------------------------------------------------------------
(* The invariant.                                                          *)

(* The packets handed over are, in order, on the wire, in the ring of the  *)
(* NIC, and at the front of tx_bufs.                                       *)
Departed == Len(wire) + Len(nic_tx)

TxNumbered ==
    /\ Departed + tx_nb = total_tx_nb
    /\ \A n \in 1 .. Len(wire) : wire[n] = n
    /\ \A n \in 1 .. Len(nic_tx) : nic_tx[n] = Len(wire) + n
    /\ \A i \in 0 .. tx_nb - 1 : tx_bufs[i] = Departed + i + 1

TxInv ==
    /\ tx_bufs \in [Slots(tx_size) -> 0 .. MaxTx] /\ tx_nb \in 0 .. tx_size
    /\ flush_timer \in 0 .. 2 * tx_size
    /\ nic_tx \in Seq(1 .. MaxTx) /\ Len(nic_tx) <= port.txd
    /\ wire \in Seq(1 .. MaxTx)
    /\ TxNumbered
    /\ port.count => Len(nic_tx) + tx_nb <= 2 * MAX_PKT_BURST

(* The first rx_nb elements of rx_bufs are packets.                        *)
RxInv ==
    /\ rx_bufs \in [Slots(rx_size) -> 0 .. MaxRx]
    /\ rx_nb \in 0 .. rx_size /\ rx_iter \in 0 .. rx_nb
    /\ arrived \in 0 .. MaxRx
    /\ nic_rx \in Seq(1 .. MaxRx) /\ Len(nic_rx) <= RxRing
    /\ taken \in Seq(1 .. MaxRx)
    /\ \A i \in 0 .. rx_nb - 1 : rx_bufs[i] \in 1 .. MaxRx

BufferInv ==
    /\ port \in Ports
    /\ pc \in {"rx", "tx", "send"}
    /\ total_tx_nb \in 0 .. MaxTx
    /\ pc = "send" => total_tx_nb < MaxTx
    /\ TxInv
    /\ RxInv

-----------------------------------------------------------------------------
LEMMA Constants ==
    /\ tx_size \in Nat /\ tx_size >= 1 /\ rx_size \in Nat /\ rx_size >= 1
    /\ RxRing \in Nat /\ MaxTx \in Nat /\ MaxRx \in Nat
    /\ \A p \in Ports : p.txd \in Nat /\ p.count \in BOOLEAN
BY BufferAssumption DEF BufferAssumption

LEMMA Types ==
    ASSUME BufferInv
    PROVE  /\ tx_nb \in Nat /\ tx_nb <= tx_size /\ tx_bufs \in [Slots(tx_size) -> 0 .. MaxTx]
           /\ rx_nb \in Nat /\ rx_nb <= rx_size /\ rx_bufs \in [Slots(rx_size) -> 0 .. MaxRx]
           /\ rx_iter \in Nat /\ rx_iter <= rx_nb
           /\ flush_timer \in Nat /\ flush_timer <= 2 * tx_size
           /\ total_tx_nb \in Nat /\ total_tx_nb <= MaxTx
           /\ arrived \in Nat /\ arrived <= MaxRx
           /\ nic_tx \in Seq(1 .. MaxTx) /\ Len(nic_tx) \in Nat /\ Len(nic_tx) <= port.txd
           /\ nic_rx \in Seq(1 .. MaxRx) /\ Len(nic_rx) \in Nat /\ Len(nic_rx) <= RxRing
           /\ wire \in Seq(1 .. MaxTx) /\ Len(wire) \in Nat
           /\ taken \in Seq(1 .. MaxRx) /\ Len(taken) \in Nat
           /\ port.txd \in Nat
           /\ Departed \in Nat
<1>1. TxInv /\ RxInv /\ port \in Ports /\ total_tx_nb \in 0 .. MaxTx
  BY DEF BufferInv
<1>2. nic_tx \in Seq(1 .. MaxTx) /\ nic_rx \in Seq(1 .. MaxRx)
      /\ wire \in Seq(1 .. MaxTx) /\ taken \in Seq(1 .. MaxRx)
  BY <1>1 DEF TxInv, RxInv
<1>3. Len(nic_tx) \in Nat /\ Len(nic_rx) \in Nat /\ Len(wire) \in Nat /\ Len(taken) \in Nat
  BY <1>2
<1>4. rx_nb \in 0 .. rx_size /\ rx_iter \in 0 .. rx_nb /\ tx_nb \in 0 .. tx_size
      /\ flush_timer \in 0 .. 2 * tx_size /\ arrived \in 0 .. MaxRx
      /\ tx_bufs \in [Slots(tx_size) -> 0 .. MaxTx]
      /\ rx_bufs \in [Slots(rx_size) -> 0 .. MaxRx]
      /\ Len(nic_tx) <= port.txd /\ Len(nic_rx) <= RxRing
  BY <1>1 DEF TxInv, RxInv
<1>5. Departed \in Nat
  BY <1>3 DEF Departed
<1> QED BY <1>1, <1>2, <1>3, <1>4, <1>5, Constants

(* The part of a burst that a sequence holds.                              *)
LEMMA BurstSeq ==
    ASSUME NEW S, NEW k \in Nat, NEW b, \A i \in 0 .. k - 1 : b[i] \in S
    PROVE  /\ [i \in 1 .. k |-> b[i - 1]] \in Seq(S)
           /\ Len([i \in 1 .. k |-> b[i - 1]]) = k
           /\ \A i \in 1 .. k : [j \in 1 .. k |-> b[j - 1]][i] = b[i - 1]
<1>1. \A i \in 1 .. k : b[i - 1] \in S
  OBVIOUS
<1> QED BY <1>1

(* flush_once(): of nb packets some go to the ring, and the rest moves to  *)
(* the front.                                                              *)
LEMMA FlushFacts ==
    ASSUME BufferInv, NEW bufs \in [Slots(tx_size) -> 0 .. MaxTx],
           NEW nb \in 1 .. tx_size \cup {0},
           \A i \in 0 .. nb - 1 : bufs[i] = Departed + i + 1,
           Departed + nb <= MaxTx,
           FlushOnce(bufs, nb), wire' = wire
    PROVE  /\ nic_tx' \in Seq(1 .. MaxTx) /\ Len(nic_tx') \in Nat /\ Len(nic_tx') <= port.txd
           /\ tx_nb' \in 0 .. tx_size /\ tx_bufs' \in [Slots(tx_size) -> 0 .. MaxTx]
           /\ flush_timer' = 0
           /\ Len(nic_tx') + tx_nb' = Len(nic_tx) + nb
           /\ \A n \in 1 .. Len(nic_tx') : nic_tx'[n] = Len(wire) + n
           /\ \A i \in 0 .. tx_nb' - 1 : tx_bufs'[i] = Departed' + i + 1
<1> DEFINE c == TxBurst(nb)
           s == [i \in 1 .. c |-> bufs[i - 1]]
           w == Len(wire)
           x == Len(nic_tx)
<1>0. /\ nb \in Nat /\ nb <= tx_size /\ tx_size \in Nat /\ MaxTx \in Nat
      /\ w \in Nat /\ x \in Nat /\ x <= port.txd /\ port.txd \in Nat /\ Departed = w + x
      /\ nic_tx \in Seq(1 .. MaxTx)
  <2>1. nb \in Nat /\ nb <= tx_size /\ tx_size \in Nat /\ MaxTx \in Nat
    BY Constants
  <2>2. w \in Nat /\ x \in Nat /\ x <= port.txd /\ port.txd \in Nat
    BY Types
  <2>3. Departed = w + x
    BY DEF Departed
  <2>4. nic_tx \in Seq(1 .. MaxTx)
    BY Types
  <2> QED BY <2>1, <2>2, <2>3, <2>4
<1>1. c \in Nat /\ c <= nb /\ x + c <= port.txd
  <2>1. c = IF nb < port.txd - x THEN nb ELSE port.txd - x
    BY DEF TxBurst
  <2> HIDE DEF c, x, w
  <2> QED BY <1>0, <2>1
<1>2. /\ nic_tx' = nic_tx \o s /\ tx_nb' = nb - c
      /\ tx_bufs' = [i \in Slots(tx_size) |->
                        IF c > 0 /\ i < nb - c THEN bufs[i + c] ELSE bufs[i]]
      /\ flush_timer' = 0
  BY DEF FlushOnce, Compact
<1> HIDE DEF c, w, x
<1>3. \A i \in 0 .. c - 1 : bufs[i] = w + x + i + 1 /\ bufs[i] \in 1 .. MaxTx
  <2> TAKE i \in 0 .. c - 1
  <2>1. i \in 0 .. nb - 1 /\ i \in Nat /\ i < nb
    BY <1>0, <1>1
  <2>2. bufs[i] = w + x + i + 1
    BY <1>0, <2>1
  <2> QED BY <1>0, <2>1, <2>2
<1>4. s \in Seq(1 .. MaxTx) /\ Len(s) = c /\ \A i \in 1 .. c : s[i] = bufs[i - 1]
  BY <1>1, <1>3, BurstSeq
<1> HIDE DEF s
<1>5. /\ nic_tx' \in Seq(1 .. MaxTx) /\ Len(nic_tx') = x + c
      /\ \A i \in 1 .. x + c : nic_tx'[i] = IF i <= x THEN nic_tx[i] ELSE s[i - x]
  BY <1>0, <1>2, <1>4, ConcatFacts DEF x
<1>6. \A n \in 1 .. Len(nic_tx') : nic_tx'[n] = w + n
  <2> TAKE n \in 1 .. Len(nic_tx')
  <2>1. n \in 1 .. x + c /\ n \in Nat
    BY <1>5
  <2>2. CASE n <= x
    <3>1. n \in 1 .. x
      BY <1>0, <2>1, <2>2
    <3>2. nic_tx[n] = w + n
      BY <3>1 DEF BufferInv, TxInv, TxNumbered, w, x
    <3> QED BY <1>5, <2>1, <2>2, <3>2
  <2>3. CASE ~(n <= x)
    <3>1. n - x \in 1 .. c /\ (n - x) - 1 \in 0 .. c - 1
      BY <1>0, <1>1, <2>1, <2>3
    <3>2. nic_tx'[n] = s[n - x] /\ s[n - x] = bufs[(n - x) - 1]
      BY <1>4, <1>5, <2>1, <2>3, <3>1
    <3>3. bufs[(n - x) - 1] = w + x + ((n - x) - 1) + 1
      BY <1>3, <3>1
    <3> QED BY <1>0, <2>1, <3>2, <3>3
  <2> QED BY <2>2, <2>3
<1>7. tx_bufs' \in [Slots(tx_size) -> 0 .. MaxTx]
  <2>1. ASSUME NEW i \in Slots(tx_size), i < nb - c PROVE i + c \in Slots(tx_size)
    BY <1>0, <1>1, <2>1 DEF Slots
  <2> QED BY <1>2, <2>1
<1>8. tx_nb' \in Nat /\ tx_nb' = nb - c /\ tx_nb' <= tx_size
  BY <1>0, <1>1, <1>2
<1>9. Departed' = w + x + c
  <2>1. Departed' = w + (x + c)
    BY <1>5 DEF Departed, w
  <2> QED BY <1>0, <1>1, <2>1
<1>10. ASSUME NEW i \in 0 .. tx_nb' - 1 PROVE tx_bufs'[i] = Departed' + i + 1
  <2>1. /\ i \in Nat /\ i < nb - c /\ i \in Slots(tx_size)
        /\ i + c \in 0 .. nb - 1 /\ i \in 0 .. nb - 1
    BY <1>0, <1>1, <1>8 DEF Slots
  <2>2. tx_bufs'[i] = IF c > 0 THEN bufs[i + c] ELSE bufs[i]
    BY <1>2, <2>1
  <2>3. bufs[i + c] = w + x + (i + c) + 1 /\ bufs[i] = w + x + i + 1
    BY <1>0, <2>1
  <2> QED BY <1>0, <1>1, <1>9, <2>1, <2>2, <2>3
<1>11. Len(nic_tx') + tx_nb' = x + nb /\ Len(nic_tx') \in Nat /\ Len(nic_tx') <= port.txd
  BY <1>0, <1>1, <1>5, <1>8
<1>12. tx_nb' \in 0 .. tx_size
  BY <1>0, <1>8
<1>13. /\ Len(nic_tx') + tx_nb' = Len(nic_tx) + nb
       /\ \A n \in 1 .. Len(nic_tx') : nic_tx'[n] = Len(wire) + n
  BY <1>6, <1>11 DEF x, w
<1> QED BY <1>2, <1>5, <1>7, <1>10, <1>11, <1>12, <1>13

(* ... so that flushing keeps the invariant of the packets on their way.   *)
LEMMA FlushKeeps ==
    ASSUME BufferInv, NEW bufs \in [Slots(tx_size) -> 0 .. MaxTx],
           NEW nb \in 1 .. tx_size \cup {0},
           \A i \in 0 .. nb - 1 : bufs[i] = Departed + i + 1,
           total_tx_nb' = Departed + nb, total_tx_nb' <= MaxTx,
           port.count => Len(nic_tx) + nb <= 2 * MAX_PKT_BURST,
           FlushOnce(bufs, nb), UNCHANGED <<wire, port>>
    PROVE  TxInv'
<1>1. Departed + nb <= MaxTx /\ wire' = wire
  OBVIOUS
<1>2. /\ nic_tx' \in Seq(1 .. MaxTx) /\ Len(nic_tx') \in Nat /\ Len(nic_tx') <= port.txd
      /\ tx_nb' \in 0 .. tx_size /\ tx_bufs' \in [Slots(tx_size) -> 0 .. MaxTx]
      /\ flush_timer' = 0
      /\ Len(nic_tx') + tx_nb' = Len(nic_tx) + nb
      /\ \A n \in 1 .. Len(nic_tx') : nic_tx'[n] = Len(wire) + n
      /\ \A i \in 0 .. tx_nb' - 1 : tx_bufs'[i] = Departed' + i + 1
  BY <1>1, FlushFacts
<1>3. Departed' + tx_nb' = total_tx_nb'
  <2>1. Departed' = Len(wire) + Len(nic_tx') /\ Departed = Len(wire) + Len(nic_tx)
    BY DEF Departed
  <2>2. Len(wire) \in Nat /\ Len(nic_tx) \in Nat /\ tx_size \in Nat
    BY Types, Constants
  <2>3. Len(nic_tx') \in Nat /\ tx_nb' \in 0 .. tx_size
        /\ Len(nic_tx') + tx_nb' = Len(nic_tx) + nb
    BY <1>2
  <2>4. nb \in Nat /\ tx_nb' \in Nat
    BY <2>2, <2>3
  <2> DEFINE a == Len(wire)
             b == Len(nic_tx')
             c == tx_nb'
             d == Len(nic_tx)
  <2>5. a \in Nat /\ b \in Nat /\ c \in Nat /\ d \in Nat /\ b + c = d + nb
    BY <2>2, <2>3, <2>4
  <2>6. (a + b) + c = (a + d) + nb
    <3> HIDE DEF a, b, c, d
    <3> QED BY <2>4, <2>5
  <2> QED BY <2>1, <2>6
<1>4. TxNumbered'
  BY <1>2, <1>3 DEF TxNumbered, BufferInv, TxInv
<1>5. flush_timer' \in 0 .. 2 * tx_size
  BY <1>2, Constants
<1>6. port'.count => Len(nic_tx') + tx_nb' <= 2 * MAX_PKT_BURST
  BY <1>2
<1> QED BY <1>2, <1>4, <1>5, <1>6 DEF TxInv, BufferInv, MAX_PKT_BURST

LEMMA TimerKeeps ==
    ASSUME BufferInv, CheckFlushTimer, UNCHANGED <<wire, port, total_tx_nb>>
    PROVE  TxInv'
<1>1. CASE flush_timer < tx_size * 2
  <2>1. flush_timer' = flush_timer + 1 /\ UNCHANGED <<tx_bufs, tx_nb, nic_tx>>
    BY <1>1 DEF CheckFlushTimer
  <2>2. flush_timer' \in 0 .. 2 * tx_size
    <3>1. flush_timer \in Nat /\ tx_size \in Nat
      BY Types, Constants
    <3> QED BY <1>1, <2>1, <3>1
  <2> QED BY <2>1, <2>2 DEF BufferInv, TxInv, TxNumbered, Departed, MAX_PKT_BURST
<1>2. CASE ~(flush_timer < tx_size * 2)
  <2>1. FlushOnce(tx_bufs, tx_nb)
    BY <1>2 DEF CheckFlushTimer
  <2>2. /\ tx_bufs \in [Slots(tx_size) -> 0 .. MaxTx] /\ tx_nb \in 1 .. tx_size \cup {0}
        /\ total_tx_nb' <= MaxTx
    <3>1. /\ tx_bufs \in [Slots(tx_size) -> 0 .. MaxTx]
          /\ tx_nb \in Nat /\ tx_nb <= tx_size /\ total_tx_nb <= MaxTx
      BY Types
    <3>2. tx_size \in Nat
      BY Constants
    <3> QED BY <3>1, <3>2
  <2>3. /\ \A i \in 0 .. tx_nb - 1 : tx_bufs[i] = Departed + i + 1
        /\ total_tx_nb' = Departed + tx_nb
        /\ port.count => Len(nic_tx) + tx_nb <= 2 * MAX_PKT_BURST
    BY DEF BufferInv, TxInv, TxNumbered
  <2> QED BY <2>1, <2>2, <2>3, FlushKeeps
<1> QED BY <1>1, <1>2

LEMMA SendWaitKeeps ==
    ASSUME BufferInv, SendWait
    PROVE  BufferInv'
<1>1. /\ FlushOnce(tx_bufs, tx_nb)
      /\ UNCHANGED <<port, rx_bufs, rx_nb, rx_iter, nic_rx, arrived, taken, total_tx_nb, pc, wire>>
  BY DEF SendWait, rxVars
<1>2. /\ tx_bufs \in [Slots(tx_size) -> 0 .. MaxTx] /\ tx_nb \in 1 .. tx_size \cup {0}
      /\ total_tx_nb' <= MaxTx
  <2>1. /\ tx_bufs \in [Slots(tx_size) -> 0 .. MaxTx]
        /\ tx_nb \in Nat /\ tx_nb <= tx_size /\ total_tx_nb <= MaxTx
    BY Types
  <2>2. tx_size \in Nat
    BY Constants
  <2> QED BY <1>1, <2>1, <2>2
<1>3. /\ \A i \in 0 .. tx_nb - 1 : tx_bufs[i] = Departed + i + 1
      /\ total_tx_nb' = Departed + tx_nb
      /\ port.count => Len(nic_tx) + tx_nb <= 2 * MAX_PKT_BURST
  BY <1>1 DEF BufferInv, TxInv, TxNumbered
<1>4. TxInv'
  BY <1>1, <1>2, <1>3, FlushKeeps
<1> QED BY <1>1, <1>4 DEF BufferInv, RxInv

LEMMA SendKeeps ==
    ASSUME BufferInv, Send
    PROVE  BufferInv'
<1> DEFINE bufs == [tx_bufs EXCEPT ![tx_nb] = total_tx_nb + 1]
           nb == tx_nb + 1
<1>1. /\ UNCHANGED <<port, rx_bufs, rx_nb, rx_iter, nic_rx, arrived, taken, wire>>
      /\ total_tx_nb' = total_tx_nb + 1 /\ pc' = "tx" /\ pc = "send"
      /\ Ready /\ tx_nb < tx_size
  BY DEF Send, rxVars
<1>2. /\ tx_nb \in Nat /\ tx_size \in Nat /\ total_tx_nb \in Nat /\ total_tx_nb < MaxTx
      /\ Departed \in Nat /\ tx_bufs \in [Slots(tx_size) -> 0 .. MaxTx] /\ MaxTx \in Nat
      /\ Len(nic_tx) \in Nat /\ rx_size \in Nat
      /\ Departed + tx_nb = total_tx_nb
  BY <1>1, Types, Constants DEF BufferInv, TxInv, TxNumbered
<1>3. /\ bufs \in [Slots(tx_size) -> 0 .. MaxTx] /\ nb \in 1 .. tx_size \cup {0}
      /\ total_tx_nb' <= MaxTx /\ total_tx_nb' \in 0 .. MaxTx
      /\ total_tx_nb' = Departed + nb
  <2>1. total_tx_nb + 1 \in 0 .. MaxTx
    BY <1>2
  <2>2. bufs \in [Slots(tx_size) -> 0 .. MaxTx]
    BY <1>2, <2>1
  <2>3. nb \in 1 .. tx_size
    BY <1>1, <1>2
  <2>4. total_tx_nb + 1 = Departed + nb
    BY <1>2
  <2> QED BY <1>1, <1>2, <2>1, <2>2, <2>3, <2>4
<1>4. \A i \in 0 .. nb - 1 : bufs[i] = Departed + i + 1
  <2> TAKE i \in 0 .. nb - 1
  <2>1. i \in 0 .. tx_nb /\ i \in Slots(tx_size) /\ tx_nb \in Slots(tx_size)
    BY <1>1, <1>2 DEF Slots
  <2>2. CASE i = tx_nb
    <3>1. bufs[i] = total_tx_nb + 1
      BY <1>2, <2>1, <2>2
    <3> QED BY <1>2, <2>2, <3>1
  <2>3. CASE i # tx_nb
    <3>1. i \in 0 .. tx_nb - 1
      BY <1>2, <2>1, <2>3
    <3>2. tx_bufs[i] = Departed + i + 1
      BY <3>1 DEF BufferInv, TxInv, TxNumbered
    <3> QED BY <1>2, <2>1, <2>3, <3>2
  <2> QED BY <2>2, <2>3
<1>5. port.count => Len(nic_tx) + nb <= 2 * MAX_PKT_BURST
  BY <1>1, <1>2 DEF Ready, MAX_PKT_BURST
<1>6. TxInv'
  <2>1. CASE nb = tx_size
    <3>1. FlushOnce(bufs, nb)
      BY <2>1 DEF Send
    <3> HIDE DEF bufs, nb
    <3> QED BY <1>1, <1>3, <1>4, <1>5, <3>1, FlushKeeps
  <2>2. CASE nb # tx_size
    <3>1. tx_bufs' = bufs /\ tx_nb' = nb /\ UNCHANGED <<flush_timer, nic_tx>>
      BY <2>2 DEF Send
    <3>2. tx_nb' \in 0 .. tx_size
      BY <1>1, <1>2, <3>1
    <3>3. Departed' = Departed
      BY <1>1, <3>1 DEF Departed
    <3> HIDE DEF bufs, nb
    <3>4. TxNumbered'
      BY <1>1, <1>3, <1>4, <3>1, <3>3 DEF BufferInv, TxInv, TxNumbered
    <3> QED BY <1>1, <1>3, <1>5, <3>1, <3>2, <3>4 DEF BufferInv, TxInv, MAX_PKT_BURST
  <2> QED BY <2>1, <2>2
<1> QED BY <1>1, <1>3, <1>6 DEF BufferInv, RxInv

LEMMA NicSendKeeps ==
    ASSUME BufferInv, NicSend
    PROVE  BufferInv'
<1> DEFINE h == Head(nic_tx)
<1>1. /\ nic_tx # <<>> /\ nic_tx' = Tail(nic_tx) /\ wire' = Append(wire, h)
      /\ UNCHANGED <<port, tx_bufs, tx_nb, flush_timer, total_tx_nb, pc,
                     rx_bufs, rx_nb, rx_iter, nic_rx, arrived, taken>>
  BY DEF NicSend, rxVars
<1>2. /\ nic_tx \in Seq(1 .. MaxTx) /\ wire \in Seq(1 .. MaxTx) /\ Len(wire) \in Nat
      /\ Len(nic_tx) <= port.txd /\ port.txd \in Nat /\ tx_nb \in Nat /\ rx_size \in Nat
  BY Types, Constants
<1>3. /\ h \in 1 .. MaxTx /\ h = nic_tx[1] /\ Tail(nic_tx) \in Seq(1 .. MaxTx)
      /\ Len(nic_tx) \in Nat /\ Len(nic_tx) >= 1 /\ Len(Tail(nic_tx)) = Len(nic_tx) - 1
      /\ \A i \in 1 .. Len(Tail(nic_tx)) :
            Tail(nic_tx)[i] = nic_tx[i + 1] /\ i + 1 \in 1 .. Len(nic_tx)
  BY <1>1, <1>2, TailFacts
<1> HIDE DEF h
<1>4. /\ wire' \in Seq(1 .. MaxTx) /\ Len(wire') = Len(wire) + 1
      /\ \A i \in 1 .. Len(wire) : wire'[i] = wire[i]
      /\ wire'[Len(wire) + 1] = h
  BY <1>1, <1>2, <1>3, AppendFacts
<1>5. TxNumbered
  BY DEF BufferInv, TxInv
<1>6. h = Len(wire) + 1
  <2>1. 1 \in 1 .. Len(nic_tx)
    BY <1>3
  <2> QED BY <1>3, <1>5, <2>1 DEF TxNumbered
<1>7. Departed' = Departed
  <2>1. Len(nic_tx') = Len(nic_tx) - 1
    BY <1>1, <1>3
  <2>2. Len(nic_tx) \in Nat /\ Len(wire) \in Nat
    BY <1>2, <1>3
  <2>3. Len(wire') = Len(wire) + 1
    BY <1>4
  <2> QED BY <2>1, <2>2, <2>3 DEF Departed
<1>8. ASSUME NEW n \in 1 .. Len(wire') PROVE wire'[n] = n
  <2>1. CASE n \in 1 .. Len(wire)
    BY <1>4, <1>5, <2>1 DEF TxNumbered
  <2>2. CASE n = Len(wire) + 1
    BY <1>4, <1>6, <2>2
  <2> QED BY <1>2, <1>4, <2>1, <2>2
<1>9. ASSUME NEW n \in 1 .. Len(nic_tx') PROVE nic_tx'[n] = Len(wire') + n
  <2>1. Tail(nic_tx)[n] = nic_tx[n + 1] /\ n + 1 \in 1 .. Len(nic_tx) /\ n \in Nat
    BY <1>1, <1>3
  <2>2. nic_tx[n + 1] = Len(wire) + (n + 1)
    BY <1>5, <2>1 DEF TxNumbered
  <2> QED BY <1>1, <1>2, <1>4, <2>1, <2>2
<1>10. TxNumbered'
  BY <1>1, <1>5, <1>7, <1>8, <1>9 DEF TxNumbered
<1>11. Len(nic_tx') = Len(nic_tx) - 1 /\ Len(nic_tx') <= port.txd
  BY <1>1, <1>2, <1>3
<1>12. port.count => Len(nic_tx') + tx_nb <= 2 * MAX_PKT_BURST
  <2>1. port.count => Len(nic_tx) + tx_nb <= 2 * MAX_PKT_BURST
    BY DEF BufferInv, TxInv
  <2>2. Len(nic_tx) \in Nat /\ tx_nb \in Nat /\ MAX_PKT_BURST \in Nat
    BY <1>2, <1>3 DEF MAX_PKT_BURST
  <2>3. Len(nic_tx') = Len(nic_tx) - 1
    BY <1>11
  <2> QED BY <2>1, <2>2, <2>3
<1>13. TxInv'
  BY <1>1, <1>3, <1>4, <1>10, <1>11, <1>12 DEF BufferInv, TxInv, MAX_PKT_BURST
<1> QED BY <1>1, <1>13 DEF BufferInv, RxInv

(* The batch receive() reads from: fetched anew, or the one in rx_bufs.    *)
Batch ==
    IF Refill
    THEN [i \in Slots(rx_size) |-> IF i < RxBurst THEN nic_rx[i + 1] ELSE rx_bufs[i]]
    ELSE rx_bufs
BatchNb == IF Refill THEN RxBurst ELSE rx_nb
BatchIter == IF Refill THEN 0 ELSE rx_iter
BatchLeft == IF Refill THEN SubSeq(nic_rx, RxBurst + 1, Len(nic_rx)) ELSE nic_rx

LEMMA BatchFacts ==
    ASSUME BufferInv
    PROVE  /\ RxBurst \in Nat /\ RxBurst <= Len(nic_rx) /\ RxBurst <= rx_size
           /\ RxBurst = 0 => nic_rx = <<>>
           /\ Batch \in [Slots(rx_size) -> 0 .. MaxRx]
           /\ BatchNb \in Nat /\ BatchNb <= rx_size
           /\ BatchIter \in Nat /\ BatchIter <= BatchNb /\ (BatchNb # 0 => BatchIter < BatchNb)
           /\ \A i \in 0 .. BatchNb - 1 : Batch[i] \in 1 .. MaxRx
           /\ BatchLeft \in Seq(1 .. MaxRx) /\ Len(BatchLeft) \in Nat
           /\ Len(BatchLeft) <= Len(nic_rx)
           /\ Refill =>
                /\ Len(BatchLeft) = Len(nic_rx) - RxBurst
                /\ \A i \in 1 .. Len(nic_rx) - RxBurst : BatchLeft[i] = nic_rx[RxBurst + i]
                /\ \A i \in 0 .. RxBurst - 1 : Batch[i] = nic_rx[i + 1]
<1> DEFINE n == RxBurst
<1>0. /\ rx_size \in Nat /\ rx_size >= 1 /\ MaxRx \in Nat /\ Len(nic_rx) \in Nat
      /\ nic_rx \in Seq(1 .. MaxRx) /\ rx_bufs \in [Slots(rx_size) -> 0 .. MaxRx]
      /\ rx_nb \in Nat /\ rx_nb <= rx_size /\ rx_iter \in Nat /\ rx_iter <= rx_nb
  BY Types, Constants
<1>1. n \in Nat /\ n <= Len(nic_rx) /\ n <= rx_size /\ (n = 0 => Len(nic_rx) = 0)
  BY <1>0 DEF RxBurst
<1>2. n = 0 => nic_rx = <<>>
  BY <1>0, <1>1
<1> HIDE DEF n
<1>3. CASE ~Refill
  <2>1. Batch = rx_bufs /\ BatchNb = rx_nb /\ BatchIter = rx_iter /\ BatchLeft = nic_rx
    BY <1>3 DEF Batch, BatchNb, BatchIter, BatchLeft
  <2>2. rx_iter < rx_nb
    BY <1>0, <1>3 DEF Refill
  <2> QED BY <1>0, <1>1, <1>2, <1>3, <2>1, <2>2 DEF BufferInv, RxInv, n
<1>4. CASE Refill
  <2>1. /\ Batch = [i \in Slots(rx_size) |-> IF i < n THEN nic_rx[i + 1] ELSE rx_bufs[i]]
        /\ BatchNb = n /\ BatchIter = 0 /\ BatchLeft = SubSeq(nic_rx, n + 1, Len(nic_rx))
    BY <1>4 DEF Batch, BatchNb, BatchIter, BatchLeft, n
  <2>2. ASSUME NEW i \in 0 .. n - 1
        PROVE  i \in Slots(rx_size) /\ nic_rx[i + 1] \in 1 .. MaxRx /\ Batch[i] = nic_rx[i + 1]
    <3>1. i \in Slots(rx_size) /\ i < n /\ i + 1 \in 1 .. Len(nic_rx)
      BY <1>0, <1>1 DEF Slots
    <3> QED BY <1>0, <2>1, <3>1
  <2>3. Batch \in [Slots(rx_size) -> 0 .. MaxRx]
    <3>1. ASSUME NEW i \in Slots(rx_size)
          PROVE  (IF i < n THEN nic_rx[i + 1] ELSE rx_bufs[i]) \in 0 .. MaxRx
      <4>1. CASE i < n
        <5>1. i \in 0 .. n - 1
          BY <1>0, <1>1, <4>1 DEF Slots
        <5> QED BY <1>0, <2>2, <4>1, <5>1
      <4>2. CASE ~(i < n)
        BY <1>0, <4>2
      <4> QED BY <4>1, <4>2
    <3> QED BY <2>1, <3>1
  <2>4. /\ BatchLeft \in Seq(1 .. MaxRx) /\ Len(BatchLeft) = Len(nic_rx) - n
        /\ \A i \in 1 .. Len(nic_rx) - n : BatchLeft[i] = nic_rx[n + i]
    BY <1>0, <1>1, <2>1
  <2>5. Len(BatchLeft) \in Nat /\ Len(BatchLeft) <= Len(nic_rx)
    BY <1>0, <1>1, <2>4
  <2>6. \A i \in 0 .. BatchNb - 1 : Batch[i] \in 1 .. MaxRx
    BY <2>1, <2>2
  <2>7. BatchNb \in Nat /\ BatchNb <= rx_size /\ BatchIter \in Nat /\ BatchIter <= BatchNb
        /\ (BatchNb # 0 => BatchIter < BatchNb)
    BY <1>1, <2>1
  <2>8. \A i \in 0 .. n - 1 : Batch[i] = nic_rx[i + 1]
    BY <2>2
  <2> QED BY <1>1, <1>2, <2>3, <2>4, <2>5, <2>6, <2>7, <2>8 DEF n
<1> QED BY <1>3, <1>4

LEMMA RxProcessShape ==
    ASSUME RxProcess
    PROVE  /\ CheckFlushTimer
           /\ UNCHANGED <<port, total_tx_nb, arrived, wire>>
           /\ rx_bufs' = Batch /\ rx_nb' = BatchNb /\ nic_rx' = BatchLeft
           /\ pc' \in {"rx", "tx"}
           /\ \/ BatchNb = 0 /\ rx_iter' = BatchIter /\ taken' = taken
              \/ /\ BatchNb # 0 /\ rx_iter' = BatchIter + 1
                 /\ taken' = Append(taken, Batch[BatchIter])
BY DEF RxProcess, Batch, BatchNb, BatchIter, BatchLeft

LEMMA RxProcessKeeps ==
    ASSUME BufferInv, RxProcess
    PROVE  BufferInv'
<1>1. /\ CheckFlushTimer
      /\ UNCHANGED <<port, total_tx_nb, arrived, wire>>
      /\ rx_bufs' = Batch /\ rx_nb' = BatchNb /\ nic_rx' = BatchLeft
      /\ pc' \in {"rx", "tx"}
      /\ \/ BatchNb = 0 /\ rx_iter' = BatchIter /\ taken' = taken
         \/ /\ BatchNb # 0 /\ rx_iter' = BatchIter + 1
            /\ taken' = Append(taken, Batch[BatchIter])
  BY RxProcessShape
<1>2. TxInv'
  BY <1>1, TimerKeeps
<1>3. /\ rx_size \in Nat /\ taken \in Seq(1 .. MaxRx)
      /\ RxRing \in Nat /\ Len(nic_rx) \in Nat /\ Len(nic_rx) <= RxRing
  BY Types, Constants
<1>4. rx_iter' \in 0 .. rx_nb' /\ rx_nb' \in 0 .. rx_size
  BY <1>1, <1>3, BatchFacts
<1>5. taken' \in Seq(1 .. MaxRx)
  <2>1. CASE BatchNb = 0
    BY <1>1, <1>3, <2>1
  <2>2. CASE BatchNb # 0
    <3>1. BatchIter \in 0 .. BatchNb - 1
      BY <2>2, BatchFacts
    <3>2. Batch[BatchIter] \in 1 .. MaxRx
      BY <3>1, BatchFacts
    <3> QED BY <1>1, <1>3, <2>2, <3>2, AppendFacts
  <2> QED BY <2>1, <2>2
<1>6. Len(nic_rx') <= RxRing /\ nic_rx' \in Seq(1 .. MaxRx)
  BY <1>1, <1>3, BatchFacts
<1>7. RxInv'
  BY <1>1, <1>4, <1>5, <1>6, BatchFacts DEF BufferInv, RxInv
<1>8. pc' \in {"rx", "tx", "send"} /\ pc' # "send"
  BY <1>1
<1> QED BY <1>1, <1>2, <1>7, <1>8 DEF BufferInv

LEMMA NicReceiveKeeps ==
    ASSUME BufferInv, NicReceive
    PROVE  BufferInv'
<1>1. /\ arrived < MaxRx /\ arrived' = arrived + 1
      /\ nic_rx' = IF Len(nic_rx) < RxRing THEN Append(nic_rx, arrived + 1) ELSE nic_rx
      /\ UNCHANGED <<port, tx_bufs, tx_nb, flush_timer, nic_tx, rx_bufs, rx_nb, rx_iter,
                     taken, total_tx_nb, pc, wire>>
  BY DEF NicReceive, txVars
<1>2. /\ arrived \in Nat /\ MaxRx \in Nat /\ RxRing \in Nat /\ Len(nic_rx) \in Nat
      /\ nic_rx \in Seq(1 .. MaxRx) /\ Len(nic_rx) <= RxRing
  BY Types, Constants
<1>3. arrived + 1 \in 1 .. MaxRx /\ arrived' \in 0 .. MaxRx
  BY <1>1, <1>2
<1>4. nic_rx' \in Seq(1 .. MaxRx) /\ Len(nic_rx') <= RxRing
  <2>1. CASE Len(nic_rx) < RxRing
    <3> DEFINE e == arrived + 1
    <3>1. nic_rx' = Append(nic_rx, e) /\ e \in 1 .. MaxRx
      BY <1>1, <1>3, <2>1
    <3> HIDE DEF e
    <3>2. nic_rx' \in Seq(1 .. MaxRx) /\ Len(nic_rx') = Len(nic_rx) + 1
      BY <1>2, <3>1, AppendFacts
    <3> QED BY <1>2, <2>1, <3>2
  <2>2. CASE ~(Len(nic_rx) < RxRing)
    BY <1>1, <1>2, <2>2
  <2> QED BY <2>1, <2>2
<1>5. RxInv'
  BY <1>1, <1>3, <1>4 DEF BufferInv, RxInv
<1>6. TxInv'
  BY <1>1 DEF BufferInv, TxInv, TxNumbered, Departed, MAX_PKT_BURST
<1> QED BY <1>1, <1>5, <1>6 DEF BufferInv

(* The steps of the worker that only move its pc.                          *)
LEMMA PcKeeps ==
    ASSUME BufferInv, Transmit \/ EndTx \/ UNCHANGED vars
    PROVE  BufferInv'
<1>1. UNCHANGED <<port, tx_bufs, tx_nb, flush_timer, nic_tx, rx_bufs, rx_nb, rx_iter, nic_rx,
                  arrived, taken, total_tx_nb, wire>>
  BY DEF Transmit, EndTx, vars, txVars, rxVars
<1>2. pc' \in {"rx", "tx", "send"} /\ (pc' = "send" => total_tx_nb < MaxTx)
  BY DEF Transmit, EndTx, vars, BufferInv
<1>3. TxInv'
  BY <1>1 DEF BufferInv, TxInv, TxNumbered, Departed, MAX_PKT_BURST
<1> QED BY <1>1, <1>2, <1>3 DEF BufferInv, RxInv

LEMMA BufferInit == Init => BufferInv
<1> SUFFICES ASSUME Init PROVE BufferInv
  OBVIOUS
<1>1. /\ port \in Ports /\ tx_nb = 0 /\ rx_nb = 0 /\ rx_iter = 0 /\ flush_timer = 0
      /\ total_tx_nb = 0 /\ pc = "rx" /\ nic_tx = <<>> /\ nic_rx = <<>> /\ arrived = 0
      /\ wire = <<>> /\ taken = <<>>
  BY DEF Init
<1>2. tx_bufs \in [Slots(tx_size) -> 0 .. MaxTx] /\ rx_bufs \in [Slots(rx_size) -> 0 .. MaxRx]
  BY Constants DEF Init, NoBuf
<1>3. Len(nic_tx) = 0 /\ Len(nic_rx) = 0 /\ Len(wire) = 0
  BY <1>1
<1>4. TxNumbered
  <2>1. tx_nb = 0 /\ total_tx_nb = 0
    BY <1>1
  <2> QED BY <1>3, <2>1 DEF TxNumbered, Departed
<1>5. TxInv
  <2>1. tx_nb \in 0 .. tx_size /\ flush_timer \in 0 .. 2 * tx_size /\ Len(nic_tx) <= port.txd
    BY <1>1, <1>3, Constants
  <2>2. Len(nic_tx) + tx_nb <= 2 * MAX_PKT_BURST
    BY <1>1, <1>3, Constants DEF MAX_PKT_BURST
  <2> QED BY <1>1, <1>2, <1>4, <2>1, <2>2 DEF TxInv
<1>6. RxInv
  <2>1. rx_nb \in 0 .. rx_size /\ rx_iter \in 0 .. rx_nb /\ arrived \in 0 .. MaxRx
        /\ Len(nic_rx) <= RxRing
    BY <1>1, <1>3, Constants
  <2> QED BY <1>1, <1>2, <2>1 DEF RxInv
<1> QED BY <1>1, <1>5, <1>6, Constants DEF BufferInv

LEMMA BufferNext == BufferInv /\ [Next]_vars => BufferInv'
<1> SUFFICES ASSUME BufferInv, [Next]_vars PROVE BufferInv'
  OBVIOUS
<1>1. CASE RxProcess
  BY <1>1, RxProcessKeeps
<1>2. CASE Transmit \/ EndTx \/ UNCHANGED vars
  BY <1>2, PcKeeps
<1>3. CASE SendWait
  BY <1>3, SendWaitKeeps
<1>4. CASE Send
  BY <1>4, SendKeeps
<1>5. CASE NicSend
  BY <1>5, NicSendKeeps
<1>6. CASE NicReceive
  BY <1>6, NicReceiveKeeps
<1> QED BY <1>1, <1>2, <1>3, <1>4, <1>5, <1>6 DEF Next

LEMMA BufferInvariance == Spec => []BufferInv
BY BufferInit, BufferNext, PTL DEF Spec
-----------------------------------------------------------------------------
(* The two directions as queues.                                           *)

(* What is on its way out is the packets from one number to another.       *)
LEMMA TxPendingFacts ==
    ASSUME BufferInv
    PROVE  /\ TxPending \in Seq(1 .. MaxTx)
           /\ Len(TxPending) = Len(nic_tx) + tx_nb
           /\ Len(wire) + Len(TxPending) = total_tx_nb
           /\ \A n \in 1 .. Len(TxPending) : TxPending[n] = Len(wire) + n
<1> DEFINE b == [i \in 1 .. tx_nb |-> tx_bufs[i - 1]]
           x == Len(nic_tx)
           w == Len(wire)
<1>0. /\ tx_nb \in Nat /\ x \in Nat /\ w \in Nat /\ MaxTx \in Nat
      /\ nic_tx \in Seq(1 .. MaxTx) /\ total_tx_nb \in Nat /\ total_tx_nb <= MaxTx
  BY Types, Constants
<1>1. /\ (w + x) + tx_nb = total_tx_nb
      /\ \A n \in 1 .. x : nic_tx[n] = w + n
      /\ \A i \in 0 .. tx_nb - 1 : tx_bufs[i] = (w + x) + i + 1
  BY DEF BufferInv, TxInv, TxNumbered, Departed
<1> HIDE DEF x, w
<1>2. \A i \in 0 .. tx_nb - 1 : tx_bufs[i] \in 1 .. MaxTx
  BY <1>0, <1>1
<1>3. b \in Seq(1 .. MaxTx) /\ Len(b) = tx_nb /\ \A i \in 1 .. tx_nb : b[i] = tx_bufs[i - 1]
  BY <1>0, <1>2, BurstSeq
<1>4. TxPending = nic_tx \o b
  BY DEF TxPending
<1> HIDE DEF b
<1>5. /\ TxPending \in Seq(1 .. MaxTx) /\ Len(TxPending) = x + tx_nb
      /\ \A n \in 1 .. x + tx_nb : TxPending[n] = IF n <= x THEN nic_tx[n] ELSE b[n - x]
  BY <1>0, <1>3, <1>4, ConcatFacts DEF x
<1>6. ASSUME NEW n \in 1 .. x + tx_nb PROVE TxPending[n] = w + n
  <2>0. n \in Nat
    OBVIOUS
  <2>1. CASE n <= x
    <3>1. n \in 1 .. x
      BY <1>0, <2>1
    <3> QED BY <1>1, <1>5, <2>1, <3>1
  <2>2. CASE ~(n <= x)
    <3>1. n - x \in 1 .. tx_nb /\ (n - x) - 1 \in 0 .. tx_nb - 1
      BY <1>0, <2>2
    <3>2. TxPending[n] = tx_bufs[(n - x) - 1]
      BY <1>3, <1>5, <2>2, <3>1
    <3>3. tx_bufs[(n - x) - 1] = (w + x) + ((n - x) - 1) + 1
      BY <1>1, <3>1
    <3> QED BY <1>0, <2>0, <3>2, <3>3
  <2> QED BY <2>1, <2>2
<1>7. w + (x + tx_nb) = total_tx_nb
  BY <1>0, <1>1
<1> QED BY <1>5, <1>6, <1>7 DEF x, w

LEMMA InvImpliesSentWhole == BufferInv => SentWhole
<1> SUFFICES ASSUME BufferInv PROVE SentWhole
  OBVIOUS
<1>1. TypeOK
  BY DEF BufferInv, TxInv, RxInv, TypeOK
<1> DEFINE t == TxPending
           s == wire \o t
           id == [n \in 1 .. total_tx_nb |-> n]
<1>2. /\ t \in Seq(1 .. MaxTx) /\ wire \in Seq(1 .. MaxTx) /\ Len(wire) \in Nat /\ Len(t) \in Nat
      /\ total_tx_nb \in Nat /\ total_tx_nb <= MaxTx /\ MaxTx \in Nat
      /\ Len(wire) + Len(t) = total_tx_nb
      /\ \A n \in 1 .. Len(t) : t[n] = Len(wire) + n
      /\ \A n \in 1 .. Len(wire) : wire[n] = n
  <2>1. t \in Seq(1 .. MaxTx) /\ Len(wire) + Len(t) = total_tx_nb
        /\ \A n \in 1 .. Len(t) : t[n] = Len(wire) + n
    BY TxPendingFacts
  <2>2. \A n \in 1 .. Len(wire) : wire[n] = n
    BY DEF BufferInv, TxInv, TxNumbered
  <2>3. Len(t) \in Nat
    BY <2>1
  <2> QED BY <2>1, <2>2, <2>3, Types, Constants
<1> HIDE DEF t
<1>3. /\ s \in Seq(1 .. MaxTx) /\ Len(s) = total_tx_nb
      /\ \A i \in 1 .. total_tx_nb : s[i] = IF i <= Len(wire) THEN wire[i] ELSE t[i - Len(wire)]
  BY <1>2, ConcatFacts
<1>4. ASSUME NEW i \in 1 .. total_tx_nb PROVE s[i] = i
  <2>1. CASE i <= Len(wire)
    <3>1. i \in 1 .. Len(wire)
      BY <1>2, <2>1
    <3> QED BY <1>2, <1>3, <2>1, <3>1
  <2>2. CASE ~(i <= Len(wire))
    <3>1. i - Len(wire) \in 1 .. Len(t)
      BY <1>2, <2>2
    <3>2. s[i] = Len(wire) + (i - Len(wire))
      BY <1>2, <1>3, <2>2, <3>1
    <3> QED BY <1>2, <3>2
  <2> QED BY <2>1, <2>2
<1>5. id \in Seq(1 .. MaxTx) /\ Len(id) = total_tx_nb /\ \A i \in 1 .. total_tx_nb : id[i] = i
  BY <1>2
<1> HIDE DEF s, id
<1>6. s = id
  BY <1>3, <1>4, <1>5, SeqEqual
<1> QED BY <1>1, <1>6 DEF SentWhole, s, t, id

LEMMA InvImpliesInFlight == BufferInv => InFlightLimited
BY TxPendingFacts DEF BufferInv, TxInv, InFlightLimited

(* Every packet handed to send() is, in order, on the wire, in the ring of *)
(* the NIC or in tx_bufs, for bursts and rings of any size and wherever    *)
(* rte_eth_tx_burst() cuts a burst (process_buffer.hpp, send, flush_once). *)
THEOREM NothingLostOnTheWayOut == Spec => []SentWhole
BY BufferInvariance, InvImpliesSentWhole, PTL

(* The wait of transmit() keeps the packets between the worker and the     *)
(* wire to two bursts, whatever the size of the ring (process_buffer.hpp,  *)
(* transmit).                                                              *)
THEOREM TwoBurstsInFlight == Spec => []InFlightLimited
BY BufferInvariance, InvImpliesInFlight, PTL

-----------------------------------------------------------------------------
(* The way out implements PacketQueue, as far as safety goes.              *)

(* The pending packets, in terms of the two counters.                      *)
TxView ==
    /\ TxPending \in Seq(1 .. MaxTx) /\ Len(wire) \in Nat
    /\ Len(wire) + Len(TxPending) = total_tx_nb
    /\ \A n \in 1 .. Len(TxPending) : TxPending[n] = Len(wire) + n

LEMMA InvImpliesTxView == BufferInv => TxView
BY TxPendingFacts, Types DEF TxView

LEMMA TxSame ==
    ASSUME TxView, TxView', wire' = wire, total_tx_nb' = total_tx_nb
    PROVE  UNCHANGED Tx!vars
<1> DEFINE a == TxPending
           b == TxPending'
           w == Len(wire)
<1>1. /\ a \in Seq(1 .. MaxTx) /\ w + Len(a) = total_tx_nb /\ w \in Nat
      /\ \A n \in 1 .. Len(a) : a[n] = w + n
  BY DEF TxView
<1>2. /\ b \in Seq(1 .. MaxTx) /\ w + Len(b) = total_tx_nb
      /\ \A n \in 1 .. Len(b) : b[n] = w + n
  BY DEF TxView
<1> HIDE DEF a, b, w
<1>3. Len(a) \in Nat /\ Len(b) \in Nat
  BY <1>1, <1>2
<1>4. Len(a) = Len(b)
  BY <1>1, <1>2, <1>3
<1>5. a = b
  BY <1>1, <1>2, <1>4, SeqEqual
<1> QED BY <1>5 DEF a, b, Tx!vars

LEMMA TxMore ==
    ASSUME TxView, TxView', wire' = wire, total_tx_nb' = total_tx_nb + 1
    PROVE  \E p \in 1 .. MaxTx : Tx!Enqueue(p)
<1> DEFINE a == TxPending
           b == TxPending'
           w == Len(wire)
           x == Len(a)
           e == b[x + 1]
           c == Append(a, e)
<1>1. /\ a \in Seq(1 .. MaxTx) /\ w + Len(a) = total_tx_nb /\ w \in Nat
      /\ \A n \in 1 .. Len(a) : a[n] = w + n
  BY DEF TxView
<1>2. /\ b \in Seq(1 .. MaxTx) /\ w + Len(b) = total_tx_nb + 1
      /\ \A n \in 1 .. Len(b) : b[n] = w + n
  BY DEF TxView
<1> HIDE DEF a, b, w
<1>3. x \in Nat /\ Len(b) \in Nat
  BY <1>1, <1>2
<1>4. Len(b) = x + 1
  BY <1>1, <1>2, <1>3
<1>5. e \in 1 .. MaxTx
  <2>1. x + 1 \in 1 .. Len(b)
    BY <1>3, <1>4
  <2>2. b \in Seq(1 .. MaxTx)
    BY <1>2
  <2> HIDE DEF x
  <2> QED BY <2>1, <2>2, ElementOfSeq
<1> HIDE DEF e
<1>6. /\ c \in Seq(1 .. MaxTx) /\ Len(c) = x + 1 /\ c[x + 1] = e
      /\ \A i \in 1 .. x : c[i] = a[i]
  BY <1>1, <1>5, AppendFacts
<1> HIDE DEF c
<1>7. ASSUME NEW i \in 1 .. Len(b) PROVE b[i] = c[i]
  <2>1. CASE i \in 1 .. x
    BY <1>1, <1>2, <1>6, <2>1
  <2>2. CASE i = x + 1
    BY <1>6, <2>2 DEF e
  <2> QED BY <1>3, <1>4, <2>1, <2>2
<1>8. b = c
  BY <1>2, <1>4, <1>6, <1>7, SeqEqual
<1> QED BY <1>5, <1>8 DEF a, b, c, Tx!Enqueue

LEMMA TxLess ==
    ASSUME BufferInv, TxView, TxView', NicSend
    PROVE  Tx!Dequeue
<1> DEFINE a == TxPending
           b == TxPending'
           w == Len(wire)
           h == Head(nic_tx)
<1>0. nic_tx # <<>> /\ total_tx_nb' = total_tx_nb /\ wire' = Append(wire, h)
  BY DEF NicSend
<1>1. /\ a \in Seq(1 .. MaxTx) /\ w + Len(a) = total_tx_nb /\ w \in Nat
      /\ \A n \in 1 .. Len(a) : a[n] = w + n
  BY DEF TxView
<1>2. /\ h \in 1 .. MaxTx /\ h = nic_tx[1] /\ Len(nic_tx) \in Nat /\ Len(nic_tx) >= 1
      /\ wire \in Seq(1 .. MaxTx)
  <2>1. nic_tx \in Seq(1 .. MaxTx) /\ wire \in Seq(1 .. MaxTx)
    BY Types
  <2> QED BY <1>0, <2>1, TailFacts
<1>3. h = w + 1
  <2>1. 1 \in 1 .. Len(nic_tx)
    BY <1>2
  <2> QED BY <1>2, <2>1 DEF BufferInv, TxInv, TxNumbered
<1>4. Len(a) = Len(nic_tx) + tx_nb /\ tx_nb \in Nat
  BY TxPendingFacts, Types
<1>5. Len(a) \in Nat /\ Len(a) >= 1
  BY <1>2, <1>4
<1>6. Len(wire') = w + 1
  <2> HIDE DEF h
  <2> QED BY <1>0, <1>2, AppendFacts
<1>7. /\ b \in Seq(1 .. MaxTx) /\ (w + 1) + Len(b) = total_tx_nb
      /\ \A n \in 1 .. Len(b) : b[n] = (w + 1) + n
  BY <1>0, <1>6 DEF TxView
<1> HIDE DEF a, b, w, h
<1>8. a # <<>>
  BY <1>5
<1>9. /\ Head(a) = a[1] /\ Tail(a) \in Seq(1 .. MaxTx) /\ Len(Tail(a)) = Len(a) - 1
      /\ \A i \in 1 .. Len(Tail(a)) : Tail(a)[i] = a[i + 1] /\ i + 1 \in 1 .. Len(a)
  BY <1>1, <1>8, TailFacts
<1>10. Len(b) = Len(a) - 1
  <2>1. Len(b) \in Nat
    BY <1>7
  <2>2. (w + 1) + Len(b) = w + Len(a)
    BY <1>1, <1>7
  <2> QED BY <1>1, <1>5, <2>1, <2>2
<1>11. ASSUME NEW i \in 1 .. Len(b) PROVE b[i] = Tail(a)[i]
  <2>1. Tail(a)[i] = a[i + 1] /\ i + 1 \in 1 .. Len(a) /\ i \in Nat
    BY <1>9, <1>10
  <2>2. a[i + 1] = w + (i + 1) /\ b[i] = (w + 1) + i
    BY <1>1, <1>7, <2>1
  <2> QED BY <1>1, <2>1, <2>2
<1>12. b = Tail(a)
  BY <1>7, <1>9, <1>10, <1>11, SeqEqual
<1>13. Head(a) = h
  BY <1>1, <1>3, <1>5, <1>9
<1> QED BY <1>0, <1>8, <1>12, <1>13 DEF a, b, Tx!Dequeue

LEMMA TxStep ==
    ASSUME BufferInv, TxView, TxView', [Next]_vars
    PROVE  [Tx!Next]_(Tx!vars)
<1>1. CASE wire' = wire /\ total_tx_nb' = total_tx_nb
  BY <1>1, TxSame
<1>2. CASE Send
  BY <1>2, TxMore DEF Send, Tx!Next
<1>3. CASE NicSend
  BY <1>3, TxLess DEF Tx!Next
<1> QED BY <1>1, <1>2, <1>3 DEF Next, RxProcess, Transmit, SendWait, EndTx, NicReceive, vars

LEMMA TxStart == Init => Tx!Init
<1> SUFFICES ASSUME Init PROVE Tx!Init
  OBVIOUS
<1>1. TxPending \in Seq(1 .. MaxTx) /\ Len(TxPending) = Len(nic_tx) + tx_nb
  BY BufferInit, TxPendingFacts
<1>2. Len(nic_tx) = 0 /\ tx_nb = 0 /\ wire = <<>>
  BY DEF Init
<1>3. Len(TxPending) = 0
  BY <1>1, <1>2
<1>4. TxPending = <<>>
  BY <1>1, <1>3
<1> QED BY <1>2, <1>4 DEF Tx!Init

(* send(), its bursts and the NIC take every packet in order and let it    *)
(* out once and in order: every step is one of the abstract queue or none  *)
(* (process_buffer.hpp, send and flush_once).                              *)
THEOREM TxQueueSafety == Spec => Tx!Init /\ [][Tx!Next]_(Tx!vars)
<1>1. BufferInv /\ TxView /\ TxView' /\ [Next]_vars => [Tx!Next]_(Tx!vars)
  BY TxStep
<1>2. Spec => []BufferInv
  BY BufferInvariance
<1> QED BY <1>1, <1>2, TxStart, InvImpliesTxView, PTL DEF Spec
-----------------------------------------------------------------------------
(* The way in implements PacketQueue, as far as safety goes.               *)

Unread == rx_nb - rx_iter

RxView ==
    /\ RxPending \in Seq(1 .. MaxRx)
    /\ Unread \in Nat /\ nic_rx \in Seq(1 .. MaxRx)
    /\ Len(RxPending) = Unread + Len(nic_rx)
    /\ \A i \in 1 .. Unread + Len(nic_rx) :
          RxPending[i] = IF i <= Unread THEN rx_bufs[rx_iter + i - 1] ELSE nic_rx[i - Unread]

LEMMA InvImpliesRxView == BufferInv => RxView
<1> SUFFICES ASSUME BufferInv PROVE RxView
  OBVIOUS
<1> DEFINE k == rx_nb - rx_iter
           b == [i \in 1 .. k |-> rx_bufs[rx_iter + i - 1]]
<1>0. /\ rx_nb \in Nat /\ rx_iter \in Nat /\ rx_iter <= rx_nb /\ MaxRx \in Nat
      /\ nic_rx \in Seq(1 .. MaxRx)
      /\ \A i \in 0 .. rx_nb - 1 : rx_bufs[i] \in 1 .. MaxRx
  BY Types, Constants DEF BufferInv, RxInv
<1>1. k \in Nat /\ Unread = k /\ RxPending = b \o nic_rx
  BY <1>0 DEF Unread, RxPending
<1>2. \A i \in 1 .. k : rx_bufs[rx_iter + i - 1] \in 1 .. MaxRx
  <2> TAKE i \in 1 .. k
  <2>1. rx_iter + i - 1 \in 0 .. rx_nb - 1
    BY <1>0
  <2> QED BY <1>0, <2>1
<1> HIDE DEF k
<1>3. b \in Seq(1 .. MaxRx) /\ Len(b) = k /\ \A i \in 1 .. k : b[i] = rx_bufs[rx_iter + i - 1]
  BY <1>1, <1>2
<1> HIDE DEF b
<1>4. /\ RxPending \in Seq(1 .. MaxRx) /\ Len(RxPending) = k + Len(nic_rx)
      /\ \A i \in 1 .. k + Len(nic_rx) :
            RxPending[i] = IF i <= k THEN b[i] ELSE nic_rx[i - k]
  BY <1>0, <1>1, <1>3, ConcatFacts
<1>5. ASSUME NEW i \in 1 .. k + Len(nic_rx)
      PROVE  RxPending[i] = IF i <= k THEN rx_bufs[rx_iter + i - 1] ELSE nic_rx[i - k]
  <2>1. CASE i <= k
    <3>1. i \in 1 .. k
      BY <1>1, <2>1
    <3> QED BY <1>3, <1>4, <2>1, <3>1
  <2>2. CASE ~(i <= k)
    BY <1>4, <2>2
  <2> QED BY <2>1, <2>2
<1> QED BY <1>0, <1>1, <1>4, <1>5 DEF RxView

(* receive() returns the oldest packet, from the batch or from the ring,   *)
(* or finds that there is none.                                            *)
LEMMA RxTake ==
    ASSUME BufferInv, RxView, RxView', RxProcess
    PROVE  Rx!Dequeue \/ UNCHANGED Rx!vars
<1> DEFINE a == RxPending
           b == RxPending'
           x == Len(nic_rx)
           n == RxBurst
           k == Unread
           kk == Unread'
           xx == Len(nic_rx')
<1>0. /\ rx_bufs' = Batch /\ rx_nb' = BatchNb /\ nic_rx' = BatchLeft
      /\ \/ BatchNb = 0 /\ rx_iter' = BatchIter /\ taken' = taken
         \/ /\ BatchNb # 0 /\ rx_iter' = BatchIter + 1
            /\ taken' = Append(taken, Batch[BatchIter])
  BY RxProcessShape
<1>1. /\ a \in Seq(1 .. MaxRx) /\ k \in Nat /\ Len(a) = k + x
      /\ \A i \in 1 .. k + x : a[i] = IF i <= k THEN rx_bufs[rx_iter + i - 1] ELSE nic_rx[i - k]
  BY DEF RxView
<1>2. /\ b \in Seq(1 .. MaxRx) /\ kk \in Nat /\ Len(b) = kk + xx
      /\ \A i \in 1 .. kk + xx :
            b[i] = IF i <= kk THEN rx_bufs'[rx_iter' + i - 1] ELSE nic_rx'[i - kk]
  BY DEF RxView
<1>3. k = rx_nb - rx_iter /\ kk = rx_nb' - rx_iter'
  BY DEF Unread
<1>4. /\ rx_nb \in Nat /\ rx_iter \in Nat /\ rx_iter <= rx_nb /\ x \in Nat
      /\ n \in Nat /\ n <= x /\ xx \in Nat
  BY <1>0, Types, BatchFacts
<1>5. CASE BatchNb = 0
  <2>1. Refill /\ n = 0 /\ nic_rx = <<>>
    BY <1>4, <1>5, BatchFacts DEF BatchNb, Refill
  <2>2. k = 0 /\ x = 0 /\ xx = 0
    <3>1. k = 0
      BY <1>3, <1>4, <2>1 DEF Refill
    <3>2. x = 0
      BY <2>1
    <3>3. xx = x - n
      BY <1>0, <2>1, BatchFacts
    <3> QED BY <2>1, <3>1, <3>2, <3>3
  <2>3. kk = 0
    BY <1>0, <1>3, <1>5, <2>1 DEF BatchIter
  <2>4. Len(a) = 0 /\ Len(b) = 0
    BY <1>1, <1>2, <2>2, <2>3
  <2>5. a = <<>> /\ b = <<>>
    <3> HIDE DEF a, b
    <3> QED BY <1>1, <1>2, <2>4
  <2> QED BY <1>0, <1>5, <2>5 DEF Rx!vars
<1>6. CASE BatchNb # 0
  <2>1. rx_iter' = BatchIter + 1 /\ taken' = Append(taken, Batch[BatchIter])
    BY <1>0, <1>6
  <2>2. ASSUME Len(a) >= 1, a[1] = Batch[BatchIter], Len(b) = Len(a) - 1,
               \A i \in 1 .. Len(b) : b[i] = a[i + 1]
        PROVE  Rx!Dequeue
    <3> HIDE DEF a, b
    <3>1. a # <<>>
      BY <1>1, <2>2
    <3>2. /\ Head(a) = a[1] /\ Tail(a) \in Seq(1 .. MaxRx) /\ Len(Tail(a)) = Len(a) - 1
          /\ \A i \in 1 .. Len(Tail(a)) : Tail(a)[i] = a[i + 1] /\ i + 1 \in 1 .. Len(a)
      BY <1>1, <3>1, TailFacts
    <3>3. b = Tail(a)
      <4>1. \A i \in 1 .. Len(b) : b[i] = Tail(a)[i]
        BY <2>2, <3>2
      <4> QED BY <1>2, <2>2, <3>2, <4>1, SeqEqual
    <3> QED BY <2>1, <2>2, <3>1, <3>2, <3>3 DEF a, b, Rx!Dequeue
  <2>3. CASE Refill
    <3>1. n # 0 /\ BatchNb = n /\ BatchIter = 0
      BY <1>6, <2>3 DEF BatchNb, BatchIter
    <3>2. k = 0 /\ kk = n - 1 /\ xx = x - n
      <4>1. k = 0
        BY <1>3, <1>4, <2>3 DEF Refill
      <4>2. kk = n - 1
        BY <1>0, <1>3, <2>1, <3>1
      <4>3. xx = x - n
        BY <1>0, <2>3, BatchFacts
      <4> QED BY <4>1, <4>2, <4>3
    <3>3. /\ \A i \in 1 .. x - n : nic_rx'[i] = nic_rx[n + i]
          /\ \A i \in 0 .. n - 1 : rx_bufs'[i] = nic_rx[i + 1] /\ Batch[i] = nic_rx[i + 1]
      BY <1>0, <2>3, BatchFacts
    <3>4. rx_iter' = 1
      BY <2>1, <3>1
    <3> HIDE DEF a, b, k, kk, x, xx, n
    <3>5. Len(a) = x /\ x >= 1 /\ Len(b) = x - 1
      BY <1>1, <1>2, <1>4, <3>1, <3>2
    <3>6. ASSUME NEW i \in 1 .. x PROVE a[i] = nic_rx[i]
      <4>1. i \in 1 .. k + x /\ ~(i <= k) /\ i - k = i
        BY <1>4, <3>2
      <4> QED BY <1>1, <4>1
    <3>7. Batch[BatchIter] = nic_rx[1]
      <4>1. 0 \in 0 .. n - 1 /\ 0 + 1 = 1
        BY <1>4, <3>1
      <4> QED BY <3>1, <3>3, <4>1
    <3>8. ASSUME NEW i \in 1 .. x - 1 PROVE b[i] = nic_rx[i + 1]
      <4>0. i \in Nat /\ i \in 1 .. kk + xx
        BY <1>4, <3>2
      <4>1. CASE i <= kk
        <5>1. rx_iter' + i - 1 = i /\ i \in 0 .. n - 1
          BY <1>4, <3>2, <3>4, <4>0, <4>1
        <5> QED BY <1>2, <3>3, <4>0, <4>1, <5>1
      <4>2. CASE ~(i <= kk)
        <5>1. i - kk \in 1 .. x - n /\ n + (i - kk) = i + 1
          BY <1>4, <3>1, <3>2, <4>0, <4>2
        <5>2. b[i] = nic_rx'[i - kk] /\ nic_rx'[i - kk] = nic_rx[n + (i - kk)]
          BY <1>2, <3>3, <4>0, <4>2, <5>1
        <5> QED BY <5>1, <5>2
      <4> QED BY <4>1, <4>2
    <3>9. \A i \in 1 .. Len(b) : b[i] = a[i + 1]
      <4> TAKE i \in 1 .. Len(b)
      <4>1. i \in 1 .. x - 1 /\ i + 1 \in 1 .. x
        BY <1>4, <3>5
      <4> QED BY <3>6, <3>8, <4>1
    <3>10. 1 \in 1 .. x
      BY <1>4, <3>5
    <3> QED BY <2>2, <3>5, <3>6, <3>7, <3>9, <3>10
  <2>4. CASE ~Refill
    <3>1. /\ Batch = rx_bufs /\ BatchIter = rx_iter /\ rx_bufs' = rx_bufs /\ nic_rx' = nic_rx
          /\ rx_iter' = rx_iter + 1 /\ rx_nb' = rx_nb
      BY <1>0, <2>1, <2>4 DEF Batch, BatchIter, BatchLeft, BatchNb
    <3>2. k >= 1 /\ kk = k - 1 /\ xx = x
      <4>1. rx_iter < rx_nb
        BY <1>4, <2>4 DEF Refill
      <4>2. k >= 1 /\ kk = k - 1
        BY <1>3, <1>4, <3>1, <4>1
      <4> QED BY <3>1, <4>2
    <3> HIDE DEF a, b, k, kk, x, xx, n
    <3>3. Len(a) = k + x /\ Len(b) = k + x - 1 /\ Len(a) >= 1 /\ Len(b) = Len(a) - 1
      BY <1>1, <1>2, <1>4, <3>2
    <3>4. a[1] = Batch[BatchIter]
      <4>1. 1 \in 1 .. k + x /\ 1 <= k /\ rx_iter + 1 - 1 = rx_iter
        BY <1>1, <1>4, <3>2
      <4> QED BY <1>1, <3>1, <4>1
    <3>5. ASSUME NEW i \in 1 .. Len(b) PROVE b[i] = a[i + 1]
      <4>0. i \in Nat /\ i \in 1 .. kk + xx /\ i + 1 \in 1 .. k + x
        BY <1>1, <1>4, <3>2, <3>3
      <4>1. CASE i <= kk
        <5>1. i + 1 <= k /\ rx_iter' + i - 1 = rx_iter + (i + 1) - 1
          BY <1>1, <1>4, <3>1, <3>2, <4>0, <4>1
        <5> QED BY <1>1, <1>2, <3>1, <4>0, <4>1, <5>1
      <4>2. CASE ~(i <= kk)
        <5>1. ~(i + 1 <= k) /\ i - kk = (i + 1) - k
          BY <1>1, <1>4, <3>2, <4>0, <4>2
        <5> QED BY <1>1, <1>2, <3>1, <4>0, <4>2, <5>1
      <4> QED BY <4>1, <4>2
    <3> QED BY <2>2, <3>3, <3>4, <3>5
  <2> QED BY <2>3, <2>4
<1> QED BY <1>5, <1>6

(* The NIC accepts a packet.                                               *)
LEMMA RxMore ==
    ASSUME RxView, RxView', NicReceive, BufferInv
    PROVE  (\E p \in 1 .. MaxRx : Rx!Enqueue(p)) \/ UNCHANGED Rx!vars
<1> DEFINE a == RxPending
           b == RxPending'
           x == Len(nic_rx)
           k == Unread
           e == arrived + 1
<1>0. /\ arrived < MaxRx
      /\ nic_rx' = IF x < RxRing THEN Append(nic_rx, e) ELSE nic_rx
      /\ UNCHANGED <<rx_bufs, rx_nb, rx_iter, taken>>
  BY DEF NicReceive
<1>1. /\ a \in Seq(1 .. MaxRx) /\ k \in Nat /\ Len(a) = k + x
      /\ \A i \in 1 .. k + x : a[i] = IF i <= k THEN rx_bufs[rx_iter + i - 1] ELSE nic_rx[i - k]
  BY DEF RxView
<1>2. CASE ~(x < RxRing)
  BY <1>0, <1>2 DEF Rx!vars, RxPending
<1>3. CASE x < RxRing
  <2>1. e \in 1 .. MaxRx /\ nic_rx \in Seq(1 .. MaxRx) /\ x \in Nat
    <3>1. arrived \in Nat /\ nic_rx \in Seq(1 .. MaxRx) /\ x \in Nat
      BY Types
    <3>2. MaxRx \in Nat /\ arrived < MaxRx
      BY <1>0, Constants
    <3>3. e \in 1 .. MaxRx
      BY <3>1, <3>2
    <3> QED BY <3>1, <3>3
  <2>2. nic_rx' = Append(nic_rx, e) /\ Unread' = k
    BY <1>0, <1>3 DEF Unread
  <2> HIDE DEF e
  <2>3. /\ Len(nic_rx') = x + 1 /\ nic_rx'[x + 1] = e
        /\ \A i \in 1 .. x : nic_rx'[i] = nic_rx[i]
    BY <2>1, <2>2, AppendFacts
  <2>4. /\ b \in Seq(1 .. MaxRx) /\ Len(b) = k + (x + 1)
        /\ \A i \in 1 .. k + (x + 1) :
              b[i] = IF i <= k THEN rx_bufs[rx_iter + i - 1] ELSE nic_rx'[i - k]
    BY <1>0, <2>2, <2>3 DEF RxView
  <2> DEFINE c == Append(a, e)
  <2> HIDE DEF a, b, k, x
  <2>5. /\ c \in Seq(1 .. MaxRx) /\ Len(c) = (k + x) + 1 /\ c[(k + x) + 1] = e
        /\ \A i \in 1 .. k + x : c[i] = a[i]
    BY <1>1, <2>1, AppendFacts
  <2> HIDE DEF c
  <2>6. Len(b) = Len(c)
    BY <1>1, <2>1, <2>4, <2>5
  <2>7. ASSUME NEW i \in 1 .. Len(b) PROVE b[i] = c[i]
    <3>0. i \in Nat /\ i >= 1 /\ i <= (k + x) + 1 /\ i \in 1 .. k + (x + 1)
      BY <1>1, <2>1, <2>4
    <3>1. CASE i <= k
      <4>1. i \in 1 .. k + x
        BY <1>1, <2>1, <3>0, <3>1
      <4> QED BY <1>1, <2>4, <2>5, <3>0, <3>1, <4>1
    <3>2. CASE ~(i <= k) /\ i <= k + x
      <4>1. i \in 1 .. k + x /\ i - k \in 1 .. x
        BY <1>1, <2>1, <3>0, <3>2
      <4> QED BY <1>1, <2>3, <2>4, <2>5, <3>0, <3>2, <4>1
    <3>3. CASE i = (k + x) + 1
      <4>1. ~(i <= k) /\ i - k = x + 1
        BY <1>1, <2>1, <3>3
      <4> QED BY <2>3, <2>4, <2>5, <3>0, <3>3, <4>1
    <3>4. i <= k \/ (~(i <= k) /\ i <= k + x) \/ i = (k + x) + 1
      BY <1>1, <2>1, <3>0
    <3> QED BY <3>1, <3>2, <3>3, <3>4
  <2>8. b = c
    BY <2>4, <2>5, <2>6, <2>7, SeqEqual
  <2> QED BY <1>0, <2>1, <2>8 DEF a, b, c, Rx!Enqueue
<1> QED BY <1>2, <1>3

LEMMA RxStep ==
    ASSUME BufferInv, RxView, RxView', [Next]_vars
    PROVE  [Rx!Next]_(Rx!vars)
<1>1. CASE UNCHANGED rxVars
  BY <1>1 DEF rxVars, Rx!vars, RxPending
<1>2. CASE RxProcess
  BY <1>2, RxTake DEF Rx!Next
<1>3. CASE NicReceive
  BY <1>3, RxMore DEF Rx!Next
<1> QED BY <1>1, <1>2, <1>3 DEF Next, Transmit, SendWait, Send, EndTx, NicSend, vars

LEMMA RxStart == Init => Rx!Init
<1> SUFFICES ASSUME Init PROVE Rx!Init
  OBVIOUS
<1>1. RxPending \in Seq(1 .. MaxRx) /\ Len(RxPending) = Unread + Len(nic_rx)
  BY BufferInit, InvImpliesRxView DEF RxView
<1>2. Len(nic_rx) = 0 /\ Unread = 0 /\ taken = <<>>
  BY DEF Init, Unread
<1>3. Len(RxPending) = 0
  BY <1>1, <1>2
<1>4. RxPending = <<>>
  BY <1>1, <1>3
<1> QED BY <1>2, <1>4 DEF Rx!Init

(* receive() returns every packet that the NIC accepted, once and in the   *)
(* order of arrival, across refills of rx_bufs: every step is one of the   *)
(* abstract queue or none (process_buffer.hpp, receive).                   *)
THEOREM RxQueueSafety == Spec => Rx!Init /\ [][Rx!Next]_(Rx!vars)
<1>1. BufferInv /\ RxView /\ RxView' /\ [Next]_vars => [Rx!Next]_(Rx!vars)
  BY RxStep
<1>2. Spec => []BufferInv
  BY BufferInvariance
<1> QED BY <1>1, <1>2, RxStart, InvImpliesRxView, PTL DEF Spec
=============================================================================
