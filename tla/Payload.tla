------------------------------ MODULE Payload ------------------------------
(***************************************************************************)
(* The bytes of one packet, from the caller's buffer of each rank through  *)
(* the packet and the registers of the switch and back.  Hosts are         *)
(* little-endian, the switch adds big-endian words; fill_pkt() and         *)
(* rx_process_one() reverse the bytes of each word for reductions and copy *)
(* them as they are for a broadcast, which may end inside a word.          *)
(*                                                                         *)
(* The module works with words of WORD bytes and bytes of Base values; in  *)
(* the code they are 4 and 256.  Order, loss and slots are the subject of  *)
(* module Aggregation: here each rank sends its packet once.               *)
(***************************************************************************)
EXTENDS Collectives, Integers, FiniteSets, Functions

CONSTANTS
    Rank,
    Base, WORD,
    PAYLOAD_LEN,    \* words of a payload
    Spare           \* bytes of the caller's buffer behind this packet's part

ASSUME PayloadAssumption ==
    /\ Base \in Nat \ {0, 1} /\ WORD \in Nat \ {0}
    /\ PAYLOAD_LEN \in Nat \ {0} /\ Spare \in Nat
    /\ IsFiniteSet(Rank)

(* The number with n digits, the most significant one first.               *)
Value(digits, n) ==
    LET value[k \in 0 .. n] ==
            IF k = 0 THEN 0 ELSE Base * value[k - 1] + digits[k - 1]
    IN  value[n]

(* Base to the power of n: the digit 1 before n zeros.                     *)
Power(n) == Value([k \in 0 .. n |-> IF k = 0 THEN 1 ELSE 0], n + 1)

(* agg_t and int32_t: words are signed numbers in two's complement.        *)
MaxWord == (Power(WORD) \div 2) - 1
MinWord == (MaxWord + 1) - Power(WORD)
Signed(value) == IF value > MaxWord THEN value - Power(WORD) ELSE value

PAYLOAD_SIZE == PAYLOAD_LEN * WORD
Byte   == 0 .. Base - 1
Offset == 0 .. PAYLOAD_SIZE - 1
Buffer == [0 .. PAYLOAD_SIZE + Spare - 1 -> Byte]

VARIABLES
    op,             \* op_code and root, the same at all ranks, and size
    before,         \* before[r]: the caller's buffer when the operation began
    data,           \* data[r]: the caller's buffer
    arrived,        \* ranks whose packet the switch has added
    register,       \* the words of the slot, as signed numbers
    answered        \* ranks that have the answer

bytesVars == <<op, before, data, arrived, register, answered>>

(* The callers' part: the elements of a reduction are whole words.         *)
Operation ==
    {o \in [code : OpCode, root : Rank, size : 0 .. PAYLOAD_SIZE] :
        o.code # "BROADCAST" => o.size % WORD = 0}

(* The slot holds what earlier packets left in it.                         *)
BytesInit ==
    /\ op \in Operation
    /\ data \in [Rank -> Buffer] /\ before = data
    /\ arrived = {} /\ answered = {}
    /\ register \in [0 .. PAYLOAD_LEN - 1 -> MinWord .. MaxWord]

-----------------------------------------------------------------------------
(* htobe() on a little-endian host reverses the bytes of a word; byte j of *)
(* the copy is byte Mirror(j) of the source.                               *)
Mirror(j) == (j \div WORD) * WORD + ((WORD - 1) - (j % WORD))

(* memcpy_htobe32(): the whole words of the first size bytes.              *)
MemcpyHtobe32(dst, src, size) ==
    [j \in DOMAIN dst |->
        IF j < (size \div WORD) * WORD THEN src[Mirror(j)] ELSE dst[j]]

Memcpy(dst, src, size) ==
    [j \in DOMAIN dst |-> IF j < size THEN src[j] ELSE dst[j]]

(* Two faulty choices of the copy: bytes are never reversed, or always.    *)
CopyPlain(dst, src, size) == Memcpy(dst, src, size)
CopyWords(dst, src, size) == MemcpyHtobe32(dst, src, size)

(* The copy of fill_pkt() and of rx_process_one().                         *)
Copy(dst, src, size) ==
    IF op.code \in {"ALL_REDUCE", "REDUCE"}
    THEN MemcpyHtobe32(dst, src, size)
    ELSE Memcpy(dst, src, size)

(* fill_pkt(): the bytes behind the data are padding.                      *)
FillPkt(src) ==
    LET filled == Copy([j \in Offset |-> 0], src, op.size)
    IN  [j \in Offset |-> IF j >= op.size THEN 0 ELSE filled[j]]

WordBytes == [0 .. WORD - 1 -> Byte]

(* The switch reads and writes words with the most significant byte first. *)
WordAt(bytes, i) ==
    Signed(Value([k \in 0 .. WORD - 1 |-> bytes[i * WORD + k]], WORD))
BytesOf(word) == CHOOSE bytes \in WordBytes : Signed(Value(bytes, WORD)) = word
Serialise(words) == [j \in Offset |-> BytesOf(words[j \div WORD])[j % WORD]]

(* The addition |+| of the registers stops at the ends of the word.        *)
Saturate(n) == IF n > MaxWord THEN MaxWord ELSE IF n < MinWord THEN MinWord ELSE n
Add(a, b) == Saturate(a + b)

(* The words the parser hands on: a packet without payload counts as zero. *)
Words(r) ==
    [i \in DOMAIN register |->
        IF NeedTx(op, r) THEN WordAt(FillPkt(data[r]), i) ELSE 0]

(* A rank's packet arrives: the first one overwrites the registers, the    *)
(* others are added to them.                                               *)
Send(r) ==
    /\ r \notin arrived
    /\ arrived' = arrived \cup {r}
    /\ register' = [i \in DOMAIN register |->
                       IF arrived = {} THEN Words(r)[i]
                       ELSE Add(register[i], Words(r)[i])]
    /\ UNCHANGED <<op, before, data, answered>>

(* A faulty receiver that copies whole payloads.                           *)
RxSizeWhole == PAYLOAD_SIZE
RxSize == op.size

(* rx_process_one(): the answer is copied to where the data came from.     *)
Receive(r) ==
    /\ arrived = Rank /\ r \notin answered
    /\ answered' = answered \cup {r}
    /\ data' = IF NeedRx(op, r)
               THEN [data EXCEPT ![r] = Copy(@, Serialise(register), RxSize)]
               ELSE data
    /\ UNCHANGED <<op, before, arrived, register>>

(* The packet is done; nothing happens any more.                           *)
Done == answered = Rank /\ UNCHANGED bytesVars

BytesNext == Done \/ \E r \in Rank : Send(r) \/ Receive(r)

BytesSpec == BytesInit /\ [][BytesNext]_bytesVars

-----------------------------------------------------------------------------
BytesTypeOK ==
    /\ op \in Operation /\ data \in [Rank -> Buffer] /\ before \in [Rank -> Buffer]
    /\ arrived \subseteq Rank /\ answered \subseteq Rank
    /\ register \in [0 .. PAYLOAD_LEN - 1 -> MinWord .. MaxWord]

(* A word of the caller's buffer as the host's number.                     *)
HostWord(bytes, i) ==
    Signed(Value([k \in 0 .. WORD - 1 |-> bytes[i * WORD + ((WORD - 1) - k)]], WORD))

(* What is promised of the sum of words: it is exact when no partial sum   *)
(* leaves the range of a word, whatever the order of the packets, and      *)
(* numbers of one sign saturate.  Mixed signs that leave the range on the  *)
(* way promise nothing: there the order of arrival decides.                *)
SumOf(result, words, senders) ==
    LET total == SumFunctionOnSet(words, senders)
    IN  /\ (\A S \in SUBSET senders :
                SumFunctionOnSet(words, S) \in MinWord .. MaxWord) => result = total
        /\ (\A s \in senders : words[s] >= 0) => result = Saturate(total)
        /\ (\A s \in senders : words[s] <= 0) => result = Saturate(total)

(* A receiver of a reduction finds in each word the sum of the senders'    *)
(* words, as the hosts count: carries and signs go the right way through   *)
(* both conversions and the switch, and an overflow ends at the largest or *)
(* the smallest word instead of changing the sign.                         *)
SumExact ==
    \A r \in answered : op.code # "BROADCAST" /\ NeedRx(op, r) =>
        \A i \in 0 .. (op.size \div WORD) - 1 :
            SumOf(HostWord(data[r], i), [s \in Rank |-> HostWord(before[s], i)],
                  {s \in Rank : NeedTx(op, s)})

(* A broadcast delivers the root's bytes, up to the last one also when the *)
(* size is not a multiple of a word.                                       *)
BroadcastExact ==
    \A r \in answered : op.code = "BROADCAST" /\ NeedRx(op, r) =>
        \A j \in 0 .. op.size - 1 : data[r][j] = before[op.root][j]

(* Nothing else of a caller's buffer is written: not behind the data of    *)
(* this packet, and nothing at a rank that receives no data.               *)
OnlyOwnBytes ==
    BytesTypeOK /\ \A r \in Rank : \A j \in DOMAIN data[r] :
        data[r][j] # before[r][j] => j < op.size /\ NeedRx(op, r)
=============================================================================
