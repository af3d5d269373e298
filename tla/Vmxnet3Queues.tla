--------------------------- MODULE Vmxnet3Queues ---------------------------
(***************************************************************************)
(* The transmit and receive queues of the network driver                    *)
(* (lib/vmxnet3/src/var.rs): a command ring the driver fills, a completion   *)
(* ring the device fills, and the buffer chains in between.  Who owns an     *)
(* entry is told by a generation bit that changes with every lap.            *)
(*                                                                          *)
(* A chain is [id, segs]: segs buffers at the addresses <<id, 1>>, <<id, 2>>.*)
(* enqueue of either queue stores several descriptors in memory the device   *)
(* reads meanwhile, so it is given as the stores it makes, one by one.       *)
(***************************************************************************)
EXTENDS Vmxnet3Reg, Sequences

CONSTANT NDesc          \* descriptors of a ring, a power of two

ASSUME NDescAssumption == NDesc \in {2 ^ k : k \in 1 .. 12}

Idx == 0 .. NDesc - 1
Flip(gen) == 1 - gen

\* A ring of zeroed descriptors.
NoAddr == <<0, 0>>
vmxnet3_ring == [i \in Idx |-> [addr |-> NoAddr, bits |-> {}]]
vmxnet3_comp_ring == [i \in Idx |-> {}]

TxQueueNew ==
    [head |-> 0, tail |-> 0, gen |-> VMXNET3_INIT_GEN, txd |-> vmxnet3_ring,
     comp |-> vmxnet3_comp_ring, cnext |-> 0, cgen |-> VMXNET3_INIT_GEN,
     inflight |-> <<>>, processed |-> <<>>, last_flush |-> -1]

RxQueueNew ==
    [head |-> 0, tail |-> 0, gen |-> VMXNET3_INIT_GEN, rxd |-> vmxnet3_ring,
     comp |-> vmxnet3_comp_ring, cgen |-> VMXNET3_INIT_GEN, inflight |-> <<>>]

\* head.wrapping_sub(tail) & (size - 1).
count(tail, head) == (head - tail) % NDesc

----------------------------------------------------------------------------
(* The transmit queue.                                                      *)

TxLen(q) == count(q.tail, q.head)

\* The check at the start of enqueue: the chain is handed back.
TxRefuses(q, chain) == (NDesc - 1) - TxLen(q) < chain.segs

\* A slip: the first descriptor is the device's at once.
TxStoreSegmentOpen(q, chain, seg) ==
    LET bits == Set(Set(q.txd[q.head].bits, TxDesc.gen, q.gen), TxDesc.eop, 0)
        next == (q.head + 1) % NDesc
    IN  [q EXCEPT !.txd[q.head] = [addr |-> <<chain.id, seg>>, bits |-> bits],
                  !.head = next,
                  !.gen = IF next = 0 THEN Flip(@) ELSE @]

\* One turn of the loop over the segments, up to set_vtag: the first
\* descriptor of the chain still belongs to the driver.
TxStoreSegment(q, chain, seg) ==
    LET gen  == IF seg = 1 THEN Flip(q.gen) ELSE q.gen
        bits == Set(Set(q.txd[q.head].bits, TxDesc.gen, gen), TxDesc.eop, 0)
        next == (q.head + 1) % NDesc
    IN  [q EXCEPT !.txd[q.head] = [addr |-> <<chain.id, seg>>, bits |-> bits],
                  !.head = next,
                  !.gen = IF next = 0 THEN Flip(@) ELSE @]

\* The last segment ends the packet.
TxStoreEop(q) ==
    LET eop == (q.head - 1) % NDesc
    IN  [q EXCEPT !.txd[eop].bits = Set(@, TxDesc.eop, 1)]

\* After the barrier the first descriptor becomes the device's.
TxPublish(q, chain) ==
    LET old_head == (q.head - chain.segs) % NDesc
        gen == Get(q.txd[old_head].bits, TxDesc.gen)
    IN  [q EXCEPT !.txd[old_head].bits = Set(@, TxDesc.gen, Flip(gen)),
                  !.inflight = Append(@, <<(q.head - 1) % NDesc, chain>>)]

\* can_dequeue(false): one chain is taken from the device, if one is done.
TxCanDequeue(q) == Get(q.comp[q.cnext], TxCompDesc.gen) = q.cgen

\* The assertions of can_dequeue hold: a chain is in flight, and it is this.
TxInOrder(q) ==
    /\ q.inflight # <<>>
    /\ Head(q.inflight)[1] = Get(q.comp[q.cnext], TxCompDesc.eop_idx)

TxTakeCompletion(q) ==
    LET next == (q.cnext + 1) % NDesc
    IN  [q EXCEPT !.cnext = next,
                  !.cgen = IF next = 0 THEN Flip(@) ELSE @,
                  !.inflight = Tail(@),
                  !.processed = Append(@, Head(q.inflight)[2]),
                  !.tail = (Get(q.comp[q.cnext], TxCompDesc.eop_idx) + 1) % NDesc]

TxDequeue(q) == [q EXCEPT !.processed = Tail(@)]

\* The register is not written again for the same head.
TxFlushed(q) == [q EXCEPT !.last_flush = q.head]

----------------------------------------------------------------------------
(* The receive queue: one ring of pairs, a header and a content buffer.      *)

\* The distance of head and tail, whichever is first.
RxLen(q) == IF q.head > q.tail THEN q.head - q.tail ELSE q.tail - q.head

RxRefuses(q, chain) == NDesc - RxLen(q) < chain.segs

\* One turn of the loop over the segments; pidx_head0 follows
\* vxrxr_refill_start.
RxStoreSegment(q, chain, seg) ==
    LET btype == IF seg = 1 THEN VMXNET3_BTYPE_HEAD ELSE VMXNET3_BTYPE_BODY
        bits  == Set(Set(q.rxd[q.head].bits, RxDesc.btype, btype), RxDesc.gen, q.gen)
        next  == (q.head + 1) % NDesc
    IN  [q EXCEPT !.rxd[q.head] = [addr |-> <<chain.id, seg>>, bits |-> bits],
                  !.head = next,
                  !.gen = IF next = 0 THEN Flip(@) ELSE @]

RxPushInflight(q, chain) ==
    [q EXCEPT !.inflight = Append(@, <<(q.head - chain.segs) % NDesc, chain>>)]

RxEnqueue(q, chain) ==
    RxPushInflight(RxStoreSegment(RxStoreSegment(q, chain, 1), chain, 2), chain)

\* The entry after idx on the completion ring, and the generation there.
RxNext(at) == [idx |-> (at.idx + 1) % NDesc,
               gen |-> IF at.idx + 1 = NDesc THEN Flip(at.gen) ELSE at.gen]

\* An entry of the completion ring has been filled in, ends a packet, is empty.
RxDone(q, at) == Get(q.comp[at.idx], RxCompWhat.gen) = at.gen
RxEnds(q, at) == Get(q.comp[at.idx], RxCompPlace.eop) = 1
RxEmpty(q, at) == Get(q.comp[at.idx], RxCompWhat.len) = 0

\* The first entry from the tail on that is not a completed empty packet.
RECURSIVE RxSkipEmpty(_, _)
RxSkipEmpty(q, at) ==
    IF RxDone(q, at) /\ RxEmpty(q, at) THEN RxSkipEmpty(q, RxNext(at)) ELSE at

RxStart(q) == RxSkipEmpty(q, [idx |-> q.tail, gen |-> q.cgen])

\* can_dequeue(false) finds a packet whose last descriptor is done.
RxCanDequeue(q) ==
    LET sop == RxStart(q)
        eop == RxNext(sop)
    IN  /\ RxDone(q, sop)
        /\ RxEnds(q, sop) \/ (RxDone(q, eop) /\ RxEnds(q, eop))

\* The last entry of the packet.
RxLast(q) == IF RxEnds(q, RxStart(q)) THEN RxStart(q) ELSE RxNext(RxStart(q))

\* The assertions of dequeue hold: a chain is in flight, and the entries of
\* the packet from its first to its last are the driver's.
RxInOrder(q) ==
    /\ q.inflight # <<>>
    /\ Get(q.comp[RxStart(q).idx], RxCompPlace.sop) = 1
    /\ RxDone(q, RxLast(q)) /\ RxEnds(q, RxLast(q))

\* The error indicator of the last entry empties the packet.
RxError(q) == Get(q.comp[RxLast(q).idx], RxCompWhat.error) = 1

\* A slip: the lap of the completion ring is not followed.
RxDequeueSameLap(q) ==
    [q EXCEPT !.inflight = Tail(@), !.tail = RxNext(RxLast(q)).idx]

\* The loop over the entries of the packet.
RxDequeue(q) ==
    LET after == RxNext(RxLast(q))
    IN  [q EXCEPT !.inflight = Tail(@), !.tail = after.idx, !.cgen = after.gen]
=============================================================================
