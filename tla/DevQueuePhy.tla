----------------------------- MODULE DevQueuePhy -----------------------------
(***************************************************************************)
(* The network driver as the TCP stack sees it (lib/vmxnet3/src/smoltcp.rs)  *)
(* on the first queues of a vmxnet3 device, and the device itself, which     *)
(* works on the rings at the same time.                                      *)
(*                                                                          *)
(* The stack holds the driver while a token is out, so the driver runs one   *)
(* call at a time: phy.pc is where it is.  The stack's own steps are in the  *)
(* module that extends this one.                                             *)
(***************************************************************************)
EXTENDS Vmxnet3, SequencesExt

CONSTANTS
    Hardware,    \* devices: what they answer while they are brought up, and the
                 \* bounds on what they and the stack do (see the fields of hw)
    Queues,      \* how many queues of each kind the driver may be made with
    MaxChains    \* bound: buffer chains

VARIABLES
    hw,     \* the device's registers; frags, how many buffers it uses for a
            \* packet; faults, which entries it may complete with a damaged packet
            \* or with none; calls, ops, answers and replies, what the client, the
            \* server and the stack may do
    vmx,    \* the driver's VMXNet3
    txq,    \* its first transmit queue
    rxq,    \* its first receive queue
    bar0,   \* the doorbells: the heads the device was last told
    mem,    \* what is in the buffers of a chain
    phy,    \* [pc, token, chain, seg, back]: the call of the driver
    dev,    \* the device's own indices
    wire    \* [out, in]: packets on their way to and from the other side

phyVars == <<hw, vmx, txq, rxq, bar0, mem, phy, dev, wire>>

Chains == 1 .. MaxChains
None == 0
NoPacket == [kind |-> "none", cells |-> <<>>, ack |-> 0]
Garbage == [kind |-> "garbage", cells |-> <<<<"garbage", 0>>>>, ack |-> 0]
Part == [kind |-> "part", cells |-> <<>>, ack |-> 0]
NoChain == [id |-> None, segs |-> 0]

PhyInit ==
    /\ hw \in Hardware
    /\ \E n \in Queues : vmx = VMXNet3New(n, n)
    /\ txq = TxQueueNew
    /\ rxq = RxQueueNew
    /\ bar0 = [tx |-> 0, rx |-> 0]
    /\ mem = [c \in Chains |-> NoPacket]
    /\ phy = [pc |-> "off", token |-> NoPacket, chain |-> NoChain, seg |-> 0, back |-> ""]
    /\ dev = [txnext |-> 0, txgen |-> VMXNET3_INIT_GEN, fetched |-> <<>>, done |-> -1,
              ctnext |-> 0, ctgen |-> VMXNET3_INIT_GEN,
              rxnext |-> 0, rxgen |-> VMXNET3_INIT_GEN, half |-> FALSE,
              crnext |-> 0, crgen |-> VMXNET3_INIT_GEN]
    /\ wire = [out |-> <<>>, in |-> <<>>]

\* Chains that are somewhere; a new one is made of memory that is free, the
\* same for the same place of the ring where it is.
InUse == {e[2].id : e \in ToSet(txq.inflight) \cup ToSet(rxq.inflight)}
         \cup {c.id : c \in ToSet(txq.processed)} \cup {phy.chain.id}
NewChain(wanted, segs) ==
    [id |-> IF wanted \in InUse THEN Min(Chains \ InUse) ELSE wanted, segs |-> segs]
NewRxChain == NewChain(1 + (rxq.head \div 2), 2)
NewTxChain(segs) == NewChain(1 + (NDesc \div 2) + txq.head, segs)

----------------------------------------------------------------------------
(* Bringing the driver up.                                                   *)

AttachPre ==
    /\ vmx.state = "new"
    /\ vmx' = attach_pre(vmx, hw)
    /\ UNCHANGED <<hw, txq, rxq, bar0, mem, phy, dev, wire>>

InitDevice ==
    /\ vmx.state = "attached" /\ phy.pc = "off"
    /\ vmx' = VMXNet3Init(vmx, hw)
    /\ phy' = [phy EXCEPT !.pc = "initialized"]
    /\ UNCHANGED <<hw, txq, rxq, bar0, mem, dev, wire>>

\* DevQueuePhy::new: one chain is given to the device.
PhyNew ==
    /\ phy.pc = "initialized"
    /\ rxq' = RxEnqueue(rxq, NewRxChain)
    /\ bar0' = [bar0 EXCEPT !.rx = rxq'.head]
    /\ phy' = [phy EXCEPT !.pc = "idle"]
    /\ UNCHANGED <<hw, vmx, txq, mem, dev, wire>>

----------------------------------------------------------------------------
(* Device::receive, Device::transmit and the tokens.                         *)

Panic(why) == phy' = [phy EXCEPT !.pc = "panic", !.back = why]

\* A slip: the doorbell is left out when there is nothing to receive.
ReceiveNoneQuiet ==
    /\ phy.pc = "receive" /\ ~RxCanDequeue(rxq)
    /\ phy' = [phy EXCEPT !.pc = "egress"]
    /\ UNCHANGED <<hw, vmx, txq, rxq, bar0, mem, dev, wire>>

\* receive with nothing there; the doorbell tells of the last refill.
ReceiveNone ==
    /\ phy.pc = "receive" /\ ~RxCanDequeue(rxq)
    /\ bar0' = [bar0 EXCEPT !.rx = rxq.head]
    /\ phy' = [phy EXCEPT !.pc = "egress"]
    /\ UNCHANGED <<hw, vmx, txq, rxq, mem, dev, wire>>

\* receive with a packet there: it is taken, the doorbell rung, and a new
\* chain made in its place.  The stack is given the first buffer only.
Receive ==
    /\ phy.pc = "receive" /\ RxCanDequeue(rxq)
    /\ UNCHANGED <<hw, vmx, txq, dev, wire>>
    /\ IF ~RxInOrder(rxq)
       THEN Panic("dequeue") /\ UNCHANGED <<rxq, bar0, mem>>
       ELSE LET id == Head(rxq.inflight)[2].id
            IN  /\ rxq' = RxDequeue(rxq)
                /\ bar0' = [bar0 EXCEPT !.rx = rxq.head]
                /\ mem' = [mem EXCEPT ![id] = NoPacket]
                /\ IF RxRefuses(rxq', [id |-> id, segs |-> 2])
                   THEN Panic("refill")
                   ELSE phy' = [phy EXCEPT !.pc = "refill", !.seg = 1,
                                    !.token = IF RxError(rxq) THEN NoPacket ELSE mem[id],
                                    !.chain = NewRxChain]

\* The descriptors of the new chain, one store after the other.
Refill ==
    /\ phy.pc = "refill"
    /\ LET stored == RxStoreSegment(rxq, phy.chain, phy.seg)
       IN  IF phy.seg < phy.chain.segs
           THEN rxq' = stored /\ phy' = [phy EXCEPT !.seg = @ + 1]
           ELSE /\ rxq' = RxPushInflight(stored, phy.chain)
                /\ phy' = [phy EXCEPT !.pc = "txtoken", !.seg = 0, !.chain = NoChain]
    /\ UNCHANGED <<hw, vmx, txq, bar0, mem, dev, wire>>

\* A chain to send with: one the device is done with, or else a new one.
TxToken(segs, next) ==
    /\ UNCHANGED <<hw, vmx, rxq, bar0, dev, wire>>
    /\ IF ~TxCanDequeue(txq)
       THEN /\ phy' = [phy EXCEPT !.chain = NewTxChain(segs), !.pc = next]
            /\ UNCHANGED <<txq, mem>>
       ELSE IF ~TxInOrder(txq)
       THEN Panic("txdequeue") /\ UNCHANGED <<txq, mem>>
       ELSE LET chain == Head(TxTakeCompletion(txq).processed)
            IN  /\ phy' = [phy EXCEPT !.chain = chain, !.pc = next]
                /\ txq' = TxDequeue(TxTakeCompletion(txq))
                /\ mem' = [mem EXCEPT ![chain.id] = NoPacket]

\* receive goes on with the token for an answer.
ReceiveTxToken == phy.pc = "txtoken" /\ TxToken(2, "received")

\* Device::transmit, called by the stack.
Transmit == phy.pc = "egress" /\ TxToken(1, "sending")

\* TxPacket::drop: the chain goes back to the pool.
DropToken(next) ==
    /\ phy' = [phy EXCEPT !.pc = next, !.chain = NoChain, !.token = NoPacket]
    /\ UNCHANGED <<hw, vmx, txq, rxq, bar0, mem, dev, wire>>

\* TxToken::consume, up to enqueue, which must accept the chain.
Consume(packet, back) ==
    /\ UNCHANGED <<hw, vmx, txq, rxq, bar0, dev, wire>>
    /\ IF TxRefuses(txq, phy.chain)
       THEN /\ phy' = [phy EXCEPT !.pc = "panic", !.back = "enqueue", !.token = NoPacket]
            /\ UNCHANGED mem
       ELSE /\ mem' = [mem EXCEPT ![phy.chain.id] = packet]
            /\ phy' = [phy EXCEPT !.pc = "store", !.seg = 1, !.back = back,
                                  !.token = NoPacket]

\* TxQueue::enqueue and TxQueue::flush, one store after the other.
StoreSegment ==
    /\ phy.pc = "store"
    /\ txq' = TxStoreSegment(txq, phy.chain, phy.seg)
    /\ phy' = IF phy.seg < phy.chain.segs THEN [phy EXCEPT !.seg = @ + 1]
                                          ELSE [phy EXCEPT !.pc = "eop"]
    /\ UNCHANGED <<hw, vmx, rxq, bar0, mem, dev, wire>>

StoreEop ==
    /\ phy.pc = "eop"
    /\ txq' = TxStoreEop(txq)
    /\ phy' = [phy EXCEPT !.pc = "publish"]
    /\ UNCHANGED <<hw, vmx, rxq, bar0, mem, dev, wire>>

\* The chain is handed over and, unless it was told this head, the device told.
Publish ==
    /\ phy.pc = "publish"
    /\ LET q == TxPublish(txq, phy.chain)
       IN  IF q.last_flush = q.head
           THEN txq' = q /\ UNCHANGED bar0
           ELSE txq' = TxFlushed(q) /\ bar0' = [bar0 EXCEPT !.tx = q.head]
    /\ phy' = [phy EXCEPT !.pc = phy.back, !.back = "", !.seg = 0, !.chain = NoChain]
    /\ UNCHANGED <<hw, vmx, rxq, mem, dev, wire>>

DriverStep ==
    \/ AttachPre \/ InitDevice \/ PhyNew
    \/ ReceiveNone \/ Receive \/ Refill \/ ReceiveTxToken
    \/ StoreSegment \/ StoreEop \/ Publish

----------------------------------------------------------------------------
(* The device (external).  An entry is the device's when its generation bit  *)
(* is that of the device's lap.                                              *)

Step(next, gen) == [next |-> (next + 1) % NDesc, gen |-> IF next + 1 = NDesc THEN Flip(gen) ELSE gen]

\* A packet is what the buffers of the fetched descriptors hold: whole only
\* if they are the buffers of one chain in order.
Gathered(addrs) ==
    IF \A i \in DOMAIN addrs : addrs[i] = <<addrs[1][1], i>> THEN mem[addrs[1][1]] ELSE Garbage

DevFetch ==
    LET desc == txq.txd[dev.txnext]
        at   == Step(dev.txnext, dev.txgen)
        all  == Append(dev.fetched, desc.addr)
    IN  /\ DeviceFindsQueues(vmx) /\ dev.done = -1
        /\ Get(desc.bits, TxDesc.gen) = dev.txgen
        /\ IF Get(desc.bits, TxDesc.eop) = 1
           THEN /\ dev' = [dev EXCEPT !.txnext = at.next, !.txgen = at.gen,
                                      !.fetched = <<>>, !.done = dev.txnext]
                /\ wire' = [wire EXCEPT !.out = Append(@, Gathered(all))]
           ELSE /\ dev' = [dev EXCEPT !.txnext = at.next, !.txgen = at.gen, !.fetched = all]
                /\ UNCHANGED wire
        /\ UNCHANGED <<hw, vmx, txq, rxq, bar0, mem, phy>>

DevComplete ==
    /\ dev.done # -1
    /\ LET at == Step(dev.ctnext, dev.ctgen)
       IN  dev' = [dev EXCEPT !.done = -1, !.ctnext = at.next, !.ctgen = at.gen]
    /\ txq' = [txq EXCEPT !.comp[dev.ctnext] =
                 Set(Set({}, TxCompDesc.eop_idx, dev.done), TxCompDesc.gen, dev.ctgen)]
    /\ UNCHANGED <<hw, vmx, rxq, bar0, mem, phy, wire>>

RxDescOwned ==
    DeviceFindsQueues(vmx) /\ Get(rxq.rxd[dev.rxnext].bits, RxDesc.gen) = dev.rxgen

\* A completion entry of the device.
Completion(sop, eop, len, error) ==
    Set(Set(Set(Set(Set(Set({}, RxCompPlace.rxd_idx, dev.rxnext), RxCompPlace.sop, sop),
        RxCompPlace.eop, eop), RxCompWhat.len, len), RxCompWhat.error, error),
        RxCompWhat.gen, dev.crgen)

\* A buffer is filled and completed; half says that content is to follow.
DevFill(sop, eop, error) ==
    LET at == Step(dev.rxnext, dev.rxgen)
        ct == Step(dev.crnext, dev.crgen)
    IN  /\ rxq' = [rxq EXCEPT !.comp[dev.crnext] = Completion(sop, eop, 1, error)]
        /\ dev' = [dev EXCEPT !.rxnext = at.next, !.rxgen = at.gen, !.crnext = ct.next,
                              !.crgen = ct.gen, !.half = (eop = 0)]
        /\ UNCHANGED <<hw, vmx, txq, bar0, phy>>
HeadHolds(packet) == mem' = [mem EXCEPT ![rxq.rxd[dev.rxnext].addr[1]] = packet]

IsHead == Get(rxq.rxd[dev.rxnext].bits, RxDesc.btype) = VMXNET3_BTYPE_HEAD

\* A content buffer that the packet before did not need is passed over.
DevSkipBody ==
    /\ RxDescOwned /\ ~IsHead /\ ~dev.half /\ wire.in # <<>>
    /\ LET at == Step(dev.rxnext, dev.rxgen)
       IN  dev' = [dev EXCEPT !.rxnext = at.next, !.rxgen = at.gen]
    /\ UNCHANGED <<hw, vmx, txq, rxq, bar0, mem, phy, wire>>

DevReceive ==
    /\ RxDescOwned /\ IsHead /\ wire.in # <<>>
    /\ IF hw.frags = 1
       THEN /\ DevFill(1, 1, 0) /\ HeadHolds(Head(wire.in))
            /\ wire' = [wire EXCEPT !.in = Tail(@)]
       ELSE DevFill(1, 0, 0) /\ HeadHolds(Part) /\ UNCHANGED wire

DevReceiveContent ==
    /\ RxDescOwned /\ ~IsHead /\ dev.half
    /\ DevFill(0, 1, 0)
    /\ wire' = [wire EXCEPT !.in = Tail(@)]
    /\ UNCHANGED mem

FaultAllowed == dev.crgen = VMXNET3_INIT_GEN /\ dev.crnext \in hw.faults

\* A packet is damaged, the one sent in its place is still to come; or an
\* entry is completed without a packet.
DevReceiveError ==
    /\ RxDescOwned /\ IsHead /\ FaultAllowed
    /\ DevFill(1, 1, 1) /\ HeadHolds(Part)
    /\ UNCHANGED wire

DevCompleteEmpty ==
    /\ DeviceFindsQueues(vmx) /\ ~dev.half /\ FaultAllowed
    /\ rxq' = [rxq EXCEPT !.comp[dev.crnext] = Completion(1, 1, 0, 0)]
    /\ LET ct == Step(dev.crnext, dev.crgen)
       IN  dev' = [dev EXCEPT !.crnext = ct.next, !.crgen = ct.gen]
    /\ UNCHANGED <<hw, vmx, txq, bar0, mem, phy, wire>>

DevStep ==
    \/ DevFetch \/ DevComplete \/ DevSkipBody \/ DevReceive \/ DevReceiveContent
    \/ DevReceiveError \/ DevCompleteEmpty
=============================================================================
