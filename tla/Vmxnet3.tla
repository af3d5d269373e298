------------------------------ MODULE Vmxnet3 ------------------------------
(***************************************************************************)
(* Bringing up the network device (lib/vmxnet3/src/vmx.rs): the queues are   *)
(* made and mirrored in an area shared with the device, the device is asked  *)
(* what it supports, told where the area is, and enabled.                    *)
(***************************************************************************)
EXTENDS Vmxnet3Queues

\* BoundedUSize::new.
BoundedUSize(low, high, n) ==
    IF n < low THEN low ELSE IF n > high THEN high ELSE n

VMXNET3_MAX_TX_QUEUES == 8
VMXNET3_MAX_RX_QUEUES == 16

\* The shared area: the entries of the transmit queues, then those of the
\* receive queues, every entry of the same size.
txqs_ref(vmx, idx) == idx
rxqs_ref(vmx, idx) == vmx.ntxqsets + idx

\* TRXQueueShared::new: a zeroed area.
TRXQueueShared(txqsets, rxqsets) == [slot \in 0 .. txqsets + rxqsets - 1 |-> <<>>]

\* DriverShared::new, as far as the device finds the queues by it.
DriverShared(queue_shared_len) ==
    [ntxqueue |-> 0, nrxqueue |-> 0, queue_shared_len |-> queue_shared_len]

VMXNet3New(nrx, trx) ==
    LET ntxqsets == BoundedUSize(1, VMXNET3_MAX_TX_QUEUES, trx)
        nrxqsets == BoundedUSize(1, VMXNET3_MAX_RX_QUEUES, nrx)
    IN  [ntxqsets |-> ntxqsets, nrxqsets |-> nrxqsets,
         qs |-> TRXQueueShared(ntxqsets, nrxqsets),
         ds |-> DriverShared(ntxqsets + nrxqsets), link_active |-> FALSE,
         state |-> "new"]

\* Where the device is told the rings are, queue by queue.
tx_queues_alloc(vmx) ==
    [vmx EXCEPT !.qs = [slot \in DOMAIN @ |->
        IF \E i \in 0 .. vmx.ntxqsets - 1 : slot = txqs_ref(vmx, i)
        THEN <<"tx", CHOOSE i \in 0 .. vmx.ntxqsets - 1 : slot = txqs_ref(vmx, i)>>
        ELSE @[slot]]]

rx_queues_alloc(vmx) ==
    [vmx EXCEPT !.qs = [slot \in DOMAIN @ |->
        IF \E i \in 0 .. vmx.nrxqsets - 1 : slot = rxqs_ref(vmx, i)
        THEN <<"rx", CHOOSE i \in 0 .. vmx.nrxqsets - 1 : slot = rxqs_ref(vmx, i)>>
        ELSE @[slot]]]

\* Bit 0 of both version registers.
check_version(hw) == hw.vrrs % 2 = 1 /\ hw.uvrs % 2 = 1

attach_pre(vmx, hw) ==
    LET queues == rx_queues_alloc(tx_queues_alloc(vmx))
    IN  IF hw.intr_config \in {VMXNET3_IT_AUTO, VMXNET3_IT_MSIX} /\ check_version(hw)
        THEN [queues EXCEPT !.state = "attached"]
        ELSE [queues EXCEPT !.state = "unsupported"]

\* The counts are stored crosswise.
reinit_shared_data(vmx) ==
    [vmx EXCEPT !.ds.ntxqueue = vmx.nrxqsets, !.ds.nrxqueue = vmx.ntxqsets]

enable_device(vmx, hw) ==
    IF hw.enables THEN [vmx EXCEPT !.state = "enabled"] ELSE [vmx EXCEPT !.state = "attached"]

link_status(vmx, hw) == [vmx EXCEPT !.link_active = hw.link]

\* VMXNet3::init; it does not say that enabling failed.
VMXNet3Init(vmx, hw) == link_status(enable_device(reinit_shared_data(vmx), hw), hw)

\* Which ring the device finds for its first queue of each kind (external).
DeviceTxRing(vmx) == IF vmx.ds.ntxqueue > 0 THEN vmx.qs[0] ELSE <<>>
DeviceRxRing(vmx) == IF vmx.ds.nrxqueue > 0 THEN vmx.qs[vmx.ds.ntxqueue] ELSE <<>>
DeviceFindsQueues(vmx) ==
    /\ vmx.state = "enabled"
    /\ vmx.ds.ntxqueue + vmx.ds.nrxqueue <= vmx.ds.queue_shared_len
    /\ DeviceTxRing(vmx) = <<"tx", 0>>
    /\ DeviceRxRing(vmx) = <<"rx", 0>>
=============================================================================
