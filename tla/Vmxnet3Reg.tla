----------------------------- MODULE Vmxnet3Reg -----------------------------
(***************************************************************************)
(* The descriptors the network driver shares with the vmxnet3 device        *)
(* (lib/vmxnet3/src/reg.rs).  A descriptor is a word of bits, here the set  *)
(* of the bits that are one; a field is <<offset, width>> in it, read and   *)
(* written through the accessors.                                           *)
(***************************************************************************)
EXTENDS Integers, FiniteSetsExt

get_bit(storage, index) == index \in storage

get(storage, bit_offset, bit_width) ==
    MapThenSumSet(LAMBDA i : 2 ^ i,
        {i \in 0 .. bit_width - 1 : get_bit(storage, i + bit_offset)})

\* Bits of val beyond the width are lost.
set(storage, bit_offset, bit_width, val) ==
    LET field == bit_offset .. bit_offset + bit_width - 1
        ones  == {index \in field : (val \div 2 ^ (index - bit_offset)) % 2 = 1}
    IN  (storage \ field) \cup ones

Get(storage, field) == get(storage, field[1], field[2])
Set(storage, field, val) == set(storage, field[1], field[2], val)

\* struct vmxnet3_txdesc (its address is kept beside the bits).
TxDesc == [len |-> <<0, 14>>, gen |-> <<14, 1>>, dtype |-> <<16, 1>>,
           offload_pos |-> <<18, 14>>, hlen |-> <<32, 10>>, offload_mode |-> <<42, 2>>,
           eop |-> <<44, 1>>, compreq |-> <<45, 1>>, vtag_mode |-> <<47, 1>>,
           vtag |-> <<48, 16>>]

\* struct vmxnet3_txcompdesc.
TxCompDesc == [eop_idx |-> <<0, 12>>, type |-> <<120, 7>>, gen |-> <<127, 1>>]

\* struct vmxnet3_rxdesc.
RxDesc == [len |-> <<0, 14>>, btype |-> <<14, 1>>, dtype |-> <<15, 1>>, gen |-> <<31, 1>>]

\* struct vmxnet3_rxcompdesc: which descriptor, and where in the packet.
RxCompPlace == [rxd_idx |-> <<0, 12>>, eop |-> <<14, 1>>, sop |-> <<15, 1>>,
                qid |-> <<16, 10>>, rss_type |-> <<26, 4>>, no_csum |-> <<30, 1>>,
                rss_hash |-> <<32, 32>>]

\* struct vmxnet3_rxcompdesc: what was received.
RxCompWhat == [len |-> <<64, 14>>, error |-> <<78, 1>>, vlan |-> <<79, 1>>,
               vtag |-> <<80, 16>>, csum |-> <<96, 16>>, csum_ok |-> <<112, 1>>,
               udp |-> <<113, 1>>, tcp |-> <<114, 1>>, ipcsum_ok |-> <<115, 1>>,
               ipv6 |-> <<116, 1>>, ipv4 |-> <<117, 1>>, fragment |-> <<118, 1>>,
               fcs |-> <<119, 1>>, type |-> <<120, 7>>, gen |-> <<127, 1>>]

\* The fields of a descriptor share no bit, so a setter changes its own only.
Apart(fields) ==
    \A f, g \in DOMAIN fields :
        f # g => \/ fields[f][1] + fields[f][2] <= fields[g][1]
                 \/ fields[g][1] + fields[g][2] <= fields[f][1]
ASSUME FieldsApart ==
    \A fields \in {TxDesc, TxCompDesc, RxDesc, RxCompPlace, RxCompWhat} : Apart(fields)

VMXNET3_INIT_GEN == 1
VMXNET3_BTYPE_HEAD == 0
VMXNET3_BTYPE_BODY == 1
VMXNET3_IT_AUTO == 0
VMXNET3_IT_MSI == 2
VMXNET3_IT_MSIX == 3
=============================================================================
