------------------------------ MODULE RpcClient ------------------------------
(***************************************************************************)
(* Remote procedure calls over TCP (lib/rpc/src/tcp_client.rs) through the   *)
(* network driver: a client that joins a cluster and makes file calls to a   *)
(* server.                                                                   *)
(*                                                                          *)
(* A stream of bytes is a sequence of cells.  A message is a header of two   *)
(* cells and its data.  The TCP stack and the server are not in this         *)
(* repository: the stack moves cells between the socket's buffers and        *)
(* packets in order, and, its clock standing still, sends nothing twice.     *)
(***************************************************************************)
EXTENDS DevQueuePhy

CONSTANTS
    TX_BUF_LEN, RX_BUF_LEN,  \* cells of the socket's buffers
    ReadLen,                 \* cells of the buffer a read is given
    Mss                      \* bound: cells of a packet

VARIABLES
    sock,    \* [state, tx, unsent, rx, replies]: the TCP socket
    client,  \* the TCPClient and the call it is in
    server   \* the other side (external)

vars == <<phyVars, sock, client, server>>

ReqHeader(client_id, req_id, len) == [client_id |-> client_id, req_id |-> req_id, len |-> len]

\* encode: a header and the data that follows it.
Message(hdr, data) == <<<<"h1", hdr>>, <<"h2", hdr>>>> \o data
HeaderLen == 2

Init ==
    /\ PhyInit
    /\ sock = [state |-> "closed", tx |-> <<>>, unsent |-> 0, rx |-> <<>>, replies |-> 0]
    /\ client = [phase |-> "new", client_id |-> 0, req_id |-> 0, op |-> "", req |-> <<>>,
                 data_sent |-> 0, expected |-> 0, data |-> <<>>, hdr |-> ReqHeader(0, 0, 0),
                 calls |-> 0, result |-> <<>>]
    /\ server = [got |-> <<>>, unacked |-> 0, reply |-> <<>>, handled |-> 0,
                 answer |-> <<>>, bad |-> FALSE]

----------------------------------------------------------------------------
(* The stack (external): EthernetInterface::poll receives until there is     *)
(* nothing more, and then sends what the socket has to send.                 *)

Absorb(p) ==
    [sock EXCEPT !.state = IF p.kind = "synack" THEN "established" ELSE @,
                 !.rx = @ \o p.cells,
                 !.tx = SubSeq(@, p.ack + 1, Len(@))]

StackReceive ==
    /\ phy.pc = "received"
    /\ sock' = Absorb(phy.token)
    /\ DropToken("receive")
    /\ UNCHANGED <<client, server>>

\* The stack answers with the token that came with the packet.
StackReply ==
    /\ phy.pc = "received" /\ sock.replies < hw.replies
    /\ sock' = [Absorb(phy.token) EXCEPT !.replies = @ + 1]
    /\ Consume([kind |-> "ack", cells |-> <<>>, ack |-> 0], "receive")
    /\ UNCHANGED <<client, server>>

HasToSend == sock.state = "syn" \/ (sock.state = "established" /\ sock.unsent > 0)

StackSend ==
    /\ HasToSend
    /\ Transmit
    /\ UNCHANGED <<sock, client, server>>

StackFill ==
    /\ phy.pc = "sending"
    /\ LET n    == IF sock.unsent < Mss THEN sock.unsent ELSE Mss
           from == Len(sock.tx) - sock.unsent
       IN  IF sock.state = "syn"
           THEN /\ Consume([kind |-> "syn", cells |-> <<>>, ack |-> 0], "egress")
                /\ sock' = [sock EXCEPT !.state = "synsent"]
           ELSE /\ Consume([kind |-> "data", cells |-> SubSeq(sock.tx, from + 1, from + n),
                            ack |-> 0], "egress")
                /\ sock' = [sock EXCEPT !.unsent = @ - n]
    /\ UNCHANGED <<client, server>>

----------------------------------------------------------------------------
(* The client.  Every turn of its loops polls first: when the stack has no    *)
(* more to send the poll is over, and the next turn polls again.              *)

Polled == phy.pc = "egress" /\ ~HasToSend
Then(pc) == phy' = [phy EXCEPT !.pc = pc]
AfterPoll == Polled /\ Then("receive")
SameRest == UNCHANGED <<hw, vmx, txq, rxq, bar0, mem, dev, wire, server>>

\* call, up to send: the header carries the ids and the length of the data.
BeginCall(c, op, data) ==
    [c EXCEPT !.phase = "send", !.op = op, !.data_sent = 0,
              !.req = Message(ReqHeader(c.client_id, c.req_id, Len(data)), data)]

\* join_cluster, up to the loop.
JoinCluster ==
    /\ phy.pc = "idle" /\ client.phase = "new"
    /\ sock' = [sock EXCEPT !.state = "syn"]
    /\ client' = [client EXCEPT !.phase = "connect"]
    /\ Then("receive")
    /\ SameRest

\* The loop of join_cluster; connected, the client registers.
Connect ==
    /\ client.phase = "connect" /\ AfterPoll
    /\ client' = IF sock.state = "established" THEN BeginCall(client, "Registration", <<>>)
                                               ELSE client
    /\ UNCHANGED sock /\ SameRest

\* The data of a request: what it is for is the server's business.
RequestData(n) == [i \in 1 .. n |-> <<"data", i>>]

\* The file calls: a read expects data with its result, the others none.
FileCall ==
    /\ phy.pc = "idle" /\ client.phase = "returned" /\ client.calls < hw.calls
    /\ \E call \in hw.ops :
         client' = [BeginCall(client, call[1], RequestData(call[2])) EXCEPT
                       !.calls = @ + 1, !.result = <<>>]
    /\ Then("receive")
    /\ UNCHANGED sock /\ SameRest

ClientPanic(why) == phy' = [phy EXCEPT !.pc = "panic", !.back = why]

\* One turn of send: the slice ends at end_index.
end_index(c) ==
    c.data_sent + (IF Len(c.req) < TX_BUF_LEN THEN Len(c.req) ELSE TX_BUF_LEN)

Send ==
    /\ client.phase = "send" /\ Polled /\ client.data_sent < Len(client.req)
    /\ Len(sock.tx) < TX_BUF_LEN
    /\ SameRest
    /\ IF end_index(client) > Len(client.req)
       THEN ClientPanic("slice") /\ UNCHANGED <<sock, client>>
       ELSE \E n \in {Min({end_index(client) - client.data_sent, TX_BUF_LEN - Len(sock.tx)})} :
            /\ AfterPoll
            /\ sock' = [sock EXCEPT !.unsent = @ + n,
                           !.tx = @ \o SubSeq(client.req, client.data_sent + 1, client.data_sent + n)]
            /\ client' = [client EXCEPT !.data_sent = @ + n]

\* The buffer is full: the loop polls again.
SendWait ==
    /\ client.phase = "send" /\ AfterPoll /\ client.data_sent < Len(client.req)
    /\ Len(sock.tx) = TX_BUF_LEN
    /\ UNCHANGED <<sock, client>> /\ SameRest

\* send returns, and recv waits for a header.
Sent ==
    /\ client.phase = "send" /\ AfterPoll /\ client.data_sent = Len(client.req)
    /\ client' = [client EXCEPT !.phase = "recv", !.expected = HeaderLen, !.data = <<>>,
                                !.hdr = ReqHeader(0, 0, 0)]
    /\ UNCHANGED sock /\ SameRest

\* One turn of recv: never more than is expected.
recv_slice(c, rx) == SubSeq(rx, 1, Min({Len(rx), c.expected - Len(c.data)}))

Recv ==
    /\ client.phase = "recv" /\ AfterPoll /\ Len(client.data) < client.expected
    /\ LET slice == recv_slice(client, sock.rx)
       IN  /\ client' = [client EXCEPT !.data = @ \o slice]
           /\ sock' = [sock EXCEPT !.rx = SubSeq(@, Len(slice) + 1, Len(@))]
    /\ SameRest

\* decode gives a header only if these are the cells of one.
IsHeader(data) ==
    /\ Len(data) = HeaderLen
    /\ data[1][1] = "h1" /\ data[2][1] = "h2" /\ data[1][2] = data[2][2]

\* The ids of the answer are those of the request.
Matches(c, hdr) ==
    (hdr.client_id = c.client_id \/ c.op = "Registration") /\ hdr.req_id = c.req_id

\* What the file call makes of an answer [ret, n] and the data after it.
NoDataExpected(data) ==
    IF data = <<>> THEN <<"MalformedResponse">>
    ELSE IF Len(data) > 1 THEN <<"ExtraData">> ELSE data[1]

DataExpected(data) ==
    IF data = <<>> THEN <<"MalformedResponse">>
    ELSE IF data[1][1] = "Ok" /\ data[1][2] # Len(data) - 1 THEN <<"MalformedResponse">>
    ELSE data[1]

\* The data of a read do not fit the buffer of the caller.
TooMuch(op, data) ==
    op = "ReadAt" /\ Len(data) > 1 + ReadLen /\ data[1] = <<"Ok", Len(data) - 1>>

FileResult(op, data) ==
    CASE op = "Registration" -> <<"joined">>
      [] op = "ReadAt" -> DataExpected(data)
      [] OTHER -> NoDataExpected(data)

\* A slip: the ids are not compared.
FinishCallAny(c, hdr, data) ==
    /\ Then("idle")
    /\ client' = [c EXCEPT !.phase = "returned", !.req_id = @ + 1, !.req = <<>>,
                     !.data_sent = 0, !.expected = 0, !.data = <<>>,
                     !.client_id = IF c.op = "Registration" THEN hdr.client_id ELSE @,
                     !.result = <<FileResult(c.op, data), data>>]

\* call after the last recv, and the rest of the file call: an error of call
\* is unwrapped by every caller, and the data of a read are copied.
FinishCall(c, hdr, data) ==
    IF ~Matches(c, hdr)
    THEN ClientPanic("malformed") /\ client' = c
    ELSE IF TooMuch(c.op, data)
    THEN ClientPanic("buffer") /\ client' = c
    ELSE /\ Then("idle")
         /\ client' = [c EXCEPT !.phase = "returned", !.req_id = @ + 1, !.req = <<>>,
                          !.data_sent = 0, !.expected = 0, !.data = <<>>,
                          !.client_id = IF c.op = "Registration" THEN hdr.client_id ELSE @,
                          !.result = <<FileResult(c.op, data), data>>]

\* recv returns: the header is in, and then the data it announces.
Received ==
    /\ client.phase = "recv" /\ Polled /\ Len(client.data) = client.expected
    /\ UNCHANGED sock /\ SameRest
    /\ IF client.hdr # ReqHeader(0, 0, 0)
       THEN FinishCall(client, client.hdr, client.data)
       ELSE IF ~IsHeader(client.data)
       THEN ClientPanic("decode") /\ UNCHANGED client
       ELSE LET hdr == client.data[1][2]
            IN  IF hdr.len = 0
                THEN FinishCall(client, hdr, <<>>)
                ELSE /\ AfterPoll
                     /\ client' = [client EXCEPT !.hdr = hdr, !.expected = hdr.len,
                                                 !.data = <<>>]

\* The program may end when a call has returned.
ClientStep ==
    \/ JoinCluster \/ Connect \/ FileCall \/ Send \/ SendWait \/ Sent \/ Recv \/ Received

----------------------------------------------------------------------------
(* The other side (external).                                                *)

\* The server hands out this client id.
AssignedId == 7

\* The cells of packets, and of the packets in the rings of the receive queue.
Cells(ps) == FlattenSeq([i \in DOMAIN ps |-> ps[i].cells])
InRing ==
    LET refilled == IF phy.pc = "refill" THEN <<mem[phy.chain.id]>> ELSE <<>>
    IN  [i \in DOMAIN rxq.inflight |-> mem[rxq.inflight[i][2].id]] \o refilled
Arriving == sock.rx \o phy.token.cells \o Cells(InRing) \o Cells(wire.in)

SameHere == UNCHANGED <<hw, vmx, txq, rxq, bar0, mem, phy, dev, sock, client>>

\* The server answers a request; the answer may carry a wrong id.
Handle(req, a) ==
    [server EXCEPT !.got = <<>>, !.unacked = @ + Len(req) - Len(server.got),
        !.handled = @ + 1, !.answer = a[1], !.bad = (a[2] # 0),
        !.reply = Message(ReqHeader(AssignedId, req[1][2].req_id + a[2], Len(a[1])), a[1])]

\* A packet arrives; a request that is complete is answered at once.
FarReceive ==
    /\ wire.out # <<>>
    /\ LET p   == Head(wire.out)
           got == server.got \o p.cells
       IN  IF p.kind = "syn"
           THEN /\ wire' = [out |-> Tail(wire.out), in |-> Append(wire.in,
                              [kind |-> "synack", cells |-> <<>>, ack |-> 0])]
                /\ UNCHANGED server
           ELSE /\ wire' = [wire EXCEPT !.out = Tail(@)]
                /\ IF Len(got) >= HeaderLen /\ Len(got) = HeaderLen + got[1][2].len
                   THEN \E a \in IF server.handled = 0 THEN {<<<<>>, 0>>} ELSE hw.answers :
                          server' = Handle(got, a)
                   ELSE server' = [server EXCEPT !.got = got, !.unacked = @ + Len(p.cells)]
    /\ SameHere

SendPacket(kind, cells) ==
    wire' = [wire EXCEPT !.in = Append(@, [kind |-> kind, cells |-> cells, ack |-> server.unacked])]

\* The answer is sent as far as the client's buffer takes it.
FarSend ==
    /\ server.reply # <<>> /\ Len(Arriving) < RX_BUF_LEN
    /\ \E n \in {Min({Mss, Len(server.reply), RX_BUF_LEN - Len(Arriving)})} :
         /\ SendPacket("data", SubSeq(server.reply, 1, n))
         /\ server' = [server EXCEPT !.reply = SubSeq(@, n + 1, Len(@)), !.unacked = 0]
    /\ SameHere

\* Part of a request is acknowledged before the rest is there, when the
\* client's buffer cannot take the rest.
FarAck ==
    /\ server.unacked > 0 /\ Len(server.got) >= HeaderLen
    /\ HeaderLen + server.got[1][2].len > TX_BUF_LEN
    /\ SendPacket("ack", <<>>)
    /\ server' = [server EXCEPT !.unacked = 0]
    /\ SameHere

StackStep == StackReceive \/ StackReply \/ StackSend \/ StackFill
FarStep == FarReceive \/ FarSend \/ FarAck

Next ==
    \/ (DriverStep \/ DevStep) /\ UNCHANGED <<sock, client, server>>
    \/ StackStep
    \/ ClientStep
    \/ FarStep

\* The client runs on, the server answers, and the device works on what the
\* doorbells have told it; it need not look at the rings otherwise.
Rung(doorbell, next) == doorbell # next

Fairness ==
    /\ WF_vars(DriverStep /\ UNCHANGED <<sock, client, server>>)
    /\ WF_vars(StackReceive \/ StackSend \/ StackFill)
    /\ WF_vars(JoinCluster \/ Connect \/ Send \/ SendWait \/ Sent \/ Recv \/ Received)
    /\ WF_vars((DevFetch /\ Rung(bar0.tx, dev.txnext)) /\ UNCHANGED <<sock, client, server>>)
    /\ WF_vars(DevComplete /\ UNCHANGED <<sock, client, server>>)
    /\ WF_vars((DevSkipBody \/ DevReceive \/ DevReceiveContent) /\ Rung(bar0.rx, dev.rxnext)
               /\ UNCHANGED <<sock, client, server>>)
    /\ WF_vars(FarReceive) /\ WF_vars(FarSend) /\ WF_vars(FarAck)

Spec == Init /\ [][Next]_vars /\ Fairness

----------------------------------------------------------------------------
(* Properties.                                                               *)

(***************************************************************************)
(* What the device has sent of a request is the request from its start,      *)
(* whole and in order: however the device's reading falls between the stores *)
(* of TxQueue::enqueue, it takes no descriptor before its packet is complete *)
(* and no buffer after the driver has reused it.                             *)
(***************************************************************************)
RequestIntact == IsPrefix(server.got \o Cells(wire.out), client.req)

(***************************************************************************)
(* The cells on their way to the client, in the socket, the buffers of the   *)
(* receive queue and on the wire, followed by what the server has yet to     *)
(* send, are the end of its last answer: RxQueue::dequeue pairs every        *)
(* completion with the chain the device filled.                              *)
(***************************************************************************)
LastAnswer == Message(ReqHeader(0, 0, 0), server.answer)
AnswerIntact ==
    LET rest == Arriving \o server.reply
        size == Len(LastAnswer) - Len(rest)
    IN  /\ size >= 0
        /\ \A i \in DOMAIN rest : rest[i][1] = LastAnswer[size + i][1]

(***************************************************************************)
(* A call that returned was given the answer to its own request: call takes  *)
(* the header and exactly the data it announces, and compares the ids.  What *)
(* the file call then reports as success is as much data as came with it.    *)
(***************************************************************************)
AnswerIsToCall ==
    client.phase = "returned" =>
        /\ server.handled = client.calls + 1
        /\ ~server.bad
        /\ client.result[2] = server.answer
        /\ Arriving = <<>>
        /\ client.result[1][1] = "Ok" =>
              Len(server.answer) = 1 + (IF client.op = "ReadAt" THEN client.result[1][2] ELSE 0)

(***************************************************************************)
(* TxToken::consume finds room unless the chains the device has not given    *)
(* back take the ring.  receive finds room for its new chain unless          *)
(* entries completed for no packet put the places on the two rings that      *)
(* RxQueue::len compares out of step.  The client stops only for a request   *)
(* that does not fit the socket's buffer or an answer with a wrong id.       *)
(***************************************************************************)
TxOutstanding == FoldLeft(LAMBDA n, e : n + e[2].segs, 0, txq.inflight)
PanicIsDue ==
    /\ phy.pc = "panic"
    /\ \/ phy.back = "slice" /\ Len(client.req) > TX_BUF_LEN
       \/ phy.back = "malformed" /\ server.bad
       \/ phy.back = "buffer" /\ Len(server.answer) > 1 + ReadLen
       \/ phy.back = "enqueue" /\ TxOutstanding + phy.chain.segs >= NDesc
       \/ phy.back = "refill" /\ (rxq.tail - rxq.head \div 2) % (NDesc \div 2) # 0

(***************************************************************************)
(* Over a device that could be enabled and puts a packet in one buffer every *)
(* call returns, or the client stops where it must (PanicIsDue): no packet   *)
(* is left lying because a doorbell was not rung or a buffer not given to    *)
(* the device, and no ring is found full or out of step before it is.        *)
(***************************************************************************)
InCall == client.phase \in {"connect", "send", "recv"}
CallReturns == (InCall /\ vmx.state = "enabled" /\ hw.frags = 1) ~> (~InCall \/ PanicIsDue)
=============================================================================
