---------------------------- MODULE MCRpcClient ----------------------------
(* A device that works, and ones that are not supported.                   *)
EXTENDS RpcClient

\* File calls, <<operation, cells of its data>>: requests that just fit the
\* socket's buffer, and one that does not.
Ops == {<<"ReadAt", 1>>, <<"Open", 1>>, <<"WriteAt", 2>>}

\* Answers, <<data, what it adds to the request id>>: nothing at all, results
\* without and with data, one that announces data it lacks, one with more data
\* than were asked for, and one with a wrong id.
Answers == {<<<<>>, 0>>, <<<<<<"Ok", 1>>>>, 0>>,
            <<<<<<"Ok", 0>>>>, 0>>, <<<<<<"Ok", 1>>, <<"data", 1>>>>, 0>>,
            <<<<<<"Ok", 2>>, <<"data", 1>>, <<"data", 2>>>>, 0>>, <<<<<<"Ok", 0>>>>, 1>>}

Works == [vrrs |-> 1, uvrs |-> 1, intr_config |-> VMXNET3_IT_AUTO, enables |-> TRUE, link |-> TRUE,
          frags |-> 1, faults |-> {}, replies |-> 0, calls |-> 1, ops |-> Ops, answers |-> Answers]
OneWay == [Works EXCEPT !.ops = {<<"ReadAt", 1>>}, !.answers = {<<<<<<"Ok", 0>>>>, 0>>}]

\* Devices the driver cannot use; every call and answer; and, with one call and
\* answer, packets in two buffers, several calls that lap the rings, answers
\* sent from receive, and completions with no good packet.
MCHardware ==
    {[Works EXCEPT !.vrrs = 2], [Works EXCEPT !.uvrs = 2],
     [Works EXCEPT !.intr_config = VMXNET3_IT_MSI],
     [Works EXCEPT !.enables = FALSE], [Works EXCEPT !.link = FALSE],
     Works, [OneWay EXCEPT !.frags = 2],
     [OneWay EXCEPT !.calls = 3], [OneWay EXCEPT !.replies = 2],
     [OneWay EXCEPT !.faults = {1, 2}]}
=============================================================================
