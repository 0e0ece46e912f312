------------------------------- MODULE MCPerf -------------------------------
(* A small instance of PerfCampaign: a campaign with its nested matrix, and   *)
(* a run started by hand that uses the same ports and directories.            *)
EXTENDS PerfCampaign

CONSTANTS c1, nested, hand

(* Two chunks, so that a partial transfer is cut short.                       *)
MCSizes == <<2>>
Upload == MatrixCommand(<<"stor">>, "off", 1)

(* The run by hand is a resumed transfer over TLS, an upload with the tree    *)
(* tool and a download with the private matrix; it has no case at all (data   *)
(* TLS without TLS); or, with the private matrix, it is the first case of the *)
(* nested one with combinations that are filtered, or has three cases, one    *)
(* more than there are data ports for.                                        *)
NoCase == [Upload EXCEPT !.data_tls = <<"required">>]
TreeArgs == {NoCase, MatrixCommand(<<"stor-resume">>, "required", 1)}
HandArgs == {NoCase, MatrixCommand(<<"retr-resume">>, "required", 1),
             [Upload EXCEPT !.strategies = <<"auto", "coalesced">>, !.pendings = <<0, 1>>],
             [Upload EXCEPT !.repeat = 3]}

MCCommandLines == TreeArgs \cup HandArgs \cup CloudSpecs \cup ThreeWayCommands \cup DiskSpecs

MCBase == [r \in Runs |-> 0]
MCArgsOf == [r \in Operator |-> [matrix |-> HandArgs, tree |-> TreeArgs]]
MCNestedRun == [c \in Campaigns |-> nested]
=============================================================================
