------------------------------ MODULE PerfCases ------------------------------
(***************************************************************************)
(* The pure parts of the benchmark matrices of tools/perf/: the cases a    *)
(* matrix is made of, the ports they use and the grouped summary of their  *)
(* rows.  Options that no control decision looks at (buffer sizes, queue   *)
(* depths, checksums, ...) multiply the cases and change nothing else, so  *)
(* one of each is enough.                                                  *)
(***************************************************************************)
EXTENDS Counting, Integers, Sequences, FiniteSets

CONSTANTS PortStride,  \* --port-stride
          PortLimit,   \* the largest port: 65535, or what stands for it
          Connections  \* --connections, the same for all cases

ASSUME PortAssumption ==
    PortStride \in Nat \ {0} /\ PortLimit \in Nat /\ Connections \in Nat \ {0}

(* What parse_choice_list, parse_int_list and argparse let through.            *)
Directions == {"stor", "retr", "stor-resume", "retr-resume"}
TlsModes == {"off", "required"}
Options ==
    [directions : Seq(Directions), chunks : Seq(Int), buffers : Seq(Int),
     strategies : Seq({"auto", "direct", "coalesced"}), profiles : Seq({"default", "bounded"}),
     pendings : Seq(Nat), yields : Seq({"none", "dirty_poll"}),
     tls : Seq(TlsModes), data_tls : Seq(TlsModes), repeat : Int]

(* itertools.product and the nested loops: every choice of one position in    *)
(* each list, in the order in which the last position varies fastest.         *)
Choices(lists) ==
    {t \in [DOMAIN lists -> UNION {DOMAIN lists[k] : k \in DOMAIN lists}] :
        \A k \in DOMAIN lists : t[k] \in DOMAIN lists[k]}
Before(t, u) == \E k \in DOMAIN t : t[k] < u[k] /\ \A j \in 1..(k - 1) : t[j] = u[j]
range(n) == [i \in 1..n |-> i - 1]

is_valid_write_strategy_case(strategy, file_io_buffer_size) ==
    ~(strategy = "coalesced" /\ file_io_buffer_size = 0)

is_valid_receiver_writeback_case(profile, max_pending_bytes, yield_policy) ==
    \/ profile = "default" /\ max_pending_bytes = 0 /\ yield_policy = "none"
    \/ profile = "bounded" /\ max_pending_bytes > 0

ValidTls(tls, data_tls) == ~(tls = "off" /\ data_tls = "required")

Case(index, direction, chunks, tls, repeat_index) ==
    [index |-> index, direction |-> direction, chunks |-> chunks, tls |-> tls,
     repeat_index |-> repeat_index]
(* The cases a matrix can have.                                               *)
Cases == [index : Nat, direction : Directions, chunks : Int, tls : TlsModes, repeat_index : Nat]

TlsOf(tls, data_tls) == IF "required" \in {tls, data_tls} THEN "required" ELSE "off"

(* The index of a case counts the valid ones.                                 *)
MatrixLists(args) ==
    <<args.directions, args.chunks, args.buffers, args.strategies, args.profiles,
      args.pendings, args.yields, args.tls, args.data_tls, range(args.repeat)>>
ValidCombination(lists, t) ==
    /\ is_valid_write_strategy_case(lists[4][t[4]], lists[3][t[3]])
    /\ is_valid_receiver_writeback_case(lists[5][t[5]], lists[6][t[6]], lists[7][t[7]])
    /\ ValidTls(lists[8][t[8]], lists[9][t[9]])
generate_cases(args) ==
    LET lists == MatrixLists(args)
        valid == {t \in Choices(lists) : ValidCombination(lists, t)}
    IN [i \in 1..Cardinality(valid) |->
           LET t == Nth(valid, Before, i)
           IN Case(i - 1, lists[1][t[1]], lists[2][t[2]], TlsOf(lists[8][t[8]], lists[9][t[9]]),
                   lists[10][t[10]])]

(* The tree matrix: a dataset is the number of its files, upload and download *)
(* stand for stor and retr.                                                   *)
TreeLists(args) == <<args.chunks, args.directions, args.tls, args.data_tls, range(args.repeat)>>
build_cases(args) ==
    LET lists == TreeLists(args)
        valid == {t \in Choices(lists) : ValidTls(lists[3][t[3]], lists[4][t[4]])}
    IN [i \in 1..Cardinality(valid) |->
           LET t == Nth(valid, Before, i)
           IN Case(i - 1, lists[2][t[2]], lists[1][t[1]], TlsOf(lists[3][t[3]], lists[4][t[4]]),
                   lists[5][t[5]])]

IsUpload(case) == case.direction \in {"stor", "stor-resume"}
IsResume(case) == case.direction \in {"stor-resume", "retr-resume"}

control_port(base, case) == base + case.index * PortStride
data_port_base(base, case) == base + case.index * PortStride
validate_ports(base, data, cases) ==
    \A i \in DOMAIN cases :
        /\ control_port(base, cases[i]) <= PortLimit
        /\ data_port_base(data, cases[i]) + Connections <= PortLimit

-----------------------------------------------------------------------------
(* A row: the case, its result, and whether fill_metrics had seen the logs    *)
(* of both sides.                                                             *)
GroupKey(row) == <<row.case.direction, row.case.chunks, row.case.tls, row.metrics>>

summarize_rows(rows) ==
    LET group(key) == {i \in DOMAIN rows : GroupKey(rows[i]) = key}
        passed(key) == Cardinality({i \in group(key) : rows[i].result = "pass"})
    IN  {[key |-> key, repeat_count |-> Cardinality(group(key)), pass_count |-> passed(key),
          fail_count |-> Cardinality(group(key)) - passed(key)] :
            key \in {GroupKey(rows[i]) : i \in DOMAIN rows}}

(* The sum of a column of the summary (summary_fail_count of the disk proof): *)
(* a group stands for as many rows as it says.                                *)
FailCount(summary) == Tally([g \in summary |-> g.fail_count])
RowCount(summary) == Tally([g \in summary |-> g.repeat_count])
=============================================================================
