------------------------- MODULE PerfCampaignProofs -------------------------
(***************************************************************************)
(* The safety properties of PerfCampaign, for every set of runs and        *)
(* campaigns, every options a run may be started with, and every bound.    *)
(*                                                                         *)
(* RunInv says where a run is in its case: what it knows of its client,    *)
(* its server, its rows and the files it has written.  PortInv says whose  *)
(* servers listen where, OrphanInv what a run that left a client behind    *)
(* has made of it. CampaignInv says what a campaign has started in the     *)
(* phase it is in, and what the wrapper of a disk proof rests on.          *)
(* Together they are IInv: an action of a run changes its own RunInv and   *)
(* leaves that of the other runs alone, since a port or an orphan of       *)
(* another run is none of its business; a campaign only sees a matrix      *)
(* through its exit status, which once "ok" stays "ok" (ExitsStay).        *)
(***************************************************************************)
EXTENDS PerfCampaign, CountingProofs, SequenceTheorems, TLAPS

(* The steps of a case at which its server may run, and those before the      *)
(* hashes were compared.                                                      *)
Serving == {"source", "connect", "request", "client", "await", "reply", "hash", "handler",
            "finally"}
Trying == {"source", "connect", "request", "client", "await", "reply", "hash"}
RunPcs == {"idle", "case", "clean", "csv", "csv_write", "summary", "leftover", "teardown"}
            \cup Serving

Attempts == {"once", "partial", "resume"}
Results == {"pass", "fail"}
Rows == [case : Cases, result : Results, metrics : BOOLEAN]
RunStates ==
  [pc : RunPcs, plan : Seq(Cases), next : Nat, attempt : Attempts,
   served : Runs \cup {Absent}, reply : {"none", "226", "550"}, result : Results,
   metrics : BOOLEAN, delivered : BOOLEAN, cut : BOOLEAN, aborted : BOOLEAN, rows : Seq(Rows),
   exit : {"none", "ok", "fail", "crash", "killed"}]

RunsOK ==
  /\ tool \in [Runs -> {"matrix", "tree"}]
  /\ run \in [Runs -> RunStates]
  /\ server \in [Runs -> {"none", "starting", "up", "dead"}]
  /\ port \in [0 .. PortLimit -> Runs \cup {Absent}]
  /\ client \in [Runs -> {"none", "running", "ok", "failed"}]
DiskOK ==
  /\ DOMAIN disk = Runs
  /\ \A r \in Runs : /\ disk[r] = [csv |-> disk[r].csv, summary |-> disk[r].summary,
                                   printed |-> disk[r].printed, root |-> disk[r].root]
                     /\ disk[r].csv \in Seq(Rows)

(* Where a run is: the case, and when it may have a client or a server.       *)
PlaceInv(r) ==
  /\ run[r].next \in 1 .. Len(run[r].plan) + 1
  /\ run[r].pc \in Serving \cup {"clean", "csv", "csv_write", "summary"} =>
       run[r].next <= Len(run[r].plan)
  /\ run[r].pc = "idle" => run[r].next = 1 /\ run[r].rows = <<>>
  /\ run[r].aborted => run[r].pc \in {"finally", "clean", "teardown"}
  /\ client[r] # "none" => run[r].pc = "await" /\ run[r].exit = "none"
  /\ server[r] # "none" => run[r].pc \in Serving

(* What a run knows of its case: a client that ended well has delivered, and  *)
(* one that failed in a partial transfer was cut short.                       *)
PassInv(r) ==
  /\ run[r].result = "pass" =>
       /\ run[r].pc \in {"handler", "finally", "clean", "csv", "teardown"}
       /\ run[r].delivered
       /\ tool[r] = "matrix" /\ run[r].next <= Len(run[r].plan) /\ IsResume(CaseOf(r)) =>
            run[r].cut
  /\ run[r].pc \in Trying =>
       /\ IsResume(CaseOf(r)) => run[r].attempt # "once"
       /\ tool[r] = "matrix" /\ run[r].attempt = "resume" => run[r].cut
  /\ run[r].pc = "await" =>
       /\ client[r] = "ok" /\ run[r].attempt # "partial" => run[r].delivered
       /\ client[r] = "failed" /\ run[r].attempt = "partial" => run[r].cut
  /\ run[r].pc = "reply" =>
       IF run[r].attempt = "partial" THEN run[r].cut ELSE run[r].delivered
  /\ run[r].pc = "hash" => run[r].delivered /\ run[r].attempt # "partial"

(* The rows are those of the cases before, and the files follow them.         *)
RowsInv(r) ==
  /\ Len(run[r].rows) = IF run[r].pc \in {"csv_write", "summary"} THEN run[r].next
                                                                 ELSE run[r].next - 1
  /\ \A i \in 1 .. Len(run[r].rows) : run[r].rows[i].case = run[r].plan[i]
  /\ run[r].pc # "csv_write" => disk[r].csv = run[r].rows
  /\ run[r].pc \notin {"csv_write", "summary"} => disk[r].summary = summarize_rows(run[r].rows)

(* A run that is about to end without an abort has taken every case, printed  *)
(* its paths and owns no port.                                                *)
EndInv(r) ==
  /\ run[r].pc = "teardown" /\ ~run[r].aborted =>
       /\ run[r].next > Len(run[r].plan) /\ disk[r].printed
       /\ \A p \in 0 .. PortLimit : port[p] # r
  /\ run[r].exit = "ok" => run[r].pc = "teardown" /\ ~run[r].aborted /\ AllPass(r)

RunInv(r) == PlaceInv(r) /\ PassInv(r) /\ RowsInv(r) /\ EndInv(r)

(* A server that answers is the one of its run's case.                        *)
PortInv ==
  \A p \in 0 .. PortLimit : \A q \in Runs :
    port[p] = q => p \in frozen \/ (server[q] = "up" /\ p = PortOf(q))

(* A run that has left a client behind has failed, or is about to.            *)
Marked(r) ==
  \/ run[r].exit \in {"fail", "crash", "killed"}
  \/ run[r].aborted
  \/ \E i \in 1 .. Len(run[r].rows) : run[r].rows[i].result = "fail"
  \/ run[r].pc = "handler"
  \/ run[r].pc \in {"finally", "clean", "csv"} /\ run[r].result = "fail"
OrphanInv == \A o \in orphans : o.run \in Runs /\ Marked(o.run)

MatrixInv == RunsOK /\ DiskOK /\ PortInv /\ OrphanInv /\ \A r \in Runs : RunInv(r)

-----------------------------------------------------------------------------
(* The cases of a matrix                                                      *)

(* A list of lists of options: the n-th choice of a list is at a position.    *)
Lists(lists, n) ==
  /\ DOMAIN lists = 1 .. n
  /\ \A k \in 1 .. n : DOMAIN lists[k] \in SUBSET Nat /\ IsFiniteSet(DOMAIN lists[k])

(* Finitely many options can be combined in finitely many ways.               *)
LEMMA ChoicesFinite ==
  ASSUME NEW lists, NEW n \in Nat, Lists(lists, n)
  PROVE  IsFiniteSet(Choices(lists))
<1> DEFINE P == [k \in 1 .. n |-> DOMAIN lists[k]]
           D == {DOMAIN lists[k] : k \in DOMAIN lists}
           A == 1 .. n
           B == UNION D
           graph(t) == {<<k, t[k]>> : k \in A}
           f == [t \in Choices(lists) |-> graph(t)]
<1>1. IsFiniteSet(A) BY FS_Interval
<1>2. IsFiniteSet(D)
  <2>1. P \in Surjection(A, D) BY DEF Surjection, Lists
  <2> QED BY <1>1, <2>1, FS_Surjection
<1>3. IsFiniteSet(B)
  <2>1. \A T \in D : IsFiniteSet(T) BY DEF Lists
  <2> HIDE DEF D
  <2> QED BY <1>2, <2>1, FS_UNION
<1>4. IsFiniteSet(SUBSET (A \X B))
  <2> HIDE DEF A, B
  <2> QED BY <1>1, <1>3, FS_Product, FS_SUBSET
<1>5. ASSUME NEW t \in Choices(lists) PROVE graph(t) \in SUBSET (A \X B)
  <2>1. t \in [A -> B] BY DEF Choices, Lists
  <2> HIDE DEF A, B
  <2> QED BY <2>1
<1>6. ASSUME NEW t \in Choices(lists), NEW u \in Choices(lists), graph(t) = graph(u)
      PROVE  t = u
  <2>1. t \in [A -> B] /\ u \in [A -> B] BY DEF Choices, Lists
  <2>2. ASSUME NEW k \in A PROVE t[k] = u[k]
    <3>1. <<k, t[k]>> \in graph(u) BY <1>6
    <3> QED BY <3>1
  <2> HIDE DEF A, B
  <2> QED BY <2>1, <2>2
<1>7. f \in [Choices(lists) -> SUBSET (A \X B)] BY <1>5
<1>8. \A t \in Choices(lists) : f[t] = graph(t) OBVIOUS
<1> HIDE DEF f, graph, A, B
<1>9. f \in Injection(Choices(lists), SUBSET (A \X B))
  BY <1>6, <1>7, <1>8 DEF Injection, IsInjective
<1> QED BY <1>4, <1>9, FS_Injection

(* The pairs of choices in the order of itertools.product.                    *)
Order(lists) == {tu \in Choices(lists) \X Choices(lists) : Before(tu[1], tu[2])}

(* Where two choices differ first, one of them comes before the other.        *)
LEMMA ChoicesOrdered ==
  ASSUME NEW lists, NEW n \in Nat, Lists(lists, n)
  PROVE  StrictOrder(Order(lists), Choices(lists))
<1>1. \A t \in Choices(lists) : DOMAIN t = 1 .. n /\ \A k \in 1 .. n : t[k] \in Nat
  BY DEF Choices, Lists
<1>2. \A t, u \in Choices(lists) : <<t, u>> \in Order(lists) <=> Before(t, u)
  BY DEF Order
<1>3. ASSUME NEW t \in Choices(lists) PROVE ~Before(t, t)
  BY <1>1 DEF Before
<1>4. ASSUME NEW t \in Choices(lists), NEW u \in Choices(lists), NEW v \in Choices(lists),
             Before(t, u), Before(u, v)
      PROVE  Before(t, v)
  <2>1. PICK k \in 1 .. n : t[k] < u[k] /\ \A j \in 1 .. (k - 1) : t[j] = u[j]
    BY <1>1, <1>4 DEF Before
  <2>2. PICK l \in 1 .. n : u[l] < v[l] /\ \A j \in 1 .. (l - 1) : u[j] = v[j]
    BY <1>1, <1>4 DEF Before
  <2>3. CASE k <= l
    <3>1. t[k] < v[k] BY <1>1, <2>1, <2>2, <2>3
    <3>2. \A j \in 1 .. (k - 1) : t[j] = v[j] BY <2>1, <2>2, <2>3
    <3> QED BY <1>1, <3>1, <3>2 DEF Before
  <2>4. CASE l < k
    <3>1. t[l] < v[l] BY <1>1, <2>1, <2>2, <2>4
    <3>2. \A j \in 1 .. (l - 1) : t[j] = v[j] BY <2>1, <2>2, <2>4
    <3> QED BY <1>1, <3>1, <3>2 DEF Before
  <2> QED BY <2>3, <2>4
<1>5. ASSUME NEW t \in Choices(lists), NEW u \in Choices(lists), t # u
      PROVE  Before(t, u) \/ Before(u, t)
  <2> DEFINE differ == {k \in 1 .. n : t[k] # u[k]}
  <2>1. differ # {}
    <3>1. SUFFICES ASSUME \A k \in 1 .. n : t[k] = u[k] PROVE t = u BY <1>5
    <3>2. t = [k \in 1 .. n |-> t[k]] /\ u = [k \in 1 .. n |-> u[k]]
      BY <1>1 DEF Choices
    <3> QED BY <3>1, <3>2
  <2>2. differ \in SUBSET Nat OBVIOUS
  <2>3. PICK k \in differ : \A j \in differ : k <= j BY <2>1, <2>2, LeastNat
  <2>4. \A j \in 1 .. (k - 1) : t[j] = u[j] BY <2>3
  <2>5. t[k] < u[k] \/ u[k] < t[k] BY <1>1
  <2> QED BY <1>1, <2>4, <2>5 DEF Before
<1> QED BY <1>2, <1>3, <1>4, <1>5 DEF StrictOrder

(* The i-th valid choice is one, and every valid choice is the i-th for one i. *)
LEMMA NthChoice ==
  ASSUME NEW lists, NEW n \in Nat, Lists(lists, n), NEW valid \in SUBSET Choices(lists)
  PROVE  /\ Cardinality(valid) \in Nat
         /\ \A i \in 1 .. Cardinality(valid) : Nth(valid, Before, i) \in valid
         /\ \A t \in valid : \E i \in 1 .. Cardinality(valid) : Nth(valid, Before, i) = t
<1> DEFINE R == Order(lists)
<1>1. IsFiniteSet(valid) /\ Cardinality(valid) \in Nat
  BY ChoicesFinite, FS_Subset, FS_CardinalityType
<1>2. StrictOrder(R, valid) BY ChoicesOrdered DEF StrictOrder
<1>3. ASSUME NEW x \in valid PROVE Cardinality({y \in valid : Before(y, x)}) = Rank(R, valid, x)
  <2>1. {y \in valid : Before(y, x)} = {y \in valid : <<y, x>> \in R} BY DEF Order
  <2> QED BY <2>1 DEF Rank
<1> HIDE DEF R
<1>4. /\ \A x \in valid : Rank(R, valid, x) \in 0 .. Cardinality(valid) - 1
      /\ \A x, y \in valid : Rank(R, valid, x) = Rank(R, valid, y) => x = y
      /\ \A i \in 1 .. Cardinality(valid) : \E x \in valid : Rank(R, valid, x) = i - 1
  BY <1>1, <1>2, RanksAreUnique
<1>5. ASSUME NEW i \in 1 .. Cardinality(valid)
      PROVE  /\ Nth(valid, Before, i) \in valid
             /\ Rank(R, valid, Nth(valid, Before, i)) = i - 1
  <2>1. PICK x \in valid : Cardinality({y \in valid : Before(y, x)}) = i - 1
    BY <1>3, <1>4
  <2>2. /\ Nth(valid, Before, i) \in valid
        /\ Cardinality({y \in valid : Before(y, Nth(valid, Before, i))}) = i - 1
    BY <2>1 DEF Nth
  <2> QED BY <1>3, <2>2
<1>6. ASSUME NEW t \in valid PROVE \E i \in 1 .. Cardinality(valid) : Nth(valid, Before, i) = t
  <2>1. PICK i \in 1 .. Cardinality(valid) : i - 1 = Rank(R, valid, t)
    <3>1. PICK rank \in 0 .. Cardinality(valid) - 1 : rank = Rank(R, valid, t) BY <1>4
    <3>2. rank + 1 \in 1 .. Cardinality(valid) /\ (rank + 1) - 1 = rank BY <1>1
    <3> QED BY <3>1, <3>2
  <2> QED BY <1>4, <1>5, <2>1
<1> QED BY <1>1, <1>5, <1>6

(* range(n) is a list of numbers.                                             *)
LEMMA RangeIs ==
  ASSUME NEW n \in Int
  PROVE  /\ DOMAIN range(n) \in SUBSET Nat /\ IsFiniteSet(DOMAIN range(n))
         /\ \A i \in DOMAIN range(n) : range(n)[i] \in Nat
BY FS_Interval DEF range

(* The options of a command line give the loops finite lists.                 *)
LEMMA OptionLists ==
  ASSUME NEW args \in Options
  PROVE  Lists(MatrixLists(args), 10) /\ Lists(TreeLists(args), 5)
<1> DEFINE Good(s) == DOMAIN s \in SUBSET Nat /\ IsFiniteSet(DOMAIN s)
<1>1. ASSUME NEW S, NEW s \in Seq(S) PROVE Good(s)
  <2>1. DOMAIN s = 1 .. Len(s) /\ Len(s) \in Nat OBVIOUS
  <2> QED BY <2>1, FS_Interval
<1>2. /\ Good(args.directions) /\ Good(args.chunks) /\ Good(args.buffers)
      /\ Good(args.strategies) /\ Good(args.profiles) /\ Good(args.pendings)
      /\ Good(args.yields) /\ Good(args.tls) /\ Good(args.data_tls)
  BY <1>1 DEF Options
<1>3. Good(range(args.repeat)) BY RangeIs DEF Options
<1> HIDE DEF Good
<1>4. /\ DOMAIN MatrixLists(args) = 1 .. 10
      /\ \A k \in 1 .. 10 : Good(MatrixLists(args)[k])
  BY <1>2, <1>3 DEF MatrixLists
<1>5. /\ DOMAIN TreeLists(args) = 1 .. 5
      /\ \A k \in 1 .. 5 : Good(TreeLists(args)[k])
  BY <1>2, <1>3 DEF TreeLists
<1> QED BY <1>4, <1>5 DEF Good, Lists

(* generate_cases and build_cases make cases.                                 *)
LEMMA PlansAreCases ==
  ASSUME NEW args \in Options
  PROVE  generate_cases(args) \in Seq(Cases) /\ build_cases(args) \in Seq(Cases)
<1>1. Lists(MatrixLists(args), 10) /\ Lists(TreeLists(args), 5) BY OptionLists
<1>2. /\ args.directions \in Seq(Directions) /\ args.chunks \in Seq(Int)
      /\ args.tls \in Seq(TlsModes) /\ args.data_tls \in Seq(TlsModes) /\ args.repeat \in Int
  BY DEF Options
<1>3. generate_cases(args) \in Seq(Cases)
  <2> DEFINE lists == MatrixLists(args)
             valid == {t \in Choices(lists) : ValidCombination(lists, t)}
             made(t, i) == Case(i - 1, lists[1][t[1]], lists[2][t[2]],
                                TlsOf(lists[8][t[8]], lists[9][t[9]]), lists[10][t[10]])
  <2>1. /\ lists[1] = args.directions /\ lists[2] = args.chunks /\ lists[8] = args.tls
        /\ lists[9] = args.data_tls /\ lists[10] = range(args.repeat)
    BY DEF MatrixLists
  <2>2. ASSUME NEW t \in valid, NEW i \in 1 .. Cardinality(valid) PROVE made(t, i) \in Cases
    <3>1. \A k \in 1 .. 10 : t[k] \in DOMAIN lists[k] BY <1>1 DEF Choices, Lists
    <3>2. t[1] \in DOMAIN lists[1] /\ t[2] \in DOMAIN lists[2] /\ t[10] \in DOMAIN lists[10]
      BY <3>1
    <3>3. lists[1][t[1]] \in Directions /\ lists[2][t[2]] \in Int BY <1>2, <2>1, <3>2, SMTT(30)
    <3>4. TlsOf(lists[8][t[8]], lists[9][t[9]]) \in TlsModes BY DEF TlsOf, TlsModes
    <3>5. lists[10][t[10]] \in Nat BY <1>2, <2>1, <3>2, RangeIs
    <3>6. i - 1 \in Nat OBVIOUS
    <3> HIDE DEF lists, valid
    <3> QED BY <3>3, <3>4, <3>5, <3>6 DEF Case, Cases
  <2>3. /\ Cardinality(valid) \in Nat
        /\ \A i \in 1 .. Cardinality(valid) : Nth(valid, Before, i) \in valid
    <3>1. valid \in SUBSET Choices(lists) OBVIOUS
    <3> HIDE DEF lists, valid
    <3> QED BY <1>1, <3>1, NthChoice DEF lists
  <2>4. generate_cases(args) = [i \in 1 .. Cardinality(valid) |-> made(Nth(valid, Before, i), i)]
    BY DEF generate_cases
  <2> HIDE DEF lists, valid, made
  <2> QED BY <2>2, <2>3, <2>4
<1>4. build_cases(args) \in Seq(Cases)
  <2> DEFINE lists == TreeLists(args)
             valid == {t \in Choices(lists) : ValidTls(lists[3][t[3]], lists[4][t[4]])}
             made(t, i) == Case(i - 1, lists[2][t[2]], lists[1][t[1]],
                                TlsOf(lists[3][t[3]], lists[4][t[4]]), lists[5][t[5]])
  <2>1. /\ lists[1] = args.chunks /\ lists[2] = args.directions /\ lists[3] = args.tls
        /\ lists[4] = args.data_tls /\ lists[5] = range(args.repeat)
    BY DEF TreeLists
  <2>2. ASSUME NEW t \in valid, NEW i \in 1 .. Cardinality(valid) PROVE made(t, i) \in Cases
    <3>1. \A k \in 1 .. 5 : t[k] \in DOMAIN lists[k] BY <1>1 DEF Choices, Lists
    <3>2. t[1] \in DOMAIN lists[1] /\ t[2] \in DOMAIN lists[2] /\ t[5] \in DOMAIN lists[5]
      BY <3>1
    <3>3. lists[2][t[2]] \in Directions /\ lists[1][t[1]] \in Int BY <1>2, <2>1, <3>2, SMTT(30)
    <3>4. TlsOf(lists[3][t[3]], lists[4][t[4]]) \in TlsModes BY DEF TlsOf, TlsModes
    <3>5. lists[5][t[5]] \in Nat BY <1>2, <2>1, <3>2, RangeIs
    <3>6. i - 1 \in Nat OBVIOUS
    <3> HIDE DEF lists, valid
    <3> QED BY <3>3, <3>4, <3>5, <3>6 DEF Case, Cases
  <2>3. /\ Cardinality(valid) \in Nat
        /\ \A i \in 1 .. Cardinality(valid) : Nth(valid, Before, i) \in valid
    <3>1. valid \in SUBSET Choices(lists) OBVIOUS
    <3> HIDE DEF lists, valid
    <3> QED BY <1>1, <3>1, NthChoice DEF lists
  <2>4. build_cases(args) = [i \in 1 .. Cardinality(valid) |-> made(Nth(valid, Before, i), i)]
    BY DEF build_cases
  <2> HIDE DEF lists, valid, made
  <2> QED BY <2>2, <2>3, <2>4
<1> QED BY <1>3, <1>4

(* The private matrix leaves no valid combination of its options out, and the *)
(* case of a combination has the index of its place: the ports of two cases   *)
(* of a run are never the same (generate_cases, control_port).                *)
THEOREM EveryCombinationHasItsCase ==
  ASSUME NEW args \in Options
  PROVE  LET lists == MatrixLists(args)
             cases == generate_cases(args)
         IN  /\ \A t \in Choices(lists) : ValidCombination(lists, t) =>
                  \E i \in DOMAIN cases :
                    cases[i] = Case(i - 1, lists[1][t[1]], lists[2][t[2]],
                                    TlsOf(lists[8][t[8]], lists[9][t[9]]), lists[10][t[10]])
             /\ \A base \in Nat, i, j \in DOMAIN cases :
                  control_port(base, cases[i]) = control_port(base, cases[j]) => i = j
<1> DEFINE lists == MatrixLists(args)
           cases == generate_cases(args)
           valid == {t \in Choices(lists) : ValidCombination(lists, t)}
           made(t, i) == Case(i - 1, lists[1][t[1]], lists[2][t[2]],
                              TlsOf(lists[8][t[8]], lists[9][t[9]]), lists[10][t[10]])
<1>1. cases = [i \in 1 .. Cardinality(valid) |-> made(Nth(valid, Before, i), i)]
  BY DEF generate_cases
<1>2. /\ Cardinality(valid) \in Nat
      /\ \A t \in valid : \E i \in 1 .. Cardinality(valid) : Nth(valid, Before, i) = t
  <2>1. valid \in SUBSET Choices(lists) /\ Lists(lists, 10) BY OptionLists
  <2> HIDE DEF lists, valid
  <2> QED BY <2>1, NthChoice
<1>3. ASSUME NEW t \in Choices(lists), ValidCombination(lists, t)
      PROVE  \E i \in DOMAIN cases : cases[i] = made(t, i)
  <2>1. t \in valid BY <1>3
  <2> HIDE DEF lists, cases, valid, made
  <2>2. PICK i \in 1 .. Cardinality(valid) : Nth(valid, Before, i) = t BY <1>2, <2>1
  <2> QED BY <1>1, <2>2
<1>4. ASSUME NEW i \in DOMAIN cases PROVE i \in Nat /\ cases[i].index = i - 1
  <2>1. \A t : made(t, i).index = i - 1 BY DEF Case
  <2> HIDE DEF lists, cases, valid, made
  <2> QED BY <1>1, <1>2, <2>1
<1>5. ASSUME NEW base \in Nat, NEW i \in DOMAIN cases, NEW j \in DOMAIN cases,
             control_port(base, cases[i]) = control_port(base, cases[j])
      PROVE  i = j
  <2> HIDE DEF lists, cases
  <2>1. /\ i \in Nat /\ j \in Nat /\ cases[i].index = i - 1 /\ cases[j].index = j - 1
        /\ PortStride \in Nat /\ PortStride # 0
    BY <1>4, PortAssumption
  <2>2. base + (i - 1) * PortStride = base + (j - 1) * PortStride
    BY <1>5, <2>1 DEF control_port
  <2>3. (i - 1) * PortStride = (j - 1) * PortStride
    <3>1. PICK a \in Int : a = (i - 1) * PortStride BY <2>1
    <3>2. PICK b \in Int : b = (j - 1) * PortStride BY <2>1
    <3>3. base + a = base + b BY <2>2, <3>1, <3>2
    <3>4. a = b BY <3>3
    <3> QED BY <3>1, <3>2, <3>4
  <2>4. (i - j) * PortStride = 0 BY <2>1, <2>3
  <2>5. i - j = 0 BY <2>1, <2>4
  <2> QED BY <2>1, <2>5
<1> QED BY <1>3, <1>5
-----------------------------------------------------------------------------
(* A step of one run                                                          *)

(* Run r goes on with its case, as record y says.                             *)
Becomes(r, y) ==
  /\ run' = [run EXCEPT ![r] = y]
  /\ y.plan = run[r].plan /\ y.next = run[r].next
  /\ y.rows = run[r].rows /\ y.exit = run[r].exit
Knows(r, y) == y.delivered = run[r].delivered /\ y.cut = run[r].cut
Same(r, y) == Knows(r, y) /\ y.aborted = run[r].aborted
Holds(r, y) == y.attempt = run[r].attempt /\ y.result = run[r].result /\ Same(r, y)

(* The assignments that more than one action makes.                           *)
Ended(r, exit) == run' = [run EXCEPT ![r].exit = exit]
Turned(r, pc, attempt) == run' = [run EXCEPT ![r].pc = pc, ![r].attempt = attempt]
Judged(r, pc, result) == run' = [run EXCEPT ![r].pc = pc, ![r].result = result]
Aborted(r, pc) == run' = [run EXCEPT ![r].pc = pc, ![r].aborted = TRUE]
JudgedAborted(r, pc, result) ==
  run' = [run EXCEPT ![r].pc = pc, ![r].result = result, ![r].aborted = TRUE]

(* A step that only changes pc.                                               *)
LEMMA Goes ==
  ASSUME NEW r \in Runs, RunsOK, NEW pc \in RunPcs, run' = [run EXCEPT ![r].pc = pc]
  PROVE  \E y \in RunStates : Becomes(r, y) /\ Holds(r, y) /\ y.pc = pc
<1> DEFINE y == [run[r] EXCEPT !.pc = pc]
<1>1. run[r] \in RunStates BY DEF RunsOK
<1>2. y \in RunStates BY <1>1 DEF RunStates
<1>3. /\ Holds(r, y) /\ y.pc = pc /\ y.plan = run[r].plan /\ y.next = run[r].next
      /\ y.rows = run[r].rows /\ y.exit = run[r].exit
  BY <1>1 DEF RunStates, Holds, Same, Knows
<1>4. run' = [run EXCEPT ![r] = y] OBVIOUS
<1> QED BY <1>2, <1>3, <1>4 DEF Becomes

(* BeginCase: a new row that fails, with no client yet.                       *)
LEMMA BeginCaseMove ==
  ASSUME NEW r \in Runs, RunsOK, BeginCase(r)
  PROVE  \E y \in RunStates :
           /\ Becomes(r, y) /\ y.pc \in {"source", "handler"}
           /\ y.attempt = IF IsResume(CaseOf(r)) THEN "partial" ELSE "once"
           /\ y.result = "fail" /\ ~y.delivered /\ ~y.cut /\ y.aborted = run[r].aborted
<1> DEFINE y(pc) == [Begun(r) EXCEPT !.pc = pc]
<1>1. run[r] \in RunStates /\ (tool[r] = "tree") \in BOOLEAN BY DEF RunsOK
<1>2. Begun(r) \in RunStates BY <1>1, ZenonT(40) DEF RunStates, Begun, Attempts, Results
<1>3. \A pc \in {"source", "handler"} : y(pc) \in RunStates BY <1>2 DEF RunStates, RunPcs, Serving
<1>4. /\ Begun(r).plan = run[r].plan /\ Begun(r).next = run[r].next
      /\ Begun(r).rows = run[r].rows /\ Begun(r).exit = run[r].exit
      /\ Begun(r).attempt = IF IsResume(CaseOf(r)) THEN "partial" ELSE "once"
      /\ Begun(r).result = "fail" /\ ~Begun(r).delivered /\ ~Begun(r).cut
      /\ Begun(r).aborted = run[r].aborted
  BY <1>1 DEF RunStates, Begun, Attempts, Results
<1>5. \A pc \in {"source", "handler"} :
        /\ y(pc).plan = run[r].plan /\ y(pc).next = run[r].next
        /\ y(pc).rows = run[r].rows /\ y(pc).exit = run[r].exit /\ y(pc).pc = pc
        /\ y(pc).attempt = IF IsResume(CaseOf(r)) THEN "partial" ELSE "once"
        /\ y(pc).result = "fail" /\ ~y(pc).delivered /\ ~y(pc).cut
        /\ y(pc).aborted = run[r].aborted
  BY <1>2, <1>4 DEF RunStates
<1>6. \E pc \in {"source", "handler"} : run' = [run EXCEPT ![r] = y(pc)] BY DEF BeginCase
<1> HIDE DEF y
<1> QED BY <1>3, <1>5, <1>6 DEF Becomes

(* Connect, StartClient: what the client is served by is not looked at here.  *)
LEMMA Serves ==
  ASSUME NEW r \in Runs, RunsOK, NEW pc \in RunPcs, NEW served \in Runs \cup {Absent},
         \/ run' = [run EXCEPT ![r].served = served, ![r].pc = pc]
         \/ run' = [run EXCEPT ![r].pc = pc, ![r].served = served]
  PROVE  \E y \in RunStates : Becomes(r, y) /\ Holds(r, y) /\ y.pc = pc
<1> DEFINE y == [run[r] EXCEPT !.pc = pc, !.served = served]
<1>1. run[r] \in RunStates BY DEF RunsOK
<1>2. y \in RunStates BY <1>1 DEF RunStates
<1>3. /\ Holds(r, y) /\ y.pc = pc /\ y.plan = run[r].plan /\ y.next = run[r].next
      /\ y.rows = run[r].rows /\ y.exit = run[r].exit
  BY <1>1 DEF RunStates, Holds, Same, Knows
<1>4. y = [run[r] EXCEPT !.served = served, !.pc = pc] BY <1>1 DEF RunStates
<1>5. run' = [run EXCEPT ![r] = y] BY <1>4
<1> QED BY <1>2, <1>3, <1>5 DEF Becomes

(* ClientReturns, FinalReply: the next attempt.                               *)
LEMMA Turns ==
  ASSUME NEW r \in Runs, RunsOK, NEW pc \in RunPcs, NEW attempt \in Attempts,
         Turned(r, pc, attempt)
  PROVE  \E y \in RunStates :
           /\ Becomes(r, y) /\ Same(r, y)
           /\ y.pc = pc /\ y.attempt = attempt /\ y.result = run[r].result
<1> DEFINE y == [run[r] EXCEPT !.pc = pc, !.attempt = attempt]
<1>1. run[r] \in RunStates BY DEF RunsOK
<1>2. y \in RunStates BY <1>1 DEF RunStates
<1>3. /\ y.pc = pc /\ y.attempt = attempt /\ y.result = run[r].result /\ Same(r, y)
      /\ y.plan = run[r].plan /\ y.next = run[r].next
      /\ y.rows = run[r].rows /\ y.exit = run[r].exit
  BY <1>1 DEF RunStates, Same, Knows
<1>4. run' = [run EXCEPT ![r] = y] BY DEF Turned
<1> QED BY <1>2, <1>3, <1>4 DEF Becomes

(* Handle, StopServer: the result of the row.                                 *)
LEMMA Judges ==
  ASSUME NEW r \in Runs, RunsOK, NEW pc \in RunPcs, NEW result \in Results,
         Judged(r, pc, result)
  PROVE  \E y \in RunStates :
           /\ Becomes(r, y) /\ Same(r, y)
           /\ y.pc = pc /\ y.result = result /\ y.attempt = run[r].attempt
<1> DEFINE y == [run[r] EXCEPT !.pc = pc, !.result = result]
<1>1. run[r] \in RunStates BY DEF RunsOK
<1>2. y \in RunStates BY <1>1 DEF RunStates
<1>3. /\ y.pc = pc /\ y.result = result /\ y.attempt = run[r].attempt /\ Same(r, y)
      /\ y.plan = run[r].plan /\ y.next = run[r].next
      /\ y.rows = run[r].rows /\ y.exit = run[r].exit
  BY <1>1 DEF RunStates, Same, Knows
<1>4. run' = [run EXCEPT ![r] = y] BY DEF Judged
<1> QED BY <1>2, <1>3, <1>4 DEF Becomes

(* Handle, StopServer, Clean: the run is aborted.                             *)
LEMMA Aborts ==
  ASSUME NEW r \in Runs, RunsOK, NEW pc \in RunPcs, NEW result \in Results,
         JudgedAborted(r, pc, result) \/ (Aborted(r, pc) /\ result = run[r].result)
  PROVE  \E y \in RunStates :
           /\ Becomes(r, y) /\ Knows(r, y) /\ y.aborted
           /\ y.pc = pc /\ y.result = result /\ y.attempt = run[r].attempt
<1> DEFINE y == [run[r] EXCEPT !.pc = pc, !.result = result, !.aborted = TRUE]
<1>1. run[r] \in RunStates BY DEF RunsOK
<1>2. y \in RunStates BY <1>1 DEF RunStates
<1>3. /\ y.pc = pc /\ y.result = result /\ y.attempt = run[r].attempt /\ Knows(r, y)
      /\ y.plan = run[r].plan /\ y.next = run[r].next /\ y.aborted
      /\ y.rows = run[r].rows /\ y.exit = run[r].exit
  BY <1>1 DEF RunStates, Knows
<1>4. result = run[r].result => y = [run[r] EXCEPT !.pc = pc, !.aborted = TRUE]
  BY <1>1 DEF RunStates
<1>5. run' = [run EXCEPT ![r] = y] BY <1>4 DEF JudgedAborted, Aborted
<1> QED BY <1>2, <1>3, <1>5 DEF Becomes

(* ClientEnds: a client that ended well has delivered, unless it was to be    *)
(* cut; one that failed in a partial transfer was.                            *)
LEMMA OutcomeMove ==
  ASSUME NEW r \in Runs, RunsOK, NEW state \in {"ok", "failed"}, NEW reply \in {"226", "550"},
         Outcome(r, state, reply)
  PROVE  \E y \in RunStates :
           /\ Becomes(r, y) /\ y.pc = run[r].pc /\ y.attempt = run[r].attempt
           /\ y.result = run[r].result /\ y.aborted = run[r].aborted
           /\ run[r].delivered => y.delivered
           /\ state = "ok" /\ run[r].attempt # "partial" => y.delivered
           /\ run[r].cut => y.cut
           /\ state = "failed" /\ run[r].attempt = "partial" => y.cut
<1>1. run[r] \in RunStates BY DEF RunsOK
<1>2. PICK cut \in BOOLEAN, delivered \in BOOLEAN :
        /\ cut = (run[r].cut \/ (state = "failed" /\ run[r].attempt = "partial"))
        /\ delivered = (run[r].delivered \/ (state = "ok" /\ run[r].attempt # "partial"))
  OBVIOUS
<1> DEFINE y == [run[r] EXCEPT !.reply = reply, !.cut = cut, !.delivered = delivered]
<1>3. run' = [run EXCEPT ![r] = y] BY <1>2 DEF Outcome
<1>4. y \in RunStates BY <1>1 DEF RunStates
<1>5. /\ y.pc = run[r].pc /\ y.attempt = run[r].attempt /\ y.result = run[r].result
      /\ y.aborted = run[r].aborted
      /\ y.plan = run[r].plan /\ y.next = run[r].next
      /\ y.rows = run[r].rows /\ y.exit = run[r].exit
      /\ y.delivered = delivered /\ y.cut = cut
  BY <1>1 DEF RunStates
<1>6. Becomes(r, y) BY <1>3, <1>5 DEF Becomes
<1>7. /\ run[r].delivered => y.delivered
      /\ state = "ok" /\ run[r].attempt # "partial" => y.delivered
      /\ run[r].cut => y.cut
      /\ state = "failed" /\ run[r].attempt = "partial" => y.cut
  <2> HIDE DEF y
  <2> QED BY <1>2, <1>5
<1> HIDE DEF y
<1> QED BY <1>4, <1>5, <1>6, <1>7

(* HashDest: only equal hashes make a row pass.                               *)
LEMMA HashDestMove ==
  ASSUME NEW r \in Runs, RunsOK, HashDest(r)
  PROVE  \E y \in RunStates :
           /\ Becomes(r, y) /\ y.pc \in {"finally", "handler"}
           /\ y.result \in {run[r].result, "pass"} /\ y.aborted = run[r].aborted
           /\ y.attempt = run[r].attempt /\ y.delivered = run[r].delivered
           /\ y.cut = run[r].cut
<1> DEFINE Wanted(y) == /\ y.pc \in {"finally", "handler"}
                        /\ y.result \in {run[r].result, "pass"} /\ y.aborted = run[r].aborted
                        /\ y.attempt = run[r].attempt /\ y.delivered = run[r].delivered
                        /\ y.cut = run[r].cut
<1>1. run[r] \in RunStates BY DEF RunsOK
<1>2. CASE run' = [run EXCEPT ![r] = [fill_metrics(r) EXCEPT !.result = "pass", !.pc = "finally"]]
  <2> DEFINE y == [fill_metrics(r) EXCEPT !.result = "pass", !.pc = "finally"]
  <2>1. y \in RunStates BY <1>1 DEF RunStates, RunPcs, Serving, Results, fill_metrics
  <2>2. /\ Wanted(y) /\ y.plan = run[r].plan /\ y.next = run[r].next
        /\ y.rows = run[r].rows /\ y.exit = run[r].exit
    BY <1>1 DEF RunStates, fill_metrics
  <2> QED BY <1>2, <2>1, <2>2 DEF Becomes
<1>3. ASSUME NEW pc \in {"finally", "handler"},
             run' = [run EXCEPT ![r] = [fill_metrics(r) EXCEPT !.pc = pc]]
      PROVE  \E y \in RunStates : Becomes(r, y) /\ Wanted(y)
  <2> DEFINE y == [fill_metrics(r) EXCEPT !.pc = pc]
  <2>1. y \in RunStates BY <1>1 DEF RunStates, RunPcs, Serving, Results, fill_metrics
  <2>2. /\ Wanted(y) /\ y.plan = run[r].plan /\ y.next = run[r].next
        /\ y.rows = run[r].rows /\ y.exit = run[r].exit
    BY <1>1 DEF RunStates, fill_metrics
  <2> QED BY <1>3, <2>1, <2>2 DEF Becomes
<1>4. CASE Raise(r)
  <2>1. \E y \in RunStates : Becomes(r, y) /\ Holds(r, y) /\ y.pc = "handler"
    BY <1>4, Goes DEF Raise, RunPcs, Serving
  <2> QED BY <2>1 DEF Holds, Same, Knows
<1>5. \/ run' = [run EXCEPT ![r] = [fill_metrics(r) EXCEPT !.result = "pass", !.pc = "finally"]]
      \/ \E pc \in {"finally", "handler"} :
            run' = [run EXCEPT ![r] = [fill_metrics(r) EXCEPT !.pc = pc]]
      \/ Raise(r)
  BY DEF HashDest
<1> QED BY <1>2, <1>3, <1>4, <1>5

(* Teardown, Killed, a Startup that fails: the run has ended.                 *)
LEMMA Exits ==
  ASSUME NEW r \in Runs, RunsOK, NEW exit \in {"ok", "fail", "crash", "killed"},
         Ended(r, exit)
  PROVE  \E y \in RunStates :
           /\ run' = [run EXCEPT ![r] = y] /\ Holds(r, y)
           /\ y.plan = run[r].plan /\ y.next = run[r].next
           /\ y.rows = run[r].rows /\ y.exit = exit /\ y.pc = run[r].pc
<1> DEFINE y == [run[r] EXCEPT !.exit = exit]
<1>1. run[r] \in RunStates BY DEF RunsOK
<1>2. y \in RunStates BY <1>1 DEF RunStates
<1>3. /\ Holds(r, y) /\ y.plan = run[r].plan /\ y.next = run[r].next
      /\ y.rows = run[r].rows /\ y.exit = exit /\ y.pc = run[r].pc
  BY <1>1 DEF RunStates, Holds, Same, Knows
<1>4. run' = [run EXCEPT ![r] = y] BY DEF Ended
<1> QED BY <1>2, <1>3, <1>4

-----------------------------------------------------------------------------
(* What a step of a case keeps of its own run                                 *)

(* Only run r moves; its server stays the server of its case, and a run that  *)
(* has ended is left as it ended.                                             *)
Alone(r) ==
  /\ run' \in [Runs -> RunStates]
  /\ \A q \in Runs \ {r} : run'[q] = run[q]
  /\ server[r] # "none" => PortOf(r)' = PortOf(r)
  /\ run[r].exit # "none" => run'[r].exit = run[r].exit
Kept(r) == Alone(r) /\ RunInv(r)' /\ (Marked(r) => Marked(r)')

(* It stays with its case.                                                    *)
LEMMA SameCase ==
  ASSUME NEW r \in Runs, RunsOK, NEW y \in RunStates, Becomes(r, y)
  PROVE  run'[r] = y /\ CaseOf(r)' = CaseOf(r) /\ Alone(r)
<1>1. run'[r] = y BY DEF RunsOK, Becomes
<1>2. CaseOf(r)' = CaseOf(r) BY <1>1 DEF CaseOf, Becomes
<1>3. run' \in [Runs -> RunStates] /\ \A q \in Runs \ {r} : run'[q] = run[q]
  BY DEF RunsOK, Becomes
<1> QED BY <1>1, <1>2, <1>3 DEF PortOf, Alone, Becomes

(* Its rows and files stay as they are, its place is in the case.             *)
LEMMA CaseStep ==
  ASSUME NEW r \in Runs, RunsOK, RunInv(r), NEW y \in RunStates, Becomes(r, y),
         disk'[r] = disk[r], run[r].exit = "none",
         run[r].pc \in Serving \cup {"case", "clean"}, run[r].next <= Len(run[r].plan),
         y.pc \in Serving \cup {"clean", "csv", "teardown"},
         y.aborted => y.pc \in {"finally", "clean", "teardown"},
         y.pc = "teardown" => y.aborted,
         client'[r] # "none" => y.pc = "await",
         server'[r] # "none" => y.pc \in Serving
  PROVE  PlaceInv(r)' /\ RowsInv(r)' /\ EndInv(r)'
<1>1. run'[r] = y BY SameCase
<1>2. /\ y.plan = run[r].plan /\ y.next = run[r].next
      /\ y.rows = run[r].rows /\ y.exit = run[r].exit
  BY DEF Becomes
<1>3. PlaceInv(r)' BY <1>1, <1>2 DEF RunInv, PlaceInv, Serving
<1>4. RowsInv(r)' BY <1>1, <1>2 DEF RunInv, RowsInv, Serving
<1>5. EndInv(r)' BY <1>1, <1>2 DEF EndInv
<1> QED BY <1>3, <1>4, <1>5

(* A failed row and an abort are not forgotten.                               *)
LEMMA StaysMarked ==
  ASSUME NEW r \in Runs, RunsOK, NEW y \in RunStates, Becomes(r, y), Marked(r),
         run[r].exit = "none", run[r].aborted => y.aborted,
         run[r].pc = "handler" \/ (run[r].pc \in {"finally", "clean", "csv"}
                                      /\ run[r].result = "fail")
           => \/ y.pc = "handler" \/ y.aborted
              \/ y.pc \in {"finally", "clean", "csv"} /\ y.result = "fail"
  PROVE  Marked(r)'
<1>1. run'[r] = y BY SameCase
<1> QED BY <1>1 DEF Becomes, Marked

(* BeginCase *)
LEMMA BeginCaseKeeps ==
  ASSUME NEW r \in Runs, RunsOK, RunInv(r), BeginCase(r)
  PROVE  Kept(r)
<1> USE DEF RunInv
<1>1. PICK y \in RunStates :
        /\ Becomes(r, y) /\ y.pc \in {"source", "handler"}
        /\ y.attempt = IF IsResume(CaseOf(r)) THEN "partial" ELSE "once"
        /\ y.result = "fail" /\ ~y.delivered /\ ~y.cut /\ y.aborted = run[r].aborted
  BY BeginCaseMove
<1>2. run'[r] = y /\ CaseOf(r)' = CaseOf(r) /\ Alone(r) BY <1>1, SameCase
<1>3. /\ run[r].pc = "case" /\ run[r].exit = "none" /\ run[r].next <= Len(run[r].plan)
      /\ tool' = tool /\ client' = client /\ disk' = disk
  BY DEF BeginCase, At
<1>4. ~run[r].aborted /\ client[r] = "none" BY <1>3 DEF PlaceInv
<1>5. PlaceInv(r)' /\ RowsInv(r)' /\ EndInv(r)'
  BY <1>1, <1>3, <1>4, CaseStep DEF Serving
<1>6. PassInv(r)' BY <1>1, <1>2, <1>3 DEF PassInv, Trying
<1>7. Marked(r) => Marked(r)' BY <1>1, <1>3, <1>4, StaysMarked
<1> QED BY <1>2, <1>5, <1>6, <1>7 DEF Kept

(* A step before the client, or one that ends it, that raises or goes on:     *)
(* what is known of the case stays, and no reply or hash is looked at.        *)
LEMMA AdvanceKeeps ==
  ASSUME NEW r \in Runs, RunsOK, RunInv(r), NEW y \in RunStates, Becomes(r, y), Holds(r, y),
         disk' = disk, tool' = tool, server' = server, run[r].exit = "none",
         run[r].pc \in Trying,
         \/ y.pc \in {"connect", "request", "client", "handler"} /\ client'[r] = "none"
         \/ y.pc = "await" /\ client'[r] = "running"
  PROVE  Kept(r)
<1> USE DEF RunInv
<1>1. run'[r] = y /\ CaseOf(r)' = CaseOf(r) /\ Alone(r) BY SameCase
<1>2. run[r].next <= Len(run[r].plan) /\ ~run[r].aborted
  BY DEF PlaceInv, Trying, Serving
<1>3. PlaceInv(r)' /\ RowsInv(r)' /\ EndInv(r)'
  BY <1>2, CaseStep DEF Serving, Trying, Holds, Same
<1>4. PassInv(r)' BY <1>1 DEF PassInv, Trying, Holds, Same, Knows, Becomes
<1>5. Marked(r) => Marked(r)' BY <1>2, StaysMarked DEF Trying, Holds, Same
<1> QED BY <1>1, <1>3, <1>4, <1>5 DEF Kept

(* A step that raises or goes on without a client.                            *)
LEMMA GoesOn ==
  ASSUME NEW r \in Runs, RunsOK, RunInv(r), disk' = disk, tool' = tool, server' = server,
         client'[r] = "none", run[r].exit = "none", run[r].pc \in Trying,
         NEW pc \in {"connect", "request", "client", "handler"}, Goto(r, pc)
  PROVE  Kept(r)
<1>1. PICK y \in RunStates : Becomes(r, y) /\ Holds(r, y) /\ y.pc = pc
  BY Goes DEF Goto, RunPcs, Serving
<1> QED BY <1>1, AdvanceKeeps

(* MakeSource *)
LEMMA MakeSourceKeeps ==
  ASSUME NEW r \in Runs, RunsOK, RunInv(r), MakeSource(r)
  PROVE  Kept(r)
<1>1. /\ run[r].pc = "source" /\ run[r].exit = "none" /\ disk' = disk /\ tool' = tool
      /\ server' = server /\ client' = client
  BY DEF MakeSource, At, processVars
<1>2. client[r] = "none" BY <1>1 DEF RunInv, PlaceInv
<1>3. \E pc \in {"connect", "client", "handler"} : Goto(r, pc)
  BY DEF MakeSource, Raise, Goto
<1> QED BY <1>1, <1>2, <1>3, GoesOn DEF Trying

(* Connect *)
LEMMA ConnectKeeps ==
  ASSUME NEW r \in Runs, RunsOK, RunInv(r), Connect(r)
  PROVE  Kept(r)
<1>1. /\ run[r].pc = "connect" /\ run[r].exit = "none" /\ disk' = disk /\ tool' = tool
      /\ server' = server /\ client' = client
  BY DEF Connect, At, processVars
<1>2. client[r] = "none" BY <1>1 DEF RunInv, PlaceInv
<1>3. CASE Raise(r) BY <1>1, <1>2, <1>3, GoesOn DEF Trying, Raise, Goto
<1>4. CASE run' = [run EXCEPT ![r].served = Listening(r), ![r].pc = "request"]
  <2>1. Listening(r) \in Runs \cup {Absent} BY DEF RunsOK, Listening
  <2>2. PICK y \in RunStates : Becomes(r, y) /\ Holds(r, y) /\ y.pc = "request"
    BY <1>4, <2>1, Serves DEF RunPcs, Serving
  <2> QED BY <1>1, <1>2, <2>2, AdvanceKeeps DEF Trying
<1> QED BY <1>3, <1>4 DEF Connect

(* Request *)
LEMMA RequestKeeps ==
  ASSUME NEW r \in Runs, RunsOK, RunInv(r), Request(r)
  PROVE  Kept(r)
<1>1. /\ run[r].pc = "request" /\ run[r].exit = "none" /\ disk' = disk /\ tool' = tool
      /\ server' = server /\ client' = client
  BY DEF Request, At, processVars
<1>2. client[r] = "none" BY <1>1 DEF RunInv, PlaceInv
<1>3. \E pc \in {"client", "handler"} : Goto(r, pc) BY DEF Request, Raise, Goto
<1> QED BY <1>1, <1>2, <1>3, GoesOn DEF Trying

(* StartClient *)
LEMMA StartClientKeeps ==
  ASSUME NEW r \in Runs, RunsOK, RunInv(r), StartClient(r)
  PROVE  Kept(r)
<1>1. /\ run[r].pc = "client" /\ run[r].exit = "none" /\ disk' = disk /\ tool' = tool
      /\ server' = server /\ client'[r] = "running"
  BY DEF StartClient, At, RunsOK
<1> DEFINE served == IF tool[r] = "tree" THEN Listening(r) ELSE run[r].served
<1>2. served \in Runs \cup {Absent} BY DEF RunsOK, RunStates, Listening
<1>3. run' = [run EXCEPT ![r].pc = "await", ![r].served = served] BY DEF StartClient
<1> HIDE DEF served
<1>4. PICK y \in RunStates : Becomes(r, y) /\ Holds(r, y) /\ y.pc = "await"
  BY <1>2, <1>3, Serves DEF RunPcs, Serving
<1> QED BY <1>1, <1>4, AdvanceKeeps DEF Trying

(* ClientTimeout: the client is forgotten.                                    *)
LEMMA ClientTimeoutKeeps ==
  ASSUME NEW r \in Runs, RunsOK, RunInv(r), ClientTimeout(r)
  PROVE  Kept(r) /\ Marked(r)'
<1>1. /\ run[r].pc = "await" /\ run[r].exit = "none" /\ disk' = disk /\ tool' = tool
      /\ server' = server /\ client'[r] = "none" /\ Goto(r, "handler")
  BY DEF ClientTimeout, At, RunsOK, Raise, Goto
<1>2. run'[r].pc = "handler" BY <1>1 DEF Goto, RunsOK, RunStates
<1> QED BY <1>1, <1>2, GoesOn DEF Trying, Marked

(* ClientEnds *)
LEMMA ClientEndsKeeps ==
  ASSUME NEW r \in Runs, RunsOK, RunInv(r), ClientEnds(r)
  PROVE  Kept(r)
<1> USE DEF RunInv
<1>1. /\ client[r] = "running" /\ disk' = disk /\ tool' = tool /\ server' = server
  BY DEF ClientEnds
<1>2. run[r].pc = "await" /\ run[r].exit = "none" /\ ~run[r].aborted
  BY <1>1 DEF PlaceInv
<1>3. PICK state \in {"ok", "failed"}, reply \in {"226", "550"} : Outcome(r, state, reply)
  BY DEF ClientEnds
<1>4. PICK y \in RunStates :
        /\ Becomes(r, y) /\ y.pc = run[r].pc /\ y.attempt = run[r].attempt
        /\ y.result = run[r].result /\ y.aborted = run[r].aborted
        /\ run[r].delivered => y.delivered
        /\ state = "ok" /\ run[r].attempt # "partial" => y.delivered
        /\ run[r].cut => y.cut
        /\ state = "failed" /\ run[r].attempt = "partial" => y.cut
  BY <1>3, OutcomeMove
<1>5. run'[r] = y /\ CaseOf(r)' = CaseOf(r) /\ Alone(r) BY <1>4, SameCase
<1>6. client'[r] = state BY <1>3 DEF Outcome, RunsOK
<1>7. run[r].next <= Len(run[r].plan) BY <1>2 DEF PlaceInv, Serving
<1>8. PlaceInv(r)' /\ RowsInv(r)' /\ EndInv(r)'
  BY <1>1, <1>2, <1>4, <1>7, CaseStep DEF Serving
<1>9. PassInv(r)' BY <1>1, <1>2, <1>4, <1>5, <1>6 DEF PassInv, Trying
<1>10. Marked(r) => Marked(r)' BY <1>2, <1>4, StaysMarked
<1> QED BY <1>5, <1>8, <1>9, <1>10 DEF Kept

(* ClientReturns: the status of the client says what has become of the case,  *)
(* and a tree run goes on to the whole transfer after a partial one.          *)
LEMMA ClientReturnsKeeps ==
  ASSUME NEW r \in Runs, RunsOK, RunInv(r), ClientReturns(r)
  PROVE  Kept(r)
<1> USE DEF RunInv
<1>1. /\ run[r].pc = "await" /\ run[r].exit = "none" /\ client[r] \in {"ok", "failed"}
      /\ client'[r] = "none" /\ disk' = disk /\ tool' = tool /\ server' = server
  BY DEF ClientReturns, At, RunsOK
<1>2. PICK pc \in {"client", "hash", "reply", "handler"},
           attempt \in Attempts :
        /\ Turned(r, pc, attempt)
        /\ \/ pc = "handler"
           \/ pc = "client" /\ tool[r] = "tree" /\ attempt = "resume"
           \/ /\ pc = "hash" /\ run[r].attempt # "partial" /\ client[r] = "ok"
              /\ attempt = run[r].attempt
           \/ /\ pc = "reply" /\ attempt = run[r].attempt
              /\ run[r].attempt = "partial" => client[r] # "ok"
              /\ run[r].attempt # "partial" => client[r] = "ok"
  <2> DEFINE partial == run[r].attempt = "partial"
             expected == (client[r] = "ok") # partial
             pc == CASE tool[r] = "tree" /\ partial -> "client"
                     [] tool[r] = "tree" /\ ~partial /\ expected -> "hash"
                     [] tool[r] = "matrix" /\ expected -> "reply"
                     [] OTHER -> "handler"
             attempt == IF tool[r] = "tree" /\ partial THEN "resume" ELSE run[r].attempt
  <2>1. Turned(r, pc, attempt) BY DEF ClientReturns, Turned
  <2>2. attempt \in Attempts BY DEF RunsOK, RunStates, Attempts
  <2>3. /\ pc \in {"client", "hash", "reply", "handler"}
        /\ \/ pc = "handler"
           \/ pc = "client" /\ tool[r] = "tree" /\ attempt = "resume"
           \/ pc = "hash" /\ ~partial /\ client[r] = "ok" /\ attempt = run[r].attempt
           \/ /\ pc = "reply" /\ attempt = run[r].attempt
              /\ partial => client[r] # "ok"
              /\ ~partial => client[r] = "ok"
    <3>1. CASE partial /\ tool[r] = "tree" BY <3>1
    <3>2. CASE ~partial /\ tool[r] = "tree" BY <3>2
    <3>3. CASE tool[r] = "matrix"
      <4>1. CASE expected BY <4>1, <3>3
      <4>2. CASE ~expected BY <4>2, <3>3
      <4> QED BY <4>1, <4>2
    <3> QED BY <3>1, <3>2, <3>3 DEF RunsOK
  <2> HIDE DEF pc, attempt
  <2> QED BY <2>1, <2>2, <2>3
<1>3. PICK y \in RunStates :
        /\ Becomes(r, y) /\ Same(r, y)
        /\ y.pc = pc /\ y.attempt = attempt /\ y.result = run[r].result
  BY <1>2, Turns DEF RunPcs, Serving
<1>4. run'[r] = y /\ CaseOf(r)' = CaseOf(r) /\ Alone(r) BY <1>3, SameCase
<1>5. run[r].next <= Len(run[r].plan) /\ ~run[r].aborted BY <1>1 DEF PlaceInv, Serving
<1>6. PlaceInv(r)' /\ RowsInv(r)' /\ EndInv(r)'
  BY <1>1, <1>3, <1>5, CaseStep DEF Serving, Same
<1>7. PassInv(r)' BY <1>1, <1>2, <1>3, <1>4 DEF PassInv, Trying, Becomes, Same, Knows
<1>8. Marked(r) => Marked(r)' BY <1>1, <1>3, <1>5, StaysMarked DEF Same
<1> QED BY <1>4, <1>6, <1>7, <1>8 DEF Kept

(* FinalReply: a matrix run goes on to the whole transfer.                    *)
LEMMA FinalReplyKeeps ==
  ASSUME NEW r \in Runs, RunsOK, RunInv(r), FinalReply(r)
  PROVE  Kept(r)
<1> USE DEF RunInv
<1>1. /\ run[r].pc = "reply" /\ run[r].exit = "none"
      /\ client' = client /\ disk' = disk /\ tool' = tool /\ server' = server
  BY DEF FinalReply, At, processVars
<1>2. run[r].next <= Len(run[r].plan) /\ ~run[r].aborted /\ client[r] = "none"
  BY <1>1 DEF PlaceInv, Serving
<1>3. CASE Raise(r) BY <1>1, <1>2, <1>3, GoesOn DEF Trying, Raise, Goto
<1>4. ASSUME ~Raise(r) PROVE Kept(r)
  <2> DEFINE partial == run[r].attempt = "partial"
             pc == IF partial THEN "connect" ELSE "hash"
             attempt == IF partial THEN "resume" ELSE run[r].attempt
  <2>1. Turned(r, pc, attempt) BY <1>4 DEF FinalReply, Turned
  <2>2. attempt \in Attempts /\ pc \in RunPcs
    BY DEF RunsOK, RunStates, RunPcs, Serving, Attempts
  <2>3. /\ pc \in {"connect", "hash"}
        /\ partial => pc = "connect" /\ attempt = "resume"
        /\ ~partial => pc = "hash" /\ attempt = run[r].attempt
    OBVIOUS
  <2> HIDE DEF pc, attempt
  <2>4. PICK y \in RunStates :
          /\ Becomes(r, y) /\ Same(r, y)
          /\ y.pc = pc /\ y.attempt = attempt /\ y.result = run[r].result
    BY <2>1, <2>2, Turns
  <2>5. run'[r] = y /\ CaseOf(r)' = CaseOf(r) /\ Alone(r) BY <2>4, SameCase
  <2>6. PlaceInv(r)' /\ RowsInv(r)' /\ EndInv(r)'
    BY <1>1, <1>2, <2>3, <2>4, CaseStep DEF Serving, Same
  <2>7. PassInv(r)' BY <1>1, <1>2, <2>3, <2>4, <2>5 DEF PassInv, Trying, Becomes, Same, Knows
  <2>8. Marked(r) => Marked(r)' BY <1>1, <1>2, <2>4, StaysMarked DEF Same
  <2> QED BY <2>5, <2>6, <2>7, <2>8 DEF Kept
<1> QED BY <1>3, <1>4

(* HashDest: whatever passes was delivered.                                   *)
LEMMA HashDestKeeps ==
  ASSUME NEW r \in Runs, RunsOK, RunInv(r), HashDest(r)
  PROVE  Kept(r)
<1> USE DEF RunInv
<1>1. /\ run[r].pc = "hash" /\ run[r].exit = "none"
      /\ client' = client /\ disk' = disk /\ tool' = tool /\ server' = server
  BY DEF HashDest, At, processVars
<1>2. run[r].next <= Len(run[r].plan) /\ ~run[r].aborted /\ client[r] = "none"
  BY <1>1 DEF PlaceInv, Serving
<1>3. PICK y \in RunStates :
        /\ Becomes(r, y) /\ y.pc \in {"finally", "handler"}
        /\ y.result \in {run[r].result, "pass"} /\ y.aborted = run[r].aborted
        /\ y.attempt = run[r].attempt /\ y.delivered = run[r].delivered
        /\ y.cut = run[r].cut
  BY HashDestMove
<1>4. run'[r] = y /\ CaseOf(r)' = CaseOf(r) /\ Alone(r) BY <1>3, SameCase
<1>5. PlaceInv(r)' /\ RowsInv(r)' /\ EndInv(r)'
  BY <1>1, <1>2, <1>3, CaseStep DEF Serving
<1>6. IsResume(CaseOf(r)) => run[r].attempt = "resume"
  BY <1>1 DEF PassInv, Trying, RunsOK, RunStates, Attempts
<1>7. PassInv(r)' BY <1>1, <1>3, <1>4, <1>6 DEF PassInv, Trying
<1>8. Marked(r) => Marked(r)' BY <1>1, <1>2, <1>3, StaysMarked
<1> QED BY <1>4, <1>5, <1>7, <1>8 DEF Kept

(* Handle: the row fails, whatever it said.                                   *)
LEMMA HandleKeeps ==
  ASSUME NEW r \in Runs, RunsOK, RunInv(r), Handle(r)
  PROVE  Kept(r)
<1> USE DEF RunInv
<1>1. /\ run[r].pc = "handler" /\ run[r].exit = "none"
      /\ client' = client /\ disk' = disk /\ tool' = tool /\ server' = server
  BY DEF Handle, At, processVars
<1>2. run[r].next <= Len(run[r].plan) /\ ~run[r].aborted /\ client[r] = "none"
  BY <1>1 DEF PlaceInv, Serving
<1>4. PICK y \in RunStates :
        /\ Becomes(r, y) /\ y.pc = "finally" /\ y.result = "fail"
        /\ y.attempt = run[r].attempt /\ Knows(r, y)
  <2>1. Judged(r, "finally", "fail") \/ JudgedAborted(r, "finally", "fail")
    BY DEF Handle, Judged, JudgedAborted
  <2> QED BY <2>1, Judges, Aborts DEF Same, Results, RunPcs, Serving
<1>5. run'[r] = y /\ CaseOf(r)' = CaseOf(r) /\ Alone(r) BY <1>4, SameCase
<1>6. PlaceInv(r)' /\ RowsInv(r)' /\ EndInv(r)'
  BY <1>1, <1>2, <1>4, CaseStep DEF Serving
<1>7. PassInv(r)' BY <1>4, <1>5 DEF PassInv, Trying, Knows
<1>8. Marked(r) => Marked(r)' BY <1>1, <1>2, <1>4, StaysMarked
<1> QED BY <1>5, <1>6, <1>7, <1>8 DEF Kept

(* StopServer *)
LEMMA StopServerKeeps ==
  ASSUME NEW r \in Runs, RunsOK, RunInv(r), StopServer(r)
  PROVE  Kept(r)
<1> USE DEF RunInv
<1>1. /\ run[r].pc = "finally" /\ run[r].exit = "none" /\ server'[r] = "none"
      /\ client' = client /\ disk' = disk /\ tool' = tool
  BY DEF StopServer, Stopped, At, processVars, RunsOK
<1>2. run[r].next <= Len(run[r].plan) /\ client[r] = "none"
  BY <1>1 DEF PlaceInv, Serving
<1>3. run[r].result \in Results BY DEF RunsOK, RunStates
<1>4. PICK y \in RunStates :
        /\ Becomes(r, y) /\ y.result \in {run[r].result, "fail"}
        /\ \/ y.pc = "clean" /\ y.aborted = run[r].aborted
           \/ y.pc = "teardown" /\ y.aborted
        /\ y.attempt = run[r].attempt /\ Knows(r, y)
  <2>1. CASE \E result \in {run[r].result, "fail"} :
               Judged(r, "clean", result)
    BY <1>3, <2>1, Judges DEF Same, Results, RunPcs, Serving
  <2>2. CASE Aborted(r, "teardown")
    BY <1>3, <2>2, Aborts DEF RunPcs, Serving
  <2>3. \/ \E result \in {run[r].result, "fail"} :
              Judged(r, "clean", result)
        \/ Aborted(r, "teardown")
    BY DEF StopServer, Judged, Aborted
  <2> QED BY <2>1, <2>2, <2>3
<1>5. run'[r] = y /\ CaseOf(r)' = CaseOf(r) /\ Alone(r) BY <1>4, SameCase
<1>6. PlaceInv(r)' /\ RowsInv(r)' /\ EndInv(r)'
  BY <1>1, <1>2, <1>4, CaseStep DEF Serving
<1>7. PassInv(r)' BY <1>1, <1>4, <1>5 DEF PassInv, Trying, Becomes, Knows
<1>8. Marked(r) => Marked(r)' BY <1>1, <1>4, StaysMarked
<1> QED BY <1>5, <1>6, <1>7, <1>8 DEF Kept

(* Clean *)
LEMMA CleanKeeps ==
  ASSUME NEW r \in Runs, RunsOK, RunInv(r), Clean(r)
  PROVE  Kept(r)
<1> USE DEF RunInv
<1>1. /\ run[r].pc = "clean" /\ run[r].exit = "none" /\ server' = server
      /\ client' = client /\ disk' = disk /\ tool' = tool
  BY DEF Clean, At, processVars
<1>2. run[r].next <= Len(run[r].plan) /\ client[r] = "none" /\ server[r] = "none"
  BY <1>1 DEF PlaceInv, Serving
<1>3. run[r].result \in Results BY DEF RunsOK, RunStates
<1>4. PICK y \in RunStates :
        /\ Becomes(r, y) /\ y.result = run[r].result
        /\ \/ y.pc = "csv" /\ ~run[r].aborted /\ y.aborted = run[r].aborted
           \/ y.pc = "teardown" /\ y.aborted
        /\ y.attempt = run[r].attempt /\ Knows(r, y)
  <2>1. CASE Goto(r, IF run[r].aborted THEN "teardown" ELSE "csv")
    <3>1. CASE run[r].aborted BY <2>1, <3>1, Goes DEF Goto, Holds, Same, RunPcs, Serving
    <3>2. CASE ~run[r].aborted BY <2>1, <3>2, Goes DEF Goto, Holds, Same, RunPcs, Serving
    <3> QED BY <3>1, <3>2
  <2>2. CASE Aborted(r, "teardown")
    BY <1>3, <2>2, Aborts DEF RunPcs, Serving
  <2>3. \/ Goto(r, IF run[r].aborted THEN "teardown" ELSE "csv")
        \/ Aborted(r, "teardown")
    BY DEF Clean, Aborted
  <2> QED BY <2>1, <2>2, <2>3
<1>5. run'[r] = y /\ CaseOf(r)' = CaseOf(r) /\ Alone(r) BY <1>4, SameCase
<1>6. PlaceInv(r)' /\ RowsInv(r)' /\ EndInv(r)'
  BY <1>1, <1>2, <1>4, CaseStep DEF Serving
<1>7. PassInv(r)' BY <1>1, <1>4, <1>5 DEF PassInv, Trying, Becomes, Knows
<1>8. Marked(r) => Marked(r)' BY <1>1, <1>4, StaysMarked
<1> QED BY <1>5, <1>6, <1>7, <1>8 DEF Kept

-----------------------------------------------------------------------------
(* The steps between the cases, and the end                                   *)

(* Another run keeps what is known of it.                                     *)
LEMMA OthersKeep ==
  ASSUME NEW q \in Runs, RunInv(q), tool' = tool, run'[q] = run[q], client'[q] = client[q],
         server'[q] = server[q], disk'[q] = disk[q],
         \A p \in 0 .. PortLimit : port'[p] = q => port[p] = q
  PROVE  RunInv(q)' /\ (Marked(q) => Marked(q)')
<1>1. CaseOf(q)' = CaseOf(q) BY DEF CaseOf
<1>2. PlaceInv(q)' BY DEF RunInv, PlaceInv
<1>3. PassInv(q)' BY <1>1 DEF RunInv, PassInv
<1>4. RowsInv(q)' BY DEF RunInv, RowsInv
<1>5. EndInv(q)' BY DEF RunInv, EndInv, AllPass
<1>6. Marked(q) => Marked(q)' BY DEF Marked
<1> QED BY <1>2, <1>3, <1>4, <1>5, <1>6 DEF RunInv

(* Writing one file leaves the others, and those of the other runs.           *)
LEMMA CsvWritten ==
  ASSUME NEW r \in Runs, DiskOK, NEW v \in Seq(Rows), disk' = [disk EXCEPT ![r].csv = v]
  PROVE  /\ DiskOK' /\ disk'[r].csv = v /\ disk'[r].summary = disk[r].summary
         /\ disk'[r].printed = disk[r].printed
         /\ \A q \in Runs \ {r} : disk'[q] = disk[q]
  BY DEF DiskOK
(* write_summary.                                                             *)
LEMMA SummaryWritten ==
  ASSUME NEW r \in Runs, DiskOK, NEW v, disk' = [disk EXCEPT ![r].summary = v]
  PROVE  /\ DiskOK' /\ disk'[r].csv = disk[r].csv /\ disk'[r].summary = v
         /\ disk'[r].printed = disk[r].printed
         /\ \A q \in Runs \ {r} : disk'[q] = disk[q]
  BY DEF DiskOK
(* The paths a matrix prints once both files are written.                     *)
LEMMA PathsPrinted ==
  ASSUME NEW r \in Runs, DiskOK, NEW v, disk' = [disk EXCEPT ![r].printed = v]
  PROVE  /\ DiskOK' /\ disk'[r].csv = disk[r].csv /\ disk'[r].summary = disk[r].summary
         /\ disk'[r].printed = v
         /\ \A q \in Runs \ {r} : disk'[q] = disk[q]
  BY DEF DiskOK
(* The directory of the runs of a disk proof.                                 *)
LEMMA RootKept ==
  ASSUME NEW r \in Runs, DiskOK, NEW v, disk' = [disk EXCEPT ![r].root = v]
  PROVE  /\ DiskOK' /\ disk'[r].csv = disk[r].csv /\ disk'[r].summary = disk[r].summary
         /\ disk'[r].printed = disk[r].printed
         /\ \A q \in Runs \ {r} : disk'[q] = disk[q]
  BY DEF DiskOK

(* The only run that moves, given its new record.                             *)
LEMMA OnlyOne ==
  ASSUME NEW r \in Runs, RunsOK, NEW y \in RunStates, run' = [run EXCEPT ![r] = y]
  PROVE  /\ run' \in [Runs -> RunStates] /\ run'[r] = y
         /\ \A q \in Runs \ {r} : run'[q] = run[q]
  BY DEF RunsOK

(* There is nothing to count in no rows.                                      *)
LEMMA NoRows == summarize_rows(<<>>) = {}
  BY DEF summarize_rows

(* Startup: the plan of the run, or a traceback.                              *)
LEMMA StartupKeeps ==
  ASSUME NEW r \in Runs, RunsOK, DiskOK, RunInv(r), At(r, "idle"),
         NEW args \in CommandLines, Startup(r, args),
         tool' = tool, client' = client, server' = server
  PROVE  Kept(r)
<1> USE DEF RunInv
<1> DEFINE plan == PlanOf(r, args)
<1>1. /\ run[r].pc = "idle" /\ run[r].exit = "none" /\ client[r] = "none"
      /\ server[r] = "none" /\ ~run[r].aborted /\ run[r].result = "fail"
      /\ run[r].next = 1 /\ run[r].rows = <<>>
      /\ run[r] \in RunStates
  BY DEF At, PlaceInv, PassInv, Serving, RunsOK, RunStates, Results
<1>2. plan \in Seq(Cases)
  <2>1. tool[r] \in {"matrix", "tree"} BY DEF RunsOK
  <2>2. Plans[args].matrix = generate_cases(args) /\ Plans[args].tree = build_cases(args)
    BY DEF Plans
  <2>3. args \in Options BY OptionsAssumption
  <2> QED BY <2>1, <2>2, <2>3, PlansAreCases DEF PlanOf
<1> HIDE DEF plan
<1>3. CASE run' = [run EXCEPT ![r].plan = plan, ![r].pc = "case"]
  <2> DEFINE y == [run[r] EXCEPT !.plan = plan, !.pc = "case"]
  <2>1. y \in RunStates BY <1>1, <1>2 DEF RunStates, RunPcs
  <2>2. /\ y.plan = plan /\ y.pc = "case" /\ y.next = 1 /\ y.rows = <<>> /\ ~y.aborted
        /\ y.result = "fail" /\ y.exit = "none"
    BY <1>1 DEF RunStates
  <2>3. run' = [run EXCEPT ![r] = y] BY <1>3
  <2> HIDE DEF y
  <2>4. /\ run' \in [Runs -> RunStates] /\ run'[r] = y
        /\ \A q \in Runs \ {r} : run'[q] = run[q]
    BY <2>1, <2>3, OnlyOne
  <2>5. disk' = [disk EXCEPT ![r].root = (tool[r] = "matrix")]
    <3>1. run'[r].plan = plan /\ run'[r].pc = "case" BY <2>2, <2>4
    <3>2. CASE run' = [run EXCEPT ![r].exit = "crash"]
      <4>1. run'[r].pc = "idle" BY <3>2, <1>1 DEF RunsOK, RunStates
      <4> QED BY <4>1, <3>1
    <3> QED BY <3>2 DEF Startup
  <2>6. disk'[r].csv = disk[r].csv /\ disk'[r].summary = disk[r].summary
    BY <2>5, RootKept
  <2>7. Len(plan) \in Nat BY <1>2
  <2>8. PlaceInv(r)' BY <1>1, <2>2, <2>4, <2>7 DEF PlaceInv, Serving
  <2>9. PassInv(r)' BY <2>2, <2>4 DEF PassInv, Trying
  <2>10. RowsInv(r)' BY <1>1, <2>2, <2>4, <2>6 DEF RowsInv
  <2>11. EndInv(r)' BY <2>2, <2>4 DEF EndInv
  <2>12. ~Marked(r) BY <1>1 DEF Marked
  <2> QED BY <1>1, <2>4, <2>8, <2>9, <2>10, <2>11, <2>12 DEF Kept, Alone
<1>4. CASE run' = [run EXCEPT ![r].exit = "crash"] /\ disk' = disk
  <2>1. PICK y \in RunStates :
           /\ run' = [run EXCEPT ![r] = y] /\ Holds(r, y)
           /\ y.plan = run[r].plan /\ y.next = run[r].next
           /\ y.rows = run[r].rows /\ y.exit = "crash" /\ y.pc = run[r].pc
    BY <1>4, Exits DEF Ended
  <2>2. /\ run' \in [Runs -> RunStates] /\ run'[r] = y
        /\ \A q \in Runs \ {r} : run'[q] = run[q]
    BY <2>1, OnlyOne
  <2>3. PlaceInv(r)' BY <1>1, <2>1, <2>2 DEF PlaceInv, Serving, Holds, Same
  <2>4. PassInv(r)' BY <1>1, <2>1, <2>2 DEF PassInv, Trying, Holds
  <2>5. RowsInv(r)' BY <1>1, <1>4, <2>1, <2>2 DEF RowsInv
  <2>6. EndInv(r)' BY <1>1, <2>1, <2>2 DEF EndInv
  <2>7. Marked(r)' BY <2>1, <2>2 DEF Marked
  <2> QED BY <1>1, <2>2, <2>3, <2>4, <2>5, <2>6, <2>7 DEF Kept, Alone
<1>5. \/ run' = [run EXCEPT ![r].plan = plan, ![r].pc = "case"]
      \/ run' = [run EXCEPT ![r].exit = "crash"] /\ disk' = disk
  BY DEF Startup, plan
<1> QED BY <1>3, <1>4, <1>5

(* ProcessCheck: a run with nothing left to do, and no server anywhere.       *)
LEMMA ProcessCheckKeeps ==
  ASSUME NEW r \in Runs, RunsOK, DiskOK, RunInv(r), ProcessCheck(r)
  PROVE  Kept(r)
<1> USE DEF RunInv
<1>1. /\ run[r].pc = "case" /\ run[r].exit = "none" /\ run[r].next > Len(run[r].plan)
      /\ tool' = tool /\ client' = client /\ server' = server /\ port' = port
  BY DEF ProcessCheck, At, processVars
<1>2. PICK left \in BOOLEAN : /\ LocalLeft => left
                              /\ Goto(r, IF left THEN "leftover" ELSE "teardown")
                              /\ disk' = [disk EXCEPT ![r].printed = ~left]
  BY DEF ProcessCheck
<1>3. ~run[r].aborted /\ client[r] = "none" /\ server[r] = "none"
  BY <1>1 DEF PlaceInv, Serving
<1>4. PICK y \in RunStates :
        Becomes(r, y) /\ Holds(r, y) /\ y.pc = IF left THEN "leftover" ELSE "teardown"
  BY <1>2, Goes DEF Goto, RunPcs
<1>5. run'[r] = y /\ Alone(r) BY <1>4, SameCase
<1>6. /\ disk'[r].csv = disk[r].csv /\ disk'[r].summary = disk[r].summary
      /\ ~left => disk'[r].printed
  BY <1>2, PathsPrinted
<1>7. PlaceInv(r)' BY <1>1, <1>3, <1>4, <1>5 DEF PlaceInv, Serving, Becomes, Holds, Same
<1>8. run[r].result # "pass" BY <1>1 DEF PassInv
<1>9. PassInv(r)' BY <1>4, <1>5, <1>8 DEF PassInv, Trying, Holds
<1>10. RowsInv(r)' BY <1>1, <1>4, <1>5, <1>6 DEF RowsInv, Becomes
<1>11. EndInv(r)'
  <2>1. ~left => \A p \in 0 .. PortLimit : port[p] # r
    BY <1>2, MatrixAssumption DEF LocalLeft, RunsOK
  <2> QED BY <1>1, <1>4, <1>5, <1>6, <2>1 DEF EndInv, Becomes
<1>12. Marked(r) => Marked(r)' BY <1>1, <1>3, <1>4, StaysMarked
<1> QED BY <1>5, <1>7, <1>9, <1>10, <1>11, <1>12 DEF Kept

(* OpenCsv: a row for the case, failed if the case was.                       *)
LEMMA OpenCsvKeeps ==
  ASSUME NEW r \in Runs, RunsOK, DiskOK, RunInv(r), OpenCsv(r)
  PROVE  Kept(r)
<1> USE DEF RunInv
<1> DEFINE row == [case |-> CaseOf(r), result |-> run[r].result, metrics |-> run[r].metrics]
           rows == Append(run[r].rows, row)
           y == [EmptyRun EXCEPT !.pc = "csv_write", !.plan = run[r].plan,
                                 !.next = run[r].next, !.rows = rows]
<1>1. /\ run[r].pc = "csv" /\ run[r].exit = "none"
      /\ tool' = tool /\ client' = client /\ server' = server
      /\ run' = [run EXCEPT ![r] = y]
  BY DEF OpenCsv, At, processVars
<1>2. /\ ~run[r].aborted /\ client[r] = "none" /\ server[r] = "none"
      /\ run[r].next \in 1 .. Len(run[r].plan)
  BY <1>1 DEF PlaceInv, Serving
<1>3. run[r] \in RunStates BY DEF RunsOK
<1>4. row \in Rows BY <1>2, <1>3 DEF RunStates, Rows, CaseOf
<1>5. row.case = CaseOf(r) /\ row.result = run[r].result OBVIOUS
<1> HIDE DEF row
<1>6. /\ rows \in Seq(Rows) /\ Len(rows) = Len(run[r].rows) + 1
      /\ \A i \in 1 .. Len(run[r].rows) : rows[i] = run[r].rows[i]
      /\ rows[Len(run[r].rows) + 1] = row
  BY <1>3, <1>4 DEF RunStates
<1> HIDE DEF rows
<1>7. y \in RunStates BY <1>3, <1>6 DEF RunStates, EmptyRun, RunPcs, Attempts, Results
<1>8. /\ y.pc = "csv_write" /\ y.plan = run[r].plan /\ y.next = run[r].next /\ y.rows = rows
      /\ y.exit = "none" /\ ~y.aborted /\ y.result = "fail"
  BY DEF EmptyRun
<1> HIDE DEF y
<1>9. /\ run' \in [Runs -> RunStates] /\ run'[r] = y
      /\ \A q \in Runs \ {r} : run'[q] = run[q]
  BY <1>1, <1>7, OnlyOne
<1>10. PlaceInv(r)' BY <1>1, <1>2, <1>8, <1>9 DEF PlaceInv, Serving
<1>11. PassInv(r)' BY <1>8, <1>9 DEF PassInv, Trying
<1>12. Len(run[r].rows) = run[r].next - 1 /\ Len(run[r].rows) \in Nat /\ run[r].next \in Nat
  BY <1>1, <1>3 DEF RowsInv, RunStates
<1>13. RowsInv(r)'
  <2>1. Len(rows) = run[r].next BY <1>6, <1>12
  <2>2. ASSUME NEW i \in 1 .. Len(rows) PROVE rows[i].case = run[r].plan[i]
    <3>1. CASE i \in 1 .. Len(run[r].rows) BY <3>1, <1>6 DEF RowsInv
    <3>2. CASE i = run[r].next BY <3>2, <1>5, <1>6, <1>12 DEF CaseOf
    <3> QED BY <3>1, <3>2, <2>1, <1>12
  <2> QED BY <2>1, <2>2, <1>8, <1>9 DEF RowsInv
<1>14. EndInv(r)' BY <1>8, <1>9 DEF EndInv
<1>15. Marked(r) => Marked(r)'
  <2>1. CASE \E i \in 1 .. Len(run[r].rows) : run[r].rows[i].result = "fail"
    <3>1. PICK i \in 1 .. Len(run[r].rows) : run[r].rows[i].result = "fail" BY <2>1
    <3>2. i \in 1 .. Len(rows) /\ rows[i].result = "fail" BY <3>1, <1>6, <1>12, SMTT(30)
    <3> QED BY <3>2, <1>8, <1>9 DEF Marked
  <2>2. CASE run[r].result = "fail"
    <3>1. rows[Len(rows)].result = "fail" /\ Len(rows) \in 1 .. Len(rows)
      BY <2>2, <1>5, <1>6, <1>12
    <3> QED BY <3>1, <1>8, <1>9 DEF Marked
  <2> QED BY <2>1, <2>2, <1>1, <1>2 DEF Marked
<1> QED BY <1>1, <1>2, <1>9, <1>10, <1>11, <1>13, <1>14, <1>15 DEF Kept, Alone

(* WriteCsv *)
LEMMA WriteCsvKeeps ==
  ASSUME NEW r \in Runs, RunsOK, DiskOK, RunInv(r), WriteCsv(r)
  PROVE  Kept(r)
<1> USE DEF RunInv
<1>1. /\ run[r].pc = "csv_write" /\ run[r].exit = "none" /\ Goto(r, "summary")
      /\ tool' = tool /\ client' = client /\ server' = server
      /\ disk' = [disk EXCEPT ![r].csv = run[r].rows]
  BY DEF WriteCsv, At, processVars
<1>2. ~run[r].aborted /\ client[r] = "none" /\ server[r] = "none" /\ run[r].result # "pass"
  BY <1>1 DEF PlaceInv, PassInv, Serving
<1>3. PICK y \in RunStates : Becomes(r, y) /\ Holds(r, y) /\ y.pc = "summary"
  BY <1>1, Goes DEF Goto, RunPcs
<1>4. run'[r] = y /\ Alone(r) BY <1>3, SameCase
<1>5. run[r].rows \in Seq(Rows) BY DEF RunsOK, RunStates
<1>6. disk'[r].csv = run[r].rows BY <1>1, <1>5, CsvWritten
<1>7. PlaceInv(r)' BY <1>1, <1>2, <1>3, <1>4 DEF PlaceInv, Serving, Becomes, Holds, Same
<1>8. PassInv(r)' BY <1>2, <1>3, <1>4 DEF PassInv, Trying, Holds
<1>9. RowsInv(r)' BY <1>1, <1>3, <1>4, <1>6 DEF RowsInv, Becomes
<1>10. EndInv(r)' BY <1>1, <1>3, <1>4 DEF EndInv, Becomes
<1>11. Marked(r) => Marked(r)' BY <1>1, <1>2, <1>3, StaysMarked
<1> QED BY <1>4, <1>7, <1>8, <1>9, <1>10, <1>11 DEF Kept

(* WriteSummary: the next case.                                               *)
LEMMA WriteSummaryKeeps ==
  ASSUME NEW r \in Runs, RunsOK, DiskOK, RunInv(r), WriteSummary(r)
  PROVE  Kept(r)
<1> USE DEF RunInv
<1> DEFINE y == [run[r] EXCEPT !.pc = "case", !.next = run[r].next + 1]
<1>1. /\ run[r].pc = "summary" /\ run[r].exit = "none"
      /\ tool' = tool /\ client' = client /\ server' = server
      /\ disk' = [disk EXCEPT ![r].summary = summarize_rows(run[r].rows)]
      /\ run' = [run EXCEPT ![r] = y]
  BY DEF WriteSummary, At, processVars
<1>2. ~run[r].aborted /\ client[r] = "none" /\ server[r] = "none" /\ run[r].result # "pass"
  BY <1>1 DEF PlaceInv, PassInv, Serving
<1>3. run[r] \in RunStates BY DEF RunsOK
<1>4. run[r].next \in 1 .. Len(run[r].plan) /\ Len(run[r].plan) \in Nat
  BY <1>1, <1>3 DEF PlaceInv, RunStates
<1>5. y \in RunStates
  <2>1. run[r].next + 1 \in Nat BY <1>4
  <2> QED BY <1>3, <2>1 DEF RunStates, RunPcs
<1>6. /\ y.pc = "case" /\ y.plan = run[r].plan /\ y.next = run[r].next + 1
      /\ y.rows = run[r].rows /\ y.exit = "none" /\ ~y.aborted /\ y.result = run[r].result
  BY <1>1, <1>2, <1>3 DEF RunStates
<1> HIDE DEF y
<1>7. /\ run' \in [Runs -> RunStates] /\ run'[r] = y
      /\ \A q \in Runs \ {r} : run'[q] = run[q]
  BY <1>1, <1>5, OnlyOne
<1>8. disk'[r].csv = disk[r].csv /\ disk'[r].summary = summarize_rows(run[r].rows)
  BY <1>1, SummaryWritten
<1>9. PlaceInv(r)' BY <1>1, <1>2, <1>4, <1>6, <1>7 DEF PlaceInv, Serving
<1>10. PassInv(r)' BY <1>2, <1>6, <1>7 DEF PassInv, Trying
<1>11. RowsInv(r)' BY <1>1, <1>4, <1>6, <1>7, <1>8 DEF RowsInv
<1>12. EndInv(r)' BY <1>6, <1>7 DEF EndInv
<1>13. Marked(r) => Marked(r)' BY <1>1, <1>2, <1>6, <1>7 DEF Marked
<1> QED BY <1>1, <1>2, <1>7, <1>9, <1>10, <1>11, <1>12, <1>13 DEF Kept, Alone

(* Teardown: only a run whose rows all pass ends well, and a run that has     *)
(* left a client behind is not one.                                           *)
LEMMA TeardownKeeps ==
  ASSUME NEW r \in Runs, RunsOK, DiskOK, RunInv(r), Teardown(r)
  PROVE  Kept(r)
<1> USE DEF RunInv
<1>1. /\ run[r].pc \in {"teardown", "leftover"} /\ run[r].exit = "none"
      /\ tool' = tool /\ client' = client /\ server' = server /\ port' = port
  BY DEF Teardown, At, processVars
<1>2. client[r] = "none" /\ server[r] = "none" BY <1>1 DEF PlaceInv, Serving
<1>3. PICK exit \in {"ok", "fail", "crash"} :
        /\ Ended(r, exit)
        /\ exit = "ok" => run[r].pc = "teardown" /\ ~run[r].aborted /\ AllPass(r)
  <2>1. run[r].aborted => run[r].pc # "leftover" BY DEF PlaceInv
  <2>2. CASE run[r].aborted BY <1>1, <2>1, <2>2 DEF Teardown, Ended
  <2>3. CASE ~run[r].aborted /\ run[r].pc = "leftover" BY <2>3 DEF Teardown, Ended
  <2>4. CASE ~run[r].aborted /\ run[r].pc = "teardown" BY <2>4 DEF Teardown, Ended
  <2> QED BY <1>1, <2>2, <2>3, <2>4
<1>4. PICK y \in RunStates :
         /\ run' = [run EXCEPT ![r] = y] /\ Holds(r, y)
         /\ y.plan = run[r].plan /\ y.next = run[r].next
         /\ y.rows = run[r].rows /\ y.exit = exit /\ y.pc = run[r].pc
  BY <1>3, Exits
<1>5. /\ run' \in [Runs -> RunStates] /\ run'[r] = y
      /\ \A q \in Runs \ {r} : run'[q] = run[q]
  BY <1>4, OnlyOne
<1>6. /\ disk'[r].csv = disk[r].csv /\ disk'[r].summary = disk[r].summary
      /\ disk'[r].printed = disk[r].printed
  <2>1. CASE \E v : disk' = [disk EXCEPT ![r].root = v] BY <2>1, RootKept
  <2>2. CASE disk' = disk BY <2>2
  <2> QED BY <2>1, <2>2 DEF Teardown, Ended
<1>7. PlaceInv(r)' BY <1>1, <1>2, <1>4, <1>5 DEF PlaceInv, Serving, Holds, Same
<1>8. CaseOf(r)' = CaseOf(r) BY <1>4, <1>5 DEF CaseOf
<1>9. PassInv(r)' BY <1>1, <1>4, <1>5, <1>8 DEF PassInv, Trying, Holds, Same, Knows
<1>10. RowsInv(r)' BY <1>1, <1>4, <1>5, <1>6 DEF RowsInv
<1>11. EndInv(r)' BY <1>1, <1>3, <1>4, <1>5, <1>6 DEF EndInv, AllPass, Holds, Same
<1>12. Marked(r) => Marked(r)'
  <2>1. ASSUME Marked(r), exit = "ok" PROVE FALSE
    <3>1. PICK i \in 1 .. Len(run[r].rows) : run[r].rows[i].result = "fail"
      BY <1>1, <1>3, <2>1 DEF Marked
    <3>2. run[r].rows \in Seq(Rows) BY DEF RunsOK, RunStates
    <3> QED BY <1>3, <2>1, <3>1, <3>2 DEF AllPass
  <2> QED BY <2>1, <1>4, <1>5 DEF Marked
<1> QED BY <1>1, <1>2, <1>5, <1>7, <1>9, <1>10, <1>11, <1>12 DEF Kept, Alone

(* Killed: by its operator, or by the campaign that waits for it.             *)
LEMMA KilledKeeps ==
  ASSUME NEW r \in Runs, RunsOK, DiskOK, RunInv(r), run[r].exit = "none", Killed(r),
         tool' = tool, server' = server, port' = port, disk' = disk
  PROVE  Kept(r) /\ Marked(r)'
<1> USE DEF RunInv
<1>1. PICK y \in RunStates :
         /\ run' = [run EXCEPT ![r] = y] /\ Holds(r, y)
         /\ y.plan = run[r].plan /\ y.next = run[r].next
         /\ y.rows = run[r].rows /\ y.exit = "killed" /\ y.pc = run[r].pc
  BY Exits DEF Killed, Ended
<1>2. /\ run' \in [Runs -> RunStates] /\ run'[r] = y
      /\ \A q \in Runs \ {r} : run'[q] = run[q]
  BY <1>1, OnlyOne
<1>3. client'[r] = "none" BY DEF Killed, RunsOK
<1>4. PlaceInv(r)' BY <1>1, <1>2, <1>3 DEF PlaceInv, Serving, Holds, Same
<1>5. CaseOf(r)' = CaseOf(r) /\ PortOf(r)' = PortOf(r) BY <1>1, <1>2 DEF CaseOf, PortOf
<1>6. PassInv(r)' BY <1>1, <1>2, <1>3, <1>5 DEF PassInv, Trying, Holds, Same, Knows
<1>7. RowsInv(r)' BY <1>1, <1>2 DEF RowsInv
<1>8. EndInv(r)' BY <1>1, <1>2 DEF EndInv, Holds, Same
<1>9. Marked(r)' BY <1>1, <1>2 DEF Marked
<1> QED BY <1>2, <1>4, <1>5, <1>6, <1>7, <1>8, <1>9 DEF Kept, Alone

-----------------------------------------------------------------------------
(* Processes and files                                                        *)

(* What the step of a run does to clients, servers and ports.                 *)
Procs(r) ==
  /\ tool' = tool
  /\ server' \in [Runs -> {"none", "starting", "up", "dead"}]
  /\ port' \in [0 .. PortLimit -> Runs \cup {Absent}]
  /\ client' \in [Runs -> {"none", "running", "ok", "failed"}]
  /\ \A q \in Runs \ {r} : /\ client'[q] = client[q] /\ server'[q] = server[q]
                           /\ \A p \in 0 .. PortLimit : port'[p] = q => port[p] = q
  /\ PortInv'
(* ... to files and orphans.                                                  *)
Filed(r) ==
  /\ DiskOK' /\ \A q \in Runs \ {r} : disk'[q] = disk[q]
  /\ \A o \in orphans' : o \in orphans \/ (o.run = r /\ Marked(r)')

(* A run that ended stays as it ended.                                        *)
ExitsStay == \A q \in Runs : run[q].exit # "none" => run'[q].exit = run[q].exit

(* One run keeping its own invariant is enough.                               *)
LEMMA Together ==
  ASSUME MatrixInv, NEW r \in Runs, Kept(r), Procs(r), Filed(r)
  PROVE  MatrixInv' /\ ExitsStay
<1> USE DEF MatrixInv
<1>1. RunsOK' BY DEF RunsOK, Kept, Alone, Procs
<1>2. ASSUME NEW q \in Runs PROVE RunInv(q)' /\ (Marked(q) => Marked(q)')
  <2>1. CASE q = r BY <2>1 DEF Kept
  <2>2. CASE q # r BY <2>2, OthersKeep DEF Kept, Alone, Procs, Filed
  <2> QED BY <2>1, <2>2
<1>3. OrphanInv' BY <1>2 DEF OrphanInv, Filed
<1>4. ExitsStay BY DEF ExitsStay, Kept, Alone
<1> QED BY <1>1, <1>2, <1>3, <1>4 DEF Procs, Filed

(* Servers and ports as they are.                                             *)
LEMMA PortsKeep ==
  ASSUME RunsOK, PortInv, NEW r \in Runs, Alone(r),
         server' = server, port' = port, frozen' = frozen
  PROVE  PortInv'
<1>1. ASSUME NEW q \in Runs, server[q] = "up" PROVE PortOf(q)' = PortOf(q)
  <2>1. CASE q = r BY <1>1, <2>1 DEF Alone
  <2>2. CASE q # r BY <2>2 DEF Alone, PortOf, CaseOf
  <2> QED BY <2>1, <2>2
<1> QED BY <1>1 DEF PortInv

(* BeginCase: a new server, without a port.                                   *)
LEMMA BeginCaseProcs ==
  ASSUME RunsOK, PortInv, NEW r \in Runs, PlaceInv(r), Alone(r), BeginCase(r)
  PROVE  Procs(r)
<1>1. /\ run[r].pc = "case" /\ tool' = tool /\ port' = port /\ frozen' = frozen
      /\ client' = client
      /\ server' = server \/ server' = [server EXCEPT ![r] = "starting"]
  BY DEF BeginCase, At
<1>2. server[r] = "none" BY <1>1 DEF PlaceInv, Serving
<1>3. PortInv'
  <2>1. CASE server' = server BY <1>1, <2>1, PortsKeep
  <2>2. CASE server' = [server EXCEPT ![r] = "starting"]
    <3> SUFFICES ASSUME NEW p \in 0 .. PortLimit, NEW q \in Runs, port[p] = q, p \notin frozen
                 PROVE  server'[q] = "up" /\ p = PortOf(q)'
      BY <1>1 DEF PortInv
    <3>1. server[q] = "up" /\ p = PortOf(q) BY DEF PortInv
    <3>2. q # r BY <1>2, <3>1
    <3>3. PortOf(q)' = PortOf(q) BY <3>2 DEF Alone, PortOf, CaseOf
    <3> QED BY <2>2, <3>1, <3>2, <3>3 DEF RunsOK
  <2> QED BY <1>1, <2>1, <2>2
<1> QED BY <1>1, <1>3 DEF Procs, RunsOK

(* StopServer: the port is free, or frozen.                                   *)
LEMMA StopServerProcs ==
  ASSUME RunsOK, PortInv, NEW r \in Runs, Alone(r), StopServer(r)
  PROVE  Procs(r)
<1>1. /\ tool' = tool /\ client' = client
      /\ server' = [server EXCEPT ![r] = "none"]
  BY DEF StopServer, Stopped
<1>2. ASSUME NEW q \in Runs \ {r} PROVE server'[q] = server[q] /\ PortOf(q)' = PortOf(q)
  BY <1>1 DEF RunsOK, Alone, PortOf, CaseOf
<1>3. CASE Stopped(r)
  <2>1. port' = [p \in 0 .. PortLimit |-> IF p = PortOf(r) /\ port[p] = r THEN Absent ELSE port[p]]
    BY <1>3 DEF Stopped, RunsOK
  <2>2. port' \in [0 .. PortLimit -> Runs \cup {Absent}] BY <2>1 DEF RunsOK
  <2>3. ASSUME NEW p \in 0 .. PortLimit, NEW q \in Runs, port'[p] = q
        PROVE  port[p] = q /\ ~(p = PortOf(r) /\ q = r)
    BY <2>1, <2>3, MatrixAssumption
  <2>4. PortInv'
    <3> SUFFICES ASSUME NEW p \in 0 .. PortLimit, NEW q \in Runs, port'[p] = q, p \notin frozen'
                 PROVE  server'[q] = "up" /\ p = PortOf(q)'
      BY DEF PortInv
    <3>1. port[p] = q /\ ~(p = PortOf(r) /\ q = r) BY <2>3
    <3>2. p \notin frozen
      <4>1. CASE p = PortOf(r) /\ Listening(r) = r BY <3>1, <4>1 DEF Listening, RunsOK
      <4>2. CASE ~(p = PortOf(r) /\ Listening(r) = r) BY <1>3, <4>2 DEF Stopped
      <4> QED BY <4>1, <4>2
    <3>3. server[q] = "up" /\ p = PortOf(q) BY <3>1, <3>2 DEF PortInv
    <3>4. q # r BY <3>1, <3>3
    <3> QED BY <1>2, <3>3, <3>4
  <2> QED BY <1>1, <1>2, <2>2, <2>3, <2>4 DEF Procs, RunsOK
<1>4. CASE UNCHANGED <<port, frozen>> /\ Listening(r) = r /\ PortOf(r) \in frozen
  <2>1. PortInv'
    <3> SUFFICES ASSUME NEW p \in 0 .. PortLimit, NEW q \in Runs, port[p] = q, p \notin frozen
                 PROVE  server'[q] = "up" /\ p = PortOf(q)'
      BY <1>4 DEF PortInv
    <3>1. server[q] = "up" /\ p = PortOf(q) BY DEF PortInv
    <3>2. q # r BY <1>4, <3>1
    <3> QED BY <1>2, <3>1, <3>2
  <2> QED BY <1>1, <1>2, <1>4, <2>1 DEF Procs, RunsOK
<1> QED BY <1>3, <1>4 DEF StopServer

(* A step that leaves the servers alone and at most changes its own client.   *)
LEMMA QuietProcs ==
  ASSUME RunsOK, PortInv, NEW r \in Runs, Alone(r), tool' = tool,
         server' = server, port' = port, frozen' = frozen,
         \/ client' = client
         \/ \E v \in {"none", "running", "ok", "failed"} : client' = [client EXCEPT ![r] = v]
  PROVE  Procs(r)
<1>1. PortInv' BY PortsKeep
<1>2. /\ client' \in [Runs -> {"none", "running", "ok", "failed"}]
      /\ \A q \in Runs \ {r} : client'[q] = client[q]
  BY DEF RunsOK
<1> QED BY <1>1, <1>2 DEF Procs, RunsOK

(* A step that writes no file and leaves no client behind.                    *)
LEMMA NothingFiled ==
  ASSUME DiskOK, NEW r \in Runs, disk' = disk, orphans' = orphans
  PROVE  Filed(r)
  BY DEF Filed, DiskOK

(* The steps of a case, and those between the cases.                          *)
LEMMA RunStepKeeps ==
  ASSUME MatrixInv, NEW r \in Runs, RunStep(r)
  PROVE  MatrixInv' /\ ExitsStay
<1>1. RunsOK /\ DiskOK /\ PortInv /\ RunInv(r) BY DEF MatrixInv
<1>2. CASE BeginCase(r)
  <2>1. Kept(r) BY <1>1, <1>2, BeginCaseKeeps
  <2>2. Procs(r) BY <1>1, <1>2, <2>1, BeginCaseProcs DEF Kept, RunInv
  <2>3. Filed(r) BY <1>1, <1>2, NothingFiled DEF BeginCase
  <2> QED BY <2>1, <2>2, <2>3, Together
<1>3. CASE MakeSource(r) \/ Connect(r) \/ Request(r) \/ FinalReply(r) \/ HashDest(r)
           \/ Handle(r) \/ Clean(r)
  <2>1. Kept(r)
    BY <1>1, <1>3, MakeSourceKeeps, ConnectKeeps, RequestKeeps, FinalReplyKeeps,
       HashDestKeeps, HandleKeeps, CleanKeeps
  <2>2. tool' = tool /\ UNCHANGED processVars /\ disk' = disk
    BY <1>3 DEF MakeSource, Connect, Request, FinalReply, HashDest, Handle, Clean
  <2>3. Procs(r) BY <1>1, <2>1, <2>2, QuietProcs DEF Kept, processVars
  <2>4. Filed(r) BY <1>1, <2>2, NothingFiled DEF processVars
  <2> QED BY <2>1, <2>3, <2>4, Together
<1>4. CASE StartClient(r) \/ ClientReturns(r)
  <2>1. Kept(r) BY <1>1, <1>4, StartClientKeeps, ClientReturnsKeeps
  <2>2. /\ tool' = tool /\ server' = server /\ port' = port /\ frozen' = frozen
        /\ orphans' = orphans /\ disk' = disk
        /\ \E v \in {"none", "running", "ok", "failed"} : client' = [client EXCEPT ![r] = v]
    BY <1>4 DEF StartClient, ClientReturns
  <2>3. Procs(r) BY <1>1, <2>1, <2>2, QuietProcs DEF Kept
  <2>4. Filed(r) BY <1>1, <2>2, NothingFiled
  <2> QED BY <2>1, <2>3, <2>4, Together
<1>5. CASE ClientTimeout(r)
  <2>1. Kept(r) /\ Marked(r)' BY <1>1, <1>5, ClientTimeoutKeeps
  <2>2. /\ tool' = tool /\ server' = server /\ port' = port /\ frozen' = frozen
        /\ orphans' = orphans \cup {Orphan(r)} /\ disk' = disk
        /\ client' = [client EXCEPT ![r] = "none"]
    BY <1>5 DEF ClientTimeout
  <2>3. Procs(r) BY <1>1, <2>1, <2>2, QuietProcs DEF Kept
  <2>4. Orphan(r).run = r BY DEF Orphan
  <2>5. Filed(r) BY <1>1, <2>1, <2>2, <2>4 DEF Filed, DiskOK
  <2> QED BY <2>1, <2>3, <2>5, Together
<1>6. CASE StopServer(r)
  <2>1. Kept(r) BY <1>1, <1>6, StopServerKeeps
  <2>2. Procs(r) BY <1>1, <1>6, <2>1, StopServerProcs DEF Kept
  <2>3. Filed(r) BY <1>1, <1>6, NothingFiled DEF StopServer
  <2> QED BY <2>1, <2>2, <2>3, Together
<1>7. CASE OpenCsv(r) \/ WriteCsv(r) \/ WriteSummary(r) \/ ProcessCheck(r) \/ Teardown(r)
  <2>1. Kept(r)
    BY <1>1, <1>7, OpenCsvKeeps, WriteCsvKeeps, WriteSummaryKeeps, ProcessCheckKeeps,
       TeardownKeeps
  <2>2. tool' = tool /\ UNCHANGED processVars
    BY <1>7 DEF OpenCsv, WriteCsv, WriteSummary, ProcessCheck, Teardown
  <2>3. Procs(r) BY <1>1, <2>1, <2>2, QuietProcs DEF Kept, processVars
  <2>4. DiskOK' /\ \A q \in Runs \ {r} : disk'[q] = disk[q]
    <3>1. run[r].rows \in Seq(Rows) /\ <<>> \in Seq(Rows) BY <1>1 DEF RunsOK, RunStates
    <3>2. CASE \E v \in Seq(Rows) : disk' = [disk EXCEPT ![r].csv = v]
      BY <1>1, <3>2, CsvWritten
    <3>3. CASE \E v : disk' = [disk EXCEPT ![r].summary = v] BY <1>1, <3>3, SummaryWritten
    <3>4. CASE \E v : disk' = [disk EXCEPT ![r].printed = v] BY <1>1, <3>4, PathsPrinted
    <3>5. CASE \E v : disk' = [disk EXCEPT ![r].root = v] BY <1>1, <3>5, RootKept
    <3>6. CASE disk' = disk BY <1>1, <3>6 DEF DiskOK
    <3> QED
      BY <1>7, <3>1, <3>2, <3>3, <3>4, <3>5, <3>6
      DEF OpenCsv, WriteCsv, WriteSummary, ProcessCheck, Teardown
  <2>5. Filed(r) BY <2>2, <2>4 DEF Filed, processVars
  <2> QED BY <2>1, <2>3, <2>5, Together
<1> QED BY <1>2, <1>3, <1>4, <1>5, <1>6, <1>7 DEF RunStep

(* ClientEnds *)
LEMMA ClientEndsStep ==
  ASSUME MatrixInv, NEW r \in Runs, ClientEnds(r)
  PROVE  MatrixInv' /\ ExitsStay
<1>1. RunsOK /\ DiskOK /\ PortInv /\ RunInv(r) BY DEF MatrixInv
<1>2. Kept(r) BY <1>1, ClientEndsKeeps
<1>3. /\ tool' = tool /\ server' = server /\ port' = port /\ frozen' = frozen
      /\ orphans' = orphans /\ disk' = disk
      /\ \E v \in {"none", "running", "ok", "failed"} : client' = [client EXCEPT ![r] = v]
  BY DEF ClientEnds, Outcome
<1>4. Procs(r) BY <1>1, <1>2, <1>3, QuietProcs DEF Kept
<1>5. Filed(r) BY <1>1, <1>3, NothingFiled
<1> QED BY <1>2, <1>4, <1>5, Together

(* Killed: a client that runs is left behind by a run that is marked.         *)
LEMMA KilledStep ==
  ASSUME MatrixInv, NEW r \in Runs, run[r].exit = "none", Killed(r),
         tool' = tool, server' = server, port' = port, frozen' = frozen, disk' = disk
  PROVE  MatrixInv' /\ ExitsStay
<1>1. RunsOK /\ DiskOK /\ PortInv /\ RunInv(r) BY DEF MatrixInv
<1>2. Kept(r) /\ Marked(r)' BY <1>1, KilledKeeps
<1>3. client' = [client EXCEPT ![r] = "none"] /\ orphans' \subseteq orphans \cup {Orphan(r)}
  BY DEF Killed
<1>4. Procs(r) BY <1>1, <1>2, <1>3, QuietProcs DEF Kept
<1>5. Orphan(r).run = r BY DEF Orphan
<1>6. Filed(r) BY <1>1, <1>2, <1>3, <1>5 DEF Filed, DiskOK
<1> QED BY <1>2, <1>4, <1>6, Together

(* Startup, by hand or by a campaign.                                         *)
LEMMA StartupStep ==
  ASSUME MatrixInv, NEW r \in Runs, At(r, "idle"), NEW args \in CommandLines,
         Startup(r, args), tool' = tool, UNCHANGED processVars
  PROVE  MatrixInv' /\ ExitsStay
<1>1. RunsOK /\ DiskOK /\ PortInv /\ RunInv(r) BY DEF MatrixInv
<1>2. Kept(r) BY <1>1, StartupKeeps DEF processVars
<1>3. Procs(r) BY <1>1, <1>2, QuietProcs DEF Kept, processVars
<1>4. DiskOK' /\ \A q \in Runs \ {r} : disk'[q] = disk[q]
  <2>1. CASE \E v : disk' = [disk EXCEPT ![r].root = v] BY <1>1, <2>1, RootKept
  <2>2. CASE disk' = disk BY <1>1, <2>2 DEF DiskOK
  <2> QED BY <2>1, <2>2 DEF Startup
<1>5. Filed(r) BY <1>4 DEF Filed, processVars
<1> QED BY <1>2, <1>3, <1>5, Together

-----------------------------------------------------------------------------
(* The steps of servers and orphans                                           *)

(* No run moves, and none gets a server or a port outside its case.           *)
LEMMA RunsStay ==
  ASSUME MatrixInv, tool' = tool, run' = run, client' = client, disk' = disk,
         orphans' \subseteq orphans,
         server' \in [Runs -> {"none", "starting", "up", "dead"}],
         port' \in [0 .. PortLimit -> Runs \cup {Absent}],
         \A q \in Runs : server'[q] # "none" => server[q] # "none",
         \A p \in 0 .. PortLimit, q \in Runs : port'[p] = q => port[p] = q \/ server[q] # "none",
         PortInv'
  PROVE  MatrixInv' /\ ExitsStay
<1> USE DEF MatrixInv
<1>1. RunsOK' /\ DiskOK' BY DEF RunsOK, DiskOK
<1>2. ASSUME NEW q \in Runs PROVE RunInv(q)' /\ (Marked(q) => Marked(q)')
  <2>1. RunInv(q) OBVIOUS
  <2>2. CaseOf(q)' = CaseOf(q) BY DEF CaseOf
  <2>3. PlaceInv(q)' BY <2>1 DEF RunInv, PlaceInv
  <2>4. PassInv(q)' BY <2>1, <2>2 DEF RunInv, PassInv
  <2>5. RowsInv(q)' BY <2>1 DEF RunInv, RowsInv
  <2>6. EndInv(q)'
    <3>1. run[q].pc = "teardown" => server[q] = "none" BY <2>1 DEF RunInv, PlaceInv, Serving
    <3> QED BY <2>1, <3>1 DEF RunInv, EndInv, AllPass
  <2>7. Marked(q) => Marked(q)' BY DEF Marked
  <2> QED BY <2>3, <2>4, <2>5, <2>6, <2>7 DEF RunInv
<1>3. OrphanInv' BY <1>2 DEF OrphanInv
<1>4. ExitsStay BY DEF ExitsStay
<1> QED BY <1>1, <1>2, <1>3, <1>4

(* ServerBinds *)
LEMMA ServerBindsStep ==
  ASSUME MatrixInv, NEW r \in Runs, ServerBinds(r)
  PROVE  MatrixInv' /\ ExitsStay
<1>1. RunsOK /\ PortInv BY DEF MatrixInv
<1>2. /\ tool' = tool /\ run' = run /\ frozen' = frozen /\ client' = client
      /\ orphans' = orphans /\ disk' = disk /\ server[r] = "starting"
  BY DEF ServerBinds
<1>3. \A q \in Runs : PortOf(q)' = PortOf(q) BY <1>2 DEF PortOf, CaseOf
<1>4. CASE /\ Listening(r) = Absent /\ PortOf(r) \in 0 .. PortLimit
           /\ port' = [port EXCEPT ![PortOf(r)] = r]
           /\ server' = [server EXCEPT ![r] = "up"]
  <2>1. /\ server' \in [Runs -> {"none", "starting", "up", "dead"}]
        /\ port' \in [0 .. PortLimit -> Runs \cup {Absent}]
        /\ \A q \in Runs : server'[q] # "none" => server[q] # "none"
        /\ \A p \in 0 .. PortLimit : p # PortOf(r) => port'[p] = port[p]
        /\ port'[PortOf(r)] = r
        /\ \A q \in Runs : q # r => server'[q] = server[q]
        /\ server'[r] = "up"
    BY <1>1, <1>2, <1>4 DEF RunsOK
  <2>2. PortInv' BY <1>1, <1>2, <1>3, <2>1 DEF PortInv
  <2>3. \A p \in 0 .. PortLimit, q \in Runs : port'[p] = q => port[p] = q \/ server[q] # "none"
    BY <1>2, <2>1
  <2> QED BY <1>2, <2>1, <2>2, <2>3, RunsStay
<1>5. CASE port' = port /\ server' = [server EXCEPT ![r] = "dead"]
  <2>1. /\ server' \in [Runs -> {"none", "starting", "up", "dead"}]
        /\ \A q \in Runs : server'[q] # "none" => server[q] # "none"
        /\ \A q \in Runs : q # r => server'[q] = server[q]
    BY <1>1, <1>2, <1>5 DEF RunsOK
  <2>2. PortInv' BY <1>1, <1>2, <1>3, <1>5, <2>1 DEF PortInv
  <2> QED BY <1>1, <1>2, <1>5, <2>1, <2>2, RunsStay DEF RunsOK
<1> QED BY <1>1, <1>4, <1>5 DEF ServerBinds, RunsOK

(* ServerFails *)
LEMMA ServerFailsStep ==
  ASSUME MatrixInv, NEW r \in Runs, ServerFails(r)
  PROVE  MatrixInv' /\ ExitsStay
<1>1. RunsOK /\ PortInv BY DEF MatrixInv
<1>2. /\ tool' = tool /\ run' = run /\ client' = client
      /\ orphans' = orphans /\ disk' = disk /\ server[r] = "up"
      /\ PortOf(r) \notin frozen /\ Listening(r) = r
  BY DEF ServerFails
<1>3. \A q \in Runs : PortOf(q)' = PortOf(q) BY <1>2 DEF PortOf, CaseOf
<1>4. PortOf(r) \in 0 .. PortLimit BY <1>1, <1>2, MatrixAssumption DEF Listening, RunsOK
<1>5. CASE /\ server' = [server EXCEPT ![r] = "dead"] /\ frozen' = frozen
           /\ port' = [port EXCEPT ![PortOf(r)] = Absent]
  <2>1. /\ server' \in [Runs -> {"none", "starting", "up", "dead"}]
        /\ port' \in [0 .. PortLimit -> Runs \cup {Absent}]
        /\ \A q \in Runs : server'[q] # "none" => server[q] # "none"
        /\ \A p \in 0 .. PortLimit : p # PortOf(r) => port'[p] = port[p]
        /\ port'[PortOf(r)] = Absent
        /\ \A q \in Runs : q # r => server'[q] = server[q]
    BY <1>1, <1>2, <1>4, <1>5 DEF RunsOK
  <2>2. ASSUME NEW p \in 0 .. PortLimit, NEW q \in Runs, port'[p] = q
        PROVE  port[p] = q /\ p # PortOf(r)
    BY <2>1, <2>2, MatrixAssumption
  <2>3. PortInv' BY <1>1, <1>2, <1>3, <1>5, <2>1, <2>2 DEF PortInv
  <2> QED BY <1>2, <2>1, <2>2, <2>3, RunsStay
<1>6. CASE frozen' = frozen \cup {PortOf(r)} /\ server' = server /\ port' = port
  <2>1. PortInv' BY <1>1, <1>3, <1>6 DEF PortInv
  <2> QED BY <1>1, <1>2, <1>6, <2>1, RunsStay DEF RunsOK
<1> QED BY <1>5, <1>6 DEF ServerFails

(* Nothing of the runs, their processes and files changes, or less is left.   *)
LEMMA MatrixStays ==
  ASSUME MatrixInv, tool' = tool, run' = run, server' = server, port' = port,
         frozen' = frozen, client' = client, orphans' \subseteq orphans, disk' = disk
  PROVE  MatrixInv' /\ ExitsStay
<1>1. RunsOK /\ PortInv BY DEF MatrixInv
<1>2. PortInv' BY <1>1 DEF PortInv, PortOf, CaseOf
<1> QED BY <1>1, <1>2, RunsStay DEF RunsOK

-----------------------------------------------------------------------------
(* The campaigns                                                              *)

Phases == {"idle", "environment", "baseline", "iperf", "peer_start", "peer", "storage", "checksum",
           "inputs", "native", "account", "gridftp", "urlcopy", "build", "gridflux", "nested",
           "plain", "ftp", "memory", "analyzer", "plotter", "cleanup", "remove", "wrapper"}
(* The phases behind the matrix.                                              *)
Late == {"analyzer", "plotter", "cleanup", "remove", "wrapper"}
Helpers == {"iperf3", "iperf3-peer", "globus-gridftp-server", "vsftpd"}
Styles == {"cloud", "three", "disk"}
CampStates ==
  [pc : Phases, helpers : SUBSET Helpers, account : BOOLEAN, created : BOOLEAN, bad : BOOLEAN,
   raised : BOOLEAN, source : Runs \cup {Absent}, rows : Seq(Rows),
   wrapper : {"none", "pass", "fail", "written"}, exit : {"none", "ok", "fail", "crash"}]

CampOK ==
  /\ style \in [Campaigns -> Styles]
  /\ camp \in [Campaigns -> CampStates]
  /\ recent \in [Campaigns -> Runs \cup {Absent}]

(* Which servers a campaign of style s may have started, and when none of     *)
(* them is left here: iperf3 does not outlive its measurement, except in the  *)
(* three-way campaign, whose clean-up finds it.                               *)
Tidy(s, x) ==
  /\ x.wrapper # "none" => x.pc = "wrapper"
  /\ s = "cloud" => "vsftpd" \notin x.helpers
  /\ s = "disk" => x.helpers \subseteq {"iperf3", "iperf3-peer"}
  /\ s = "three" => "iperf3-peer" \notin x.helpers
  /\ s # "three" /\ "iperf3" \in x.helpers => x.pc = "iperf"
  /\ x.pc \in {"remove", "wrapper"} => x.helpers \subseteq {"iperf3-peer"}
  /\ x.pc = "wrapper" => ~(x.account /\ x.created)

(* A disk proof that has found nothing wrong so far has read the file of its  *)
(* own matrix, which has ended well.                                          *)
Backed(c, x) ==
  /\ style[c] = "disk" /\ ~x.bad /\ ~x.raised /\ x.pc \in Late =>
       x.source = NestedRun[c] /\ run[NestedRun[c]].exit = "ok"
  /\ x.exit = "ok" =>
       /\ ~x.raised /\ x.pc = "wrapper"
       /\ style[c] = "disk" => ~x.bad

CampaignInv ==
  CampOK /\ \A c \in Campaigns : Tidy(style[c], camp[c]) /\ Backed(c, camp[c])

(* The inductive invariant.                                                   *)
IInv == MatrixInv /\ CampaignInv

-----------------------------------------------------------------------------
(* The phases of a campaign                                                   *)

(* Campaign c takes a step, and no other one does.                            *)
Phase(c) == \E x \in CampStates : /\ camp' = [camp EXCEPT ![c] = x]
                                 /\ Tidy(style[c], x) /\ Backed(c, x)

(* What most phases change.                                                   *)
Now(c, pc, helpers, bad, raised) ==
  [camp[c] EXCEPT !.pc = pc, !.helpers = helpers, !.bad = bad, !.raised = raised]

(* Now changes what it says and nothing else.                                 *)
LEMMA NowIs ==
  ASSUME NEW c, camp[c] \in CampStates, NEW pc \in Phases, NEW helpers \in SUBSET Helpers,
         NEW bad \in BOOLEAN, NEW raised \in BOOLEAN
  PROVE  /\ Now(c, pc, helpers, bad, raised) \in CampStates
         /\ Now(c, pc, helpers, bad, raised).pc = pc
         /\ Now(c, pc, helpers, bad, raised).helpers = helpers
         /\ Now(c, pc, helpers, bad, raised).bad = bad
         /\ Now(c, pc, helpers, bad, raised).raised = raised
         /\ Now(c, pc, helpers, bad, raised).source = camp[c].source
         /\ Now(c, pc, helpers, bad, raised).wrapper = camp[c].wrapper
         /\ Now(c, pc, helpers, bad, raised).exit = camp[c].exit
  BY DEF CampStates, Now

(* The phases before the clean-up: what they do to the helpers.               *)
Changes(c, pcs, helpers) ==
  \E pc \in pcs, bad \in BOOLEAN, raised \in BOOLEAN :
    /\ camp' = [camp EXCEPT ![c] = Now(c, pc, helpers, bad, raised)]
    /\ camp[c].bad => bad
    /\ camp[c].raised => raised
Raises(c, helpers) ==
  \E bad \in BOOLEAN, raised \in BOOLEAN :
    /\ camp' = [camp EXCEPT ![c] = Now(c, "cleanup", helpers, bad, raised)]
    /\ camp[c].bad => bad
    /\ raised

(* A phase that goes on, with or without counting a failed row.               *)
LEMMA GoChanges ==
  ASSUME NEW c \in Campaigns, CampOK, NEW pc \in Phases, Go(c, pc) \/ Failing(c, pc)
  PROVE  Changes(c, {pc}, camp[c].helpers)
<1>1. camp[c] \in CampStates BY DEF CampOK
<1>2. /\ [camp[c] EXCEPT !.pc = pc] = Now(c, pc, camp[c].helpers, camp[c].bad, camp[c].raised)
      /\ [camp[c] EXCEPT !.pc = pc, !.bad = TRUE]
           = Now(c, pc, camp[c].helpers, TRUE, camp[c].raised)
  BY <1>1 DEF CampStates, Now
<1>3. camp[c].bad \in BOOLEAN /\ camp[c].raised \in BOOLEAN BY <1>1 DEF CampStates
<1> QED BY <1>2, <1>3 DEF Changes, Go, Failing, Set

(* A phase that starts or stops a server.                                     *)
LEMMA HelpersChange ==
  ASSUME NEW c \in Campaigns, CampOK, NEW pc \in Phases, NEW helpers \in SUBSET Helpers,
         NEW counts \in BOOLEAN,
         \/ Set(c, [camp[c] EXCEPT !.helpers = helpers, !.pc = pc])
         \/ Set(c, [[camp[c] EXCEPT !.helpers = helpers] EXCEPT !.pc = pc])
         \/ Set(c, [[camp[c] EXCEPT !.helpers = helpers] EXCEPT !.pc = pc, !.bad = @ \/ counts])
  PROVE  Changes(c, {pc}, helpers)
<1>1. camp[c] \in CampStates BY DEF CampOK
<1>2. PICK bad \in BOOLEAN : bad = (camp[c].bad \/ counts) OBVIOUS
<1>3. /\ [camp[c] EXCEPT !.helpers = helpers, !.pc = pc]
           = Now(c, pc, helpers, camp[c].bad, camp[c].raised)
      /\ [[camp[c] EXCEPT !.helpers = helpers] EXCEPT !.pc = pc]
           = Now(c, pc, helpers, camp[c].bad, camp[c].raised)
      /\ [[camp[c] EXCEPT !.helpers = helpers] EXCEPT !.pc = pc, !.bad = bad]
           = Now(c, pc, helpers, bad, camp[c].raised)
  BY <1>1 DEF CampStates, Now
<1>4. [camp[c] EXCEPT !.helpers = helpers].bad = camp[c].bad BY <1>1 DEF CampStates
<1>5. camp[c].bad \in BOOLEAN /\ camp[c].raised \in BOOLEAN BY <1>1 DEF CampStates
<1>6. camp[c].bad => bad BY <1>2
<1>7. \/ camp' = [camp EXCEPT ![c] = Now(c, pc, helpers, camp[c].bad, camp[c].raised)]
      \/ camp' = [camp EXCEPT ![c] = Now(c, pc, helpers, bad, camp[c].raised)]
  BY <1>2, <1>3, <1>4 DEF Set
<1> QED BY <1>5, <1>6, <1>7 DEF Changes

(* An exception takes a campaign to its clean-up.                             *)
LEMMA LeaveRaises ==
  ASSUME NEW c \in Campaigns, CampOK, NEW helpers \in SUBSET Helpers,
         \/ Leave(c, [camp[c] EXCEPT !.helpers = helpers])
         \/ helpers = camp[c].helpers /\ Leave(c, camp[c])
  PROVE  Raises(c, helpers)
<1>1. camp[c] \in CampStates BY DEF CampOK
<1>2. /\ [[camp[c] EXCEPT !.helpers = helpers] EXCEPT !.pc = "cleanup", !.raised = TRUE]
           = Now(c, "cleanup", helpers, camp[c].bad, TRUE)
      /\ helpers = camp[c].helpers =>
           [camp[c] EXCEPT !.pc = "cleanup", !.raised = TRUE]
             = Now(c, "cleanup", helpers, camp[c].bad, TRUE)
  BY <1>1 DEF CampStates, Now
<1>3. camp[c].bad \in BOOLEAN BY <1>1 DEF CampStates
<1> QED BY <1>2, <1>3 DEF Raises, Leave, Set

(* The servers a campaign may have started when it goes on to phase pc.       *)
Fit(c, pc, helpers) ==
  /\ style[c] = "cloud" => "vsftpd" \notin helpers
  /\ style[c] = "disk" => helpers \subseteq {"iperf3", "iperf3-peer"}
  /\ style[c] = "three" => "iperf3-peer" \notin helpers
  /\ style[c] # "three" /\ "iperf3" \in helpers => pc = "iperf"
  /\ pc = "remove" => helpers \subseteq {"iperf3-peer"}

(* A phase before the wrapper keeps what the campaign knows, when the servers *)
(* fit the phase it goes on to.                                               *)
LEMMA ChangesMove ==
  ASSUME CampaignInv, NEW c \in Campaigns, camp[c].exit = "none", camp[c].pc # "wrapper",
         NEW pc \in Phases \ {"wrapper"}, NEW helpers \in SUBSET Helpers,
         Changes(c, {pc}, helpers), Fit(c, pc, helpers), pc \in Late => camp[c].pc \in Late
  PROVE  Phase(c)
<1>1. camp[c] \in CampStates /\ Tidy(style[c], camp[c]) /\ Backed(c, camp[c])
  BY DEF CampaignInv, CampOK
<1>2. PICK bad \in BOOLEAN, raised \in BOOLEAN :
        /\ camp' = [camp EXCEPT ![c] = Now(c, pc, helpers, bad, raised)]
        /\ camp[c].bad => bad
        /\ camp[c].raised => raised
  BY DEF Changes
<1> DEFINE x == Now(c, pc, helpers, bad, raised)
<1>3. /\ x \in CampStates /\ x.pc = pc /\ x.helpers = helpers /\ x.bad = bad
      /\ x.raised = raised /\ x.source = camp[c].source /\ x.wrapper = camp[c].wrapper
      /\ x.exit = camp[c].exit
  BY <1>1, NowIs
<1> HIDE DEF x
<1>4. Tidy(style[c], x) BY <1>1, <1>3 DEF Tidy, Fit
<1>5. Backed(c, x) BY <1>1, <1>2, <1>3 DEF Backed
<1>6. camp' = [camp EXCEPT ![c] = x] BY <1>2 DEF x
<1> QED BY <1>3, <1>4, <1>5, <1>6 DEF Phase

(* So does an exception in such a phase.                                      *)
LEMMA RaisesMove ==
  ASSUME CampaignInv, NEW c \in Campaigns, camp[c].exit = "none", camp[c].pc # "wrapper",
         NEW helpers \in SUBSET Helpers, Raises(c, helpers), Fit(c, "cleanup", helpers)
  PROVE  Phase(c)
<1>1. camp[c] \in CampStates /\ Tidy(style[c], camp[c]) /\ Backed(c, camp[c])
  BY DEF CampaignInv, CampOK
<1>2. PICK bad \in BOOLEAN, raised \in BOOLEAN :
        raised /\ camp' = [camp EXCEPT ![c] = Now(c, "cleanup", helpers, bad, raised)]
  BY DEF Raises
<1> DEFINE x == Now(c, "cleanup", helpers, bad, raised)
<1>3. "cleanup" \in Phases BY DEF Phases
<1>4. /\ x \in CampStates /\ x.pc = "cleanup" /\ x.helpers = helpers
      /\ x.raised = raised /\ x.wrapper = camp[c].wrapper /\ x.exit = camp[c].exit
  BY <1>1, <1>3, NowIs
<1> HIDE DEF x
<1>5. Tidy(style[c], x) BY <1>1, <1>4 DEF Tidy, Fit
<1>6. Backed(c, x) BY <1>1, <1>2, <1>4 DEF Backed
<1>7. camp' = [camp EXCEPT ![c] = x] BY <1>2 DEF x
<1> QED BY <1>4, <1>5, <1>6, <1>7 DEF Phase

(* An exception in the finally.                                               *)
LEMMA AbortMoves ==
  ASSUME CampaignInv, NEW c \in Campaigns, camp[c].exit = "none", Abort(c)
  PROVE  Phase(c)
<1> DEFINE x == [camp[c] EXCEPT !.exit = "crash"]
<1>1. camp[c] \in CampStates /\ Tidy(style[c], camp[c]) /\ Backed(c, camp[c])
  BY DEF CampaignInv, CampOK
<1>2. x \in CampStates BY <1>1 DEF CampStates
<1>3. /\ x.pc = camp[c].pc /\ x.helpers = camp[c].helpers /\ x.bad = camp[c].bad
      /\ x.raised = camp[c].raised /\ x.source = camp[c].source /\ x.wrapper = camp[c].wrapper
      /\ x.account = camp[c].account /\ x.created = camp[c].created /\ x.exit = "crash"
  BY <1>1 DEF CampStates
<1> HIDE DEF x
<1>4. Tidy(style[c], x) /\ Backed(c, x) BY <1>1, <1>3 DEF Tidy, Backed
<1>5. camp' = [camp EXCEPT ![c] = x] BY DEF x, Abort, Set
<1> QED BY <1>2, <1>4, <1>5 DEF Phase

(* What a campaign knows at a step that is not the measurement of iperf3.     *)
LEMMA AtRest ==
  ASSUME CampaignInv, NEW c \in Campaigns, camp[c].pc # "iperf"
  PROVE  /\ camp[c].helpers \in SUBSET Helpers
         /\ \A pc \in Phases \ {"remove"} : Fit(c, pc, camp[c].helpers)
  BY DEF CampaignInv, CampOK, CampStates, Tidy, Fit

(* Plain, Counted, the tools of GridFTP: a phase that starts nothing.         *)
LEMMA PlainMoves ==
  ASSUME CampaignInv, NEW c \in Campaigns, camp[c].exit = "none",
         camp[c].pc \notin {"iperf", "wrapper"},
         NEW next \in Phases \ {"remove", "wrapper"}, next \in Late => camp[c].pc \in Late,
         Go(c, next) \/ Failing(c, next) \/ Leave(c, camp[c])
  PROVE  Phase(c)
<1>1. /\ CampOK /\ camp[c].helpers \in SUBSET Helpers /\ Fit(c, next, camp[c].helpers)
      /\ Fit(c, "cleanup", camp[c].helpers)
  BY AtRest DEF CampaignInv, Phases
<1>2. CASE Go(c, next) \/ Failing(c, next) BY <1>1, <1>2, GoChanges, ChangesMove
<1>3. CASE Leave(c, camp[c]) BY <1>1, <1>3, LeaveRaises, RaisesMove
<1> QED BY <1>2, <1>3

(* A phase that starts nothing and counts whether it failed.                  *)
LEMMA BadChanges ==
  ASSUME NEW c \in Campaigns, CampOK, NEW pc \in Phases, NEW counts \in BOOLEAN,
         Set(c, [camp[c] EXCEPT !.pc = pc, !.bad = @ \/ counts])
  PROVE  Changes(c, {pc}, camp[c].helpers)
<1>1. camp[c] \in CampStates BY DEF CampOK
<1>2. PICK bad \in BOOLEAN : bad = (camp[c].bad \/ counts) OBVIOUS
<1>3. [camp[c] EXCEPT !.pc = pc, !.bad = bad]
        = Now(c, pc, camp[c].helpers, bad, camp[c].raised)
  BY <1>1 DEF CampStates, Now
<1>4. camp[c].raised \in BOOLEAN /\ (camp[c].bad => bad) BY <1>1, <1>2 DEF CampStates
<1>5. camp' = [camp EXCEPT ![c] = Now(c, pc, camp[c].helpers, bad, camp[c].raised)]
  BY <1>2, <1>3 DEF Set
<1> QED BY <1>4, <1>5 DEF Changes

(* StartHere: the server runs, or the phase is left out.                      *)
LEMMA StartHereMoves ==
  ASSUME CampaignInv, NEW c \in Campaigns, camp[c].exit = "none",
         camp[c].pc \notin Late \cup {"iperf"},
         NEW helper \in Helpers, NEW next \in Phases \ Late, NEW skip \in Phases \ Late,
         NEW counts \in BOOLEAN, Fit(c, next, camp[c].helpers \cup {helper}),
         StartHere(c, helper, next, skip, counts)
  PROVE  Phase(c)
<1>1. /\ CampOK /\ camp[c].helpers \in SUBSET Helpers /\ Fit(c, skip, camp[c].helpers)
      /\ Fit(c, "cleanup", camp[c].helpers)
  BY AtRest DEF CampaignInv, Phases, Late
<1>2. next # "wrapper" /\ skip # "wrapper" /\ camp[c].pc # "wrapper" BY DEF Late
<1>3. CASE Set(c, [camp[c] EXCEPT !.helpers = @ \cup {helper}, !.pc = next])
  BY <1>1, <1>2, <1>3, HelpersChange, ChangesMove
<1>4. CASE Set(c, [camp[c] EXCEPT !.pc = skip, !.bad = @ \/ counts])
  BY <1>1, <1>2, <1>4, BadChanges, ChangesMove
<1>5. CASE Leave(c, camp[c]) BY <1>1, <1>2, <1>5, LeaveRaises, RaisesMove
<1> QED BY <1>3, <1>4, <1>5 DEF StartHere

(* StopsHere: the server does not run any more, even after an exception.      *)
LEMMA StopsHereMoves ==
  ASSUME CampaignInv, NEW c \in Campaigns, camp[c].exit = "none",
         camp[c].pc \notin Late, NEW helper \in Helpers, NEW next \in Phases \ Late,
         NEW counts \in BOOLEAN,
         Fit(c, next, camp[c].helpers \ {helper}), Fit(c, "cleanup", camp[c].helpers \ {helper}),
         StopsHere(c, helper, next, counts)
  PROVE  Phase(c)
<1>1. CampOK /\ camp[c].helpers \ {helper} \in SUBSET Helpers
  BY DEF CampaignInv, CampOK, CampStates
<1>2. next # "wrapper" /\ camp[c].pc # "wrapper" BY DEF Late
<1> DEFINE stopped == [camp[c] EXCEPT !.helpers = @ \ {helper}]
<1>3. CASE Set(c, [stopped EXCEPT !.pc = next])
  BY <1>1, <1>2, <1>3, HelpersChange, ChangesMove
<1>4. CASE Set(c, [stopped EXCEPT !.pc = next, !.bad = @ \/ counts])
  BY <1>1, <1>2, <1>4, HelpersChange, ChangesMove
<1>5. CASE Leave(c, stopped) BY <1>1, <1>2, <1>5, LeaveRaises, RaisesMove
<1> QED BY <1>3, <1>4, <1>5 DEF StopsHere

(* StartPeer, StopsPeer: the server on the other machine may be there or not. *)
LEMMA PeerMoves ==
  ASSUME CampaignInv, NEW c \in Campaigns, camp[c].exit = "none",
         camp[c].pc \notin Late \cup {"iperf"}, style[c] # "three",
         NEW next \in Phases \ Late, NEW counts \in BOOLEAN,
         StartPeer(c, next) \/ StopsPeer(c, next, counts)
  PROVE  Phase(c)
<1>1. /\ CampOK /\ camp[c].helpers \in SUBSET Helpers
      /\ \A pc \in Phases \ {"remove"} : Fit(c, pc, camp[c].helpers)
  BY AtRest DEF CampaignInv
<1>2. /\ next # "wrapper" /\ camp[c].pc # "wrapper" /\ next \in Phases \ {"remove", "wrapper"}
      /\ "cleanup" \in Phases \ {"remove"}
  BY DEF Late, Phases
<1>3. CASE Go(c, next) \/ Leave(c, camp[c]) BY <1>2, <1>3, PlainMoves
<1>4. CASE StopsHere(c, "iperf3-peer", next, counts)
  <2>1. \A pc \in {next, "cleanup"} : Fit(c, pc, camp[c].helpers \ {"iperf3-peer"})
    BY <1>1, <1>2 DEF Fit
  <2> QED BY <1>4, <2>1, StopsHereMoves DEF Helpers
<1>5. ASSUME \/ Set(c, [camp[c] EXCEPT !.helpers = @ \cup {"iperf3-peer"}, !.pc = next])
             \/ Leave(c, [camp[c] EXCEPT !.helpers = @ \cup {"iperf3-peer"}])
      PROVE  Phase(c)
  <2> DEFINE helpers == camp[c].helpers \cup {"iperf3-peer"}
  <2>1. helpers \in SUBSET Helpers BY <1>1 DEF Helpers
  <2>2. Fit(c, next, helpers) /\ Fit(c, "cleanup", helpers)
    BY <1>1, <1>2 DEF Fit
  <2>3. CASE Set(c, [camp[c] EXCEPT !.helpers = helpers, !.pc = next])
    BY <1>1, <1>2, <2>1, <2>2, <2>3, HelpersChange, ChangesMove
  <2>4. CASE Leave(c, [camp[c] EXCEPT !.helpers = helpers])
    BY <1>1, <1>2, <2>1, <2>2, <2>4, LeaveRaises, RaisesMove
  <2> QED BY <1>5, <2>3, <2>4
<1> QED BY <1>3, <1>4, <1>5 DEF StartPeer, StopsPeer

(* MeasureTransfers, with the server it stops, if any.                        *)
LEMMA MeasureMoves ==
  ASSUME CampaignInv, NEW c \in Campaigns, camp[c].exit = "none",
         camp[c].pc \notin Late \cup {"iperf"}, NEW next \in Phases \ Late,
         \/ MeasureTransfers(c, camp[c], next)
         \/ MeasureTransfers(c, [camp[c] EXCEPT !.helpers = @ \ {"vsftpd"}], next)
  PROVE  Phase(c)
<1>1. /\ CampOK /\ camp[c].helpers \in SUBSET Helpers
      /\ \A pc \in Phases \ {"remove"} : Fit(c, pc, camp[c].helpers)
  BY AtRest DEF CampaignInv
<1>2. /\ next # "wrapper" /\ camp[c].pc # "wrapper" /\ next \in Phases \ {"remove", "wrapper"}
      /\ "cleanup" \in Phases \ {"remove"}
  BY DEF Late, Phases
<1>3. CASE MeasureTransfers(c, camp[c], next)
  <2>1. PICK counts \in BOOLEAN : \/ Set(c, [camp[c] EXCEPT !.pc = next, !.bad = @ \/ counts])
                                 \/ Leave(c, camp[c])
    BY <1>3 DEF MeasureTransfers, RowPasses
  <2>2. CASE Set(c, [camp[c] EXCEPT !.pc = next, !.bad = @ \/ counts])
    BY <1>1, <1>2, <2>2, BadChanges, ChangesMove
  <2>3. CASE Leave(c, camp[c]) BY <1>2, <2>3, PlainMoves
  <2> QED BY <2>1, <2>2, <2>3
<1>4. CASE MeasureTransfers(c, [camp[c] EXCEPT !.helpers = @ \ {"vsftpd"}], next)
  <2> DEFINE helpers == camp[c].helpers \ {"vsftpd"}
             after == [camp[c] EXCEPT !.helpers = helpers]
  <2>1. PICK counts \in BOOLEAN : \/ Set(c, [after EXCEPT !.pc = next, !.bad = @ \/ counts])
                                 \/ Leave(c, after)
    BY <1>4 DEF MeasureTransfers, RowPasses
  <2>2. helpers \in SUBSET Helpers BY <1>1
  <2>3. Fit(c, next, helpers) /\ Fit(c, "cleanup", helpers) BY <1>1, <1>2 DEF Fit
  <2>4. CASE Set(c, [after EXCEPT !.pc = next, !.bad = @ \/ counts])
    BY <1>1, <1>2, <2>2, <2>3, <2>4, HelpersChange, ChangesMove
  <2>5. CASE Leave(c, after) BY <1>1, <1>2, <2>2, <2>3, <2>5, LeaveRaises, RaisesMove
  <2> QED BY <2>1, <2>4, <2>5
<1> QED BY <1>3, <1>4

(* StartDaemon, start_vsftpd: a server that the clean-up must find.           *)
LEMMA DaemonMoves ==
  ASSUME CampaignInv, NEW c \in Campaigns, camp[c].exit = "none",
         camp[c].pc \notin Late \cup {"iperf"},
         NEW helper \in {"globus-gridftp-server", "vsftpd"},
         Fit(c, "idle", camp[c].helpers \cup {helper}),
         NEW next \in Phases \ Late,
         LET started == [camp[c] EXCEPT !.helpers = @ \cup {helper}]
         IN \/ Set(c, [started EXCEPT !.pc = next])
            \/ Set(c, [started EXCEPT !.pc = next, !.bad = TRUE])
            \/ Failing(c, next) \/ Leave(c, camp[c]) \/ Leave(c, started)
  PROVE  Phase(c)
<1>1. CampOK /\ camp[c].helpers \in SUBSET Helpers BY AtRest DEF CampaignInv
<1>2. /\ next # "wrapper" /\ camp[c].pc # "wrapper" /\ next \in Phases \ {"remove", "wrapper"}
  BY DEF Late
<1> DEFINE helpers == camp[c].helpers \cup {helper}
           started == [camp[c] EXCEPT !.helpers = helpers]
<1>3. helpers \in SUBSET Helpers BY <1>1 DEF Helpers
<1>4. Fit(c, next, helpers) /\ Fit(c, "cleanup", helpers) BY <1>2 DEF Fit
<1>5. CASE Failing(c, next) \/ Leave(c, camp[c]) BY <1>2, <1>5, PlainMoves
<1>6. CASE Set(c, [started EXCEPT !.pc = next])
  BY <1>1, <1>2, <1>3, <1>4, <1>6, HelpersChange, ChangesMove
<1>7. CASE Set(c, [started EXCEPT !.pc = next, !.bad = TRUE])
  <2>1. [started EXCEPT !.pc = next, !.bad = TRUE] = [started EXCEPT !.pc = next, !.bad = @ \/ TRUE]
    OBVIOUS
  <2> QED BY <1>1, <1>2, <1>3, <1>4, <1>7, <2>1, HelpersChange, ChangesMove
<1>8. CASE Leave(c, started) BY <1>1, <1>2, <1>3, <1>4, <1>8, LeaveRaises, RaisesMove
<1> QED BY <1>5, <1>6, <1>7, <1>8

(* Any record for campaign c that keeps what is known of it.                  *)
LEMMA BecomesPhase ==
  ASSUME NEW c \in Campaigns, NEW x \in CampStates, Set(c, x), Tidy(style[c], x), Backed(c, x)
  PROVE  Phase(c)
  BY DEF Phase, Set

(* SetupAccount *)
LEMMA AccountMoves ==
  ASSUME CampaignInv, NEW c \in Campaigns, camp[c].exit = "none",
         camp[c].pc \notin Late \cup {"iperf"}, NEW next \in Phases \ Late,
         SetupAccount(c, next)
  PROVE  Phase(c)
<1>1. /\ camp[c] \in CampStates /\ Tidy(style[c], camp[c]) /\ Backed(c, camp[c])
  BY DEF CampaignInv, CampOK
<1>2. next \notin {"wrapper", "remove"} /\ camp[c].pc # "wrapper" BY DEF Late
<1>3. CASE Leave(c, camp[c]) BY <1>2, <1>3, PlainMoves
<1>4. CASE Set(c, [camp[c] EXCEPT !.pc = next, !.account = TRUE, !.created = TRUE])
  <2> DEFINE x == [camp[c] EXCEPT !.pc = next, !.account = TRUE, !.created = TRUE]
  <2>1. x \in CampStates BY <1>1 DEF CampStates
  <2>2. /\ x.pc = next /\ x.helpers = camp[c].helpers /\ x.wrapper = camp[c].wrapper
        /\ x.exit = "none"
    BY <1>1 DEF CampStates
  <2> HIDE DEF x
  <2>3. Tidy(style[c], x) BY <1>1, <1>2, <2>2 DEF Tidy
  <2>4. Backed(c, x) BY <2>2 DEF Backed
  <2>5. Set(c, x) BY <1>4 DEF x
  <2> QED BY <2>1, <2>3, <2>4, <2>5, BecomesPhase
<1>5. CASE Go(c, next)
  <2> DEFINE x == [camp[c] EXCEPT !.pc = next]
  <2>1. x \in CampStates BY <1>1 DEF CampStates
  <2>2. /\ x.pc = next /\ x.helpers = camp[c].helpers /\ x.wrapper = camp[c].wrapper
        /\ x.exit = "none"
    BY <1>1 DEF CampStates
  <2> HIDE DEF x
  <2>3. Tidy(style[c], x) BY <1>1, <1>2, <2>2 DEF Tidy
  <2>4. Backed(c, x) BY <2>2 DEF Backed
  <2>5. Set(c, x) BY <1>5 DEF x, Go
  <2> QED BY <2>1, <2>3, <2>4, <2>5, BecomesPhase
<1>6. CASE Leave(c, [camp[c] EXCEPT !.account = TRUE])
  <2> DEFINE x == [[camp[c] EXCEPT !.account = TRUE] EXCEPT !.pc = "cleanup", !.raised = TRUE]
  <2>1. x \in CampStates BY <1>1 DEF CampStates, Phases
  <2>2. /\ x.pc = "cleanup" /\ x.helpers = camp[c].helpers /\ x.wrapper = camp[c].wrapper
        /\ x.exit = "none" /\ x.raised
    BY <1>1 DEF CampStates
  <2> HIDE DEF x
  <2>3. Tidy(style[c], x) BY <1>1, <1>2, <2>2 DEF Tidy
  <2>4. Backed(c, x) BY <2>2 DEF Backed
  <2>5. Set(c, x) BY <1>6 DEF x, Leave
  <2> QED BY <2>1, <2>3, <2>4, <2>5, BecomesPhase
<1> QED BY <1>3, <1>4, <1>5, <1>6 DEF SetupAccount

(* StopsAll: the clean-up of a campaign finds the servers it may have left.   *)
LEMMA StopsAllMoves ==
  ASSUME CampaignInv, NEW c \in Campaigns, camp[c].exit = "none", camp[c].pc = "cleanup",
         NEW found,
         style[c] = "cloud" => "globus-gridftp-server" \in found,
         style[c] = "three" => {"globus-gridftp-server", "vsftpd", "iperf3"} \subseteq found,
         StopsAll(c, found)
  PROVE  Phase(c)
<1>1. /\ camp[c] \in CampStates /\ Tidy(style[c], camp[c]) /\ Backed(c, camp[c])
      /\ style[c] \in Styles
  BY DEF CampaignInv, CampOK
<1>2. CASE Abort(c) BY <1>2, AbortMoves
<1>3. CASE Set(c, [camp[c] EXCEPT !.helpers = @ \ found, !.pc = "remove"])
  <2> DEFINE helpers == camp[c].helpers \ found
             x == [camp[c] EXCEPT !.helpers = helpers, !.pc = "remove"]
  <2>1. helpers \in SUBSET Helpers /\ helpers \subseteq camp[c].helpers
    BY <1>1 DEF CampStates
  <2>2. helpers \subseteq {"iperf3-peer"}
    BY <1>1, <2>1 DEF Tidy, Styles, Helpers
  <2>3. x \in CampStates BY <1>1, <2>1 DEF CampStates, Phases
  <2>4. /\ x.pc = "remove" /\ x.helpers = helpers /\ x.wrapper = camp[c].wrapper
        /\ x.exit = "none" /\ x.bad = camp[c].bad /\ x.raised = camp[c].raised
        /\ x.source = camp[c].source
    BY <1>1 DEF CampStates
  <2> HIDE DEF x
  <2>5. Tidy(style[c], x) BY <1>1, <2>1, <2>2, <2>4 DEF Tidy
  <2>6. Backed(c, x) BY <1>1, <2>4 DEF Backed, Late
  <2>7. Set(c, x) BY <1>3 DEF x
  <2> QED BY <2>3, <2>5, <2>6, <2>7, BecomesPhase
<1> QED BY <1>2, <1>3 DEF StopsAll

(* Removes: no server is left that would keep userdel from its account.       *)
LEMMA RemovesMoves ==
  ASSUME CampaignInv, NEW c \in Campaigns, camp[c].exit = "none", camp[c].pc = "remove",
         NEW after, Removes(c, after)
  PROVE  Phase(c)
<1>1. /\ camp[c] \in CampStates /\ Tidy(style[c], camp[c]) /\ Backed(c, camp[c])
  BY DEF CampaignInv, CampOK
<1>2. CASE Abort(c) BY <1>2, AbortMoves
<1>3. CASE Set(c, [camp[c] EXCEPT !.account = AccountAfter(c), !.pc = "wrapper"])
  <2>1. PICK account \in BOOLEAN : account = AccountAfter(c) BY DEF AccountAfter
  <2> DEFINE x == [camp[c] EXCEPT !.account = account, !.pc = "wrapper"]
  <2>2. x \in CampStates BY <1>1 DEF CampStates, Phases
  <2>3. /\ x.pc = "wrapper" /\ x.helpers = camp[c].helpers /\ x.wrapper = camp[c].wrapper
        /\ x.exit = "none" /\ x.bad = camp[c].bad /\ x.raised = camp[c].raised
        /\ x.source = camp[c].source /\ x.account = account /\ x.created = camp[c].created
    BY <1>1 DEF CampStates
  <2>4. Set(c, x) BY <1>3, <2>1
  <2> HIDE DEF x
  <2>5. camp[c].helpers \subseteq {"iperf3-peer"} BY <1>1 DEF Tidy
  <2>6. ~(account /\ camp[c].created) BY <2>1, <2>5 DEF AccountAfter
  <2>7. Tidy(style[c], x) BY <1>1, <2>3, <2>5, <2>6 DEF Tidy
  <2>8. Backed(c, x) BY <1>1, <2>3 DEF Backed, Late
  <2> QED BY <2>2, <2>4, <2>7, <2>8, BecomesPhase
<1> QED BY <1>2, <1>3 DEF Removes

(* Takes: a disk proof with nothing wrong takes the file of its own matrix.   *)
LEMMA TakesMoves ==
  ASSUME DiskOK, CampaignInv, NEW c \in Campaigns, camp[c].exit = "none", camp[c].pc = "nested",
         NEW source \in Runs \cup {Absent}, NEW bad \in BOOLEAN,
         NEW next \in {"cleanup", "analyzer"}, Takes(c, source, bad, next),
         style[c] = "disk" /\ ~bad =>
           source = NestedRun[c] /\ run[NestedRun[c]].exit = "ok"
  PROVE  Phase(c)
<1>1. /\ camp[c] \in CampStates /\ Tidy(style[c], camp[c])
  BY DEF CampaignInv, CampOK
<1>2. RowsOf(source) \in Seq(Rows) BY DEF RowsOf, DiskOK
<1>3. PICK worse \in BOOLEAN : worse = (camp[c].bad \/ bad) OBVIOUS
<1> DEFINE rows == RowsOf(source)
<1> HIDE DEF rows
<1> DEFINE x == [camp[c] EXCEPT !.pc = next, !.source = source, !.rows = rows, !.bad = worse]
<1>4. Set(c, x) BY <1>3 DEF Takes, rows
<1>5. x \in CampStates BY <1>1, <1>2 DEF CampStates, Phases, rows
<1>6. /\ x.pc = next /\ x.helpers = camp[c].helpers /\ x.wrapper = camp[c].wrapper
      /\ x.exit = "none" /\ x.bad = worse /\ x.source = source
  BY <1>1 DEF CampStates
<1> HIDE DEF x
<1>7. Tidy(style[c], x) BY <1>1, <1>6 DEF Tidy
<1>8. Backed(c, x) BY <1>3, <1>6 DEF Backed
<1> QED BY <1>4, <1>5, <1>7, <1>8, BecomesPhase

(* Finish: an exception, or something wrong in a disk proof, never looks      *)
(* like a success.                                                            *)
LEMMA FinishMoves ==
  ASSUME CampaignInv, NEW c \in Campaigns, camp[c].exit = "none", camp[c].pc = "wrapper",
         NEW wrapper \in {"pass", "fail", "written"}, NEW exit \in {"ok", "fail"},
         Finish(c, wrapper, exit), style[c] = "disk" /\ exit = "ok" => ~camp[c].bad
  PROVE  Phase(c)
<1>1. /\ camp[c] \in CampStates /\ Tidy(style[c], camp[c]) /\ Backed(c, camp[c])
  BY DEF CampaignInv, CampOK
<1>2. PICK status \in {"ok", "fail", "crash"} :
        status = IF camp[c].raised THEN "crash" ELSE exit
  OBVIOUS
<1> DEFINE x == [camp[c] EXCEPT !.wrapper = wrapper, !.exit = status]
<1>3. Set(c, x) BY <1>2 DEF Finish
<1>4. x \in CampStates BY <1>1 DEF CampStates
<1>5. /\ x.pc = "wrapper" /\ x.helpers = camp[c].helpers /\ x.wrapper = wrapper
      /\ x.exit = status /\ x.bad = camp[c].bad /\ x.raised = camp[c].raised
      /\ x.source = camp[c].source /\ x.account = camp[c].account /\ x.created = camp[c].created
  BY <1>1 DEF CampStates
<1> HIDE DEF x
<1>6. Tidy(style[c], x) BY <1>1, <1>5 DEF Tidy
<1>7. Backed(c, x) BY <1>1, <1>2, <1>5 DEF Backed, Late
<1> QED BY <1>3, <1>4, <1>6, <1>7, BecomesPhase

-----------------------------------------------------------------------------
(* The steps of the campaigns                                                 *)

(* Everything else stays as it is, except files and the fault count.          *)
Calm == tool' = tool /\ run' = run /\ UNCHANGED processVars /\ disk' = disk

(* Together with what the step does to the matrices.                          *)
GoesOnward(c) == Phase(c) /\ style' = style /\ recent' = recent /\ Calm

(* StartMatrix, MatrixTimeout: the matrix of a campaign starts, or is killed. *)
LEMMA StartMatrixGoes ==
  ASSUME IInv, NEW c \in Campaigns, camp[c].exit = "none", camp[c].pc = "gridflux",
         NEW commands \in SUBSET CommandLines, StartMatrix(c, commands)
  PROVE  /\ Phase(c) /\ style' = style /\ recent' \in [Campaigns -> Runs \cup {Absent}]
         /\ MatrixInv' /\ ExitsStay
<1>1. MatrixInv /\ CampaignInv BY DEF IInv
<1>2. Phase(c) BY <1>1, PlainMoves DEF StartMatrix, Phases, Late
<1>3. NestedRun[c] \in Runs BY NestedAssumption
<1>4. MatrixInv' /\ ExitsStay BY <1>1, <1>3, StartupStep DEF StartMatrix
<1>5. style' = style /\ recent' \in [Campaigns -> Runs \cup {Absent}]
  BY <1>1 DEF StartMatrix, CampaignInv, CampOK
<1> QED BY <1>2, <1>4, <1>5

(* The timeout of subprocess.run kills the nested matrix and raises.          *)
LEMMA MatrixTimeoutGoes ==
  ASSUME IInv, NEW c \in Campaigns, MatrixTimeout(c)
  PROVE  /\ Phase(c) /\ style' = style /\ recent' \in [Campaigns -> Runs \cup {Absent}]
         /\ MatrixInv' /\ ExitsStay
<1>1. MatrixInv /\ CampaignInv BY DEF IInv
<1>2. Leave(c, camp[c]) /\ camp[c].pc = "nested" /\ camp[c].exit = "none" BY DEF MatrixTimeout
<1>3. Phase(c) BY <1>1, <1>2, PlainMoves DEF Phases, Late
<1>4. NestedRun[c] \in Runs BY NestedAssumption
<1>5. MatrixInv' /\ ExitsStay BY <1>1, <1>4, KilledStep DEF MatrixTimeout
<1>6. style' = style /\ recent' \in [Campaigns -> Runs \cup {Absent}]
  BY <1>1 DEF MatrixTimeout, CampaignInv, CampOK
<1> QED BY <1>3, <1>5, <1>6

(* The options of a campaign's matrix are among those that are checked.       *)
LEMMA Commands == /\ CloudSpecs \in SUBSET CommandLines
                  /\ ThreeWayCommands \in SUBSET CommandLines
                  /\ DiskSpecs \in SUBSET CommandLines
  BY SpecsAssumption

(* The cloud matrix *)
LEMMA CloudGoes ==
  ASSUME IInv, NEW c \in Campaigns, CloudStart(c) \/ CloudStep(c), ~CloudMatrix(c)
  PROVE  GoesOnward(c)
<1>1. /\ CampaignInv /\ DiskOK /\ RunsOK /\ style[c] = "cloud" /\ camp[c].exit = "none"
      /\ recent[c] \in Runs \cup {Absent} /\ NestedRun[c] \in Runs
  <2>1. CampaignInv /\ DiskOK /\ RunsOK BY DEF IInv, MatrixInv
  <2>2. In(c, "cloud", camp[c].pc)
    BY DEF CloudStart, CloudStep, CloudEnvironment, CloudIperf, CloudMeasure, CloudPeer,
       CloudMeasurePeer, CloudStorage, CloudChecksum, CloudInputs, CloudPreflight, CloudAccount,
       CloudDaemon, CloudNative, CloudBuild, CloudReturns, CloudStop, CloudRemove, CloudWrapper,
       In
  <2> QED BY <2>1, <2>2, NestedAssumption DEF In, CampaignInv, CampOK
<1> USE DEF In
<1>2. CASE CloudStart(c) \/ CloudPreflight(c)
  <2>1. Phase(c)
    BY <1>1, <1>2, PlainMoves DEF CloudStart, CloudPreflight, Phases, Late
  <2>2. Calm /\ style' = style /\ recent' = recent
    BY <1>2 DEF CloudStart, CloudPreflight, Quiet, QuietButFaults, Calm, matrixVars, processVars
  <2> QED BY <2>1, <2>2 DEF GoesOnward
<1>3. CASE CloudEnvironment(c) \/ CloudStorage(c) \/ CloudChecksum(c) \/ CloudInputs(c)
           \/ CloudBuild(c)
  <2>1. PICK next \in {"baseline", "checksum", "inputs", "native", "gridflux"} : Plain(c, next)
    BY <1>3 DEF CloudEnvironment, CloudStorage, CloudChecksum, CloudInputs, CloudBuild
  <2>2. camp[c].pc \notin {"iperf", "wrapper"}
    BY <1>3 DEF CloudEnvironment, CloudStorage, CloudChecksum, CloudInputs, CloudBuild
  <2>3. next \in Phases \ Late /\ next \in Phases \ {"remove", "wrapper"} BY DEF Phases, Late
  <2>4. Go(c, next) \/ Leave(c, camp[c]) BY <2>1 DEF Plain
  <2>5. Phase(c) BY <1>1, <2>2, <2>3, <2>4, PlainMoves
  <2> QED BY <2>1, <2>5 DEF Plain, GoesOnward, QuietButFaults, Calm
<1>4. CASE CloudIperf(c)
  <2>1. /\ StartHere(c, "iperf3", "iperf", "storage", FALSE) /\ camp[c].pc = "baseline"
        /\ "iperf" \in Phases \ Late /\ "storage" \in Phases \ Late /\ "iperf3" \in Helpers
        /\ camp[c].pc \notin Late \cup {"iperf"}
    BY <1>4 DEF CloudIperf, Phases, Late, Helpers
  <2>2. Fit(c, "iperf", camp[c].helpers \cup {"iperf3"})
    BY <1>1, <2>1, AtRest DEF Fit, Phases
  <2>3. Phase(c) BY <1>1, <2>1, <2>2, StartHereMoves
  <2> QED BY <2>1, <2>3 DEF StartHere, GoesOnward, QuietButFaults, Calm
<1>5. CASE CloudMeasure(c)
  <2>1. /\ StopsHere(c, "iperf3", "peer_start", FALSE) /\ camp[c].pc = "iperf"
        /\ "peer_start" \in Phases \ Late /\ "iperf3" \in Helpers /\ camp[c].pc \notin Late
    BY <1>5 DEF CloudMeasure, Phases, Late, Helpers
  <2>2. Tidy(style[c], camp[c]) BY <1>1 DEF CampaignInv
  <2>3. \A pc \in {"peer_start", "cleanup"} : Fit(c, pc, camp[c].helpers \ {"iperf3"})
    BY <1>1, <2>2 DEF Fit, Tidy
  <2>4. Phase(c) BY <1>1, <2>1, <2>3, StopsHereMoves
  <2> QED BY <2>1, <2>4 DEF StopsHere, GoesOnward, QuietButFaults, Calm
<1>6. CASE CloudPeer(c) \/ CloudMeasurePeer(c)
  <2>1. PICK next \in {"peer", "storage"} : StartPeer(c, next) \/ StopsPeer(c, next, FALSE)
    BY <1>6 DEF CloudPeer, CloudMeasurePeer
  <2>2. next \in Phases \ Late /\ camp[c].pc \notin Late \cup {"iperf"}
    BY <1>6 DEF CloudPeer, CloudMeasurePeer, Phases, Late
  <2>3. Phase(c) BY <1>1, <2>1, <2>2, PeerMoves
  <2> QED BY <2>1, <2>3 DEF StartPeer, StopsPeer, StopsHere, GoesOnward, QuietButFaults, Calm
<1>7. CASE CloudAccount(c)
  <2>1. /\ SetupAccount(c, "gridftp") /\ "gridftp" \in Phases \ Late
        /\ camp[c].pc \notin Late \cup {"iperf"}
    BY <1>7 DEF CloudAccount, Phases, Late
  <2>2. Phase(c) BY <1>1, <2>1, AccountMoves
  <2> QED BY <2>1, <2>2 DEF SetupAccount, GoesOnward, QuietButFaults, Calm
<1>8. CASE CloudDaemon(c)
  <2>1. /\ StartDaemon(c, "urlcopy", "build") /\ camp[c].pc \notin Late \cup {"iperf"}
        /\ "urlcopy" \in Phases \ Late /\ "build" \in Phases \ Late
    BY <1>8 DEF CloudDaemon, Phases, Late
  <2>2. Fit(c, "idle", camp[c].helpers \cup {"globus-gridftp-server"})
    BY <1>1, <2>1, AtRest DEF Fit, Phases
  <2>3. Phase(c) BY <1>1, <2>1, <2>2, DaemonMoves DEF StartDaemon
  <2> QED BY <2>1, <2>3 DEF StartDaemon, GoesOnward, QuietButFaults, Calm
<1>9. CASE CloudNative(c)
  <2>1. /\ MeasureTransfers(c, camp[c], "build") /\ camp[c].pc \notin Late \cup {"iperf"}
        /\ "build" \in Phases \ Late
    BY <1>9 DEF CloudNative, Phases, Late
  <2>2. Phase(c) BY <1>1, <2>1, MeasureMoves
  <2> QED BY <2>1, <2>2 DEF MeasureTransfers, GoesOnward, QuietButFaults, Calm
<1>10. CASE CloudReturns(c)
  <2>1. CloudCsv(c) \in Runs \cup {Absent} BY <1>1 DEF CloudCsv
  <2>2. PICK bad \in BOOLEAN : bad = (MatrixFailed(c) /\ CloudCsv(c) = Absent) OBVIOUS
  <2>3. Takes(c, CloudCsv(c), bad, "cleanup") BY <1>10, <2>2 DEF CloudReturns
  <2>4. Phase(c) BY <1>1, <1>10, <2>1, <2>3, TakesMoves DEF CloudReturns
  <2> QED BY <1>10, <2>4 DEF CloudReturns, GoesOnward, Quiet, Calm, matrixVars, processVars
<1>11. CASE CloudStop(c)
  <2>1. Phase(c) BY <1>1, <1>11, StopsAllMoves DEF CloudStop
  <2> QED BY <1>11, <2>1 DEF CloudStop, StopsAll, GoesOnward, QuietButFaults, Calm
<1>12. CASE CloudRemove(c)
  <2>1. Phase(c) BY <1>1, <1>12, RemovesMoves DEF CloudRemove
  <2> QED BY <1>12, <2>1 DEF CloudRemove, Removes, GoesOnward, Calm
<1>13. CASE CloudWrapper(c)
  <2>1. PICK wrapper \in {"pass", "fail"} : Finish(c, wrapper, "ok")
    BY <1>13 DEF CloudWrapper
  <2>2. Phase(c) BY <1>1, <1>13, <2>1, FinishMoves DEF CloudWrapper
  <2> QED BY <2>1, <2>2 DEF Finish, GoesOnward, Quiet, Calm, matrixVars, processVars
<1> QED BY <1>2, <1>3, <1>4, <1>5, <1>6, <1>7, <1>8, <1>9, <1>10, <1>11, <1>12, <1>13 DEF CloudStep

(* The three-way campaign *)
LEMMA ThreeWayGoes ==
  ASSUME IInv, NEW c \in Campaigns, ThreeWayStart(c) \/ ThreeWayStep(c), ~ThreeWayMatrix(c)
  PROVE  GoesOnward(c)
<1>1. /\ CampaignInv /\ DiskOK /\ RunsOK /\ style[c] = "three" /\ camp[c].exit = "none"
      /\ recent[c] \in Runs \cup {Absent} /\ NestedRun[c] \in Runs
  <2>1. CampaignInv /\ DiskOK /\ RunsOK BY DEF IInv, MatrixInv
  <2>2. In(c, "three", camp[c].pc)
    BY DEF ThreeWayStart, ThreeWayStep, ThreeWayEnvironment, ThreeWayIperf, ThreeWayMeasure,
       ThreeWayStorage, ThreeWayInputs, ThreeWayVsftpd, ThreeWayFtp, ThreeWayPreflight,
       ThreeWayAccount, ThreeWayDaemon, ThreeWayNative, ThreeWayBuild, ThreeWayReturns,
       ThreeWayStop, ThreeWayRemove, ThreeWayWrapper, In
  <2> QED BY <2>1, <2>2, NestedAssumption DEF In, CampaignInv, CampOK
<1> USE DEF In
<1>2. CASE ThreeWayStart(c) \/ ThreeWayPreflight(c)
  <2>1. Phase(c)
    BY <1>1, <1>2, PlainMoves DEF ThreeWayStart, ThreeWayPreflight, Phases, Late
  <2>2. Calm /\ style' = style /\ recent' = recent
    BY <1>2 DEF ThreeWayStart, ThreeWayPreflight, Quiet, QuietButFaults, Calm, matrixVars,
       processVars
  <2> QED BY <2>1, <2>2 DEF GoesOnward
<1>3. CASE ThreeWayEnvironment(c) \/ ThreeWayStorage(c) \/ ThreeWayInputs(c)
           \/ ThreeWayBuild(c)
  <2>1. PICK next \in {"baseline", "inputs", "plain", "gridflux"} : Plain(c, next)
    BY <1>3 DEF ThreeWayEnvironment, ThreeWayStorage, ThreeWayInputs, ThreeWayBuild
  <2>2. camp[c].pc \notin {"iperf", "wrapper"}
    BY <1>3 DEF ThreeWayEnvironment, ThreeWayStorage, ThreeWayInputs, ThreeWayBuild
  <2>3. next \in Phases \ Late /\ next \in Phases \ {"remove", "wrapper"} BY DEF Phases, Late
  <2>4. Go(c, next) \/ Leave(c, camp[c]) BY <2>1 DEF Plain
  <2>5. Phase(c) BY <1>1, <2>2, <2>3, <2>4, PlainMoves
  <2> QED BY <2>1, <2>5 DEF Plain, GoesOnward, QuietButFaults, Calm
<1>4. CASE ThreeWayIperf(c)
  <2>1. /\ StartHere(c, "iperf3", "iperf", "storage", FALSE) /\ camp[c].pc = "baseline"
        /\ "iperf" \in Phases \ Late /\ "storage" \in Phases \ Late /\ "iperf3" \in Helpers
        /\ camp[c].pc \notin Late \cup {"iperf"}
    BY <1>4 DEF ThreeWayIperf, Phases, Late, Helpers
  <2>2. Fit(c, "iperf", camp[c].helpers \cup {"iperf3"})
    BY <1>1, <2>1, AtRest DEF Fit, Phases
  <2>3. Phase(c) BY <1>1, <2>1, <2>2, StartHereMoves
  <2> QED BY <2>1, <2>3 DEF StartHere, GoesOnward, QuietButFaults, Calm
<1>5. CASE ThreeWayMeasure(c)
  <2>1. /\ StopsHere(c, "iperf3", "storage", FALSE) /\ camp[c].pc = "iperf"
        /\ "storage" \in Phases \ Late /\ "iperf3" \in Helpers /\ camp[c].pc \notin Late
    BY <1>5 DEF ThreeWayMeasure, Phases, Late, Helpers
  <2>2. Tidy(style[c], camp[c]) BY <1>1 DEF CampaignInv
  <2>3. \A pc \in {"storage", "cleanup"} : Fit(c, pc, camp[c].helpers \ {"iperf3"})
    BY <1>1, <2>2 DEF Fit, Tidy
  <2>4. Phase(c) BY <1>1, <2>1, <2>3, StopsHereMoves
  <2> QED BY <2>1, <2>4 DEF StopsHere, GoesOnward, QuietButFaults, Calm
<1>6. CASE ThreeWayVsftpd(c)
  <2>1. camp[c].pc \notin Late \cup {"iperf"} /\ {"ftp", "native"} \subseteq Phases \ Late
    BY <1>6 DEF ThreeWayVsftpd, Phases, Late
  <2>2. Fit(c, "idle", camp[c].helpers \cup {"vsftpd"})
    BY <1>1, <2>1, AtRest DEF Fit, Phases
  <2>3. Phase(c) BY <1>1, <1>6, <2>1, <2>2, DaemonMoves DEF ThreeWayVsftpd
  <2> QED BY <1>6, <2>3 DEF ThreeWayVsftpd, GoesOnward, QuietButFaults, Calm
<1>7. CASE ThreeWayAccount(c)
  <2>1. /\ SetupAccount(c, "gridftp") /\ "gridftp" \in Phases \ Late
        /\ camp[c].pc \notin Late \cup {"iperf"}
    BY <1>7 DEF ThreeWayAccount, Phases, Late
  <2>2. Phase(c) BY <1>1, <2>1, AccountMoves
  <2> QED BY <2>1, <2>2 DEF SetupAccount, GoesOnward, QuietButFaults, Calm
<1>8. CASE ThreeWayDaemon(c)
  <2>1. /\ StartDaemon(c, "urlcopy", "build") /\ camp[c].pc \notin Late \cup {"iperf"}
        /\ "urlcopy" \in Phases \ Late /\ "build" \in Phases \ Late
    BY <1>8 DEF ThreeWayDaemon, Phases, Late
  <2>2. Fit(c, "idle", camp[c].helpers \cup {"globus-gridftp-server"})
    BY <1>1, <2>1, AtRest DEF Fit, Phases
  <2>3. Phase(c) BY <1>1, <2>1, <2>2, DaemonMoves DEF StartDaemon
  <2> QED BY <2>1, <2>3 DEF StartDaemon, GoesOnward, QuietButFaults, Calm
<1>9. CASE ThreeWayNative(c) \/ ThreeWayFtp(c)
  <2>1. /\ camp[c].pc \notin Late \cup {"iperf"} /\ {"build", "native"} \subseteq Phases \ Late
    BY <1>9 DEF ThreeWayNative, ThreeWayFtp, Phases, Late
  <2>2. Phase(c) BY <1>1, <1>9, <2>1, MeasureMoves DEF ThreeWayNative, ThreeWayFtp
  <2> QED
    BY <1>9, <2>2
    DEF ThreeWayNative, ThreeWayFtp, MeasureTransfers, GoesOnward, QuietButFaults, Calm
<1>10. CASE ThreeWayReturns(c)
  <2>1. PICK bad \in BOOLEAN : bad = (MatrixFailed(c) /\ RowsOf(recent[c]) = <<>>) OBVIOUS
  <2>2. Takes(c, recent[c], bad, "cleanup") BY <1>10, <2>1 DEF ThreeWayReturns
  <2>3. Phase(c) BY <1>1, <1>10, <2>2, TakesMoves DEF ThreeWayReturns
  <2> QED BY <1>10, <2>3 DEF ThreeWayReturns, GoesOnward, Quiet, Calm, matrixVars, processVars
<1>11. CASE ThreeWayStop(c)
  <2>1. Phase(c) BY <1>1, <1>11, StopsAllMoves DEF ThreeWayStop
  <2> QED BY <1>11, <2>1 DEF ThreeWayStop, StopsAll, GoesOnward, QuietButFaults, Calm
<1>12. CASE ThreeWayRemove(c)
  <2>1. Phase(c) BY <1>1, <1>12, RemovesMoves DEF ThreeWayRemove
  <2> QED BY <1>12, <2>1 DEF ThreeWayRemove, Removes, GoesOnward, Calm
<1>13. CASE ThreeWayWrapper(c)
  <2>1. Phase(c) BY <1>1, <1>13, FinishMoves DEF ThreeWayWrapper
  <2> QED
    BY <1>13, <2>1 DEF ThreeWayWrapper, Finish, GoesOnward, Quiet, Calm, matrixVars, processVars
<1> QED
  BY <1>2, <1>3, <1>4, <1>5, <1>6, <1>7, <1>8, <1>9, <1>10, <1>11, <1>12, <1>13 DEF ThreeWayStep

(* The disk proof *)
LEMMA DiskGoes ==
  ASSUME IInv, NEW c \in Campaigns, DiskStart(c) \/ DiskStep(c), ~DiskMatrix(c)
  PROVE  GoesOnward(c)
<1>1. /\ CampaignInv /\ DiskOK /\ RunsOK /\ style[c] = "disk" /\ camp[c].exit = "none"
      /\ NestedRun[c] \in Runs
  <2>1. CampaignInv /\ DiskOK /\ RunsOK BY DEF IInv, MatrixInv
  <2>2. In(c, "disk", camp[c].pc)
    BY DEF DiskStart, DiskStep, DiskEnvironment, DiskIperf, DiskMeasure, DiskPeer,
       DiskMeasurePeer, DiskChecksum, DiskMemory, DiskStorage, DiskReturns, DiskAnalyzer,
       DiskPlotter, DiskStop, DiskRemove, DiskWrapper, In
  <2> QED BY <2>1, <2>2, NestedAssumption DEF In, CampaignInv, CampOK
<1> USE DEF In
<1>2. CASE DiskStart(c)
  <2>1. Phase(c) BY <1>1, <1>2, PlainMoves DEF DiskStart, Phases, Late
  <2> QED BY <1>2, <2>1 DEF DiskStart, Quiet, GoesOnward, Calm, matrixVars, processVars
<1>3. CASE DiskEnvironment(c) \/ DiskMemory(c) \/ DiskChecksum(c) \/ DiskStorage(c)
           \/ DiskAnalyzer(c) \/ DiskPlotter(c)
  <2>1. PICK next \in {"baseline", "memory", "storage", "gridflux", "plotter", "cleanup"} :
          /\ Plain(c, next) \/ Counted(c, next)
          /\ next \in {"plotter", "cleanup"} => camp[c].pc \in {"analyzer", "plotter"}
    BY <1>3 DEF DiskEnvironment, DiskMemory, DiskChecksum, DiskStorage, DiskAnalyzer, DiskPlotter
  <2>2. camp[c].pc \notin {"iperf", "wrapper"}
    BY <1>3 DEF DiskEnvironment, DiskMemory, DiskChecksum, DiskStorage, DiskAnalyzer, DiskPlotter
  <2>3. /\ next \in Phases \ {"remove", "wrapper"}
        /\ next \in Late => camp[c].pc \in Late
    BY <2>1 DEF Phases, Late
  <2>4. Go(c, next) \/ Failing(c, next) \/ Leave(c, camp[c]) BY <2>1 DEF Plain, Counted
  <2>5. Phase(c) BY <1>1, <2>2, <2>3, <2>4, PlainMoves
  <2> QED BY <2>1, <2>5 DEF Plain, Counted, GoesOnward, QuietButFaults, Calm
<1>4. CASE DiskIperf(c)
  <2>1. /\ StartHere(c, "iperf3", "iperf", "checksum", TRUE) /\ camp[c].pc = "baseline"
        /\ "iperf" \in Phases \ Late /\ "checksum" \in Phases \ Late /\ "iperf3" \in Helpers
        /\ camp[c].pc \notin Late \cup {"iperf"}
    BY <1>4 DEF DiskIperf, Phases, Late, Helpers
  <2>2. Fit(c, "iperf", camp[c].helpers \cup {"iperf3"})
    BY <1>1, <2>1, AtRest DEF Fit, Phases
  <2>3. Phase(c) BY <1>1, <2>1, <2>2, StartHereMoves
  <2> QED BY <2>1, <2>3 DEF StartHere, GoesOnward, QuietButFaults, Calm
<1>5. CASE DiskMeasure(c)
  <2>1. /\ StopsHere(c, "iperf3", "peer_start", TRUE) /\ camp[c].pc = "iperf"
        /\ "peer_start" \in Phases \ Late /\ "iperf3" \in Helpers /\ camp[c].pc \notin Late
    BY <1>5 DEF DiskMeasure, Phases, Late, Helpers
  <2>2. Tidy(style[c], camp[c]) BY <1>1 DEF CampaignInv
  <2>3. \A pc \in {"peer_start", "cleanup"} : Fit(c, pc, camp[c].helpers \ {"iperf3"})
    BY <1>1, <2>2 DEF Fit, Tidy
  <2>4. Phase(c) BY <1>1, <2>1, <2>3, StopsHereMoves
  <2> QED BY <2>1, <2>4 DEF StopsHere, GoesOnward, QuietButFaults, Calm
<1>6. CASE DiskPeer(c) \/ DiskMeasurePeer(c)
  <2>1. PICK next \in {"peer", "checksum"} : StartPeer(c, next) \/ StopsPeer(c, next, TRUE)
    BY <1>6 DEF DiskPeer, DiskMeasurePeer
  <2>2. next \in Phases \ Late /\ camp[c].pc \notin Late \cup {"iperf"}
    BY <1>6 DEF DiskPeer, DiskMeasurePeer, Phases, Late
  <2>3. Phase(c) BY <1>1, <2>1, <2>2, PeerMoves
  <2> QED BY <2>1, <2>3 DEF StartPeer, StopsPeer, StopsHere, GoesOnward, QuietButFaults, Calm
<1>7. CASE DiskReturns(c)
  <2>1. DiskCsv(c) \in Runs \cup {Absent} BY <1>1 DEF DiskCsv
  <2>2. PICK bad \in BOOLEAN : bad = MatrixFailed(c) BY DEF MatrixFailed
  <2>3. Takes(c, DiskCsv(c), bad, "analyzer") BY <1>7, <2>2 DEF DiskReturns, StepFailed
  <2>4. ~bad => DiskCsv(c) = NestedRun[c] /\ run[NestedRun[c]].exit = "ok"
    <3>1. ~bad => run[NestedRun[c]].exit = "ok" BY <2>2 DEF MatrixFailed
    <3>2. EndInv(NestedRun[c]) BY <1>1 DEF IInv, MatrixInv, RunInv
    <3> QED BY <3>1, <3>2 DEF EndInv, DiskCsv
  <2>5. Phase(c) BY <1>1, <1>7, <2>1, <2>3, <2>4, TakesMoves DEF DiskReturns
  <2> QED BY <1>7, <2>5 DEF DiskReturns, GoesOnward, Quiet, Calm, matrixVars, processVars
<1>8. CASE DiskStop(c)
  <2>1. Phase(c) BY <1>1, <1>8, StopsAllMoves DEF DiskStop
  <2> QED BY <1>8, <2>1 DEF DiskStop, StopsAll, GoesOnward, QuietButFaults, Calm
<1>9. CASE DiskRemove(c)
  <2>1. Phase(c) BY <1>1, <1>9, RemovesMoves DEF DiskRemove
  <2> QED BY <1>9, <2>1 DEF DiskRemove, Removes, GoesOnward, Calm
<1>10. CASE DiskWrapper(c)
  <2>1. PICK wrapper \in {"pass", "fail"}, exit \in {"ok", "fail"} :
          Finish(c, wrapper, exit) /\ (exit = "ok" => ~camp[c].bad)
    BY <1>10 DEF DiskWrapper
  <2>2. Phase(c) BY <1>1, <1>10, <2>1, FinishMoves DEF DiskWrapper
  <2> QED BY <2>1, <2>2 DEF Finish, GoesOnward, Quiet, Calm, matrixVars, processVars
<1> QED BY <1>2, <1>3, <1>4, <1>5, <1>6, <1>7, <1>8, <1>9, <1>10 DEF DiskStep

-----------------------------------------------------------------------------
(* The invariant                                                              *)

(* The step of one campaign, and those of the runs, keep what is known of all *)
(* campaigns.                                                                 *)
LEMMA CampaignsKeep ==
  ASSUME CampaignInv, camp' = camp \/ \E c \in Campaigns : Phase(c), style' = style,
         recent' \in [Campaigns -> Runs \cup {Absent}], ExitsStay
  PROVE  CampaignInv'
<1>1. /\ CampOK /\ \A d \in Campaigns : Tidy(style[d], camp[d]) /\ Backed(d, camp[d])
  BY DEF CampaignInv
<1>2. camp \in [Campaigns -> CampStates] BY <1>1 DEF CampOK
<1>3. /\ camp' \in [Campaigns -> CampStates]
      /\ \A d \in Campaigns : Tidy(style[d], camp'[d]) /\ Backed(d, camp'[d])
  <2>1. CASE camp' = camp BY <1>1, <1>2, <2>1
  <2>2. CASE \E c \in Campaigns : Phase(c)
    <3>1. PICK c \in Campaigns, x \in CampStates : /\ camp' = [camp EXCEPT ![c] = x]
                                 /\ Tidy(style[c], x) /\ Backed(c, x)
      BY <2>2 DEF Phase
    <3>2. camp'[c] = x /\ \A d \in Campaigns \ {c} : camp'[d] = camp[d]
      BY <1>2, <3>1
    <3> QED BY <1>1, <1>2, <3>1, <3>2
  <2> QED BY <2>1, <2>2
<1>4. CampOK' BY <1>1, <1>3 DEF CampOK
<1>5. ASSUME NEW d \in Campaigns PROVE Backed(d, camp[d])'
  <2>1. Backed(d, camp'[d]) BY <1>3
  <2>2. NestedRun[d] \in Runs BY NestedAssumption
  <2>3. run[NestedRun[d]].exit = "ok" => run'[NestedRun[d]].exit = "ok"
    BY <2>2 DEF ExitsStay
  <2> QED BY <2>1, <2>3 DEF Backed
<1>6. ASSUME NEW d \in Campaigns PROVE Tidy(style[d], camp[d])'
  BY <1>3 DEF Tidy
<1> QED BY <1>4, <1>5, <1>6 DEF CampaignInv

(* No run has been started, and no campaign.                                  *)
LEMMA InitInv == Init => IInv
<1> SUFFICES ASSUME Init PROVE IInv OBVIOUS
<1>1. MatrixInit BY DEF Init
<1>2. EmptyRun \in RunStates
  <2>1. <<>> \in Seq(Cases) /\ <<>> \in Seq(Rows) OBVIOUS
  <2> QED BY <2>1 DEF EmptyRun, RunStates, RunPcs, Attempts, Results
<1>3. \A r \in Runs : run[r] = EmptyRun /\ server[r] = "none" /\ client[r] = "none"
  BY <1>1 DEF MatrixInit
<1>4. RunsOK BY <1>1, <1>2 DEF RunsOK, MatrixInit
<1>5. DiskOK
  <2>1. EmptyDisk.csv \in Seq(Rows) BY DEF EmptyDisk
  <2> QED BY <1>1, <2>1 DEF DiskOK, MatrixInit, EmptyDisk
<1>6. PortInv /\ OrphanInv BY <1>1, MatrixAssumption DEF PortInv, OrphanInv, MatrixInit
<1>7. ASSUME NEW r \in Runs PROVE RunInv(r)
  <2>1. /\ run[r].pc = "idle" /\ run[r].plan = <<>> /\ run[r].next = 1 /\ run[r].rows = <<>>
        /\ ~run[r].aborted /\ run[r].result = "fail" /\ run[r].exit = "none"
    BY <1>3 DEF EmptyRun
  <2>2. disk[r].csv = <<>> /\ disk[r].summary = {} BY <1>1 DEF MatrixInit, EmptyDisk
  <2>3. PlaceInv(r) BY <1>3, <2>1 DEF PlaceInv, Serving
  <2>4. PassInv(r) BY <2>1 DEF PassInv, Trying
  <2>5. RowsInv(r) BY <2>1, <2>2, NoRows DEF RowsInv
  <2>6. EndInv(r) BY <2>1 DEF EndInv
  <2> QED BY <2>3, <2>4, <2>5, <2>6 DEF RunInv
<1>8. EmptyCampaign \in CampStates BY DEF EmptyCampaign, CampStates, Phases, Helpers
<1>9. CampOK BY <1>8 DEF Init, CampOK, Styles
<1>10. ASSUME NEW c \in Campaigns PROVE Tidy(style[c], camp[c]) /\ Backed(c, camp[c])
  <2>1. /\ camp[c].pc = "idle" /\ camp[c].wrapper = "none" /\ camp[c].helpers = {}
        /\ camp[c].exit = "none"
    BY DEF Init, EmptyCampaign
  <2> QED BY <2>1 DEF Tidy, Backed, Late
<1> QED BY <1>4, <1>5, <1>6, <1>7, <1>9, <1>10 DEF IInv, MatrixInv, CampaignInv

(* The runs, their servers and clients, by themselves.                        *)
LEMMA MatrixNext ==
  ASSUME MatrixInv,
         \/ \E r \in Runs : MatrixStep(r) \/ StartByHand(r) \/ Kill(r)
         \/ \E r \in Runs : ServerBinds(r) \/ ServerFails(r) \/ ClientEnds(r)
         \/ \E o \in orphans : OrphanEnds(o)
  PROVE  MatrixInv' /\ ExitsStay
<1>1. ASSUME NEW r \in Runs, MatrixStep(r) PROVE MatrixInv' /\ ExitsStay
  BY <1>1, RunStepKeeps DEF MatrixStep
<1>2. ASSUME NEW r \in Runs, StartByHand(r) PROVE MatrixInv' /\ ExitsStay
  <2>1. r \in Operator /\ At(r, "idle") /\ tool' = tool /\ UNCHANGED processVars
    BY <1>2 DEF StartByHand, Start
  <2>2. PICK args \in ArgsOf[r][tool[r]] : Startup(r, args)
    BY <1>2 DEF StartByHand, Start
  <2>3. tool[r] \in {"matrix", "tree"} BY DEF MatrixInv, RunsOK
  <2>4. ArgsOf[r] \in [{"matrix", "tree"} -> SUBSET CommandLines]
    BY <2>1, MatrixAssumption
  <2>5. args \in CommandLines BY <2>2, <2>3, <2>4
  <2> QED BY <2>1, <2>2, <2>5, StartupStep
<1>3. ASSUME NEW r \in Runs, Kill(r) PROVE MatrixInv' /\ ExitsStay
  BY <1>3, KilledStep DEF Kill
<1>4. ASSUME NEW o \in orphans, OrphanEnds(o) PROVE MatrixInv' /\ ExitsStay
  BY <1>4, MatrixStays DEF OrphanEnds
<1> QED BY <1>1, <1>2, <1>3, <1>4, ServerBindsStep, ServerFailsStep, ClientEndsStep

(* Every action preserves the inductive invariant.                            *)
LEMMA NextInv == IInv /\ [Next]_vars => IInv'
<1> SUFFICES ASSUME IInv, [Next]_vars PROVE IInv' OBVIOUS
<1>1. MatrixInv /\ CampaignInv BY DEF IInv
<1>2. /\ style \in [Campaigns -> Styles] /\ camp \in [Campaigns -> CampStates]
      /\ recent \in [Campaigns -> Runs \cup {Absent}]
  BY <1>1 DEF CampaignInv, CampOK
<1>3. CASE \/ \E r \in Runs : MatrixStep(r)
           \/ \E r \in Runs : (StartByHand(r) \/ Kill(r)) /\ UNCHANGED campaignVars
           \/ \E r \in Runs : (ServerBinds(r) \/ ServerFails(r) \/ ClientEnds(r))
                                 /\ UNCHANGED campaignVars
           \/ \E o \in orphans : OrphanEnds(o) /\ UNCHANGED campaignVars
  <2>1. MatrixInv' /\ ExitsStay BY <1>1, <1>3, MatrixNext
  <2>2. style' = style /\ camp' = camp BY <1>3 DEF MatrixStep, campaignVars
  <2>3. recent' \in [Campaigns -> Runs \cup {Absent}]
    BY <1>2, <1>3 DEF MatrixStep, Touches, campaignVars
  <2> QED BY <1>1, <2>1, <2>2, <2>3, CampaignsKeep DEF IInv
<1>4. ASSUME NEW c \in Campaigns, CampaignStart(c) \/ CampaignStep(c) PROVE IInv'
  <2>1. CASE MatrixTimeout(c)
    BY <1>1, <2>1, MatrixTimeoutGoes, CampaignsKeep DEF IInv
  <2>2. CASE CloudMatrix(c) \/ ThreeWayMatrix(c) \/ DiskMatrix(c)
    <3>1. PICK commands \in SUBSET CommandLines : StartMatrix(c, commands)
      BY <2>2, Commands DEF CloudMatrix, ThreeWayMatrix, DiskMatrix
    <3>2. camp[c].exit = "none" /\ camp[c].pc = "gridflux"
      BY <2>2 DEF CloudMatrix, ThreeWayMatrix, DiskMatrix, In
    <3> QED BY <1>1, <3>1, <3>2, StartMatrixGoes, CampaignsKeep DEF IInv
  <2>3. CASE GoesOnward(c)
    <3>1. MatrixInv' /\ ExitsStay
      BY <1>1, <2>3, MatrixStays DEF GoesOnward, Calm, processVars
    <3> QED BY <1>1, <1>2, <2>3, <3>1, CampaignsKeep DEF IInv, GoesOnward
  <2> QED
    BY <1>4, <2>1, <2>2, <2>3, CloudGoes, ThreeWayGoes, DiskGoes DEF CampaignStart, CampaignStep
<1>5. CASE UNCHANGED vars
  <2>1. MatrixInv' /\ ExitsStay
    BY <1>1, <1>5, MatrixStays DEF vars, matrixVars
  <2> QED BY <1>1, <1>2, <1>5, <2>1, CampaignsKeep DEF IInv, vars, campaignVars
<1> QED BY <1>3, <1>4, <1>5 DEF Next

(* Every state satisfies the inductive invariant: a run is in a case of its   *)
(* plan, its rows and files follow the cases it has taken, its client and its *)
(* server belong to that case, and a campaign has what its phase says.        *)
THEOREM SpecInv == Spec => []IInv
  BY InitInv, NextInv, PTL DEF Spec

-----------------------------------------------------------------------------
(* The summary of a CSV                                                       *)

(* summarize_rows counts every row once, and those that did not pass.         *)
THEOREM SummaryCounts ==
  ASSUME NEW rows \in Seq(Rows)
  PROVE  /\ RowCount(summarize_rows(rows)) = Len(rows)
         /\ FailCount(summarize_rows(rows))
              = Cardinality({i \in 1 .. Len(rows) : rows[i].result # "pass"})
<1> DEFINE G == summarize_rows(rows)
           group(key) == {i \in 1 .. Len(rows) : GroupKey(rows[i]) = key}
           failed(key) == {i \in group(key) : rows[i].result # "pass"}
           failing == {i \in 1 .. Len(rows) : rows[i].result # "pass"}
<1>1. Len(rows) \in Nat /\ DOMAIN rows = 1 .. Len(rows) OBVIOUS
<1>2. IsFiniteSet(1 .. Len(rows)) /\ Cardinality(1 .. Len(rows)) = Len(rows)
  BY <1>1, FS_Interval
<1>3. ASSUME NEW g \in G
      PROVE  /\ g.repeat_count = Cardinality(group(g.key))
             /\ g.fail_count = Cardinality(failed(g.key))
  <2>1. PICK key : g = [key |-> key, repeat_count |-> Cardinality(group(key)),
                        pass_count |-> Cardinality({i \in group(key) : rows[i].result = "pass"}),
                        fail_count |-> Cardinality(group(key))
                          - Cardinality({i \in group(key) : rows[i].result = "pass"})]
    BY <1>1 DEF summarize_rows
  <2>2. g.key = key /\ g.repeat_count = Cardinality(group(key)) BY <2>1
  <2>3. IsFiniteSet(group(key)) BY <1>2, FS_Subset
  <2> DEFINE passed == {i \in group(key) : rows[i].result = "pass"}
  <2>4. Cardinality(group(key) \ passed)
          = Cardinality(group(key)) - Cardinality(group(key) \cap passed)
    BY <2>3, FS_Difference
  <2>5. group(key) \ passed = failed(key) /\ group(key) \cap passed = passed OBVIOUS
  <2>6. g.fail_count = Cardinality(group(key)) - Cardinality(passed) BY <2>1
  <2> QED BY <2>2, <2>4, <2>5, <2>6
<1> DEFINE passed(key) == {i \in group(key) : rows[i].result = "pass"}
           line(key) == [key |-> key, repeat_count |-> Cardinality(group(key)),
                         pass_count |-> Cardinality(passed(key)),
                         fail_count |-> Cardinality(group(key)) - Cardinality(passed(key))]
<1>4. G = {line(key) : key \in {GroupKey(rows[i]) : i \in 1 .. Len(rows)}}
  BY <1>1 DEF summarize_rows
<1>5. \A key : line(key).key = key OBVIOUS
<1> HIDE DEF line
<1>6. ASSUME NEW i \in 1 .. Len(rows) PROVE \E g \in G : g.key = GroupKey(rows[i])
  <2>1. line(GroupKey(rows[i])) \in G BY <1>4
  <2> QED BY <2>1, <1>5
<1>7. ASSUME NEW g \in G, NEW h \in G, g.key = h.key PROVE g = h
  <2>1. PICK key : g = line(key) BY <1>4
  <2>2. PICK other : h = line(other) BY <1>4
  <2> QED BY <1>7, <1>5, <2>1, <2>2
<1> HIDE DEF G
<1>8. RowCount(G) = Len(rows)
  <2> DEFINE part == [g \in G |-> group(g.key)]
             size == [g \in G |-> g.repeat_count]
  <2>1. /\ DOMAIN size = G
        /\ \A g \in G : part[g] \in SUBSET (1 .. Len(rows)) /\ size[g] = Cardinality(part[g])
        /\ \A i \in 1 .. Len(rows) : \E g \in G : i \in part[g]
        /\ \A g, h \in G : \A i \in part[g] : i \in part[h] => g = h
    BY <1>3, <1>6, <1>7
  <2>2. RowCount(G) = Tally(size) BY DEF RowCount
  <2> HIDE DEF part, size
  <2>3. Tally(size) = Cardinality(1 .. Len(rows)) BY <1>2, <2>1, TallyOfParts
  <2> QED BY <1>2, <2>2, <2>3
<1>9. FailCount(G) = Cardinality(failing)
  <2> DEFINE part == [g \in G |-> failed(g.key)]
             size == [g \in G |-> g.fail_count]
  <2>1. /\ DOMAIN size = G
        /\ \A g \in G : part[g] \in SUBSET failing /\ size[g] = Cardinality(part[g])
        /\ \A i \in failing : \E g \in G : i \in part[g]
        /\ \A g, h \in G : \A i \in part[g] : i \in part[h] => g = h
    BY <1>3, <1>6, <1>7
  <2>2. FailCount(G) = Tally(size) BY DEF FailCount
  <2>3. IsFiniteSet(failing) BY <1>2, FS_Subset
  <2> HIDE DEF part, size, failing
  <2>4. Tally(size) = Cardinality(failing) BY <2>1, <2>3, TallyOfParts
  <2> QED BY <2>2, <2>4
<1> QED BY <1>8, <1>9 DEF G

-----------------------------------------------------------------------------
(* The properties                                                             *)

(* A row says "pass" only if a client of that very case ended well, and, for  *)
(* a resume case of the private matrix, after a first client that was cut     *)
(* short: not because of a file an earlier run, another run or an orphan has  *)
(* left under the same name (run_case, run_stor_resume, run_retr_resume).     *)
THEOREM PassMeansDeliveredHolds == Spec => []PassMeansDelivered
<1>1. IInv => PassMeansDelivered
  BY DEF IInv, MatrixInv, RunInv, PassInv, PassMeansDelivered
<1> QED BY <1>1, SpecInv, PTL

(* A server listens only while its case is under way, unless its run was      *)
(* killed or the server has outlived SIGKILL: whatever goes wrong in a case,  *)
(* the next one finds the machine without it (the finally of run_case).       *)
THEOREM NoServerForgottenHolds == Spec => []NoServerForgotten
<1>1. IInv => NoServerForgotten
  <2> SUFFICES ASSUME IInv, NEW p \in 0 .. PortLimit, port[p] # Absent, p \notin frozen
               PROVE  InCase(port[p]) /\ p = PortOf(port[p])
    BY DEF NoServerForgotten, IInv, MatrixInv, RunsOK
  <2>1. port[p] \in Runs BY DEF IInv, MatrixInv, RunsOK
  <2>2. server[port[p]] = "up" /\ p = PortOf(port[p])
    BY <2>1 DEF IInv, MatrixInv, PortInv
  <2>3. run[port[p]].pc \in Serving
    BY <2>1, <2>2 DEF IInv, MatrixInv, RunInv, PlaceInv
  <2> QED BY <2>2, <2>3 DEF InCase, Serving
<1> QED BY <1>1, SpecInv, PTL

(* A matrix that exits with 0 has a passing row for every case, in order, in  *)
(* its CSV, a summary that counts them all, and neither a server nor a client *)
(* of its own is left (main of both matrices).                                *)
THEOREM ExitZeroMeansAllHolds == Spec => []ExitZeroMeansAll
<1>1. ASSUME IInv, NEW r \in Runs, run[r].exit = "ok"
      PROVE  /\ Len(disk[r].csv) = Len(run[r].plan)
             /\ \A i \in DOMAIN run[r].plan : /\ disk[r].csv[i].case = run[r].plan[i]
                                              /\ disk[r].csv[i].result = "pass"
             /\ RowCount(disk[r].summary) = Len(run[r].plan) /\ FailCount(disk[r].summary) = 0
             /\ \A p \in DOMAIN port : port[p] # r
             /\ \A o \in orphans : o.run # r
  <2> USE <1>1
  <2>1. /\ RunsOK /\ OrphanInv /\ PlaceInv(r) /\ RowsInv(r) /\ EndInv(r)
    BY DEF IInv, MatrixInv, RunInv
  <2>2. run[r].rows \in Seq(Rows) /\ run[r].plan \in Seq(Cases) /\ run[r].next \in Nat
    BY <2>1 DEF RunsOK, RunStates
  <2>3. /\ run[r].pc = "teardown" /\ ~run[r].aborted /\ AllPass(r)
        /\ run[r].next = Len(run[r].plan) + 1
    BY <2>1, <2>2 DEF EndInv, PlaceInv
  <2>4. /\ Len(run[r].rows) = Len(run[r].plan)
        /\ disk[r].csv = run[r].rows /\ disk[r].summary = summarize_rows(run[r].rows)
        /\ \A i \in 1 .. Len(run[r].rows) : run[r].rows[i].case = run[r].plan[i]
    BY <2>1, <2>2, <2>3 DEF RowsInv
  <2>5. \A i \in 1 .. Len(run[r].rows) : run[r].rows[i].result = "pass"
    BY <2>2, <2>3 DEF AllPass
  <2>6. RowCount(disk[r].summary) = Len(run[r].plan) /\ FailCount(disk[r].summary) = 0
    <3>1. {i \in 1 .. Len(run[r].rows) : run[r].rows[i].result # "pass"} = {} BY <2>5
    <3> QED BY <2>2, <2>4, <3>1, SummaryCounts, FS_EmptySet
  <2>7. \A p \in DOMAIN port : port[p] # r BY <2>1, <2>3 DEF EndInv, RunsOK
  <2>8. ~Marked(r) BY <2>3, <2>5 DEF Marked
  <2>9. \A o \in orphans : o.run # r BY <2>1, <2>8 DEF OrphanInv
  <2> QED BY <2>2, <2>4, <2>5, <2>6, <2>7, <2>9, SMTT(30)
<1>2. IInv => ExitZeroMeansAll BY <1>1 DEF ExitZeroMeansAll
<1> QED BY <1>2, SpecInv, PTL

(* A disk proof that exits with 0 has read the CSV of its own matrix, and     *)
(* that matrix exited with 0: another run's file, a matrix that died or was   *)
(* killed, or one that lost a row never looks like a success.                 *)
THEOREM DiskProofIsBackedHolds == Spec => []DiskProofIsBacked
<1>1. IInv => DiskProofIsBacked
  BY DEF IInv, CampaignInv, Backed, Late, DiskProofIsBacked
<1> QED BY <1>1, SpecInv, PTL

(* Once the wrapper is written no server the campaign started on this machine *)
(* runs any more and no account it knows of is left, whichever phase raised   *)
(* (cleanup).                                                                 *)
THEOREM CleanedUpHolds == Spec => []CleanedUp
<1>1. IInv => CleanedUp
  BY DEF IInv, CampaignInv, Tidy, CleanedUp
<1> QED BY <1>1, SpecInv, PTL
=============================================================================
