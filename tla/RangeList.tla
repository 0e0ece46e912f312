------------------------------ MODULE RangeList ------------------------------
(***************************************************************************)
(* gridflux::core::chunk::RangeList: the sorted vector of completed byte   *)
(* ranges [begin, end) from which the receiver derives what is missing.    *)
(* Every resume decision rests on it: a byte it claims too much is never   *)
(* sent again, a byte it claims too little can never be recorded.          *)
(*                                                                         *)
(* Offsets and lengths are machine words of Word values (2^64 in the       *)
(* code), so that sums wrap the way std::uint64_t wraps.  `covered` is a   *)
(* history variable: the set of bytes the accepted calls named.            *)
(***************************************************************************)
EXTENDS Counting, Naturals, Sequences, SequencesExt

CONSTANTS
  Word,      \* number of values of an unsigned machine word
  TotalSize  \* the transfer's total_size, passed to every call

ASSUME WordAssumption == Word \in Nat /\ Word > 1
ASSUME TotalSizeAssumption == TotalSize \in 0 .. Word - 1

VARIABLES
  ranges,          \* ranges_: sequence of [begin, end] records
  bytesCompleted,  \* bytesCompleted_
  covered          \* history: bytes named by the accepted calls

vars == <<ranges, bytesCompleted, covered>>

Words == 0 .. Word - 1
Range2(b, e) == [begin |-> b, end |-> e]
Add(x, y) == (x + y) % Word
Sub(x, y) == (x + Word - y) % Word
Length(r) == Sub(r.end, r.begin)
Bytes(r) == r.begin .. r.end - 1

(* Fault variant: the bound is tested on the wrapped sum. *)
ValidOnWrappedSum(offset, length) ==
  length # 0 /\ Add(offset, length) <= TotalSize

(* validate: the second test is written without computing offset + length. *)
Valid(offset, length) ==
  /\ length # 0
  /\ offset <= TotalSize
  /\ length <= Sub(TotalSize, offset)

(* std::lower_bound: the first index whose begin (or end) is not below v. *)
LowerBound(s, field, v) ==
  CHOOSE i \in 1 .. Len(s) + 1 :
    /\ \A j \in 1 .. i - 1 : s[j][field] < v
    /\ i <= Len(s) => s[i][field] >= v

(* Fault variant: a range that only touches its neighbour is refused. *)
TouchCountsAsOverlap(offset, length) ==
  LET at == LowerBound(ranges, "begin", offset)
  IN \/ at > 1 /\ ranges[at - 1].end >= offset
     \/ at <= Len(ranges) /\ ranges[at].begin < Add(offset, length)

(* insert refuses a range that overlaps its predecessor or its successor. *)
OverlapsNeighbour(offset, length) ==
  LET at == LowerBound(ranges, "begin", offset)
  IN \/ at > 1 /\ ranges[at - 1].end > offset
     \/ at <= Len(ranges) /\ ranges[at].begin < Add(offset, length)

(* bytesCompleted_ once the lengths of the ranges of s were taken off, one    *)
(* after the other, and that of r was added.                                  *)
TotalLength(s) == Tally([i \in DOMAIN s |-> Length(s[i])])
Exchanged(s, r) == Add(Sub(bytesCompleted, TotalLength(s) % Word), Length(r))

(* insert, accepted: the neighbours that touch the incoming range are       *)
(* erased and their length taken off, the merged range is put in place.     *)
AcceptInsert(offset, length) ==
  LET at     == LowerBound(ranges, "begin", offset)
      end    == Add(offset, length)
      first  == IF at > 1 /\ ranges[at - 1].end = offset THEN at - 1 ELSE at
      last   == IF at <= Len(ranges) /\ ranges[at].begin = end THEN at ELSE at - 1
      merged == Range2(IF first < at THEN ranges[first].begin ELSE offset,
                       IF last = at THEN ranges[last].end ELSE end)
  IN /\ ranges' = SubSeq(ranges, 1, first - 1) \o <<merged>>
                    \o SubSeq(ranges, last + 1, Len(ranges))
     /\ bytesCompleted' = Exchanged(SubSeq(ranges, first, last), merged)

Insert(offset, length) ==
  /\ Valid(offset, length)
  /\ ~OverlapsNeighbour(offset, length)
  /\ AcceptInsert(offset, length)
  /\ covered' = covered \cup (offset .. offset + length - 1)

(* What the loop of merge has made of the range from offset to end once it    *)
(* has absorbed the ranges from first to last.                                *)
Absorbed(offset, end, first, last) ==
  Range2(Min({offset} \cup {ranges[i].begin : i \in first .. last}),
         Max({end} \cup {ranges[i].end : i \in first .. last}))

(* It goes on as long as a range begins at or before the end of what it has,  *)
(* and stops at the first that does not.                                      *)
LoopEnds(offset, end, first, last) ==
  /\ \A i \in first .. last : ranges[i].begin <= Absorbed(offset, end, first, i - 1).end
  /\ last < Len(ranges) => ranges[last + 1].begin > Absorbed(offset, end, first, last).end

Merge(offset, length) ==
  LET end    == Add(offset, length)
      first  == LowerBound(ranges, "end", offset)
      last   == CHOOSE i \in first - 1 .. Len(ranges) : LoopEnds(offset, end, first, i)
      merged == Absorbed(offset, end, first, last)
      kept   == SubSeq(ranges, 1, first - 1) \o SubSeq(ranges, last + 1, Len(ranges))
  IN /\ Valid(offset, length)
     /\ ranges' = InsertAt(kept, LowerBound(kept, "begin", merged.begin), merged)
     /\ bytesCompleted' = Exchanged(SubSeq(ranges, first, last), merged)
     /\ covered' = covered \cup (offset .. offset + length - 1)

Clear ==
  /\ ranges' = <<>>
  /\ bytesCompleted' = 0
  /\ covered' = {}

(* missingRanges goes through the ranges with `expected`, the end of what it  *)
(* has seen; the end of the transfer comes after the last one.                *)
Expected(i) == Max({0} \cup {ranges[j].end : j \in 1 .. i - 1})
NextBegin(i) == IF i <= Len(ranges) THEN ranges[i].begin ELSE TotalSize

(* Fault variant: the range after the last completed one is forgotten. *)
GapsWithoutTail == {i \in 1 .. Len(ranges) : NextBegin(i) > Expected(i)}

Gaps == {i \in 1 .. Len(ranges) + 1 : NextBegin(i) > Expected(i)}
MissingRanges ==
  [n \in 1 .. Cardinality(Gaps) |->
     LET i == Nth(Gaps, <, n) IN Range2(Expected(i), NextBegin(i))]

Init == ranges = <<>> /\ bytesCompleted = 0 /\ covered = {}

Next ==
  \/ \E offset, length \in Words : Insert(offset, length)
  \/ \E offset, length \in Words : Merge(offset, length)
  \/ Clear

Spec == Init /\ [][Next]_vars

-----------------------------------------------------------------------------
(* The list is the maximal runs of the bytes ever accepted, in order: no    *)
(* byte gained or lost by splitting, joining or wrapping (insert, merge),   *)
(* and neighbours never touch, so that lower_bound finds the only two       *)
(* ranges an insert could collide with.  bytesCompleted_, maintained by     *)
(* subtraction and addition only, is the number of distinct bytes covered:  *)
(* the verified_chunks shortcut compares it with total_size.                *)
RangesAreCoveredRuns ==
  /\ UNION {Bytes(ranges[i]) : i \in 1 .. Len(ranges)} = covered
  /\ \A i \in 1 .. Len(ranges) : ranges[i].begin < ranges[i].end
  /\ \A i \in 1 .. Len(ranges) - 1 : ranges[i].end < ranges[i + 1].begin
  /\ covered \subseteq 0 .. TotalSize - 1
  /\ bytesCompleted = Cardinality(covered)

(* What missingRanges asks the sender for is exactly the complement of what *)
(* is covered, and each requested range is non-empty.                       *)
MissingIsComplement ==
  /\ UNION {Bytes(MissingRanges[i]) : i \in 1 .. Len(MissingRanges)}
       = (0 .. TotalSize - 1) \ covered
  /\ \A i \in 1 .. Len(MissingRanges) : MissingRanges[i].begin < MissingRanges[i].end

(* The two-neighbour test of insert decides overlap exactly: it refuses a   *)
(* range if and only if some byte of it is covered already.  Refusing less  *)
(* would count bytes twice, refusing more would make a gap unfillable.      *)
NeighbourTestIsExact ==
  \A offset, length \in Words :
    Valid(offset, length) =>
      (OverlapsNeighbour(offset, length) <=>
         (offset .. offset + length - 1) \cap covered # {})
=============================================================================
