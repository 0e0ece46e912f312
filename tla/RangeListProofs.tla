-------------------------- MODULE RangeListProofs --------------------------
(***************************************************************************)
(* The properties of RangeList, for every word size and every total size.  *)
(*                                                                         *)
(* insert and merge both replace a stretch of neighbouring ranges by one   *)
(* range that covers their bytes and the incoming ones, and leave a gap on *)
(* both sides of it (Replaces, Joins).  What is left to show of each is    *)
(* which stretch it takes; the order of the list makes the two neighbours  *)
(* that insert looks at, and the loop of merge, find it.                   *)
(***************************************************************************)
EXTENDS RangeList, CountingProofs, SequenceTheorems, TLAPS

(* A pair of machine words.                                                   *)
ByteRange == [begin : Words, end : Words]

(* The ranges are in order, and neighbours neither overlap nor touch.         *)
Ordered ==
  /\ ranges \in Seq(ByteRange)
  /\ \A i \in 1 .. Len(ranges) : ranges[i].begin < ranges[i].end /\ ranges[i].end <= TotalSize
  /\ \A i, j \in 1 .. Len(ranges) : i < j => ranges[i].end < ranges[j].begin

(* The bytes that a list covers.                                              *)
BytesOf(s) == UNION {Bytes(s[i]) : i \in 1 .. Len(s)}

(* The inductive invariant: the order lets insert and merge find what they    *)
(* touch, and ties bytesCompleted_, a difference and sum of machine words, to *)
(* the bytes the list covers.                                                 *)
IInv ==
  /\ Ordered
  /\ covered = BytesOf(ranges)
  /\ bytesCompleted = Cardinality(covered)

-----------------------------------------------------------------------------
(* Machine words                                                              *)

(* What is left of a sum of two words.                                        *)
LEMMA Remainder ==
  ASSUME NEW x \in Nat
  PROVE  /\ x < Word => x % Word = x
         /\ Word <= x /\ x < 2 * Word => x % Word = x - Word
BY WordAssumption

(* A sum below Word is the sum.                                               *)
LEMMA AddFits ==
  ASSUME NEW x \in Nat, NEW y \in Nat, x + y < Word
  PROVE  Add(x, y) = x + y
BY Remainder DEF Add

(* A difference of words, the smaller from the larger, is the difference.     *)
LEMMA SubFits ==
  ASSUME NEW x \in Words, NEW y \in Words, y <= x
  PROVE  Sub(x, y) = x - y
<1>1. PICK z \in Nat : z = x - y BY DEF Words
<1>2. x + Word - y = z + Word /\ z < Word BY <1>1, WordAssumption DEF Words
<1>3. (z + Word) % Word = z BY <1>2, Remainder, WordAssumption
<1> QED BY <1>1, <1>2, <1>3 DEF Sub

(* validate accepts exactly the non-empty ranges that end within the file.    *)
LEMMA ValidMeans ==
  ASSUME NEW offset \in Words, NEW length \in Words
  PROVE  Valid(offset, length) <=>
           length > 0 /\ offset + length <= TotalSize
<1>1. TotalSize \in Words BY TotalSizeAssumption DEF Words
<1>2. offset <= TotalSize => Sub(TotalSize, offset) = TotalSize - offset BY <1>1, SubFits
<1> QED BY <1>1, <1>2 DEF Valid, Words

(* The range of an accepted call.                                             *)
LEMMA Incoming ==
  ASSUME NEW offset \in Words, NEW length \in Words, Valid(offset, length)
  PROVE  /\ Add(offset, length) = offset + length
         /\ offset + length \in Words /\ offset < offset + length
         /\ offset + length <= TotalSize
<1>1. length > 0 /\ offset + length <= TotalSize BY ValidMeans
<1>2. PICK end \in Nat : end = offset + length BY DEF Words
<1>3. end < Word BY <1>1, <1>2, TotalSizeAssumption, WordAssumption
<1>4. Add(offset, length) = end BY <1>2, <1>3, AddFits DEF Words
<1>5. end \in Words BY <1>3, WordAssumption DEF Words
<1>6. offset < end /\ end <= TotalSize BY <1>1, <1>2 DEF Words
<1> QED BY <1>2, <1>4, <1>5, <1>6

-----------------------------------------------------------------------------
(* std::lower_bound                                                           *)

(* In a list ordered by the field it splits the list at the value.            *)
LEMMA LowerBoundSplits ==
  ASSUME NEW s \in Seq(ByteRange), NEW field \in {"begin", "end"}, NEW v \in Nat,
         \A i, j \in 1 .. Len(s) : i < j => s[i][field] < s[j][field]
  PROVE  /\ LowerBound(s, field, v) \in 1 .. Len(s) + 1
         /\ \A j \in 1 .. Len(s) : j < LowerBound(s, field, v) <=> s[j][field] < v
<1> DEFINE T == {i \in 1 .. Len(s) + 1 : i <= Len(s) => s[i][field] >= v}
<1>1. \A i \in 1 .. Len(s) : s[i][field] \in Nat
  <2>1. \A r \in ByteRange : r.begin \in Nat /\ r.end \in Nat BY WordAssumption DEF ByteRange, Words
  <2> QED BY <2>1
<1>2. PICK at \in T : \A i \in T : at <= i
  <2>1. Len(s) + 1 \in T OBVIOUS
  <2>2. T \in SUBSET Nat OBVIOUS
  <2> QED BY <2>1, <2>2, LeastNat
<1>3. /\ at \in 1 .. Len(s) + 1
      /\ \A j \in 1 .. at - 1 : s[j][field] < v
      /\ at <= Len(s) => s[at][field] >= v
  BY <1>1, <1>2
<1>4. /\ LowerBound(s, field, v) \in 1 .. Len(s) + 1
      /\ \A j \in 1 .. LowerBound(s, field, v) - 1 : s[j][field] < v
      /\ LowerBound(s, field, v) <= Len(s) => s[LowerBound(s, field, v)][field] >= v
  BY <1>3 DEF LowerBound
<1>5. PICK lb : lb = LowerBound(s, field, v) OBVIOUS
<1>6. ASSUME NEW j \in 1 .. Len(s) PROVE j < lb <=> s[j][field] < v
  <2>1. CASE j < lb BY <1>4, <1>5, <2>1
  <2>2. CASE j = lb BY <1>1, <1>4, <1>5, <2>2
  <2>3. CASE lb < j
    <3>1. lb \in 1 .. Len(s) BY <1>4, <1>5, <2>3
    <3>2. s[lb][field] >= v /\ s[lb][field] < s[j][field] BY <1>4, <1>5, <2>3, <3>1
    <3> QED BY <1>1, <2>3, <3>1, <3>2
  <2> QED BY <1>4, <1>5, <2>1, <2>2, <2>3
<1> QED BY <1>4, <1>5, <1>6

-----------------------------------------------------------------------------
(* The bytes of a list                                                        *)

(* What the order of the list says of each range.                             *)
LEMMA RangeFacts ==
  ASSUME Ordered, NEW i \in 1 .. Len(ranges)
  PROVE  /\ ranges[i] \in ByteRange
         /\ ranges[i].begin \in Nat /\ ranges[i].end \in Nat
         /\ ranges[i].begin < ranges[i].end /\ ranges[i].end <= TotalSize
<1>1. ranges[i] \in ByteRange BY DEF Ordered
<1>2. \A r \in ByteRange : r.begin \in Nat /\ r.end \in Nat
  BY WordAssumption DEF ByteRange, Words
<1> QED BY <1>1, <1>2 DEF Ordered

(* The bytes of a range, one by one.                                          *)
LEMMA InBytes ==
  ASSUME Ordered, NEW i \in 1 .. Len(ranges), NEW p
  PROVE  p \in Bytes(ranges[i]) <=> p \in Nat /\ ranges[i].begin <= p /\ p < ranges[i].end
BY RangeFacts DEF Bytes

(* A byte is in one range at most.                                            *)
LEMMA OneRangePerByte ==
  ASSUME Ordered, NEW k \in 1 .. Len(ranges), NEW l \in 1 .. Len(ranges),
         NEW p, p \in Bytes(ranges[k]), p \in Bytes(ranges[l])
  PROVE  k = l
<1>1. /\ ranges[k].begin \in Nat /\ ranges[k].end \in Nat
      /\ ranges[l].begin \in Nat /\ ranges[l].end \in Nat
  BY RangeFacts
<1>2. /\ p \in Nat /\ ranges[k].begin <= p /\ p < ranges[k].end
      /\ ranges[l].begin <= p /\ p < ranges[l].end
  BY InBytes
<1>3. /\ k < l => ranges[k].end < ranges[l].begin
      /\ l < k => ranges[l].end < ranges[k].begin
  BY DEF Ordered
<1>4. Len(ranges) \in Nat BY DEF Ordered
<1> QED BY <1>1, <1>2, <1>3, <1>4

(* The length of a range of a file is the number of its bytes.                *)
LEMMA LengthIsSize ==
  ASSUME NEW r \in ByteRange, r.begin < r.end
  PROVE  IsFiniteSet(Bytes(r)) /\ Length(r) = Cardinality(Bytes(r))
<1>1. PICK b \in Words, e \in Words : b = r.begin /\ e = r.end BY DEF ByteRange
<1>2. Length(r) = e - b BY <1>1, SubFits DEF Length, Words
<1>3. PICK last \in Nat : last = e - 1 BY <1>1, WordAssumption DEF Words
<1>4. IsFiniteSet(b .. last) /\ Cardinality(b .. last) = IF b > last THEN 0 ELSE last - b + 1
  <2>1. b \in Int BY WordAssumption DEF Words
  <2> QED BY <1>3, <2>1, FS_Interval
<1>5. Bytes(r) = b .. last BY <1>1, <1>3 DEF Bytes
<1> QED BY <1>1, <1>2, <1>3, <1>4, <1>5 DEF Words

(* The bytes of the ranges from first to last.                                *)
Stretch(first, last) == UNION {Bytes(ranges[i]) : i \in first .. last}

(* The lengths that are taken off bytesCompleted_ are those of its bytes.     *)
LEMMA StretchIsTallied ==
  ASSUME Ordered, NEW first \in 1 .. Len(ranges) + 1, NEW last \in first - 1 .. Len(ranges)
  PROVE  /\ IsFiniteSet(Stretch(first, last))
         /\ TotalLength(SubSeq(ranges, first, last)) = Cardinality(Stretch(first, last))
<1> DEFINE s == SubSeq(ranges, first, last)
           count == [i \in DOMAIN s |-> Length(s[i])]
           part == [i \in DOMAIN s |-> Bytes(s[i])]
           S == Stretch(first, last)
<1>1. Len(ranges) \in Nat /\ ranges \in Seq(ByteRange) BY DEF Ordered
<1>2. \A i \in first .. last : i \in 1 .. Len(ranges) BY <1>1
<1>3. /\ DOMAIN s = 1 .. last - first + 1
      /\ \A i \in DOMAIN s : s[i] = ranges[i + first - 1] /\ i + first - 1 \in first .. last
  <2>1. \A i \in first .. last : ranges[i] \in ByteRange BY <1>2, RangeFacts
  <2>2. /\ s \in Seq(ByteRange) /\ Len(s) = IF first <= last THEN last - first + 1 ELSE 0
        /\ \A i \in 1 .. last - first + 1 : s[i] = ranges[first + i - 1]
    BY <1>1, <2>1, SubSeqProperties
  <2> QED BY <1>1, <2>2
<1>4. IsFiniteSet(S)
  <2>1. TotalSize \in Nat BY TotalSizeAssumption, WordAssumption
  <2>2. ASSUME NEW p \in S PROVE p \in Nat /\ p <= TotalSize
    <3>1. PICK i \in first .. last : p \in Bytes(ranges[i]) BY DEF Stretch
    <3> QED BY <1>2, <2>1, <3>1, RangeFacts DEF Bytes
  <2>3. S \in SUBSET Nat BY <2>2
  <2> HIDE DEF S
  <2> QED BY <2>1, <2>2, <2>3, FS_BoundedSetOfNaturals
<1>5. ASSUME NEW i \in DOMAIN s
      PROVE  part[i] \in SUBSET S /\ count[i] = Cardinality(part[i])
  <2>1. s[i] = ranges[i + first - 1] /\ i + first - 1 \in first .. last BY <1>3
  <2>2. Length(s[i]) = Cardinality(Bytes(s[i])) BY <1>2, <2>1, RangeFacts, LengthIsSize
  <2>3. Bytes(s[i]) \in SUBSET S BY <2>1 DEF Stretch
  <2> QED BY <2>2, <2>3
<1>6. ASSUME NEW p \in S PROVE \E i \in DOMAIN s : p \in part[i]
  <2>1. PICK j \in first .. last : p \in Bytes(ranges[j]) BY DEF Stretch
  <2>2. PICK i \in DOMAIN s : i + first - 1 = j
    <3>1. j - first + 1 \in DOMAIN s /\ (j - first + 1) + first - 1 = j BY <1>1, <1>3
    <3> QED BY <3>1
  <2> QED BY <1>3, <2>1, <2>2
<1>7. ASSUME NEW i \in DOMAIN s, NEW j \in DOMAIN s, NEW p \in part[i], p \in part[j]
      PROVE  i = j
  <2>1. PICK k \in 1 .. Len(ranges), l \in 1 .. Len(ranges) :
          k = i + first - 1 /\ l = j + first - 1
    BY <1>2, <1>3
  <2>2. p \in Bytes(ranges[k]) /\ p \in Bytes(ranges[l]) BY <1>3, <1>7, <2>1
  <2>3. k = l BY <2>2, OneRangePerByte
  <2> QED BY <1>1, <1>3, <2>1, <2>3
<1>8. Tally(count) = Cardinality(S)
  <2>1. DOMAIN count = DOMAIN s OBVIOUS
  <2> HIDE DEF s, S, count, part
  <2> QED BY <1>4, <1>5, <1>6, <1>7, <2>1, TallyOfParts
<1> QED BY <1>4, <1>8 DEF TotalLength

-----------------------------------------------------------------------------
(* Replacing a stretch of the list                                            *)

(* The list `new` has r in place of the ranges from first to last.            *)
Replaces(new, first, last, r) ==
  /\ new \in Seq(ByteRange)
  /\ Len(new) = Len(ranges) + first - last
  /\ \A i \in 1 .. Len(new) :
       new[i] = IF i < first THEN ranges[i]
                ELSE IF i = first THEN r ELSE ranges[i + last - first]

(* The range r joins the ranges from first to last and the incoming bytes:    *)
(* nothing is lost, nothing gained, and its neighbours do not touch it.       *)
Joins(r, first, last, incoming) ==
  /\ r \in ByteRange /\ r.begin < r.end /\ r.end <= TotalSize
  /\ Bytes(r) = incoming \cup Stretch(first, last)
  /\ \A i \in 1 .. first - 1 : ranges[i].end < r.begin
  /\ \A i \in last + 1 .. Len(ranges) : r.end < ranges[i].begin

(* The list stays in order.                                                   *)
LEMMA ReplacingKeepsOrder ==
  ASSUME Ordered, NEW first \in 1 .. Len(ranges) + 1, NEW last \in first - 1 .. Len(ranges),
         NEW r, NEW incoming, Joins(r, first, last, incoming),
         Replaces(ranges', first, last, r)
  PROVE  Ordered'
<1>1. Len(ranges) \in Nat BY DEF Ordered
<1>2. Len(ranges') \in Nat /\ Len(ranges') = Len(ranges) + first - last
  BY DEF Replaces
<1>3. r.begin \in Nat /\ r.end \in Nat
  BY WordAssumption DEF Joins, ByteRange, Words
<1>4. ASSUME NEW i \in 1 .. Len(ranges')
      PROVE  \/ /\ i < first /\ i \in 1 .. first - 1 /\ i \in 1 .. Len(ranges)
                /\ ranges'[i] = ranges[i]
             \/ i = first /\ ranges'[i] = r
             \/ /\ first < i /\ i + last - first \in last + 1 .. Len(ranges)
                /\ i + last - first \in 1 .. Len(ranges)
                /\ ranges'[i] = ranges[i + last - first]
  <2>1. ranges'[i] = IF i < first THEN ranges[i]
                     ELSE IF i = first THEN r ELSE ranges[i + last - first]
    BY DEF Replaces
  <2>2. CASE i < first BY <1>1, <2>1, <2>2
  <2>3. CASE i = first BY <2>1, <2>3
  <2>4. CASE first < i
    <3>1. i + last - first \in last + 1 .. Len(ranges) BY <1>1, <1>2, <2>4
    <3>2. i + last - first \in 1 .. Len(ranges) BY <1>1, <2>4, <3>1
    <3>3. ~(i < first) /\ i # first BY <1>1, <2>4
    <3> QED BY <2>1, <2>4, <3>1, <3>2, <3>3
  <2> QED BY <1>1, <2>2, <2>3, <2>4
<1>5. ASSUME NEW i \in 1 .. Len(ranges')
      PROVE  ranges'[i].begin < ranges'[i].end /\ ranges'[i].end <= TotalSize
  BY <1>4, RangeFacts DEF Joins
<1>6. ASSUME NEW i \in 1 .. Len(ranges'), NEW j \in 1 .. Len(ranges'), i < j
      PROVE  ranges'[i].end < ranges'[j].begin
  <2>1. CASE i < first /\ j < first BY <1>4, <1>6, <2>1 DEF Ordered
  <2>2. CASE i < first /\ j = first BY <1>4, <1>6, <2>2 DEF Joins
  <2>3. CASE i < first /\ first < j
    <3>1. PICK k \in 1 .. Len(ranges) : k = j + last - first /\ ranges'[j] = ranges[k] /\ last < k
      BY <1>1, <1>4, <2>3
    <3>2. i \in 1 .. Len(ranges) /\ ranges'[i] = ranges[i] BY <1>4, <2>3
    <3>3. i < k BY <1>1, <2>3, <3>1
    <3> QED BY <3>1, <3>2, <3>3 DEF Ordered
  <2>4. CASE i = first /\ first < j
    <3>1. PICK l \in last + 1 .. Len(ranges) : ranges'[j] = ranges[l]
      BY <1>1, <1>4, <2>4
    <3>2. ranges'[i] = r BY <1>1, <1>4, <2>4
    <3> QED BY <3>1, <3>2 DEF Joins
  <2>5. CASE first < i /\ first < j
    <3>1. PICK k \in 1 .. Len(ranges) : k = i + last - first /\ ranges'[i] = ranges[k]
      BY <1>4, <2>5
    <3>2. PICK l \in 1 .. Len(ranges) : l = j + last - first /\ ranges'[j] = ranges[l]
      BY <1>4, <2>5
    <3>3. k < l BY <1>1, <1>6, <3>1, <3>2
    <3> QED BY <3>1, <3>2, <3>3 DEF Ordered
  <2> QED BY <1>1, <1>2, <1>6, <2>1, <2>2, <2>3, <2>4, <2>5
<1> QED BY <1>5, <1>6 DEF Ordered, Replaces

(* The bytes of the new list.                                                 *)
LEMMA ReplacingAddsBytes ==
  ASSUME Ordered, NEW first \in 1 .. Len(ranges) + 1, NEW last \in first - 1 .. Len(ranges),
         NEW r, NEW incoming, Joins(r, first, last, incoming),
         NEW new, Replaces(new, first, last, r)
  PROVE  BytesOf(new) = BytesOf(ranges) \cup incoming
<1>1. Len(ranges) \in Nat /\ Len(new) \in Nat /\ Len(new) = Len(ranges) + first - last
  BY DEF Ordered, Replaces
<1>2. Bytes(r) = incoming \cup Stretch(first, last) BY DEF Joins
<1>3. ASSUME NEW p, NEW i \in 1 .. Len(new), p \in Bytes(new[i])
      PROVE  p \in incoming \/ \E k \in 1 .. Len(ranges) : p \in Bytes(ranges[k])
  <2>1. CASE i < first
    <3>1. i \in 1 .. Len(ranges) /\ new[i] = ranges[i] BY <1>1, <2>1 DEF Replaces
    <3> QED BY <1>3, <3>1
  <2>2. CASE i = first
    <3>1. p \in incoming \cup Stretch(first, last) BY <1>2, <1>3, <2>2 DEF Replaces
    <3>2. \A k \in first .. last : k \in 1 .. Len(ranges) BY <1>1
    <3> QED BY <3>1, <3>2 DEF Stretch
  <2>3. CASE first < i
    <3>1. i + last - first \in 1 .. Len(ranges) /\ new[i] = ranges[i + last - first]
      BY <1>1, <2>3 DEF Replaces
    <3> QED BY <1>3, <3>1
  <2> QED BY <1>1, <2>1, <2>2, <2>3
<1>4. first \in 1 .. Len(new) /\ new[first] = r BY <1>1 DEF Replaces
<1>5. ASSUME NEW p \in incoming PROVE \E i \in 1 .. Len(new) : p \in Bytes(new[i])
  BY <1>2, <1>4
<1>6. ASSUME NEW k \in 1 .. Len(ranges), NEW p \in Bytes(ranges[k])
      PROVE  \E i \in 1 .. Len(new) : p \in Bytes(new[i])
  <2>1. CASE k < first
    <3>1. k \in 1 .. Len(new) /\ new[k] = ranges[k] BY <1>1, <2>1 DEF Replaces
    <3> QED BY <3>1
  <2>2. CASE first <= k /\ k <= last
    <3>1. p \in Bytes(r) BY <1>1, <1>2, <2>2 DEF Stretch
    <3> QED BY <1>4, <3>1
  <2>3. CASE last < k
    <3>1. PICK i \in 1 .. Len(new) : i = k - last + first BY <1>1, <2>3
    <3>2. first < i /\ i + last - first = k BY <1>1, <2>3, <3>1
    <3>3. new[i] = ranges[k] BY <1>1, <3>2, SMTT(30) DEF Replaces
    <3> QED BY <3>1, <3>3
  <2>4. k < first \/ (first <= k /\ k <= last) \/ last < k BY <1>1
  <2> QED BY <2>1, <2>2, <2>3, <2>4
<1>7. BytesOf(new) \in SUBSET (BytesOf(ranges) \cup incoming) BY <1>3 DEF BytesOf
<1>8. BytesOf(ranges) \in SUBSET BytesOf(new) BY <1>6 DEF BytesOf
<1>9. incoming \in SUBSET BytesOf(new) BY <1>5 DEF BytesOf
<1> QED BY <1>7, <1>8, <1>9

(* A list covers bytes of the file, a finite number of them.                  *)
LEMMA BytesAreOfTheFile ==
  ASSUME Ordered
  PROVE  /\ BytesOf(ranges) \in SUBSET (0 .. TotalSize - 1)
         /\ IsFiniteSet(BytesOf(ranges))
<1>1. ASSUME NEW p \in BytesOf(ranges) PROVE p \in 0 .. TotalSize - 1
  <2>1. PICK i \in 1 .. Len(ranges) : p \in Bytes(ranges[i]) BY DEF BytesOf
  <2> QED BY <2>1, RangeFacts, TotalSizeAssumption, WordAssumption DEF Bytes
<1>2. IsFiniteSet(0 .. TotalSize - 1)
  <2>1. PICK n \in Int : n = TotalSize - 1 BY TotalSizeAssumption, WordAssumption
  <2> QED BY <2>1, FS_Interval
<1> QED BY <1>1, <1>2, FS_Subset

(* bytesCompleted_ after the lengths were exchanged is the number of bytes    *)
(* covered: the stretch and the rest are disjoint, and no sum of lengths can  *)
(* wrap because all of them are bytes of the file.                            *)
LEMMA ExchangingCounts ==
  ASSUME IInv, NEW first \in 1 .. Len(ranges) + 1, NEW last \in first - 1 .. Len(ranges),
         NEW r, NEW incoming, Joins(r, first, last, incoming)
  PROVE  Exchanged(SubSeq(ranges, first, last), r) = Cardinality(covered \cup incoming)
<1> DEFINE F == 0 .. TotalSize - 1
           E == Stretch(first, last)
           B == Bytes(r)
           K == covered \ E
           C == covered \cup incoming
<1> USE DEF IInv
<1>1. /\ TotalSize \in Nat /\ TotalSize < Word /\ Word \in Nat
      /\ IsFiniteSet(F) /\ Cardinality(F) = TotalSize
  <2>1. TotalSize \in Nat /\ TotalSize < Word /\ Word \in Nat
    BY TotalSizeAssumption, WordAssumption
  <2>2. PICK z \in Int, n \in Int : z = 0 /\ n = TotalSize - 1 BY <2>1
  <2>3. IsFiniteSet(z .. n) /\ Cardinality(z .. n) = IF z > n THEN 0 ELSE n - z + 1
    BY FS_Interval
  <2> QED BY <2>1, <2>2, <2>3
<1>2. covered \in SUBSET F /\ IsFiniteSet(covered) BY BytesAreOfTheFile
<1>3. Len(ranges) \in Nat BY DEF Ordered
<1>4. E \in SUBSET covered
  <2>1. \A i \in first .. last : i \in 1 .. Len(ranges) BY <1>3
  <2> QED BY <2>1 DEF Stretch, BytesOf
<1>5. B = incoming \cup E /\ r \in ByteRange /\ r.begin < r.end BY DEF Joins
<1>6. IsFiniteSet(B) /\ Length(r) = Cardinality(B) BY <1>5, LengthIsSize
<1>7. B \in SUBSET F
  <2>1. r.begin \in Nat /\ r.end \in Nat /\ r.end <= TotalSize
    BY WordAssumption DEF Joins, ByteRange, Words
  <2> QED BY <1>1, <2>1 DEF Bytes
<1>8. K \cap B = {}
  <2> SUFFICES ASSUME NEW p \in K, p \in B PROVE FALSE OBVIOUS
  <2>1. PICK k \in 1 .. Len(ranges) : p \in Bytes(ranges[k]) BY DEF BytesOf
  <2>2. k \notin first .. last BY <2>1 DEF Stretch
  <2>3. k \in 1 .. first - 1 \/ k \in last + 1 .. Len(ranges) BY <1>3, <2>2
  <2>4. ranges[k].end < r.begin \/ r.end < ranges[k].begin BY <2>3 DEF Joins
  <2>5. p \in Nat /\ ranges[k].begin <= p /\ p < ranges[k].end BY <2>1, InBytes
  <2>6. r.begin \in Nat /\ r.end \in Nat /\ r.begin <= p /\ p < r.end
    BY WordAssumption DEF Joins, ByteRange, Words, Bytes
  <2>7. ranges[k].begin \in Nat /\ ranges[k].end \in Nat BY RangeFacts
  <2> QED BY <2>4, <2>5, <2>6, <2>7, SMTT(30)
<1>9. C = K \cup B BY <1>4, <1>5
<1>10. TotalLength(SubSeq(ranges, first, last)) = Cardinality(E) BY StretchIsTallied
<1>11. bytesCompleted = Cardinality(covered) OBVIOUS
<1> HIDE DEF F, E, B, K, C, IInv
<1>12. /\ IsFiniteSet(E) /\ IsFiniteSet(K)
       /\ Cardinality(E) \in Nat /\ Cardinality(E) <= Cardinality(covered)
       /\ Cardinality(K) = Cardinality(covered) - Cardinality(E)
  <2>1. IsFiniteSet(E) /\ Cardinality(E) <= Cardinality(covered) BY <1>2, <1>4, FS_Subset
  <2>2. covered \cap E = E BY <1>4
  <2>3. IsFiniteSet(K) /\ Cardinality(K) = Cardinality(covered) - Cardinality(E)
    BY <1>2, <2>2, FS_Difference, ZenonT(40) DEF K
  <2> QED BY <2>1, <2>3, FS_CardinalityType
<1>13. /\ Cardinality(covered) \in Nat /\ Cardinality(covered) <= TotalSize
       /\ Cardinality(C) \in Nat /\ Cardinality(C) <= TotalSize
  <2>1. C \in SUBSET F BY <1>2, <1>7, <1>9, <1>12 DEF K
  <2> QED BY <1>1, <1>2, <2>1, FS_Subset, FS_CardinalityType
<1>14. Cardinality(C) = Cardinality(K) + Cardinality(B) /\ Cardinality(B) \in Nat
  <2>1. Cardinality(K \cup B) = Cardinality(K) + Cardinality(B) - Cardinality(K \cap B)
    BY <1>6, <1>12, FS_Union
  <2>2. Cardinality(K \cap B) = 0 BY <1>8, FS_EmptySet
  <2>3. Cardinality(K) \in Nat /\ Cardinality(B) \in Nat BY <1>6, <1>12, FS_CardinalityType
  <2> QED BY <1>9, <2>1, <2>2, <2>3
<1>15. PICK c \in Nat : c = Cardinality(covered) BY <1>13
<1>16. PICK e \in Nat : e = Cardinality(E) BY <1>12
<1>17. PICK b \in Nat : b = Cardinality(B) BY <1>14
<1>18. PICK d \in Nat : d = Cardinality(C) BY <1>13
<1>19. e <= c /\ c < Word /\ d = (c - e) + b /\ d < Word
  <2>1. e <= c /\ d = (c - e) + b BY <1>12, <1>14, <1>15, <1>16, <1>17, <1>18
  <2>2. c < Word /\ d < Word BY <1>1, <1>13, <1>15, <1>18
  <2> QED BY <2>1, <2>2
<1>20. e % Word = e BY <1>19, <1>1, Remainder
<1>21. Sub(c, e) = c - e
  <2>1. c \in Words /\ e \in Words BY <1>1, <1>19 DEF Words
  <2> QED BY <1>19, <2>1, SubFits
<1>22. Add(c - e, b) = d
  <2>1. PICK k \in Nat : k = c - e BY <1>19
  <2> QED BY <1>19, <2>1, AddFits
<1>23. Exchanged(SubSeq(ranges, first, last), r) = Add(Sub(c, e % Word), b)
  BY <1>6, <1>10, <1>11, <1>15, <1>16, <1>17 DEF Exchanged
<1> QED BY <1>18, <1>20, <1>21, <1>22, <1>23 DEF C

(* A call that replaces a stretch this way keeps the invariant.               *)
LEMMA JoiningKeepsIInv ==
  ASSUME IInv, NEW first \in 1 .. Len(ranges) + 1, NEW last \in first - 1 .. Len(ranges),
         NEW r, NEW incoming, Joins(r, first, last, incoming),
         Replaces(ranges', first, last, r),
         bytesCompleted' = Exchanged(SubSeq(ranges, first, last), r),
         covered' = covered \cup incoming
  PROVE  IInv'
<1>1. Ordered' BY ReplacingKeepsOrder DEF IInv
<1>2. BytesOf(ranges') = BytesOf(ranges) \cup incoming BY ReplacingAddsBytes DEF IInv
<1>3. covered' = BytesOf(ranges') BY <1>2 DEF IInv
<1>4. bytesCompleted' = Cardinality(covered') BY ExchangingCounts
<1> QED BY <1>1, <1>3, <1>4 DEF IInv, BytesOf

(* A part of a list.                                                          *)
LEMMA PartOf ==
  ASSUME NEW s \in Seq(ByteRange), NEW m \in 1 .. Len(s) + 1, NEW n \in m - 1 .. Len(s)
  PROVE  /\ SubSeq(s, m, n) \in Seq(ByteRange)
         /\ Len(SubSeq(s, m, n)) = n - m + 1
         /\ \A i \in 1 .. n - m + 1 : SubSeq(s, m, n)[i] = s[m + i - 1]
<1>1. \A i \in m .. n : s[i] \in ByteRange OBVIOUS
<1> QED BY <1>1, SubSeqProperties

(* The parts of a list, put together around the new range.                    *)
LEMMA Spliced ==
  ASSUME Ordered, NEW first \in 1 .. Len(ranges) + 1, NEW last \in first - 1 .. Len(ranges),
         NEW r \in ByteRange, NEW left \in Seq(ByteRange), NEW right \in Seq(ByteRange),
         Len(left) = first - 1, \A i \in 1 .. first - 1 : left[i] = ranges[i],
         Len(right) = Len(ranges) - last,
         \A i \in 1 .. Len(ranges) - last : right[i] = ranges[last + i]
  PROVE  Replaces(left \o <<r>> \o right, first, last, r)
<1> DEFINE l == left \o <<r>>
           new == l \o right
<1>1. Len(ranges) \in Nat BY DEF Ordered
<1>2. /\ l \in Seq(ByteRange) /\ Len(l) = first
      /\ \A i \in 1 .. first : l[i] = IF i < first THEN ranges[i] ELSE r
  <2>1. <<r>> \in Seq(ByteRange) /\ Len(<<r>>) = 1 /\ <<r>>[1] = r OBVIOUS
  <2>2. /\ l \in Seq(ByteRange) /\ Len(l) = Len(left) + Len(<<r>>)
        /\ \A i \in 1 .. Len(left) + Len(<<r>>) :
             l[i] = IF i <= Len(left) THEN left[i] ELSE <<r>>[i - Len(left)]
    BY <2>1, ConcatProperties
  <2>3. ASSUME NEW i \in 1 .. first PROVE l[i] = IF i < first THEN ranges[i] ELSE r
    <3>1. CASE i < first BY <1>1, <2>1, <2>2, <3>1
    <3>2. CASE i = first
      <4>1. i - Len(left) = 1 BY <1>1, <3>2
      <4> QED BY <1>1, <2>1, <2>2, <3>2, <4>1
    <3> QED BY <1>1, <3>1, <3>2
  <2> QED BY <1>1, <2>1, <2>2, <2>3
<1> HIDE DEF l
<1>3. /\ new \in Seq(ByteRange) /\ Len(new) = Len(l) + Len(right)
      /\ \A i \in 1 .. Len(l) + Len(right) :
           new[i] = IF i <= Len(l) THEN l[i] ELSE right[i - Len(l)]
  BY <1>2, ConcatProperties
<1> HIDE DEF new
<1>4. Len(new) = Len(ranges) + first - last /\ Len(new) \in Nat BY <1>1, <1>2, <1>3
<1>5. ASSUME NEW i \in 1 .. Len(new)
      PROVE  new[i] = IF i < first THEN ranges[i]
                      ELSE IF i = first THEN r ELSE ranges[i + last - first]
  <2>0. i \in Nat /\ 1 <= i /\ i <= Len(ranges) + first - last /\ i \in 1 .. Len(l) + Len(right)
    BY <1>3, <1>4
  <2>1. CASE i <= first
    <3>1. new[i] = l[i] BY <1>2, <1>3, <2>0, <2>1
    <3>2. i \in 1 .. first BY <2>0, <2>1
    <3>3. l[i] = IF i < first THEN ranges[i] ELSE r BY <1>2, <3>2
    <3>4. ~(i < first) => i = first BY <2>0, <2>1
    <3> QED BY <3>1, <3>3, <3>4
  <2>2. CASE first < i
    <3>1. PICK j \in 1 .. Len(ranges) - last : j = i - first
      <4>1. i - first \in 1 .. Len(ranges) - last BY <1>1, <2>0, <2>2
      <4> QED BY <4>1
    <3>2. new[i] = right[j]
      <4>1. ~(i <= Len(l)) /\ i - Len(l) = j BY <1>2, <2>0, <2>2, <3>1
      <4> QED BY <1>3, <2>0, <4>1
    <3>3. right[j] = ranges[i + last - first]
      <4>1. right[j] = ranges[last + j] BY <1>1
      <4>2. i \in Int /\ first \in Int /\ last \in Int BY <2>0
      <4>3. last + j = i + last - first BY <3>1, <4>2
      <4> QED BY <4>1, <4>3
    <3>4. ~(i < first) /\ i # first BY <2>2
    <3> QED BY <3>2, <3>3, <3>4
  <2> QED BY <1>1, <1>4, <2>1, <2>2
<1>6. Replaces(new, first, last, r) BY <1>3, <1>4, <1>5 DEF Replaces
<1> QED BY <1>6 DEF new, l

-----------------------------------------------------------------------------
(* insert                                                                     *)

(* Both fields grow along the list.                                           *)
LEMMA FieldsIncrease ==
  ASSUME Ordered, NEW i \in 1 .. Len(ranges), NEW j \in 1 .. Len(ranges), i < j
  PROVE  ranges[i].begin < ranges[j].begin /\ ranges[i].end < ranges[j].end
<1>1. ranges[i].end < ranges[j].begin BY DEF Ordered
<1> QED BY <1>1, RangeFacts

(* What lower_bound finds in the list of ranges, by their beginnings ...      *)
LEMMA BoundOfBegins ==
  ASSUME Ordered, NEW v \in Nat
  PROVE  /\ LowerBound(ranges, "begin", v) \in 1 .. Len(ranges) + 1
         /\ \A j \in 1 .. Len(ranges) :
              j < LowerBound(ranges, "begin", v) <=> ranges[j].begin < v
<1>1. \A i, j \in 1 .. Len(ranges) : i < j => ranges[i]["begin"] < ranges[j]["begin"]
  BY FieldsIncrease
<1>2. ranges \in Seq(ByteRange) BY DEF Ordered
<1> QED BY <1>1, <1>2, LowerBoundSplits

(* ... and by their ends.                                                     *)
LEMMA BoundOfEnds ==
  ASSUME Ordered, NEW v \in Nat
  PROVE  /\ LowerBound(ranges, "end", v) \in 1 .. Len(ranges) + 1
         /\ \A j \in 1 .. Len(ranges) :
              j < LowerBound(ranges, "end", v) <=> ranges[j].end < v
<1>1. \A i, j \in 1 .. Len(ranges) : i < j => ranges[i]["end"] < ranges[j]["end"]
  BY FieldsIncrease
<1>2. ranges \in Seq(ByteRange) BY DEF Ordered
<1> QED BY <1>1, <1>2, LowerBoundSplits

(* What insert computes for a range that it accepts.                          *)
InsertChooses(offset, length, at, end, first, last, merged) ==
  /\ Valid(offset, length)
  /\ ~OverlapsNeighbour(offset, length)
  /\ at = LowerBound(ranges, "begin", offset)
  /\ end = Add(offset, length)
  /\ first = IF at > 1 /\ ranges[at - 1].end = offset THEN at - 1 ELSE at
  /\ last = IF at <= Len(ranges) /\ ranges[at].begin = end THEN at ELSE at - 1
  /\ merged = Range2(IF first < at THEN ranges[first].begin ELSE offset,
                     IF last = at THEN ranges[last].end ELSE end)

(* The two neighbours joined with an incoming range that they do not overlap. *)
LEMMA InsertJoins ==
  ASSUME Ordered, NEW offset \in Words, NEW length \in Words,
         NEW at, NEW end, NEW first, NEW last, NEW merged,
         InsertChooses(offset, length, at, end, first, last, merged)
  PROVE  /\ first \in 1 .. Len(ranges) + 1 /\ last \in first - 1 .. Len(ranges)
         /\ Joins(merged, first, last, offset .. offset + length - 1)
<1>1. Len(ranges) \in Nat BY DEF Ordered
<1>2. /\ offset \in Nat /\ length \in Nat /\ TotalSize \in Nat
      /\ end \in Words /\ end \in Nat /\ end = offset + length
      /\ offset < end /\ end <= TotalSize
  BY Incoming, WordAssumption, TotalSizeAssumption DEF Words, InsertChooses
<1>3. /\ at \in 1 .. Len(ranges) + 1
      /\ \A j \in 1 .. Len(ranges) : j < at <=> ranges[j].begin < offset
  BY <1>2, BoundOfBegins DEF InsertChooses
<1>4. /\ at > 1 => ranges[at - 1].end <= offset
      /\ at <= Len(ranges) => end <= ranges[at].begin
  <2>1. at > 1 => ~(ranges[at - 1].end > offset) BY DEF OverlapsNeighbour, InsertChooses
  <2>2. at <= Len(ranges) => ~(ranges[at].begin < end) BY DEF OverlapsNeighbour, InsertChooses
  <2>3. at > 1 => at - 1 \in 1 .. Len(ranges) BY <1>1, <1>3
  <2>4. at <= Len(ranges) => at \in 1 .. Len(ranges) BY <1>1, <1>3
  <2> QED BY <1>2, <2>1, <2>2, <2>3, <2>4, RangeFacts
<1>5. /\ first < at => /\ first = at - 1 /\ first \in 1 .. Len(ranges)
                        /\ ranges[first].end = offset
      /\ ~(first < at) => first = at /\ (at > 1 => ranges[at - 1].end # offset)
  BY <1>1, <1>3 DEF InsertChooses
<1>6. /\ last = at => at \in 1 .. Len(ranges) /\ ranges[at].begin = end
      /\ last # at => last = at - 1 /\ (at <= Len(ranges) => ranges[at].begin # end)
  BY <1>1, <1>3 DEF InsertChooses
<1>7. first \in 1 .. Len(ranges) + 1 /\ last \in first - 1 .. Len(ranges)
  BY <1>1, <1>3, <1>5, <1>6
<1>8. /\ merged.begin \in Words /\ merged.begin \in Nat /\ merged.begin <= offset
      /\ first < at => merged.begin = ranges[first].begin
      /\ ~(first < at) => merged.begin = offset
  <2>1. CASE first < at
    <3>1. merged.begin = ranges[first].begin BY <2>1 DEF Range2, InsertChooses
    <3>2. ranges[first].begin \in Words BY <1>5, <2>1, RangeFacts DEF ByteRange
    <3> QED BY <1>2, <1>5, <2>1, <3>1, <3>2, RangeFacts
  <2>2. CASE ~(first < at) BY <1>2, <2>2 DEF Range2, InsertChooses
  <2> QED BY <2>1, <2>2
<1>9. /\ merged.end \in Words /\ merged.end \in Nat
      /\ end <= merged.end /\ merged.end <= TotalSize
      /\ last = at => merged.end = ranges[last].end
      /\ last # at => merged.end = end
  <2>1. CASE last = at
    <3>1. merged.end = ranges[last].end BY <2>1 DEF Range2, InsertChooses
    <3>2. ranges[last].end \in Words BY <1>6, <2>1, RangeFacts DEF ByteRange
    <3> QED BY <1>2, <1>6, <2>1, <3>1, <3>2, RangeFacts
  <2>2. CASE last # at BY <1>2, <2>2 DEF Range2, InsertChooses
  <2> QED BY <2>1, <2>2
<1>10. merged \in ByteRange /\ merged.begin < merged.end
  BY <1>2, <1>8, <1>9 DEF ByteRange, Range2, InsertChooses
<1>11. ASSUME NEW i \in 1 .. first - 1 PROVE ranges[i].end < merged.begin
  <2>1. i \in 1 .. Len(ranges) /\ i < at BY <1>1, <1>3, <1>7, <1>5
  <2>2. CASE first < at BY <1>5, <1>8, <2>1, <2>2 DEF Ordered
  <2>3. CASE ~(first < at) /\ i = at - 1
    <3>1. at > 1 BY <1>3, <2>1, <2>3
    <3>2. ranges[at - 1].end <= offset /\ ranges[at - 1].end # offset BY <1>4, <1>5, <2>3, <3>1
    <3>3. ranges[i].end \in Nat /\ ranges[i].end < offset BY <1>2, <2>1, <2>3, <3>2, RangeFacts
    <3> QED BY <1>8, <2>3, <3>3
  <2>4. CASE ~(first < at) /\ i < at - 1
    <3>1. at - 1 \in 1 .. Len(ranges) BY <1>1, <1>3, <2>1
    <3>2. ranges[i].end < ranges[at - 1].end BY <2>4, <3>1, <2>1, FieldsIncrease
    <3>3. at > 1 BY <1>3, <2>1, <2>4
    <3>4. ranges[at - 1].end <= offset BY <1>4, <3>3
    <3>5. ranges[i].end \in Nat /\ ranges[at - 1].end \in Nat BY <2>1, <3>1, RangeFacts
    <3> QED BY <1>2, <1>8, <2>4, <3>2, <3>4, <3>5
  <2> QED BY <1>3, <2>1, <2>2, <2>3, <2>4
<1>12. ASSUME NEW i \in last + 1 .. Len(ranges) PROVE merged.end < ranges[i].begin
  <2>1. i \in 1 .. Len(ranges) /\ at <= i BY <1>1, <1>3, <1>7, <1>6
  <2>2. CASE last = at BY <1>3, <1>6, <1>9, <2>1, <2>2 DEF Ordered
  <2>3. CASE last # at /\ i = at BY <1>2, <1>4, <1>6, <1>9, <2>1, <2>3, RangeFacts
  <2>4. CASE last # at /\ at < i
    <3>1. at \in 1 .. Len(ranges) BY <1>1, <1>3, <2>1
    <3>2. ranges[at].begin < ranges[i].begin BY <2>4, <3>1, <2>1, FieldsIncrease
    <3> QED BY <1>2, <1>4, <1>9, <2>1, <2>4, <3>1, <3>2, RangeFacts
  <2> QED BY <1>3, <2>1, <2>2, <2>3, <2>4
<1>13. ASSUME NEW p \in Bytes(merged)
       PROVE  p \in (offset .. offset + length - 1) \cup Stretch(first, last)
  <2>1. p \in Nat /\ merged.begin <= p /\ p < merged.end BY <1>8, <1>9 DEF Bytes
  <2>2. CASE p < offset
    <3>1. first < at BY <1>8, <2>1, <2>2
    <3>2. p \in Bytes(ranges[first]) BY <1>5, <1>8, <2>1, <2>2, <3>1, InBytes
    <3>3. first \in first .. last BY <1>3, <1>5, <1>6, <3>1
    <3> QED BY <3>2, <3>3 DEF Stretch
  <2>3. CASE end <= p
    <3>1. last = at BY <1>2, <1>9, <2>1, <2>3
    <3>2. p \in Bytes(ranges[last]) BY <1>6, <1>9, <2>1, <2>3, <3>1, InBytes
    <3>3. last \in first .. last BY <1>3, <1>5, <1>6, <3>1
    <3> QED BY <3>2, <3>3 DEF Stretch
  <2>4. CASE offset <= p /\ p < end BY <1>2, <2>1, <2>4
  <2> QED BY <1>2, <2>1, <2>2, <2>3, <2>4
<1>14. ASSUME NEW p \in offset .. offset + length - 1 PROVE p \in Bytes(merged)
  BY <1>2, <1>8, <1>9 DEF Bytes
<1>15. ASSUME NEW p \in Stretch(first, last) PROVE p \in Bytes(merged)
  <2>1. PICK i \in first .. last : p \in Bytes(ranges[i]) BY DEF Stretch
  <2>2. i \in 1 .. Len(ranges) BY <1>1, <1>7
  <2>3. p \in Nat /\ ranges[i].begin <= p /\ p < ranges[i].end BY <2>1, <2>2, InBytes
  <2>4. (i = at - 1 /\ first < at /\ i = first) \/ (i = at /\ last = at)
    BY <1>1, <1>3, <1>5, <1>6
  <2>5. merged.begin <= p /\ p < merged.end
    <3>1. CASE i = at - 1 /\ first < at /\ i = first
      BY <1>2, <1>5, <1>8, <1>9, <2>2, <2>3, <3>1, RangeFacts
    <3>2. CASE i = at /\ last = at
      BY <1>2, <1>6, <1>8, <1>9, <2>2, <2>3, <3>2, RangeFacts
    <3> QED BY <2>4, <3>1, <3>2
  <2> QED BY <1>8, <1>9, <2>3, <2>5 DEF Bytes
<1>16. Bytes(merged) = (offset .. offset + length - 1) \cup Stretch(first, last)
  <2>1. Bytes(merged) \in SUBSET ((offset .. offset + length - 1) \cup Stretch(first, last))
    BY <1>13
  <2>2. (offset .. offset + length - 1) \in SUBSET Bytes(merged) BY <1>14
  <2>3. Stretch(first, last) \in SUBSET Bytes(merged) BY <1>15
  <2> QED BY <2>1, <2>2, <2>3
<1> QED BY <1>7, <1>9, <1>10, <1>11, <1>12, <1>16 DEF Joins

(* insert keeps the invariant.                                                *)
LEMMA InsertKeepsIInv ==
  ASSUME IInv, NEW offset \in Words, NEW length \in Words, Insert(offset, length)
  PROVE  IInv'
<1>1. PICK at : at = LowerBound(ranges, "begin", offset) OBVIOUS
<1>2. PICK end : end = Add(offset, length) OBVIOUS
<1>3. PICK first : first = IF at > 1 /\ ranges[at - 1].end = offset THEN at - 1 ELSE at OBVIOUS
<1>4. PICK last : last = IF at <= Len(ranges) /\ ranges[at].begin = end THEN at ELSE at - 1
  OBVIOUS
<1>5. PICK merged : merged = Range2(IF first < at THEN ranges[first].begin ELSE offset,
                                    IF last = at THEN ranges[last].end ELSE end)
  OBVIOUS
<1>6. InsertChooses(offset, length, at, end, first, last, merged)
  BY <1>1, <1>2, <1>3, <1>4, <1>5 DEF InsertChooses, Insert
<1>7. /\ first \in 1 .. Len(ranges) + 1 /\ last \in first - 1 .. Len(ranges)
      /\ Joins(merged, first, last, offset .. offset + length - 1)
  BY <1>6, InsertJoins DEF IInv
<1>8. /\ ranges' = SubSeq(ranges, 1, first - 1) \o <<merged>>
                     \o SubSeq(ranges, last + 1, Len(ranges))
      /\ bytesCompleted' = Exchanged(SubSeq(ranges, first, last), merged)
      /\ covered' = covered \cup (offset .. offset + length - 1)
  BY <1>1, <1>2, <1>3, <1>4, <1>5 DEF Insert, AcceptInsert
<1>9. Replaces(ranges', first, last, merged)
  <2> DEFINE left == SubSeq(ranges, 1, first - 1)
             right == SubSeq(ranges, last + 1, Len(ranges))
  <2>1. ranges \in Seq(ByteRange) /\ Len(ranges) \in Nat /\ Ordered BY DEF IInv, Ordered
  <2>2. /\ left \in Seq(ByteRange) /\ Len(left) = first - 1
        /\ \A i \in 1 .. first - 1 : left[i] = ranges[i]
    <3>1. PICK m \in 1 .. Len(ranges) + 1 : m = 1 BY <2>1
    <3>2. PICK n \in m - 1 .. Len(ranges) : n = first - 1 BY <1>7, <2>1, <3>1
    <3>3. /\ SubSeq(ranges, m, n) \in Seq(ByteRange)
          /\ Len(SubSeq(ranges, m, n)) = n - m + 1
          /\ \A i \in 1 .. n - m + 1 : SubSeq(ranges, m, n)[i] = ranges[m + i - 1]
      BY <2>1, PartOf
    <3> QED BY <1>7, <2>1, <3>1, <3>2, <3>3
  <2>3. /\ right \in Seq(ByteRange) /\ Len(right) = Len(ranges) - last
        /\ \A i \in 1 .. Len(ranges) - last : right[i] = ranges[last + i]
    <3>1. PICK m \in 1 .. Len(ranges) + 1 : m = last + 1 BY <1>7, <2>1
    <3>2. PICK n \in m - 1 .. Len(ranges) : n = Len(ranges) BY <1>7, <2>1, <3>1
    <3>3. /\ SubSeq(ranges, m, n) \in Seq(ByteRange)
          /\ Len(SubSeq(ranges, m, n)) = n - m + 1
          /\ \A i \in 1 .. n - m + 1 : SubSeq(ranges, m, n)[i] = ranges[m + i - 1]
      BY <2>1, PartOf
    <3> QED BY <1>7, <2>1, <3>1, <3>2, <3>3
  <2>4. merged \in ByteRange BY <1>7 DEF Joins
  <2> HIDE DEF left, right
  <2>5. Replaces(left \o <<merged>> \o right, first, last, merged)
    BY <1>7, <2>1, <2>2, <2>3, <2>4, Spliced
  <2> QED BY <1>8, <2>5 DEF left, right
<1> QED BY <1>7, <1>8, <1>9, JoiningKeepsIInv

-----------------------------------------------------------------------------
(* merge                                                                      *)

(* The largest of a set of numbers is the one that no other exceeds.          *)
LEMMA MaxIs ==
  ASSUME NEW S \in SUBSET Nat, NEW m \in S, \A y \in S : y <= m
  PROVE  Max(S) = m
<1>1. Max(S) \in S /\ \A y \in S : Max(S) >= y
  <2>1. \A y \in S : m >= y OBVIOUS
  <2> QED BY <2>1 DEF Max
<1>2. PICK x \in Nat : x = Max(S) BY <1>1
<1> QED BY <1>1, <1>2

(* The smallest is the one that exceeds no other.                             *)
LEMMA MinIs ==
  ASSUME NEW S \in SUBSET Nat, NEW m \in S, \A y \in S : m <= y
  PROVE  Min(S) = m
<1>1. Min(S) \in S /\ \A y \in S : Min(S) <= y BY DEF Min
<1>2. PICK x \in Nat : x = Min(S) BY <1>1
<1> QED BY <1>1, <1>2

(* What merge has absorbed is told by the first and the last range it took.   *)
LEMMA AbsorbedIs ==
  ASSUME Ordered, NEW offset \in Nat, NEW end \in Nat,
         NEW first \in 1 .. Len(ranges) + 1, NEW k \in first - 1 .. Len(ranges)
  PROVE  /\ k < first => Absorbed(offset, end, first, k) = Range2(offset, end)
         /\ first <= k =>
              Absorbed(offset, end, first, k)
                = Range2(IF ranges[first].begin < offset THEN ranges[first].begin ELSE offset,
                         IF end < ranges[k].end THEN ranges[k].end ELSE end)
<1> DEFINE Begins == {offset} \cup {ranges[i].begin : i \in first .. k}
           Ends == {end} \cup {ranges[i].end : i \in first .. k}
<1>1. Len(ranges) \in Nat BY DEF Ordered
<1>2. \A i \in first .. k : i \in 1 .. Len(ranges) BY <1>1
<1>3. Begins \in SUBSET Nat /\ Ends \in SUBSET Nat BY <1>2, RangeFacts
<1>4. Absorbed(offset, end, first, k) = Range2(Min(Begins), Max(Ends)) BY DEF Absorbed
<1>5. CASE k < first
  <2>1. first .. k = {} BY <1>1, <1>5
  <2>2. Begins = {offset} /\ Ends = {end} BY <2>1
  <2> HIDE DEF Begins, Ends
  <2>3. Min(Begins) = offset BY <1>3, <2>2, MinIs
  <2>4. Max(Ends) = end BY <1>3, <2>2, MaxIs
  <2> QED BY <1>1, <1>4, <1>5, <2>3, <2>4
<1>6. CASE first <= k
  <2>1. PICK b \in Nat, e \in Nat : b = ranges[first].begin /\ e = ranges[k].end
    BY <1>1, <1>2, <1>6, RangeFacts
  <2>2. ASSUME NEW i \in first .. k
        PROVE  /\ ranges[i].begin \in Nat /\ b <= ranges[i].begin
               /\ ranges[i].end \in Nat /\ ranges[i].end <= e
    <3>1. i \in 1 .. Len(ranges) /\ first \in 1 .. Len(ranges) /\ k \in 1 .. Len(ranges)
      BY <1>1, <1>2, <1>6
    <3>2. ranges[i].begin \in Nat /\ ranges[i].end \in Nat BY <3>1, RangeFacts
    <3>3. i = first \/ first < i BY <1>1
    <3>4. i = k \/ i < k BY <1>1
    <3>5. b <= ranges[i].begin BY <2>1, <3>1, <3>2, <3>3, FieldsIncrease
    <3>6. ranges[i].end <= e BY <2>1, <3>1, <3>2, <3>4, FieldsIncrease
    <3> QED BY <3>2, <3>5, <3>6
  <2>3. PICK m \in Nat : m = IF b < offset THEN b ELSE offset OBVIOUS
  <2>4. PICK n \in Nat : n = IF end < e THEN e ELSE end OBVIOUS
  <2>5. m \in Begins /\ \A y \in Begins : m <= y
    <3>1. first \in first .. k BY <1>1, <1>6
    <3>2. b \in Begins /\ offset \in Begins BY <2>1, <3>1
    <3>3. m <= offset /\ m <= b /\ (m = b \/ m = offset) BY <2>3
    <3>4. ASSUME NEW y \in Begins PROVE m <= y
      <4>1. CASE y = offset BY <3>3, <4>1
      <4>2. CASE y # offset
        <5>1. PICK i \in first .. k : y = ranges[i].begin BY <4>2
        <5>2. y \in Nat /\ b <= y BY <2>2, <5>1
        <5> QED BY <3>3, <5>2
      <4> QED BY <4>1, <4>2
    <3> HIDE DEF Begins
    <3> QED BY <3>2, <3>3, <3>4
  <2>6. n \in Ends /\ \A y \in Ends : y <= n
    <3>1. k \in first .. k BY <1>1, <1>6
    <3>2. e \in Ends /\ end \in Ends BY <2>1, <3>1
    <3>3. end <= n /\ e <= n /\ (n = e \/ n = end) BY <2>4
    <3>4. ASSUME NEW y \in Ends PROVE y <= n
      <4>1. CASE y = end BY <3>3, <4>1
      <4>2. CASE y # end
        <5>1. PICK i \in first .. k : y = ranges[i].end BY <4>2
        <5>2. y \in Nat /\ y <= e BY <2>2, <5>1
        <5> QED BY <3>3, <5>2
      <4> QED BY <4>1, <4>2
    <3> HIDE DEF Ends
    <3> QED BY <3>2, <3>3, <3>4
  <2> HIDE DEF Begins, Ends
  <2>7. Min(Begins) = m BY <1>3, <2>5, MinIs
  <2>8. Max(Ends) = n BY <1>3, <2>6, MaxIs
  <2> QED BY <1>1, <1>4, <1>6, <2>1, <2>3, <2>4, <2>7, <2>8
<1> QED BY <1>1, <1>5, <1>6

(* The loop of merge stops, after some range or after the last one.           *)
LEMMA LoopStops ==
  ASSUME Ordered, NEW offset \in Nat, NEW end \in Nat,
         NEW first \in 1 .. Len(ranges) + 1
  PROVE  \E last \in first - 1 .. Len(ranges) : LoopEnds(offset, end, first, last)
<1> DEFINE Stops(k) == k < Len(ranges) =>
                         ranges[k + 1].begin > Absorbed(offset, end, first, k).end
           T == {k \in first - 1 .. Len(ranges) : Stops(k)}
<1>1. Len(ranges) \in Nat BY DEF Ordered
<1>2. PICK last \in T : \A k \in T : last <= k
  <2>1. Len(ranges) \in T BY <1>1
  <2>2. T \in SUBSET Nat BY <1>1
  <2> HIDE DEF T
  <2> QED BY <2>1, <2>2, LeastNat
<1>3. last \in first - 1 .. Len(ranges) /\ Stops(last) BY <1>2
<1>4. ASSUME NEW i \in first .. last
      PROVE  ranges[i].begin <= Absorbed(offset, end, first, i - 1).end
  <2>1. i - 1 \in first - 1 .. Len(ranges) /\ ~(last <= i - 1) BY <1>1, <1>3
  <2>2. i - 1 \notin T
    <3> HIDE DEF T
    <3> QED BY <1>2, <2>1
  <2>3. i \in 1 .. Len(ranges) /\ (i - 1) + 1 = i BY <1>1, <1>3
  <2>4. ~(ranges[i].begin > Absorbed(offset, end, first, i - 1).end) BY <2>1, <2>2, <2>3
  <2>5. PICK e \in Nat : e = Absorbed(offset, end, first, i - 1).end
    <3>1. PICK k \in first - 1 .. Len(ranges) : k = i - 1 BY <2>1
    <3>2. CASE k < first
      <4>1. Absorbed(offset, end, first, k) = Range2(offset, end) BY <3>2, AbsorbedIs
      <4> QED BY <3>1, <4>1 DEF Range2
    <3>3. CASE first <= k
      <4>1. Absorbed(offset, end, first, k).end = IF end < ranges[k].end THEN ranges[k].end ELSE end
        <5>1. PICK b, e : /\ e = IF end < ranges[k].end THEN ranges[k].end ELSE end
                          /\ Absorbed(offset, end, first, k) = Range2(b, e)
          BY <3>3, AbsorbedIs
        <5> QED BY <5>1 DEF Range2
      <4>2. k \in 1 .. Len(ranges) BY <1>1, <3>3
      <4>3. ranges[k].end \in Nat BY <4>2, RangeFacts
      <4> QED BY <3>1, <4>1, <4>3
    <3> QED BY <1>1, <3>2, <3>3
  <2>6. ranges[i].begin \in Nat BY <2>3, RangeFacts
  <2> QED BY <2>4, <2>5, <2>6
<1>5. LoopEnds(offset, end, first, last) BY <1>3, <1>4 DEF LoopEnds
<1> QED BY <1>3, <1>5

(* What merge computes for the range it is given.                             *)
MergeChooses(offset, length, end, first, last, merged) ==
  /\ Valid(offset, length)
  /\ end = Add(offset, length)
  /\ first = LowerBound(ranges, "end", offset)
  /\ last \in first - 1 .. Len(ranges)
  /\ LoopEnds(offset, end, first, last)
  /\ merged = Absorbed(offset, end, first, last)

(* The absorbed ranges leave no hole between them and the incoming range.     *)
LEMMA MergeJoins ==
  ASSUME Ordered, NEW offset \in Words, NEW length \in Words,
         NEW end, NEW first, NEW last, NEW merged,
         MergeChooses(offset, length, end, first, last, merged)
  PROVE  /\ first \in 1 .. Len(ranges) + 1
         /\ Joins(merged, first, last, offset .. offset + length - 1)
<1>1. Len(ranges) \in Nat BY DEF Ordered
<1>2. /\ offset \in Nat /\ length \in Nat /\ TotalSize \in Nat
      /\ end \in Words /\ end \in Nat /\ end = offset + length
      /\ offset < end /\ end <= TotalSize
  BY Incoming, WordAssumption, TotalSizeAssumption DEF Words, MergeChooses
<1>3. /\ first \in 1 .. Len(ranges) + 1 /\ last \in first - 1 .. Len(ranges)
      /\ \A j \in 1 .. Len(ranges) : j < first <=> ranges[j].end < offset
  BY <1>2, BoundOfEnds DEF MergeChooses
<1>4. first <= last =>
        /\ first \in 1 .. Len(ranges) /\ last \in 1 .. Len(ranges)
        /\ offset <= ranges[first].end
  <2> HAVE first <= last
  <2>1. first \in 1 .. Len(ranges) /\ last \in 1 .. Len(ranges) BY <1>1, <1>3
  <2>2. ~(ranges[first].end < offset) BY <1>3, <2>1
  <2> QED BY <1>2, <2>1, <2>2, RangeFacts
<1>5. PICK mb, me :
        /\ merged = Range2(mb, me)
        /\ last < first => mb = offset /\ me = end
        /\ first <= last =>
             /\ mb = IF ranges[first].begin < offset THEN ranges[first].begin ELSE offset
             /\ me = IF end < ranges[last].end THEN ranges[last].end ELSE end
  BY <1>1, <1>2, <1>3, AbsorbedIs, SMTT(30) DEF MergeChooses
<1>6. merged.begin = mb /\ merged.end = me BY <1>5 DEF Range2
<1>7. /\ mb \in Words /\ mb \in Nat /\ mb <= offset
      /\ me \in Words /\ me \in Nat /\ end <= me /\ me <= TotalSize
      /\ mb # offset => first <= last /\ mb = ranges[first].begin
      /\ me # end => first <= last /\ me = ranges[last].end
      /\ first <= last => mb <= ranges[first].begin /\ ranges[last].end <= me
  <2>1. CASE last < first BY <1>1, <1>2, <1>3, <1>5, <2>1
  <2>2. CASE first <= last
    <3>1. PICK b \in Nat, e \in Nat : b = ranges[first].begin /\ e = ranges[last].end
      BY <1>4, <2>2, RangeFacts
    <3>2. b \in Words /\ e \in Words /\ e <= TotalSize
      BY <1>4, <2>2, <3>1, RangeFacts DEF ByteRange
    <3>3. mb = (IF b < offset THEN b ELSE offset) /\ me = (IF end < e THEN e ELSE end)
      BY <1>5, <2>2, <3>1
    <3> QED BY <1>2, <2>2, <3>1, <3>2, <3>3
  <2> QED BY <1>1, <1>3, <2>1, <2>2
<1>8. merged \in ByteRange /\ mb < me
  BY <1>2, <1>5, <1>7 DEF ByteRange, Range2
<1>9. ASSUME NEW i \in 1 .. first - 1 PROVE ranges[i].end < merged.begin
  <2>1. i \in 1 .. Len(ranges) /\ i < first BY <1>1, <1>3
  <2>2. ranges[i].end \in Nat /\ ranges[i].end < offset BY <1>3, <2>1, RangeFacts
  <2>3. CASE mb = offset BY <1>6, <2>2, <2>3
  <2>4. CASE mb # offset
    <3>1. mb = ranges[first].begin /\ first \in 1 .. Len(ranges) BY <1>4, <1>7, <2>4
    <3> QED BY <1>6, <2>1, <3>1 DEF Ordered
  <2> QED BY <2>3, <2>4
<1>10. ASSUME NEW i \in last + 1 .. Len(ranges) PROVE merged.end < ranges[i].begin
  <2>1. last < Len(ranges) /\ i \in 1 .. Len(ranges) /\ last + 1 \in 1 .. Len(ranges)
        /\ (i = last + 1 \/ last + 1 < i)
    BY <1>1, <1>3
  <2>2. ranges[last + 1].begin > merged.end BY <2>1 DEF MergeChooses, LoopEnds
  <2>3. /\ ranges[last + 1].begin \in Nat /\ ranges[i].begin \in Nat
        /\ ranges[last + 1].begin <= ranges[i].begin
    BY <2>1, RangeFacts, FieldsIncrease
  <2> QED BY <1>6, <1>7, <2>2, <2>3
<1>11. first <= last => ranges[last].begin <= end
  <2> HAVE first <= last
  <2>1. last \in first .. last BY <1>1, <1>3
  <2>2. ranges[last].begin <= Absorbed(offset, end, first, last - 1).end
    BY <2>1 DEF MergeChooses, LoopEnds
  <2>3. PICK k \in first - 1 .. Len(ranges) : k = last - 1 BY <1>1, <1>3
  <2>4. CASE k < first
    <3>1. Absorbed(offset, end, first, k) = Range2(offset, end)
      BY <1>2, <1>3, <2>4, AbsorbedIs
    <3> QED BY <2>2, <2>3, <3>1 DEF Range2
  <2>5. CASE first <= k
    <3>1. PICK b, e : /\ e = IF end < ranges[k].end THEN ranges[k].end ELSE end
                      /\ Absorbed(offset, end, first, k) = Range2(b, e)
      <4>1. Absorbed(offset, end, first, k)
              = Range2(IF ranges[first].begin < offset THEN ranges[first].begin ELSE offset,
                       IF end < ranges[k].end THEN ranges[k].end ELSE end)
        BY <1>2, <1>3, <2>5, AbsorbedIs
      <4> QED BY <4>1
    <3>2. Absorbed(offset, end, first, k).end = e BY <3>1 DEF Range2
    <3>3. ranges[last].begin <= e BY <2>2, <2>3, <3>2
    <3>4. k \in 1 .. Len(ranges) /\ last \in 1 .. Len(ranges) /\ k < last
      BY <1>1, <1>3, <2>3, <2>5
    <3>5. ranges[k].end < ranges[last].begin BY <3>4 DEF Ordered
    <3>6. ranges[k].end \in Nat /\ ranges[last].begin \in Nat BY <3>4, RangeFacts
    <3> QED BY <1>2, <3>1, <3>3, <3>5, <3>6
  <2> QED BY <1>1, <1>3, <2>3, <2>4, <2>5
<1>12. ASSUME NEW p \in Bytes(merged)
       PROVE  p \in (offset .. offset + length - 1) \cup Stretch(first, last)
  <2>1. p \in Nat /\ mb <= p /\ p < me BY <1>6, <1>7, <1>12 DEF Bytes
  <2>2. CASE p < offset
    <3>1. mb # offset BY <1>2, <1>7, <2>1, <2>2
    <3>2. first <= last /\ mb = ranges[first].begin BY <1>7, <3>1
    <3>3. first \in 1 .. Len(ranges) /\ offset <= ranges[first].end BY <1>4, <3>2
    <3>4. ranges[first].end \in Nat BY <3>3, RangeFacts
    <3>5. p \in Bytes(ranges[first]) BY <1>2, <2>1, <2>2, <3>2, <3>3, <3>4, InBytes
    <3>6. first \in first .. last BY <1>3, <3>2
    <3> QED BY <3>5, <3>6 DEF Stretch
  <2>3. CASE end <= p
    <3>1. me # end BY <1>2, <1>7, <2>1, <2>3
    <3>2. first <= last /\ me = ranges[last].end BY <1>7, <3>1
    <3>3. last \in 1 .. Len(ranges) /\ ranges[last].begin <= end BY <1>4, <1>11, <3>2
    <3>4. ranges[last].begin \in Nat BY <3>3, RangeFacts
    <3>5. p \in Bytes(ranges[last]) BY <1>2, <2>1, <2>3, <3>2, <3>3, <3>4, InBytes
    <3>6. last \in first .. last BY <1>1, <1>3, <3>2
    <3> QED BY <3>5, <3>6 DEF Stretch
  <2>4. CASE offset <= p /\ p < end BY <1>2, <2>1, <2>4
  <2> QED BY <1>2, <2>1, <2>2, <2>3, <2>4
<1>13. ASSUME NEW p \in offset .. offset + length - 1 PROVE p \in Bytes(merged)
  BY <1>2, <1>6, <1>7 DEF Bytes
<1>14. ASSUME NEW p \in Stretch(first, last) PROVE p \in Bytes(merged)
  <2>1. PICK i \in first .. last : p \in Bytes(ranges[i]) BY DEF Stretch
  <2>2. /\ i \in 1 .. Len(ranges) /\ first \in 1 .. Len(ranges) /\ last \in 1 .. Len(ranges)
        /\ (i = first \/ first < i) /\ (i = last \/ i < last) /\ first <= last
    BY <1>1, <1>3
  <2>3. p \in Nat /\ ranges[i].begin <= p /\ p < ranges[i].end BY <2>1, <2>2, InBytes
  <2>4. ranges[first].begin <= ranges[i].begin /\ ranges[i].end <= ranges[last].end
    BY <2>2, RangeFacts, FieldsIncrease
  <2>5. mb <= p /\ p < me BY <1>7, <2>2, <2>3, <2>4, RangeFacts, SMTT(30)
  <2> QED BY <1>6, <1>7, <2>3, <2>5 DEF Bytes
<1>15. Bytes(merged) = (offset .. offset + length - 1) \cup Stretch(first, last)
  <2>1. Bytes(merged) \in SUBSET ((offset .. offset + length - 1) \cup Stretch(first, last))
    BY <1>12
  <2>2. (offset .. offset + length - 1) \in SUBSET Bytes(merged) BY <1>13
  <2>3. Stretch(first, last) \in SUBSET Bytes(merged) BY <1>14
  <2> QED BY <2>1, <2>2, <2>3
<1> QED BY <1>3, <1>6, <1>7, <1>8, <1>9, <1>10, <1>15 DEF Joins

(* The list without the ranges that were absorbed.                            *)
Kept(first, last) == SubSeq(ranges, 1, first - 1) \o SubSeq(ranges, last + 1, Len(ranges))

(* lower_bound puts the merged range where the absorbed ones were.            *)
LEMMA MergedGoesBack ==
  ASSUME Ordered, NEW first \in 1 .. Len(ranges) + 1, NEW last \in first - 1 .. Len(ranges),
         NEW r, NEW incoming, Joins(r, first, last, incoming),
         NEW kept, kept = Kept(first, last),
         NEW at, at = LowerBound(kept, "begin", r.begin)
  PROVE  Replaces(InsertAt(kept, at, r), first, last, r)
<1> DEFINE left == SubSeq(ranges, 1, first - 1)
           right == SubSeq(ranges, last + 1, Len(ranges))
<1>1. ranges \in Seq(ByteRange) /\ Len(ranges) \in Nat BY DEF Ordered
<1>2. /\ left \in Seq(ByteRange) /\ Len(left) = first - 1
      /\ \A i \in 1 .. first - 1 : left[i] = ranges[i]
  <2>1. PICK m \in 1 .. Len(ranges) + 1 : m = 1 BY <1>1
  <2>2. PICK n \in m - 1 .. Len(ranges) : n = first - 1 BY <1>1, <2>1
  <2>3. /\ SubSeq(ranges, m, n) \in Seq(ByteRange)
        /\ Len(SubSeq(ranges, m, n)) = n - m + 1
        /\ \A i \in 1 .. n - m + 1 : SubSeq(ranges, m, n)[i] = ranges[m + i - 1]
    BY <1>1, PartOf
  <2> QED BY <1>1, <2>1, <2>2, <2>3
<1>3. /\ right \in Seq(ByteRange) /\ Len(right) = Len(ranges) - last
      /\ \A i \in 1 .. Len(ranges) - last : right[i] = ranges[last + i]
  <2>1. PICK m \in 1 .. Len(ranges) + 1 : m = last + 1 BY <1>1
  <2>2. PICK n \in m - 1 .. Len(ranges) : n = Len(ranges) BY <1>1, <2>1
  <2>3. /\ SubSeq(ranges, m, n) \in Seq(ByteRange)
        /\ Len(SubSeq(ranges, m, n)) = n - m + 1
        /\ \A i \in 1 .. n - m + 1 : SubSeq(ranges, m, n)[i] = ranges[m + i - 1]
    BY <1>1, PartOf
  <2> QED BY <1>1, <2>1, <2>2, <2>3
<1> HIDE DEF left, right
<1>4. kept = left \o right BY DEF left, right, Kept
<1>5. PICK a \in Nat, b \in Nat : a = first - 1 /\ b = Len(ranges) - last
  <2>1. first - 1 \in Nat BY <1>1
  <2>2. Len(ranges) - last \in Nat BY <1>1
  <2> QED BY <2>1, <2>2
<1>6. /\ kept \in Seq(ByteRange) /\ Len(kept) = a + b
      /\ \A i \in 1 .. a + b : kept[i] = IF i <= a THEN left[i] ELSE right[i - a]
  <2>1. /\ left \o right \in Seq(ByteRange) /\ Len(left \o right) = Len(left) + Len(right)
        /\ \A i \in 1 .. Len(left) + Len(right) :
             (left \o right)[i] = IF i <= Len(left) THEN left[i] ELSE right[i - Len(left)]
    BY <1>2, <1>3, ConcatProperties
  <2>2. Len(left) = a /\ Len(right) = b BY <1>2, <1>3, <1>5
  <2> QED BY <1>4, <2>1, <2>2
<1>7. ASSUME NEW i \in 1 .. a + b
      PROVE  \/ i <= a /\ i \in 1 .. first - 1 /\ kept[i] = ranges[i]
             \/ /\ a < i /\ i + last - a \in last + 1 .. Len(ranges)
                /\ kept[i] = ranges[i + last - a]
  <2>1. CASE i <= a
    <3>1. i \in 1 .. first - 1 BY <1>5, <2>1
    <3> QED BY <1>2, <1>6, <2>1, <3>1
  <2>2. CASE a < i
    <3>1. ~(i <= a) BY <2>2
    <3>2. kept[i] = right[i - a] BY <1>6, <3>1
    <3>3. i - a \in 1 .. Len(ranges) - last BY <1>1, <1>5, <2>2
    <3>4. right[i - a] = ranges[last + (i - a)] BY <1>3, <3>3
    <3>5. last + (i - a) = i + last - a /\ i + last - a \in last + 1 .. Len(ranges)
      BY <1>1, <1>5, <3>3
    <3> QED BY <2>2, <3>2, <3>4, <3>5
  <2> QED BY <2>1, <2>2
<1>8. PICK rb \in Nat, re \in Nat : rb = r.begin /\ re = r.end /\ rb < re
  BY WordAssumption DEF Joins, ByteRange, Words
<1>9. ASSUME NEW i \in 1 .. a + b PROVE i <= a <=> kept[i].begin < rb
  <2>1. CASE i <= a
    <3>1. i \in 1 .. first - 1 /\ kept[i] = ranges[i] /\ i \in 1 .. Len(ranges)
      BY <1>1, <1>7, <2>1
    <3>2. ranges[i].end < rb BY <1>8, <3>1 DEF Joins
    <3> QED BY <2>1, <3>1, <3>2, RangeFacts
  <2>2. CASE a < i
    <3>1. PICK j \in last + 1 .. Len(ranges) : kept[i] = ranges[j] BY <1>7, <2>2
    <3>2. re < ranges[j].begin BY <1>8 DEF Joins
    <3>3. j \in 1 .. Len(ranges) BY <1>1
    <3>4. ranges[j].begin \in Nat BY <3>3, RangeFacts
    <3> QED BY <1>8, <2>2, <3>1, <3>2, <3>4, SMTT(20)
  <2> QED BY <2>1, <2>2
<1>10. \A i, j \in 1 .. Len(kept) : i < j => kept[i]["begin"] < kept[j]["begin"]
  <2> SUFFICES ASSUME NEW i \in 1 .. a + b, NEW j \in 1 .. a + b, i < j
               PROVE  kept[i].begin < kept[j].begin
    BY <1>6
  <2>0. ASSUME NEW n \in 1 .. a + b
        PROVE  \E k \in 1 .. Len(ranges) :
                 /\ kept[n] = ranges[k] /\ (n <= a => k = n)
                 /\ (a < n => k = n + last - a)
    <3>1. CASE n <= a
      <4>1. n \in 1 .. Len(ranges) /\ kept[n] = ranges[n] BY <1>1, <1>7, <3>1
      <4> QED BY <3>1, <4>1
    <3>2. CASE a < n
      <4>1. PICK k \in 1 .. Len(ranges) : k = n + last - a /\ kept[n] = ranges[k]
        BY <1>1, <1>7, <3>2
      <4> QED BY <3>2, <4>1
    <3> QED BY <3>1, <3>2
  <2>1. PICK k \in 1 .. Len(ranges) :
          /\ kept[i] = ranges[k] /\ (i <= a => k = i)
          /\ (a < i => k = i + last - a)
    BY <2>0
  <2>2. PICK l \in 1 .. Len(ranges) :
          /\ kept[j] = ranges[l] /\ (j <= a => l = j)
          /\ (a < j => l = j + last - a)
    BY <2>0
  <2>3. k < l
    <3>1. CASE j <= a BY <2>1, <2>2, <3>1
    <3>2. CASE i <= a /\ a < j
      <4>1. a <= last BY <1>5
      <4> QED BY <2>1, <2>2, <3>2, <4>1
    <3>3. CASE a < i BY <2>1, <2>2, <3>3
    <3> QED BY <3>1, <3>2, <3>3
  <2> QED BY <2>1, <2>2, <2>3, FieldsIncrease
<1>11. /\ at \in 1 .. Len(kept) + 1
       /\ \A j \in 1 .. Len(kept) : j < at <=> kept[j].begin < rb
  <2>1. at = LowerBound(kept, "begin", rb) BY <1>8
  <2>2. /\ LowerBound(kept, "begin", rb) \in 1 .. Len(kept) + 1
        /\ \A j \in 1 .. Len(kept) :
             j < LowerBound(kept, "begin", rb) <=> kept[j]["begin"] < rb
    BY <1>6, <1>10, LowerBoundSplits
  <2> QED BY <2>1, <2>2
<1>12. at = first
  <2>1. at \in Nat /\ 1 <= at /\ at <= a + b + 1 BY <1>6, <1>11
  <2>2. CASE at <= a
    <3>1. at \in 1 .. a + b BY <2>1, <2>2
    <3>2. kept[at].begin < rb BY <1>9, <2>2, <3>1
    <3>3. at < at BY <1>6, <1>11, <3>1, <3>2
    <3> QED BY <2>1, <3>3
  <2>3. CASE a + 1 < at
    <3>1. PICK j \in 1 .. a + b : j = a + 1 BY <2>1, <2>3
    <3>2. kept[j].begin < rb BY <1>6, <1>11, <2>3, <3>1
    <3>3. j <= a BY <1>9, <3>2
    <3> QED BY <3>1, <3>3
  <2> QED BY <1>5, <2>1, <2>2, <2>3
<1>13. /\ SubSeq(kept, 1, first - 1) \in Seq(ByteRange)
       /\ Len(SubSeq(kept, 1, first - 1)) = first - 1
       /\ \A i \in 1 .. first - 1 : SubSeq(kept, 1, first - 1)[i] = ranges[i]
  <2>1. PICK m \in 1 .. Len(kept) + 1 : m = 1 BY <1>6
  <2>2. PICK n \in m - 1 .. Len(kept) : n = a BY <1>6, <2>1
  <2>3. /\ SubSeq(kept, m, n) \in Seq(ByteRange)
        /\ Len(SubSeq(kept, m, n)) = n - m + 1
        /\ \A i \in 1 .. n - m + 1 : SubSeq(kept, m, n)[i] = kept[m + i - 1]
    BY <1>6, PartOf
  <2>4. ASSUME NEW i \in 1 .. a PROVE kept[i] = ranges[i] BY <1>7
  <2> QED BY <1>5, <2>1, <2>2, <2>3, <2>4
<1>14. /\ SubSeq(kept, first, Len(kept)) \in Seq(ByteRange)
       /\ Len(SubSeq(kept, first, Len(kept))) = Len(ranges) - last
       /\ \A i \in 1 .. Len(ranges) - last : SubSeq(kept, first, Len(kept))[i] = ranges[last + i]
  <2>1. PICK m \in 1 .. Len(kept) + 1 : m = first BY <1>5, <1>6
  <2>2. PICK n \in m - 1 .. Len(kept) : n = Len(kept) BY <1>6, <2>1
  <2>3. /\ SubSeq(kept, m, n) \in Seq(ByteRange)
        /\ Len(SubSeq(kept, m, n)) = n - m + 1
        /\ \A i \in 1 .. n - m + 1 : SubSeq(kept, m, n)[i] = kept[m + i - 1]
    BY <1>6, PartOf
  <2>4. n - m + 1 = b BY <1>5, <1>6, <2>1, <2>2
  <2>5. ASSUME NEW i \in 1 .. b PROVE kept[m + i - 1] = ranges[last + i]
    <3>1. PICK j \in 1 .. a + b : j = m + i - 1 /\ a < j /\ j + last - a = last + i
      BY <1>5, <2>1
    <3>2. kept[j] = ranges[j + last - a] BY <1>7, <3>1
    <3> QED BY <3>1, <3>2
  <2> QED BY <1>5, <2>1, <2>2, <2>3, <2>4, <2>5, ZenonT(40)
<1>15. InsertAt(kept, at, r)
         = SubSeq(kept, 1, first - 1) \o <<r>> \o SubSeq(kept, first, Len(kept))
  BY <1>12 DEF InsertAt
<1>16. r \in ByteRange BY DEF Joins
<1>17. PICK left2, right2 :
         left2 = SubSeq(kept, 1, first - 1) /\ right2 = SubSeq(kept, first, Len(kept))
  OBVIOUS
<1>18. Replaces(left2 \o <<r>> \o right2, first, last, r)
  BY <1>13, <1>14, <1>16, <1>17, Spliced
<1> QED BY <1>15, <1>17, <1>18

(* merge keeps the invariant.                                                 *)
LEMMA MergeKeepsIInv ==
  ASSUME IInv, NEW offset \in Words, NEW length \in Words, Merge(offset, length)
  PROVE  IInv'
<1>1. Ordered /\ offset \in Nat BY WordAssumption DEF IInv, Words
<1>2. PICK end \in Nat : end = Add(offset, length)
  BY Incoming, WordAssumption DEF Merge, Words
<1>3. PICK first \in 1 .. Len(ranges) + 1 : first = LowerBound(ranges, "end", offset)
  BY <1>1, BoundOfEnds
<1>4. PICK last : last = CHOOSE i \in first - 1 .. Len(ranges) : LoopEnds(offset, end, first, i)
  OBVIOUS
<1>5. last \in first - 1 .. Len(ranges) /\ LoopEnds(offset, end, first, last)
  BY <1>1, <1>4, LoopStops
<1>6. PICK merged : merged = Absorbed(offset, end, first, last) OBVIOUS
<1>7. PICK kept : kept = Kept(first, last) OBVIOUS
<1>8. PICK at : at = LowerBound(kept, "begin", merged.begin) OBVIOUS
<1>9. MergeChooses(offset, length, end, first, last, merged)
  BY <1>2, <1>3, <1>5, <1>6 DEF MergeChooses, Merge
<1>10. Joins(merged, first, last, offset .. offset + length - 1)
  BY <1>1, <1>9, MergeJoins
<1>11. /\ ranges' = InsertAt(kept, at, merged)
       /\ bytesCompleted' = Exchanged(SubSeq(ranges, first, last), merged)
       /\ covered' = covered \cup (offset .. offset + length - 1)
  BY <1>2, <1>3, <1>4, <1>6, <1>7, <1>8 DEF Merge, Kept
<1>12. Replaces(ranges', first, last, merged)
  BY <1>1, <1>5, <1>7, <1>8, <1>10, <1>11, MergedGoesBack
<1> QED BY <1>5, <1>10, <1>11, <1>12, JoiningKeepsIInv

-----------------------------------------------------------------------------
(* The invariant                                                              *)

(* The list of a new or cleared RangeList.                                    *)
LEMMA EmptyList ==
  ASSUME NEW s, s = <<>>
  PROVE  s \in Seq(ByteRange) /\ Len(s) = 0 /\ BytesOf(s) = {} /\ Cardinality({}) = 0
<1>1. s \in Seq(ByteRange) /\ Len(s) = 0 BY EmptySeq
<1>2. BytesOf(s) = {} BY <1>1 DEF BytesOf
<1> QED BY <1>1, <1>2, FS_EmptySet

(* A new RangeList satisfies the invariant ...                                *)
THEOREM InitIInv == Init => IInv
<1> SUFFICES ASSUME Init PROVE IInv OBVIOUS
<1>1. ranges = <<>> /\ bytesCompleted = 0 /\ covered = {} BY DEF Init
<1>2. ranges \in Seq(ByteRange) /\ Len(ranges) = 0 /\ BytesOf(ranges) = {}
      /\ Cardinality({}) = 0
  BY <1>1, EmptyList
<1> QED BY <1>1, <1>2 DEF IInv, Ordered

(* ... every call of insert, merge and clear keeps it ...                     *)
THEOREM NextIInv == IInv /\ [Next]_vars => IInv'
<1> SUFFICES ASSUME IInv, [Next]_vars PROVE IInv' OBVIOUS
<1>1. CASE \E offset, length \in Words : Insert(offset, length) BY <1>1, InsertKeepsIInv
<1>2. CASE \E offset, length \in Words : Merge(offset, length) BY <1>2, MergeKeepsIInv
<1>3. CASE Clear
  <2>1. ranges' = <<>> /\ bytesCompleted' = 0 /\ covered' = {} BY <1>3 DEF Clear
  <2>2. ranges' \in Seq(ByteRange) /\ Len(ranges') = 0 /\ BytesOf(ranges') = {}
        /\ Cardinality({}) = 0
    BY <2>1, EmptyList
  <2>3. Ordered' BY <2>2 DEF Ordered
  <2>4. covered' = BytesOf(ranges') /\ bytesCompleted' = Cardinality(covered') BY <2>1, <2>2
  <2> QED BY <2>3, <2>4 DEF IInv, BytesOf
<1>4. CASE UNCHANGED vars
  <2>1. ranges' = ranges /\ bytesCompleted' = bytesCompleted /\ covered' = covered
    BY <1>4 DEF vars
  <2> QED BY <2>1 DEF IInv, Ordered, BytesOf
<1> QED BY <1>1, <1>2, <1>3, <1>4 DEF Next

(* ... so that it always holds: whatever insert and merge are called with, in *)
(* whatever order, the ranges stay sorted and apart, cover exactly the bytes  *)
(* of the accepted calls, and bytesCompleted_ counts those bytes.             *)
THEOREM SpecIInv == Spec => []IInv
BY InitIInv, NextIInv, PTL DEF Spec

(* The list is the runs of the bytes ever accepted: insert and merge neither  *)
(* lose a byte nor count one twice, and no sum of lengths wraps.              *)
THEOREM SpecRangesAreCoveredRuns == Spec => []RangesAreCoveredRuns
<1>1. IInv => RangesAreCoveredRuns
  <2> SUFFICES ASSUME IInv PROVE RangesAreCoveredRuns OBVIOUS
  <2>1. Ordered BY DEF IInv
  <2>2. Len(ranges) \in Nat BY <2>1 DEF Ordered
  <2>3. \A i \in 1 .. Len(ranges) : ranges[i].begin < ranges[i].end BY <2>1, RangeFacts
  <2>4. ASSUME NEW i \in 1 .. Len(ranges) - 1 PROVE ranges[i].end < ranges[i + 1].begin
    <3>1. i \in 1 .. Len(ranges) /\ i + 1 \in 1 .. Len(ranges) /\ i < i + 1 BY <2>2
    <3> QED BY <2>1, <3>1 DEF Ordered
  <2>5. covered \subseteq 0 .. TotalSize - 1 BY <2>1, BytesAreOfTheFile DEF IInv
  <2> QED BY <2>3, <2>4, <2>5 DEF IInv, BytesOf, RangesAreCoveredRuns
<1> QED BY <1>1, SpecIInv, PTL

(* The two neighbours that insert looks at decide overlap: it refuses a range *)
(* if and only if a byte of it is covered already.                            *)
THEOREM SpecNeighbourTestIsExact == Spec => []NeighbourTestIsExact
<1>1. ASSUME IInv, NEW offset \in Words, NEW length \in Words, Valid(offset, length)
      PROVE  OverlapsNeighbour(offset, length) <=>
               (offset .. offset + length - 1) \cap covered # {}
  <2> DEFINE I == offset .. offset + length - 1
  <2>1. Ordered /\ covered = BytesOf(ranges) BY <1>1 DEF IInv
  <2>2. Len(ranges) \in Nat BY <2>1 DEF Ordered
  <2>3. PICK end \in Nat : /\ end = Add(offset, length) /\ end = offset + length
                            /\ offset \in Nat /\ offset < end
    BY <1>1, Incoming, WordAssumption DEF Words
  <2>4. PICK at : at = LowerBound(ranges, "begin", offset) OBVIOUS
  <2>5. /\ at \in 1 .. Len(ranges) + 1
        /\ \A j \in 1 .. Len(ranges) : j < at <=> ranges[j].begin < offset
    BY <2>1, <2>3, <2>4, BoundOfBegins
  <2>6. \A p : p \in I <=> p \in Nat /\ offset <= p /\ p < end
    BY <2>3 DEF Words
  <2>7. OverlapsNeighbour(offset, length) <=>
          \/ at > 1 /\ ranges[at - 1].end > offset
          \/ at <= Len(ranges) /\ ranges[at].begin < end
    BY <2>3, <2>4 DEF OverlapsNeighbour
  <2> HIDE DEF I
  <2>8. ASSUME at > 1, ranges[at - 1].end > offset PROVE \E p \in I : p \in covered
    <3>1. PICK k \in 1 .. Len(ranges) : k = at - 1 BY <2>2, <2>5, <2>8
    <3>2. ranges[k].begin \in Nat /\ ranges[k].end \in Nat /\ ranges[k].begin < offset
      BY <2>1, <2>5, <3>1, RangeFacts
    <3>3. offset \in Bytes(ranges[k]) BY <2>1, <2>3, <2>8, <3>1, <3>2, InBytes
    <3>4. offset \in I BY <2>3, <2>6
    <3> QED BY <2>1, <3>3, <3>4 DEF BytesOf
  <2>9. ASSUME at <= Len(ranges), ranges[at].begin < end PROVE \E p \in I : p \in covered
    <3>1. at \in 1 .. Len(ranges) BY <2>2, <2>5, <2>9
    <3>2. PICK b \in Nat : b = ranges[at].begin BY <2>1, <3>1, RangeFacts
    <3>3. ~(b < offset) BY <2>5, <3>1, <3>2
    <3>4. b \in I BY <2>3, <2>6, <2>9, <3>2, <3>3
    <3>5. b \in Bytes(ranges[at]) BY <2>1, <3>1, <3>2, RangeFacts, InBytes
    <3> QED BY <2>1, <3>1, <3>4, <3>5 DEF BytesOf
  <2>10. ASSUME NEW p \in I, p \in covered
         PROVE  \/ at > 1 /\ ranges[at - 1].end > offset
                \/ at <= Len(ranges) /\ ranges[at].begin < end
    <3>1. p \in Nat /\ offset <= p /\ p < end BY <2>6
    <3>2. PICK k \in 1 .. Len(ranges) : p \in Bytes(ranges[k]) BY <2>1, <2>10 DEF BytesOf
    <3>3. ranges[k].begin <= p /\ p < ranges[k].end BY <2>1, <3>2, InBytes
    <3>4. ranges[k].begin \in Nat /\ ranges[k].end \in Nat BY <2>1, RangeFacts
    <3>5. CASE k < at
      <4>1. PICK j \in 1 .. Len(ranges) : j = at - 1 /\ (k = j \/ k < j) BY <2>2, <2>5, <3>5
      <4>2. ranges[j].end \in Nat /\ ranges[k].end <= ranges[j].end
        BY <2>1, <3>4, <4>1, RangeFacts, FieldsIncrease
      <4>3. ranges[j].end > offset BY <2>3, <3>1, <3>3, <3>4, <4>2
      <4> QED BY <2>5, <3>5, <4>1, <4>3
    <3>6. CASE at <= k
      <4>1. at \in 1 .. Len(ranges) /\ (at = k \/ at < k) BY <2>2, <2>5, <3>6
      <4>2. ranges[at].begin \in Nat /\ ranges[at].begin <= ranges[k].begin
        BY <2>1, <3>4, <4>1, RangeFacts, FieldsIncrease
      <4>3. ranges[at].begin < end BY <2>3, <3>1, <3>3, <3>4, <4>2
      <4> QED BY <2>2, <4>1, <4>3
    <3> QED BY <2>5, <3>5, <3>6
  <2> QED BY <2>7, <2>8, <2>9, <2>10 DEF I
<1>2. IInv => NeighbourTestIsExact BY <1>1 DEF NeighbourTestIsExact
<1> QED BY <1>2, SpecIInv, PTL

-----------------------------------------------------------------------------
(* missingRanges                                                              *)

(* `expected` is the end of the range before, or the start of the file.       *)
LEMMA ExpectedIs ==
  ASSUME Ordered, NEW i \in 1 .. Len(ranges) + 1
  PROVE  /\ i = 1 => Expected(i) = 0
         /\ i > 1 => i - 1 \in 1 .. Len(ranges) /\ Expected(i) = ranges[i - 1].end
<1> DEFINE Seen == {0} \cup {ranges[j].end : j \in 1 .. i - 1}
<1>1. Len(ranges) \in Nat BY DEF Ordered
<1>2. \A j \in 1 .. i - 1 : j \in 1 .. Len(ranges) BY <1>1
<1>3. Seen \in SUBSET Nat BY <1>2, RangeFacts
<1>4. Expected(i) = Max(Seen) BY DEF Expected
<1>5. CASE i = 1
  <2>1. 1 .. i - 1 = {} BY <1>5
  <2>2. Seen = {0} BY <2>1
  <2> HIDE DEF Seen
  <2>3. Max(Seen) = 0 BY <1>3, <2>2, MaxIs
  <2> QED BY <1>4, <1>5, <2>3
<1>6. CASE i > 1
  <2>1. PICK k \in 1 .. i - 1 : k = i - 1 BY <1>6
  <2>2. k \in 1 .. Len(ranges) BY <1>2
  <2>3. PICK e \in Nat : e = ranges[k].end BY <2>2, RangeFacts
  <2>4. e \in Seen BY <2>3
  <2>5. ASSUME NEW y \in Seen PROVE y <= e
    <3>1. CASE y = 0 BY <3>1
    <3>2. CASE y # 0
      <4>1. PICK j \in 1 .. i - 1 : y = ranges[j].end BY <3>2
      <4>2. j \in 1 .. Len(ranges) /\ (j = k \/ j < k) BY <1>2, <2>1
      <4> QED BY <2>2, <2>3, <4>1, <4>2, FieldsIncrease, RangeFacts
    <3> QED BY <3>1, <3>2
  <2> HIDE DEF Seen
  <2>6. Max(Seen) = e BY <1>3, <2>4, <2>5, MaxIs
  <2> QED BY <1>4, <1>6, <2>1, <2>2, <2>3, <2>6
<1> QED BY <1>5, <1>6

(* Every gap is reported once, in its place.                                  *)
LEMMA NthGap ==
  ASSUME NEW n \in Nat, NEW G \in SUBSET (1 .. n)
  PROVE  /\ Cardinality(G) \in Nat
         /\ \A k \in 1 .. Cardinality(G) : Nth(G, <, k) \in G
         /\ \A i \in G : \E k \in 1 .. Cardinality(G) : Nth(G, <, k) = i
<1> DEFINE R == {t \in G \X G : t[1] < t[2]}
<1>1. IsFiniteSet(G) /\ Cardinality(G) \in Nat
  <2>1. PICK a \in Int : a = 1 OBVIOUS
  <2>2. IsFiniteSet(a .. n) BY FS_Interval
  <2> QED BY <2>1, <2>2, FS_Subset, FS_CardinalityType
<1>2. \A x, y \in G : <<x, y>> \in R <=> x < y OBVIOUS
<1>3. \A x \in G : x \in Nat OBVIOUS
<1> HIDE DEF R
<1>4. StrictOrder(R, G) BY <1>2, <1>3 DEF StrictOrder
<1>5. ASSUME NEW x \in G PROVE Cardinality({y \in G : y < x}) = Rank(R, G, x)
  <2>1. {y \in G : y < x} = {y \in G : <<y, x>> \in R} BY <1>2
  <2> QED BY <2>1 DEF Rank
<1>6. /\ \A x \in G : Rank(R, G, x) \in 0 .. Cardinality(G) - 1
      /\ \A x, y \in G : Rank(R, G, x) = Rank(R, G, y) => x = y
      /\ \A k \in 1 .. Cardinality(G) : \E x \in G : Rank(R, G, x) = k - 1
  BY <1>1, <1>4, RanksAreUnique
<1>7. ASSUME NEW k \in 1 .. Cardinality(G)
      PROVE  Nth(G, <, k) \in G /\ Rank(R, G, Nth(G, <, k)) = k - 1
  <2>1. \E x \in G : Cardinality({y \in G : y < x}) = k - 1 BY <1>5, <1>6
  <2>2. /\ Nth(G, <, k) \in G
        /\ Cardinality({y \in G : y < Nth(G, <, k)}) = k - 1
    BY <2>1 DEF Nth
  <2> QED BY <1>5, <2>2
<1>8. ASSUME NEW i \in G PROVE \E k \in 1 .. Cardinality(G) : Nth(G, <, k) = i
  <2>1. PICK k \in 1 .. Cardinality(G) : k - 1 = Rank(R, G, i)
    <3>1. PICK rank \in 0 .. Cardinality(G) - 1 : rank = Rank(R, G, i) BY <1>6
    <3>2. rank + 1 \in 1 .. Cardinality(G) /\ (rank + 1) - 1 = rank BY <1>1
    <3> QED BY <3>1, <3>2
  <2> QED BY <1>6, <1>7, <2>1
<1> QED BY <1>1, <1>7, <1>8

(* A byte that is in no range is in the gap before the first range beyond it. *)
LEMMA GapOfByte ==
  ASSUME Ordered, NEW p \in 0 .. TotalSize - 1, p \notin BytesOf(ranges)
  PROVE  \E i \in Gaps : Expected(i) <= p /\ p < NextBegin(i)
<1>1. /\ Len(ranges) \in Nat /\ TotalSize \in Nat /\ p \in Nat /\ p < TotalSize
  BY TotalSizeAssumption, WordAssumption DEF Ordered
<1> DEFINE Beyond == {k \in 1 .. Len(ranges) + 1 : p < NextBegin(k)}
<1>2. PICK i \in Beyond : \A k \in Beyond : i <= k
  <2>1. Len(ranges) + 1 \in Beyond BY <1>1 DEF NextBegin
  <2>2. Beyond \in SUBSET Nat OBVIOUS
  <2> HIDE DEF Beyond
  <2> QED BY <2>1, <2>2, LeastNat
<1>3. i \in 1 .. Len(ranges) + 1 /\ p < NextBegin(i) BY <1>2
<1>4. NextBegin(i) \in Nat
  <2>1. i <= Len(ranges) => i \in 1 .. Len(ranges) BY <1>1, <1>3
  <2> QED BY <1>1, <2>1, RangeFacts DEF NextBegin
<1>5. Expected(i) \in Nat /\ Expected(i) <= p
  <2>1. CASE i = 1
    <3>1. Expected(i) = 0 BY <1>3, <2>1, ExpectedIs
    <3> QED BY <1>1, <3>1
  <2>2. CASE i > 1
    <3>1. PICK j \in 1 .. Len(ranges) : j = i - 1 /\ Expected(i) = ranges[j].end
      BY <1>3, <2>2, ExpectedIs
    <3>2. j \in 1 .. Len(ranges) + 1 /\ ~(i <= j) BY <1>1, <1>3, <3>1
    <3>3. j \notin Beyond
      <4> HIDE DEF Beyond
      <4> QED BY <1>2, <3>2
    <3>4. ~(p < NextBegin(j)) BY <3>2, <3>3
    <3>5. NextBegin(j) = ranges[j].begin BY <1>1 DEF NextBegin
    <3>6. ranges[j].begin \in Nat /\ ranges[j].end \in Nat BY RangeFacts
    <3>7. p \notin Bytes(ranges[j]) BY DEF BytesOf
    <3>8. ~(p < ranges[j].end) BY <1>1, <3>4, <3>5, <3>6, <3>7, InBytes
    <3> QED BY <1>1, <3>1, <3>6, <3>8
  <2> QED BY <1>1, <1>3, <2>1, <2>2
<1>6. i \in Gaps BY <1>1, <1>3, <1>4, <1>5 DEF Gaps
<1> QED BY <1>3, <1>5, <1>6

(* A gap has bytes, all of the file and none of them covered.                 *)
LEMMA GapHasNoBytes ==
  ASSUME Ordered, NEW i \in Gaps
  PROVE  /\ Expected(i) \in Nat /\ NextBegin(i) \in Nat /\ Expected(i) < NextBegin(i)
         /\ NextBegin(i) <= TotalSize
         /\ \A p \in Nat : Expected(i) <= p /\ p < NextBegin(i) => p \notin BytesOf(ranges)
<1>1. /\ Len(ranges) \in Nat /\ TotalSize \in Nat /\ i \in 1 .. Len(ranges) + 1
      /\ NextBegin(i) > Expected(i)
  BY TotalSizeAssumption, WordAssumption DEF Ordered, Gaps
<1>2. i <= Len(ranges) => i \in 1 .. Len(ranges) BY <1>1
<1>3. NextBegin(i) \in Nat /\ NextBegin(i) <= TotalSize
  BY <1>1, <1>2, RangeFacts DEF NextBegin
<1>4. Expected(i) \in Nat
  <2>1. CASE i = 1 BY <1>1, <2>1, ExpectedIs
  <2>2. CASE i > 1 BY <1>1, <2>2, ExpectedIs, RangeFacts
  <2> QED BY <1>1, <2>1, <2>2
<1>5. ASSUME NEW p \in Nat, Expected(i) <= p, p < NextBegin(i), p \in BytesOf(ranges)
      PROVE  FALSE
  <2>1. PICK k \in 1 .. Len(ranges) : p \in Bytes(ranges[k]) BY <1>5 DEF BytesOf
  <2>2. ranges[k].begin <= p /\ p < ranges[k].end BY <2>1, InBytes
  <2>3. ranges[k].begin \in Nat /\ ranges[k].end \in Nat BY RangeFacts
  <2>4. CASE k < i
    <3>1. i > 1 BY <1>1, <2>4
    <3>2. PICK j \in 1 .. Len(ranges) : j = i - 1 /\ Expected(i) = ranges[j].end
      BY <1>1, <3>1, ExpectedIs
    <3>3. ranges[j].end \in Nat BY RangeFacts
    <3>4. k = j \/ k < j BY <1>1, <2>4, <3>2
    <3>5. ranges[k].end <= ranges[j].end BY <2>3, <3>3, <3>4, FieldsIncrease
    <3> QED BY <1>5, <2>2, <2>3, <3>2, <3>3, <3>5
  <2>5. CASE i <= k
    <3>1. i \in 1 .. Len(ranges) /\ (i = k \/ i < k) BY <1>1, <2>5
    <3>2. NextBegin(i) = ranges[i].begin BY <3>1 DEF NextBegin
    <3>3. ranges[i].begin <= ranges[k].begin /\ ranges[i].begin \in Nat
      BY <2>3, <3>1, RangeFacts, FieldsIncrease
    <3> QED BY <1>5, <2>2, <2>3, <3>2, <3>3
  <2> QED BY <1>1, <2>4, <2>5
<1> QED BY <1>1, <1>3, <1>4, <1>5

(* What missingRanges lists, and the sender is asked for on resume, is the    *)
(* complement of what is covered, in non-empty ranges.                        *)
THEOREM SpecMissingIsComplement == Spec => []MissingIsComplement
<1>1. ASSUME IInv PROVE MissingIsComplement
  <2> DEFINE N == Cardinality(Gaps)
             Gap(n) == Nth(Gaps, <, n)
  <2>1. Ordered /\ covered = BytesOf(ranges) BY <1>1 DEF IInv
  <2>2. TotalSize \in Nat /\ Len(ranges) \in Nat
    BY <2>1, TotalSizeAssumption, WordAssumption DEF Ordered
  <2>3. /\ N \in Nat
        /\ \A n \in 1 .. N : Gap(n) \in Gaps
        /\ \A i \in Gaps : \E n \in 1 .. N : Gap(n) = i
    <3>1. PICK m \in Nat : m = Len(ranges) + 1 BY <2>2
    <3>2. Gaps \in SUBSET (1 .. m) BY <3>1 DEF Gaps
    <3> HIDE DEF N, Gap
    <3> QED BY <3>2, NthGap DEF N, Gap
  <2>4. MissingRanges = [n \in 1 .. N |-> Range2(Expected(Gap(n)), NextBegin(Gap(n)))]
    BY DEF MissingRanges
  <2> HIDE DEF N, Gap
  <2>5. Len(MissingRanges) = N
    <3>1. \A n \in 1 .. N : Range2(Expected(Gap(n)), NextBegin(Gap(n))) \in [begin : Nat, end : Nat]
      BY <2>1, <2>3, GapHasNoBytes DEF Range2
    <3>2. MissingRanges \in [1 .. N -> [begin : Nat, end : Nat]] BY <2>4, <3>1
    <3> QED BY <2>3, <3>2
  <2>6. ASSUME NEW n \in 1 .. N
        PROVE  /\ Gap(n) \in Gaps
               /\ MissingRanges[n].begin = Expected(Gap(n))
               /\ MissingRanges[n].end = NextBegin(Gap(n))
    BY <2>3, <2>4 DEF Range2
  <2>7. ASSUME NEW n \in 1 .. N PROVE MissingRanges[n].begin < MissingRanges[n].end
    BY <2>1, <2>6, GapHasNoBytes
  <2>8. ASSUME NEW n \in 1 .. N, NEW p \in Bytes(MissingRanges[n])
        PROVE  p \in 0 .. TotalSize - 1 /\ p \notin covered
    <3>1. PICK i \in Gaps : i = Gap(n) BY <2>6
    <3>2. PICK b \in Nat, e \in Nat : b = Expected(i) /\ e = NextBegin(i) /\ e <= TotalSize
      BY <2>1, GapHasNoBytes
    <3>3. Bytes(MissingRanges[n]) = b .. e - 1 BY <2>6, <3>1, <3>2 DEF Bytes
    <3>4. p \in Nat /\ b <= p /\ p < e BY <2>8, <3>2, <3>3
    <3>5. p \notin BytesOf(ranges) BY <2>1, <3>2, <3>4, GapHasNoBytes
    <3> QED BY <2>1, <2>2, <3>2, <3>4, <3>5
  <2>9. ASSUME NEW p \in 0 .. TotalSize - 1, p \notin covered
        PROVE  \E n \in 1 .. N : p \in Bytes(MissingRanges[n])
    <3>1. PICK i \in Gaps : Expected(i) <= p /\ p < NextBegin(i) BY <2>1, <2>9, GapOfByte
    <3>2. PICK n \in 1 .. N : Gap(n) = i BY <2>3
    <3>3. PICK b \in Nat, e \in Nat : b = Expected(i) /\ e = NextBegin(i)
      BY <2>1, GapHasNoBytes
    <3>4. Bytes(MissingRanges[n]) = b .. e - 1 BY <2>6, <3>2, <3>3 DEF Bytes
    <3>5. p \in b .. e - 1 BY <2>2, <3>1, <3>3
    <3> QED BY <3>4, <3>5
  <2>10. UNION {Bytes(MissingRanges[i]) : i \in 1 .. Len(MissingRanges)}
           = (0 .. TotalSize - 1) \ covered
    BY <2>5, <2>8, <2>9
  <2>11. \A i \in 1 .. Len(MissingRanges) : MissingRanges[i].begin < MissingRanges[i].end
    BY <2>5, <2>7
  <2> QED BY <2>10, <2>11 DEF MissingIsComplement
<1> QED BY <1>1, SpecIInv, PTL
=============================================================================
