------------------------- MODULE MaxMindReader_proofs -------------------------
(***************************************************************************)
(* Proofs about MaxMindReader: in every well-formed database, of addresses *)
(* of any length, a lookup finds the network that contains the address,    *)
(* however many threads share the reader.                                  *)
(***************************************************************************)
EXTENDS MaxMindReader, SequenceTheorems, TLAPS

(* The first n bits of a path are a path, of n bits. *)
LEMMA FirstIsPath ==
  ASSUME NEW p \in Seq(Bit), NEW n \in 0..Len(p)
  PROVE  First(p, n) \in Seq(Bit) /\ Len(First(p, n)) = n
<1>1. \A j \in 1..n : p[j] \in Bit
  BY LenProperties
<1> QED
  BY <1>1, SubSeqProperties, LenProperties DEF First

(* The bits of a prefix are those of the path. *)
LEMMA FirstBits ==
  ASSUME NEW p \in Seq(Bit), NEW n \in 0..Len(p), NEW j \in 1..n
  PROVE  First(p, n)[j] = p[j]
<1>1. \A k \in 1..n : p[k] \in Bit
  BY LenProperties
<1> QED
  BY <1>1, SubSeqProperties, LenProperties DEF First

(* Paths of the same length and bits are the same. *)
LEMMA SamePath ==
  ASSUME NEW p \in Seq(Bit), NEW q \in Seq(Bit), Len(p) = Len(q),
         \A j \in 1..Len(p) : p[j] = q[j]
  PROVE  p = q
  BY SeqEqual

(* A prefix of a prefix is a prefix. *)
LEMMA FirstOfFirst ==
  ASSUME NEW p \in Seq(Bit), NEW n \in 0..Len(p), NEW k \in 0..n
  PROVE  First(First(p, n), k) = First(p, k)
<1>1. /\ First(p, n) \in Seq(Bit) /\ Len(First(p, n)) = n
      /\ First(p, k) \in Seq(Bit) /\ Len(First(p, k)) = k
  BY FirstIsPath, LenProperties
<1>2. First(First(p, n), k) \in Seq(Bit) /\ Len(First(First(p, n), k)) = k
  BY <1>1, FirstIsPath
<1>3. \A j \in 1..k : First(First(p, n), k)[j] = First(p, k)[j]
  <2> TAKE j \in 1..k
  <2>1. First(First(p, n), k)[j] = First(p, n)[j]
    BY <1>1, FirstBits
  <2>2. First(p, n)[j] = p[j] /\ First(p, k)[j] = p[j]
    BY FirstBits, LenProperties
  <2> QED
    BY <2>1, <2>2
<1> QED
  BY <1>1, <1>2, <1>3, SamePath

(* A prefix grows by the next bit. *)
LEMMA FirstAndNext ==
  ASSUME NEW p \in Seq(Bit), NEW n \in 0..Len(p) - 1
  PROVE  First(p, n + 1) = Append(First(p, n), p[n + 1])
<1>1. Len(p) \in Nat /\ p[n + 1] \in Bit
  BY LenProperties
<1>2. /\ First(p, n) \in Seq(Bit) /\ Len(First(p, n)) = n
      /\ First(p, n + 1) \in Seq(Bit) /\ Len(First(p, n + 1)) = n + 1
  BY <1>1, FirstIsPath
<1>3. /\ Append(First(p, n), p[n + 1]) \in Seq(Bit)
      /\ Len(Append(First(p, n), p[n + 1])) = n + 1
      /\ \A j \in 1..n : Append(First(p, n), p[n + 1])[j] = First(p, n)[j]
      /\ Append(First(p, n), p[n + 1])[n + 1] = p[n + 1]
  BY <1>1, <1>2, AppendProperties
<1>4. \A j \in 1..n + 1 :
        First(p, n + 1)[j] = Append(First(p, n), p[n + 1])[j]
  <2> TAKE j \in 1..n + 1
  <2>1. First(p, n + 1)[j] = p[j]
    BY <1>1, FirstBits
  <2>2. CASE j = n + 1
    BY <2>1, <2>2, <1>3
  <2>3. CASE j \in 1..n
    BY <2>1, <2>3, <1>1, <1>3, FirstBits
  <2>4. n \in Nat
    BY <1>1
  <2>5. j = n + 1 \/ j \in 1..n
    BY <2>4
  <2> QED
    BY <2>5, <2>2, <2>3
<1> QED
  BY <1>2, <1>3, <1>4, SamePath

(* The prefix of no bits is the root. *)
LEMMA FirstNone ==
  ASSUME NEW p \in Seq(Bit)
  PROVE  First(p, 0) = <<>>
  BY SubSeqEmpty DEF First

-----------------------------------------------------------------------------
(* What is less than a number that fits, fits. *)
LEMMA FitsBelow ==
  ASSUME NEW n \in Nat, NEW m \in Nat, n < m, NEW bits, Fits(m, bits)
  PROVE  Fits(n, bits)
<1>1. n \div 65536 <= m \div 65536 /\ n \div 65536 \in Nat /\ m \div 65536 \in Nat
  OBVIOUS
<1> DEFINE limit == IF bits = 24 THEN 256 ELSE IF bits = 28 THEN 4096 ELSE 65536
<1>2. limit \in Nat
  OBVIOUS
<1> HIDE DEF limit
<1> QED
  BY <1>1, <1>2 DEF Fits, limit

(* Every record fits its width. *)
LEMMA RecordFits ==
  ASSUME NEW d, WellFormed(d), NEW p
  PROVE  Record(d, p) \in Nat /\ Fits(Record(d, p), d.record_size)
<1>1. CASE p \in Nodes(d)
  <2>1. /\ Record(d, p) = d.number[p] /\ d.number[p] \in 0..d.node_count - 1
        /\ d.node_count \in Nat /\ Fits(d.node_count, d.record_size)
    BY <1>1 DEF WellFormed, Record
  <2>2. d.number[p] \in Nat /\ d.number[p] < d.node_count
    BY <2>1
  <2> QED
    BY <2>1, <2>2, FitsBelow
<1>2. CASE p \notin Nodes(d) /\ p \in Networks(d)
  BY <1>2 DEF WellFormed, Record, Separator
<1>3. CASE p \notin Nodes(d) /\ p \notin Networks(d)
  BY <1>3 DEF WellFormed, Record
<1> QED
  BY <1>1, <1>2, <1>3

(* Four bytes of a number are the number. *)
LEMMA BytesOfNumber ==
  ASSUME NEW v \in Nat
  PROVE  LET b == Bytes(v) IN
         /\ v \div 65536 < 256 => BigEndian(0, b[2], b[3], b[4]) = v
         /\ v \div 65536 < 65536 => BigEndian(b[1], b[2], b[3], b[4]) = v
         /\ v \div 65536 < 4096 =>
              b[1] \in 0..15 /\ BigEndian(b[1], b[2], b[3], b[4]) = v
<1>1. v \div 65536 < 256 =>
        ((v \div 65536) % 256) * 65536 + ((v \div 256) % 256) * 256 + (v % 256) = v
  OBVIOUS
<1>2. v \div 65536 < 65536 =>
        ((v \div 16777216) % 256) * 16777216 + ((v \div 65536) % 256) * 65536
          + ((v \div 256) % 256) * 256 + (v % 256) = v
  OBVIOUS
<1>3. v \div 65536 < 4096 => (v \div 16777216) % 256 \in 0..15
  OBVIOUS
<1> QED
  BY <1>1, <1>2, <1>3 DEF BigEndian, Bytes

(* The bytes of the tree at a node's place are those of its two records. *)
LEMMA ByteOfNode ==
  ASSUME NEW d, WellFormed(d), NEW p \in Nodes(d), NEW k \in Nat,
         k < NodeByteSize(d)
  PROVE  Byte(d, d.number[p] * NodeByteSize(d) + k)
           = Packed(d.record_size, Record(d, Append(p, 0)),
                    Record(d, Append(p, 1)))[k + 1]
<1> DEFINE o == d.number[p] * NodeByteSize(d) + k
<1>1. d.number[p] \in Nat
  BY DEF WellFormed
<1>2. d.record_size \in {24, 28, 32}
  BY DEF WellFormed
<1>3. NodeByteSize(d) \in {6, 7, 8}
  BY <1>2 DEF NodeByteSize
<1>4. o \div NodeByteSize(d) = d.number[p] /\ o % NodeByteSize(d) = k
  <2>1. CASE NodeByteSize(d) = 6
    BY <1>1, <2>1
  <2>2. CASE NodeByteSize(d) = 7
    BY <1>1, <2>2
  <2>3. CASE NodeByteSize(d) = 8
    BY <1>1, <2>3
  <2> QED
    BY <1>3, <2>1, <2>2, <2>3
<1>5. \A q \in Nodes(d) : d.number[q] = o \div NodeByteSize(d) => q = p
  BY <1>4 DEF WellFormed
<1>6. (CHOOSE q \in Nodes(d) : d.number[q] = o \div NodeByteSize(d)) = p
  BY <1>4, <1>5
<1> HIDE DEF o
<1>7. Byte(d, o) = Packed(d.record_size, Record(d, Append(p, 0)),
                          Record(d, Append(p, 1)))[k + 1]
  BY <1>4, <1>6 DEF Byte
<1> QED
  BY <1>7 DEF o

(* _read_node reads back the record that a node's bytes stand for, of 24,  *)
(* 28 or 32 bits (reader.py:190-210).                                      *)
THEOREM ReadNodeIsRecord ==
  ASSUME NEW d, WellFormed(d), NEW p \in Nodes(d), NEW b \in Bit
  PROVE  ReadNode(d, d.number[p], b) = Record(d, Append(p, b))
<1> DEFINE left == Record(d, Append(p, 0))
           right == Record(d, Append(p, 1))
           base == d.number[p] * NodeByteSize(d)
<1>1. /\ left \in Nat /\ Fits(left, d.record_size)
      /\ right \in Nat /\ Fits(right, d.record_size)
  BY RecordFits
<1>2. d.number[p] \in Nat
  BY DEF WellFormed
<1>3. \A k \in Nat : k < NodeByteSize(d) =>
        Byte(d, base + k) = Packed(d.record_size, left, right)[k + 1]
  BY ByteOfNode
<1>4. d.record_size \in {24, 28, 32}
  BY DEF WellFormed
<1>5. base \in Nat
  BY <1>2, <1>4 DEF NodeByteSize
<1> HIDE DEF left, right
<1> DEFINE l == Bytes(left)
           r == Bytes(right)
<1>7. /\ d.record_size = 24 => BigEndian(0, l[2], l[3], l[4]) = left
      /\ d.record_size = 24 => BigEndian(0, r[2], r[3], r[4]) = right
      /\ d.record_size # 24 => BigEndian(l[1], l[2], l[3], l[4]) = left
      /\ d.record_size # 24 => BigEndian(r[1], r[2], r[3], r[4]) = right
      /\ d.record_size = 28 => l[1] \in 0..15 /\ r[1] \in 0..15
      /\ l[1] \in Nat /\ r[1] \in Nat
  <2> HIDE DEF left, right
  <2>1. /\ left \div 65536 < 256 => BigEndian(0, l[2], l[3], l[4]) = left
        /\ left \div 65536 < 65536 => BigEndian(l[1], l[2], l[3], l[4]) = left
        /\ left \div 65536 < 4096 => l[1] \in 0..15
    BY <1>1, BytesOfNumber
  <2>2. /\ right \div 65536 < 256 => BigEndian(0, r[2], r[3], r[4]) = right
        /\ right \div 65536 < 65536 => BigEndian(r[1], r[2], r[3], r[4]) = right
        /\ right \div 65536 < 4096 => r[1] \in 0..15
    BY <1>1, BytesOfNumber
  <2>3. l[1] \in Nat /\ r[1] \in Nat
    BY <1>1 DEF Bytes
  <2> HIDE DEF l, r
  <2>4. left \div 65536 \in Nat /\ right \div 65536 \in Nat
    BY <1>1
  <2> QED
    BY <1>1, <1>4, <2>1, <2>2, <2>3, <2>4 DEF Fits
<1> HIDE DEF l, r
<1>8. ReadNode(d, d.number[p], b) = IF b = 0 THEN left ELSE right
  <2>1. CASE d.record_size = 24
    <3>1. \A k \in 0..5 : Byte(d, base + k) = Packed(24, left, right)[k + 1]
      BY <2>1, <1>3 DEF NodeByteSize
    <3>2. ReadNode(d, d.number[p], b) =
            IF b = 0
              THEN BigEndian(0, Byte(d, base), Byte(d, base + 1), Byte(d, base + 2))
              ELSE BigEndian(0, Byte(d, base + 3), Byte(d, base + 4), Byte(d, base + 5))
      BY <1>5, <2>1 DEF ReadNode, Bit
    <3> QED
      BY <3>1, <3>2, <1>5, <1>7, <2>1 DEF Packed, l, r
  <2>2. CASE d.record_size = 28
    <3>1. \A k \in 0..6 : Byte(d, base + k) = Packed(28, left, right)[k + 1]
      BY <2>2, <1>3 DEF NodeByteSize
    <3>2. ReadNode(d, d.number[p], b) =
            IF b = 0
              THEN BigEndian(Byte(d, base + 3) \div 16, Byte(d, base),
                             Byte(d, base + 1), Byte(d, base + 2))
              ELSE BigEndian(Byte(d, base + 3) % 16, Byte(d, base + 4),
                             Byte(d, base + 5), Byte(d, base + 6))
      BY <1>5, <2>2 DEF ReadNode, Unshare, Bit
    <3>3. /\ Byte(d, base) = l[2] /\ Byte(d, base + 1) = l[3]
          /\ Byte(d, base + 2) = l[4] /\ Byte(d, base + 3) = 16 * l[1] + r[1]
          /\ Byte(d, base + 4) = r[2] /\ Byte(d, base + 5) = r[3]
          /\ Byte(d, base + 6) = r[4]
      BY <3>1, <1>5 DEF Packed, l, r
    <3>4. (16 * l[1] + r[1]) \div 16 = l[1] /\ (16 * l[1] + r[1]) % 16 = r[1]
      BY <1>7, <2>2
    <3> QED
      BY <3>2, <3>3, <3>4, <1>7, <2>2
  <2>3. CASE d.record_size = 32
    <3>1. \A k \in 0..7 : Byte(d, base + k) = Packed(32, left, right)[k + 1]
      BY <2>3, <1>3 DEF NodeByteSize
    <3>2. ReadNode(d, d.number[p], b) =
            IF b = 0
              THEN BigEndian(Byte(d, base), Byte(d, base + 1),
                             Byte(d, base + 2), Byte(d, base + 3))
              ELSE BigEndian(Byte(d, base + 4), Byte(d, base + 5),
                             Byte(d, base + 6), Byte(d, base + 7))
      BY <1>5, <2>3 DEF ReadNode, Bit
    <3> QED
      BY <3>1, <3>2, <1>5, <1>7, <2>3 DEF Packed, l, r
  <2> QED
    BY <1>4, <2>1, <2>2, <2>3
<1> QED
  BY <1>8 DEF left, right, Bit

-----------------------------------------------------------------------------
(* The descent: v is the record at the end of the first n bits of p, and   *)
(* all that is shorter is a node.                                          *)
Reached(d, p, n, v) ==
  /\ v = Record(d, First(p, n))
  /\ \A k \in 0..n - 1 : First(p, k) \in Nodes(d)

(* The descent starts at the root. *)
LEMMA RootReached ==
  ASSUME NEW d, WellFormed(d), NEW p \in Seq(Bit)
  PROVE  Reached(d, p, 0, 0)
  BY FirstNone DEF Reached, WellFormed, Record

(* A record tells a node from an empty record and from a network. *)
LEMMA KindOfRecord ==
  ASSUME NEW d, WellFormed(d), NEW p
  PROVE  /\ Record(d, p) \in Nat
         /\ Record(d, p) < d.node_count <=> p \in Nodes(d)
         /\ p \in Nodes(d) => Record(d, p) = d.number[p]
         /\ Record(d, p) = d.node_count => p \notin Nodes(d) /\ p \notin Networks(d)
         /\ Record(d, p) > d.node_count =>
              /\ p \in Networks(d) /\ d.data[p] \in 0..d.data_size - 1
              /\ Record(d, p) = d.node_count + Separator + d.data[p]
<1>1. d.node_count \in Nat
  BY DEF WellFormed
<1>2. CASE p \in Nodes(d)
  <2>1. Record(d, p) = d.number[p] /\ d.number[p] \in 0..d.node_count - 1
    BY <1>2 DEF WellFormed, Record
  <2> QED
    BY <1>1, <1>2, <2>1
<1>3. CASE p \notin Nodes(d) /\ p \in Networks(d)
  <2>1. d.data[p] \in 0..d.data_size - 1 /\ d.data_size \in Nat
    BY <1>3 DEF WellFormed
  <2>2. Record(d, p) = d.node_count + 16 + d.data[p]
    BY <1>3 DEF Record, Separator
  <2> QED
    BY <1>1, <1>3, <2>1, <2>2 DEF Separator
<1>4. CASE p \notin Nodes(d) /\ p \notin Networks(d)
  BY <1>1, <1>4 DEF Record
<1> QED
  BY <1>2, <1>3, <1>4

(* Reading the next node descends by one bit. *)
LEMMA NextReached ==
  ASSUME NEW d, WellFormed(d), NEW p \in Seq(Bit), NEW n \in 0..Len(p) - 1, NEW v,
         Reached(d, p, n, v), v < d.node_count
  PROVE  Reached(d, p, n + 1, ReadNode(d, v, p[n + 1]))
<1>1. First(p, n) \in Nodes(d) /\ v = d.number[First(p, n)]
  BY KindOfRecord DEF Reached
<1>2. p[n + 1] \in Bit
  BY LenProperties
<1>3. ReadNode(d, v, p[n + 1]) = Record(d, First(p, n + 1))
  <2>1. ReadNode(d, d.number[First(p, n)], p[n + 1])
          = Record(d, Append(First(p, n), p[n + 1]))
    BY <1>1, <1>2, ReadNodeIsRecord
  <2> QED
    BY <1>1, <2>1, FirstAndNext
<1>4. \A k \in 0..n : First(p, k) \in Nodes(d)
  BY <1>1 DEF Reached
<1> QED
  BY <1>3, <1>4, LenProperties DEF Reached

(* Where the descent ends at "no data", no network has to do with the path. *)
LEMMA NoNetwork ==
  ASSUME NEW d, WellFormed(d), NEW p \in Seq(Bit), NEW n \in 0..Len(p),
         Reached(d, p, n, d.node_count), NEW m \in n..Len(p), NEW w \in Networks(d)
  PROVE  ~ Within(p, w) /\ ~ Within(w, First(p, m))
<1>1. w \in Seq(Bit) /\ Len(w) \in Nat /\ Len(p) \in Nat /\ m \in 0..Len(p)
  BY LenProperties DEF WellFormed
<1>2. First(p, n) \notin Nodes(d) /\ First(p, n) \notin Networks(d)
  BY KindOfRecord DEF Reached
<1>3. ASSUME Len(w) >= n, First(w, n) = First(p, n)
      PROVE  FALSE
  <2>1. CASE Len(w) = n
    <3>1. First(w, n) = w
      <4>1. n \in 0..Len(w) /\ First(w, n) \in Seq(Bit) /\ Len(First(w, n)) = n
        BY <1>1, <2>1, FirstIsPath
      <4>2. \A j \in 1..n : First(w, n)[j] = w[j]
        BY <1>1, <4>1, FirstBits
      <4> QED
        BY <1>1, <2>1, <4>1, <4>2, SamePath
    <3> QED
      BY <3>1, <1>2, <1>3
  <2>2. CASE Len(w) > n
    BY <1>1, <1>2, <1>3, <2>2 DEF WellFormed
  <2> QED
    BY <1>1, <1>3, <2>1, <2>2
<1>4. ~ Within(w, First(p, m))
  <2> SUFFICES ASSUME Within(w, First(p, m)) PROVE FALSE
    OBVIOUS
  <2>1. m <= Len(w) /\ First(p, m) = First(w, m)
    BY <1>1, FirstIsPath DEF Within
  <2>2. First(w, n) = First(p, n)
    <3>1. First(First(p, m), n) = First(p, n)
      BY <1>1, FirstOfFirst
    <3>2. First(First(w, m), n) = First(w, n)
      BY <1>1, <2>1, FirstOfFirst
    <3> QED
      BY <2>1, <3>1, <3>2
  <2> QED
    BY <1>1, <1>3, <2>1, <2>2
<1>5. ~ Within(p, w)
  <2> SUFFICES ASSUME Within(p, w) PROVE FALSE
    OBVIOUS
  <2>1. Len(w) <= Len(p) /\ w = First(p, Len(w))
    BY DEF Within
  <2>2. CASE Len(w) < n
    BY <1>1, <2>1, <2>2 DEF Reached, WellFormed
  <2>3. CASE Len(w) >= n
    <3>1. First(w, n) = First(p, n)
      BY <1>1, <2>1, <2>3, FirstOfFirst
    <3> QED
      BY <3>1, <2>3, <1>3
  <2> QED
    BY <1>1, <2>2, <2>3
<1> QED
  BY <1>4, <1>5

-----------------------------------------------------------------------------
(* The whole address is a path: zeros for the bits skipped, then the       *)
(* address.                                                                *)
LEMMA WholeIsPath ==
  ASSUME NEW t, version[t] \in {4, 6}, packed[t] \in Address(version[t])
  PROVE  /\ Skipped(t) \in Nat /\ Bits(version[t]) \in Nat
         /\ Whole(t) \in Seq(Bit)
         /\ Len(Whole(t)) = Skipped(t) + Bits(version[t])
         /\ \A j \in 1..Bits(version[t]) : Whole(t)[Skipped(t) + j] = packed[t][j]
         /\ \A j \in 1..Skipped(t) : Whole(t)[j] = 0
<1>1. Skipped(t) \in Nat /\ Bits(version[t]) \in Nat
  BY BitsAssumption DEF Skipped, Skips, Bits
<1> DEFINE size == Skipped(t) + Bits(version[t])
<1>2. size \in Nat
  BY <1>1
<1>3. \A j \in 1..size : Whole(t)[j] = IF j <= Skipped(t) THEN 0
                                       ELSE packed[t][j - Skipped(t)]
  BY DEF Whole
<1>4. \A j \in 1..size : Whole(t)[j] \in Bit
  BY <1>1, <1>3 DEF Address, Bit
<1>5. Whole(t) \in [1..size -> Bit]
  BY <1>4 DEF Whole
<1>6. Whole(t) \in Seq(Bit) /\ Len(Whole(t)) = size
  BY <1>2, <1>5
<1>7. \A j \in 1..Bits(version[t]) : Whole(t)[Skipped(t) + j] = packed[t][j]
  <2> TAKE j \in 1..Bits(version[t])
  <2>1. /\ Skipped(t) + j \in 1..size /\ ~ (Skipped(t) + j <= Skipped(t))
        /\ Skipped(t) + j - Skipped(t) = j
    BY <1>1
  <2>2. Whole(t)[Skipped(t) + j]
          = IF Skipped(t) + j <= Skipped(t) THEN 0
            ELSE packed[t][Skipped(t) + j - Skipped(t)]
    BY <1>1, <1>3, <2>1
  <2> QED
    BY <1>1, <2>1, <2>2
<1>8. \A j \in 1..Skipped(t) : Whole(t)[j] = 0
  BY <1>1, <1>3
<1> QED
  BY <1>1, <1>6, <1>7, <1>8

(* The first bits of the whole address, up to those skipped, are zeros. *)
LEMMA ZerosInFront ==
  ASSUME NEW t, version[t] \in {4, 6}, packed[t] \in Address(version[t]),
         NEW k \in 0..Skipped(t)
  PROVE  First(Whole(t), k) = [b \in 1..k |-> 0]
<1>1. /\ Skipped(t) \in Nat /\ k \in 0..Len(Whole(t)) /\ Whole(t) \in Seq(Bit)
      /\ \A j \in 1..k : Whole(t)[j] = 0
  BY WholeIsPath
<1>2. [b \in 1..k |-> 0] \in Seq(Bit) /\ Len([b \in 1..k |-> 0]) = k
  BY <1>1 DEF Bit
<1>3. First(Whole(t), k) \in Seq(Bit) /\ Len(First(Whole(t), k)) = k
  BY <1>1, FirstIsPath
<1>4. \A j \in 1..k : First(Whole(t), k)[j] = 0
  BY <1>1, FirstBits
<1> QED
  BY <1>2, <1>3, <1>4, SamePath

(* A step that keeps version and address keeps the whole address. *)
LEMMA WholeKept ==
  ASSUME NEW t, db' = db, version'[t] = version[t], packed'[t] = packed[t]
  PROVE  Skips(t)' = Skips(t) /\ Skipped(t)' = Skipped(t) /\ Whole(t)' = Whole(t)
<1>1. Skips(t)' = Skips(t) /\ Skipped(t)' = Skipped(t)
  BY DEF Skips, Skipped
<1> QED
  BY <1>1 DEF Whole

-----------------------------------------------------------------------------
(* What holds of a thread in the middle of a lookup: the first loop has    *)
(* descended along zeros; the second along the whole address, unless the   *)
(* zeros in front already led out of the tree.                             *)
Descends(t) ==
  /\ pc[t] # "idle" => ~ (version[t] = 6 /\ db.ip_version = 4)
  /\ pc[t] = "skip" =>
       /\ Skips(t) /\ i[t] \in 0..Skipped(t)
       /\ Reached(db, Whole(t), i[t], node[t])
  /\ pc[t] \in {"walk", "resolve"} =>
       \E n \in 0..Len(Whole(t)) :
         /\ Reached(db, Whole(t), n, node[t])
         /\ \/ n = Skipped(t) + i[t]
            \/ n < Skipped(t) /\ i[t] = 0 /\ First(Whole(t), n) \notin Nodes(db)
  /\ pc[t] = "resolve" => node[t] > db.node_count

(* The inductive invariant *)
Local(t) == Descends(t) /\ Correct(t) /\ HasCause(t)
IInv == db \in Databases /\ Types /\ StartNodeExact /\ \A t \in Threads : Local(t)

(* A reader that was just opened satisfies the invariant. *)
LEMMA InitEstablishes == Init => IInv
<1> SUFFICES ASSUME Init PROVE IInv
  OBVIOUS
<1>1. Types
  BY BitsAssumption DEF Init, Types, Address, Bits, Bit, NoAnswer, Result
<1>2. StartNodeExact
  BY DEF Init, StartNodeExact
<1>3. \A t \in Threads : Local(t)
  BY DEF Init, Local, Descends, Correct, HasCause, NoAnswer
<1> QED
  BY <1>1, <1>2, <1>3 DEF IInv, Init

(* A step of thread t leaves what holds of the others. *)
LEMMA StepKeeps ==
  ASSUME IInv, db' = db, closed => closed', NEW t \in Threads,
         \A u \in Threads \ {t} :
           /\ pc'[u] = pc[u] /\ version'[u] = version[u] /\ packed'[u] = packed[u]
           /\ node'[u] = node[u] /\ i'[u] = i[u] /\ result'[u] = result[u],
         Types', StartNodeExact', Local(t)'
  PROVE  IInv'
<1>1. ASSUME NEW u \in Threads \ {t} PROVE Local(u)'
  <2>1. Skips(u)' = Skips(u) /\ Skipped(u)' = Skipped(u) /\ Whole(u)' = Whole(u)
    BY <1>1, WholeKept
  <2>2. Descends(u)'
    BY <1>1, <2>1 DEF IInv, Local, Descends
  <2>3. Correct(u)'
    BY <1>1, <2>1 DEF IInv, Local, Correct
  <2>4. HasCause(u)'
    BY <1>1 DEF IInv, Local, HasCause
  <2> QED
    BY <2>2, <2>3, <2>4 DEF Local
<1> QED
  BY <1>1 DEF IInv

(* What the invariant says of one thread's variables. *)
LEMMA ThreadFacts ==
  ASSUME IInv, NEW t \in Threads
  PROVE  /\ WellFormed(db)
         /\ version[t] \in {4, 6} /\ packed[t] \in Address(version[t])
         /\ node[t] \in Nat /\ i[t] \in Nat
         /\ Skipped(t) \in Nat /\ Bits(version[t]) \in Nat
         /\ Whole(t) \in Seq(Bit)
         /\ Len(Whole(t)) = Skipped(t) + Bits(version[t])
<1>1. /\ WellFormed(db)
      /\ version[t] \in {4, 6} /\ packed[t] \in Address(version[t])
      /\ node[t] \in Nat /\ i[t] \in Nat
  BY DatabaseAssumption DEF IInv, Types
<1> QED
  BY <1>1, WholeIsPath

(* A lookup that ends with a result that is right *)
LEMMA ReturnKeeps ==
  ASSUME IInv, NEW t \in Threads, NEW value \in Result, Return(t, value),
         UNCHANGED <<db, ipv4_start, closed, version, packed>>,
         Correct(t)', HasCause(t)'
  PROVE  IInv'
<1>1. Types'
  BY DEF IInv, Types, Return, Goto
<1>2. StartNodeExact'
  BY DEF IInv, StartNodeExact
<1>3. Descends(t)'
  BY DEF IInv, Types, Return, Goto, Descends
<1>4. \A u \in Threads \ {t} :
        pc'[u] = pc[u] /\ node'[u] = node[u] /\ i'[u] = i[u] /\ result'[u] = result[u]
  BY DEF IInv, Types, Return, Goto
<1> QED
  BY <1>1, <1>2, <1>3, <1>4, StepKeeps DEF Local

(* Closing the reader keeps the invariant. *)
LEMMA CloseKeeps == IInv /\ Close => IInv'
<1> SUFFICES ASSUME IInv, Close PROVE IInv'
  OBVIOUS
<1>1. Types' /\ StartNodeExact' /\ db' \in Databases
  BY DEF IInv, Types, Close, StartNodeExact
<1>2. ASSUME NEW u \in Threads PROVE Local(u)'
  <2>1. Skips(u)' = Skips(u) /\ Skipped(u)' = Skipped(u) /\ Whole(u)' = Whole(u)
    BY WholeKept DEF Close
  <2>2. Descends(u)'
    BY <2>1 DEF IInv, Local, Descends, Close
  <2>3. Correct(u)'
    BY <2>1 DEF IInv, Local, Correct, Close
  <2>4. HasCause(u)'
    BY DEF IInv, Local, HasCause, Close
  <2> QED
    BY <2>2, <2>3, <2>4 DEF Local
<1> QED
  BY <1>1, <1>2 DEF IInv

(* A lookup that begins, or is refused for its version. *)
LEMMA GetKeeps ==
  ASSUME IInv, NEW t \in Threads, NEW v \in {4, 6}, NEW a \in Address(v), Get(t, v, a)
  PROVE  IInv'
<1>1. \A u \in Threads \ {t} :
        /\ pc'[u] = pc[u] /\ version'[u] = version[u] /\ packed'[u] = packed[u]
        /\ node'[u] = node[u] /\ i'[u] = i[u] /\ result'[u] = result[u]
  BY DEF IInv, Types, Get, Return, Goto
<1>2. version'[t] = v /\ packed'[t] = a
  BY DEF IInv, Types, Get
<1>3. \E why \in {"ValueError", "pending"} :
        /\ result'[t] = NoAnswer(why)
        /\ result' = [result EXCEPT ![t] = NoAnswer(why)]
        /\ why = "ValueError" => v = 6 /\ db.ip_version = 4 /\ pc'[t] = "idle"
        /\ why = "pending" => ~ (v = 6 /\ db.ip_version = 4) /\ pc'[t] = "start"
  BY DEF IInv, Types, Get, Return, Goto
<1>4. NoAnswer("ValueError") \in Result /\ NoAnswer("pending") \in Result
  BY DEF NoAnswer, Result
<1>5. node' \in [Threads -> Nat] /\ i' \in [Threads -> Nat]
      /\ pc' \in [Threads -> {"idle", "start", "skip", "walk", "resolve"}]
  BY DEF IInv, Types, Get, Return, Goto
<1>6. result' \in [Threads -> Result]
  BY <1>3, <1>4 DEF IInv, Types
<1>7. /\ packed' \in [Threads -> Address(4) \cup Address(6)]
      /\ \A u \in Threads : packed'[u] \in Address(version'[u])
  BY <1>1, <1>2 DEF IInv, Types, Get
<1>8. version' \in [Threads -> {4, 6}] /\ UNCHANGED <<db, ipv4_start, closed>>
  BY DEF IInv, Types, Get
<1>9. Types'
  BY <1>5, <1>6, <1>7, <1>8 DEF IInv, Types
<1>10. StartNodeExact'
  BY <1>8 DEF IInv, StartNodeExact
<1>11. Local(t)'
  <2>1. Descends(t)'
    BY <1>2, <1>3, <1>8 DEF Descends
  <2>2. Correct(t)' /\ HasCause(t)'
    BY <1>2, <1>3, <1>8 DEF Correct, HasCause, NoAnswer
  <2> QED
    BY <2>1, <2>2 DEF Local
<1> QED
  BY <1>1, <1>8, <1>9, <1>10, <1>11, StepKeeps

(* A lookup takes the start node that was kept, or begins at the root. *)
LEMMA StartKeeps ==
  ASSUME IInv, NEW t \in Threads, Start(t)
  PROVE  IInv'
<1>1. \A u \in Threads \ {t} :
        pc'[u] = pc[u] /\ node'[u] = node[u] /\ i'[u] = i[u]
  BY DEF IInv, Types, Start, Goto
<1>2. UNCHANGED <<db, ipv4_start, closed, version, packed, result>>
  BY DEF Start
<1>3. Types'
  BY DEF IInv, Types, Start, Goto
<1>4. StartNodeExact'
  BY <1>2 DEF IInv, StartNodeExact
<1>5. Skips(t)' = Skips(t) /\ Skipped(t)' = Skipped(t) /\ Whole(t)' = Whole(t)
  BY <1>2, WholeKept
<1>6. Correct(t)' /\ HasCause(t)'
  BY <1>2, <1>5 DEF IInv, Local, Correct, HasCause
<1>7. Reached(db, Whole(t), 0, 0)
  BY ThreadFacts, RootReached
<1>8. ~ (version[t] = 6 /\ db.ip_version = 4) /\ i'[t] = 0
  BY DEF IInv, Types, Local, Descends, Start
<1>9. CASE Skips(t) /\ ipv4_start \in {NoNode, 0}
  <2>1. pc'[t] = "skip" /\ node'[t] = 0
    BY <1>9 DEF IInv, Types, Start, Goto
  <2>2. Descends(t)'
    BY <1>2, <1>5, <1>7, <1>8, <1>9, <2>1, ThreadFacts DEF Descends
  <2> QED
    BY <1>1, <1>2, <1>3, <1>4, <1>6, <2>2, StepKeeps DEF Local
<1>10. CASE ~ Skips(t)
  <2>1. pc'[t] = "walk" /\ node'[t] = 0
    BY <1>10 DEF IInv, Types, Start, Goto
  <2>2. Skipped(t) = 0
    BY <1>10 DEF Skipped
  <2>3. 0 \in 0..Len(Whole(t)) /\ 0 = Skipped(t) + 0
    BY <2>2, ThreadFacts
  <2>4. Descends(t)'
    BY <1>2, <1>5, <1>7, <1>8, <2>1, <2>3 DEF Descends
  <2> QED
    BY <1>1, <1>2, <1>3, <1>4, <1>6, <2>4, StepKeeps DEF Local
<1>11. CASE Skips(t) /\ ipv4_start \notin {NoNode, 0}
  <2>1. pc'[t] = "walk" /\ node'[t] = ipv4_start
    BY <1>11 DEF IInv, Types, Start, Goto
  <2>2. Skipped(t) = BitsV6 - BitsV4
    BY <1>11 DEF Skipped
  <2>3. PICK k \in 0..Skipped(t) :
          /\ ipv4_start = Record(db, [b \in 1..k |-> 0])
          /\ k = Skipped(t) \/ [b \in 1..k |-> 0] \notin Nodes(db)
          /\ \A j \in 0..k - 1 : [b \in 1..j |-> 0] \in Nodes(db)
    BY <1>11, <2>2 DEF IInv, StartNodeExact
  <2>4. \A j \in 0..k : First(Whole(t), j) = [b \in 1..j |-> 0]
    BY ThreadFacts, ZerosInFront
  <2>5. k \in Nat /\ k \in 0..k
    BY ThreadFacts
  <2>6. Reached(db, Whole(t), k, node'[t])
    BY <2>1, <2>3, <2>4, <2>5 DEF Reached
  <2>7. /\ k \in 0..Len(Whole(t))
        /\ k = Skipped(t) + 0 \/ (k < Skipped(t) /\ First(Whole(t), k) \notin Nodes(db))
    <3>1. First(Whole(t), k) = [b \in 1..k |-> 0]
      BY <2>4, <2>5
    <3>2. k = Skipped(t) \/ First(Whole(t), k) \notin Nodes(db)
      BY <3>1, <2>3
    <3> QED
      BY <3>2, ThreadFacts
  <2>8. Descends(t)'
    BY <1>2, <1>5, <1>8, <2>1, <2>6, <2>7 DEF Descends
  <2> QED
    BY <1>1, <1>2, <1>3, <1>4, <1>6, <2>8, StepKeeps DEF Local
<1> QED
  BY <1>9, <1>10, <1>11

(* A file that was closed refuses to be read. *)
LEMMA RefusalKeeps ==
  ASSUME IInv, NEW t \in Threads, ~ Readable, Return(t, NoAnswer("ValueError")),
         UNCHANGED <<db, ipv4_start, closed, version, packed>>
  PROVE  IInv'
<1>1. NoAnswer("ValueError") \in Result
  BY DEF NoAnswer, Result
<1>2. result'[t] = NoAnswer("ValueError") /\ closed'
  BY DEF IInv, Types, Return, Readable
<1>3. Correct(t)' /\ HasCause(t)'
  BY <1>2 DEF Correct, HasCause, NoAnswer
<1> QED
  BY <1>1, <1>3, ReturnKeeps

(* An iteration keeps the invariant if it keeps the descent. *)
LEMMA FollowKeeps ==
  ASSUME IInv, NEW t \in Threads, NEW index \in Bit, Follow(t, index),
         NEW n \in 0..Len(Whole(t)) - 1, Reached(db, Whole(t), n, node[t]),
         node[t] < db.node_count, index = Whole(t)[n + 1],
         \/ pc[t] = "skip" /\ Skips(t) /\ n = i[t] /\ n < Skipped(t)
         \/ pc[t] = "walk" /\ n = Skipped(t) + i[t]
  PROVE  IInv'
<1>1. CASE Readable
  <2>1. Reached(db, Whole(t), n + 1, ReadNode(db, node[t], index))
    BY ThreadFacts, NextReached
  <2>2. ReadNode(db, node[t], index) \in Nat
    BY <2>1, ThreadFacts, KindOfRecord DEF Reached
  <2>3. /\ node' = [node EXCEPT ![t] = ReadNode(db, node[t], index)]
        /\ i' = [i EXCEPT ![t] = i[t] + 1]
        /\ UNCHANGED <<pc, result>>
    BY <1>1 DEF Follow
  <2>4. UNCHANGED <<db, ipv4_start, closed, version, packed>>
    BY DEF Follow
  <2>5. Types'
    BY <2>2, <2>3, <2>4 DEF IInv, Types
  <2>6. StartNodeExact'
    BY <2>4 DEF IInv, StartNodeExact
  <2>7. Skips(t)' = Skips(t) /\ Skipped(t)' = Skipped(t) /\ Whole(t)' = Whole(t)
    BY <2>4, WholeKept
  <2>8. Correct(t)' /\ HasCause(t)'
    BY <2>3, <2>4, <2>7 DEF IInv, Local, Correct, HasCause
  <2>9. node'[t] = ReadNode(db, node[t], index) /\ i'[t] = i[t] + 1
    BY <2>3 DEF IInv, Types
  <2>10. n + 1 \in 0..Len(Whole(t)) /\ i[t] \in Nat /\ Skipped(t) \in Nat /\ n \in Nat
    BY ThreadFacts
  <2>11. ~ (version[t] = 6 /\ db.ip_version = 4)
    BY DEF IInv, Local, Descends
  <2>12. CASE pc[t] = "skip" /\ Skips(t) /\ n = i[t] /\ n < Skipped(t)
    <3>1. i'[t] = n + 1 /\ i'[t] \in 0..Skipped(t) /\ pc'[t] = "skip"
      BY <2>3, <2>9, <2>10, <2>12
    <3>2. Descends(t)'
      BY <3>1, <2>1, <2>4, <2>7, <2>9, <2>11, <2>12 DEF Descends
    <3> QED
      BY <3>2, <2>3, <2>4, <2>5, <2>6, <2>8, StepKeeps DEF Local
  <2>13. CASE pc[t] = "walk" /\ n = Skipped(t) + i[t]
    <3>1. n + 1 = Skipped(t) + i'[t] /\ pc'[t] = "walk"
      BY <2>3, <2>9, <2>10, <2>13
    <3>2. Descends(t)'
      BY <3>1, <2>1, <2>4, <2>7, <2>9, <2>10, <2>11 DEF Descends
    <3> QED
      BY <3>2, <2>3, <2>4, <2>5, <2>6, <2>8, StepKeeps DEF Local
  <2> QED
    BY <2>12, <2>13
<1>2. CASE ~ Readable
  BY <1>2, RefusalKeeps DEF Follow
<1> QED
  BY <1>1, <1>2

(* A step along the zeros in front of an IPv4 address. *)
LEMMA SkipKeeps ==
  ASSUME IInv, NEW t \in Threads, Skip(t)
  PROVE  IInv'
<1>1. /\ Skips(t) /\ pc[t] = "skip" /\ i[t] < Skipped(t) /\ node[t] < db.node_count
      /\ Reached(db, Whole(t), i[t], node[t])
  BY DEF Skip, Skipped, IInv, Local, Descends
<1>2. i[t] \in 0..Len(Whole(t)) - 1
  BY <1>1, ThreadFacts
<1>3. Whole(t)[i[t] + 1] = 0
  BY <1>1, ThreadFacts, WholeIsPath
<1>4. Follow(t, 0) /\ 0 \in Bit
  BY DEF Skip, Bit
<1> QED
  BY <1>1, <1>2, <1>3, <1>4, FollowKeeps

(* A step along the bits of the address. *)
LEMMA WalkKeeps ==
  ASSUME IInv, NEW t \in Threads, Walk(t)
  PROVE  IInv'
<1>1. /\ pc[t] = "walk" /\ i[t] < Bits(version[t]) /\ node[t] < db.node_count
      /\ Follow(t, packed[t][i[t] + 1])
  BY DEF Walk
<1>2. PICK n \in 0..Len(Whole(t)) :
        /\ Reached(db, Whole(t), n, node[t])
        /\ \/ n = Skipped(t) + i[t]
           \/ n < Skipped(t) /\ i[t] = 0 /\ First(Whole(t), n) \notin Nodes(db)
  BY <1>1 DEF IInv, Local, Descends
<1>3. n = Skipped(t) + i[t]
  BY <1>1, <1>2, ThreadFacts, KindOfRecord DEF Reached
<1>4. n \in 0..Len(Whole(t)) - 1 /\ i[t] + 1 \in 1..Bits(version[t])
  BY <1>1, <1>3, ThreadFacts
<1>5. Whole(t)[n + 1] = packed[t][i[t] + 1]
  <2>1. Whole(t)[Skipped(t) + (i[t] + 1)] = packed[t][i[t] + 1]
    BY <1>4, ThreadFacts, WholeIsPath
  <2>2. Skipped(t) + (i[t] + 1) = n + 1
    BY <1>3, ThreadFacts
  <2> QED
    BY <2>1, <2>2
<1>6. packed[t][i[t] + 1] \in Bit
  BY <1>4, ThreadFacts DEF Address
<1> QED
  BY <1>1, <1>2, <1>3, <1>4, <1>5, <1>6, FollowKeeps

(* The end of the zeros becomes the start node, for this lookup and later. *)
LEMMA EndSkipKeeps ==
  ASSUME IInv, NEW t \in Threads, EndSkip(t)
  PROVE  IInv'
<1>1. /\ pc[t] = "skip" /\ ~ (i[t] < Skipped(t) /\ node[t] < db.node_count)
      /\ Skips(t) /\ i[t] \in 0..Skipped(t) /\ Reached(db, Whole(t), i[t], node[t])
      /\ Skipped(t) = BitsV6 - BitsV4
      /\ ~ (version[t] = 6 /\ db.ip_version = 4)
  BY DEF EndSkip, Skipped, IInv, Local, Descends
<1>2. i[t] = Skipped(t) \/ First(Whole(t), i[t]) \notin Nodes(db)
  BY <1>1, ThreadFacts, KindOfRecord DEF Reached
<1>3. \A j \in 0..i[t] : First(Whole(t), j) = [b \in 1..j |-> 0]
  BY <1>1, ThreadFacts, ZerosInFront
<1>4. ipv4_start' = node[t] /\ UNCHANGED <<db, closed, version, packed, node, result>>
  BY DEF EndSkip
<1>5. StartNodeExact'
  <2>1. First(Whole(t), i[t]) = [b \in 1..i[t] |-> 0]
    <3>1. i[t] \in 0..i[t]
      BY ThreadFacts
    <3> QED
      BY <3>1, <1>3
  <2>2. node[t] = Record(db, [b \in 1..i[t] |-> 0])
    BY <1>1, <2>1 DEF Reached
  <2>3. i[t] = BitsV6 - BitsV4 \/ [b \in 1..i[t] |-> 0] \notin Nodes(db)
    BY <1>1, <1>2, <2>1
  <2>4. \A j \in 0..i[t] - 1 : [b \in 1..j |-> 0] \in Nodes(db)
    <3> TAKE j \in 0..i[t] - 1
    <3>1. First(Whole(t), j) = [b \in 1..j |-> 0]
      BY <1>3, ThreadFacts
    <3> QED
      BY <3>1, <1>1 DEF Reached
  <2>5. i[t] \in 0..BitsV6 - BitsV4
    BY <1>1
  <2> QED
    BY <1>4, <2>2, <2>3, <2>4, <2>5 DEF StartNodeExact
<1>6. /\ pc' = [pc EXCEPT ![t] = "walk"] /\ i' = [i EXCEPT ![t] = 0]
      /\ pc'[t] = "walk" /\ i'[t] = 0
  BY DEF EndSkip, Goto, IInv, Types
<1>7. Types'
  BY <1>4, <1>6, ThreadFacts DEF IInv, Types
<1>8. Skips(t)' = Skips(t) /\ Skipped(t)' = Skipped(t) /\ Whole(t)' = Whole(t)
  BY <1>4, WholeKept
<1>9. Correct(t)' /\ HasCause(t)'
  BY <1>4, <1>8 DEF IInv, Local, Correct, HasCause
<1>10. /\ i[t] \in 0..Len(Whole(t))
       /\ \/ i[t] = Skipped(t) + 0
          \/ i[t] < Skipped(t) /\ First(Whole(t), i[t]) \notin Nodes(db)
  BY <1>1, <1>2, ThreadFacts
<1>11. Descends(t)'
  BY <1>1, <1>4, <1>6, <1>8, <1>10 DEF Descends
<1> QED
  BY <1>4, <1>5, <1>6, <1>7, <1>9, <1>11, StepKeeps DEF Local

(* The end of the walk: a network, or none, and never a node. *)
LEMMA EndWalkKeeps ==
  ASSUME IInv, NEW t \in Threads, EndWalk(t)
  PROVE  IInv'
<1>1. /\ pc[t] = "walk" /\ ~ (i[t] < Bits(version[t]) /\ node[t] < db.node_count)
      /\ UNCHANGED <<db, ipv4_start, closed, version, packed>>
      /\ ~ (version[t] = 6 /\ db.ip_version = 4)
  BY DEF EndWalk, IInv, Local, Descends
<1>2. PICK n \in 0..Len(Whole(t)) :
        /\ Reached(db, Whole(t), n, node[t])
        /\ \/ n = Skipped(t) + i[t]
           \/ n < Skipped(t) /\ i[t] = 0 /\ First(Whole(t), n) \notin Nodes(db)
  BY <1>1 DEF IInv, Local, Descends
<1>3. Skips(t)' = Skips(t) /\ Skipped(t)' = Skipped(t) /\ Whole(t)' = Whole(t)
  BY <1>1, WholeKept
<1>4. node[t] >= db.node_count
  <2> SUFFICES ASSUME node[t] < db.node_count PROVE FALSE
    BY ThreadFacts DEF WellFormed
  <2>1. First(Whole(t), n) \in Nodes(db)
    BY <1>2, ThreadFacts, KindOfRecord DEF Reached
  <2>2. n = Skipped(t) + i[t] /\ ~ (i[t] < Bits(version[t]))
    BY <1>1, <1>2, <2>1
  <2>3. n = Len(Whole(t)) /\ Len(First(Whole(t), n)) = n
    BY <2>2, ThreadFacts, FirstIsPath
  <2>4. Len(Whole(t)) = Bits(db.ip_version)
    <3>1. db.ip_version \in {4, 6} /\ version[t] \in {4, 6}
      BY ThreadFacts DEF WellFormed
    <3>2. CASE Skips(t)
      BY <3>1, <3>2, ThreadFacts, BitsAssumption DEF Skips, Skipped, Bits
    <3>3. CASE ~ Skips(t)
      <4>1. version[t] = db.ip_version
        BY <3>1, <3>3, <1>1 DEF Skips
      <4>2. Skipped(t) = 0
        BY <3>3 DEF Skipped
      <4> QED
        BY <4>1, <4>2, ThreadFacts
    <3> QED
      BY <3>2, <3>3
  <2> QED
    BY <2>1, <2>3, <2>4, ThreadFacts DEF WellFormed
<1>5. CASE node[t] > db.node_count
  <2>1. pc' = [pc EXCEPT ![t] = "resolve"] /\ UNCHANGED <<node, i, result>>
    BY <1>5 DEF EndWalk, Goto
  <2>2. Types'
    BY <1>1, <2>1 DEF IInv, Types
  <2>3. StartNodeExact'
    BY <1>1 DEF IInv, StartNodeExact
  <2>4. Correct(t)' /\ HasCause(t)'
    BY <1>1, <1>3, <2>1 DEF IInv, Local, Correct, HasCause
  <2>5. pc'[t] = "resolve"
    BY <2>1 DEF IInv, Types
  <2>6. Descends(t)'
    BY <1>1, <1>2, <1>3, <1>5, <2>1, <2>5 DEF Descends
  <2> QED
    BY <1>1, <2>1, <2>2, <2>3, <2>4, <2>6, StepKeeps DEF Local
<1>6. CASE node[t] = db.node_count
  <2>1. Return(t, Answer(NoNode, i[t]))
    BY <1>6, ThreadFacts DEF EndWalk, WellFormed
  <2>2. Answer(NoNode, i[t]) \in Result
    BY ThreadFacts DEF Answer, Result
  <2>3. result'[t] = Answer(NoNode, i[t])
    BY <2>1 DEF IInv, Types, Return
  <2>4. HasCause(t)'
    BY <2>3 DEF HasCause, Answer
  <2>5. i[t] + Skipped(t) \in n..Len(Whole(t))
    BY <1>2, ThreadFacts
  <2>6. \A w \in Networks(db) :
          ~ Within(Whole(t), w) /\ ~ Within(w, First(Whole(t), i[t] + Skipped(t)))
    BY <1>2, <1>6, <2>5, ThreadFacts, NoNetwork
  <2>7. Correct(t)'
    BY <1>1, <1>3, <2>3, <2>6 DEF Correct, Answer
  <2> QED
    BY <1>1, <2>1, <2>2, <2>4, <2>7, ReturnKeeps
<1> QED
  BY <1>4, <1>5, <1>6, ThreadFacts DEF WellFormed

(* Where the data are that a record points to. *)
LEMMA PlaceOfData ==
  ASSUME NEW v \in Int, NEW c \in Int, NEW s \in Int, NEW k \in Int, NEW z \in Int,
         NEW m \in Int, v = c + s + k, k < z
  PROVE  (v - c + m) - (m + s) = k /\ ~ (v - c + m >= m + s + z)
OBVIOUS

(* The data of the network that was found. *)
LEMMA ResolveKeeps ==
  ASSUME IInv, NEW t \in Threads, Resolve(t)
  PROVE  IInv'
<1>1. /\ pc[t] = "resolve" /\ node[t] > db.node_count
      /\ UNCHANGED <<db, ipv4_start, closed, version, packed>>
  BY DEF Resolve, IInv, Local, Descends
<1>2. PICK n \in 0..Len(Whole(t)) :
        /\ Reached(db, Whole(t), n, node[t])
        /\ n = Skipped(t) + i[t] \/ (n < Skipped(t) /\ i[t] = 0)
  BY <1>1 DEF IInv, Local, Descends
<1> DEFINE w == First(Whole(t), n)
<1>3. /\ w \in Networks(db) /\ db.data[w] \in 0..db.data_size - 1
      /\ node[t] = db.node_count + Separator + db.data[w]
  BY <1>1, <1>2, ThreadFacts, KindOfRecord DEF Reached
<1> HIDE DEF w
<1>4. /\ db.node_count \in Nat /\ db.data_size \in Nat /\ db.data[w] \in Nat
      /\ db.data[w] < db.data_size /\ Separator \in Nat
  <2>1. db.node_count \in Nat /\ db.data_size \in Nat
    BY ThreadFacts DEF WellFormed
  <2> QED
    BY ONLY <1>3, <2>1 DEF Separator
<1>5. SearchTreeSize(db) \in Int
  <2>1. db.record_size \in {24, 28, 32}
    BY ThreadFacts DEF WellFormed
  <2>2. db.record_size \div 4 \in Nat
    BY <2>1
  <2> QED
    BY <1>4, <2>2 DEF SearchTreeSize, NodeByteSize
<1> DEFINE resolved == node[t] - db.node_count + SearchTreeSize(db)
           start == SearchTreeSize(db) + Separator
<1>6. resolved - start = db.data[w] /\ ~ (resolved >= start + db.data_size)
  <2>1. node[t] \in Int /\ db.node_count \in Int /\ Separator \in Int
        /\ db.data[w] \in Int /\ db.data_size \in Int
    BY ONLY <1>3, <1>4
  <2> QED
    BY ONLY <1>3, <1>4, <1>5, <2>1, PlaceOfData
<1>7. Return(t, IF resolved >= start + db.data_size
                  THEN NoAnswer("InvalidDatabaseError")
                ELSE IF Readable THEN Answer(resolved - start, i[t])
                ELSE NoAnswer("ValueError"))
  BY DEF Resolve
<1> HIDE DEF resolved, start
<1>8. CASE Readable
  <2>1. Return(t, Answer(db.data[w], i[t]))
    BY <1>6, <1>7, <1>8
  <2>2. Answer(db.data[w], i[t]) \in Result
    BY <1>4, ThreadFacts DEF Answer, Result
  <2>3. result'[t] = Answer(db.data[w], i[t])
    BY <2>1 DEF IInv, Types, Return
  <2>4. HasCause(t)'
    BY <2>3 DEF HasCause, Answer
  <2>5. Skips(t)' = Skips(t) /\ Skipped(t)' = Skipped(t) /\ Whole(t)' = Whole(t)
    BY <1>1, WholeKept
  <2>6. Len(w) = n /\ Within(Whole(t), w)
    <3>1. Whole(t) \in Seq(Bit) /\ Len(Whole(t)) \in Nat
      BY ThreadFacts, LenProperties
    <3>2. Len(w) = n
      BY <3>1, FirstIsPath DEF w
    <3> QED
      BY ONLY <1>2, <3>1, <3>2 DEF Within, w
  <2>7. Len(w) = i[t] + Skipped(t) \/ (i[t] = 0 /\ Len(w) < i[t] + Skipped(t))
    BY <1>2, <2>6, ThreadFacts
  <2>8. db.data[w] # NoNode
    BY <1>4, ReaderAssumption
  <2>9. Correct(t)'
    BY <1>1, <1>3, <2>3, <2>5, <2>6, <2>7, <2>8 DEF Correct, Answer
  <2> QED
    BY <1>1, <2>1, <2>2, <2>4, <2>9, ReturnKeeps
<1>9. CASE ~ Readable
  <2>1. Return(t, NoAnswer("ValueError"))
    BY <1>6, <1>7, <1>9
  <2> QED
    BY <1>1, <1>9, <2>1, RefusalKeeps
<1> QED
  BY <1>8, <1>9

(* Every step keeps the invariant. *)
LEMMA Inductive == IInv /\ [Next]_vars => IInv'
<1> SUFFICES ASSUME IInv, [Next]_vars PROVE IInv'
  OBVIOUS
<1>1. CASE Close
  BY <1>1, CloseKeeps
<1>2. ASSUME NEW t \in Threads, NEW v \in {4, 6}, NEW a \in Address(v), Get(t, v, a)
      PROVE  IInv'
  BY <1>2, GetKeeps
<1>3. ASSUME NEW t \in Threads,
             Start(t) \/ Skip(t) \/ EndSkip(t) \/ Walk(t) \/ EndWalk(t) \/ Resolve(t)
      PROVE  IInv'
  BY <1>3, StartKeeps, SkipKeeps, EndSkipKeeps, WalkKeeps, EndWalkKeeps, ResolveKeeps
<1>4. CASE UNCHANGED vars
  <2>1. Types' /\ StartNodeExact' /\ db' \in Databases
    BY <1>4 DEF vars, IInv, Types, StartNodeExact
  <2>2. ASSUME NEW t \in Threads PROVE Local(t)'
    <3>1. Skips(t)' = Skips(t) /\ Skipped(t)' = Skipped(t) /\ Whole(t)' = Whole(t)
      BY <1>4, WholeKept DEF vars
    <3>2. Descends(t)'
      BY <1>4, <3>1 DEF vars, IInv, Local, Descends
    <3>3. Correct(t)'
      BY <1>4, <3>1 DEF vars, IInv, Local, Correct
    <3>4. HasCause(t)'
      BY <1>4 DEF vars, IInv, Local, HasCause
    <3> QED
      BY <3>2, <3>3, <3>4 DEF Local
  <2> QED
    BY <2>1, <2>2 DEF IInv
<1> QED
  BY <1>1, <1>2, <1>3, <1>4 DEF Next

-----------------------------------------------------------------------------
(* The variables keep their types, and neither loop takes more steps than  *)
(* there are bits: the zeros in front of an IPv4 address, and the address  *)
(* (reader.py:160-163, 183-186).                                           *)
THEOREM TypeCorrect == Spec => []TypeOK
<1>1. IInv => TypeOK
  <2> SUFFICES ASSUME IInv, NEW t \in Threads PROVE WithinAddress(t)
    BY DEF IInv, TypeOK
  <2>1. ASSUME pc[t] = "skip" PROVE i[t] <= BitsV6 - BitsV4
    <3>1. Skips(t) /\ i[t] \in 0..Skipped(t)
      BY <2>1 DEF IInv, Local, Descends
    <3> QED
      BY <3>1, ThreadFacts DEF Skipped
  <2>2. ASSUME pc[t] \in {"walk", "resolve"} PROVE i[t] <= Bits(version[t])
    <3>1. PICK n \in 0..Len(Whole(t)) : n = Skipped(t) + i[t] \/ i[t] = 0
      BY <2>2 DEF IInv, Local, Descends
    <3> QED
      BY <3>1, ThreadFacts
  <2> QED
    BY <2>1, <2>2 DEF WithinAddress
<1> QED
  BY InitEstablishes, Inductive, <1>1, PTL DEF Spec

(* In every well-formed database, a lookup that returns has found the      *)
(* network of the address and its prefix, or that there is none, whatever  *)
(* other lookups and close() do meanwhile (reader.py:148-219).             *)
THEOREM LookupsCorrect == Spec => []LookupCorrect
<1>1. IInv => LookupCorrect
  BY DEF IInv, Local, LookupCorrect
<1> QED
  BY InitEstablishes, Inductive, <1>1, PTL DEF Spec

(* No lookup reports a well-formed database as invalid, or raises without  *)
(* a cause (reader.py:142, 171, 215, 224).                                 *)
THEOREM ErrorsCaused == Spec => []ErrorsHaveCause
<1>1. IInv => ErrorsHaveCause
  BY DEF IInv, Local, ErrorsHaveCause
<1> QED
  BY InitEstablishes, Inductive, <1>1, PTL DEF Spec

(* The start node kept without a lock is one that any lookup would find    *)
(* (reader.py:173-188).                                                    *)
THEOREM StartNodeCorrect == Spec => []StartNodeExact
<1>1. IInv => StartNodeExact
  BY DEF IInv
<1> QED
  BY InitEstablishes, Inductive, <1>1, PTL DEF Spec
=============================================================================
