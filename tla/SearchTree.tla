------------------------------ MODULE SearchTree ------------------------------
(***************************************************************************)
(* The search tree of a MaxMind DB, as maxminddb/reader.py reads it.  A    *)
(* node is two records, one for each value of the next bit of an address;  *)
(* a record is the number of a node, or node_count for "no data", or more  *)
(* than that for a place in the data section.  Nodes are packed: records   *)
(* of 24 or 32 bits lie side by side, records of 28 bits share a byte.     *)
(*                                                                         *)
(* A database is described by what it is made of, the networks and their   *)
(* data; the bytes follow from that and from the format.                   *)
(***************************************************************************)
EXTENDS Integers, Sequences

CONSTANTS
  BitsV4, BitsV6   \* bits of an address: 32 and 128

ASSUME BitsAssumption == BitsV4 \in Nat \ {0} /\ BitsV6 \in Nat /\ BitsV4 < BitsV6

Bit == {0, 1}
Bits(version) == IF version = 4 THEN BitsV4 ELSE BitsV6

(* The first n bits of a path through the tree, or of an address *)
First(p, n) == SubSeq(p, 1, n)

(* The address, or the network, p is in the network n. *)
Within(p, n) == Len(n) <= Len(p) /\ n = First(p, Len(n))

(* v fits a record of so many bits. *)
Fits(v, bits) ==
  v \div 65536 < (IF bits = 24 THEN 256 ELSE IF bits = 28 THEN 4096 ELSE 65536)

-----------------------------------------------------------------------------
(* A database: its metadata, the node at each path that has a longer       *)
(* network below it, and the place of each network's data.                 *)
Nodes(d) == DOMAIN d.number
Networks(d) == DOMAIN d.data

Separator == 16   \* _DATA_SECTION_SEPARATOR_SIZE

WellFormed(d) ==
  /\ d.ip_version \in {4, 6} /\ d.record_size \in {24, 28, 32}
  /\ d.node_count \in Nat \ {0}
  /\ d.data_size \in Nat
  /\ \A p \in Nodes(d) : p \in Seq(Bit) /\ Len(p) < Bits(d.ip_version)
  /\ <<>> \in Nodes(d) /\ d.number[<<>>] = 0
  /\ \A p \in Nodes(d) : d.number[p] \in 0..d.node_count - 1
  /\ \A p, q \in Nodes(d) : d.number[p] = d.number[q] => p = q
  /\ \A n \in Networks(d) :
       /\ n \in Seq(Bit) /\ n \notin Nodes(d)
       /\ Len(n) <= Bits(d.ip_version)
       /\ \A k \in 0..Len(n) - 1 : First(n, k) \in Nodes(d)
       /\ d.data[n] \in 0..d.data_size - 1
       /\ Fits(d.node_count + Separator + d.data[n], d.record_size)
  /\ Fits(d.node_count, d.record_size)

(* What the record at the end of path p holds *)
Record(d, p) ==
  IF p \in Nodes(d) THEN d.number[p]
  ELSE IF p \in Networks(d) THEN d.node_count + Separator + d.data[p]
  ELSE d.node_count

-----------------------------------------------------------------------------
(* Metadata.node_byte_size and Metadata.search_tree_size *)
NodeByteSize(d) == d.record_size \div 4
SearchTreeSize(d) == d.node_count * NodeByteSize(d)

(* The format of MaxMind DB: the bytes of a number, those of a node with   *)
(* these records, and byte o of the file, in the search tree.              *)
Bytes(v) == <<(v \div 16777216) % 256, (v \div 65536) % 256,
              (v \div 256) % 256, v % 256>>

Packed(bits, left, right) ==
  LET l == Bytes(left)
      r == Bytes(right) IN
  IF bits = 24 THEN <<l[2], l[3], l[4], r[2], r[3], r[4]>>
  ELSE IF bits = 28 THEN
    <<l[2], l[3], l[4], 16 * l[1] + r[1], r[2], r[3], r[4]>>
  ELSE <<l[1], l[2], l[3], l[4], r[1], r[2], r[3], r[4]>>

Byte(d, o) ==
  LET p == CHOOSE q \in Nodes(d) : d.number[q] = o \div NodeByteSize(d) IN
  Packed(d.record_size, Record(d, Append(p, 0)),
         Record(d, Append(p, 1)))[(o % NodeByteSize(d)) + 1]

(* struct.unpack(b"!I", ...) *)
BigEndian(b0, b1, b2, b3) == b0 * 16777216 + b1 * 65536 + b2 * 256 + b3

(* Mistaken: the halves of the shared byte change places. *)
SwapNibbles(b0, b1, b2, b3, index) ==
  IF index = 1 THEN BigEndian(b0 \div 16, b1, b2, b3)
               ELSE BigEndian(b3 % 16, b0, b1, b2)

(* A record of 28 bits: the shared byte is its first, or its last. *)
Unshare(b0, b1, b2, b3, index) ==
  IF index = 1 THEN BigEndian(b0 % 16, b1, b2, b3)
               ELSE BigEndian(b3 \div 16, b0, b1, b2)

(* _read_node *)
ReadNode(d, node, index) ==
  LET base == node * NodeByteSize(d)
      b24(j) == Byte(d, base + 3 * index + j)
      b32(j) == Byte(d, base + 4 * index + j) IN
  IF d.record_size = 24 THEN BigEndian(0, b24(0), b24(1), b24(2))
  ELSE IF d.record_size = 28 THEN Unshare(b24(0), b24(1), b24(2), b24(3), index)
  ELSE BigEndian(b32(0), b32(1), b32(2), b32(3))
=============================================================================
