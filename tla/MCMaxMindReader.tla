---------------------------- MODULE MCMaxMindReader ----------------------------
(* Instances of MaxMindReader for TLC: databases of short addresses, with  *)
(* data so far away that the pointers to it use all the bits of a record.  *)
EXTENDS MaxMindReader, FiniteSetsExt, TLC

CONSTANTS
  MostNetworks,   \* bound: networks of a database of 28 bits per record
  FewNetworks     \* bound: networks of the others

Paths(v) == UNION {[1..n -> Bit] : n \in 1..Bits(v)}

(* Sets of networks, none of which contains another *)
Layouts(v, most) ==
  {ns \in UNION {kSubset(k, Paths(v)) : k \in 0..most} :
     \A m, n \in ns : Within(m, n) => m = n}

(* Nodes are numbered level by level. *)
Ordinal(p) == 2^Len(p) + MapThenSumSet(LAMBDA j : p[j] * 2^(Len(p) - j), 1..Len(p))

LargestRecord(bits) ==
  CASE bits = 24 -> 16777215 [] bits = 28 -> 268435455 [] OTHER -> 2147400000

Database(v, bits, ns) ==
  LET inner == {<<>>} \cup {p \in Paths(v) : \E n \in ns : p # n /\ Within(n, p)}
      count == Cardinality(inner) IN
  [ip_version |-> v, record_size |-> bits, node_count |-> count,
   number |-> [p \in inner |-> Cardinality({q \in inner : Ordinal(q) < Ordinal(p)})],
   data |-> [n \in ns |-> LargestRecord(bits) - count - Separator - Ordinal(n)],
   data_size |-> LargestRecord(bits) - count - Separator]

MCDatabases ==
  {Database(6, 28, ns) : ns \in Layouts(6, MostNetworks)}
    \cup {Database(4, bits, ns) : bits \in {24, 28, 32},
                                  ns \in Layouts(4, FewNetworks)}
    \cup {Database(6, bits, ns) : bits \in {24, 32}, ns \in Layouts(6, FewNetworks)}

CONSTANTS t1, t2
Interchangeable == Permutations(Threads)
=============================================================================
