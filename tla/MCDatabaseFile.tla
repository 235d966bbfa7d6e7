----------------------------- MODULE MCDatabaseFile -----------------------------
(* Instances of DatabaseFile for TLC: an encoder of values, and small files *)
(* whose values it encodes.                                                 *)
EXTENDS DatabaseFile, TLC

CONSTANTS t1, t2

(* The format of MaxMind DB: the control byte, the type if it is extended, *)
(* the size if it is long *)
Prefix(number, n) ==
  LET code == IF n < 29 THEN n ELSE IF n < 285 THEN 29 ELSE IF n < 65821 THEN 30 ELSE 31
      more == CASE code < 29 -> <<>>
                [] code = 29 -> <<n - 29>>
                [] code = 30 -> <<(n - 285) \div 256, (n - 285) % 256>>
                [] OTHER -> <<(n - 65821) \div 65536, ((n - 65821) \div 256) % 256,
                              (n - 65821) % 256>> IN
  (IF number < 8 THEN <<32 * number + code>> ELSE <<code, number - 7>>) \o more

(* A pointer of 1 to 4 bytes *)
PointerBytes(class, p) ==
  LET v == p - (CASE class = 2 -> 2048 [] class = 3 -> 526336 [] OTHER -> 0)
      tail == [i \in 1..class |-> (v \div 256 ^ (class - i)) % 256]
      top == IF class = 4 THEN 0 ELSE v \div 256 ^ class IN
  <<32 + 8 * (class - 1) + top>> \o tail

Number(name) == CHOOSE i \in 1..15 : TypeNames[i] = name

(* Source values: as those of the decoder, but a map is a sequence of keys *)
(* and values, <<"ref", class, p>> stands for the value at place p, and    *)
(* <<"raw", bytes>> for bytes that encode nothing.                         *)
RECURSIVE Encode(_), EncodeAll(_)
EncodeAll(vs) ==
  IF vs = <<>> THEN <<>> ELSE Encode(vs[1]) \o EncodeAll(SubSeq(vs, 2, Len(vs)))
Encode(v) ==
  CASE v[1] = "raw" -> v[2]
    [] v[1] = "ref" -> PointerBytes(v[2], v[3])
    [] v[1] \in {"utf8", "bytes"} ->
         Prefix(Number(v[1]), v[2][1])
           \o [i \in 1..v[2][1] |-> IF i = 1 THEN v[2][2] ELSE 0]
    [] v[1] = "array" -> Prefix(11, Len(v[2])) \o EncodeAll(v[2])
    [] v[1] = "map" -> Prefix(7, Len(v[2]) \div 2) \o EncodeAll(v[2])
    [] v[1] = "boolean" -> Prefix(14, IF v[2] THEN 1 ELSE 0)
    [] OTHER -> Prefix(Number(v[1]), Len(v[2])) \o v[2]

RECURSIVE Meaning(_, _)
Meaning(v, values) ==
  CASE v[1] = "ref" -> Meaning(values[v[3]], values)
    [] v[1] = "array" -> <<"array", [i \in DOMAIN v[2] |-> Meaning(v[2][i], values)]>>
    [] v[1] = "map" ->
         <<"map", [k \in {Meaning(v[2][2 * i - 1], values) : i \in 1..Len(v[2]) \div 2} |->
                    Meaning(v[2][2 * CHOOSE i \in 1..Len(v[2]) \div 2 :
                                       Meaning(v[2][2 * i - 1], values) = k], values)]>>
    [] OTHER -> v

-----------------------------------------------------------------------------
Text(n, c) == <<"utf8", <<n, c>> >>
Uint(digits) == <<"uint", digits>>

Nodes == Text(1, 110)
Records == Text(1, 114)
Description == Text(1, 100)
Others == {Description}

(* One node of 24 bits: six bytes, and the separator *)
Tree == 6
Data == Tree + SeparatorSize
Metadata == <<"map", <<Nodes, Uint(<<1>>), Description, <<"map", <<>> >>,
                       Records, Uint(<<24>>)>> >>

At(o, b) == [i \in o..o + Len(b) - 1 |-> b[i - o + 1]]

RECURSIVE Joined(_)
Joined(S) == IF S = {} THEN <<>>
             ELSE LET f == CHOOSE f \in S : TRUE IN f @@ Joined(S \ {f})

IsText(v) == v[1] = "utf8"
(* The bytes of a value but the zeros at the end of a text, and its length *)
Coded(v) == IF IsText(v) THEN Prefix(2, v[2][1]) \o <<v[2][2]>> ELSE Encode(v)
Length(v) == IF IsText(v) THEN Len(Prefix(2, v[2][1])) + v[2][1] ELSE Len(Encode(v))

(* A file: the values at the places of its data, the places the search     *)
(* tree names, the metadata, and whether all that is sound.  Some places   *)
(* are counted from the end. *)
Database(d) ==
  LET ends == {p + Length(d.values[p]) : p \in DOMAIN d.values}
      marker == Data + CHOOSE e \in ends : \A f \in ends : f <= e
      metadata == Encode(d.metadata)
      size == marker + MarkerSize + Len(metadata) IN
  [bytes |-> Joined({At(Data + p, Coded(d.values[p])) : p \in DOMAIN d.values})
               @@ At(marker + MarkerSize, metadata),
   size |-> size, markers |-> IF d.marked THEN {marker} ELSE {},
   places |-> d.wanted \cup {size - Data - i : i \in d.fromEnd},
   data |-> Data, sound |-> d.sound,
   values |-> IF d.sound THEN [p \in d.wanted |-> Meaning(d.values[p], d.values)] ELSE <<>>]

Described(values, wanted, metadata, sound) ==
  [values |-> values, wanted |-> wanted, metadata |-> metadata, sound |-> sound,
   fromEnd |-> {}, marked |-> TRUE]
Good(values, wanted) == Described(values, wanted, Metadata, TRUE)
Bad(value) == Described(0 :> value, {0}, Metadata, FALSE)
Opened(metadata) == Described(0 :> Uint(<<>>), {0}, metadata, FALSE)

Scalars ==
  0 :> <<"map", <<Text(2, 97), Uint(<<1, 44>>),
                  Text(1, 98), <<"array", <<<<"boolean", TRUE>>, <<"boolean", FALSE>>,
                                            <<"int32", <<255, 255, 255, 254>> >>,
                                            <<"float", <<63, 128, 0, 0>> >>,
                                            <<"bytes", <<2, 200>> >> >> >> >> >>
  @@ 80 :> <<"array", <<Uint(<<>>), <<"double", <<64, 9, 33, 251, 84, 68, 45, 24>> >>,
                        Text(0, 0), <<"array", <<>> >> >> >>

Pointers ==
  0 :> <<"array", <<<<"ref", 1, 100>>, <<"ref", 3, 526336>> >> >>
  @@ 40 :> <<"map", <<<<"ref", 4, 100>>, <<"ref", 2, 2050>> >> >>
  @@ 100 :> Text(1, 97) @@ 2050 :> Uint(<<7>>) @@ 526336 :> <<"ref", 2, 2050>>

(* Each size at which another size code begins, and the one before it *)
Sizes ==
  0 :> <<"array", <<Text(28, 65), Text(29, 66), Text(284, 67), Text(285, 68)>> >>
  @@ 1000 :> Text(65820, 69) @@ 70000 :> Text(65821, 70)

(* The last bytes of this file are taken for values that are cut off, and  *)
(* one place is behind its end. *)
Cut ==
  [Opened(<<"map", <<Nodes, Uint(<<1>>), Records, Uint(<<24>>),
                     Description, Uint(<<104, 95, 93, 61>>)>> >>)
     EXCEPT !.wanted = {}, !.fromEnd = 0..4]

Descriptions ==
  [scalars |-> Good(Scalars, {0, 80}),
   pointers |-> Good(Pointers, {0, 40}),
   sizes |-> Good(Sizes, DOMAIN Sizes),
   circle |-> Bad(<<"array", <<<<"ref", 1, 0>> >> >>),
   unknown |-> Bad(<<"raw", <<0, 5>> >>),
   unhashable |-> Bad(<<"map", <<<<"array", <<>> >>, Uint(<<1>>)>> >>),
   latin1 |-> Bad(Text(2, 228)),
   shortDouble |-> Bad(<<"double", <<1, 2, 3, 4, 5, 6, 7>> >>),
   cut |-> Cut,
   noMarker |-> [Opened(Metadata) EXCEPT !.marked = FALSE],
   lastMarker |-> Opened(<<"raw", <<>> >>),
   noMap |-> Opened(Uint(<<1>>)),
   noText |-> Opened(<<"map", <<Uint(<<1>>), Uint(<<1>>)>> >>),
   noNumber |-> Opened(<<"map", <<Nodes, Text(1, 49), Description, <<"map", <<>> >>,
                                  Records, Uint(<<24>>)>> >>),
   noKey |-> Opened(<<"map", <<Nodes, Uint(<<1>>)>> >>),
   other |-> Bad(Uint(<<9>>))]
SomeFiles == [name \in DOMAIN Descriptions |-> Database(Descriptions[name])]

BothPlatforms == {[mmap |-> TRUE, pread |-> TRUE], [mmap |-> FALSE, pread |-> FALSE]}
=============================================================================
