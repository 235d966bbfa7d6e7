-------------------------- MODULE DatabaseFile_proofs --------------------------
(***************************************************************************)
(* Proofs about DatabaseFile.  What one step of a decoder makes of where a *)
(* thread stands is a matter of operators that no variable occurs in, and  *)
(* is settled first; then the inductive invariant, which is about the lock *)
(* and the descriptor too.                                                 *)
(***************************************************************************)
EXTENDS DatabaseFile, SequenceTheorems, WellFoundedInduction, TLAPS

(* Names of the types that are read after their size *)
ReadNames == {"pointer", "utf8", "double", "bytes", "uint", "int32", "float"}

(* Unsigned numbers are made of bytes. *)
Plain(v) == v[1] = "uint" => v[2] \in Seq(0..255)
GoodValue(v) ==
  /\ Plain(v)
  /\ v[1] = "map" => \A k \in DOMAIN v[2] : Plain(v[2][k])

PointOk(p) ==
  \/ \E o \in Nat : p = Control(o)
  \/ \E c \in Nat, o \in Nat : p = Extended(c, o)
  \/ \E type \in 2..15, c \in Nat, o \in Nat :
       Known(type) /\ c % 32 >= 29 /\ p = Size(type, c, o)
  \/ \E name \in ReadNames, size \in Nat, o \in Nat : p = Payload(name, size, o)
  \/ \E v, o : o \in Nat /\ GoodValue(v) /\ p = Value(v, o)
  \/ \E e \in Errors : p = Error(e)

FrameOk(f) ==
  \/ \E o \in Nat : f = [kind |-> "pointer", back |-> o]
  \/ \E n, made : f = [kind |-> "array", left |-> n, made |-> made]
  \/ \E n, made, key :
       /\ f = [kind |-> "map", left |-> n, made |-> made, key |-> key]
       /\ \A k \in DOMAIN made : Plain(made[k])

StackOk(s) ==
  /\ \E S : s \in Seq(S) /\ \A f \in S : FrameOk(f)
  /\ Len(s) <= MaxDepth

StandOk(c) == PointOk(c.point) /\ StackOk(c.stack)

(* The bytes a read returns *)
BytesOk(b) ==
  /\ b.size \in Nat /\ b.head \in Seq(0..255)
  /\ b.size > 0 => Len(b.head) > 0

-----------------------------------------------------------------------------
(* Numbers *)

LEMMA TypesOfNames ==
  /\ DOMAIN TypeNames = 1..15
  /\ \A type \in 1..15 : Known(type) <=> type \notin {12, 13}
  /\ TypeNames[1] = "pointer"
  /\ \A type \in 1..15 :
       TypeNames[type] \in ReadNames \cup {"?", "map", "array", "boolean"}
<1>1. DOMAIN TypeNames = 1..15
  BY DEF TypeNames
<1>2. \A type \in 1..15 : type \in {1, 2, 3, 4, 5, 6, 7, 8, 9, 10, 11, 12, 13, 14, 15}
  OBVIOUS
<1>3. /\ TypeNames[1] = "pointer" /\ TypeNames[2] = "utf8" /\ TypeNames[3] = "double"
      /\ TypeNames[4] = "bytes" /\ TypeNames[5] = "uint" /\ TypeNames[6] = "uint"
      /\ TypeNames[7] = "map" /\ TypeNames[8] = "int32" /\ TypeNames[9] = "uint"
      /\ TypeNames[10] = "uint" /\ TypeNames[11] = "array" /\ TypeNames[12] = "?"
      /\ TypeNames[13] = "?" /\ TypeNames[14] = "boolean" /\ TypeNames[15] = "float"
  BY DEF TypeNames
<1>4. \A type \in 1..15 :
        /\ type \notin {12, 13} => TypeNames[type] # "?"
        /\ TypeNames[type] \in ReadNames \cup {"?", "map", "array", "boolean"}
  BY <1>2, <1>3 DEF ReadNames
<1> QED
  BY <1>1, <1>3, <1>4 DEF Known

LEMMA BigEndianIsNatural ==
  ASSUME NEW b \in Seq(Nat)
  PROVE  BigEndian(b) \in Nat
<1>1. Len(b) \in Nat /\ \A i \in 1..Len(b) : b[i] \in Nat
  BY LenProperties, ElementOfSeq
<1>2. \A i \in 0..3 : (IF i < Len(b) THEN b[Len(b) - i] ELSE 0) \in Nat
  <2>1. ASSUME NEW i \in 0..3, i < Len(b) PROVE Len(b) - i \in 1..Len(b)
    BY <1>1, <2>1
  <2> QED
    BY <1>1, <2>1
<1>3. PICK d : d = [i \in 0..3 |-> IF i < Len(b) THEN b[Len(b) - i] ELSE 0]
  OBVIOUS
<1>4. d[0] \in Nat /\ d[1] \in Nat /\ d[2] \in Nat /\ d[3] \in Nat
  BY <1>2, <1>3
<1>5. PICK w \in Nat, x \in Nat, y \in Nat, z \in Nat :
        w = d[0] /\ x = d[1] /\ y = d[2] /\ z = d[3]
  BY <1>4
<1>6. BigEndian(b) = w + 256 * x + 65536 * y + 16777216 * z
  BY <1>3, <1>5 DEF BigEndian
<1>7. w + 256 * x + 65536 * y + 16777216 * z \in Nat
  OBVIOUS
<1> QED
  BY <1>6, <1>7

(* Of some numbers, one is the least. *)
LEMMA LeastOne ==
  ASSUME NEW S \in SUBSET Nat, NEW n \in S
  PROVE  \E m \in S : \A k \in S : m <= k
<1>1. PICK R : R = {p \in Nat \X Nat : p[1] < p[2]}
  OBVIOUS
<1>2. R = OpToRel(<, Nat)
  BY <1>1 DEF OpToRel
<1>3. IsWellFoundedOn(R, Nat)
  BY <1>2, NatLessThanWellFounded
<1>4. PICK m \in S : \A k \in S : ~ (<<k, m>> \in R)
  BY <1>3, WFMin
<1>5. ASSUME NEW k \in S, ~ (m <= k) PROVE FALSE
  <2>1. k \in Nat /\ m \in Nat /\ k < m
    BY <1>5
  <2>2. <<k, m>> \in R
    BY <1>1, <2>1
  <2> QED
    BY <1>4, <2>2
<1> QED
  BY <1>5

LEMMA DigitsAreBytes ==
  ASSUME NEW b \in Seq(0..255)
  PROVE  Digits(b) \in Seq(0..255)
<1>1. PICK n : n = Len(b)
  OBVIOUS
<1>2. n \in Nat /\ \A i \in 1..n : b[i] \in 0..255
  BY <1>1, LenProperties, ElementOfSeq
<1>3. PICK S : S = {i \in 1..n + 1 : i <= n => b[i] # 0}
  OBVIOUS
<1>4. S \in SUBSET Nat /\ n + 1 \in S
  BY <1>2, <1>3
<1>5. PICK m \in S : \A k \in S : m <= k
  BY <1>4, LeastOne
<1>6. \A j \in 1..m - 1 : b[j] = 0
  BY <1>2, <1>3, <1>5
<1>7. PICK first : first = CHOOSE i \in 1..n + 1 :
                             /\ i <= n => b[i] # 0
                             /\ \A j \in 1..i - 1 : b[j] = 0
  OBVIOUS
<1>8. first \in 1..n + 1
  BY <1>3, <1>5, <1>6, <1>7
<1>9. Digits(b) = SubSeq(b, first, n)
  BY <1>1, <1>7 DEF Digits
<1>10. first \in Int /\ n \in Int /\ \A i \in first..n : b[i] \in 0..255
  BY <1>2, <1>8
<1>11. PICK d, B : d = SubSeq(b, first, n) /\ B = 0..255
  OBVIOUS
<1>12. \A i \in first..n : b[i] \in B
  BY <1>10, <1>11
<1>13. d \in Seq(B)
  BY <1>10, <1>11, <1>12, SubSeqProperties
<1> QED
  BY <1>9, <1>11, <1>13

LEMMA SliceIsBytes ==
  ASSUME NEW f \in DOMAIN Files, NEW o \in Nat, NEW n \in Nat
  PROVE  BytesOk(Slice(Content[f], o, n))
<1>1. PICK c : c = Content[f]
  OBVIOUS
<1>2. c.size \in Nat /\ \A i \in DOMAIN c.bytes : c.bytes[i] \in 0..255
  BY <1>1, FilesAssumption DEF Content
<1>3. \A i : Byte(c, i) \in 0..255
  BY <1>2 DEF Byte
<1>4. PICK size : size = IF o >= c.size THEN 0 ELSE Least(n, c.size - o)
  OBVIOUS
<1>5. size \in Nat
  BY <1>2, <1>4 DEF Least
<1>6. PICK k : k = Least(size, Kept)
  OBVIOUS
<1>7. k \in Nat /\ (size > 0 => k > 0)
  BY <1>5, <1>6 DEF Least, Kept
<1>8. PICK h : h = [i \in 1..k |-> Byte(c, o + i - 1)]
  OBVIOUS
<1>9. h \in Seq(0..255) /\ Len(h) = k
  BY <1>3, <1>7, <1>8
<1>10. Slice(c, o, n) = [size |-> size, head |-> h]
  BY <1>4, <1>6, <1>8 DEF Slice
<1> QED
  BY <1>1, <1>5, <1>7, <1>9, <1>10 DEF BytesOk

LEMMA BytesAreNatural ==
  ASSUME NEW b \in Seq(0..255)
  PROVE  b \in Seq(Nat) /\ BigEndian(b) \in Nat
<1>1. PICK B : B = 0..255
  OBVIOUS
<1>2. b \in Seq(B) /\ B \subseteq Nat
  BY <1>1
<1>3. b \in Seq(Nat)
  BY <1>2, SeqMonotonic
<1> QED
  BY <1>3, BigEndianIsNatural

LEMMA FirstByte ==
  ASSUME NEW b, BytesOk(b), b.size > 0
  PROVE  b.head[1] \in 0..255
<1>1. Len(b.head) \in Nat /\ 1 \in 1..Len(b.head)
  BY LenProperties DEF BytesOk
<1> QED
  BY <1>1, ElementOfSeq DEF BytesOk

LEMMA PointerIsNatural ==
  ASSUME NEW size \in Nat, NEW b \in Seq(0..255), NEW start \in Nat
  PROVE  PointsTo(size, b, start) \in Nat
<1>1. PICK r : r = size % 8
  OBVIOUS
<1>2. r \in 0..7
  BY <1>1
<1>3. PICK s : s = <<r>>
  OBVIOUS
<1>4. s \in Seq(0..255)
  BY <1>2, <1>3
<1>5. s \o b \in Seq(0..255)
  BY <1>4, ConcatProperties
<1>6. PICK x, y : x = BigEndian(b) /\ y = BigEndian(s \o b)
  OBVIOUS
<1>7. x \in Nat /\ y \in Nat
  BY <1>5, <1>6, BytesAreNatural
<1>8. PointsTo(size, b, start) =
        start + IF Len(b) = 4 THEN x
                ELSE y + (IF Len(b) = 1 THEN 0 ELSE IF Len(b) = 2 THEN 2048 ELSE 526336)
  BY <1>1, <1>3, <1>6 DEF PointsTo
<1> QED
  BY <1>7, <1>8

LEMMA LongSizeIsNatural ==
  ASSUME NEW c \in Nat, NEW b \in Seq(0..255)
  PROVE  LongSize(c, b) \in Nat
<1>1. BigEndian(b) \in Nat
  BY BytesAreNatural
<1> QED
  BY <1>1 DEF LongSize

-----------------------------------------------------------------------------
(* Where a step of a decoder leads *)

LEMMA PushOk ==
  ASSUME NEW s, StackOk(s), NEW f, FrameOk(f), NEW o \in Nat
  PROVE  StandOk(Push(s, f, o))
<1>1. CASE Len(s) = MaxDepth
  <2>1. PointOk(Error("RecursionError"))
    BY DEF PointOk, Errors
  <2> QED
    BY <1>1, <2>1 DEF Push, Raised, Stand, StandOk
<1>2. CASE Len(s) # MaxDepth
  <2>1. PICK S : s \in Seq(S) /\ \A g \in S : FrameOk(g)
    BY DEF StackOk
  <2>2. PICK S1 : S1 = S \cup {f}
    OBVIOUS
  <2>3. f \in S1 /\ \A g \in S1 : FrameOk(g)
    BY <2>1, <2>2
  <2>4. s \in Seq(S1) /\ Len(s) \in Nat
    BY <2>1, <2>2
  <2>5. Append(s, f) \in Seq(S1) /\ Len(Append(s, f)) = Len(s) + 1
    BY <2>3, <2>4, AppendProperties
  <2>6. Len(s) + 1 <= MaxDepth
    BY <1>2, <2>4, DepthAssumption DEF StackOk
  <2>7. StackOk(Append(s, f))
    BY <2>3, <2>5, <2>6 DEF StackOk
  <2>8. PointOk(Control(o))
    BY DEF PointOk
  <2> QED
    BY <1>2, <2>7, <2>8 DEF Push, Stand, StandOk
<1> QED
  BY <1>1, <1>2

LEMMA RaisedOk ==
  ASSUME NEW s, StackOk(s), NEW e \in Errors
  PROVE  StandOk(Raised(e, s))
<1>1. PointOk(Error(e))
  BY DEF PointOk
<1> QED
  BY <1>1 DEF Raised, Stand, StandOk

LEMMA ValueOk ==
  ASSUME NEW s, StackOk(s), NEW v, GoodValue(v), NEW o \in Nat
  PROVE  StandOk(Stand(Value(v, o), s))
<1>1. PointOk(Value(v, o))
  BY DEF PointOk
<1> QED
  BY <1>1 DEF Stand, StandOk

LEMMA EnterOk ==
  ASSUME NEW s, StackOk(s), NEW type \in 1..15, Known(type), NEW size \in Nat, NEW o \in Nat
  PROVE  StandOk(Enter(s, type, size, o))
<1>1. PICK name : name = TypeNames[type]
  OBVIOUS
<1>2. name \in ReadNames \cup {"map", "array", "boolean"}
  BY <1>1, TypesOfNames DEF Known
<1>3. CASE name = "boolean" \/ (name \in {"int32", "array", "map"} /\ size = 0)
  <2>1. PICK v : v = <<name, Empty(name, size)>>
    OBVIOUS
  <2>2. v[1] = name /\ v[2] = Empty(name, size)
    BY <2>1
  <2>3. name = "map" => DOMAIN Empty(name, size) = {}
    BY DEF Empty
  <2>4. GoodValue(v)
    BY <1>3, <2>2, <2>3 DEF GoodValue, Plain
  <2>5. Enter(s, type, size, o) = Stand(Value(v, o), s)
    BY <1>1, <1>3, <2>1 DEF Enter
  <2> QED
    BY <2>4, <2>5, ValueOk
<1>4. ASSUME ~ (name = "boolean" \/ (name \in {"int32", "array", "map"} /\ size = 0)),
             name = "array"
      PROVE  StandOk(Enter(s, type, size, o))
  <2>1. PICK f : f = [kind |-> name, left |-> size, made |-> <<>>]
    OBVIOUS
  <2>2. FrameOk(f)
    BY <1>4, <2>1 DEF FrameOk
  <2>3. Enter(s, type, size, o) = Push(s, f, o)
    BY <1>1, <1>4, <2>1 DEF Enter
  <2> QED
    BY <2>2, <2>3, PushOk
<1>5. ASSUME ~ (name = "boolean" \/ (name \in {"int32", "array", "map"} /\ size = 0)),
             name = "map"
      PROVE  StandOk(Enter(s, type, size, o))
  <2>1. PICK m : m = <<>>
    OBVIOUS
  <2>2. PICK f : f = [kind |-> name, left |-> size, made |-> m, key |-> m]
    OBVIOUS
  <2>3. \A k \in DOMAIN m : Plain(m[k])
    BY <2>1
  <2>4. FrameOk(f)
    BY <1>5, <2>2, <2>3 DEF FrameOk
  <2>5. Enter(s, type, size, o) = Push(s, f, o)
    BY <1>1, <1>5, <2>1, <2>2 DEF Enter
  <2> QED
    BY <2>4, <2>5, PushOk
<1>6. ASSUME ~ (name = "boolean" \/ (name \in {"int32", "array", "map"} /\ size = 0)),
             name \notin {"array", "map"}
      PROVE  StandOk(Enter(s, type, size, o))
  <2>1. CASE (name = "double" /\ size # 8) \/ (name = "float" /\ size # 4)
    <3>1. Enter(s, type, size, o) = Raised("InvalidDatabaseError", s)
      BY <1>1, <1>6, <2>1 DEF Enter
    <3>2. "InvalidDatabaseError" \in Errors
      BY DEF Errors
    <3> QED
      BY <3>1, <3>2, RaisedOk
  <2>2. CASE ~ ((name = "double" /\ size # 8) \/ (name = "float" /\ size # 4))
    <3>1. Enter(s, type, size, o) = Stand(Payload(name, size, o), s)
      BY <1>1, <1>6, <2>2 DEF Enter
    <3>2. name \in ReadNames
      BY <1>2, <1>6
    <3>3. PointOk(Payload(name, size, o))
      BY <3>2 DEF PointOk
    <3> QED
      BY <3>1, <3>3 DEF Stand, StandOk
  <2> QED
    BY <2>1, <2>2
<1> QED
  BY <1>3, <1>4, <1>5, <1>6

LEMMA TypedOk ==
  ASSUME NEW s, StackOk(s), NEW type \in Nat \ {0}, NEW c \in Nat, NEW o \in Nat
  PROVE  StandOk(Typed(s, type, c, o))
<1>1. CASE ~ Known(type)
  <2>1. "InvalidDatabaseError" \in Errors
    BY DEF Errors
  <2> QED
    BY <1>1, <2>1, RaisedOk DEF Typed
<1>2. CASE Known(type)
  <2>1. type \in 1..15
    BY <1>2, TypesOfNames DEF Known
  <2>2. PICK n : n = c % 32
    OBVIOUS
  <2>3. n \in Nat
    BY <2>2
  <2>4. CASE type = 1 \/ n < 29
    <3>1. Typed(s, type, c, o) = Enter(s, type, n, o)
      BY <1>2, <2>2, <2>4 DEF Typed
    <3> QED
      BY <1>2, <2>1, <2>3, <3>1, EnterOk
  <2>5. CASE ~ (type = 1 \/ n < 29)
    <3>1. Typed(s, type, c, o) = Stand(Size(type, c, o), s)
      BY <1>2, <2>2, <2>5 DEF Typed
    <3>2. type \in 2..15 /\ c % 32 >= 29
      BY <2>1, <2>2, <2>3, <2>5
    <3>3. PointOk(Size(type, c, o))
      BY <1>2, <3>2 DEF PointOk
    <3> QED
      BY <3>1, <3>3 DEF Stand, StandOk
  <2> QED
    BY <2>4, <2>5
<1> QED
  BY <1>1, <1>2

LEMMA ScalarOk ==
  ASSUME NEW s, StackOk(s), NEW type \in ReadNames \ {"pointer"}, NEW size \in Nat,
         NEW b, BytesOk(b), NEW o \in Nat
  PROVE  StandOk(Stand(Scalar(type, size, b, o), s))
<1>1. PICK v : v = <<type, Simple(type, b)>>
  OBVIOUS
<1>2. v[1] = type /\ v[2] = Simple(type, b)
  BY <1>1
<1>3. type = "uint" => Simple(type, b) = Digits(b.head)
  BY DEF Simple
<1>4. Digits(b.head) \in Seq(0..255)
  BY DigitsAreBytes DEF BytesOk
<1>5. GoodValue(v)
  BY <1>2, <1>3, <1>4 DEF GoodValue, Plain, ReadNames
<1>6. o + size \in Nat
  OBVIOUS
<1>7. PICK p : p = Scalar(type, size, b, o)
  OBVIOUS
<1>8. \/ p = Error("UnicodeDecodeError") \/ p = Error("struct.error")
      \/ p = Value(v, o + size)
  BY <1>1, <1>7 DEF Scalar
<1>9. "UnicodeDecodeError" \in Errors /\ "struct.error" \in Errors
  BY DEF Errors
<1>10. PointOk(p)
  BY <1>5, <1>6, <1>8, <1>9 DEF PointOk
<1> QED
  BY <1>7, <1>10 DEF Stand, StandOk

(* What a point that is read is like *)
LEMMA PointFields ==
  ASSUME NEW p, PointOk(p), Reads(p)
  PROVE  /\ p.offset \in Nat
         /\ p.step = "extended" => p.control \in Nat
         /\ p.step = "size" =>
              /\ p.type \in 2..15 /\ Known(p.type)
              /\ p.control \in Nat /\ p.control % 32 >= 29
         /\ p.step = "payload" => p.type \in ReadNames /\ p.size \in Nat
<1>1. CASE \E o \in Nat : p = Control(o)
  BY <1>1 DEF Control
<1>2. CASE \E c \in Nat, o \in Nat : p = Extended(c, o)
  BY <1>2 DEF Extended
<1>3. CASE \E type \in 2..15, c \in Nat, o \in Nat :
             Known(type) /\ c % 32 >= 29 /\ p = Size(type, c, o)
  <2>1. PICK type \in 2..15, c \in Nat, o \in Nat :
          Known(type) /\ c % 32 >= 29 /\ p = Size(type, c, o)
    BY <1>3
  <2>2. p.step = "size" /\ p.type = type /\ p.control = c /\ p.offset = o
    BY <2>1 DEF Size
  <2> QED
    BY <2>1, <2>2
<1>4. CASE \E name \in ReadNames, size \in Nat, o \in Nat : p = Payload(name, size, o)
  BY <1>4 DEF Payload
<1>5. CASE \E v, o : o \in Nat /\ GoodValue(v) /\ p = Value(v, o)
  <2>1. p.step = "value"
    BY <1>5 DEF Value
  <2> QED
    BY <2>1 DEF Reads
<1>6. CASE \E e \in Errors : p = Error(e)
  <2>1. p.step = "error"
    BY <1>6 DEF Error
  <2> QED
    BY <2>1 DEF Reads
<1> QED
  BY <1>1, <1>2, <1>3, <1>4, <1>5, <1>6 DEF PointOk

LEMMA WantedIsNatural ==
  ASSUME NEW p, PointOk(p), Reads(p)
  PROVE  /\ Wanted(p) \in Nat
         /\ ~ (p.step = "payload" /\ p.type # "pointer") => Wanted(p) > 0
<1>1. CASE p.step = "size"
  <2>1. PICK c : c = p.control
    OBVIOUS
  <2>2. c \in Nat /\ c % 32 >= 29
    BY <1>1, <2>1, PointFields
  <2>3. Wanted(p) = (c % 32) - 28
    BY <1>1, <2>1 DEF Wanted, SizeBytes
  <2> QED
    BY <1>1, <2>2, <2>3
<1>2. CASE p.step = "payload"
  <2>1. PICK n : n = p.size
    OBVIOUS
  <2>2. n \in Nat
    BY <1>2, <2>1, PointFields
  <2>3. Wanted(p) = IF p.type = "pointer" THEN (n \div 8) + 1 ELSE n
    BY <1>2, <2>1 DEF Wanted, PointerSize
  <2>4. (n \div 8) + 1 \in Nat /\ (n \div 8) + 1 > 0
    BY <2>2
  <2> QED
    BY <1>2, <2>2, <2>3, <2>4
<1>3. CASE p.step \notin {"size", "payload"}
  BY <1>3 DEF Wanted
<1> QED
  BY <1>1, <1>2, <1>3

LEMMA GotOk ==
  ASSUME NEW p, PointOk(p), Reads(p), NEW s, StackOk(s), NEW start \in Nat,
         NEW b, BytesOk(b)
  PROVE  StandOk(Got(p, s, start, b))
<1>1. PICK n : n = Wanted(p)
  OBVIOUS
<1>2. PICK o : o = p.offset
  OBVIOUS
<1>3. n \in Nat /\ o \in Nat /\ o + n \in Nat
  BY <1>1, <1>2, PointFields, WantedIsNatural
<1>4. CASE p.step = "payload" /\ p.type # "pointer"
  <2>1. Got(p, s, start, b) = Stand(Scalar(p.type, p.size, b, o), s)
    BY <1>2, <1>4 DEF Got
  <2>2. p.type \in ReadNames \ {"pointer"} /\ p.size \in Nat
    BY <1>4, PointFields
  <2> QED
    BY <1>3, <2>1, <2>2, ScalarOk
<1>5. ASSUME ~ (p.step = "payload" /\ p.type # "pointer"), b.size < n
      PROVE  StandOk(Got(p, s, start, b))
  <2>1. PICK e : e = IF n = 1 /\ p.step # "payload" THEN "IndexError" ELSE "struct.error"
    OBVIOUS
  <2>2. Got(p, s, start, b) = Raised(e, s)
    BY <1>1, <1>5, <2>1 DEF Got
  <2>3. e \in Errors
    BY <2>1 DEF Errors
  <2> QED
    BY <2>2, <2>3, RaisedOk
<1>6. ASSUME ~ (p.step = "payload" /\ p.type # "pointer"), ~ (b.size < n)
      PROVE  StandOk(Got(p, s, start, b))
  <2>1. b.size > 0 /\ b.head \in Seq(0..255)
    BY <1>1, <1>3, <1>6, WantedIsNatural DEF BytesOk
  <2>2. PICK c : c = b.head[1]
    OBVIOUS
  <2>3. c \in Nat
    <3>1. b.head[1] \in 0..255
      BY <2>1, FirstByte
    <3> QED
      BY <2>2, <3>1
  <2>4. CASE p.step = "control"
    <3>1. Got(p, s, start, b) = Controlled(s, c, o + n)
      BY <1>1, <1>2, <1>6, <2>2, <2>4 DEF Got
    <3>2. PICK d : d = c \div 32
      OBVIOUS
    <3>3. d \in Nat
      BY <2>3, <3>2
    <3>4. CASE d = 0
      <4>1. PointOk(Extended(c, o + n))
        BY <1>3, <2>3 DEF PointOk
      <4> QED
        BY <3>1, <3>2, <3>4, <4>1 DEF Controlled, Stand, StandOk
    <3>5. CASE d # 0
      BY <1>3, <2>3, <3>1, <3>2, <3>3, <3>5, TypedOk DEF Controlled
    <3> QED
      BY <3>4, <3>5
  <2>5. CASE p.step = "extended"
    <3>1. Got(p, s, start, b) = Typed(s, c + 7, p.control, o + n)
      BY <1>1, <1>2, <1>6, <2>2, <2>5 DEF Got, ExtendedType
    <3>2. c + 7 \in Nat \ {0} /\ p.control \in Nat
      BY <2>3, <2>5, PointFields
    <3> QED
      BY <1>3, <3>1, <3>2, TypedOk
  <2>6. CASE p.step = "size"
    <3>1. Got(p, s, start, b) = Enter(s, p.type, LongSize(p.control, b.head), o + n)
      BY <1>1, <1>2, <1>6, <2>6 DEF Got
    <3>2. p.type \in 1..15 /\ Known(p.type) /\ p.control \in Nat
      BY <2>6, PointFields
    <3>3. LongSize(p.control, b.head) \in Nat
      BY <2>1, <3>2, LongSizeIsNatural
    <3> QED
      BY <1>3, <3>1, <3>2, <3>3, EnterOk
  <2>7. CASE p.step = "payload"
    <3>1. PICK f : f = [kind |-> "pointer", back |-> o + n]
      OBVIOUS
    <3>2. Got(p, s, start, b) = Push(s, f, PointsTo(p.size, b.head, start))
      BY <1>1, <1>2, <1>6, <2>7, <3>1 DEF Got
    <3>3. PointsTo(p.size, b.head, start) \in Nat
      BY <2>1, <2>7, PointFields, PointerIsNatural
    <3>4. FrameOk(f)
      BY <1>3, <3>1 DEF FrameOk
    <3> QED
      BY <3>2, <3>3, <3>4, PushOk
  <2> QED
    BY <2>4, <2>5, <2>6, <2>7 DEF Reads
<1> QED
  BY <1>4, <1>5, <1>6

(* The calls, without the innermost, and with another one in its place *)
LEMMA InnermostOk ==
  ASSUME NEW s, StackOk(s), s # <<>>
  PROVE  /\ FrameOk(s[Len(s)])
         /\ StackOk(SubSeq(s, 1, Len(s) - 1))
         /\ \A f : FrameOk(f) => StackOk(Append(SubSeq(s, 1, Len(s) - 1), f))
<1>1. PICK S : s \in Seq(S) /\ \A f \in S : FrameOk(f)
  BY DEF StackOk
<1>2. PICK n : n = Len(s)
  OBVIOUS
<1>3. n \in Nat \ {0} /\ n <= MaxDepth
  BY <1>1, <1>2, EmptySeq DEF StackOk
<1>4. \A i \in 1..n : s[i] \in S
  BY <1>1, <1>2, ElementOfSeq
<1>5. FrameOk(s[n])
  BY <1>1, <1>3, <1>4
<1>6. PICK r : r = SubSeq(s, 1, n - 1)
  OBVIOUS
<1>7. r \in Seq(S) /\ Len(r) = n - 1
  <2>1. 1 \in Int /\ n - 1 \in Int /\ \A i \in 1..n - 1 : s[i] \in S
    BY <1>3, <1>4
  <2>2. /\ r \in Seq(S)
        /\ Len(r) = IF 1 <= n - 1 THEN n - 1 - 1 + 1 ELSE 0
    BY <1>6, <2>1, SubSeqProperties
  <2> QED
    BY <1>3, <2>2
<1>8. StackOk(r)
  <2>1. Len(r) <= MaxDepth
    BY <1>3, <1>7, DepthAssumption
  <2> QED
    BY <1>1, <1>7, <2>1 DEF StackOk
<1>9. ASSUME NEW f, FrameOk(f) PROVE StackOk(Append(r, f))
  <2>1. PICK S1 : S1 = S \cup {f}
    OBVIOUS
  <2>2. f \in S1 /\ S \subseteq S1 /\ \A g \in S1 : FrameOk(g)
    BY <1>1, <1>9, <2>1
  <2>3. r \in Seq(S1)
    BY <1>7, <2>2, SeqMonotonic
  <2>4. Append(r, f) \in Seq(S1) /\ Len(Append(r, f)) = Len(r) + 1
    BY <2>2, <2>3, AppendProperties
  <2>5. Len(Append(r, f)) <= MaxDepth
    BY <1>3, <1>7, <2>4
  <2> QED
    BY <2>2, <2>4, <2>5 DEF StackOk
<1> QED
  BY <1>2, <1>5, <1>6, <1>8, <1>9

LEMMA OnlyValues ==
  ASSUME NEW p, PointOk(p), p.step = "value"
  PROVE  p.offset \in Nat /\ GoodValue(p.value)
<1>1. PICK v, o : o \in Nat /\ GoodValue(v) /\ p = Value(v, o)
  BY DEF PointOk, Control, Extended, Size, Payload, Value, Error
<1>2. p.offset = o /\ p.value = v
  BY <1>1 DEF Value
<1> QED
  BY <1>1, <1>2

LEMMA ItemOk ==
  ASSUME NEW n, NEW made, NEW top, top = [kind |-> "array", left |-> n, made |-> made],
         NEW rest, StackOk(rest),
         \A f : FrameOk(f) => StackOk(Append(rest, f)), NEW v, NEW o \in Nat
  PROVE  StandOk(Item(top, rest, v, o))
<1>1. PICK items : items = Append(top.made, v)
  OBVIOUS
<1>2. CASE top.left = 1
  <2>1. PICK w : w = <<"array", items>>
    OBVIOUS
  <2>2. GoodValue(w)
    BY <2>1 DEF GoodValue, Plain
  <2>3. Item(top, rest, v, o) = Stand(Value(w, o), rest)
    BY <1>1, <1>2, <2>1 DEF Item
  <2> QED
    BY <2>2, <2>3, ValueOk
<1>3. CASE top.left # 1
  <2>1. PICK f : f = [top EXCEPT !.left = @ - 1, !.made = items]
    OBVIOUS
  <2>2. f = [kind |-> "array", left |-> n - 1, made |-> items]
    BY <2>1
  <2>3. FrameOk(f)
    BY <2>2 DEF FrameOk
  <2>4. Item(top, rest, v, o) = Stand(Control(o), Append(rest, f))
    BY <1>1, <1>3, <2>1 DEF Item
  <2>5. PointOk(Control(o))
    BY DEF PointOk
  <2> QED
    <3>1. PICK r : r = Append(rest, f)
      OBVIOUS
    <3>2. StackOk(r)
      BY <2>3, <3>1
    <3>3. StandOk(Stand(Control(o), r))
      BY <2>5, <3>2 DEF Stand, StandOk
    <3> QED
      BY <2>4, <3>1, <3>3
<1> QED
  BY <1>2, <1>3

LEMMA EntryOk ==
  ASSUME NEW n, NEW made, NEW key,
         NEW top, top = [kind |-> "map", left |-> n, made |-> made, key |-> key],
         \A k \in DOMAIN made : Plain(made[k]),
         NEW rest, StackOk(rest), \A f : FrameOk(f) => StackOk(Append(rest, f)),
         NEW v, GoodValue(v), NEW o \in Nat
  PROVE  StandOk(Entry(top, rest, v, o))
<1>1. PICK entries : entries = [k \in DOMAIN made \cup {key} |->
                                  IF k = key THEN v ELSE made[k]]
  OBVIOUS
<1>2. \A k \in DOMAIN entries : Plain(entries[k])
  BY <1>1 DEF GoodValue
<1>3. CASE n = 1
  <2>1. PICK w : w = <<"map", entries>>
    OBVIOUS
  <2>2. w[1] = "map" /\ w[2] = entries
    BY <2>1
  <2>3. GoodValue(w)
    BY <1>2, <2>2 DEF GoodValue, Plain
  <2>4. Entry(top, rest, v, o) = Stand(Value(w, o), rest)
    BY <1>1, <1>3, <2>1 DEF Entry
  <2> QED
    BY <2>3, <2>4, ValueOk
<1>4. CASE n # 1
  <2>1. PICK f : f = [top EXCEPT !.left = @ - 1, !.made = entries, !.key = <<>>]
    OBVIOUS
  <2>2. PICK m : m = <<>>
    OBVIOUS
  <2>3. f = [kind |-> "map", left |-> n - 1, made |-> entries, key |-> m]
    BY <2>1, <2>2
  <2>4. FrameOk(f)
    BY <1>2, <2>3 DEF FrameOk
  <2>5. Entry(top, rest, v, o) = Stand(Control(o), Append(rest, f))
    BY <1>1, <1>4, <2>1 DEF Entry
  <2>6. PointOk(Control(o))
    BY DEF PointOk
  <2> QED
    <3>1. PICK r : r = Append(rest, f)
      OBVIOUS
    <3>2. StackOk(r)
      BY <2>4, <3>1
    <3>3. StandOk(Stand(Control(o), r))
      BY <2>6, <3>2 DEF Stand, StandOk
    <3> QED
      BY <2>5, <3>1, <3>3
<1> QED
  BY <1>3, <1>4

LEMMA HandedOk ==
  ASSUME NEW p, PointOk(p), p.step = "value", NEW s, StackOk(s), s # <<>>
  PROVE  StandOk(Handed(p, s))
<1>1. PICK top : top = s[Len(s)]
  OBVIOUS
<1>2. PICK rest : rest = SubSeq(s, 1, Len(s) - 1)
  OBVIOUS
<1>3. /\ FrameOk(top) /\ StackOk(rest)
      /\ \A f : FrameOk(f) => StackOk(Append(rest, f))
  BY <1>1, <1>2, InnermostOk
<1>4. PICK v, o : v = p.value /\ o = p.offset
  OBVIOUS
<1>5. o \in Nat /\ GoodValue(v)
  BY <1>4, OnlyValues
<1>6. CASE \E q \in Nat : top = [kind |-> "pointer", back |-> q]
  <2>1. top.kind = "pointer" /\ top.back \in Nat
    BY <1>6
  <2>2. Handed(p, s) = Stand(Value(v, top.back), rest)
    BY <1>1, <1>2, <1>4, <2>1 DEF Handed
  <2> QED
    BY <1>3, <1>5, <2>1, <2>2, ValueOk
<1>7. CASE \E n, made : top = [kind |-> "array", left |-> n, made |-> made]
  <2>1. PICK n, made : top = [kind |-> "array", left |-> n, made |-> made]
    BY <1>7
  <2>2. Handed(p, s) = Item(top, rest, v, o)
    BY <1>1, <1>2, <1>4, <2>1 DEF Handed
  <2> QED
    BY <1>3, <1>5, <2>1, <2>2, ItemOk
<1>8. CASE \E n, made, key :
             /\ top = [kind |-> "map", left |-> n, made |-> made, key |-> key]
             /\ \A k \in DOMAIN made : Plain(made[k])
  <2>1. PICK n, made, key :
          /\ top = [kind |-> "map", left |-> n, made |-> made, key |-> key]
          /\ \A k \in DOMAIN made : Plain(made[k])
    BY <1>8
  <2>2. top.kind = "map" /\ top.key = key
    BY <2>1
  <2>3. CASE key = <<>>
    <3>1. PICK f : f = [top EXCEPT !.key = v]
      OBVIOUS
    <3>2. f = [kind |-> "map", left |-> n, made |-> made, key |-> v]
      BY <2>1, <3>1
    <3>3. FrameOk(f)
      BY <2>1, <3>2 DEF FrameOk
    <3>4. Handed(p, s) = Stand(Control(o), Append(rest, f))
      BY <1>1, <1>2, <1>4, <2>2, <2>3, <3>1 DEF Handed
    <3>5. PointOk(Control(o))
      BY <1>5 DEF PointOk
    <3> QED
      BY <1>3, <3>3, <3>4, <3>5 DEF Stand, StandOk
  <2>4. ASSUME key # <<>>, key[1] \in {"array", "map"} PROVE StandOk(Handed(p, s))
    <3>1. Handed(p, s) = Raised("TypeError", s)
      BY <1>1, <2>2, <2>4 DEF Handed
    <3>2. "TypeError" \in Errors
      BY DEF Errors
    <3> QED
      BY <3>1, <3>2, RaisedOk
  <2>5. ASSUME key # <<>>, key[1] \notin {"array", "map"} PROVE StandOk(Handed(p, s))
    <3>1. Handed(p, s) = Entry(top, rest, v, o)
      BY <1>1, <1>2, <1>4, <2>2, <2>5 DEF Handed
    <3> QED
      BY <1>3, <1>5, <2>1, <3>1, EntryOk
  <2> QED
    BY <2>3, <2>4, <2>5
<1> QED
  BY <1>3, <1>6, <1>7, <1>8 DEF FrameOk

-----------------------------------------------------------------------------
(* The invariant *)

(* The lock is held by who has set the offset and not read yet; the number *)
(* of the descriptor is free only when the buffer has been closed.         *)
BufferHeld ==
  /\ file \in DOMAIN Files
  /\ access \in {"none", "memory", "mmap", "pread", "seek"}
  /\ shut \in BOOLEAN /\ descriptor \in {"ours", "free", "reused"}
  /\ lock \in Threads \cup {NoThread}
  /\ begun \in [Threads -> BOOLEAN]
  /\ descriptor # "ours" => shut /\ TwoSteps
  /\ \A t \in Threads : lock = t <=> access = "seek" /\ begun[t]

ReaderHeld ==
  /\ point = [t \in Threads |-> point[t]]
  /\ stack = [t \in Threads |-> stack[t]]
  /\ base \in [Threads -> Nat]
  /\ asked = [t \in Threads |-> asked[t]]
  /\ outcome = [t \in Threads |-> outcome[t]]
  /\ reader \in {"none", "marker", "opening", "open", "failed"}
  /\ dataBase \in Nat
  /\ reader \in {"none", "marker", "opening"} => ~ shut
  /\ reader = "none" <=> access = "none" /\ reader # "failed"

(* A thread is idle, or decodes; if it has begun to read then at the place *)
(* where it stands, and with the lock the offset of the file is that place.*)
ThreadHeld(t) ==
  /\ \/ point[t] = Idle /\ stack[t] = <<>>
     \/ PointOk(point[t]) /\ StackOk(stack[t])
  /\ begun[t] => Reading(t) /\ TwoSteps
  /\ lock = t => position = point[t].offset
  /\ reader \in {"none", "marker", "failed"} => point[t] = Idle
  /\ reader = "opening" /\ t # Opener => point[t] = Idle
  /\ outcome[t][1] \in Errors \cup {"nothing", "returned"}

IInv == BufferHeld /\ ReaderHeld /\ \A t \in Threads : ThreadHeld(t)

LEMMA NotIdle ==
  ASSUME NEW p, PointOk(p)
  PROVE  /\ p # Idle
         /\ p.step \in {"control", "extended", "size", "payload", "value", "error"}
<1>1. p.step \in {"control", "extended", "size", "payload", "value", "error"}
  BY DEF PointOk, Control, Extended, Size, Payload, Value, Error
<1> QED
  BY <1>1 DEF Idle

LEMMA NoCalls == StackOk(<<>>)
<1>1. PICK S, s : S = {} /\ s = <<>>
  OBVIOUS
<1>2. s \in Seq(S) /\ Len(s) = 0 /\ \A f \in S : FrameOk(f)
  BY <1>1, EmptySeq
<1>3. StackOk(s)
  BY <1>2, DepthAssumption DEF StackOk
<1> QED
  BY <1>1, <1>3

LEMMA FirstMarker ==
  ASSUME BufferHeld, NEW start, start = Rfind(Content[file].markers), start # -1
  PROVE  start \in Content[file].markers /\ start \in Nat
<1>1. PICK c : c = Content[file]
  OBVIOUS
<1>2. c.size \in Nat /\ c.markers \subseteq Nat
  BY <1>1, FilesAssumption DEF BufferHeld, Content
<1>3. PICK begin, end, places :
        /\ begin = c.size - 131072 /\ end = IF TwoSteps THEN c.size - 1 ELSE c.size
        /\ places = c.markers
  OBVIOUS
<1>4. end \in Int /\ end <= c.size
  BY <1>2, <1>3
<1>5. PICK found : found = {p \in places : p >= begin /\ p + 14 <= end}
  OBVIOUS
<1>6. start = IF found = {} THEN -1 ELSE CHOOSE p \in found : \A q \in found : q <= p
  BY <1>1, <1>3, <1>5 DEF Rfind
<1>7. found # {} /\ start = CHOOSE p \in found : \A q \in found : q <= p
  BY <1>6
<1>8. \E p \in found : \A q \in found : q <= p
  <2>1. PICK S : S = {i \in Nat : c.size - i \in found}
    OBVIOUS
  <2>2. PICK f \in found : TRUE
    BY <1>7
  <2>3. f \in Nat /\ f + 14 <= end
    BY <1>2, <1>3, <1>5, <2>2
  <2>4. PICK i : i = c.size - f
    OBVIOUS
  <2>5. i \in Nat /\ c.size - i = f
    BY <1>2, <1>4, <2>3, <2>4
  <2>6. i \in S
    BY <2>1, <2>2, <2>5
  <2>7. PICK m \in S : \A k \in S : m <= k
    BY <2>1, <2>6, LeastOne
  <2>8. PICK p : p = c.size - m
    OBVIOUS
  <2>9. p \in found
    BY <2>1, <2>7, <2>8
  <2>10. ASSUME NEW q \in found PROVE q <= p
    <3>1. q \in Nat /\ q + 14 <= end
      BY <1>2, <1>3, <1>5
    <3>2. PICK j : j = c.size - q
      OBVIOUS
    <3>3. j \in Nat /\ c.size - j = q
      BY <1>2, <1>4, <3>1, <3>2
    <3>4. m <= j
      BY <2>1, <2>7, <3>3
    <3> QED
      BY <1>2, <2>1, <2>7, <2>8, <3>1, <3>2, <3>4
  <2> QED
    BY <2>9, <2>10
<1>9. start \in found
  BY <1>7, <1>8
<1> QED
  BY <1>1, <1>2, <1>3, <1>5, <1>9

LEMMA InitHolds == Init => IInv
<1> SUFFICES ASSUME Init PROVE IInv
  OBVIOUS
<1>1. BufferHeld
  BY ThreadsAssumption DEF Init, BufferInit, BufferHeld, Content
<1>2. ReaderHeld
  BY DEF Init, BufferInit, DecoderInit, ReaderHeld
<1>3. ASSUME NEW t \in Threads PROVE ThreadHeld(t)
  <2>1. point[t] = Idle /\ stack[t] = <<>> /\ ~ begun[t] /\ lock # t /\ outcome[t] = Nothing
    BY ThreadsAssumption DEF Init, BufferInit, DecoderInit
  <2>2. outcome[t][1] = "nothing"
    BY <2>1 DEF Nothing
  <2> QED
    BY <2>1, <2>2 DEF ThreadHeld
<1> QED
  BY <1>1, <1>2, <1>3 DEF IInv

(* What a step leaves alone of a thread, and that such a thread is all right*)
Alone(u) ==
  /\ point'[u] = point[u] /\ stack'[u] = stack[u] /\ begun'[u] = begun[u]
  /\ outcome'[u] = outcome[u] /\ (lock' = u <=> lock = u)
  /\ lock = u => position' = position
  /\ reader' = reader \/ point[u] = Idle

LEMMA OthersHeld ==
  ASSUME NEW u, ThreadHeld(u), Alone(u), TwoSteps <=> TwoSteps'
  PROVE  ThreadHeld(u)'
<1>1. PICK p : p = point[u]
  OBVIOUS
<1>2. PICK s : s = stack[u]
  OBVIOUS
<1>3. PICK o : o = outcome[u]
  OBVIOUS
<1>4. point'[u] = p /\ stack'[u] = s /\ outcome'[u] = o
  BY <1>1, <1>2, <1>3 DEF Alone
<1>5. (p = Idle /\ s = <<>>) \/ (PointOk(p) /\ StackOk(s))
  BY <1>1, <1>2 DEF ThreadHeld
<1>6. begun'[u] => Reads(p) /\ TwoSteps'
  BY <1>1 DEF ThreadHeld, Alone, Reading
<1>7. lock' = u => position' = p.offset
  BY <1>1 DEF ThreadHeld, Alone
<1>8. /\ reader' \in {"none", "marker", "failed"} => p = Idle
      /\ reader' = "opening" /\ u # Opener => p = Idle
  BY <1>1 DEF ThreadHeld, Alone
<1>9. o[1] \in Errors \cup {"nothing", "returned"}
  BY <1>3 DEF ThreadHeld
<1> QED
  BY <1>4, <1>5, <1>6, <1>7, <1>8, <1>9 DEF ThreadHeld, Reading

-----------------------------------------------------------------------------
(* The steps of opening *)

LEMMA NaturalIsNatural ==
  ASSUME NEW v, Plain(v)
  PROVE  Natural(v) \in Nat
<1>1. CASE v[1] = "uint"
  BY <1>1, BytesAreNatural DEF Plain, Natural
<1>2. CASE v[1] # "uint"
  BY <1>2 DEF Natural
<1> QED
  BY <1>1, <1>2

LEMMA FaultIsError ==
  ASSUME NEW p, PointOk(p), p.step \in {"error", "value"}
  PROVE  /\ Fault(p) \in Errors \cup {"none"}
         /\ Fault(p) = "none" => p.step = "value" /\ TreeSize(p.value[2]) \in Nat
<1>1. CASE p.step = "error"
  <2>1. PICK e \in Errors : p = Error(e)
    BY <1>1 DEF PointOk, Control, Extended, Size, Payload, Value, Error
  <2>2. Fault(p) = e /\ e # "none"
    BY <1>1, <2>1 DEF Fault, Error, Errors
  <2> QED
    BY <2>2
<1>2. CASE p.step = "value"
  <2>1. PICK v : v = p.value
    OBVIOUS
  <2>2. GoodValue(v)
    BY <1>2, <2>1, OnlyValues
  <2>3. Fault(p) \in {"InvalidDatabaseError", "TypeError", "KeyError", "none"}
    BY <1>2 DEF Fault
  <2>4. ASSUME Fault(p) = "none" PROVE TreeSize(v[2]) \in Nat
    <3>1. v[1] = "map" /\ Complete(v[2])
      BY <1>2, <2>1, <2>4 DEF Fault
    <3>2. Plain(v[2][NodeCount]) /\ Plain(v[2][RecordSize])
      BY <2>2, <3>1 DEF GoodValue, Complete
    <3>3. PICK m \in Nat, n \in Nat :
            m = Natural(v[2][NodeCount]) /\ n = Natural(v[2][RecordSize])
      BY <3>2, NaturalIsNatural
    <3>4. n \div 4 \in Nat
      BY <3>3
    <3>5. m * (n \div 4) \in Nat
      BY <3>3, <3>4
    <3> QED
      BY <3>3, <3>5 DEF TreeSize
  <2> QED
    BY <1>2, <2>1, <2>3, <2>4 DEF Errors
<1> QED
  BY <1>1, <1>2

LEMMA IdleThread ==
  ASSUME IInv, NEW t \in Threads, point[t] = Idle
  PROVE  stack[t] = <<>> /\ ~ begun[t] /\ lock # t
<1>1. ThreadHeld(t) /\ BufferHeld
  BY DEF IInv
<1>2. stack[t] = <<>>
  BY <1>1, NotIdle DEF ThreadHeld
<1>3. ~ Reading(t)
  BY DEF Reading, Reads, Idle
<1> QED
  BY <1>1, <1>2, <1>3 DEF ThreadHeld, BufferHeld

LEMMA OpenKeeps ==
  ASSUME IInv, NEW t \in Threads, NEW mode \in Modes, Open(t, mode)
  PROVE  IInv'
<1>1. BufferHeld /\ ReaderHeld /\ \A u \in Threads : ThreadHeld(u)
  BY DEF IInv
<1>2. /\ reader = "none" /\ access = "none" /\ ~ shut /\ descriptor = "ours"
      /\ access' = Access(mode)
      /\ UNCHANGED <<file, shut, descriptor, position, lock, begun, point, stack, base,
                     platform, dataBase, asked>>
  BY <1>1 DEF Open, ReaderHeld, BufferHeld, decoderVars
<1>3. \A u \in Threads : point[u] = Idle /\ stack[u] = <<>> /\ ~ begun[u] /\ lock # u
  BY <1>1, <1>2, IdleThread DEF ThreadHeld
<1>4. access' \in {"none", "memory", "mmap", "pread", "seek"}
  BY <1>2 DEF Access
<1>5. BufferHeld'
  BY <1>1, <1>2, <1>3, <1>4 DEF BufferHeld
<1>6. \/ /\ access' = "none" /\ reader' = "failed"
         /\ outcome' = [outcome EXCEPT ![t] = <<"ValueError">>]
      \/ access' # "none" /\ reader' = "marker" /\ outcome' = outcome
  BY DEF Open
<1>7. ReaderHeld'
  BY <1>1, <1>2, <1>6 DEF ReaderHeld
<1>8. ASSUME NEW u \in Threads PROVE ThreadHeld(u)'
  <2>1. PICK o : o = outcome'[u]
    OBVIOUS
  <2>2. o = outcome[u] \/ o = <<"ValueError">>
    BY <1>1, <1>6, <2>1 DEF ReaderHeld
  <2>3. o[1] \in Errors \cup {"nothing", "returned"}
    BY <1>1, <2>2 DEF ThreadHeld, Errors
  <2> QED
    BY <1>2, <1>3, <1>6, <2>1, <2>3 DEF ThreadHeld
<1> QED
  BY <1>5, <1>7, <1>8 DEF IInv

(* A thread that is idle begins to decode. *)
LEMMA DecodeKeeps ==
  ASSUME IInv, NEW t \in Threads, point[t] = Idle, NEW o \in Nat, NEW b \in Nat,
         Decode(t, o, b), UNCHANGED bufferVars, reader' \in {"opening", "open"},
         reader' = reader \/ (reader = "marker" /\ reader' = "opening" /\ t = Opener),
         reader = "opening" => t = Opener,
         UNCHANGED dataBase, asked' = [u \in Threads |-> asked'[u]],
         outcome' = [u \in Threads |-> outcome'[u]],
         \A u \in Threads \ {t} : outcome'[u] = outcome[u],
         outcome'[t][1] \in Errors \cup {"nothing", "returned"}
  PROVE  IInv'
<1>1. BufferHeld /\ ReaderHeld /\ \A u \in Threads : ThreadHeld(u)
  BY DEF IInv
<1>2. /\ UNCHANGED <<file, access, shut, descriptor, position, lock, begun, stack>>
      /\ point' = [point EXCEPT ![t] = Control(o)]
      /\ base' = [base EXCEPT ![t] = b]
  BY DEF bufferVars, Decode
<1>3. BufferHeld' /\ (TwoSteps <=> TwoSteps')
  BY <1>1, <1>2 DEF BufferHeld, TwoSteps
<1>4. ReaderHeld'
  BY <1>1, <1>2 DEF ReaderHeld
<1>5. stack[t] = <<>> /\ ~ begun[t] /\ lock # t
  BY IdleThread
<1>6. ThreadHeld(t)'
  <2>1. point'[t] = Control(o) /\ stack'[t] = stack[t] /\ begun'[t] = begun[t] /\ lock' = lock
    BY <1>1, <1>2 DEF ReaderHeld
  <2>2. PointOk(Control(o)) /\ StackOk(stack[t])
    BY <1>5, NoCalls DEF PointOk
  <2> QED
    BY <1>5, <2>1, <2>2 DEF ThreadHeld
<1>7. ASSUME NEW u \in Threads \ {t} PROVE ThreadHeld(u)'
  <2>1. reader = "marker" => point[u] = Idle
    BY <1>1 DEF ThreadHeld
  <2>2. Alone(u)
    BY <1>1, <1>2, <2>1 DEF Alone, ReaderHeld
  <2> QED
    BY <1>1, <1>3, <2>2, OthersHeld
<1> QED
  BY <1>3, <1>4, <1>6, <1>7 DEF IInv

LEMMA FindMarkerKeeps ==
  ASSUME IInv, NEW t \in Threads, FindMarker(t)
  PROVE  IInv'
<1>1. BufferHeld /\ ReaderHeld /\ \A u \in Threads : ThreadHeld(u)
  BY DEF IInv
<1>2. /\ reader = "marker" /\ t = Opener /\ ~ shut
      /\ \A u \in Threads : point[u] = Idle
      /\ UNCHANGED <<platform, dataBase, asked>>
  BY <1>1 DEF FindMarker, ReaderHeld, ThreadHeld
<1>3. \A u \in Threads : stack[u] = <<>> /\ ~ begun[u] /\ lock # u
  BY <1>2, IdleThread
<1>4. PICK start : start = Rfind(Content[file].markers)
  OBVIOUS
<1>5. CASE start = -1
  <2>1. /\ Shut /\ reader' = "failed"
        /\ outcome' = [outcome EXCEPT ![t] = <<"InvalidDatabaseError">>]
        /\ UNCHANGED <<point, stack, base>>
    BY <1>4, <1>5 DEF FindMarker, decoderVars
  <2>2. /\ shut' = TRUE
        /\ descriptor' = IF descriptor = "ours" /\ TwoSteps THEN "free" ELSE descriptor
        /\ UNCHANGED <<file, access, position, lock, begun>>
    BY <2>1 DEF Shut
  <2>3. BufferHeld'
    BY <1>1, <2>2 DEF BufferHeld, TwoSteps
  <2>4. ReaderHeld'
    BY <1>1, <1>2, <2>1, <2>2 DEF ReaderHeld
  <2>5. ASSUME NEW u \in Threads PROVE ThreadHeld(u)'
    <3>1. PICK o : o = outcome'[u]
      OBVIOUS
    <3>2. o = outcome[u] \/ o = <<"InvalidDatabaseError">>
      BY <1>1, <2>1, <3>1 DEF ReaderHeld
    <3>3. o[1] \in Errors \cup {"nothing", "returned"}
      BY <1>1, <3>2 DEF ThreadHeld, Errors
    <3> QED
      BY <1>2, <1>3, <2>1, <2>2, <3>1, <3>3 DEF ThreadHeld
  <2> QED
    BY <2>3, <2>4, <2>5 DEF IInv
<1>6. CASE start # -1
  <2>1. /\ Decode(t, start + MarkerSize, start + MarkerSize) /\ reader' = "opening"
        /\ UNCHANGED <<bufferVars, outcome>>
    BY <1>4, <1>6 DEF FindMarker
  <2>2. start + MarkerSize \in Nat
    BY <1>1, <1>4, <1>6, FirstMarker DEF MarkerSize
  <2>3. /\ asked' = [u \in Threads |-> asked'[u]]
        /\ outcome' = [u \in Threads |-> outcome'[u]]
        /\ \A u \in Threads : outcome'[u] = outcome[u]
        /\ outcome'[t][1] \in Errors \cup {"nothing", "returned"}
    BY <1>1, <1>2, <2>1 DEF ReaderHeld, ThreadHeld
  <2> QED
    BY <1>2, <2>1, <2>2, <2>3, DecodeKeeps
<1> QED
  BY <1>5, <1>6

-----------------------------------------------------------------------------
(* The steps of decoding *)

LEMMA BeginKeeps ==
  ASSUME IInv, NEW t \in Threads, Begin(t), UNCHANGED readerVars
  PROVE  IInv'
<1>1. BufferHeld /\ ReaderHeld /\ \A u \in Threads : ThreadHeld(u)
  BY DEF IInv
<1>2. /\ Reading(t) /\ TwoSteps /\ ~ begun[t]
      /\ begun' = [begun EXCEPT ![t] = TRUE]
      /\ IF access = "seek"
           THEN lock = NoThread /\ lock' = t /\ position' = point[t].offset
           ELSE lock' = lock /\ position' = position
      /\ UNCHANGED <<file, access, shut, descriptor, point, stack, base,
                     platform, reader, dataBase, asked, outcome>>
  BY DEF Begin, BeginRead, decoderVars, readerVars
<1>3. BufferHeld' /\ (TwoSteps <=> TwoSteps')
  <2>1. lock' \in Threads \cup {NoThread} /\ begun' \in [Threads -> BOOLEAN]
    BY <1>1, <1>2 DEF BufferHeld
  <2>2. ASSUME NEW u \in Threads PROVE lock' = u <=> access' = "seek" /\ begun'[u]
    BY <1>1, <1>2, ThreadsAssumption DEF BufferHeld
  <2> QED
    BY <1>1, <1>2, <2>1, <2>2 DEF BufferHeld, TwoSteps
<1>4. ReaderHeld'
  BY <1>1, <1>2 DEF ReaderHeld
<1>5. ThreadHeld(t)'
  <2>1. begun'[t] /\ (lock' = t => position' = point[t].offset)
    BY <1>1, <1>2 DEF BufferHeld
  <2> QED
    BY <1>1, <1>2, <1>3, <2>1 DEF ThreadHeld, Reading
<1>6. ASSUME NEW u \in Threads \ {t} PROVE ThreadHeld(u)'
  <2>1. Alone(u)
    BY <1>1, <1>2, ThreadsAssumption DEF Alone, BufferHeld
  <2> QED
    BY <1>1, <1>3, <2>1, OthersHeld
<1> QED
  BY <1>3, <1>4, <1>5, <1>6 DEF IInv

(* A thread goes on from where it stands, and has the lock no longer. *)
LEMMA ToKeeps ==
  ASSUME IInv, NEW t \in Threads, point[t] # Idle, NEW c, StandOk(c), To(t, c),
         UNCHANGED readerVars, UNCHANGED <<file, access, shut, descriptor>>,
         begun' = [begun EXCEPT ![t] = FALSE],
         lock' = IF lock = t THEN NoThread ELSE lock,
         position' = position \/ access # "seek" \/ lock = t
  PROVE  IInv'
<1>1. BufferHeld /\ ReaderHeld /\ \A u \in Threads : ThreadHeld(u)
  BY DEF IInv
<1>2. /\ point' = [point EXCEPT ![t] = c.point] /\ stack' = [stack EXCEPT ![t] = c.stack]
      /\ UNCHANGED <<base, platform, reader, dataBase, asked, outcome>>
  BY DEF To, readerVars
<1>3. BufferHeld' /\ (TwoSteps <=> TwoSteps')
  <2>1. lock' \in Threads \cup {NoThread} /\ begun' \in [Threads -> BOOLEAN]
    BY <1>1 DEF BufferHeld
  <2>2. ASSUME NEW u \in Threads PROVE lock' = u <=> access' = "seek" /\ begun'[u]
    BY <1>1, ThreadsAssumption DEF BufferHeld
  <2> QED
    BY <1>1, <2>1, <2>2 DEF BufferHeld, TwoSteps
<1>4. ReaderHeld'
  BY <1>1, <1>2 DEF ReaderHeld
<1>5. ThreadHeld(t)'
  <2>1. PICK p, s : p = c.point /\ s = c.stack
    OBVIOUS
  <2>2. PointOk(p) /\ StackOk(s)
    BY <2>1 DEF StandOk
  <2>3. point'[t] = p /\ stack'[t] = s
    BY <1>1, <1>2, <2>1 DEF ReaderHeld
  <2>4. ~ begun'[t] /\ lock' # t
    BY <1>1, ThreadsAssumption DEF BufferHeld
  <2> QED
    BY <1>1, <1>2, <2>2, <2>3, <2>4 DEF ThreadHeld
<1>6. ASSUME NEW u \in Threads \ {t} PROVE ThreadHeld(u)'
  <2>1. lock' = u <=> lock = u
    BY ThreadsAssumption
  <2>2. lock = u => position' = position
    BY <1>1 DEF BufferHeld
  <2>3. Alone(u)
    BY <1>1, <1>2, <2>1, <2>2 DEF Alone, ReaderHeld, BufferHeld
  <2> QED
    BY <1>1, <1>3, <2>3, OthersHeld
<1> QED
  BY <1>3, <1>4, <1>5, <1>6 DEF IInv

LEMMA ReadKeeps ==
  ASSUME IInv, NEW t \in Threads, Read(t), UNCHANGED readerVars
  PROVE  IInv'
<1>1. BufferHeld /\ ReaderHeld /\ ThreadHeld(t)
  BY DEF IInv
<1>2. PICK p, s, b, n, o : p = point[t] /\ s = stack[t] /\ b = base[t] /\ n = Wanted(p) /\ o = p.offset
  OBVIOUS
<1>3. PICK c : c = IF Failure(t) # "none" THEN Raised(Failure(t), s)
                   ELSE Got(p, s, b, Bytes(o, n))
  OBVIOUS
<1>4. Reading(t) /\ CanRead(t) /\ To(t, c) /\ EndRead(t, n)
  BY <1>2, <1>3 DEF Read
<1>5. Reads(p) /\ p # Idle
  BY <1>2, <1>4 DEF Reading, Reads, Idle
<1>6. PointOk(p) /\ StackOk(s)
  BY <1>1, <1>2, <1>5 DEF ThreadHeld
<1>7. StandOk(c)
  <2>1. CASE Failure(t) # "none"
    <3>1. PICK e : e = Failure(t)
      OBVIOUS
    <3>2. e \in Errors
      BY <2>1, <3>1 DEF Failure, Errors
    <3> QED
      BY <1>3, <1>6, <2>1, <3>1, <3>2, RaisedOk
  <2>2. CASE Failure(t) = "none"
    <3>1. n \in Nat /\ o \in Nat /\ b \in Nat
      BY <1>1, <1>2, <1>5, <1>6, PointFields, WantedIsNatural DEF ReaderHeld
    <3>2. PICK f, q : /\ f = IF access = "pread" /\ descriptor = "reused" THEN OtherFile ELSE file
                      /\ q = IF access = "seek" THEN position ELSE o
      OBVIOUS
    <3>3. f \in DOMAIN Files
      BY <1>1, <3>2, FilesAssumption DEF BufferHeld
    <3>4. q = o
      BY <1>1, <1>2, <1>4, <3>2 DEF CanRead, TwoSteps, BufferHeld, ThreadHeld
    <3>5. PICK y : y = Slice(Content[f], o, n)
      OBVIOUS
    <3>6. Bytes(o, n) = y
      BY <3>2, <3>4, <3>5 DEF Bytes
    <3>7. BytesOk(y)
      BY <3>1, <3>3, <3>5, SliceIsBytes
    <3> QED
      BY <1>3, <1>5, <1>6, <2>2, <3>1, <3>6, <3>7, GotOk
  <2> QED
    BY <2>1, <2>2
<1>8. /\ begun' = [begun EXCEPT ![t] = FALSE]
      /\ lock' = (IF lock = t THEN NoThread ELSE lock)
      /\ UNCHANGED <<file, access, shut, descriptor>>
      /\ position' = position \/ access # "seek" \/ lock = t
  BY <1>1, <1>4 DEF EndRead, CanRead, TwoSteps, BufferHeld
<1> QED
  BY <1>2, <1>4, <1>5, <1>7, <1>8, ToKeeps

LEMMA HandKeeps ==
  ASSUME IInv, NEW t \in Threads, Hand(t), UNCHANGED readerVars
  PROVE  IInv'
<1>1. BufferHeld /\ ReaderHeld /\ ThreadHeld(t)
  BY DEF IInv
<1>2. PICK p, s : p = point[t] /\ s = stack[t]
  OBVIOUS
<1>3. PICK c : c = Handed(p, s)
  OBVIOUS
<1>4. /\ p.step = "value" /\ s # <<>> /\ To(t, c)
      /\ UNCHANGED <<file, access, shut, descriptor, position, lock, begun>>
  BY <1>2, <1>3 DEF Hand, bufferVars
<1>5. p # Idle
  BY <1>4 DEF Idle
<1>6. PointOk(p) /\ StackOk(s)
  BY <1>1, <1>2, <1>5 DEF ThreadHeld
<1>7. StandOk(c)
  BY <1>3, <1>4, <1>6, HandedOk
<1>8. ~ begun[t]
  BY <1>1, <1>2, <1>4 DEF ThreadHeld, Reading, Reads
<1>9. begun' = [begun EXCEPT ![t] = FALSE] /\ lock # t
  BY <1>1, <1>4, <1>8 DEF BufferHeld
<1> QED
  BY <1>2, <1>4, <1>5, <1>7, <1>9, ToKeeps

-----------------------------------------------------------------------------
(* The steps that end a decoding, and the buffer *)

LEMMA LeaveKeeps ==
  ASSUME IInv, NEW t \in Threads, Decoded(t), Leave(t), UNCHANGED bufferVars,
         \/ reader \in {"opening", "open"} /\ reader' = reader
         \/ reader = "opening" /\ reader' \in {"open", "failed"} /\ t = Opener,
         dataBase' \in Nat, asked' = asked,
         outcome' = [u \in Threads |-> outcome'[u]],
         \A u \in Threads \ {t} : outcome'[u] = outcome[u],
         outcome'[t][1] \in Errors \cup {"nothing", "returned"}
  PROVE  IInv'
<1>1. BufferHeld /\ ReaderHeld /\ \A u \in Threads : ThreadHeld(u)
  BY DEF IInv
<1>2. /\ UNCHANGED <<file, access, shut, descriptor, position, lock, begun>>
      /\ point' = [point EXCEPT ![t] = Idle] /\ stack' = [stack EXCEPT ![t] = <<>>]
      /\ base' = [base EXCEPT ![t] = 0]
  BY DEF bufferVars, Leave
<1>3. BufferHeld' /\ (TwoSteps <=> TwoSteps')
  BY <1>1, <1>2 DEF BufferHeld, TwoSteps
<1>4. ReaderHeld'
  BY <1>1, <1>2 DEF ReaderHeld
<1>5. ~ begun[t] /\ lock # t
  <2>1. ~ Reading(t)
    BY DEF Decoded, Ended, Stand, Reading, Reads
  <2> QED
    BY <1>1, <2>1 DEF ThreadHeld, BufferHeld
<1>6. ThreadHeld(t)'
  <2>1. point'[t] = Idle /\ stack'[t] = <<>> /\ begun' = begun /\ lock' = lock
    BY <1>1, <1>2 DEF ReaderHeld
  <2> QED
    BY <1>5, <2>1 DEF ThreadHeld
<1>7. ASSUME NEW u \in Threads \ {t} PROVE ThreadHeld(u)'
  <2>1. reader = "opening" /\ t = Opener => point[u] = Idle
    BY <1>1 DEF ThreadHeld
  <2>2. Alone(u)
    BY <1>1, <1>2, <2>1 DEF Alone, ReaderHeld
  <2> QED
    BY <1>1, <1>3, <2>2, OthersHeld
<1> QED
  BY <1>3, <1>4, <1>6, <1>7 DEF IInv

(* What is decoded is a value, or an error. *)
LEMMA DecodedPoint ==
  ASSUME IInv, NEW t \in Threads, Decoded(t)
  PROVE  PointOk(point[t]) /\ point[t].step \in {"error", "value"} /\ point[t] # Idle
<1>1. point[t].step \in {"error", "value"}
  BY DEF Decoded, Ended, Stand
<1>2. point[t] # Idle
  BY <1>1 DEF Idle
<1> QED
  BY <1>1, <1>2 DEF IInv, ThreadHeld

LEMMA EndOpenKeeps ==
  ASSUME IInv, NEW t \in Threads, EndOpen(t)
  PROVE  IInv'
<1>1. ReaderHeld /\ ThreadHeld(t)
  BY DEF IInv
<1>2. PICK p : p = point[t]
  OBVIOUS
<1>3. /\ reader = "opening" /\ Decoded(t) /\ Leave(t) /\ UNCHANGED bufferVars
      /\ asked' = asked
      /\ \/ /\ Fault(p) # "none" /\ reader' = "failed" /\ dataBase' = dataBase
            /\ outcome' = [outcome EXCEPT ![t] = <<Fault(p)>>]
         \/ /\ Fault(p) = "none" /\ reader' = "open" /\ outcome' = outcome
            /\ dataBase' = TreeSize(p.value[2]) + SeparatorSize
  BY <1>2 DEF EndOpen
<1>4. PointOk(p) /\ p.step \in {"error", "value"} /\ p # Idle
  BY <1>2, <1>3, DecodedPoint
<1>5. t = Opener
  BY <1>1, <1>2, <1>3, <1>4 DEF ThreadHeld
<1>6. PICK e : e = Fault(p)
  OBVIOUS
<1>7. e \in Errors \cup {"none"} /\ (e = "none" => TreeSize(p.value[2]) \in Nat)
  BY <1>4, <1>6, FaultIsError
<1>8. dataBase' \in Nat
  BY <1>1, <1>3, <1>6, <1>7 DEF ReaderHeld, SeparatorSize
<1>9. /\ outcome' = [u \in Threads |-> outcome'[u]]
      /\ \A u \in Threads \ {t} : outcome'[u] = outcome[u]
      /\ outcome'[t][1] \in Errors \cup {"nothing", "returned"}
  BY <1>1, <1>3, <1>6, <1>7 DEF ReaderHeld, ThreadHeld
<1> QED
  BY <1>3, <1>5, <1>8, <1>9, LeaveKeeps

LEMMA EndResolveKeeps ==
  ASSUME IInv, NEW t \in Threads, EndResolve(t)
  PROVE  IInv'
<1>1. ReaderHeld /\ ThreadHeld(t)
  BY DEF IInv
<1>2. PICK p : p = point[t]
  OBVIOUS
<1>3. PICK o : o = IF p.step = "error" THEN <<p.error>> ELSE <<"returned", p.value>>
  OBVIOUS
<1>4. /\ reader = "open" /\ Decoded(t) /\ Leave(t) /\ UNCHANGED bufferVars
      /\ UNCHANGED <<reader, dataBase, asked>> /\ outcome' = [outcome EXCEPT ![t] = o]
  BY <1>2, <1>3 DEF EndResolve
<1>5. PointOk(p) /\ p.step \in {"error", "value"}
  BY <1>2, <1>4, DecodedPoint
<1>6. p.step = "error" => p.error \in Errors
  BY <1>5 DEF PointOk, Control, Extended, Size, Payload, Value, Error
<1>7. o[1] \in Errors \cup {"nothing", "returned"}
  BY <1>3, <1>5, <1>6
<1>8. /\ outcome' = [u \in Threads |-> outcome'[u]]
      /\ \A u \in Threads \ {t} : outcome'[u] = outcome[u]
      /\ outcome'[t] = o
  BY <1>1, <1>4 DEF ReaderHeld
<1>9. dataBase' \in Nat
  BY <1>1, <1>4 DEF ReaderHeld
<1> QED
  BY <1>4, <1>7, <1>8, <1>9, LeaveKeeps

LEMMA ResolveKeeps ==
  ASSUME IInv, NEW t \in Threads, NEW place \in Content[file].places, Resolve(t, place)
  PROVE  IInv'
<1>1. BufferHeld /\ ReaderHeld /\ \A u \in Threads : ThreadHeld(u)
  BY DEF IInv
<1>2. place \in Nat
  BY <1>1, FilesAssumption DEF BufferHeld, Content
<1>3. PICK o : o = dataBase + place
  OBVIOUS
<1>4. o \in Nat /\ dataBase \in Nat
  BY <1>1, <1>2, <1>3 DEF ReaderHeld
<1>5. /\ reader = "open" /\ point[t] = Idle /\ asked' = [asked EXCEPT ![t] = place]
      /\ UNCHANGED <<bufferVars, platform, reader, dataBase>>
      /\ \/ /\ outcome' = [outcome EXCEPT ![t] = <<"InvalidDatabaseError">>]
            /\ UNCHANGED decoderVars
         \/ outcome' = [outcome EXCEPT ![t] = Nothing] /\ Decode(t, o, dataBase)
  BY <1>3 DEF Resolve
<1>6. asked' = [u \in Threads |-> asked'[u]]
  BY <1>1, <1>5 DEF ReaderHeld
<1>7. CASE outcome' = [outcome EXCEPT ![t] = Nothing] /\ Decode(t, o, dataBase)
  <2>1. Nothing[1] = "nothing"
    BY DEF Nothing
  <2>2. /\ outcome' = [u \in Threads |-> outcome'[u]]
        /\ \A u \in Threads \ {t} : outcome'[u] = outcome[u]
        /\ outcome'[t] = Nothing
    BY <1>1, <1>7 DEF ReaderHeld
  <2> QED
    BY <1>4, <1>5, <1>6, <1>7, <2>1, <2>2, DecodeKeeps
<1>8. CASE /\ outcome' = [outcome EXCEPT ![t] = <<"InvalidDatabaseError">>]
           /\ UNCHANGED decoderVars
  <2>1. UNCHANGED <<file, access, shut, descriptor, position, lock, begun, point, stack, base,
                    reader, dataBase>>
    BY <1>5, <1>8 DEF bufferVars, decoderVars
  <2>2. BufferHeld'
    BY <1>1, <2>1 DEF BufferHeld, TwoSteps
  <2>3. ReaderHeld'
    BY <1>1, <1>6, <1>8, <2>1 DEF ReaderHeld
  <2>4. ASSUME NEW u \in Threads PROVE ThreadHeld(u)'
    <3>1. PICK w : w = outcome'[u]
      OBVIOUS
    <3>2. w = outcome[u] \/ w = <<"InvalidDatabaseError">>
      BY <1>1, <1>8, <3>1 DEF ReaderHeld
    <3>3. w[1] \in Errors \cup {"nothing", "returned"}
      BY <1>1, <3>2 DEF ThreadHeld, Errors
    <3> QED
      BY <1>1, <2>1, <3>1, <3>3 DEF ThreadHeld, Reading, TwoSteps
  <2> QED
    BY <2>2, <2>3, <2>4 DEF IInv
<1> QED
  BY <1>5, <1>7, <1>8

LEMMA BufferKeeps ==
  ASSUME IInv, Close \/ (Reuse /\ UNCHANGED <<decoderVars, readerVars>>) \/ UNCHANGED vars
  PROVE  IInv'
<1>1. BufferHeld /\ ReaderHeld /\ \A u \in Threads : ThreadHeld(u)
  BY DEF IInv
<1>2. /\ UNCHANGED <<file, access, position, lock, begun, point, stack, base,
                     platform, reader, dataBase, asked, outcome>>
      /\ \/ shut' = shut /\ descriptor' = descriptor
         \/ /\ reader = "open" /\ shut' = TRUE
            /\ descriptor' = IF descriptor = "ours" /\ TwoSteps THEN "free" ELSE descriptor
         \/ descriptor = "free" /\ descriptor' = "reused" /\ shut' = shut
  BY DEF Close, Shut, Reuse, vars, bufferVars, decoderVars, readerVars
<1>3. BufferHeld' /\ (TwoSteps <=> TwoSteps')
  BY <1>1, <1>2 DEF BufferHeld, TwoSteps
<1>4. ReaderHeld'
  BY <1>1, <1>2 DEF ReaderHeld
<1>5. ASSUME NEW u \in Threads PROVE ThreadHeld(u)'
  <2>1. Alone(u)
    BY <1>2 DEF Alone
  <2> QED
    BY <1>1, <1>3, <2>1, OthersHeld
<1> QED
  BY <1>3, <1>4, <1>5 DEF IInv

LEMMA Inductive == Spec => []IInv
<1>1. ASSUME IInv, [Next]_vars PROVE IInv'
  <2>1. CASE Close \/ (Reuse /\ UNCHANGED <<decoderVars, readerVars>>) \/ UNCHANGED vars
    BY <1>1, <2>1, BufferKeeps
  <2>2. ASSUME NEW t \in Threads, Step(t) PROVE IInv'
    BY <1>1, <2>2, FindMarkerKeeps, BeginKeeps, ReadKeeps, HandKeeps, EndOpenKeeps,
       EndResolveKeeps DEF Step, Decoding
  <2>3. ASSUME NEW t \in Threads, NEW mode \in Modes, Open(t, mode) PROVE IInv'
    BY <1>1, <2>3, OpenKeeps
  <2>4. ASSUME NEW t \in Threads, NEW place \in Content[file].places, Resolve(t, place)
        PROVE  IInv'
    BY <1>1, <2>4, ResolveKeeps
  <2> QED
    BY <1>1, <2>1, <2>2, <2>3, <2>4 DEF Next
<1> QED
  BY InitHolds, <1>1, PTL DEF Spec

-----------------------------------------------------------------------------
(* The theorems that hold of any files *)

(* The variables have their types: threads decode no deeper than the       *)
(* interpreter allows and read nowhere before the file, a thread that has  *)
(* returned has no read half done, and calls end with the errors this code *)
(* raises (decoder.py:141-204, file.py:47-66).                             *)
THEOREM TypeCorrect == Spec => []TypeOK
<1>1. ASSUME IInv, NEW t \in Threads
      PROVE  /\ point[t].step \in {"idle", "control", "extended", "size", "payload",
                                   "value", "error"}
             /\ point[t] = Idle => stack[t] = <<>> /\ ~ begun[t]
             /\ Reading(t) => point[t].offset \in Nat
             /\ Len(stack[t]) <= MaxDepth
             /\ outcome[t][1] \in Errors \cup {"nothing", "returned"}
  <2>1. ThreadHeld(t)
    BY <1>1 DEF IInv
  <2>2. CASE point[t] = Idle
    <3>1. point[t].step = "idle" /\ ~ Reading(t)
      BY <2>2 DEF Idle, Reading, Reads
    <3>2. stack[t] = <<>> /\ ~ begun[t]
      BY <1>1, <2>2, IdleThread
    <3>3. Len(stack[t]) <= MaxDepth
      BY <3>2, NoCalls DEF StackOk
    <3> QED
      BY <2>1, <3>1, <3>2, <3>3 DEF ThreadHeld
  <2>3. CASE point[t] # Idle
    <3>1. PointOk(point[t]) /\ StackOk(stack[t])
      BY <2>1, <2>3 DEF ThreadHeld
    <3>2. point[t].step \in {"control", "extended", "size", "payload", "value", "error"}
      BY <3>1, NotIdle
    <3>3. Reading(t) => point[t].offset \in Nat
      BY <3>1, PointFields DEF Reading
    <3> QED
      BY <2>1, <2>3, <3>1, <3>2, <3>3 DEF ThreadHeld, StackOk
  <2> QED
    BY <2>2, <2>3
<1>2. IInv => TypeOK
  BY <1>1 DEF IInv, BufferHeld, ReaderHeld, TypeOK
<1> QED
  BY Inductive, <1>2, PTL

(* Whoever holds the lock is reading: no thread keeps it when it returns,  *)
(* raises, or is idle (file.py:63-66).                                     *)
LockOfAReader ==
  \A t \in Threads : lock = t => access = "seek" /\ begun[t] /\ Reading(t)

THEOREM LockIsGivenBack == Spec => []LockOfAReader
<1>1. IInv => LockOfAReader
  BY DEF IInv, BufferHeld, ThreadHeld, LockOfAReader
<1> QED
  BY Inductive, <1>1, PTL

LEMMA OwnBytes ==
  ASSUME IInv, NEW t \in Threads, Reading(t), CanRead(t), ~ Misled, NEW n
  PROVE  Bytes(point[t].offset, n) = Slice(Content[file], point[t].offset, n)
<1>1. BufferHeld /\ ThreadHeld(t)
  BY DEF IInv
<1>2. access = "seek" => position = point[t].offset
  BY <1>1 DEF CanRead, TwoSteps, BufferHeld, ThreadHeld
<1>3. ~ (access = "pread" /\ descriptor = "reused")
  BY DEF Misled
<1> QED
  BY <1>2, <1>3 DEF Bytes

(* A thread reads the bytes of its own file at its own offset, whatever    *)
(* others do with the offset they share between its two steps, unless the  *)
(* reader was closed and the descriptor it took is that of another file    *)
(* (file.py:48, 54-66).                                                    *)
ReadsItsOwn ==
  ~ Misled =>
    \A t \in Threads : Reading(t) /\ CanRead(t) =>
      \A n \in Nat :
        Bytes(point[t].offset, n) = Slice(Content[file], point[t].offset, n)

THEOREM ReadsAreNotMixed == Spec => []ReadsItsOwn
<1>1. IInv => ReadsItsOwn
  BY OwnBytes DEF ReadsItsOwn
<1> QED
  BY Inductive, <1>1, PTL

-----------------------------------------------------------------------------
(* The theorems that hold of sound files.  What is sound is what a thread  *)
(* alone decodes: run[n] is where it stands after n steps, and where it    *)
(* ends it has this value.  That concurrent threads, in every mode and     *)
(* whenever the reader is closed, decode the same is what is proved.       *)

(* Where a thread is after one step, if nothing keeps it from reading *)
After(content, start, c) ==
  LET p == c.point IN
  IF Reads(p) THEN Got(p, c.stack, start, Slice(content, p.offset, Wanted(p)))
              ELSE Handed(p, c.stack)

Leads(run, content, o, start, v) ==
  /\ run[0] = Stand(Control(o), <<>>)
  /\ \A n \in Nat : ~ Ended(run[n]) => run[n + 1] = After(content, start, run[n])
  /\ \A n \in Nat : Ended(run[n]) => run[n].point.step = "value" /\ run[n].point.value = v

(* The marker is where both ways to look for it find it, the metadata say  *)
(* where the data are, and there the values are.                           *)
HasMetadata(content, m, v) ==
  /\ m \in content.markers /\ \A q \in content.markers : q <= m
  /\ content.size - 131072 <= m /\ m + MarkerSize < content.size
  /\ \A o : Fault(Value(v, o)) = "none"
  /\ TreeSize(v[2]) + SeparatorSize = content.data
  /\ \E run : Leads(run, content, m + MarkerSize, m + MarkerSize, v)

HasValues(content) ==
  \A place \in content.places :
    /\ content.data + place < content.size
    /\ \E run : Leads(run, content, content.data + place, content.data,
                      content.values[place])

FilesAreSound ==
  \A f \in DOMAIN Files :
    Files[f].sound => (\E m, v : HasMetadata(Files[f], m, v)) /\ HasValues(Files[f])

On(run, t) ==
  \E n \in Nat : run[n].point = point[t] /\ run[n].stack = stack[t]

(* The errors of a reader that has been closed *)
Closed(e) ==
  \/ e = "ValueError" /\ shut
  \/ e = "OSError" /\ shut /\ access = "pread"
Failing(p) == p.step = "error" /\ Closed(p.error)

Opens ==
  \E m, v, run :
    /\ HasMetadata(Content[file], m, v)
    /\ Leads(run, Content[file], m + MarkerSize, m + MarkerSize, v)
    /\ base[Opener] = m + MarkerSize /\ On(run, Opener)

Follows(t) ==
  \E run :
    /\ Leads(run, Content[file], dataBase + asked[t], dataBase,
             Content[file].values[asked[t]])
    /\ base[t] = dataBase /\ On(run, t)

Faithful(t) ==
  /\ reader = "open" /\ point[t] # Idle => Failing(point[t]) \/ Follows(t)
  /\ outcome[t][1] = "returned" => outcome[t][2] = Content[file].values[asked[t]]
  /\ outcome[t][1] \in Errors =>
       Closed(outcome[t][1]) \/ (outcome[t][1] = "ValueError" /\ access = "none")

FInv ==
  Sound =>
    /\ reader = "none" => \A t \in Threads : outcome[t] = Nothing
    /\ reader = "failed" => access = "none"
    /\ reader = "open" => dataBase = Content[file].data
    /\ reader = "opening" => Opens
    /\ ~ Misled => \A t \in Threads : Faithful(t)

(* One step of a thread is one step of the run it is on, or its end. *)
LEMMA RunGoesOn ==
  ASSUME IInv, NEW t \in Threads, Read(t) \/ Hand(t), ~ Misled,
         NEW run, NEW o, NEW v, Leads(run, Content[file], o, base[t], v), On(run, t)
  PROVE  Failing(point[t])' \/ On(run, t)'
<1>1. ReaderHeld /\ BufferHeld /\ ThreadHeld(t)
  BY DEF IInv
<1>2. PICK p, s, b, c : p = point[t] /\ s = stack[t] /\ b = base[t] /\ c = Content[file]
  OBVIOUS
<1>3. PICK n \in Nat : run[n].point = p /\ run[n].stack = s
  BY <1>2 DEF On
<1>4. ASSUME NEW d, To(t, d), ~ Ended(run[n]), d = After(c, b, run[n])
      PROVE  On(run, t)'
  <2>1. run[n + 1] = d
    BY <1>2, <1>4 DEF Leads
  <2>2. point'[t] = d.point /\ stack'[t] = d.stack
    BY <1>1, <1>4 DEF To, ReaderHeld
  <2>3. n + 1 \in Nat
    OBVIOUS
  <2> QED
    BY <2>1, <2>2, <2>3 DEF On
<1>5. CASE Hand(t)
  <2>1. p.step = "value" /\ s # <<>> /\ To(t, Handed(p, s))
    BY <1>2, <1>5 DEF Hand
  <2>2. ~ Ended(run[n]) /\ ~ Reads(p)
    BY <1>3, <2>1 DEF Ended, Reads
  <2>3. After(c, b, run[n]) = Handed(p, s)
    BY <1>3, <2>2 DEF After
  <2> QED
    BY <1>4, <2>1, <2>2, <2>3
<1>6. CASE Read(t) /\ Failure(t) = "none"
  <2>1. PICK y : y = Bytes(p.offset, Wanted(p))
    OBVIOUS
  <2>2. Reading(t) /\ CanRead(t) /\ Reads(p) /\ To(t, Got(p, s, b, y))
    BY <1>2, <1>6, <2>1 DEF Read, Reading
  <2>3. y = Slice(c, p.offset, Wanted(p))
    BY <1>2, <2>1, <2>2, OwnBytes
  <2>4. ~ Ended(run[n])
    BY <1>3, <2>2 DEF Ended, Reads
  <2>5. After(c, b, run[n]) = Got(p, s, b, y)
    BY <1>3, <2>2, <2>3 DEF After
  <2> QED
    BY <1>4, <2>2, <2>4, <2>5
<1>7. CASE Read(t) /\ Failure(t) # "none"
  <2>1. PICK e : e = Failure(t)
    OBVIOUS
  <2>2. To(t, Raised(e, s)) /\ EndRead(t, Wanted(p))
    BY <1>2, <1>7, <2>1 DEF Read
  <2>3. point'[t] = Error(e)
    BY <1>1, <2>2 DEF To, Raised, Stand, ReaderHeld
  <2>4. Closed(e)
    BY <1>1, <1>7, <2>1 DEF Failure, Closed, BufferHeld
  <2>5. shut' = shut /\ access' = access
    BY <2>2 DEF EndRead
  <2>6. Closed(e)'
    BY <2>4, <2>5 DEF Closed
  <2> QED
    BY <2>3, <2>6 DEF Failing, Error
<1> QED
  BY <1>5, <1>6, <1>7

(* A step that is not a thread's own changes nothing of this for it. *)
LEMMA StillFaithful ==
  ASSUME NEW u, Faithful(u), UNCHANGED <<file, access, dataBase>>, shut => shut',
         point'[u] = point[u], stack'[u] = stack[u], base'[u] = base[u],
         asked'[u] = asked[u], outcome'[u] = outcome[u],
         reader' = "open" => reader = "open" \/ point[u] = Idle
  PROVE  Faithful(u)'
<1>1. \A e : Closed(e) => Closed(e)'
  BY DEF Closed
<1>2. Failing(point[u]) => Failing(point[u])'
  BY <1>1 DEF Failing
<1>3. ASSUME Follows(u) PROVE Follows(u)'
  <2>1. PICK run : /\ Leads(run, Content[file], dataBase + asked[u], dataBase,
                            Content[file].values[asked[u]])
                   /\ base[u] = dataBase /\ On(run, u)
    BY <1>3 DEF Follows
  <2>2. On(run, u)'
    BY <2>1 DEF On
  <2>3. Leads(run, Content[file], dataBase + asked[u], dataBase,
              Content[file].values[asked[u]])'
    BY <2>1 DEF Leads
  <2> QED
    BY <2>1, <2>2, <2>3 DEF Follows
<1>4. reader' = "open" /\ point'[u] # Idle => Failing(point[u])' \/ Follows(u)'
  BY <1>2, <1>3 DEF Faithful
<1>5. outcome'[u][1] = "returned" => outcome'[u][2] = Content'[file'].values[asked'[u]]
  BY DEF Faithful, Content
<1>6. outcome'[u][1] \in Errors =>
        Closed(outcome[u][1])' \/ (outcome'[u][1] = "ValueError" /\ access' = "none")
  BY <1>1 DEF Faithful
<1> QED
  BY <1>4, <1>5, <1>6 DEF Faithful

LEMMA StillOpens ==
  ASSUME Opens, UNCHANGED file, UNCHANGED <<point, stack, base>>
  PROVE  Opens'
<1>1. PICK m, v, run :
        /\ HasMetadata(Content[file], m, v)
        /\ Leads(run, Content[file], m + MarkerSize, m + MarkerSize, v)
        /\ base[Opener] = m + MarkerSize /\ On(run, Opener)
  BY DEF Opens
<1>2. On(run, Opener)'
  BY <1>1 DEF On
<1>3. PICK c : c = Content[file]
  OBVIOUS
<1>4. Content'[file'] = c
  BY <1>3 DEF Content
<1> QED
  BY <1>1, <1>2, <1>3, <1>4 DEF Opens

(* Both ways to look for the marker find the last one. *)
LEMMA MarkerIsFound ==
  ASSUME BufferHeld, NEW m, NEW v, HasMetadata(Content[file], m, v)
  PROVE  Rfind(Content[file].markers) = m
<1>1. PICK c : c = Content[file]
  OBVIOUS
<1>2. c.size \in Nat /\ c.markers \subseteq Nat
  BY <1>1, FilesAssumption DEF BufferHeld, Content
<1>3. /\ m \in c.markers /\ \A q \in c.markers : q <= m
      /\ c.size - 131072 <= m /\ m + 14 < c.size
  BY <1>1 DEF HasMetadata, MarkerSize
<1>4. PICK begin, end, places :
        /\ begin = c.size - 131072 /\ end = IF TwoSteps THEN c.size - 1 ELSE c.size
        /\ places = c.markers
  OBVIOUS
<1>5. PICK found : found = {p \in places : p >= begin /\ p + 14 <= end}
  OBVIOUS
<1>6. Rfind(c.markers) =
        IF found = {} THEN -1 ELSE CHOOSE p \in found : \A q \in found : q <= p
  BY <1>1, <1>4, <1>5 DEF Rfind
<1>7. m \in found
  BY <1>2, <1>3, <1>4, <1>5
<1>8. \A q \in found : q <= m /\ q \in Nat
  BY <1>2, <1>3, <1>4, <1>5
<1>9. PICK p : p = CHOOSE r \in found : \A q \in found : q <= r
  OBVIOUS
<1>10. p \in found /\ \A q \in found : q <= p
  BY <1>7, <1>8, <1>9
<1>11. p = m
  BY <1>2, <1>3, <1>7, <1>8, <1>10
<1> QED
  BY <1>1, <1>6, <1>7, <1>9, <1>11

LEMMA SoundHas ==
  ASSUME FilesAreSound, BufferHeld, Sound
  PROVE  (\E m, v : HasMetadata(Content[file], m, v)) /\ HasValues(Content[file])
BY DEF FilesAreSound, BufferHeld, Sound, Content

(* Where a run ends, it has its value. *)
LEMMA RunEnds ==
  ASSUME IInv, NEW t \in Threads, Decoded(t), NEW run, NEW c, NEW o, NEW start, NEW v,
         Leads(run, c, o, start, v), On(run, t)
  PROVE  \E q : point[t] = Value(v, q)
<1>1. PICK p, s : p = point[t] /\ s = stack[t]
  OBVIOUS
<1>2. PICK n \in Nat : run[n].point = p /\ run[n].stack = s
  BY <1>1 DEF On
<1>3. Ended(run[n])
  BY <1>1, <1>2 DEF Decoded, Ended, Stand
<1>4. p.step = "value" /\ p.value = v
  BY <1>2, <1>3 DEF Leads
<1>5. PointOk(p)
  BY <1>1, DecodedPoint
<1>6. PICK w, q : p = Value(w, q)
  BY <1>4, <1>5 DEF PointOk, Control, Extended, Size, Payload, Value, Error
<1>7. p.value = w
  BY <1>6 DEF Value
<1> QED
  BY <1>1, <1>4, <1>6, <1>7

LEMMA RunBegins ==
  ASSUME IInv, NEW t \in Threads, point[t] = Idle, NEW o, NEW b, Decode(t, o, b),
         NEW run, NEW c, NEW v, Leads(run, c, o, b, v)
  PROVE  On(run, t)' /\ base'[t] = b
<1>1. ReaderHeld /\ stack[t] = <<>>
  BY IdleThread DEF IInv
<1>2. point'[t] = Control(o) /\ stack'[t] = <<>> /\ base'[t] = b
  BY <1>1 DEF Decode, ReaderHeld
<1>3. run[0].point = Control(o) /\ run[0].stack = <<>>
  BY DEF Leads, Stand
<1> QED
  BY <1>2, <1>3 DEF On

LEMMA OpenFollows ==
  ASSUME IInv, FInv, NEW t \in Threads, NEW mode \in Modes, Open(t, mode)
  PROVE  FInv'
<1>1. BufferHeld /\ ReaderHeld /\ \A u \in Threads : ThreadHeld(u)
  BY DEF IInv
<1>2. /\ reader = "none" /\ UNCHANGED <<file, shut, descriptor, point>>
      /\ \/ /\ access' = "none" /\ reader' = "failed"
            /\ outcome' = [outcome EXCEPT ![t] = <<"ValueError">>]
         \/ access' # "none" /\ reader' = "marker" /\ outcome' = outcome
  BY DEF Open, decoderVars
<1>3. ASSUME Sound', NEW u \in Threads PROVE Faithful(u)'
  <2>1. Sound
    BY <1>2, <1>3 DEF Sound, Content
  <2>2. outcome[u] = Nothing
    BY <1>2, <2>1 DEF FInv
  <2>3. PICK o : o = outcome'[u]
    OBVIOUS
  <2>4. o = Nothing \/ (o = <<"ValueError">> /\ access' = "none")
    BY <1>1, <1>2, <2>2, <2>3 DEF ReaderHeld
  <2>5. /\ o[1] # "returned"
        /\ o[1] \in Errors => o[1] = "ValueError" /\ access' = "none"
    BY <2>4 DEF Nothing, Errors
  <2> QED
    BY <1>2, <2>3, <2>5 DEF Faithful
<1> QED
  BY <1>2, <1>3 DEF FInv

LEMMA FindMarkerFollows ==
  ASSUME FilesAreSound, IInv, FInv, NEW t \in Threads, FindMarker(t), Sound'
  PROVE  FInv'
<1>1. BufferHeld /\ ReaderHeld /\ \A u \in Threads : ThreadHeld(u)
  BY DEF IInv
<1>2. /\ reader = "marker" /\ t = Opener /\ ~ shut /\ descriptor = "ours"
      /\ \A u \in Threads : point[u] = Idle
      /\ UNCHANGED <<platform, dataBase, asked>>
  BY <1>1 DEF FindMarker, ReaderHeld, BufferHeld, ThreadHeld
<1>3. file' = file
  BY DEF FindMarker, Shut, bufferVars
<1>4. Sound
  BY <1>3 DEF Sound, Content
<1>5. PICK m, v : HasMetadata(Content[file], m, v)
  BY <1>1, <1>4, SoundHas
<1>6. m = Rfind(Content[file].markers)
  BY <1>1, <1>5, MarkerIsFound
<1>7. m # -1
  BY <1>1, <1>5, FilesAssumption DEF HasMetadata, BufferHeld, Content
<1>8. PICK o : o = m + MarkerSize
  OBVIOUS
<1>9. Decode(t, o, o) /\ reader' = "opening" /\ UNCHANGED <<bufferVars, outcome>>
  BY <1>6, <1>7, <1>8 DEF FindMarker
<1>10. PICK run : Leads(run, Content[file], o, o, v)
  BY <1>5, <1>8 DEF HasMetadata
<1>11. On(run, t)' /\ base'[t] = o
  BY <1>2, <1>9, <1>10, RunBegins
<1>12. Content'[file'] = Content[file]
  BY <1>3 DEF Content
<1>13. Opens'
  BY <1>2, <1>5, <1>8, <1>10, <1>11, <1>12 DEF Opens
<1>14. ASSUME NEW u \in Threads PROVE Faithful(u)'
  <2>1. Faithful(u)
    BY <1>2, <1>4 DEF FInv, Misled
  <2>2. UNCHANGED <<file, access, shut>>
    BY <1>9 DEF bufferVars
  <2> QED
    BY <1>2, <1>9, <2>1, <2>2, <1>12 DEF Faithful, Closed
<1> QED
  BY <1>9, <1>13, <1>14 DEF FInv

LEMMA BeginFollows ==
  ASSUME FInv, NEW t \in Threads, Begin(t), UNCHANGED readerVars, Sound'
  PROVE  FInv'
<1>1. UNCHANGED <<file, access, shut, descriptor, point, stack, base,
                  platform, reader, dataBase, asked, outcome>>
  BY DEF Begin, BeginRead, decoderVars, readerVars
<1>2. Sound /\ (Misled <=> Misled')
  BY <1>1 DEF Sound, Misled, Content
<1>3. reader = "opening" => Opens'
  BY <1>1, <1>2, StillOpens DEF FInv
<1>4. ASSUME ~ Misled, NEW u \in Threads PROVE Faithful(u)'
  <2>1. Faithful(u)
    BY <1>2, <1>4 DEF FInv
  <2> QED
    BY <1>1, <2>1, StillFaithful
<1>5. Content'[file'] = Content[file]
  BY <1>1 DEF Content
<1> QED
  BY <1>1, <1>2, <1>3, <1>4, <1>5 DEF FInv

LEMMA StepFollows ==
  ASSUME IInv, FInv, NEW t \in Threads, Read(t) \/ Hand(t), UNCHANGED readerVars, Sound'
  PROVE  FInv'
<1>1. BufferHeld /\ ReaderHeld /\ \A u \in Threads : ThreadHeld(u)
  BY DEF IInv
<1>2. /\ UNCHANGED <<file, access, shut, descriptor, base>>
      /\ UNCHANGED <<platform, reader, dataBase, asked, outcome>>
      /\ \A u \in Threads \ {t} : point'[u] = point[u] /\ stack'[u] = stack[u]
  BY <1>1 DEF Read, Hand, To, EndRead, bufferVars, readerVars, ReaderHeld
<1>3. Sound /\ (Misled <=> Misled')
  BY <1>2 DEF Sound, Misled, Content
<1>4. point[t].step \notin {"idle", "error"} /\ point[t] # Idle
  BY DEF Read, Hand, Reading, Reads, Idle
<1>5. reader \in {"opening", "open"} /\ (reader = "opening" => t = Opener)
  BY <1>1, <1>4 DEF ReaderHeld, ThreadHeld
<1>6. Content'[file'] = Content[file]
  BY <1>2 DEF Content
<1>7. ASSUME reader = "opening" PROVE Opens'
  <2>1. PICK m, v, run :
          /\ HasMetadata(Content[file], m, v)
          /\ Leads(run, Content[file], m + MarkerSize, m + MarkerSize, v)
          /\ base[Opener] = m + MarkerSize /\ On(run, Opener)
    BY <1>3, <1>7 DEF FInv, Opens
  <2>2. ~ shut /\ ~ Misled
    BY <1>1, <1>7 DEF ReaderHeld, BufferHeld, Misled
  <2>3. ~ Failing(point[t])'
    BY <1>2, <2>2 DEF Failing, Closed
  <2>4. t = Opener
    BY <1>5, <1>7
  <2>5. On(run, Opener)'
    BY <2>1, <2>2, <2>3, <2>4, RunGoesOn
  <2> QED
    BY <1>2, <1>6, <2>1, <2>5 DEF Opens
<1>8. ASSUME ~ Misled, NEW u \in Threads PROVE Faithful(u)'
  <2>1. Faithful(u)
    BY <1>3, <1>8 DEF FInv
  <2>2. CASE u # t
    BY <1>2, <2>1, <2>2, StillFaithful
  <2>3. CASE u = t
    <3>1. ASSUME reader = "open" PROVE Failing(point[t])' \/ Follows(t)'
      <4>1. Follows(t)
        BY <1>4, <2>1, <2>3, <3>1 DEF Faithful, Failing
      <4>2. PICK run : /\ Leads(run, Content[file], dataBase + asked[t], dataBase,
                                Content[file].values[asked[t]])
                       /\ base[t] = dataBase /\ On(run, t)
        BY <4>1 DEF Follows
      <4>3. Failing(point[t])' \/ On(run, t)'
        <5>1. PICK o, v : /\ o = dataBase + asked[t]
                          /\ v = Content[file].values[asked[t]]
          OBVIOUS
        <5>2. Leads(run, Content[file], o, base[t], v)
          BY <4>2, <5>1
        <5> QED
          BY <1>8, <4>2, <5>2, RunGoesOn
      <4> QED
        BY <1>2, <1>6, <4>2, <4>3 DEF Follows
    <3>2. outcome'[t] = outcome[t] /\ asked'[t] = asked[t]
      BY <1>2
    <3>3. \A e : Closed(e) <=> Closed(e)'
      BY <1>2 DEF Closed
    <3> QED
      BY <1>2, <1>6, <2>1, <2>3, <3>1, <3>2, <3>3 DEF Faithful
  <2> QED
    BY <2>2, <2>3
<1> QED
  BY <1>2, <1>3, <1>5, <1>6, <1>7, <1>8 DEF FInv

LEMMA EndOpenFollows ==
  ASSUME IInv, FInv, NEW t \in Threads, EndOpen(t), Sound'
  PROVE  FInv'
<1>1. BufferHeld /\ ReaderHeld /\ \A u \in Threads : ThreadHeld(u)
  BY DEF IInv
<1>2. /\ reader = "opening" /\ Decoded(t) /\ Leave(t) /\ asked' = asked
      /\ UNCHANGED <<file, access, shut, descriptor>>
  BY DEF EndOpen, bufferVars
<1>3. Sound /\ Content'[file'] = Content[file]
  BY <1>2 DEF Sound, Content
<1>4. t = Opener
  BY <1>1, <1>2, DecodedPoint DEF ThreadHeld
<1>5. PICK m, v, run :
        /\ HasMetadata(Content[file], m, v)
        /\ Leads(run, Content[file], m + MarkerSize, m + MarkerSize, v)
        /\ On(run, Opener)
  BY <1>2, <1>3 DEF FInv, Opens
<1>6. PICK q : point[t] = Value(v, q)
  BY <1>2, <1>4, <1>5, RunEnds
<1>7. Fault(point[t]) = "none" /\ point[t].value = v
  BY <1>5, <1>6 DEF HasMetadata, Value
<1>8. reader' = "open" /\ outcome' = outcome /\ dataBase' = TreeSize(v[2]) + SeparatorSize
  BY <1>7 DEF EndOpen
<1>9. dataBase' = Content[file].data
  BY <1>5, <1>8 DEF HasMetadata
<1>10. ASSUME NEW u \in Threads PROVE Faithful(u)'
  <2>1. Faithful(u)
    BY <1>1, <1>2, <1>3 DEF FInv, ReaderHeld, BufferHeld, Misled
  <2>2. point'[u] = Idle
    BY <1>1, <1>2, <1>4 DEF Leave, ReaderHeld, ThreadHeld
  <2> QED
    BY <1>2, <1>3, <1>8, <2>1, <2>2 DEF Faithful, Closed
<1> QED
  BY <1>3, <1>8, <1>9, <1>10 DEF FInv

LEMMA ResolveFollows ==
  ASSUME FilesAreSound, IInv, FInv, NEW t \in Threads,
         NEW place \in Content[file].places, Resolve(t, place), Sound'
  PROVE  FInv'
<1>1. BufferHeld /\ ReaderHeld
  BY DEF IInv
<1>2. /\ reader = "open" /\ point[t] = Idle /\ asked' = [asked EXCEPT ![t] = place]
      /\ UNCHANGED <<file, access, shut, descriptor, platform, reader, dataBase>>
  BY DEF Resolve, bufferVars
<1>3. Sound /\ Content'[file'] = Content[file] /\ (Misled <=> Misled')
  BY <1>2 DEF Sound, Content, Misled
<1>4. PICK b, o, v : b = dataBase /\ o = b + place /\ v = Content[file].values[place]
  OBVIOUS
<1>5. HasValues(Content[file])
  BY <1>1, <1>2, <1>3, FilesAssumption DEF FilesAreSound, Sound, BufferHeld, Content
<1>6. b = Content[file].data
  BY <1>2, <1>3, <1>4 DEF FInv
<1>7. PICK run : Leads(run, Content[file], o, b, v)
  BY <1>4, <1>5, <1>6 DEF HasValues
<1>8. ~ (o >= Content[file].size)
  <2>1. PICK size : size = Content[file].size
    OBVIOUS
  <2>2. size \in Nat /\ o \in Int
    BY <1>1, <1>4, <2>1, FilesAssumption DEF BufferHeld, ReaderHeld, Content
  <2>3. o < size
    BY <1>4, <1>5, <1>6, <2>1 DEF HasValues
  <2> QED
    BY <2>1, <2>2, <2>3
<1>9. Decode(t, o, b) /\ outcome' = [outcome EXCEPT ![t] = Nothing]
  BY <1>4, <1>8 DEF Resolve
<1>10. On(run, t)' /\ base'[t] = b
  BY <1>2, <1>7, <1>9, RunBegins
<1>11. ASSUME ~ Misled, NEW u \in Threads PROVE Faithful(u)'
  <2>1. CASE u # t
    <3>1. Faithful(u)
      BY <1>3, <1>11 DEF FInv
    <3>2. /\ point'[u] = point[u] /\ stack'[u] = stack[u] /\ base'[u] = base[u]
          /\ asked'[u] = asked[u] /\ outcome'[u] = outcome[u]
      BY <1>1, <1>2, <1>9, <2>1 DEF Decode, ReaderHeld
    <3> QED
      BY <1>2, <3>1, <3>2, StillFaithful
  <2>2. CASE u = t
    <3>1. asked'[t] = place /\ outcome'[t] = Nothing
      BY <1>1, <1>2, <1>9 DEF ReaderHeld
    <3>2. Nothing[1] \notin Errors \cup {"returned"}
      BY DEF Nothing, Errors
    <3>3. Follows(t)'
      BY <1>2, <1>3, <1>4, <1>7, <1>10, <3>1 DEF Follows
    <3> QED
      BY <2>2, <3>1, <3>2, <3>3 DEF Faithful
  <2> QED
    BY <2>1, <2>2
<1> QED
  BY <1>2, <1>3, <1>4, <1>6, <1>11 DEF FInv

LEMMA EndResolveFollows ==
  ASSUME IInv, FInv, NEW t \in Threads, EndResolve(t), Sound'
  PROVE  FInv'
<1>1. BufferHeld /\ ReaderHeld
  BY DEF IInv
<1>2. PICK p : p = point[t]
  OBVIOUS
<1>3. PICK o : o = IF p.step = "error" THEN <<p.error>> ELSE <<"returned", p.value>>
  OBVIOUS
<1>4. /\ reader = "open" /\ Decoded(t) /\ Leave(t)
      /\ UNCHANGED <<file, access, shut, descriptor, platform, reader, dataBase, asked>>
      /\ outcome' = [outcome EXCEPT ![t] = o]
  BY <1>2, <1>3 DEF EndResolve, bufferVars
<1>5. Sound /\ Content'[file'] = Content[file] /\ (Misled <=> Misled')
  BY <1>4 DEF Sound, Content, Misled
<1>6. p # Idle
  BY <1>2, <1>4, DecodedPoint
<1>7. ASSUME ~ Misled, NEW u \in Threads PROVE Faithful(u)'
  <2>1. Faithful(u)
    BY <1>5, <1>7 DEF FInv
  <2>2. CASE u # t
    <3>1. /\ point'[u] = point[u] /\ stack'[u] = stack[u] /\ base'[u] = base[u]
          /\ outcome'[u] = outcome[u]
      BY <1>1, <1>4, <2>2 DEF Leave, ReaderHeld
    <3> QED
      BY <1>4, <2>1, <3>1, StillFaithful
  <2>3. CASE u = t
    <3>1. point'[t] = Idle /\ outcome'[t] = o
      BY <1>1, <1>4 DEF Leave, ReaderHeld
    <3>2. CASE Failing(p)
      <4>1. o[1] = p.error /\ Closed(p.error)
        BY <1>3, <3>2 DEF Failing
      <4>2. o[1] # "returned" /\ Closed(o[1])'
        BY <1>4, <4>1 DEF Closed
      <4> QED
        BY <2>3, <3>1, <4>2 DEF Faithful
    <3>3. CASE ~ Failing(p)
      <4>1. Follows(t)
        BY <1>2, <1>4, <1>6, <2>1, <2>3, <3>3 DEF Faithful
      <4>2. PICK v : v = Content[file].values[asked[t]]
        OBVIOUS
      <4>3. \E q : p = Value(v, q)
        <5>1. PICK b, d, run : Leads(run, Content[file], d, b, v) /\ On(run, t)
          BY <4>1, <4>2 DEF Follows
        <5> QED
          BY <1>2, <1>4, <5>1, RunEnds
      <4>4. p.step = "value" /\ p.value = v
        BY <4>3 DEF Value
      <4>5. o[1] = "returned" /\ o[2] = v
        BY <1>3, <4>4
      <4> QED
        BY <1>4, <1>5, <2>3, <3>1, <4>2, <4>5 DEF Faithful, Errors
    <3> QED
      BY <3>2, <3>3
  <2> QED
    BY <2>2, <2>3
<1> QED
  BY <1>4, <1>5, <1>7 DEF FInv

LEMMA BufferFollows ==
  ASSUME FInv, Sound',
         Close \/ (Reuse /\ UNCHANGED <<decoderVars, readerVars>>) \/ UNCHANGED vars
  PROVE  FInv'
<1>1. /\ UNCHANGED <<file, access, position, lock, begun, point, stack, base,
                     platform, reader, dataBase, asked, outcome>>
      /\ shut => shut'
      /\ descriptor = "reused" => descriptor' = "reused"
  BY DEF Close, Shut, Reuse, vars, bufferVars, decoderVars, readerVars
<1>2. Sound /\ Content'[file'] = Content[file] /\ (Misled => Misled')
  BY <1>1 DEF Sound, Content, Misled
<1>3. reader = "opening" => Opens'
  BY <1>1, <1>2, StillOpens DEF FInv
<1>4. ASSUME ~ Misled', NEW u \in Threads PROVE Faithful(u)'
  <2>1. Faithful(u)
    BY <1>2, <1>4 DEF FInv
  <2> QED
    BY <1>1, <2>1, StillFaithful
<1> QED
  BY <1>1, <1>2, <1>3, <1>4 DEF FInv

LEMMA FollowsAlways ==
  ASSUME FilesAreSound
  PROVE  Spec => [](IInv /\ FInv)
<1>1. Init => FInv
  BY DEF Init, FInv, Faithful, BufferInit, DecoderInit, Nothing, Errors
<1>2. ASSUME IInv, FInv, [Next]_vars PROVE FInv'
  <2>1. CASE ~ Sound'
    BY <2>1 DEF FInv
  <2>2. CASE Sound'
    <3>1. CASE Close \/ (Reuse /\ UNCHANGED <<decoderVars, readerVars>>) \/ UNCHANGED vars
      BY <1>2, <2>2, <3>1, BufferFollows
    <3>2. ASSUME NEW t \in Threads, Step(t) PROVE FInv'
      BY <1>2, <2>2, <3>2, FindMarkerFollows, BeginFollows, StepFollows, EndOpenFollows,
         EndResolveFollows DEF Step, Decoding
    <3>3. ASSUME NEW t \in Threads, NEW mode \in Modes, Open(t, mode) PROVE FInv'
      BY <1>2, <3>3, OpenFollows
    <3>4. ASSUME NEW t \in Threads, NEW place \in Content[file].places, Resolve(t, place)
          PROVE  FInv'
      BY <1>2, <2>2, <3>4, ResolveFollows
    <3> QED
      BY <1>2, <3>1, <3>2, <3>3, <3>4 DEF Next
  <2> QED
    BY <2>1, <2>2
<1> QED
  BY Inductive, <1>1, <1>2, PTL DEF Spec

(* If a thread alone decodes the values of the sound files, then threads   *)
(* that decode at the same time do, in every mode and whenever the reader  *)
(* is closed, until the descriptor is another file's (decoder.py:141-204). *)
THEOREM DecodedAsAlone ==
  ASSUME FilesAreSound
  PROVE  Spec => []DecodeCorrect
<1>1. FInv => DecodeCorrect
  BY DEF FInv, Faithful, DecodeCorrect
<1> QED
  BY FollowsAlways, <1>1, PTL

(* Then a sound file is opened in every mode that is supported, its data   *)
(* are where the metadata say, and a call raises nothing but what reading  *)
(* a closed buffer raises (reader.py:55-107, file.py:41-66).               *)
THEOREM OnlyClosingFails ==
  ASSUME FilesAreSound
  PROVE  Spec => []ErrorsHaveCause
<1>1. FInv => ErrorsHaveCause
  BY DEF FInv, Faithful, Closed, ErrorsHaveCause
<1> QED
  BY FollowsAlways, <1>1, PTL
=============================================================================
