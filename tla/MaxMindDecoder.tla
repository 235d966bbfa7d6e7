---------------------------- MODULE MaxMindDecoder ----------------------------
(***************************************************************************)
(* maxminddb/decoder.py: threads that decode values of a file.  A step is  *)
(* one read of the buffer and what follows from it, up to the next read;   *)
(* the calls of "decode" that are under way are a stack, of the arrays,    *)
(* maps and pointers whose parts are being decoded.                        *)
(*                                                                         *)
(* A value is a tuple of the name of its type and what it is: an unsigned  *)
(* number is its digits to the base 256, an int32 or a float its bytes, a  *)
(* text or a string of bytes its length and its first byte.                *)
(***************************************************************************)
EXTENDS FileBuffer

CONSTANT MaxDepth   \* calls of "decode" the interpreter allows

ASSUME DepthAssumption == MaxDepth \in Nat

VARIABLES
  point,   \* point[t]: what t reads next, or the value it has decoded
  stack,   \* stack[t]: containers and pointers t is in
  base     \* base[t]: _pointer_base of the decoder t uses

decoderVars == <<point, stack, base>>

Idle == [step |-> "idle"]
Control(o) == [step |-> "control", offset |-> o]
Extended(c, o) == [step |-> "extended", control |-> c, offset |-> o]
Size(type, c, o) == [step |-> "size", type |-> type, control |-> c, offset |-> o]
Payload(type, size, o) ==
  [step |-> "payload", type |-> type, size |-> size, offset |-> o]
Value(v, o) == [step |-> "value", value |-> v, offset |-> o]
Error(e) == [step |-> "error", error |-> e]

TypeNames ==
  <<"pointer", "utf8", "double", "bytes", "uint", "uint", "map", "int32",
    "uint", "uint", "array", "?", "?", "boolean", "float">>

(* The types _type_decoder has a decoder for *)
Known(type) == type \in DOMAIN TypeNames /\ TypeNames[type] # "?"

(* struct.unpack of "!H" or "!I" *)
BigEndian(b) ==
  LET digit(i) == IF i < Len(b) THEN b[Len(b) - i] ELSE 0 IN
  digit(0) + 256 * digit(1) + 65536 * digit(2) + 16777216 * digit(3)

(* int.from_bytes: zeros in front do not count. *)
Digits(b) ==
  LET first == CHOOSE i \in 1..Len(b) + 1 :
                 /\ i <= Len(b) => b[i] # 0
                 /\ \A j \in 1..i - 1 : b[j] = 0 IN
  SubSeq(b, first, Len(b))

Padded(b) == [i \in 1..4 - Len(b) |-> 0] \o b
Summary(b) == <<b.size, IF b.size = 0 THEN 0 ELSE b.head[1]>>

(* Texts here are ASCII, or not UTF-8 at all. *)
Utf8(b) == \A i \in DOMAIN b.head : b.head[i] < 128

-----------------------------------------------------------------------------
(* _read_extended: the sum is never less than 7, so it raises nothing. *)
ExtendedType(b) == b + 7

SizeBytes(c) == (c % 32) - 28

(* _size_from_ctrl_byte, once its bytes are read *)
LongSize(c, b) ==
  BigEndian(b) + (IF c % 32 = 29 THEN 29 ELSE IF c % 32 = 30 THEN 285 ELSE 65821)

PointerSize(size) == (size \div 8) + 1

(* Mistaken: one range of pointers is not moved. *)
UnmovedPointer(size, b, start) ==
  start + IF Len(b) = 4 THEN BigEndian(b)
          ELSE BigEndian(<<size % 8>> \o b) + (IF Len(b) = 3 THEN 526336 ELSE 0)

(* _decode_pointer: where it points *)
PointsTo(size, b, start) ==
  start + IF Len(b) = 4 THEN BigEndian(b)
          ELSE BigEndian(<<size % 8>> \o b)
                 + (IF Len(b) = 1 THEN 0 ELSE IF Len(b) = 2 THEN 2048 ELSE 526336)

(* What the bytes of a value of such a type are taken for *)
Simple(type, b) ==
  IF type \in {"utf8", "bytes"} THEN Summary(b)
  ELSE IF type = "uint" THEN Digits(b.head)
  ELSE IF type = "int32" THEN Padded(b.head) ELSE b.head

(* The decoders of types that are not made of other values *)
Scalar(type, size, b, o) ==
  LET cut == b.size < size IN
  IF type = "utf8" /\ ~ Utf8(b) THEN Error("UnicodeDecodeError")
  ELSE IF type \in {"double", "float"} /\ cut THEN Error("struct.error")
  ELSE IF type = "int32" /\ (b.size > 4 \/ (size = 4 /\ cut)) THEN Error("struct.error")
  ELSE Value(<<type, Simple(type, b)>>, o + size)

-----------------------------------------------------------------------------
(* Where a thread stands: the calls it is in, and what it does next. *)
Stand(p, s) == [point |-> p, stack |-> s]
Raised(e, s) == Stand(Error(e), s)

(* Mistaken: nothing limits how deep values are nested. *)
PushAnyhow(s, frame, o) == Stand(Control(o), Append(s, frame))

(* "decode" is called for a part of a container, or for what a pointer     *)
(* points to; the interpreter limits how deep.                             *)
Push(s, frame, o) ==
  IF Len(s) = MaxDepth THEN Raised("RecursionError", s)
                       ELSE Stand(Control(o), Append(s, frame))

(* What the decoder of a container of nothing, or of a boolean, returns *)
Empty(name, size) ==
  IF name = "boolean" THEN size # 0
  ELSE IF name = "int32" THEN Padded(<<>>) ELSE <<>>

(* The type and the size are known: the decoder of the type is called. *)
Enter(s, type, size, o) ==
  LET name == TypeNames[type] IN
  IF name = "boolean" \/ (name \in {"int32", "array", "map"} /\ size = 0)
    THEN Stand(Value(<<name, Empty(name, size)>>, o), s)
  ELSE IF name = "array" THEN Push(s, [kind |-> name, left |-> size, made |-> <<>>], o)
  ELSE IF name = "map"
    THEN Push(s, [kind |-> name, left |-> size, made |-> <<>>, key |-> <<>>], o)
  ELSE IF (name = "double" /\ size # 8) \/ (name = "float" /\ size # 4)
    THEN Raised("InvalidDatabaseError", s)
  ELSE Stand(Payload(name, size, o), s)

Typed(s, type, c, o) ==
  IF ~ Known(type) THEN Raised("InvalidDatabaseError", s)
  ELSE IF type = 1 \/ c % 32 < 29 THEN Enter(s, type, c % 32, o)
  ELSE Stand(Size(type, c, o), s)

(* How many bytes the next read asks for *)
Wanted(p) ==
  IF p.step = "size" THEN SizeBytes(p.control)
  ELSE IF p.step # "payload" THEN 1
  ELSE IF p.type = "pointer" THEN PointerSize(p.size) ELSE p.size

Controlled(s, c, o) ==
  IF c \div 32 = 0 THEN Stand(Extended(c, o), s) ELSE Typed(s, c \div 32, c, o)

(* What becomes of the bytes that were read at p, in the calls s, by a     *)
(* decoder whose pointers begin at start.  A single byte that is not there *)
(* is an IndexError, a number that is cut off cannot be unpacked.          *)
Got(p, s, start, b) ==
  LET n == Wanted(p)
      next == p.offset + n IN
  IF p.step = "payload" /\ p.type # "pointer"
    THEN Stand(Scalar(p.type, p.size, b, p.offset), s)
  ELSE IF b.size < n
    THEN Raised(IF n = 1 /\ p.step # "payload" THEN "IndexError" ELSE "struct.error", s)
  ELSE IF p.step = "control" THEN Controlled(s, b.head[1], next)
  ELSE IF p.step = "extended" THEN Typed(s, ExtendedType(b.head[1]), p.control, next)
  ELSE IF p.step = "size" THEN Enter(s, p.type, LongSize(p.control, b.head), next)
  ELSE Push(s, [kind |-> "pointer", back |-> next], PointsTo(p.size, b.head, start))

(* A value that is part of another one is handed to it. *)
Item(top, rest, v, o) ==
  LET items == Append(top.made, v) IN
  IF top.left = 1 THEN Stand(Value(<<"array", items>>, o), rest)
  ELSE Stand(Control(o), Append(rest, [top EXCEPT !.left = @ - 1, !.made = items]))

Entry(top, rest, v, o) ==
  LET entries == [k \in DOMAIN top.made \cup {top.key} |->
                    IF k = top.key THEN v ELSE top.made[k]] IN
  IF top.left = 1 THEN Stand(Value(<<"map", entries>>, o), rest)
  ELSE Stand(Control(o), Append(rest, [top EXCEPT !.left = @ - 1, !.made = entries,
                                                  !.key = <<>>]))

Handed(p, s) ==
  LET top == s[Len(s)]
      rest == SubSeq(s, 1, Len(s) - 1) IN
  IF top.kind = "pointer" THEN Stand(Value(p.value, top.back), rest)
  ELSE IF top.kind = "array" THEN Item(top, rest, p.value, p.offset)
  ELSE IF top.key = <<>>
    THEN Stand(Control(p.offset), Append(rest, [top EXCEPT !.key = p.value]))
  ELSE IF top.key[1] \in {"array", "map"} THEN Raised("TypeError", s)  \* not hashable
  ELSE Entry(top, rest, p.value, p.offset)

-----------------------------------------------------------------------------
Reads(p) == p.step \in {"control", "extended", "size", "payload"}

(* The outermost call returns or raises. *)
Ended(c) == c.point.step = "error" \/ (c.point.step = "value" /\ c.stack = <<>>)

Reading(t) == Reads(point[t])

To(t, c) ==
  /\ point' = [point EXCEPT ![t] = c.point]
  /\ stack' = [stack EXCEPT ![t] = c.stack]
  /\ UNCHANGED base

(* The first of two steps *)
Begin(t) ==
  /\ Reading(t)
  /\ BeginRead(t, point[t].offset)
  /\ UNCHANGED decoderVars

Read(t) ==
  LET n == Wanted(point[t]) IN
  /\ Reading(t) /\ CanRead(t)
  /\ To(t, IF Failure(t) # "none" THEN Raised(Failure(t), stack[t])
           ELSE Got(point[t], stack[t], base[t], Bytes(point[t].offset, n)))
  /\ EndRead(t, n)

Hand(t) ==
  /\ point[t].step = "value" /\ stack[t] # <<>>
  /\ To(t, Handed(point[t], stack[t]))
  /\ UNCHANGED bufferVars

DecoderInit ==
  /\ point = [t \in Threads |-> Idle]
  /\ stack = [t \in Threads |-> <<>>]
  /\ base = [t \in Threads |-> 0]

(* decode(offset) of a decoder with this pointer base *)
Decode(t, o, start) ==
  /\ point' = [point EXCEPT ![t] = Control(o)]
  /\ base' = [base EXCEPT ![t] = start]
  /\ UNCHANGED stack

Decoded(t) == Ended(Stand(point[t], stack[t]))

Leave(t) ==
  /\ point' = [point EXCEPT ![t] = Idle]
  /\ stack' = [stack EXCEPT ![t] = <<>>]
  /\ base' = [base EXCEPT ![t] = 0]
=============================================================================
