------------------------------- MODULE FileBuffer -------------------------------
(***************************************************************************)
(* How maxminddb reads its file: the bytes in memory, a mapping, or a      *)
(* FileBuffer (maxminddb/file.py), which either asks its handle for the    *)
(* descriptor and then reads at an offset, or sets the offset, which all   *)
(* share, and then reads, under a lock.  A thread may be stopped between   *)
(* the two, and the buffer be closed.                                      *)
(***************************************************************************)
EXTENDS Integers, Sequences

CONSTANTS
  Threads,
  NoThread,    \* nobody holds the lock
  Files,       \* Files[f]: the bytes of file f that are not 0, and its size
  OtherFile    \* what the program opens when the descriptor is free again

ASSUME ThreadsAssumption == NoThread \notin Threads

VARIABLES
  file,         \* the name of the file
  access,       \* "none", "memory", "mmap", "pread", "seek"
  shut,         \* the buffer has been closed
  descriptor,   \* the number: "ours", "free", "reused"
  position,     \* the offset of the handle
  lock,         \* who holds _lock
  begun         \* begun[t]: t has done the first of two steps

bufferVars == <<file, access, shut, descriptor, position, lock, begun>>

(* A definition, because TLC evaluates one once and a constant every time. *)
Content == Files

Byte(content, o) == IF o \in DOMAIN content.bytes THEN content.bytes[o] ELSE 0

(* A slice ends where the file ends.  Of a long one, which is a text, the  *)
(* length and the first bytes are kept; no number is longer than that.     *)
Kept == 16
Least(a, b) == IF a < b THEN a ELSE b
Slice(content, o, n) ==
  LET size == IF o >= content.size THEN 0 ELSE Least(n, content.size - o) IN
  [size |-> size, head |-> [i \in 1..Least(size, Kept) |-> Byte(content, o + i - 1)]]

BufferInit ==
  /\ file \in DOMAIN Content \ {OtherFile}
  /\ access = "none"
  /\ shut = FALSE
  /\ descriptor = "ours"
  /\ position = 0
  /\ lock = NoThread
  /\ begun = [t \in Threads |-> FALSE]

TwoSteps == access \in {"pread", "seek"}

(* Mistaken: there is no lock. *)
SeekUnlocked(t, o) ==
  /\ TwoSteps /\ ~ begun[t]
  /\ begun' = [begun EXCEPT ![t] = TRUE]
  /\ position' = IF access = "seek" THEN o ELSE position
  /\ UNCHANGED <<file, access, shut, descriptor, lock>>

(* fileno(); or _lock.acquire() and seek() *)
BeginRead(t, o) ==
  /\ TwoSteps /\ ~ begun[t]
  /\ IF access = "seek" THEN lock = NoThread ELSE ~ shut
  /\ begun' = [begun EXCEPT ![t] = TRUE]
  /\ IF access = "seek" THEN lock' = t /\ position' = o
                        ELSE UNCHANGED <<lock, position>>
  /\ UNCHANGED <<file, access, shut, descriptor>>

(* fileno() of a closed handle raises, and so does reading it; a descriptor*)
(* that was taken before may be that of another file, or of none.          *)
Failure(t) ==
  IF access = "pread" /\ begun[t]
    THEN IF descriptor = "free" THEN "OSError" ELSE "none"
  ELSE IF shut /\ access # "memory" THEN "ValueError" ELSE "none"

CanRead(t) == ~ TwoSteps \/ begun[t] \/ (access = "pread" /\ shut)

(* pread() of whatever the descriptor names, read() at the shared offset,  *)
(* or a slice of memory *)
Bytes(o, n) ==
  Slice(Content[IF access = "pread" /\ descriptor = "reused" THEN OtherFile ELSE file],
        IF access = "seek" THEN position ELSE o, n)

(* Mistaken: the lock is given back after a read, not after an exception. *)
ReleaseIfRead(t, n) ==
  /\ begun' = [begun EXCEPT ![t] = FALSE]
  /\ position' = IF access = "seek" THEN position + n ELSE position
  /\ lock' = IF lock = t /\ Failure(t) = "none" THEN NoThread ELSE lock
  /\ UNCHANGED <<file, access, shut, descriptor>>

(* pread(), or read() and _lock.release() *)
EndRead(t, n) ==
  /\ begun' = [begun EXCEPT ![t] = FALSE]
  /\ position' = IF access = "seek" THEN position + n ELSE position
  /\ lock' = IF lock = t THEN NoThread ELSE lock
  /\ UNCHANGED <<file, access, shut, descriptor>>

Shut ==
  /\ shut' = TRUE
  /\ descriptor' = IF descriptor = "ours" /\ TwoSteps THEN "free" ELSE descriptor
  /\ UNCHANGED <<file, access, position, lock, begun>>

(* The program opens another file, which is given the lowest free number.  *)
Reuse ==
  /\ descriptor = "free"
  /\ descriptor' = "reused"
  /\ UNCHANGED <<file, access, shut, position, lock, begun>>

(* rfind of the last 128 KiB; that of a FileBuffer leaves out the last byte*)
Rfind(places) ==
  LET size == Content[file].size
      end == IF TwoSteps THEN size - 1 ELSE size
      found == {p \in places : p >= size - 131072 /\ p + 14 <= end} IN
  IF found = {} THEN -1 ELSE CHOOSE p \in found : \A q \in found : q <= p
=============================================================================
