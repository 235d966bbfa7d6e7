------------------------------ MODULE DatabaseFile ------------------------------
(***************************************************************************)
(* A Reader over its file, from open_database to close: the file is opened *)
(* in one of the modes, its metadata found and decoded, and then threads   *)
(* that have found places in the search tree decode the records there,     *)
(* while the reader may be closed and the descriptor be used again.        *)
(*                                                                         *)
(* Files[f] holds, besides its bytes, where the marker of the metadata     *)
(* occurs, the places the search tree names, and the values there, if the  *)
(* file is sound.                                                          *)
(***************************************************************************)
EXTENDS MaxMindDecoder

CONSTANTS
  Opener,       \* the thread that opens the file
  Modes,        \* the argument "mode"
  Platforms,    \* what Python has: [mmap: BOOLEAN, pread: BOOLEAN]
  NodeCount, RecordSize,    \* these keys of the metadata
  OtherKeys     \* the other keys Metadata asks for

ASSUME FilesAssumption ==
  /\ OtherFile \in DOMAIN Files /\ Opener \in Threads
  /\ \A f \in DOMAIN Files :
       /\ Files[f].size \in Nat
       /\ Files[f].markers \subseteq Nat /\ Files[f].places \subseteq Nat
       /\ \A o \in DOMAIN Files[f].bytes : Files[f].bytes[o] \in 0..255
ASSUME ModesAssumption ==
  Modes \subseteq {"MODE_AUTO", "MODE_MMAP_EXT", "MODE_MMAP", "MODE_FILE", "MODE_MEMORY",
                   "MODE_FD", "other"}

VARIABLES
  platform,
  reader,     \* "none", "marker", "opening", "open", "failed"
  dataBase,   \* _pointer_base of the reader's decoder
  asked,      \* asked[t]: the place t decodes, or decoded last
  outcome     \* outcome[t]: what that call returned or raised

readerVars == <<platform, reader, dataBase, asked, outcome>>
vars == <<bufferVars, decoderVars, readerVars>>

MarkerSize == 14
SeparatorSize == 16

Nothing == <<"nothing">>

Init ==
  /\ BufferInit /\ DecoderInit
  /\ platform \in Platforms
  /\ reader = "none"
  /\ dataBase = 0
  /\ asked = [t \in Threads |-> -1]
  /\ outcome = [t \in Threads |-> Nothing]

(* open_database and the head of Reader.__init__; there is no C extension. *)
Access(mode) ==
  IF (mode = "MODE_AUTO" /\ platform.mmap) \/ mode = "MODE_MMAP" THEN "mmap"
  ELSE IF mode \in {"MODE_AUTO", "MODE_FILE"}
    THEN IF platform.pread THEN "pread" ELSE "seek"
  ELSE IF mode \in {"MODE_MEMORY", "MODE_FD"} THEN "memory" ELSE "none"

Open(t, mode) ==
  /\ reader = "none" /\ t = Opener
  /\ mode = "MODE_MMAP" => platform.mmap
  /\ access' = Access(mode)
  /\ IF access' = "none"
       THEN reader' = "failed" /\ outcome' = [outcome EXCEPT ![t] = <<"ValueError">>]
       ELSE reader' = "marker" /\ UNCHANGED outcome
  /\ UNCHANGED <<file, shut, descriptor, position, lock, begun, decoderVars,
                 platform, dataBase, asked>>

(* The metadata is behind the last marker.  Without one the buffer is      *)
(* closed again.                                                           *)
FindMarker(t) ==
  LET start == Rfind(Content[file].markers) IN
  /\ reader = "marker" /\ t = Opener
  /\ IF start = -1
       THEN /\ Shut
            /\ reader' = "failed"
            /\ outcome' = [outcome EXCEPT ![t] = <<"InvalidDatabaseError">>]
            /\ UNCHANGED decoderVars
       ELSE /\ reader' = "opening"
            /\ Decode(t, start + MarkerSize, start + MarkerSize)
            /\ UNCHANGED <<bufferVars, outcome>>
  /\ UNCHANGED <<platform, dataBase, asked>>

(* Metadata.search_tree_size; a number of another type than an unsigned    *)
(* integer is not modelled, and stands for 0.                              *)
Natural(v) == IF v[1] = "uint" THEN BigEndian(v[2]) ELSE 0
TreeSize(metadata) ==
  Natural(metadata[NodeCount]) * (Natural(metadata[RecordSize]) \div 4)

Complete(metadata) == {NodeCount, RecordSize} \cup OtherKeys \subseteq DOMAIN metadata

(* What is wrong with what was decoded: it is passed to Metadata as        *)
(* keywords, which must be texts; the size of the tree is made of numbers. *)
Fault(p) ==
  IF p.step = "error" THEN p.error
  ELSE IF p.value[1] # "map" THEN "InvalidDatabaseError"
  ELSE IF \E k \in DOMAIN p.value[2] : k[1] # "utf8" THEN "TypeError"
  ELSE IF ~ Complete(p.value[2]) THEN "KeyError"
  ELSE IF \E k \in {NodeCount, RecordSize} :
            p.value[2][k][1] \in {"utf8", "bytes", "array", "map"} THEN "TypeError"
  ELSE "none"

(* The rest of Reader.__init__: what fails here leaves the buffer open.    *)
EndOpen(t) ==
  /\ reader = "opening" /\ Decoded(t)
  /\ Leave(t)
  /\ IF Fault(point[t]) # "none"
       THEN /\ reader' = "failed"
            /\ outcome' = [outcome EXCEPT ![t] = <<Fault(point[t])>>]
            /\ UNCHANGED dataBase
       ELSE /\ reader' = "open"
            /\ dataBase' = TreeSize(point[t].value[2]) + SeparatorSize
            /\ UNCHANGED outcome
  /\ UNCHANGED <<bufferVars, platform, asked>>

(* _resolve_data_pointer, for a place in the data *)
Resolve(t, place) ==
  LET resolved == dataBase + place IN
  /\ reader = "open" /\ point[t] = Idle
  /\ asked' = [asked EXCEPT ![t] = place]
  /\ IF resolved >= Content[file].size
       THEN /\ outcome' = [outcome EXCEPT ![t] = <<"InvalidDatabaseError">>]
            /\ UNCHANGED decoderVars
       ELSE /\ outcome' = [outcome EXCEPT ![t] = Nothing]
            /\ Decode(t, resolved, dataBase)
  /\ UNCHANGED <<bufferVars, platform, reader, dataBase>>

EndResolve(t) ==
  /\ reader = "open" /\ Decoded(t)
  /\ Leave(t)
  /\ outcome' = [outcome EXCEPT ![t] =
                   IF point[t].step = "error" THEN <<point[t].error>>
                   ELSE <<"returned", point[t].value>>]
  /\ UNCHANGED <<bufferVars, platform, reader, dataBase, asked>>

Close ==
  /\ reader = "open" /\ ~ shut
  /\ Shut
  /\ UNCHANGED <<decoderVars, readerVars>>

Decoding(t) == (Begin(t) \/ Read(t) \/ Hand(t)) /\ UNCHANGED readerVars

Step(t) == FindMarker(t) \/ Decoding(t) \/ EndOpen(t) \/ EndResolve(t)

Next ==
  \/ Close
  \/ Reuse /\ UNCHANGED <<decoderVars, readerVars>>
  \/ \E t \in Threads :
       \/ Step(t)
       \/ \E mode \in Modes : Open(t, mode)
       \/ \E place \in Content[file].places : Resolve(t, place)

(* A thread goes on, and the lock is given to each that waits for it.      *)
Fairness ==
  \A t \in Threads :
    WF_vars(Step(t)) /\ SF_vars(Begin(t) /\ UNCHANGED readerVars)

Spec == Init /\ [][Next]_vars
FairSpec == Spec /\ Fairness

-----------------------------------------------------------------------------
(* A sound file has the metadata and the values it is said to have.        *)
Sound == Content[file].sound

(* The descriptor a thread has taken may belong to another file. *)
Misled == access = "pread" /\ descriptor = "reused"

Errors == {"ValueError", "OSError", "InvalidDatabaseError", "KeyError", "IndexError",
           "struct.error", "UnicodeDecodeError", "RecursionError", "TypeError"}

TypeOK ==
  /\ access \in {"none", "memory", "mmap", "pread", "seek"}
  /\ shut \in BOOLEAN /\ descriptor \in {"ours", "free", "reused"}
  /\ lock \in Threads \cup {NoThread}
  /\ begun \in [Threads -> BOOLEAN]
  /\ reader \in {"none", "marker", "opening", "open", "failed"}
  /\ \A t \in Threads :
       /\ point[t].step \in {"idle", "control", "extended", "size", "payload", "value", "error"}
       /\ point[t] = Idle => stack[t] = <<>> /\ ~ begun[t]
       /\ Reading(t) => point[t].offset \in Nat
       /\ Len(stack[t]) <= MaxDepth
       /\ outcome[t][1] \in Errors \cup {"nothing", "returned"}

(* In every mode, a record of a sound file is decoded as the value that    *)
(* was encoded, whatever other threads read at the same time and whenever  *)
(* the reader is closed; but with pread, after a close, the descriptor may *)
(* be that of another file (decoder.py:141-204, file.py:48, 54-66).        *)
DecodeCorrect ==
  \A t \in Threads :
    Sound /\ ~ Misled /\ outcome[t][1] = "returned" =>
      outcome[t][2] = Content[file].values[asked[t]]

(* A sound file is opened, and read, without an error but those of a mode  *)
(* that is not supported and of a reader that is closed; the marker is     *)
(* found and the base of the pointers is where the data begin              *)
(* (reader.py:55-107, 221-227).                                            *)
ErrorsHaveCause ==
  Sound =>
    /\ reader = "failed" => access = "none"
    /\ reader = "open" => dataBase = Content[file].data
    /\ ~ Misled =>
         \A t \in Threads : outcome[t][1] \in Errors =>
           \/ outcome[t][1] = "ValueError" /\ (shut \/ access = "none")
           \/ outcome[t][1] = "OSError" /\ shut /\ access = "pread"

(* Decoding ends, also of a file whose pointers go round in a circle: no   *)
(* thread keeps the lock when reading raises (file.py:64-66).              *)
DecodesEnd == \A t \in Threads : point[t] # Idle ~> point[t] = Idle
=============================================================================
