-------------------------------- MODULE Session --------------------------------
(***************************************************************************)
(* The library put together: Cipher objects (src/cipher.cpp) whose States  *)
(* are the words of module ChaoticCore, whose buffers hold the bytes of    *)
(* extracted words, and whose exports are the messages of module Formats.  *)
(*                                                                         *)
(* Each action is one of module Cipher, which says when a call may happen  *)
(* and what becomes of lifetimes, read positions and key material,         *)
(* together with the assignments to the data.  What module Cipher keeps in *)
(* place of the data (place, home, tags, blob, ret) are history variables  *)
(* here: no assignment to the data reads them, and of the guards only the  *)
(* bound MaxWords does.                                                    *)
(***************************************************************************)
EXTENDS ChaoticCore, Integers

CONSTANTS Ciphers, Keys, Nonces, Infos, EmptyKey, EmptyNonce, EmptyInfo,
          DefaultInfo, ZeroedKey, ZeroSeed, GenerateSizes,
          MaxWords,        \* bound: words drawn from one trajectory
          derive_state(_), \* the State that effective key material leads to
          ToBytes(_),      \* store_le32(): the four bytes of a word
          FromBytes(_),    \* load_le32(): the word that four bytes make
          crc32(_),        \* the checksum of the 40 bytes it is given
          Damages          \* places in a frame, and the bytes a medium leaves there

VARIABLES live, buffer_pos_, material_, \* as in module Cipher
          state_, initial_state_,       \* a State per object
          buffer_,                      \* eight bytes per object
          message,                      \* the last export, <<>> before the first
          output,                       \* the bytes that the last call returned
          place, home, tags, blob, ret

A == INSTANCE CipherProperties WITH
       state_ <- place, initial_state_ <- home, buffer_ <- tags

\* SERIALIZATION_VERSION
VERSION == [i \in 0..3 |-> IF i = 0 THEN 1 ELSE 0]

Fmt == INSTANCE Formats WITH Byte <- 0..255

calls == <<live, buffer_pos_, material_, place, home, tags, blob, ret>>
sessionVars == <<calls, state_, initial_state_, buffer_, message, output>>

ASSUME SessionAssumption ==
  GenerateSizes \subseteq Nat /\ MaxWords \in Nat /\ ZeroSeed \notin A!Seeds

\* Nothing is lost on the way of a word through a buffer.
ASSUME BytesAssumption ==
  \A v \in Word : ToBytes(v) \in Fmt!Uint32 /\ FromBytes(ToBytes(v)) = v

ASSUME DeriveAssumption == \A seed \in A!Seeds : derive_state(seed) \in State

ASSUME DamagesAssumption == Damages \subseteq (0..43) \X (0..255)

-----------------------------------------------------------------------------
(* Data.                                                                   *)

\* State{}, and a wiped State.
ZeroState ==
  [x |-> Zero, y |-> Zero, z |-> Zero, w |-> Zero, alpha |-> Zero,
   gamma |-> Zero, mu |-> Zero, sigma |-> Zero, counter |-> Zero]

ZeroBytes == [i \in 0..7 |-> 0]

\* The States after 0, 1, ... calls of step().
After(st) ==
  LET after[n \in 0..MaxWords] == IF n = 0 THEN st ELSE step(after[n - 1])
  IN  after

\* word >> (i * 8), for each byte i of the word extracted from st.
WordBytes(st) ==
  [i \in 0..7 |-> ToBytes(extract(st)[2 - (i \div 4)])[i % 4]]

\* A State as the fields of a message, and back.
Stored(st) == [f \in DOMAIN st |-> ToBytes(st[f])]

Loaded(fields) == [f \in DOMAIN fields |-> FromBytes(fields[f])]

\* Every data member of one object is assigned.
Assign(c, st, init, bytes) ==
  /\ state_'         = [state_         EXCEPT ![c] = st]
  /\ initial_state_' = [initial_state_ EXCEPT ![c] = init]
  /\ buffer_'        = [buffer_        EXCEPT ![c] = bytes]

Wipe(c) == Assign(c, ZeroState, ZeroState, ZeroBytes)

\* A call that returns no bytes.
Quiet == output' = <<>> /\ UNCHANGED message

Throws == Quiet /\ UNCHANGED <<state_, initial_state_, buffer_>>

-----------------------------------------------------------------------------
(* The calls, as in module Cipher.                                         *)

Init ==
  /\ A!Init
  /\ state_         = [c \in Ciphers |-> ZeroState]
  /\ initial_state_ = [c \in Ciphers |-> ZeroState]
  /\ buffer_        = [c \in Ciphers |-> ZeroBytes]
  /\ message = <<>> /\ output = <<>>

\* The constructor, and reseed() if nothing throws.
Derive(c, m) ==
  LET st == derive_state(A!DeriveState(m).seed)
  IN  /\ A!Construct(c, m) \/ A!Reseed(c, m)
      /\ Assign(c, st, st, ZeroBytes)
      /\ Quiet

DeriveThrows(c, m) ==
  \/ A!ConstructThrows(c, m) /\ Throws
  \/ A!ReseedWithoutKey(c, m) /\ Throws
  \/ A!ReseedThrows(c, m) /\ Wipe(c) /\ Quiet

Destroy(c) == A!Destroy(c) /\ Wipe(c) /\ Quiet

Move(to, from) ==
  /\ A!MoveConstruct(to, from) \/ A!MoveAssign(to, from)
  /\ IF to = from
     THEN UNCHANGED <<state_, initial_state_, buffer_>>
     ELSE /\ state_' = A!Moved(state_, to, from, ZeroState)
          /\ initial_state_' = A!Moved(initial_state_, to, from, ZeroState)
          /\ buffer_' = A!Moved(buffer_, to, from, ZeroBytes)
  /\ Quiet

\* Mutant: the leftover bytes are taken from the front of the buffer.
GenerateFromFront(c, size) ==
  LET drained == A!DrainLength(c, size)
      after   == After(state_[c])
      words   == (size - drained + 7) \div 8
      drawn(j) == WordBytes(after[(j \div 8) + 1])[j % 8]
  IN  /\ A!Generate(c, size)
      /\ state_' = [state_ EXCEPT ![c] = after[words]]
      /\ buffer_' = IF (size - drained) % 8 = 0 THEN buffer_
                    ELSE [buffer_ EXCEPT ![c] = WordBytes(after[words])]
      /\ output' = [i \in 1..size |-> IF i <= drained THEN buffer_[c][i - 1]
                                                     ELSE drawn(i - drained - 1)]
      /\ UNCHANGED <<initial_state_, message>>

\* Mutant: the buffer keeps the bytes of the word before.
GenerateStale(c, size) ==
  LET drained == A!DrainLength(c, size)
      after   == After(state_[c])
      words   == (size - drained + 7) \div 8
      drawn(j) == WordBytes(after[(j \div 8) + 1])[j % 8]
  IN  /\ A!Generate(c, size)
      /\ state_' = [state_ EXCEPT ![c] = after[words]]
      /\ buffer_' = IF (size - drained) % 8 = 0 THEN buffer_
                    ELSE [buffer_ EXCEPT ![c] = WordBytes(after[words - 1])]
      /\ output' = [i \in 1..size |->
                      IF i <= drained THEN buffer_[c][buffer_pos_[c] + i - 1]
                                      ELSE drawn(i - drained - 1)]
      /\ UNCHANGED <<initial_state_, message>>

\* Leftover bytes of buffer_ first; then words, of which the last is kept in
\* buffer_ if only some of its bytes are wanted.
Generate(c, size) ==
  LET drained == A!DrainLength(c, size)
      after   == After(state_[c])
      words   == (size - drained + 7) \div 8
      drawn(j) == WordBytes(after[(j \div 8) + 1])[j % 8]
  IN  /\ A!Generate(c, size)
      /\ state_' = [state_ EXCEPT ![c] = after[words]]
      /\ buffer_' = IF (size - drained) % 8 = 0 THEN buffer_
                    ELSE [buffer_ EXCEPT ![c] = WordBytes(after[words])]
      /\ output' = [i \in 1..size |->
                      IF i <= drained THEN buffer_[c][buffer_pos_[c] + i - 1]
                                      ELSE drawn(i - drained - 1)]
      /\ UNCHANGED <<initial_state_, message>>

NextWord(c) ==
  LET next == step(state_[c])
  IN  /\ A!NextWord(c)
      /\ state_' = [state_ EXCEPT ![c] = next]
      /\ output' = [i \in 1..8 |-> WordBytes(next)[i - 1]]
      /\ UNCHANGED <<initial_state_, buffer_, message>>

Reset(c) ==
  /\ A!Reset(c)
  /\ Assign(c, initial_state_[c], initial_state_[c], ZeroBytes)
  /\ Quiet

-----------------------------------------------------------------------------
(* Exports, what a medium does to them, and imports.                       *)

Export(c) ==
  /\ A!ExportState(c)
  /\ message' \in {
       [format |-> "binary", data |-> Fmt!serialize_binary(Stored(state_[c]))],
       [format |-> "json",   data |-> Fmt!serialize_json(Stored(state_[c]))]}
  /\ output' = <<>>
  /\ UNCHANGED <<state_, initial_state_, buffer_>>

\* Mutant: a frame is read without its checksum.
ReadUnchecked(msg) ==
  IF msg.format = "binary" THEN Fmt!UncheckedBinary(msg.data)
                           ELSE Fmt!deserialize_json(msg.data)

\* What import_state() or import_state_json() makes of a message.
Read(msg) ==
  IF msg.format = "binary" THEN Fmt!deserialize_binary(msg.data)
                           ELSE Fmt!deserialize_json(msg.data)

\* A medium damages a byte of a readable binary message.
Damage ==
  /\ message # <<>> /\ message.format = "binary"
  /\ Read(message).outcome = "ok"
  /\ \E d \in Damages : message' = [message EXCEPT !.data[d[1]] = d[2]]
  /\ UNCHANGED <<calls, state_, initial_state_, buffer_, output>>

Import(c) ==
  LET answer == Read(message)
  IN  /\ message # <<>>
      /\ \/ /\ answer.outcome = "ok"
            /\ A!ImportState(c)
            /\ Assign(c, Loaded(answer.state), initial_state_[c], ZeroBytes)
            /\ Quiet
         \/ /\ answer.outcome # "ok"
            /\ A!ImportThrows(c) /\ Throws

Next ==
  \/ \E c \in Ciphers :
       \/ Destroy(c) \/ NextWord(c) \/ Reset(c) \/ Export(c) \/ Import(c)
       \/ \E size \in GenerateSizes : Generate(c, size)
       \/ \E m \in A!Arguments : Derive(c, m) \/ DeriveThrows(c, m)
  \/ \E to, from \in Ciphers : Move(to, from)
  \/ Damage

Spec == Init /\ [][Next]_sessionVars

-----------------------------------------------------------------------------
(* What the places and positions of module Cipher stand for.               *)

Start(seed) == IF seed = ZeroSeed THEN ZeroState ELSE derive_state(seed)

\* Enumerated, so that TLC makes tables of the two functions below.
Streams == {seed : seed \in A!Seeds \cup {ZeroSeed}}

Trajectory == [seed \in Streams |-> After(Start(seed))]

Keystream ==
  [seed \in Streams |->
     [n \in 1..MaxWords |-> WordBytes(Trajectory[seed][n])]]

RealState(p) == Trajectory[p.seed][p.n]

\* Byte p of the stream that starts at a seed.
RealByte(tag) ==
  IF tag = A!ZeroByte THEN 0
  ELSE Keystream[tag[1]][(tag[2] \div 8) + 1][tag[2] % 8]

\* Every State and every buffered byte is the one that step() and extract()
\* lead to from the key material that module Cipher says it belongs to: after
\* any calls, failed ones among them, moves, exports in both formats, damaged
\* or not, and imports into other objects.
DataInPlace ==
  \A c \in Ciphers :
    /\ state_[c] = RealState(place[c])
    /\ initial_state_[c] = RealState(home[c])
    /\ \A i \in 0..7 : buffer_[c][i] = RealByte(tags[c][i])

\* The bytes a client gets are those of the words extracted along the stream
\* whose positions module Cipher hands out, each in its place.
ServesExtractedBytes ==
  /\ DOMAIN output = DOMAIN ret.bytes
  /\ \A i \in DOMAIN output : output[i] = RealByte(ret.bytes[i])

\* What an import would accept is the State that was exported last.
MessageHoldsExport ==
  message # <<>> =>
    LET answer == Read(message)
    IN  /\ blob # <<>>
        /\ answer.outcome = "ok" =>
             Loaded(answer.state) = RealState(blob.state)

=============================================================================
