--------------------------- MODULE CipherProperties ---------------------------
(***************************************************************************)
(* What must hold of the Cipher objects of module Cipher, and the mapping  *)
(* under which they implement the keystream of module Keystream.           *)
(***************************************************************************)
EXTENDS Cipher

-----------------------------------------------------------------------------
(* Type and safety invariants.                                             *)

\* Every member keeps its type and buffer_pos_ never indexes beyond the end of
\* buffer_; an object that lives on a keyed State got there by a checked key.
TypeOK ==
  /\ live \subseteq Ciphers
  /\ state_         \in [Ciphers -> State]
  /\ initial_state_ \in [Ciphers -> State]
  /\ buffer_        \in [Ciphers -> [0..7 -> Byte]]
  /\ buffer_pos_    \in [Ciphers -> 0..8]
  /\ material_      \in [Ciphers -> Material]
  /\ blob = <<>> \/ blob \in [state : State, next : Byte]

\* The word that extract() returned on the trajectory of s after m steps.
WordOf(s, m) == [i \in 0..7 |-> ExtractByte([s EXCEPT !.n = m], i)]

\* A word the trajectory of s has already produced.
Produced(word, s) == \E m \in 1..s.n : word = WordOf(s, m)

\* A buffer and a read position that fit a State.
InStep(s, buf, pos) ==
  /\ buf = ZeroBuffer \/ Produced(buf, s)
  /\ pos < 8 /\ buf = ZeroBuffer => s.seed = ZeroSeed

\* The buffer holds zeros or one whole word that the current State, and no
\* earlier stream of this object, has produced; and zeros are never served as
\* leftover bytes while the State is keyed.  reset(), reseed(), both imports
\* and both moves have to keep state_, buffer_ and buffer_pos_ in step.
BufferInStep ==
  \A c \in Ciphers : InStep(state_[c], buffer_[c], buffer_pos_[c])

\* reset() goes where the stored key material leads: whatever sequence of
\* reseeds, failed reseeds, imports and moves an object went through, its
\* initial_state_ is wiped or is what the material it holds derives.
HomeMatchesMaterial ==
  \A c \in Ciphers :
    initial_state_[c] = Wiped \/ initial_state_[c] = DeriveState(material_[c])

\* What an export owed, unless a failed reseed had zeroed it, is on the
\* exported stream and not beyond the exported place.
ExportNotAhead ==
  blob # <<>> /\ blob.next # ZeroByte =>
    blob.next[1] = blob.state.seed /\ blob.next[2] <= 8 * blob.state.n

\* An import never makes keystream repeat: what generate() returns next is on
\* the exporter's stream, at the byte the exporter owed or after it.
ImportNeverRewinds ==
  ret.op = "import" /\ ret.outcome = "ok" /\ blob.next # ZeroByte =>
    LET next == NextByte(ret.cipher)
    IN  next[1] = blob.next[1] /\ next[2] >= blob.next[2]

-----------------------------------------------------------------------------
(* Action properties.                                                      *)

\* The object c holds nothing of a keyed stream.
Unkeyed(c) ==
  /\ state_[c] = Wiped
  /\ initial_state_[c] = Wiped
  /\ buffer_[c] = ZeroBuffer

\* An exception ends no lifetime and begins none, and it leaves every object
\* as it was, or it leaves one object with neither its old stream nor a new
\* one: never a mixture of both.
NoHalfDoneCall ==
  [][ret'.outcome # "ok" =>
       /\ UNCHANGED live
       /\ \/ UNCHANGED members
          \/ \E c \in Ciphers :
               /\ Unkeyed(c)'
               /\ \A d \in Ciphers \ {c} :
                    UNCHANGED <<state_[d], initial_state_[d], buffer_[d],
                                buffer_pos_[d], material_[d]>>]_vars

-----------------------------------------------------------------------------
(* The objects implement the keystream promised to the client.             *)

\* Words begun on a keyed stream; a State on no stream has begun none.
BegunOf(s) == IF s.seed = ZeroSeed THEN 0 ELSE s.n

\* Positions of the bytes that buffer_ still owes the client.
HeldBy(c) ==
  IF state_[c].seed = ZeroSeed THEN {}
  ELSE {buffer_[c][i][2] : i \in buffer_pos_[c] .. 7}

K == INSTANCE Keystream WITH
       Handles  <- Ciphers,
       Streams  <- Seeds,
       Void     <- ZeroSeed,
       stream   <- [c \in Ciphers |-> state_[c].seed],
       home     <- [c \in Ciphers |-> initial_state_[c].seed],
       begun    <- [c \in Ciphers |-> BegunOf(state_[c])],
       held     <- [c \in Ciphers |-> HeldBy(c)],
       snapshot <- IF blob = <<>> THEN <<>>
                   ELSE <<blob.state.seed, BegunOf(blob.state)>>,
       out      <- ret.bytes

\* Whatever calls a client mixes, each object serves the bytes of its stream
\* in order, none twice, and a moved-from or wiped object serves none.
ImplementsKeystream == K!Spec

-----------------------------------------------------------------------------
(* What the repository says and the code does not do.                      *)

\* MANUAL.md: after an import the receiver produces the exact same sequence of
\* bytes as the exporter would have.
ImportResumesExactly ==
  ret.op = "import" /\ ret.outcome = "ok" => NextByte(ret.cipher) = blob.next

\* cipher.cpp: buffer_pos_ < 8 means there are leftover bytes of a word.
LeftoverIsAWord ==
  \A c \in live : buffer_pos_[c] < 8 => Produced(buffer_[c], state_[c])

=============================================================================
