-------------------------------- MODULE Cipher --------------------------------
(***************************************************************************)
(* class eahcm::Cipher (include/eahcm/cipher.hpp, src/cipher.cpp): every   *)
(* operation of the public API, on several objects, with the calls that    *)
(* throw.                                                                  *)
(*                                                                         *)
(* A chaotic State is abstracted to a place on a trajectory: the key       *)
(* material that seeded it and the number of step()s taken since its       *)
(* warm-up.  The word extracted there is the n-th word of that material's  *)
(* keystream, and byte i of it (least significant first) is byte           *)
(* 8*(n-1)+i of the stream.  State{} and a wiped State are the all-zero    *)
(* State, which steps along a trajectory of its own (ZeroSeed).            *)
(*                                                                         *)
(* The objects need no lock of their own: each call on one object is one   *)
(* atomic step, which is what cipher.hpp asks of its users (independent    *)
(* instances per thread, or external synchronisation).                     *)
(***************************************************************************)
EXTENDS Integers, Sequences

CONSTANTS Ciphers,             \* the places where a client keeps Cipher objects
          Keys, Nonces, Infos, \* the byte strings a client passes
          EmptyKey, EmptyNonce, EmptyInfo, \* empty byte strings
          DefaultInfo,         \* "EAHCM-v1"
          ZeroedKey,           \* a key overwritten with zero bytes
          ZeroSeed,            \* the trajectory of the all-zero State
          GenerateSizes,       \* output sizes clients ask for
          MaxWords             \* bound: words drawn from one trajectory

ASSUME SizesAssumption == GenerateSizes \subseteq Nat /\ MaxWords \in Nat

\* Effective key material.  Only the info string has a default.
Seeds == [key   : Keys \ {EmptyKey},
          nonce : Nonces,
          info  : (Infos \ {EmptyInfo}) \cup {DefaultInfo}]

ASSUME ZeroSeedAssumption == ZeroSeed \notin Seeds

VARIABLES live,            \* the objects whose lifetime has begun and not ended
          state_,          \* State state_{}
          initial_state_,  \* State initial_state_{}
          buffer_,         \* std::array<uint8_t, 8>, indexed from 0
          buffer_pos_,     \* std::size_t, 8 when the buffer is consumed
          material_,       \* key_material_, nonce_material_, info_material_
          blob,            \* the last exported state, <<>> before the first
          ret              \* what the last call returned

members == <<state_, initial_state_, buffer_, buffer_pos_, material_>>
vars == <<live, members, blob, ret>>

-----------------------------------------------------------------------------
(* Values.                                                                 *)

State == [seed : Seeds \cup {ZeroSeed}, n : Nat]

Wiped == [seed |-> ZeroSeed, n |-> 0]

StreamByte(seed, p) == <<seed, p>>

\* A byte overwritten with zero, at no position of any stream.
ZeroByte == <<ZeroSeed, -1>>

Byte == ((Seeds \cup {ZeroSeed}) \X Nat) \cup {ZeroByte}

ZeroBuffer == [i \in 0..7 |-> ZeroByte]

Material == [key   : Keys \cup {EmptyKey, ZeroedKey},
             nonce : Nonces \cup {EmptyNonce},
             info  : Infos \cup {EmptyInfo}]

NoMaterial == [key |-> EmptyKey, nonce |-> EmptyNonce, info |-> EmptyInfo]

Zeroed(key) == IF key = EmptyKey THEN EmptyKey ELSE ZeroedKey

\* derive_state() with build_info()'s default, up to the warmed-up State.
DeriveState(m) ==
  [seed |-> [key   |-> m.key,
             nonce |-> m.nonce,
             info  |-> IF m.info = EmptyInfo THEN DefaultInfo ELSE m.info],
   n |-> 0]

\* k step()s.
StepBy(s, k) == [s EXCEPT !.n = @ + k]

\* Byte i of the word extract() returns at s.
ExtractByte(s, i) == StreamByte(s.seed, 8 * (s.n - 1) + i)

Answer(op, c, outcome, bytes) ==
  [op |-> op, cipher |-> c, outcome |-> outcome, bytes |-> bytes]

Done(op, c) == ret' = Answer(op, c, "ok", <<>>)

Throws(op, c, exception) ==
  /\ ret' = Answer(op, c, exception, <<>>)
  /\ UNCHANGED <<live, members, blob>>

\* Every non-static member of one object is assigned.
Assign(c, st, init, buf, pos, mat) ==
  /\ state_'         = [state_         EXCEPT ![c] = st]
  /\ initial_state_' = [initial_state_ EXCEPT ![c] = init]
  /\ buffer_'        = [buffer_        EXCEPT ![c] = buf]
  /\ buffer_pos_'    = [buffer_pos_    EXCEPT ![c] = pos]
  /\ material_'      = [material_      EXCEPT ![c] = mat]

-----------------------------------------------------------------------------
(* Lifetime: constructor, destructor, move.                                *)

Init ==
  /\ live = {}
  /\ state_         = [c \in Ciphers |-> Wiped]
  /\ initial_state_ = [c \in Ciphers |-> Wiped]
  /\ buffer_        = [c \in Ciphers |-> ZeroBuffer]
  /\ buffer_pos_    = [c \in Ciphers |-> 8]
  /\ material_      = [c \in Ciphers |-> NoMaterial]
  /\ blob = <<>>
  /\ ret = Answer("none", "none", "ok", <<>>)

Arguments == [key : Keys, nonce : Nonces, info : Infos]

\* Mutant: the empty-key check is dropped.
AnyKey(m) == TRUE

HasKey(m) == m.key # EmptyKey

Construct(c, m) ==
  /\ c \notin live
  /\ HasKey(m)
  /\ live' = live \cup {c}
  /\ Assign(c, DeriveState(m), DeriveState(m), ZeroBuffer, 8, m)
  /\ UNCHANGED blob
  /\ Done("Cipher", c)

\* No object comes to life: an empty key, or an exception while copying the
\* arguments or deriving (allocation, HMAC).
ConstructThrows(c, m) ==
  /\ c \notin live
  /\ Throws("Cipher", c, IF HasKey(m) THEN "DeriveError" ELSE "KeyError")

\* ~Cipher(): the vectors are freed after the body has zeroed them.
Destroy(c) ==
  /\ c \in live
  /\ live' = live \ {c}
  /\ Assign(c, Wiped, Wiped, ZeroBuffer, buffer_pos_[c], NoMaterial)
  /\ UNCHANGED blob
  /\ Done("~Cipher", c)

\* Mutant: the member is copied and the source keeps it.
Copied(member, to, from, residue) == [member EXCEPT ![to] = member[from]]

\* One member moves and leaves residue in the source.
Moved(member, to, from, residue) ==
  [member EXCEPT ![to] = member[from], ![from] = residue]

\* The members move; the source is wiped and left with an empty buffer.
Transfer(to, from) ==
  /\ state_'         = Moved(state_, to, from, Wiped)
  /\ initial_state_' = Moved(initial_state_, to, from, Wiped)
  /\ buffer_'        = Moved(buffer_, to, from, ZeroBuffer)
  /\ buffer_pos_'    = Moved(buffer_pos_, to, from, 8)
  /\ material_'      = Moved(material_, to, from, NoMaterial)
  /\ UNCHANGED blob

MoveConstruct(to, from) ==
  /\ to \notin live /\ from \in live
  /\ live' = live \cup {to}
  /\ Transfer(to, from)
  /\ Done("move", to)

MoveAssign(to, from) ==
  /\ to \in live /\ from \in live
  /\ IF to = from THEN UNCHANGED <<members, blob>> ELSE Transfer(to, from)
  /\ UNCHANGED live
  /\ Done("move", to)

-----------------------------------------------------------------------------
(* Drawing the keystream.                                                  *)

\* Phase 1 of generate(): how many leftover bytes a call of this size drains.
DrainLength(c, size) ==
  IF size <= 8 - buffer_pos_[c] THEN size ELSE 8 - buffer_pos_[c]

\* generate(output): drain the leftover bytes, then whole words straight into
\* the output, then one more word of which the unused bytes stay in buffer_.
Generate(c, size) ==
  LET drained == DrainLength(c, size)
      words   == (size - drained) \div 8
      tail    == (size - drained) % 8
      steps   == words + (IF tail > 0 THEN 1 ELSE 0)
      last    == StepBy(state_[c], steps)
      drawn   == [i \in 1..size |->
                    IF i <= drained
                    THEN buffer_[c][buffer_pos_[c] + i - 1]
                    ELSE ExtractByte(StepBy(state_[c], 1), i - drained - 1)]
  IN  /\ c \in live
      /\ last.n <= MaxWords
      /\ state_' = [state_ EXCEPT ![c] = last]
      /\ IF tail > 0
         THEN /\ buffer_' = [buffer_ EXCEPT
                               ![c] = [i \in 0..7 |-> ExtractByte(last, i)]]
              /\ buffer_pos_' = [buffer_pos_ EXCEPT ![c] = tail]
         ELSE /\ UNCHANGED buffer_
              /\ buffer_pos_' = [buffer_pos_ EXCEPT ![c] = @ + drained]
      /\ ret' = Answer("generate", c, "ok", drawn)
      /\ UNCHANGED <<live, initial_state_, material_, blob>>

\* next(): one step, one word, and the leftover bytes stay where they are.
NextWord(c) ==
  LET s == StepBy(state_[c], 1)
  IN  /\ c \in live
      /\ s.n <= MaxWords
      /\ state_' = [state_ EXCEPT ![c] = s]
      /\ ret' = Answer("next", c, "ok", [i \in 1..8 |-> ExtractByte(s, i - 1)])
      /\ UNCHANGED <<live, initial_state_, buffer_, buffer_pos_, material_, blob>>

-----------------------------------------------------------------------------
(* Repositioning: reset, reseed, import.                                   *)

\* Mutant: the buffer is zeroed and the read position forgotten.
ZeroOnly(c) ==
  /\ buffer_' = [buffer_ EXCEPT ![c] = ZeroBuffer]
  /\ UNCHANGED buffer_pos_

DiscardLeftover(c) ==
  /\ buffer_'     = [buffer_ EXCEPT ![c] = ZeroBuffer]
  /\ buffer_pos_' = [buffer_pos_ EXCEPT ![c] = 8]

Reset(c) ==
  /\ c \in live
  /\ state_' = [state_ EXCEPT ![c] = initial_state_[c]]
  /\ DiscardLeftover(c)
  /\ Done("reset", c)
  /\ UNCHANGED <<live, initial_state_, material_, blob>>

\* Mutant: initial_state_ is not refreshed.
ReseedKeepsHome(c, m) ==
  /\ c \in live
  /\ HasKey(m)
  /\ Assign(c, DeriveState(m), initial_state_[c], ZeroBuffer, 8, m)
  /\ Done("reseed", c)
  /\ UNCHANGED <<live, blob>>

Reseed(c, m) ==
  /\ c \in live
  /\ HasKey(m)
  /\ Assign(c, DeriveState(m), DeriveState(m), ZeroBuffer, 8, m)
  /\ Done("reseed", c)
  /\ UNCHANGED <<live, blob>>

ReseedWithoutKey(c, m) ==
  /\ c \in live
  /\ ~HasKey(m)
  /\ Throws("reseed", c, "KeyError")

\* What reseed() leaves in the material when copying argument number failed
\* throws (1 key, 2 nonce, 3 info), or derive_state() itself (4).
PartlyCopied(old, m, failed) ==
  [key   |-> IF failed > 1 THEN m.key   ELSE Zeroed(old.key),
   nonce |-> IF failed > 2 THEN m.nonce ELSE old.nonce,
   info  |-> IF failed > 3 THEN m.info  ELSE old.info]

\* Mutant: derivation writes state_ only once it has succeeded, and the wipe
\* that reseed() begins with is left out.
ReseedThrowsUnwiped(c, m) ==
  /\ c \in live
  /\ HasKey(m)
  /\ \E failed \in 1..4 :
       material_' = [material_ EXCEPT
                       ![c] = PartlyCopied(material_[c], m, failed)]
  /\ ret' = Answer("reseed", c, "DeriveError", <<>>)
  /\ UNCHANGED <<live, state_, initial_state_, buffer_, buffer_pos_, blob>>

\* The old stream is wiped before anything can throw; the read position is
\* assigned after the last call that can, so it is left as it was.
ReseedThrows(c, m) ==
  /\ c \in live
  /\ HasKey(m)
  /\ \E failed \in 1..4 :
       Assign(c, Wiped, Wiped, ZeroBuffer, buffer_pos_[c],
              PartlyCopied(material_[c], m, failed))
  /\ ret' = Answer("reseed", c, "DeriveError", <<>>)
  /\ UNCHANGED <<live, blob>>

\* The byte a call of generate(1) would return.
NextByte(c) ==
  IF buffer_pos_[c] < 8 THEN buffer_[c][buffer_pos_[c]]
                        ELSE ExtractByte(StepBy(state_[c], 1), 0)

\* Mutant: the wrong State is exported.
ExportHome(c) ==
  /\ c \in live
  /\ blob' = [state |-> initial_state_[c], next |-> NextByte(c)]
  /\ Done("export", c)
  /\ UNCHANGED <<live, members>>

\* export_state() and export_state_json() write state_ and nothing else.
\* next is a history field that no code writes: what generate(1) owed then.
ExportState(c) ==
  /\ c \in live
  /\ blob' = [state |-> state_[c], next |-> NextByte(c)]
  /\ Done("export", c)
  /\ UNCHANGED <<live, members>>

\* import_state() and import_state_json() of an intact export.
ImportState(c) ==
  /\ c \in live
  /\ blob # <<>>
  /\ state_' = [state_ EXCEPT ![c] = blob.state]
  /\ DiscardLeftover(c)
  /\ Done("import", c)
  /\ UNCHANGED <<live, initial_state_, material_, blob>>

\* A damaged export: deserialisation throws before any member is assigned.
ImportThrows(c) ==
  /\ c \in live
  /\ Throws("import", c, "SerializationError")

-----------------------------------------------------------------------------

Next ==
  \/ \E c \in Ciphers :
       \/ Destroy(c) \/ NextWord(c) \/ Reset(c)
       \/ ExportState(c) \/ ImportState(c) \/ ImportThrows(c)
       \/ \E size \in GenerateSizes : Generate(c, size)
       \/ \E m \in Arguments :
            \/ Construct(c, m) \/ ConstructThrows(c, m)
            \/ Reseed(c, m) \/ ReseedWithoutKey(c, m) \/ ReseedThrows(c, m)
  \/ \E to, from \in Ciphers : MoveConstruct(to, from) \/ MoveAssign(to, from)

Spec == Init /\ [][Next]_vars

=============================================================================
