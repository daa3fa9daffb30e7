-------------------------------- MODULE Formats --------------------------------
(***************************************************************************)
(* The two export formats of a State (src/serialization.cpp): what is      *)
(* written, and what is made of what is read.                              *)
(*                                                                         *)
(* A std::uint32_t is its four bytes, least significant first, which is    *)
(* how load_le32 and store_le32 (types.hpp) map it to a buffer.  A JSON    *)
(* text is the sequence of its tokens: white space carries nothing, and a  *)
(* Number is a decimal number that fits 32 bits.                           *)
(***************************************************************************)
EXTENDS Naturals, SequencesExt

CONSTANTS Byte,
          crc32(_),     \* the checksum of the 40 bytes it is given
          VERSION       \* SERIALIZATION_VERSION

FieldNames ==
  <<"x", "y", "z", "w", "alpha", "gamma", "mu", "sigma", "counter">>

Uint32 == [0..3 -> Byte]
State == [{"x", "y", "z", "w", "alpha", "gamma", "mu", "sigma", "counter"}
            -> Uint32]
Body == [0..39 -> Byte]
Frame == [0..43 -> Byte]

Accepted(st) == [outcome |-> "ok", state |-> st]
Refused == [outcome |-> "SerializationError"]

-----------------------------------------------------------------------------
(* The binary format: version, nine fields, checksum.                      *)

\* What the checksum of a State covers.
body(st) ==
  [k \in 0..39 |-> IF k < 4 THEN VERSION[k]
                            ELSE st[FieldNames[k \div 4]][k % 4]]

serialize_binary(st) ==
  LET checksum == crc32(body(st))
  IN  [k \in 0..43 |-> IF k < 40 THEN body(st)[k] ELSE checksum[k - 40]]

load_le32(data, off) == [i \in 0..3 |-> data[off + i]]

\* Mutant: gamma and alpha are read in the wrong order.
SwappedOffset ==
  [x |-> 4, y |-> 8, z |-> 12, w |-> 16,
   gamma |-> 20, alpha |-> 24, mu |-> 28, sigma |-> 32, counter |-> 36]

Offset ==
  [x |-> 4, y |-> 8, z |-> 12, w |-> 16,
   alpha |-> 20, gamma |-> 24, mu |-> 28, sigma |-> 32, counter |-> 36]

\* Mutant: the checksum is not compared.
UncheckedBinary(data) ==
  IF load_le32(data, 0) # VERSION
  THEN Refused
  ELSE Accepted([f \in DOMAIN Offset |-> load_le32(data, Offset[f])])

\* Mutant: the last field is not read.
CounterForgotten(data) ==
  IF load_le32(data, 40) # crc32([k \in 0..39 |-> data[k]])
  THEN Refused
  ELSE Accepted([f \in DOMAIN Offset \ {"counter"} |->
                   load_le32(data, Offset[f])])

deserialize_binary(data) ==
  IF \/ load_le32(data, 0) # VERSION
     \/ load_le32(data, 40) # crc32([k \in 0..39 |-> data[k]])
  THEN Refused
  ELSE Accepted([f \in DOMAIN Offset |-> load_le32(data, Offset[f])])

-----------------------------------------------------------------------------
(* The JSON format.                                                        *)

Punctuation(char) == <<"punctuation", char>>
Quoted(name)      == <<"string", name>>
Number(word)      == <<"number", word>>

Colon == Punctuation(":")
Comma == Punctuation(",")

EntryOf(name, value) == <<Quoted(name), Colon, value>>

\* The names of an export, in its order, and the number it has under each.
JsonKeys == <<"version">> \o FieldNames \o <<"checksum">>

JsonValue(st, name) ==
  CASE name = "version"  -> VERSION
    [] name = "checksum" -> crc32(body(st))
    [] OTHER             -> st[name]

\* An entry and the comma behind it, token by token.
EntryToken(st, name, j) ==
  CASE j = 0 -> Quoted(name)
    [] j = 1 -> Colon
    [] j = 2 -> Number(JsonValue(st, name))
    [] j = 3 -> Comma

\* Entry k begins at token 4k - 2.
serialize_json(st) ==
  [i \in 1..45 |->
     CASE i = 1  -> Punctuation("{")
       [] i = 45 -> Punctuation("}")
       [] OTHER  -> EntryToken(st, JsonKeys[(i + 2) \div 4], (i + 2) % 4)]

\* Where a token first occurs, 0 if it does not.
find(json, token) == SelectInSeq(json, LAMBDA t : t = token)

\* Mutant: an entry is looked for where an export has it, and nowhere else.
PlaceInExport(json, name) ==
  LET place == 4 * find(JsonKeys, name) - 2
  IN  IF place <= Len(json) /\ json[place] = Quoted(name) THEN place + 2 ELSE 0

\* Where the value of a field is looked for: behind the first colon after the
\* first place where its quoted name occurs; 0 if there is none.
ValueAt(json, name) ==
  LET key   == find(json, Quoted(name))
      colon == SelectInSubSeq(json, key, Len(json), LAMBDA t : t = Colon)
  IN  IF key = 0 \/ colon = 0 THEN 0 ELSE colon + 1

JsonNames == DOMAIN Offset \cup {"version", "checksum"}

Readable(json, name) ==
  LET at == ValueAt(json, name)
  IN  at \in 1 .. Len(json) /\ json[at][1] = "number"

parse_json_uint32(json, name) == json[ValueAt(json, name)][2]

\* Mutant: the checksum is parsed and not compared.
UncheckedJson(json) ==
  IF \/ \E name \in JsonNames : ~Readable(json, name)
     \/ parse_json_uint32(json, "version") # VERSION
  THEN Refused
  ELSE Accepted([f \in DOMAIN Offset |-> parse_json_uint32(json, f)])

deserialize_json(json) ==
  LET st == [f \in DOMAIN Offset |-> parse_json_uint32(json, f)]
  IN  IF \/ \E name \in JsonNames : ~Readable(json, name)
         \/ parse_json_uint32(json, "version") # VERSION
         \/ parse_json_uint32(json, "checksum") # crc32(body(st))
      THEN Refused
      ELSE Accepted(st)

=============================================================================
