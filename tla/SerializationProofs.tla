-------------------------- MODULE SerializationProofs --------------------------
(****************************************************************************)
(* Neither format loses anything, and what was done to a message in transit *)
(* decides what the receiver makes of it, whatever the checksum function    *)
(* is, as long as it yields 32-bit words: a binary frame is the only        *)
(* spelling of its State, and a JSON text is read the same in any order of  *)
(* its entries and among entries of other programs.  If the checksum also   *)
(* tells apart what differs in one word, one edit is never believed; and    *)
(* the CRC-32 of the source does.                                           *)
(****************************************************************************)
EXTENDS SerializationProperties, Crc32, Numbers, SequenceTheorems, TLAPS

\* Any function may stand for crc32() if it returns a std::uint32_t.
WordsOnly == VERSION \in Uint32 /\ \A b \in Body : crc32(b) \in Uint32

\* The offsets at which deserialize_binary() reads are those at which
\* serialize_binary() writes: field by field, and place by place.
LEMMA FieldPlace ==
  /\ \A f \in DOMAIN Offset :
       /\ Offset[f] \in {4 * n : n \in 1..9}
       /\ FieldNames[Offset[f] \div 4] = f
  /\ \A n \in 1..9 : FieldNames[n] \in DOMAIN Offset
                     /\ Offset[FieldNames[n]] = 4 * n
  /\ State = [DOMAIN Offset -> Uint32]
<1> DEFINE names == {"x", "y", "z", "w", "alpha", "gamma", "mu", "sigma", "counter"}
<1>1. DOMAIN Offset = names
  BY DEF Offset
<1>2. ASSUME NEW f \in names
      PROVE  /\ Offset[f] \in {4 * n : n \in 1..9}
             /\ FieldNames[Offset[f] \div 4] = f
  BY <1>2 DEF Offset, FieldNames
<1>3. ASSUME NEW n \in 1..9
      PROVE  FieldNames[n] \in names /\ Offset[FieldNames[n]] = 4 * n
  <2>1. n = 1 \/ n = 2 \/ n = 3 \/ n = 4 \/ n = 5 \/ n = 6 \/ n = 7 \/ n = 8 \/ n = 9
    BY <1>3
  <2>2. QED
    BY <2>1 DEF Offset, FieldNames
<1>4. QED
  BY <1>1, <1>2, <1>3 DEF State

\* Bytes 4n .. 4n+3 of a body are one field.
LEMMA InField ==
  ASSUME NEW n \in 0..10, NEW i \in 0..3
  PROVE  /\ 4 * n + i \in 0..43
         /\ (4 * n + i) \div 4 = n /\ (4 * n + i) % 4 = i
  OBVIOUS

\* Every place of a frame is byte i of word n.
LEMMA EveryPlace ==
  ASSUME NEW k \in 0..43
  PROVE  /\ k \div 4 \in 0..10 /\ k % 4 \in 0..3
         /\ k = 4 * (k \div 4) + (k % 4)
  OBVIOUS

\* The bytes of a word, put together again, are the word.
LEMMA WordBytes ==
  ASSUME NEW v \in Uint32
  PROVE  [i \in 0..3 |-> v[i]] = v
  BY DEF Uint32

\* What the checksum covers is forty bytes.
LEMMA BodyType ==
  ASSUME WordsOnly, NEW st \in State
  PROVE  body(st) \in Body
<1>1. ASSUME NEW k \in 0..39
      PROVE  (IF k < 4 THEN VERSION[k]
                       ELSE st[FieldNames[k \div 4]][k % 4]) \in Byte
  <2>1. CASE k < 4
    BY <2>1 DEF WordsOnly, Uint32
  <2>2. CASE ~(k < 4)
    <3>1. k \div 4 \in 1..9 /\ k % 4 \in 0..3
      BY <2>2
    <3>2. FieldNames[k \div 4] \in DOMAIN Offset
      BY <3>1, FieldPlace
    <3>3. st[FieldNames[k \div 4]] \in Uint32
      BY <3>2, FieldPlace
    <3>4. QED
      BY <2>2, <3>1, <3>3 DEF Uint32
  <2>3. QED
    BY <2>1, <2>2
<1>2. QED
  BY <1>1 DEF body, Body

\* deserialize_binary(serialize_binary(s)) == s for every State s, which the
\* tests try on one State.
THEOREM RoundTrip ==
  ASSUME WordsOnly, NEW st \in State
  PROVE  deserialize_binary(serialize_binary(st)) = Accepted(st)
<1> DEFINE data == serialize_binary(st)
<1>0. crc32(body(st)) \in Uint32 /\ VERSION \in Uint32
  BY BodyType DEF WordsOnly
<1>1. [k \in 0..39 |-> data[k]] = body(st)
  BY DEF serialize_binary, body
<1>2. load_le32(data, 0) = VERSION
  <2>1. \A i \in 0..3 : data[0 + i] = VERSION[i]
    BY DEF serialize_binary, body
  <2>2. QED
    BY <1>0, <2>1, WordBytes DEF load_le32
<1>3. load_le32(data, 40) = crc32(body(st))
  <2>1. \A i \in 0..3 : data[40 + i] = crc32(body(st))[i]
    BY DEF serialize_binary
  <2>2. QED
    BY <1>0, <2>1, WordBytes DEF load_le32
<1>4. ASSUME NEW f \in DOMAIN Offset
      PROVE  load_le32(data, Offset[f]) = st[f]
  <2>1. PICK n \in 1..9 : Offset[f] = 4 * n /\ FieldNames[n] = f
    BY FieldPlace
  <2>2. ASSUME NEW i \in 0..3
        PROVE  data[Offset[f] + i] = st[f][i]
    <3>1. /\ 4 * n + i \in 4..39
          /\ (4 * n + i) \div 4 = n /\ (4 * n + i) % 4 = i
      BY InField
    <3>2. data[4 * n + i] = body(st)[4 * n + i]
      BY <3>1 DEF serialize_binary
    <3>3. QED
      BY <2>1, <3>1, <3>2 DEF body
  <2>3. st[f] \in Uint32
    BY FieldPlace
  <2>4. QED
    BY <2>2, <2>3, WordBytes DEF load_le32
<1>5. [f \in DOMAIN Offset |-> load_le32(data, Offset[f])] = st
  BY <1>4, FieldPlace
<1>6. QED
  BY <1>1, <1>2, <1>3, <1>5 DEF deserialize_binary

\* Nothing but the export of a State is accepted as that State: there is one
\* spelling for each, and no ignored byte in which two frames could differ.
THEOREM OneSpelling ==
  ASSUME WordsOnly, NEW data \in Frame, NEW st,
         deserialize_binary(data) = Accepted(st)
  PROVE  st \in State /\ serialize_binary(st) = data
<1> DEFINE covered == [k \in 0..39 |-> data[k]]
<1>1. /\ load_le32(data, 0) = VERSION
      /\ load_le32(data, 40) = crc32(covered)
      /\ Accepted([f \in DOMAIN Offset |-> load_le32(data, Offset[f])])
           = Accepted(st)
  BY DEF deserialize_binary, Accepted, Refused
<1>2. st = [f \in DOMAIN Offset |-> load_le32(data, Offset[f])]
  BY <1>1 DEF Accepted
<1>3. st \in State
  <2>1. ASSUME NEW f \in DOMAIN Offset
        PROVE  load_le32(data, Offset[f]) \in Uint32
    <3>1. PICK n \in 1..9 : Offset[f] = 4 * n
      BY FieldPlace
    <3>2. \A i \in 0..3 : Offset[f] + i \in 0..43
      BY <3>1
    <3>3. QED
      BY <3>2 DEF load_le32, Uint32, Frame
  <2>2. QED
    BY <1>2, <2>1, FieldPlace
<1>4. body(st) = covered
  <2>1. ASSUME NEW k \in 0..39
        PROVE  body(st)[k] = data[k]
    <3>1. CASE k < 4
      BY <3>1, <1>1 DEF body, load_le32
    <3>2. CASE ~(k < 4)
      <4> DEFINE n == k \div 4
                 i == k % 4
      <4>1. n \in 1..9 /\ i \in 0..3 /\ k = 4 * n + i
        BY <3>2, EveryPlace
      <4>2. body(st)[k] = st[FieldNames[n]][i]
        BY <3>2 DEF body
      <4>3. FieldNames[n] \in DOMAIN Offset /\ Offset[FieldNames[n]] = 4 * n
        BY <4>1, FieldPlace
      <4>4. st[FieldNames[n]] = load_le32(data, 4 * n)
        BY <1>2, <4>3
      <4>5. QED
        BY <4>1, <4>2, <4>4 DEF load_le32
    <3>3. QED
      BY <3>1, <3>2
  <2>2. QED
    BY <2>1 DEF body
<1>5. ASSUME NEW k \in 0..43
      PROVE  serialize_binary(st)[k] = data[k]
  <2>1. CASE k < 40
    BY <2>1, <1>4 DEF serialize_binary
  <2>2. CASE ~(k < 40)
    <3>1. k - 40 \in 0..3 /\ 40 + (k - 40) = k
      BY <2>2
    <3>2. crc32(covered)[k - 40] = data[40 + (k - 40)]
      BY <1>1, <3>1 DEF load_le32
    <3>3. serialize_binary(st)[k] = crc32(body(st))[k - 40]
      BY <2>2 DEF serialize_binary
    <3>4. QED
      BY <1>4, <3>1, <3>2, <3>3
  <2>3. QED
    BY <2>1, <2>2
<1>6. QED
  BY <1>3, <1>5 DEF serialize_binary, Frame

-----------------------------------------------------------------------------
(* Searching a JSON text.                                                  *)

\* Where a searched thing first occurs, of a set of places.
LEMMA FirstPlace ==
  ASSUME NEW S \in SUBSET Nat, NEW p \in S, \A q \in S : p <= q
  PROVE  Min(S) = p
<1>1. \A x \in S : (\A y \in S : x <= y) => x = p
  OBVIOUS
<1>. QED BY <1>1 DEF Min

\* Searching a text stops at the first token of the kind.
LEMMA Found ==
  ASSUME NEW json, Len(json) \in Nat, NEW token, NEW p \in 1 .. Len(json),
         json[p] = token, \A q \in 1 .. Len(json) : json[q] = token => p <= q
  PROVE  find(json, token) = p
<1> DEFINE I == {i \in 1 .. Len(json) : json[i] = token}
<1>1. I \in SUBSET Nat /\ p \in I /\ \A q \in I : p <= q
  OBVIOUS
<1>2. find(json, token) = IF I # {} THEN Min(I) ELSE 0
  BY DEF find, SelectInSeq
<1>. HIDE DEF I
<1>. QED BY <1>1, <1>2, FirstPlace

\* The kinds of tokens are told apart, and a token holds what it was made of.
LEMMA TokensApart ==
  /\ \A a, b : Quoted(a) = Quoted(b) => a = b
  /\ \A a, b : Number(a) = Number(b) => a = b
  /\ \A a, b : /\ Quoted(a) # Number(b) /\ Quoted(a) # Punctuation(b)
               /\ Number(a) # Punctuation(b)
  /\ \A a : Quoted(a) # Colon /\ Number(a) # Colon
  /\ \A a : /\ Quoted(a)[1] = "string" /\ Number(a)[1] = "number"
            /\ Punctuation(a)[1] = "punctuation"
  /\ \A a : Number(a)[2] = a /\ Quoted(a)[2] = a
BY DEF Quoted, Number, Punctuation, Colon

\* The value read for a name is the token behind the colon of its first
\* occurrence.
LEMMA Valued ==
  ASSUME NEW json, Len(json) \in Nat, NEW name, NEW p \in 1 .. Len(json) - 1,
         json[p] = Quoted(name), json[p + 1] = Colon,
         \A q \in 1 .. Len(json) : json[q] = Quoted(name) => p <= q
  PROVE  ValueAt(json, name) = p + 2
<1> DEFINE I == {i \in p .. Len(json) : json[i] = Colon}
<1>1. find(json, Quoted(name)) = p
  BY Found
<1>2. I \in SUBSET Nat /\ p + 1 \in I /\ p \notin I
  BY TokensApart
<1>3. \A q \in I : p + 1 <= q
  BY <1>2
<1>4. SelectInSubSeq(json, p, Len(json), LAMBDA t : t = Colon) =
        IF I # {} THEN Min(I) ELSE 0
  BY DEF SelectInSubSeq
<1>. HIDE DEF I
<1>5. Min(I) = p + 1
  BY <1>2, <1>3, FirstPlace
<1>. QED BY <1>1, <1>2, <1>4, <1>5 DEF ValueAt

\* The entry of a name: complete, behind the opening brace and before the
\* closing one, and the only place where the name is.
EntryAt(json, st, name, p) ==
  /\ p \in 2 .. Len(json) - 3
  /\ json[p] = Quoted(name) /\ json[p + 1] = Colon
  /\ json[p + 2] = Number(JsonValue(st, name))
  /\ \A q \in 1 .. Len(json) : json[q] = Quoted(name) => q = p

\* A text with one entry for each name, in any order and among any others.
WellPlaced(json, st) ==
  /\ Len(json) \in Nat
  /\ \A name \in JsonNames : \E p \in 1 .. Len(json) : EntryAt(json, st, name, p)

\* A name that has one entry is read as what the entry says.
LEMMA ReadEntry ==
  ASSUME NEW json, NEW st, WellPlaced(json, st), NEW name \in JsonNames
  PROVE  /\ Readable(json, name)
         /\ parse_json_uint32(json, name) = JsonValue(st, name)
<1>1. PICK p \in 1 .. Len(json) : EntryAt(json, st, name, p)
  BY DEF WellPlaced
<1>2. Len(json) \in Nat
  BY DEF WellPlaced
<1>3. /\ p \in 1 .. Len(json) - 1 /\ p + 2 \in 1 .. Len(json)
      /\ \A q \in 1 .. Len(json) : json[q] = Quoted(name) => p <= q
  BY <1>1, <1>2 DEF EntryAt
<1>4. ValueAt(json, name) = p + 2
  BY <1>1, <1>2, <1>3, Valued DEF EntryAt
<1>5. json[p + 2] = Number(JsonValue(st, name))
  BY <1>1 DEF EntryAt
<1>. QED BY <1>3, <1>4, <1>5, TokensApart DEF Readable, parse_json_uint32

\* deserialize_json() finds such a text acceptable, and finds the State in it.
LEMMA WellPlacedAccepted ==
  ASSUME NEW st \in State, NEW json, WellPlaced(json, st)
  PROVE  deserialize_json(json) = Accepted(st)
<1>1. /\ DOMAIN Offset \subseteq JsonNames
      /\ "version" \in JsonNames /\ "checksum" \in JsonNames
  BY DEF JsonNames
<1>2. \A f \in DOMAIN Offset : JsonValue(st, f) = st[f]
  BY DEF JsonValue, Offset
<1>3. [f \in DOMAIN Offset |-> parse_json_uint32(json, f)] = st
  BY <1>1, <1>2, ReadEntry, FieldPlace
<1>4. /\ parse_json_uint32(json, "version") = VERSION
      /\ parse_json_uint32(json, "checksum") = crc32(body(st))
  BY <1>1, ReadEntry DEF JsonValue
<1>5. \A name \in JsonNames : Readable(json, name)
  BY ReadEntry
<1>. QED BY <1>3, <1>4, <1>5 DEF deserialize_json

-----------------------------------------------------------------------------
\* A text laid out like an export: entry k is tokens 4k - 2 .. 4k.
Aligned(json, st) ==
  /\ json \in [1 .. 45 -> Token]
  /\ \A name \in JsonNames :
       \E k \in 1 .. 11 : EntryAt(json, st, name, 4 * k - 2)

\* A function on 1 .. n is a sequence of n elements.
LEMMA LenFcn ==
  ASSUME NEW n \in Nat, NEW json, DOMAIN json = 1 .. n
  PROVE  Len(json) = n
OBVIOUS

\* Each name of an export has exactly one place among its entries.
LEMMA JsonKeysPlace ==
  /\ \A k \in 1 .. 11 : JsonKeys[k] \in JsonNames
  /\ \A name \in JsonNames : \E k \in 1 .. 11 :
        JsonKeys[k] = name /\ \A l \in 1 .. 11 : JsonKeys[l] = name => l = k
<1>1. /\ JsonKeys[1] = "version"
      /\ JsonKeys[2] = "x"
      /\ JsonKeys[3] = "y"
      /\ JsonKeys[4] = "z"
      /\ JsonKeys[5] = "w"
      /\ JsonKeys[6] = "alpha"
      /\ JsonKeys[7] = "gamma"
      /\ JsonKeys[8] = "mu"
      /\ JsonKeys[9] = "sigma"
      /\ JsonKeys[10] = "counter"
      /\ JsonKeys[11] = "checksum"
  BY DEF JsonKeys, FieldNames
<1>2. JsonNames = {"version", "x", "y", "z", "w", "alpha", "gamma", "mu",
                   "sigma", "counter", "checksum"}
  BY DEF JsonNames, Offset
<1>3. ASSUME NEW k \in 1 .. 11 PROVE JsonKeys[k] \in JsonNames
  <2>1. \/ k = 1 \/ k = 2 \/ k = 3 \/ k = 4 \/ k = 5 \/ k = 6
       \/ k = 7 \/ k = 8 \/ k = 9 \/ k = 10 \/ k = 11
    BY <1>3
  <2>. QED BY <2>1, <1>1, <1>2
<1>4. ASSUME NEW name \in JsonNames
      PROVE \E k \in 1 .. 11 : JsonKeys[k] = name
  BY <1>1, <1>2
<1>5. ASSUME NEW k \in 1 .. 11, NEW l \in 1 .. 11, JsonKeys[k] = JsonKeys[l] PROVE k = l
  <2>1. \/ k = 1 \/ k = 2 \/ k = 3 \/ k = 4 \/ k = 5 \/ k = 6
       \/ k = 7 \/ k = 8 \/ k = 9 \/ k = 10 \/ k = 11
    OBVIOUS
  <2>2. \/ l = 1 \/ l = 2 \/ l = 3 \/ l = 4 \/ l = 5 \/ l = 6
       \/ l = 7 \/ l = 8 \/ l = 9 \/ l = 10 \/ l = 11
    OBVIOUS
  <2>. QED BY <1>5, <2>1, <2>2, <1>1
<1>. QED BY <1>3, <1>4, <1>5

\* The tokens of an export.
LEMMA ExportTokens ==
  ASSUME NEW st, NEW k \in 1 .. 11
  PROVE  /\ serialize_json(st)[4 * k - 2] = Quoted(JsonKeys[k])
         /\ serialize_json(st)[4 * k - 1] = Colon
         /\ serialize_json(st)[4 * k] = Number(JsonValue(st, JsonKeys[k]))
         /\ k < 11 => serialize_json(st)[4 * k + 1] = Comma
<1>1. /\ 4 * k - 2 \in 2 .. 44 /\ (4 * k - 2 + 2) \div 4 = k /\ (4 * k - 2 + 2) % 4 = 0
      /\ 4 * k - 1 \in 2 .. 44 /\ (4 * k - 1 + 2) \div 4 = k /\ (4 * k - 1 + 2) % 4 = 1
      /\ 4 * k \in 2 .. 44 /\ (4 * k + 2) \div 4 = k /\ (4 * k + 2) % 4 = 2
      /\ k < 11 => /\ 4 * k + 1 \in 2 .. 44
                    /\ (4 * k + 1 + 2) \div 4 = k /\ (4 * k + 1 + 2) % 4 = 3
  OBVIOUS
<1>2. ASSUME NEW i \in 2 .. 44, (i + 2) \div 4 = k
      PROVE  serialize_json(st)[i] = EntryToken(st, JsonKeys[k], (i + 2) % 4)
  <2>1. i \in 1 .. 45 /\ i # 1 /\ i # 45
    OBVIOUS
  <2>2. serialize_json(st)[i] =
          EntryToken(st, JsonKeys[(i + 2) \div 4], (i + 2) % 4)
    BY <2>1, Zenon DEF serialize_json
  <2>. QED BY <1>2, <2>2, Zenon
<1>3. serialize_json(st)[4 * k - 2] = Quoted(JsonKeys[k])
  BY <1>1, <1>2 DEF EntryToken
<1>4. serialize_json(st)[4 * k - 1] = Colon
  BY <1>1, <1>2 DEF EntryToken
<1>5. serialize_json(st)[4 * k] = Number(JsonValue(st, JsonKeys[k]))
  BY <1>1, <1>2 DEF EntryToken
<1>6. k < 11 => serialize_json(st)[4 * k + 1] = Comma
  BY <1>1, <1>2 DEF EntryToken
<1>. QED BY <1>3, <1>4, <1>5, <1>6

\* Every token of an export is a brace or belongs to an entry.
LEMMA EveryToken ==
  ASSUME NEW q \in 1 .. 45
  PROVE  \/ q = 1 \/ q = 45
         \/ \E k \in 1 .. 11 : \/ q = 4 * k - 2 \/ q = 4 * k - 1 \/ q = 4 * k
                               \/ q = 4 * k + 1 /\ k < 11
<1>1. /\ q = (4 * ((q + 2) \div 4)) + ((q + 2) % 4) - 2
      /\ (q + 2) % 4 \in 0 .. 3 /\ (q + 2) \div 4 \in 0 .. 11
  OBVIOUS
<1> DEFINE k == (q + 2) \div 4
<1>2. CASE q = 1 \/ q = 45
  BY <1>2
<1>3. CASE q # 1 /\ q # 45
  <2>1. k \in 1 .. 11
    BY <1>1, <1>3
  <2>2. q = 4 * k - 2 \/ q = 4 * k - 1 \/ q = 4 * k \/ (q = 4 * k + 1 /\ k < 11)
    BY <1>1, <1>3, <2>1
  <2>. QED BY <2>1, <2>2
<1>. QED BY <1>2, <1>3


\* What the program and the damage write are tokens.
LEMMA TokenTypes ==
  /\ \A name \in JsonNames \cup {"note"} : Quoted(name) \in Token
  /\ Punctuation("{") \in Token /\ Punctuation("}") \in Token
  /\ Colon \in Token /\ Comma \in Token
  /\ \A v \in Uint32 : Number(v) \in Token
  /\ Notes \subseteq Token
  /\ \A t \in Token : t[1] = "number" => t[2] \in Uint32
<1>1. \A name \in JsonNames \cup {"note"} : Quoted(name) \in Token
  BY DEF Token, Quoted
<1>2. /\ Punctuation("{") \in Token /\ Punctuation("}") \in Token
      /\ Colon \in Token /\ Comma \in Token
  BY DEF Token, Punctuation, Colon, Comma
<1>3. \A v \in Uint32 : Number(v) \in Token
  BY DEF Token, Number
<1>4. ASSUME NEW t \in Token, t[1] = "number" PROVE t[2] \in Uint32
  <2>1. CASE t \in {"punctuation"} \X {"{", "}", ":", ","}
    BY <1>4, <2>1
  <2>2. CASE t \in {"string"} \X (JsonNames \cup {"note"})
    BY <1>4, <2>2
  <2>3. CASE t \in {"number"} \X Uint32
    BY <2>3
  <2>4. CASE t \in Notes
    BY <1>4, <2>4, InputAssumption
  <2>. QED BY <2>1, <2>2, <2>3, <2>4 DEF Token
<1>5. Notes \subseteq Token
  BY DEF Token
<1>. QED BY <1>1, <1>2, <1>3, <1>4, <1>5

\* What an export says of a State is a 32-bit word.
LEMMA ValueIsWord ==
  ASSUME WordsOnly, NEW st \in State, NEW name \in JsonNames
  PROVE  JsonValue(st, name) \in Uint32
<1>1. CASE name = "version"
  BY <1>1 DEF JsonValue, WordsOnly
<1>2. CASE name = "checksum"
  BY <1>2, BodyType DEF JsonValue, WordsOnly
<1>3. CASE name # "version" /\ name # "checksum"
  <2>1. name \in DOMAIN Offset
    BY <1>3 DEF JsonNames
  <2>2. st[name] \in Uint32
    BY <2>1, FieldPlace
  <2>. QED BY <1>3, <2>2 DEF JsonValue
<1>. QED BY <1>1, <1>2, <1>3

\* An export is 45 tokens, and the braces are not names.
LEMMA ExportType ==
  ASSUME WordsOnly, NEW st \in State
  PROVE  serialize_json(st) \in [1 .. 45 -> Token]
<1> DEFINE json == serialize_json(st)
<1>2. json[1] = Punctuation("{") /\ json[45] = Punctuation("}")
  BY DEF serialize_json
<1>3. ASSUME NEW k \in 1 .. 11
      PROVE  /\ json[4 * k - 2] \in Token /\ json[4 * k - 1] \in Token
             /\ json[4 * k] \in Token
             /\ k < 11 => json[4 * k + 1] \in Token
  <2>1. JsonKeys[k] \in JsonNames
    BY JsonKeysPlace
  <2>2. JsonValue(st, JsonKeys[k]) \in Uint32
    BY <2>1, ValueIsWord
  <2>. HIDE DEF json
  <2>. QED BY <2>1, <2>2, ExportTokens, TokenTypes DEF json
<1>4. json = [i \in 1 .. 45 |-> json[i]]
  BY DEF serialize_json
<1>. HIDE DEF json
<1>5. ASSUME NEW q \in 1 .. 45 PROVE json[q] \in Token
  <2>1. Punctuation("{") \in Token /\ Punctuation("}") \in Token
    BY TokenTypes
  <2>2. CASE q = 1 \/ q = 45
    BY <1>2, <2>1, <2>2
  <2>3. CASE \E k \in 1 .. 11 : \/ q = 4 * k - 2 \/ q = 4 * k - 1 \/ q = 4 * k
                                \/ q = 4 * k + 1 /\ k < 11
    BY <1>3, <2>3
  <2>. QED BY <2>2, <2>3, EveryToken
<1>6. json \in [1 .. 45 -> Token]
  BY <1>4, <1>5
<1>. QED BY <1>6 DEF json

\* serialize_json() writes entry k at tokens 4k - 2 .. 4k.
LEMMA ExportAligned ==
  ASSUME WordsOnly, NEW st \in State
  PROVE  Aligned(serialize_json(st), st)
<1> DEFINE json == serialize_json(st)
<1>1. json \in [1 .. 45 -> Token] /\ Len(json) = 45
  BY ExportType, LenFcn
<1>2. json[1] = Punctuation("{") /\ json[45] = Punctuation("}")
  BY DEF serialize_json
<1>3. \A k \in 1 .. 11 :
         /\ json[4 * k - 2] = Quoted(JsonKeys[k])
         /\ json[4 * k - 1] = Colon
         /\ json[4 * k] = Number(JsonValue(st, JsonKeys[k]))
         /\ k < 11 => json[4 * k + 1] = Comma
  BY ExportTokens
<1>. HIDE DEF json
<1>4. ASSUME NEW name \in JsonNames
      PROVE  \E k \in 1 .. 11 : EntryAt(json, st, name, 4 * k - 2)
  <2>1. PICK k \in 1 .. 11 :
          JsonKeys[k] = name /\ \A l \in 1 .. 11 : JsonKeys[l] = name => l = k
    BY JsonKeysPlace
  <2>2. ASSUME NEW q \in 1 .. 45, json[q] = Quoted(name)
        PROVE  q = 4 * k - 2
    <3>1. q # 1 /\ q # 45
      <4>1. json[q] # Punctuation("{") /\ json[q] # Punctuation("}")
        BY <2>2, TokensApart
      <4>. QED BY <1>2, <4>1
    <3>2. PICK l \in 1 .. 11 : \/ q = 4 * l - 2 \/ q = 4 * l - 1 \/ q = 4 * l
                               \/ q = 4 * l + 1 /\ l < 11
      BY <3>1, EveryToken
    <3>3. \A a : Quoted(a) # Comma
      BY DEF Quoted, Comma, Punctuation
    <3>4. q = 4 * l - 2
      BY <1>3, <2>2, <3>2, <3>3, TokensApart
    <3>5. JsonKeys[l] = name
      BY <1>3, <2>2, <3>4, TokensApart
    <3>. QED BY <2>1, <3>4, <3>5
  <2>3. /\ 4 * k - 2 \in 2 .. 42 /\ 4 * k - 2 + 1 = 4 * k - 1
        /\ 4 * k - 2 + 2 = 4 * k
    OBVIOUS
  <2>. QED BY <1>1, <1>3, <2>1, <2>2, <2>3 DEF EntryAt
<1>. QED BY <1>1, <1>4 DEF Aligned, json

\* A text laid out like an export has one entry for each name.
LEMMA AlignedIsPlaced ==
  ASSUME NEW json, NEW st, Aligned(json, st)
  PROVE  WellPlaced(json, st)
<1>1. Len(json) = 45
  BY LenFcn DEF Aligned
<1>2. \A k \in 1 .. 11 : 4 * k - 2 \in 1 .. 45
  OBVIOUS
<1>. QED BY <1>1, <1>2 DEF Aligned, WellPlaced

\* deserialize_json(serialize_json(s)) == s for every State s.
THEOREM JsonRoundTrip ==
  ASSUME WordsOnly, NEW st \in State
  PROVE  deserialize_json(serialize_json(st)) = Accepted(st)
BY ExportAligned, AlignedIsPlaced, WellPlacedAccepted

\* Exchanging two entries of such a text leaves one laid out the same way.
LEMMA ReorderKeepsAligned ==
  ASSUME NEW json, NEW st, Aligned(json, st),
         NEW k \in 1 .. 11, NEW l \in 1 .. 11, k < l
  PROVE  Aligned([i \in DOMAIN json |->
                    CASE i \in 4 * k - 2 .. 4 * k -> json[i + 4 * (l - k)]
                      [] i \in 4 * l - 2 .. 4 * l -> json[i - 4 * (l - k)]
                      [] OTHER -> json[i]], st)
<1> DEFINE from(i) == CASE i \in 4 * k - 2 .. 4 * k -> i + 4 * (l - k)
                        [] i \in 4 * l - 2 .. 4 * l -> i - 4 * (l - k)
                        [] OTHER -> i
           to(n) == IF n = k THEN l ELSE IF n = l THEN k ELSE n
           new == [i \in DOMAIN json |->
                    CASE i \in 4 * k - 2 .. 4 * k -> json[i + 4 * (l - k)]
                      [] i \in 4 * l - 2 .. 4 * l -> json[i - 4 * (l - k)]
                      [] OTHER -> json[i]]
<1>1. json \in [1 .. 45 -> Token] /\ Len(json) = 45
  BY LenFcn DEF Aligned
<1>2. \A i \in 1 .. 45 : from(i) \in 1 .. 45
  OBVIOUS
<1>3. ASSUME NEW i \in 1 .. 45 PROVE new[i] = json[from(i)]
  <2>1. i \in DOMAIN json
    BY <1>1
  <2>2. CASE i \in 4 * k - 2 .. 4 * k
    BY <2>1, <2>2
  <2>3. CASE i \notin 4 * k - 2 .. 4 * k /\ i \in 4 * l - 2 .. 4 * l
    BY <2>1, <2>3
  <2>4. CASE i \notin 4 * k - 2 .. 4 * k /\ i \notin 4 * l - 2 .. 4 * l
    BY <2>1, <2>4
  <2>. QED BY <2>2, <2>3, <2>4
<1>4. ASSUME NEW n \in 1 .. 11
      PROVE  /\ to(n) \in 1 .. 11
             /\ from(4 * to(n) - 2) = 4 * n - 2
             /\ from(4 * to(n) - 1) = 4 * n - 1
             /\ from(4 * to(n)) = 4 * n
             /\ \A i \in 1 .. 45 : from(i) = 4 * n - 2 => i = 4 * to(n) - 2
  <2>1. \A i \in 4 * k - 2 .. 4 * k : from(i) = i + 4 * (l - k)
    OBVIOUS
  <2>2. \A i \in 4 * l - 2 .. 4 * l : from(i) = i - 4 * (l - k)
    OBVIOUS
  <2>3. \A i \in 1 .. 45 :
          i \notin 4 * k - 2 .. 4 * k /\ i \notin 4 * l - 2 .. 4 * l => from(i) = i
    OBVIOUS
  <2>4. \/ n = k /\ to(n) = l
        \/ n = l /\ to(n) = k
        \/ n # k /\ n # l /\ to(n) = n
    OBVIOUS
  <2>5. PICK m \in 1 .. 11 : m = to(n)
    BY <2>4
  <2>. HIDE DEF from, to
  <2>6. ASSUME NEW i \in 1 .. 45, from(i) = 4 * n - 2
        PROVE  i = 4 * m - 2
    <3>1. CASE i \in 4 * k - 2 .. 4 * k
      BY <2>1, <2>4, <2>5, <2>6, <3>1
    <3>2. CASE i \in 4 * l - 2 .. 4 * l
      BY <2>2, <2>4, <2>5, <2>6, <3>2
    <3>3. CASE i \notin 4 * k - 2 .. 4 * k /\ i \notin 4 * l - 2 .. 4 * l
      BY <2>3, <2>4, <2>5, <2>6, <3>3
    <3>. QED BY <3>1, <3>2, <3>3
  <2>7. from(4 * m - 2) = 4 * n - 2 /\ from(4 * m - 1) = 4 * n - 1
        /\ from(4 * m) = 4 * n
    <3>1. CASE n = k /\ m = l
      BY <2>2, <3>1
    <3>2. CASE n = l /\ m = k
      BY <2>1, <3>2
    <3>3. CASE n # k /\ n # l /\ m = n
      BY <2>3, <3>3
    <3>. QED BY <2>4, <2>5, <3>1, <3>2, <3>3
  <2>. QED BY <2>5, <2>6, <2>7
<1>5. new \in [1 .. 45 -> Token] /\ Len(new) = 45
  <2>1. DOMAIN new = 1 .. 45
    BY <1>1
  <2>2. ASSUME NEW i \in 1 .. 45 PROVE new[i] \in Token
    <3>1. new[i] = json[from(i)] /\ from(i) \in 1 .. 45
      BY <1>2, <1>3
    <3>. HIDE DEF new, from
    <3>. QED BY <1>1, <3>1
  <2>3. new = [i \in 1 .. 45 |-> new[i]]
    BY <2>1
  <2>. HIDE DEF new
  <2>. QED BY <2>1, <2>2, <2>3, LenFcn
<1>. HIDE DEF new, from, to
<1>6. ASSUME NEW name \in JsonNames
      PROVE  \E n \in 1 .. 11 : EntryAt(new, st, name, 4 * n - 2)
  <2>1. PICK n \in 1 .. 11 : EntryAt(json, st, name, 4 * n - 2)
    BY DEF Aligned
  <2>2. PICK m \in 1 .. 11 : m = to(n)
    BY <1>4
  <2>3. /\ 4 * m - 2 \in 2 .. 42 /\ 4 * m - 1 \in 1 .. 45 /\ 4 * m \in 1 .. 45
        /\ 4 * m - 2 \in 1 .. 45
        /\ (4 * m - 2) + 1 = 4 * m - 1 /\ (4 * m - 2) + 2 = 4 * m
        /\ (4 * n - 2) + 1 = 4 * n - 1 /\ (4 * n - 2) + 2 = 4 * n
    OBVIOUS
  <2>4. /\ new[4 * m - 2] = json[4 * n - 2] /\ new[4 * m - 1] = json[4 * n - 1]
        /\ new[4 * m] = json[4 * n]
    <3>1. /\ from(4 * m - 2) = 4 * n - 2 /\ from(4 * m - 1) = 4 * n - 1
          /\ from(4 * m) = 4 * n
      BY <1>4, <2>2, Zenon
    <3>2. /\ new[4 * m - 2] = json[from(4 * m - 2)]
          /\ new[4 * m - 1] = json[from(4 * m - 1)]
          /\ new[4 * m] = json[from(4 * m)]
      BY <1>3, <2>3, Zenon
    <3>. QED BY <3>1, <3>2, Zenon
  <2>5. ASSUME NEW q \in 1 .. 45, new[q] = Quoted(name) PROVE q = 4 * m - 2
    <3>1. json[from(q)] = Quoted(name) /\ from(q) \in 1 .. 45
      BY <1>2, <1>3, <2>5
    <3>2. from(q) = 4 * n - 2
      BY <2>1, <3>1, <1>1 DEF EntryAt
    <3>. QED BY <1>4, <2>2, <3>2
  <2>6. /\ json[4 * n - 2] = Quoted(name) /\ json[4 * n - 1] = Colon
        /\ json[4 * n] = Number(JsonValue(st, name))
    BY <2>1, <2>3 DEF EntryAt
  <2>7. EntryAt(new, st, name, 4 * m - 2)
    BY <1>5, <2>3, <2>4, <2>5, <2>6 DEF EntryAt
  <2>. QED BY <2>7
<1>7. Aligned(new, st)
  BY <1>5, <1>6 DEF Aligned
<1>. QED BY <1>7 DEF new


\* Facts about two lists of tokens, one behind the other: the length, what is
\* in the first, and what is in the second.
LEMMA Joined ==
  ASSUME NEW s \in Seq(Token), NEW t \in Seq(Token)
  PROVE  s \o t \in Seq(Token) /\ Len(s \o t) = Len(s) + Len(t)
OBVIOUS

LEMMA InFront ==
  ASSUME NEW s \in Seq(Token), NEW t \in Seq(Token), NEW i \in 1 .. Len(s)
  PROVE  (s \o t)[i] = s[i]
OBVIOUS

LEMMA Behind ==
  ASSUME NEW s \in Seq(Token), NEW t \in Seq(Token), NEW n \in Nat, Len(s) = n,
         NEW i \in 1 .. Len(t)
  PROVE  (s \o t)[n + i] = t[i]
OBVIOUS

\* What is where in a text to which a program has added an entry.
WithFirst(json, a, b, c, d) ==
  <<Head(json)>> \o <<a, b, c>> \o <<d>> \o Tail(json)

\* The entry added in front moves every old token but the brace by four.
LEMMA FirstAdded ==
  ASSUME NEW json \in Seq(Token), json # <<>>,
         NEW a \in Token, NEW b \in Token, NEW c \in Token, NEW d \in Token
  PROVE  LET new == WithFirst(json, a, b, c, d) IN
         /\ new \in Seq(Token) /\ Len(new) = Len(json) + 4
         /\ new[1] = json[1]
         /\ new[2] = a /\ new[3] = b /\ new[4] = c /\ new[5] = d
         /\ \A q \in 2 .. Len(json) : new[q + 4] = json[q]
<1>1. Head(json) = json[1] /\ json[1] \in Token /\ Tail(json) \in Seq(Token)
      /\ Len(json) \in Nat /\ Len(json) > 0 /\ Len(Tail(json)) = Len(json) - 1
      /\ \A q \in 2 .. Len(json) : Tail(json)[q - 1] = json[q]
  OBVIOUS
<1> DEFINE new == WithFirst(json, a, b, c, d)
<1> DEFINE front == <<Head(json)>> \o <<a, b, c>> \o <<d>>
<1>2. front \in Seq(Token) /\ Len(front) = 5
      /\ front[1] = json[1] /\ front[2] = a /\ front[3] = b
       /\ front[4] = c /\ front[5] = d
  BY <1>1
<1>3. PICK tail \in Seq(Token) : tail = Tail(json)
  BY <1>1
<1>4. new = front \o tail
  BY <1>3 DEF WithFirst
<1>. HIDE DEF front, new
<1>5. new \in Seq(Token) /\ Len(new) = Len(json) + 4
  <2>1. new \in Seq(Token) /\ Len(new) = Len(front) + Len(tail)
    BY <1>2, <1>4, Joined, Zenon
  <2>2. Len(tail) = Len(json) - 1
    BY <1>1, <1>3
  <2>3. 5 + (Len(json) - 1) = Len(json) + 4
    BY <1>1
  <2>. QED BY <1>2, <2>1, <2>2, <2>3, Zenon
<1>6. \A i \in 1 .. 5 : new[i] = front[i]
  <2>1. \A i \in 1 .. Len(front) : (front \o tail)[i] = front[i]
    BY <1>2, InFront, Zenon
  <2>. QED BY <1>2, <1>4, <2>1, Zenon
<1>7. ASSUME NEW q \in 2 .. Len(json) PROVE new[q + 4] = json[q]
  <2>1. q - 1 \in 1 .. Len(tail) /\ 5 + (q - 1) = q + 4 /\ 5 \in Nat
    BY <1>1, <1>3
  <2>2. (front \o tail)[5 + (q - 1)] = tail[q - 1]
    BY <1>2, <2>1, Behind, Zenon
  <2>. QED BY <1>1, <1>3, <1>4, <2>1, <2>2, Zenon
<1>. QED BY <1>2, <1>5, <1>6, <1>7 DEF new

LEMMA FiveBehind ==
  ASSUME NEW h \in Nat, NEW front \in Seq(Token), Len(front) = h,
         NEW back \in Seq(Token), Len(back) = 5
  PROVE  LET both == front \o back
         IN  /\ both[h + 1] = back[1] /\ both[h + 2] = back[2]
             /\ both[h + 3] = back[3] /\ both[h + 4] = back[4]
             /\ both[h + 5] = back[5]
<1>1. \A i \in 1 .. 5 : i \in 1 .. Len(back) /\ h + i \in Nat
  OBVIOUS
<1>2. \A i \in 1 .. 5 : (front \o back)[h + i] = back[i]
  BY <1>1, Behind, Zenon
<1>3. 1 \in 1 .. 5 /\ 2 \in 1 .. 5 /\ 3 \in 1 .. 5 /\ 4 \in 1 .. 5 /\ 5 \in 1 .. 5
  OBVIOUS
<1>. QED BY <1>2, <1>3, Zenon
WithLast(json, a, b, c, d) ==
  Front(json) \o <<d>> \o <<a, b, c>> \o <<Last(json)>>

\* The entry added at the end moves the closing brace by four.
LEMMA LastAdded ==
  ASSUME NEW json \in Seq(Token), json # <<>>,
         NEW a \in Token, NEW b \in Token, NEW c \in Token, NEW d \in Token
  PROVE  LET new == WithLast(json, a, b, c, d) IN
         /\ new \in Seq(Token) /\ Len(new) = Len(json) + 4
         /\ \A q \in 1 .. Len(json) - 1 : new[q] = json[q]
         /\ new[Len(json)] = d /\ new[Len(json) + 1] = a
         /\ new[Len(json) + 2] = b /\ new[Len(json) + 3] = c
         /\ new[Len(json) + 4] = json[Len(json)]
<1>1. PICK n \in Nat : n = Len(json) /\ n > 0
  OBVIOUS
<1>2. Last(json) = json[n] /\ json[n] \in Token
  BY <1>1 DEF Last
<1>3. /\ Front(json) \in Seq(Token) /\ Len(Front(json)) = n - 1
      /\ \A q \in 1 .. n - 1 : Front(json)[q] = json[q]
  BY <1>1 DEF Front
<1>4. PICK front \in Seq(Token) : front = Front(json)
  BY <1>3
<1> DEFINE new == WithLast(json, a, b, c, d)
<1> DEFINE back == <<d>> \o <<a, b, c>> \o <<Last(json)>>
<1>5. back \in Seq(Token) /\ Len(back) = 5
      /\ back[1] = d /\ back[2] = a /\ back[3] = b /\ back[4] = c /\ back[5] = json[n]
  BY <1>2
<1>6. new = front \o back
  BY <1>4, <1>2 DEF WithLast
<1>. HIDE DEF back, new
<1>7. new \in Seq(Token) /\ Len(new) = n + 4
  <2>1. Len(front) = n - 1
    BY <1>3, <1>4
  <2>2. front \o back \in Seq(Token) /\ Len(front \o back) = Len(front) + Len(back)
    BY <1>5, Joined, Zenon
  <2>3. new \in Seq(Token) /\ Len(new) = Len(front) + Len(back)
    BY <1>6, <2>2, Zenon
  <2>4. (n - 1) + 5 = n + 4
    OBVIOUS
  <2>. QED BY <1>5, <2>1, <2>3, <2>4, Zenon
<1>8. \A q \in 1 .. n - 1 : new[q] = json[q]
  BY <1>1, <1>3, <1>4, <1>5, <1>6
<1>9. /\ n - 1 \in Nat /\ Len(front) = n - 1
      /\ (n - 1) + 1 = n /\ (n - 1) + 2 = n + 1 /\ (n - 1) + 3 = n + 2
      /\ (n - 1) + 4 = n + 3 /\ (n - 1) + 5 = n + 4
  BY <1>1, <1>3, <1>4
<1>10. LET both == front \o back
       IN  /\ both[(n - 1) + 1] = back[1] /\ both[(n - 1) + 2] = back[2]
           /\ both[(n - 1) + 3] = back[3] /\ both[(n - 1) + 4] = back[4]
           /\ both[(n - 1) + 5] = back[5]
  <2>1. n - 1 \in Nat /\ Len(front) = n - 1
    BY <1>9
  <2>2. back \in Seq(Token) /\ Len(back) = 5
    BY <1>5
  <2>. QED BY <2>1, <2>2, FiveBehind, Zenon
<1>11. /\ new[n] = d /\ new[n + 1] = a /\ new[n + 2] = b /\ new[n + 3] = c
       /\ new[n + 4] = json[n]
  BY <1>5, <1>6, <1>9, <1>10, Zenon
<1>. QED BY <1>1, <1>7, <1>8, <1>11 DEF new

\* An entry stays an entry when another is added in front ...
LEMMA FirstKeepsEntry ==
  ASSUME NEW json \in Seq(Token), json # <<>>, NEW st, NEW name, NEW p,
         EntryAt(json, st, name, p),
         NEW a \in Token, NEW b \in Token, NEW c \in Token, NEW d \in Token,
         Quoted(name) \notin {a, b, c, d}
  PROVE  EntryAt(WithFirst(json, a, b, c, d), st, name, p + 4)
<1>. DEFINE new == WithFirst(json, a, b, c, d)
<1>1. PICK n \in Nat : n = Len(json)
  OBVIOUS
<1>2. /\ Len(new) = n + 4
      /\ new[1] = json[1]
      /\ new[2] = a /\ new[3] = b /\ new[4] = c /\ new[5] = d
      /\ \A q \in 2 .. n : new[q + 4] = json[q]
  <2>1. /\ Len(new) = Len(json) + 4
        /\ new[1] = json[1]
        /\ new[2] = a /\ new[3] = b /\ new[4] = c /\ new[5] = d
        /\ \A q \in 2 .. Len(json) : new[q + 4] = json[q]
    BY FirstAdded
  <2>. QED BY <1>1, <2>1, Zenon
<1>. HIDE DEF new
<1>3. /\ p \in 2 .. n - 3
      /\ json[p] = Quoted(name) /\ json[p + 1] = Colon
      /\ json[p + 2] = Number(JsonValue(st, name))
      /\ \A q \in 1 .. n : json[q] = Quoted(name) => q = p
  BY <1>1 DEF EntryAt
<1>4. ASSUME NEW q \in 1 .. n + 4, new[q] = Quoted(name)
      PROVE  q = p + 4
  <2>1. q # 1
    BY <1>2, <1>3, <1>4
  <2>2. q # 2 /\ q # 3 /\ q # 4 /\ q # 5
    BY <1>2, <1>4
  <2>3. q - 4 \in 2 .. n /\ q - 4 \in 1 .. n /\ (q - 4) + 4 = q
    BY <2>1, <2>2
  <2>4. json[q - 4] = Quoted(name)
    BY <1>2, <1>4, <2>3
  <2>5. q - 4 = p
    BY <1>3, <2>3, <2>4
  <2>. QED BY <2>5
<1>5. /\ p + 4 \in 2 .. (n + 4) - 3
      /\ (p + 4) + 1 = (p + 1) + 4 /\ p + 1 \in 2 .. n
      /\ (p + 4) + 2 = (p + 2) + 4 /\ p + 2 \in 2 .. n /\ p \in 2 .. n
  BY <1>3
<1>6. /\ new[p + 4] = Quoted(name) /\ new[(p + 4) + 1] = Colon
      /\ new[(p + 4) + 2] = Number(JsonValue(st, name))
  BY <1>2, <1>3, <1>5
<1>. QED BY <1>2, <1>4, <1>5, <1>6 DEF EntryAt, new

\* ... or behind it.
LEMMA LastKeepsEntry ==
  ASSUME NEW json \in Seq(Token), json # <<>>, NEW st, NEW name, NEW p,
         EntryAt(json, st, name, p),
         NEW a \in Token, NEW b \in Token, NEW c \in Token, NEW d \in Token,
         Quoted(name) \notin {a, b, c, d}
  PROVE  EntryAt(WithLast(json, a, b, c, d), st, name, p)
<1>. DEFINE new == WithLast(json, a, b, c, d)
<1>1. PICK n \in Nat : n = Len(json)
  OBVIOUS
<1>2. /\ Len(new) = n + 4
      /\ \A q \in 1 .. n - 1 : new[q] = json[q]
      /\ new[n] = d /\ new[n + 1] = a /\ new[n + 2] = b /\ new[n + 3] = c
      /\ new[n + 4] = json[n]
  <2>1. /\ Len(new) = Len(json) + 4
        /\ \A q \in 1 .. Len(json) - 1 : new[q] = json[q]
        /\ new[Len(json)] = d /\ new[Len(json) + 1] = a
        /\ new[Len(json) + 2] = b /\ new[Len(json) + 3] = c
        /\ new[Len(json) + 4] = json[Len(json)]
    BY LastAdded
  <2>. QED BY <1>1, <2>1, Zenon
<1>. HIDE DEF new
<1>3. /\ p \in 2 .. n - 3
      /\ json[p] = Quoted(name) /\ json[p + 1] = Colon
      /\ json[p + 2] = Number(JsonValue(st, name))
      /\ \A q \in 1 .. n : json[q] = Quoted(name) => q = p
  BY <1>1 DEF EntryAt
<1>4. ASSUME NEW q \in 1 .. n + 4, new[q] = Quoted(name)
      PROVE  q = p
  <2>1. q # n + 4
    BY <1>2, <1>3, <1>4
  <2>2. q # n /\ q # n + 1 /\ q # n + 2 /\ q # n + 3
    BY <1>2, <1>4
  <2>3. q \in 1 .. n - 1 /\ q \in 1 .. n
    BY <2>1, <2>2
  <2>4. new[q] = json[q]
    BY <1>2, <2>3, Zenon
  <2>. QED BY <1>3, <1>4, <2>3, <2>4
<1>5. /\ p \in 2 .. (n + 4) - 3
      /\ p + 1 \in 1 .. n - 1 /\ p + 2 \in 1 .. n - 1 /\ p \in 1 .. n - 1
  BY <1>3
<1>6. /\ new[p] = Quoted(name) /\ new[p + 1] = Colon
      /\ new[p + 2] = Number(JsonValue(st, name))
  BY <1>2, <1>3, <1>5
<1>. QED BY <1>2, <1>4, <1>5, <1>6 DEF EntryAt, new

\* A foreign entry moves the others or leaves them alone.
LEMMA Annotated ==
  ASSUME NEW json \in Seq(Token), json # <<>>, NEW st, WellPlaced(json, st),
         NEW t \in Notes
  PROVE  /\ WellPlaced(WithFirst(json, Quoted("note"), Colon, t, Comma), st)
         /\ WellPlaced(WithLast(json, Quoted("note"), Colon, t, Comma), st)
<1>1. /\ Quoted("note") \in Token /\ Colon \in Token /\ t \in Token /\ Comma \in Token
  BY TokenTypes
<1>. DEFINE first == WithFirst(json, Quoted("note"), Colon, t, Comma)
            last == WithLast(json, Quoted("note"), Colon, t, Comma)
<1>2. first \in Seq(Token) /\ last \in Seq(Token)
  BY <1>1, FirstAdded, LastAdded, Zenon
<1>3. ASSUME NEW name \in JsonNames
      PROVE  /\ \E p \in 1 .. Len(first) : EntryAt(first, st, name, p)
             /\ \E p \in 1 .. Len(last) : EntryAt(last, st, name, p)
  <2>1. PICK p \in 1 .. Len(json) : EntryAt(json, st, name, p)
    BY DEF WellPlaced
  <2>2. Quoted(name) \notin {Quoted("note"), Colon, t, Comma}
    <3>1. name # "note"
      BY DEF JsonNames, Offset
    <3>2. Quoted(name) # Quoted("note") /\ Quoted(name) # Colon /\ Quoted(name) # Comma
      BY <3>1, TokensApart DEF Comma
    <3>. QED BY <3>2, NotesAssumption
  <2>3. EntryAt(first, st, name, p + 4) /\ EntryAt(last, st, name, p)
    BY <1>1, <2>1, <2>2, FirstKeepsEntry, LastKeepsEntry, Zenon
  <2>. HIDE DEF first, last
  <2>4. Len(first) \in Nat /\ Len(last) \in Nat
    BY <1>2
  <2>5. p + 4 \in 1 .. Len(first) /\ p \in 1 .. Len(last)
    BY <2>3, <2>4 DEF EntryAt
  <2>. QED BY <2>3, <2>5
<1>. HIDE DEF first, last
<1>4. Len(first) \in Nat /\ Len(last) \in Nat
  BY <1>2
<1>. QED BY <1>3, <1>4 DEF WellPlaced, first, last

-----------------------------------------------------------------------------
(* Every message that any sequence of edits leaves.                        *)

\* An export is forty-four bytes.
LEMMA ExportIsAFrame ==
  ASSUME WordsOnly, NEW st \in State
  PROVE  serialize_binary(st) \in Frame
<1>1. body(st) \in Body /\ crc32(body(st)) \in Uint32
  BY BodyType DEF WordsOnly
<1>2. ASSUME NEW k \in 0..43
      PROVE  (IF k < 40 THEN body(st)[k] ELSE crc32(body(st))[k - 40]) \in Byte
  <2>1. CASE k < 40
    BY <1>1, <2>1 DEF Body
  <2>2. CASE ~(k < 40)
    <3>1. k - 40 \in 0..3
      BY <2>2
    <3>2. QED
      BY <1>1, <2>2, <3>1 DEF Uint32
  <2>3. QED
    BY <2>1, <2>2
<1>3. QED
  BY <1>2 DEF serialize_binary, Frame

Current ==
  /\ message = [format |-> message.format, data |-> message.data]
  /\ message.format \in {"binary", "json"}
  /\ answer \in {NoAnswer, IF Binary THEN deserialize_binary(message.data)
                                     ELSE deserialize_json(message.data)}

History ==
  /\ origin \in Exports
  /\ edits \in Seq(EditKinds) /\ Len(edits) <= MaxEdits

FrameInv ==
  Binary => /\ message.data \in Frame
            /\ edits = <<>> => message.data = serialize_binary(origin)

TextInv ==
  Text =>
    /\ message.data \in Seq(Token)
    /\ {"lose", "annotate", "duplicate"} \cap ToSet(edits) = {} =>
         Len(message.data) = 45
    /\ ToSet(edits) \subseteq {"reorder"} => Aligned(message.data, origin)
    /\ ToSet(edits) \subseteq {"reorder", "annotate"} =>
         WellPlaced(message.data, origin)

MessageInv == Current /\ History /\ FrameInv /\ TextInv

\* A list of 45 tokens is a function on 1 .. 45.
LEMMA TextType ==
  ASSUME NEW data
  PROVE  /\ data \in [1 .. 45 -> Token] => data \in Seq(Token) /\ Len(data) = 45
         /\ data \in Seq(Token) /\ Len(data) = 45 => data \in [1 .. 45 -> Token]
<1>1. ASSUME data \in [1 .. 45 -> Token]
      PROVE  data \in Seq(Token) /\ Len(data) = 45
  <2>1. [1 .. 45 -> Token] \in {[1 .. n -> Token] : n \in Nat}
    OBVIOUS
  <2>2. data \in Seq(Token)
    BY <1>1, <2>1, SeqDef, Zenon
  <2>. QED BY <1>1, <2>2, LenFcn
<1>2. ASSUME data \in Seq(Token), Len(data) = 45
      PROVE  data \in [1 .. 45 -> Token]
  <2>1. data \in [1 .. Len(data) -> Token]
    BY <1>2, LenProperties, Zenon
  <2>. QED BY <1>2, <2>1, Zenon
<1>. QED BY <1>1, <1>2

\* A message is never of both formats.
LEMMA OneFormat == ~(Binary /\ Text)
BY DEF Binary, Text

\* A fresh export, of either format, satisfies the invariant.
LEMMA SentInv ==
  ASSUME WordsOnly, NEW st \in Exports, NEW format, NEW data,
         \/ format = "binary" /\ data = serialize_binary(st)
         \/ format = "json" /\ data = serialize_json(st),
         Send(format, data, st)
  PROVE  MessageInv'
<1>1. /\ message' = [format |-> format, data |-> data] /\ answer' = NoAnswer
      /\ origin' = st /\ edits' = <<>>
  BY DEF Send
<1>2. message'.format = format /\ message'.data = data
  BY <1>1
<1>3. Current'
  BY <1>1, <1>2 DEF Current
<1>4. History'
  BY <1>1, InputAssumption DEF History
<1>5. st \in State
  BY InputAssumption
<1>6. FrameInv'
  BY <1>1, <1>2, <1>5, ExportIsAFrame DEF FrameInv, Binary
<1>7. ASSUME Text' PROVE /\ data \in Seq(Token) /\ Len(data) = 45
                         /\ Aligned(data, st) /\ WellPlaced(data, st)
  <2>1. data = serialize_json(st)
    BY <1>2, <1>7 DEF Text
  <2>2. Aligned(data, st)
    BY <1>5, <2>1, ExportAligned
  <2>3. data \in [1 .. 45 -> Token]
    BY <2>2 DEF Aligned
  <2>4. data \in Seq(Token) /\ Len(data) = 45
    BY <2>3, TextType
  <2>. QED BY <2>2, <2>4, AlignedIsPlaced
<1>8. TextInv'
  BY <1>1, <1>2, <1>7 DEF TextInv
<1>. QED BY <1>3, <1>4, <1>6, <1>8 DEF MessageInv

\* What an edit leaves alone, and what it adds to the history.
LEMMA EditEffect ==
  ASSUME MessageInv, NEW kind \in EditKinds, NEW data, Edit(kind, data)
  PROVE  /\ message'.format = message.format /\ message'.data = data
         /\ Binary' = Binary /\ Text' = Text
         /\ origin' = origin /\ edits' # <<>>
         /\ ToSet(edits') = ToSet(edits) \cup {kind}
         /\ Current' /\ History'
<1>1. /\ message' = [message EXCEPT !.data = data]
      /\ answer' = NoAnswer /\ origin' = origin
      /\ edits' = Append(edits, kind) /\ Len(edits) < MaxEdits
  BY DEF Edit
<1>2. /\ message' = [format |-> message.format, data |-> data]
      /\ message.format \in {"binary", "json"}
  BY <1>1 DEF MessageInv, Current
<1>3. message'.format = message.format /\ message'.data = data
  BY <1>2
<1>4. Current'
  BY <1>1, <1>2, <1>3 DEF Current
<1>5. edits \in Seq(EditKinds)
  BY DEF MessageInv, History
<1>6. /\ edits' \in Seq(EditKinds) /\ edits' # <<>> /\ Len(edits') = Len(edits) + 1
      /\ Len(edits) \in Nat
  BY <1>1, <1>5
<1>7. History'
  <2>1. MaxEdits \in Nat
    BY InputAssumption
  <2>. QED BY <1>1, <1>6, <2>1 DEF MessageInv, History
<1>8. ToSet(edits') = ToSet(edits) \cup {kind}
  <2>1. /\ DOMAIN edits = 1 .. Len(edits) /\ DOMAIN edits' = 1 .. Len(edits) + 1
        /\ \A i \in 1 .. Len(edits) : edits'[i] = edits[i]
        /\ edits'[Len(edits) + 1] = kind
    BY <1>1, <1>5
  <2>. HIDE <1>1
  <2>. QED BY <2>1, <1>6 DEF ToSet
<1>. QED BY <1>1, <1>3, <1>4, <1>6, <1>7, <1>8 DEF Binary, Text

\* A damaged frame satisfies the invariant if it is still 44 bytes.
LEMMA FrameEdited ==
  ASSUME MessageInv, Binary, NEW kind \in EditKinds, NEW data \in Frame,
         Edit(kind, data)
  PROVE  MessageInv'
<1>1. Binary' /\ ~Text'
  BY EditEffect, OneFormat DEF Binary, Text
<1>. QED BY <1>1, EditEffect DEF MessageInv, FrameInv, TextInv

\* A damaged text satisfies the invariant if it keeps what its edits allow.
LEMMA TextEdited ==
  ASSUME MessageInv, Text, NEW kind \in EditKinds, NEW data \in Seq(Token),
         Edit(kind, data),
         {"lose", "annotate", "duplicate"} \cap (ToSet(edits) \cup {kind}) = {} =>
           Len(data) = 45,
         ToSet(edits) \cup {kind} \subseteq {"reorder"} => Aligned(data, origin),
         ToSet(edits) \cup {kind} \subseteq {"reorder", "annotate"} =>
           WellPlaced(data, origin)
  PROVE  MessageInv'
<1>1. Text' /\ ~Binary'
  BY EditEffect DEF Binary, Text
<1>2. FrameInv'
  BY <1>1 DEF FrameInv
<1>3. TextInv'
  BY EditEffect, Zenon DEF TextInv
<1>. QED BY <1>2, <1>3, EditEffect DEF MessageInv

-----------------------------------------------------------------------------

\* One lemma for each kind of damage.
LEMMA OverwriteInv ==
  ASSUME MessageInv, NEW k \in 0..43, NEW b \in Overwrites, Overwrite(k, b)
  PROVE  MessageInv'
<1>1. Binary /\ message.data \in Frame
  BY DEF Overwrite, MessageInv, FrameInv
<1>2. [message.data EXCEPT ![k] = b] \in Frame
  BY <1>1, InputAssumption DEF Frame
<1>. QED BY <1>1, <1>2, FrameEdited DEF Overwrite, EditKinds

LEMMA TearInv ==
  ASSUME WordsOnly, MessageInv, NEW k \in 0..43, NEW st \in Exports, Tear(k, st)
  PROVE  MessageInv'
<1>1. Binary /\ message.data \in Frame /\ serialize_binary(st) \in Frame
  BY ExportIsAFrame, InputAssumption DEF Tear, MessageInv, FrameInv
<1>2. [i \in 0..43 |-> IF i < k THEN message.data[i]
                                ELSE serialize_binary(st)[i]] \in Frame
  BY <1>1 DEF Frame
<1>. QED BY <1>1, <1>2, FrameEdited DEF Tear, EditKinds

LEMMA LoseInv ==
  ASSUME MessageInv, NEW i \in 1..45, Lose(i)
  PROVE  MessageInv'
<1>1. Text /\ message.data \in Seq(Token) /\ i <= Len(message.data)
  BY DEF Lose, MessageInv, TextInv
<1>2. PICK json \in Seq(Token) : json = message.data
  BY <1>1
<1>3. RemoveAt(json, i) \in Seq(Token)
  BY <1>1, <1>2 DEF RemoveAt
<1>. QED BY <1>1, <1>2, <1>3, TextEdited DEF Lose, EditKinds

\* Another token in one place leaves a list of tokens of the same length.
LEMMA Replaced ==
  ASSUME NEW json \in Seq(Token), NEW i \in 1 .. Len(json), NEW token \in Token
  PROVE  /\ ReplaceAt(json, i, token) \in Seq(Token)
         /\ Len(ReplaceAt(json, i, token)) = Len(json)
BY ExceptSeq DEF ReplaceAt

LEMMA RewriteInv ==
  ASSUME MessageInv, NEW i \in 1..45, NEW v \in Numbers, Rewrite(i, v)
  PROVE  MessageInv'
<1>1. Text /\ message.data \in Seq(Token) /\ i <= Len(message.data)
  BY DEF Rewrite, MessageInv, TextInv
<1>2. Number(v) \in Token
  BY InputAssumption, TokenTypes
<1>3. /\ ReplaceAt(message.data, i, Number(v)) \in Seq(Token)
      /\ Len(ReplaceAt(message.data, i, Number(v))) = Len(message.data)
  <2>1. i \in 1 .. Len(message.data)
    BY <1>1
  <2>2. PICK json \in Seq(Token) : json = message.data
    BY <1>1
  <2>. QED BY <1>2, <2>1, <2>2, Replaced, Zenon
<1>4. {"lose", "annotate", "duplicate"} \cap ToSet(edits) = {} =>
         Len(message.data) = 45
  BY <1>1 DEF MessageInv, TextInv
<1>5. /\ ~(ToSet(edits) \cup {"rewrite"} \subseteq {"reorder"})
      /\ ~(ToSet(edits) \cup {"rewrite"} \subseteq {"reorder", "annotate"})
      /\ {"lose", "annotate", "duplicate"} \cap (ToSet(edits) \cup {"rewrite"}) = {} =>
           {"lose", "annotate", "duplicate"} \cap ToSet(edits) = {}
  OBVIOUS
<1>6. "rewrite" \in EditKinds
      /\ Edit("rewrite", ReplaceAt(message.data, i, Number(v)))
  BY DEF Rewrite, EditKinds
<1>. QED BY <1>1, <1>3, <1>4, <1>5, <1>6, TextEdited, Zenon

LEMMA ReorderInv ==
  ASSUME MessageInv, NEW k \in 1..11, NEW l \in 1..11, Reorder(k, l)
  PROVE  MessageInv'
<1> DEFINE json == message.data
           new == [i \in DOMAIN message.data |->
             CASE i \in 4 * k - 2 .. 4 * k -> message.data[i + 4 * (l - k)]
               [] i \in 4 * l - 2 .. 4 * l -> message.data[i - 4 * (l - k)]
               [] OTHER -> message.data[i]]
<1>1. /\ Text /\ k < l /\ Edit("reorder", new)
      /\ {"lose", "annotate", "duplicate"} \cap ToSet(edits) = {}
  BY DEF Reorder
<1>2. json \in Seq(Token) /\ Len(json) = 45
  BY <1>1 DEF MessageInv, TextInv
<1>3. json \in [1 .. 45 -> Token]
  BY <1>2, TextType
<1>4. new \in Seq(Token) /\ Len(new) = 45
  <2>1. ASSUME NEW i \in 1 .. 45
        PROVE  (CASE i \in 4 * k - 2 .. 4 * k -> json[i + 4 * (l - k)]
                  [] i \in 4 * l - 2 .. 4 * l -> json[i - 4 * (l - k)]
                  [] OTHER -> json[i]) \in Token
    <3>1. CASE i \in 4 * k - 2 .. 4 * k
      BY <1>1, <1>3, <3>1
    <3>2. CASE i \in 4 * l - 2 .. 4 * l
      <4>1. i \notin 4 * k - 2 .. 4 * k /\ i - 4 * (l - k) \in 1 .. 45
        BY <1>1, <3>2
      <4>. QED BY <1>3, <3>2, <4>1
    <3>3. CASE i \notin 4 * k - 2 .. 4 * k /\ i \notin 4 * l - 2 .. 4 * l
      BY <1>3, <3>3
    <3>. QED BY <3>1, <3>2, <3>3
  <2>2. new \in [1 .. 45 -> Token]
    BY <1>3, <2>1
  <2>. HIDE DEF new
  <2>. QED BY <2>2, TextType, Zenon
<1>5. Aligned(json, origin) => Aligned(new, origin)
  BY <1>1, ReorderKeepsAligned
<1>6. ToSet(edits) \subseteq {"reorder"} => Aligned(json, origin)
  BY <1>1 DEF MessageInv, TextInv
<1>. HIDE DEF new, json
<1>7. ToSet(edits) \cup {"reorder"} \subseteq {"reorder", "annotate"} =>
         ToSet(edits) \subseteq {"reorder"}
  BY <1>1
<1>8. Aligned(new, origin) => WellPlaced(new, origin)
  BY AlignedIsPlaced
<1>9. "reorder" \in EditKinds
  BY DEF EditKinds
<1>. QED BY <1>1, <1>4, <1>5, <1>6, <1>7, <1>8, <1>9, TextEdited

\* A text to which an entry is added, and what the entry has to be.
LEMMA AddInv ==
  ASSUME MessageInv, NEW kind \in {"annotate", "duplicate"}, NEW name, NEW value,
         Quoted(name) \in Token, value \in Token,
         AddFirst(kind, name, value) \/ AddLast(kind, name, value),
         kind = "annotate" => name = "note" /\ value \in Notes
  PROVE  MessageInv'
<1>1. Text /\ message.data \in Seq(Token) /\ message.data # <<>>
  BY DEF AddFirst, AddLast, MessageInv, TextInv
<1>2. PICK json \in Seq(Token) : json = message.data
  BY <1>1
<1>3. PICK new :
        /\ \/ new = WithFirst(json, Quoted(name), Colon, value, Comma)
           \/ new = WithLast(json, Quoted(name), Colon, value, Comma)
        /\ Edit(kind, new)
  BY <1>2 DEF AddFirst, AddLast, EntryOf, WithFirst, WithLast
<1>4. new \in Seq(Token)
  <2>1. json # <<>> /\ Colon \in Token /\ Comma \in Token
    BY <1>1, <1>2, TokenTypes
  <2>2. WithFirst(json, Quoted(name), Colon, value, Comma) \in Seq(Token)
    BY <2>1, FirstAdded, Zenon
  <2>3. WithLast(json, Quoted(name), Colon, value, Comma) \in Seq(Token)
    BY <2>1, LastAdded, Zenon
  <2>. QED BY <1>3, <2>2, <2>3, Zenon
<1>5. kind = "annotate" /\ WellPlaced(json, origin) => WellPlaced(new, origin)
  <2>1. ASSUME kind = "annotate", WellPlaced(json, origin)
        PROVE  /\ WellPlaced(WithFirst(json, Quoted(name), Colon, value, Comma), origin)
               /\ WellPlaced(WithLast(json, Quoted(name), Colon, value, Comma), origin)
    <3>1. name = "note" /\ value \in Notes /\ json # <<>>
      BY <1>1, <1>2, <2>1
    <3>2. /\ WellPlaced(WithFirst(json, Quoted("note"), Colon, value, Comma), origin)
          /\ WellPlaced(WithLast(json, Quoted("note"), Colon, value, Comma), origin)
      BY <2>1, <3>1, Annotated, Zenon
    <3>. QED BY <3>1, <3>2, Zenon
  <2>. QED BY <1>3, <2>1, Zenon
<1>6. kind \in EditKinds /\ kind # "reorder"
  BY DEF EditKinds
<1>7. ToSet(edits) \subseteq {"reorder", "annotate"} => WellPlaced(json, origin)
  BY <1>1, <1>2 DEF MessageInv, TextInv
<1>8. ToSet(edits) \cup {kind} \subseteq {"reorder", "annotate"} =>
        kind = "annotate" /\ ToSet(edits) \subseteq {"reorder", "annotate"}
  OBVIOUS
<1>9. {"lose", "annotate", "duplicate"} \cap (ToSet(edits) \cup {kind}) # {}
  OBVIOUS
<1>10. ~(ToSet(edits) \cup {kind} \subseteq {"reorder"})
  BY <1>6
<1>. QED
  BY <1>1, <1>3, <1>4, <1>5, <1>6, <1>7, <1>8, <1>9, <1>10, TextEdited, Zenon

\* Importing remembers an answer for the message that is there.
LEMMA ImportInv ==
  ASSUME MessageInv, Import
  PROVE  MessageInv'
BY DEF Import, MessageInv, Current, History, FrameInv, TextInv, Binary, Text

\* A first export satisfies the invariant, and every step keeps it.
LEMMA InitInv == ASSUME WordsOnly, Init PROVE MessageInv
<1>1. PICK st \in Exports :
        /\ message = [format |-> "binary", data |-> serialize_binary(st)]
        /\ origin = st /\ edits = <<>> /\ answer = NoAnswer
  BY DEF Init
<1>2. st \in State /\ message.format = "binary" /\ message.data = serialize_binary(st)
  BY <1>1, InputAssumption
<1>3. Binary /\ ~Text
  BY <1>2 DEF Binary, Text
<1>4. Current
  BY <1>1, <1>2 DEF Current
<1>5. History
  BY <1>1, InputAssumption DEF History
<1>6. FrameInv /\ TextInv
  BY <1>1, <1>2, <1>3, ExportIsAFrame DEF FrameInv, TextInv
<1>. QED BY <1>4, <1>5, <1>6 DEF MessageInv

LEMMA NextInv ==
  ASSUME WordsOnly, MessageInv, [Next]_vars
  PROVE  MessageInv'
<1>1. ASSUME NEW st \in Exports, ExportBinary(st) \/ ExportJson(st)
      PROVE  MessageInv'
  BY <1>1, SentInv DEF ExportBinary, ExportJson
<1>2. ASSUME NEW k \in 0..43, \/ \E b \in Overwrites : Overwrite(k, b)
                              \/ \E st \in Exports : Tear(k, st)
      PROVE  MessageInv'
  BY <1>2, OverwriteInv, TearInv
<1>3. ASSUME NEW i \in 1..45, Lose(i) \/ \E v \in Numbers : Rewrite(i, v)
      PROVE  MessageInv'
  BY <1>3, LoseInv, RewriteInv
<1>4. ASSUME NEW k \in 1..11, NEW l \in 1..11, Reorder(k, l)
      PROVE  MessageInv'
  BY <1>4, ReorderInv
<1>5. ASSUME NEW t \in Notes, \/ AddFirst("annotate", "note", t)
                              \/ AddLast("annotate", "note", t)
      PROVE  MessageInv'
  <2>1. Quoted("note") \in Token /\ t \in Token
    BY TokenTypes
  <2>. QED BY <1>5, <2>1, AddInv
<1>6. ASSUME NEW v \in Numbers, NEW name \in JsonNames,
             \/ AddFirst("duplicate", name, Number(v))
             \/ AddLast("duplicate", name, Number(v))
      PROVE  MessageInv'
  <2>1. Quoted(name) \in Token /\ Number(v) \in Token
    BY TokenTypes, InputAssumption
  <2>. QED BY <1>6, <2>1, AddInv
<1>7. CASE UNCHANGED vars
  BY <1>7 DEF vars, MessageInv, Current, History, FrameInv, TextInv, Binary, Text
<1>. QED BY <1>1, <1>2, <1>3, <1>4, <1>5, <1>6, <1>7, ImportInv DEF Next

\* Whatever is sent, and whatever happens to it, the receiver's answer is the
\* deserializer's on the message that arrived, a frame stays 44 bytes, and a text
\* that was only reordered or annotated still has one entry for each name.
THEOREM MessageInvCorrect ==
  ASSUME WordsOnly
  PROVE  Spec => []MessageInv
BY InitInv, NextInv, PTL DEF Spec

\* What deserialize_json() accepts, it reads as a State.
LEMMA AcceptedText ==
  ASSUME NEW json \in Seq(Token), NEW st, deserialize_json(json) = Accepted(st)
  PROVE  st \in State
<1>1. /\ \A name \in JsonNames : Readable(json, name)
      /\ Accepted([f \in DOMAIN Offset |-> parse_json_uint32(json, f)]) = Accepted(st)
  BY DEF deserialize_json, Accepted, Refused
<1>2. st = [f \in DOMAIN Offset |-> parse_json_uint32(json, f)]
  BY <1>1 DEF Accepted
<1>3. ASSUME NEW f \in DOMAIN Offset PROVE parse_json_uint32(json, f) \in Uint32
  <2>1. Readable(json, f)
    BY <1>1 DEF JsonNames
  <2>2. PICK at : /\ at = ValueAt(json, f) /\ at \in 1 .. Len(json)
                  /\ json[at][1] = "number"
    BY <2>1 DEF Readable
  <2>3. json[at] \in Token
    BY <2>2
  <2>. QED BY <2>2, <2>3, TokenTypes DEF parse_json_uint32
<1>. QED BY <1>2, <1>3, FieldPlace

\* What either deserializer accepts, it reads as a State.
LEMMA AnswerIsState ==
  ASSUME WordsOnly, MessageInv, answer.outcome = "ok"
  PROVE  answer.state \in State
<1>1. answer # NoAnswer
  BY DEF NoAnswer
<1>2. CASE Binary
  <2>1. answer = deserialize_binary(message.data) /\ message.data \in Frame
    BY <1>1, <1>2 DEF MessageInv, Current, FrameInv
  <2>2. PICK st : deserialize_binary(message.data) = Accepted(st)
    BY <2>1 DEF deserialize_binary, Refused
  <2>3. answer.state = st
    BY <2>1, <2>2 DEF Accepted
  <2>. QED BY <2>1, <2>2, <2>3, OneSpelling
<1>3. CASE ~Binary
  <2>0. Text
    BY <1>3 DEF MessageInv, Current, Binary, Text
  <2>1. answer = deserialize_json(message.data) /\ message.data \in Seq(Token)
    BY <1>1, <1>3, <2>0 DEF MessageInv, Current, TextInv
  <2>2. PICK st : deserialize_json(message.data) = Accepted(st)
    BY <2>1 DEF deserialize_json, Refused
  <2>3. answer.state = st
    BY <2>1, <2>2 DEF Accepted
  <2>. QED BY <2>1, <2>2, <2>3, AcceptedText
<1>. QED BY <1>2, <1>3

\* The messages, and what deserialize_binary() and deserialize_json() return
\* for them, have the types of the code: every accepted answer is nine 32-bit
\* words, also after any damage that still parses.
THEOREM TypeCorrect ==
  ASSUME WordsOnly
  PROVE  Spec => []TypeOK
<1>1. MessageInv => TypeOK
  <2> SUFFICES ASSUME MessageInv PROVE TypeOK
    OBVIOUS
  <2>1. Binary \/ Text
    BY DEF MessageInv, Current, Binary, Text
  <2>. QED BY <2>1, AnswerIsState DEF MessageInv, History, FrameInv, TextInv, TypeOK
<1>. QED BY <1>1, MessageInvCorrect, PTL

\* deserialize_binary() undoes serialize_binary() and deserialize_json() undoes
\* serialize_json(), in every run, for every State that is exported.
THEOREM IntactCorrect ==
  ASSUME WordsOnly
  PROVE  Spec => []IntactAccepted
<1>1. MessageInv => IntactAccepted
  <2> SUFFICES ASSUME MessageInv, edits = <<>>, answer # NoAnswer
               PROVE  answer = Accepted(origin)
    BY DEF IntactAccepted
  <2>1. origin \in State
    BY InputAssumption DEF MessageInv, History
  <2>2. CASE Binary
    BY <2>1, <2>2, RoundTrip DEF MessageInv, Current, FrameInv
  <2>3. CASE ~Binary
    <3>1. Text
      BY <2>3 DEF MessageInv, Current, Binary, Text
    <3>2. ToSet(edits) = {}
      BY DEF ToSet
    <3>3. WellPlaced(message.data, origin)
      BY <3>1, <3>2 DEF MessageInv, TextInv
    <3>. QED BY <2>1, <2>3, <3>3, WellPlacedAccepted DEF MessageInv, Current
  <2>. QED BY <2>2, <2>3
<1>. QED BY <1>1, MessageInvCorrect, PTL

\* A JSON text whose entries were exchanged, or to which entries of other
\* programs were added, any number of times and in any order, is still read
\* as the State that was exported.
THEOREM RewritingCorrect ==
  ASSUME WordsOnly
  PROVE  Spec => []RewritingTolerated
<1>1. MessageInv => RewritingTolerated
  <2> SUFFICES ASSUME MessageInv, Text, ToSet(edits) \subseteq {"reorder", "annotate"},
                      answer # NoAnswer
               PROVE  answer = Accepted(origin)
    BY DEF RewritingTolerated
  <2>1. origin \in State /\ ~Binary
    BY InputAssumption, OneFormat DEF MessageInv, History
  <2>2. WellPlaced(message.data, origin)
    BY DEF MessageInv, TextInv
  <2>. QED BY <2>1, <2>2, WellPlacedAccepted DEF MessageInv, Current
<1>. QED BY <1>1, MessageInvCorrect, PTL

\* Every frame that is accepted, after any exports and damage, is the export of
\* the State it is read as.
THEOREM CanonicalCorrect ==
  ASSUME WordsOnly
  PROVE  Spec => []Canonical
<1>1. MessageInv => Canonical
  <2> SUFFICES ASSUME MessageInv, Binary, answer.outcome = "ok"
               PROVE  serialize_binary(answer.state) = message.data
    BY DEF Canonical
  <2>1. answer # NoAnswer
    BY DEF NoAnswer
  <2>2. answer = deserialize_binary(message.data) /\ message.data \in Frame
    BY <2>1 DEF MessageInv, Current, FrameInv
  <2>3. PICK st : deserialize_binary(message.data) = Accepted(st)
    BY <2>2 DEF deserialize_binary, Refused
  <2>4. answer.state = st
    BY <2>2, <2>3 DEF Accepted
  <2>. QED BY <2>2, <2>3, <2>4, OneSpelling
<1>. QED BY <1>1, MessageInvCorrect, PTL

-----------------------------------------------------------------------------
(* One edit: two exports that differ in one field have different checksums, *)
(* and so whatever hits one field only is refused, or changes nothing.      *)

\* The checksum tells bodies apart that differ in one word; Crc32Suffices below
\* shows that crc32() does.
DetectsOneWord ==
  \A a, b \in Body, n \in 0 .. 9 :
    /\ \A k \in 0 .. 39 : k \div 4 # n => a[k] = b[k]
    /\ crc32(a) = crc32(b)
    => a = b

\* A body is one State's alone.
LEMMA BodyApart ==
  ASSUME NEW a \in State, NEW b \in State, body(a) = body(b)
  PROVE  a = b
<1>1. ASSUME NEW f \in DOMAIN Offset
      PROVE  a[f] = b[f]
  <2>1. PICK n \in 1 .. 9 : Offset[f] = 4 * n /\ FieldNames[n] = f
    <3>1. PICK n \in 1 .. 9 : Offset[f] = 4 * n
      BY FieldPlace
    <3>2. FieldNames[n] = f
      BY <3>1, FieldPlace
    <3>. QED BY <3>1, <3>2
  <2>2. a[f] \in Uint32 /\ b[f] \in Uint32
    BY FieldPlace
  <2>3. ASSUME NEW i \in 0 .. 3
        PROVE  a[f][i] = b[f][i]
    <3>1. /\ 4 * n + i \in 0 .. 39 /\ ~(4 * n + i < 4)
          /\ (4 * n + i) \div 4 = n /\ (4 * n + i) % 4 = i
      OBVIOUS
    <3>2. body(a)[4 * n + i] = a[f][i] /\ body(b)[4 * n + i] = b[f][i]
      BY <2>1, <3>1 DEF body
    <3>. QED BY <3>2
  <2>. QED BY <2>2, <2>3 DEF Uint32
<1>. QED BY <1>1, FieldPlace

\* The checksums of two States that differ in one field are different.
LEMMA OneFieldApart ==
  ASSUME WordsOnly, DetectsOneWord, NEW a \in State, NEW b \in State,
         NEW name, \A f \in DOMAIN Offset : f # name => a[f] = b[f],
         crc32(body(a)) = crc32(body(b))
  PROVE  a = b
<1>1. CASE name \notin DOMAIN Offset
  BY <1>1, FieldPlace
<1>2. CASE name \in DOMAIN Offset
  <2>1. PICK n \in 1 .. 9 : Offset[name] = 4 * n /\ FieldNames[n] = name
    <3>1. PICK n \in 1 .. 9 : Offset[name] = 4 * n
      BY <1>2, FieldPlace
    <3>2. FieldNames[n] = name
      BY <1>2, <3>1, FieldPlace
    <3>. QED BY <3>1, <3>2
  <2>2. ASSUME NEW k \in 0 .. 39, k \div 4 # n
        PROVE  body(a)[k] = body(b)[k]
    <3>1. CASE k < 4
      BY <3>1 DEF body
    <3>2. CASE ~(k < 4)
      <4>1. k \div 4 \in 1 .. 9
        BY <3>2
      <4>2. FieldNames[k \div 4] \in DOMAIN Offset /\ FieldNames[k \div 4] # name
        <5>1. /\ FieldNames[k \div 4] \in DOMAIN Offset
              /\ Offset[FieldNames[k \div 4]] = 4 * (k \div 4)
          BY <4>1, FieldPlace
        <5>2. 4 * (k \div 4) # 4 * n
          BY <2>2, <4>1
        <5>. QED BY <2>1, <5>1, <5>2
      <4>3. /\ body(a)[k] = a[FieldNames[k \div 4]][k % 4]
            /\ body(b)[k] = b[FieldNames[k \div 4]][k % 4]
        BY <3>2 DEF body
      <4>. QED BY <4>2, <4>3
    <3>. QED BY <3>1, <3>2
  <2>3. body(a) \in Body /\ body(b) \in Body /\ n \in 0 .. 9
    BY BodyType
  <2>4. body(a) = body(b)
    BY <2>2, <2>3 DEF DetectsOneWord
  <2>. QED BY <2>4, BodyApart
<1>. QED BY <1>1, <1>2

\* A frame with one damaged byte is refused, or nothing was damaged.
LEMMA OneByteRefused ==
  ASSUME WordsOnly, DetectsOneWord, NEW st \in State,
         NEW k \in 0 .. 43, NEW b \in Byte, NEW data \in Frame,
         data = [serialize_binary(st) EXCEPT ![k] = b]
  PROVE  deserialize_binary(data) \in {Refused, Accepted(st)}
<1>. SUFFICES ASSUME NEW got, deserialize_binary(data) = Accepted(got)
              PROVE  got = st
  BY DEF deserialize_binary
<1>1. got \in State /\ serialize_binary(got) = data
  BY OneSpelling
<1>2. ASSUME NEW i \in 0 .. 43, i # k
      PROVE  serialize_binary(got)[i] = serialize_binary(st)[i]
  BY <1>1, <1>2 DEF serialize_binary
<1>3. body(st) \in Body /\ body(got) \in Body
  BY <1>1, BodyType
<1>4. ASSUME NEW i \in 0 .. 39, i # k
      PROVE  body(got)[i] = body(st)[i]
  <2>1. /\ serialize_binary(got)[i] = body(got)[i]
        /\ serialize_binary(st)[i] = body(st)[i]
    BY DEF serialize_binary
  <2>. QED BY <1>2, <1>4, <2>1
<1>5. CASE k >= 40
  <2>1. body(got) = body(st)
    BY <1>3, <1>4, <1>5 DEF Body
  <2>. QED BY <1>1, <2>1, BodyApart
<1>6. CASE k < 40
  <2>1. ASSUME NEW i \in 0 .. 3
        PROVE  crc32(body(got))[i] = crc32(body(st))[i]
    <3>1. /\ 40 + i \in 0 .. 43 /\ 40 + i # k /\ ~(40 + i < 40)
          /\ (40 + i) - 40 = i
      BY <1>6
    <3>2. /\ serialize_binary(got)[40 + i] = crc32(body(got))[i]
          /\ serialize_binary(st)[40 + i] = crc32(body(st))[i]
      BY <3>1 DEF serialize_binary
    <3>. QED BY <1>2, <3>1, <3>2
  <2>2. crc32(body(got)) = crc32(body(st))
    BY <1>3, <2>1 DEF WordsOnly, Uint32
  <2>3. k \div 4 \in 0 .. 9 /\ \A i \in 0 .. 39 : i \div 4 # k \div 4 => i # k
    BY <1>6
  <2>4. body(got) = body(st)
    BY <1>3, <1>4, <2>2, <2>3 DEF DetectsOneWord
  <2>. QED BY <1>1, <2>4, BodyApart
<1>. QED BY <1>5, <1>6

\* A text in which a name still has the number an export gave it.
ReadsRight(json, st, name) ==
  Readable(json, name) /\ parse_json_uint32(json, name) = JsonValue(st, name)

\* A text in which all names but one do.
OneNameOff(json, st) ==
  \E off : \A name \in JsonNames \ {off} : ReadsRight(json, st, name)

\* A text with one name that is read wrongly is refused, or read rightly.
LEMMA OneNameRefused ==
  ASSUME WordsOnly, DetectsOneWord, NEW st \in State, NEW json \in Seq(Token),
         OneNameOff(json, st)
  PROVE  deserialize_json(json) \in {Refused, Accepted(st)}
<1>. SUFFICES ASSUME deserialize_json(json) # Refused
              PROVE  deserialize_json(json) = Accepted(st)
  OBVIOUS
<1>. DEFINE got == [f \in DOMAIN Offset |-> parse_json_uint32(json, f)]
<1>1. /\ deserialize_json(json) = Accepted(got)
      /\ parse_json_uint32(json, "checksum") = crc32(body(got))
  BY DEF deserialize_json
<1>2. got \in State
  BY <1>1, AcceptedText
<1>3. PICK off : \A name \in JsonNames \ {off} : ReadsRight(json, st, name)
  BY DEF OneNameOff
<1>4. ASSUME NEW f \in DOMAIN Offset, f # off
      PROVE  got[f] = st[f]
  <2>1. f \in JsonNames \ {off} /\ JsonValue(st, f) = st[f]
    BY <1>4 DEF JsonNames, JsonValue, Offset
  <2>. QED BY <1>3, <2>1 DEF ReadsRight
<1>5. CASE off \in DOMAIN Offset
  <2>1. "checksum" \in JsonNames \ {off} /\ JsonValue(st, "checksum") = crc32(body(st))
    BY <1>5 DEF JsonNames, JsonValue, Offset
  <2>2. crc32(body(got)) = crc32(body(st))
    BY <1>1, <1>3, <2>1 DEF ReadsRight
  <2>3. got = st
    <3>. HIDE DEF got
    <3>. QED BY <1>2, <1>4, <2>2, OneFieldApart
  <2>. QED BY <1>1, <2>3
<1>6. CASE off \notin DOMAIN Offset
  <2>1. got = st
    BY <1>4, <1>6, FieldPlace
  <2>. QED BY <1>1, <2>1
<1>. QED BY <1>5, <1>6

\* The first entry of a name is complete.
Complete(json, st, name, p) ==
  /\ p \in 1 .. Len(json) - 2
  /\ json[p] = Quoted(name) /\ json[p + 1] = Colon
  /\ json[p + 2] = Number(JsonValue(st, name))
  /\ \A q \in 1 .. Len(json) : json[q] = Quoted(name) => p <= q

\* What a name with a complete first entry is read as.
LEMMA CompleteReads ==
  ASSUME NEW json, Len(json) \in Nat, NEW st, NEW name, NEW p,
         Complete(json, st, name, p)
  PROVE  ReadsRight(json, st, name)
<1>1. /\ p \in 1 .. Len(json) - 1 /\ p \in 1 .. Len(json) /\ p + 2 \in 1 .. Len(json)
      /\ json[p] = Quoted(name) /\ json[p + 1] = Colon
      /\ \A q \in 1 .. Len(json) : json[q] = Quoted(name) => p <= q
  BY DEF Complete
<1>2. ValueAt(json, name) = p + 2
  BY <1>1, Valued
<1>3. json[p + 2] = Number(JsonValue(st, name))
  BY DEF Complete
<1>. QED BY <1>1, <1>2, <1>3, TokensApart
         DEF ReadsRight, Readable, parse_json_uint32

\* An entry of an undamaged text.
LEMMA EntryComplete ==
  ASSUME NEW json \in Seq(Token), NEW st, NEW name, NEW p, EntryAt(json, st, name, p)
  PROVE  Complete(json, st, name, p)
<1>1. Len(json) \in Nat
  OBVIOUS
<1>. QED BY <1>1 DEF EntryAt, Complete

\* In a text with one entry for each name, no name is off.
LEMMA WellPlacedReads ==
  ASSUME NEW json \in Seq(Token), NEW st, WellPlaced(json, st)
  PROVE  OneNameOff(json, st)
<1>1. \A name \in JsonNames : ReadsRight(json, st, name)
  BY ReadEntry DEF ReadsRight
<1>. QED BY <1>1 DEF OneNameOff

\* A token belongs to the entry of one name at most.
LEMMA EntriesApart ==
  ASSUME NEW json, NEW st, NEW a, NEW b, NEW p \in Nat, NEW q \in Nat, NEW i \in Nat,
         EntryAt(json, st, a, p), EntryAt(json, st, b, q),
         i \in p .. p + 2, i \in q .. q + 2
  PROVE  a = b
<1>1. p = q \/ p = q + 1 \/ p = q + 2 \/ q = p + 1 \/ q = p + 2
  OBVIOUS
<1>2. /\ json[p] = Quoted(a) /\ json[p + 1] = Colon
      /\ json[p + 2] = Number(JsonValue(st, a))
      /\ json[q] = Quoted(b) /\ json[q + 1] = Colon
      /\ json[q + 2] = Number(JsonValue(st, b))
  BY DEF EntryAt
<1>3. /\ Quoted(a) # Colon /\ Quoted(b) # Colon
      /\ Quoted(a) # Number(JsonValue(st, b)) /\ Quoted(b) # Number(JsonValue(st, a))
      /\ Quoted(a) = Quoted(b) => a = b
  BY TokensApart
<1>. QED BY <1>1, <1>2, <1>3, Zenon

\* The name whose entry a token belongs to; for any other, the entry is at
\* another place.
LEMMA OneEntryHit ==
  ASSUME NEW json \in Seq(Token), NEW st, WellPlaced(json, st), NEW i \in Nat
  PROVE  \E off : \A name \in JsonNames \ {off} :
           \E p \in 1 .. Len(json) : EntryAt(json, st, name, p) /\ i \notin p .. p + 2
<1>1. \A name \in JsonNames : \E p \in 1 .. Len(json) : EntryAt(json, st, name, p)
  BY DEF WellPlaced
<1>2. CASE \E off \in JsonNames : \E p \in 1 .. Len(json) :
             EntryAt(json, st, off, p) /\ i \in p .. p + 2
  <2>1. PICK off \in JsonNames, q \in 1 .. Len(json) :
          EntryAt(json, st, off, q) /\ i \in q .. q + 2
    BY <1>2
  <2>2. ASSUME NEW name \in JsonNames \ {off}
        PROVE  \E p \in 1 .. Len(json) :
                 EntryAt(json, st, name, p) /\ i \notin p .. p + 2
    <3>1. PICK p \in 1 .. Len(json) : EntryAt(json, st, name, p)
      BY <1>1
    <3>2. p \in Nat /\ q \in Nat
      OBVIOUS
    <3>3. i \notin p .. p + 2
      BY <2>1, <3>1, <3>2, EntriesApart
    <3>. QED BY <3>1, <3>3
  <2>. QED BY <2>2
<1>3. CASE ~ \E off \in JsonNames : \E p \in 1 .. Len(json) :
               EntryAt(json, st, off, p) /\ i \in p .. p + 2
  BY <1>1, <1>3
<1>. QED BY <1>2, <1>3

\* A text without its token i.
LEMMA Removed ==
  ASSUME NEW json \in Seq(Token), NEW i \in 1 .. Len(json)
  PROVE  /\ RemoveAt(json, i) \in Seq(Token)
         /\ Len(RemoveAt(json, i)) = Len(json) - 1
         /\ \A q \in 1 .. i - 1 : RemoveAt(json, i)[q] = json[q]
         /\ \A q \in i .. Len(json) - 1 : RemoveAt(json, i)[q] = json[q + 1]
<1>. DEFINE n == Len(json)
            s == SubSeq(json, 1, i - 1)
            t == SubSeq(json, i + 1, n)
<1>1. n \in Nat /\ i \in 1 .. n
  OBVIOUS
<1>2. /\ s \in Seq(Token) /\ Len(s) = i - 1
      /\ \A q \in 1 .. i - 1 : s[q] = json[q]
  BY <1>1
<1>3. /\ t \in Seq(Token) /\ Len(t) = n - i
      /\ \A q \in 1 .. n - i : t[q] = json[i + q]
  BY <1>1
<1>4. RemoveAt(json, i) = s \o t
  BY DEF RemoveAt
<1>. HIDE DEF s, t
<1>5. s \o t \in Seq(Token) /\ Len(s \o t) = n - 1
  <2>1. s \o t \in Seq(Token) /\ Len(s \o t) = Len(s) + Len(t)
    BY <1>2, <1>3, Joined, Zenon
  <2>. QED BY <1>1, <1>2, <1>3, <2>1
<1>6. ASSUME NEW q \in 1 .. i - 1
      PROVE  (s \o t)[q] = json[q]
  <2>1. q \in 1 .. Len(s)
    BY <1>2
  <2>. QED BY <1>2, <1>3, <2>1, InFront
<1>7. ASSUME NEW q \in i .. n - 1
      PROVE  (s \o t)[q] = json[q + 1]
  <2>. DEFINE r == q - (i - 1)
  <2>1. /\ r \in 1 .. n - i /\ (i - 1) + r = q /\ i + r = q + 1 /\ i - 1 \in Nat
    BY <1>1
  <2>. HIDE DEF r
  <2>2. r \in 1 .. Len(t)
    BY <1>3, <2>1
  <2>3. (s \o t)[(i - 1) + r] = t[r]
    BY <1>2, <1>3, <2>1, <2>2, Behind
  <2>. QED BY <1>3, <2>1, <2>3
<1>. QED BY <1>4, <1>5, <1>6, <1>7

\* A lost token hits one name.
LEMMA LoseOneOff ==
  ASSUME NEW json \in Seq(Token), NEW st, WellPlaced(json, st),
         NEW i \in 1 .. Len(json)
  PROVE  OneNameOff(RemoveAt(json, i), st)
<1>. DEFINE new == RemoveAt(json, i)
<1>0. PICK n \in Nat : n = Len(json)
  OBVIOUS
<1>1. /\ Len(new) = n - 1 /\ Len(new) \in Nat /\ i \in 1 .. n
      /\ \A q \in 1 .. i - 1 : new[q] = json[q]
      /\ \A q \in i .. n - 1 : new[q] = json[q + 1]
  BY <1>0, Removed
<1>. HIDE DEF new
<1>2. PICK off : \A name \in JsonNames \ {off} :
        \E p \in 1 .. Len(json) : EntryAt(json, st, name, p) /\ i \notin p .. p + 2
  <2>1. i \in Nat
    OBVIOUS
  <2>. QED BY <2>1, OneEntryHit, Zenon
<1>3. ASSUME NEW name \in JsonNames \ {off}
      PROVE  ReadsRight(new, st, name)
  <2>1. PICK p \in 1 .. n : EntryAt(json, st, name, p) /\ i \notin p .. p + 2
    BY <1>0, <1>2
  <2>2. /\ p \in 2 .. n - 3
        /\ json[p] = Quoted(name) /\ json[p + 1] = Colon
        /\ json[p + 2] = Number(JsonValue(st, name))
        /\ \A q \in 1 .. n : json[q] = Quoted(name) => q = p
    BY <1>0, <2>1 DEF EntryAt
  <2>3. ASSUME NEW q \in 1 .. n - 1, new[q] = Quoted(name)
        PROVE  \/ q < i /\ q = p
               \/ q >= i /\ q + 1 = p
    <3>1. CASE q < i
      <4>1. new[q] = json[q] /\ q \in 1 .. n
        BY <1>1, <3>1
      <4>2. json[q] = Quoted(name)
        BY <2>3, <4>1
      <4>3. q = p
        BY <2>2, <4>1, <4>2
      <4>. QED BY <3>1, <4>3
    <3>2. CASE q >= i
      <4>1. new[q] = json[q + 1] /\ q + 1 \in 1 .. n
        BY <1>1, <3>2
      <4>2. json[q + 1] = Quoted(name)
        BY <2>3, <4>1
      <4>3. q + 1 = p
        BY <2>2, <4>1, <4>2
      <4>. QED BY <3>2, <4>3
    <3>. QED BY <1>1, <3>1, <3>2
  <2>4. CASE i < p
    <3>1. /\ p - 1 \in i .. n - 1 /\ p \in i .. n - 1 /\ p + 1 \in i .. n - 1
          /\ (p - 1) + 1 = p /\ (p - 1) + 2 = p + 1
          /\ p - 1 \in 1 .. (n - 1) - 2
      BY <1>1, <2>2, <2>4
    <3>2. /\ new[p - 1] = Quoted(name) /\ new[(p - 1) + 1] = Colon
          /\ new[(p - 1) + 2] = Number(JsonValue(st, name))
      <4>1. /\ new[p - 1] = json[p] /\ new[p] = json[p + 1]
            /\ new[p + 1] = json[(p + 1) + 1]
        BY <1>1, <3>1
      <4>2. (p + 1) + 1 = p + 2
        OBVIOUS
      <4>. QED BY <2>2, <3>1, <4>1, <4>2
    <3>3. \A q \in 1 .. n - 1 : new[q] = Quoted(name) => p - 1 <= q
      BY <2>3
    <3>4. Complete(new, st, name, p - 1)
      BY <1>1, <3>1, <3>2, <3>3 DEF Complete
    <3>. QED BY <1>1, <3>4, CompleteReads
  <2>5. CASE i > p + 2
    <3>1. /\ p \in 1 .. i - 1 /\ p + 1 \in 1 .. i - 1 /\ p + 2 \in 1 .. i - 1
          /\ p \in 1 .. (n - 1) - 2
      BY <1>1, <2>2, <2>5
    <3>2. /\ new[p] = Quoted(name) /\ new[p + 1] = Colon
          /\ new[p + 2] = Number(JsonValue(st, name))
      BY <1>1, <2>2, <3>1
    <3>3. \A q \in 1 .. n - 1 : new[q] = Quoted(name) => p <= q
      BY <2>3, <2>5, <1>1
    <3>4. Complete(new, st, name, p)
      BY <1>1, <3>1, <3>2, <3>3 DEF Complete
    <3>. QED BY <1>1, <3>4, CompleteReads
  <2>. QED BY <1>1, <2>1, <2>4, <2>5
<1>. QED BY <1>3 DEF OneNameOff, new

\* A rewritten number hits one name.
LEMMA RewriteOneOff ==
  ASSUME NEW json \in Seq(Token), NEW st, WellPlaced(json, st),
         NEW i \in 1 .. Len(json), NEW v \in Uint32, json[i][1] = "number"
  PROVE  OneNameOff(ReplaceAt(json, i, Number(v)), st)
<1>. DEFINE new == ReplaceAt(json, i, Number(v))
<1>0. Number(v) \in Token
  BY TokenTypes
<1>1. /\ Len(new) = Len(json) /\ Len(new) \in Nat
      /\ new[i] = Number(v)
      /\ \A q \in 1 .. Len(json) : q # i => new[q] = json[q]
  BY <1>0, ExceptSeq DEF ReplaceAt
<1>. HIDE DEF new
<1>2. PICK off : \A name \in JsonNames \ {off} :
        \E p \in 1 .. Len(json) : EntryAt(json, st, name, p) /\ i \notin p .. p + 2
  <2>1. i \in Nat
    OBVIOUS
  <2>. QED BY <2>1, OneEntryHit, Zenon
<1>3. ASSUME NEW name \in JsonNames \ {off}
      PROVE  ReadsRight(new, st, name)
  <2>1. PICK p \in 1 .. Len(json) : EntryAt(json, st, name, p) /\ i \notin p .. p + 2
    BY <1>2
  <2>2. /\ p \in 2 .. Len(json) - 3
        /\ json[p] = Quoted(name) /\ json[p + 1] = Colon
        /\ json[p + 2] = Number(JsonValue(st, name))
        /\ \A q \in 1 .. Len(json) : json[q] = Quoted(name) => q = p
    BY <2>1 DEF EntryAt
  <2>3. /\ p # i /\ p + 1 # i /\ p + 2 # i
        /\ p \in 1 .. Len(json) - 2
        /\ p + 1 \in 1 .. Len(json) /\ p + 2 \in 1 .. Len(json)
    BY <2>1, <2>2
  <2>4. /\ new[p] = Quoted(name) /\ new[p + 1] = Colon
        /\ new[p + 2] = Number(JsonValue(st, name))
    BY <1>1, <2>2, <2>3
  <2>5. ASSUME NEW q \in 1 .. Len(json), new[q] = Quoted(name)
        PROVE  p <= q
    <3>1. q # i
      BY <1>1, <2>5, TokensApart
    <3>2. q = p
      BY <1>1, <2>2, <2>5, <3>1
    <3>. QED BY <3>2
  <2>6. Complete(new, st, name, p)
    BY <1>1, <2>3, <2>4, <2>5 DEF Complete
  <2>. QED BY <1>1, <2>6, CompleteReads
<1>. QED BY <1>3 DEF OneNameOff, new

\* A repeated entry hits the name that is repeated.
LEMMA DuplicateOneOff ==
  ASSUME NEW json \in Seq(Token), json # <<>>, NEW st, WellPlaced(json, st),
         NEW dup \in JsonNames, NEW v \in Uint32
  PROVE  /\ OneNameOff(WithFirst(json, Quoted(dup), Colon, Number(v), Comma), st)
         /\ OneNameOff(WithLast(json, Quoted(dup), Colon, Number(v), Comma), st)
<1>1. /\ Quoted(dup) \in Token /\ Colon \in Token
      /\ Number(v) \in Token /\ Comma \in Token
  BY TokenTypes
<1>. DEFINE first == WithFirst(json, Quoted(dup), Colon, Number(v), Comma)
            last == WithLast(json, Quoted(dup), Colon, Number(v), Comma)
<1>2. first \in Seq(Token) /\ last \in Seq(Token)
  BY <1>1, FirstAdded, LastAdded, Zenon
<1>3. ASSUME NEW name \in JsonNames \ {dup}
      PROVE  ReadsRight(first, st, name) /\ ReadsRight(last, st, name)
  <2>1. PICK p \in 1 .. Len(json) : EntryAt(json, st, name, p)
    BY DEF WellPlaced
  <2>2. Quoted(name) \notin {Quoted(dup), Colon, Number(v), Comma}
    BY TokensApart DEF Comma
  <2>3. EntryAt(first, st, name, p + 4) /\ EntryAt(last, st, name, p)
    BY <1>1, <2>1, <2>2, FirstKeepsEntry, LastKeepsEntry, Zenon
  <2>. HIDE DEF first, last
  <2>4. Complete(first, st, name, p + 4) /\ Complete(last, st, name, p)
    BY <1>2, <2>3, EntryComplete
  <2>5. Len(first) \in Nat /\ Len(last) \in Nat
    BY <1>2
  <2>. QED BY <2>4, <2>5, CompleteReads
<1>. HIDE DEF first, last
<1>. QED BY <1>3 DEF OneNameOff, first, last

-----------------------------------------------------------------------------
(* One edit of a message, in the runs of the specification.                *)

\* An export with one of its bytes replaced.
OneByteOff(data, st) ==
  \E k \in 0..43, b \in Byte : data = [serialize_binary(st) EXCEPT ![k] = b]

\* The invariant: frames are only overwritten or torn, and a message whose last
\* edit is the only one that is no rewriting has one byte or one name off.
OneInv ==
  /\ Binary => ToSet(edits) \subseteq {"overwrite", "tear"}
  /\ edits # <<>> /\ ToSet(Front(edits)) \subseteq {"reorder", "annotate"} =>
       /\ Binary /\ Last(edits) # "tear" => OneByteOff(message.data, origin)
       /\ Text => OneNameOff(message.data, origin)

\* The history before an edit, and its last entry.
LEMMA EditHistory ==
  ASSUME MessageInv, NEW kind \in EditKinds, NEW data, Edit(kind, data)
  PROVE  edits' # <<>> /\ Front(edits') = edits /\ Last(edits') = kind
<1>1. edits \in Seq(EditKinds)
  BY DEF MessageInv, History
<1>2. edits' = Append(edits, kind)
  BY DEF Edit
<1>3. Front(Append(edits, kind)) = edits /\ Last(Append(edits, kind)) = kind
  BY <1>1, AppendProperties DEF Front, Last
<1>. QED BY <1>1, <1>2, <1>3

\* A damaged frame.
LEMMA OneFrameEdited ==
  ASSUME MessageInv, OneInv, Binary, NEW kind \in {"overwrite", "tear"}, NEW data,
         Edit(kind, data),
         edits = <<>> /\ kind = "overwrite" => OneByteOff(data, origin)
  PROVE  OneInv'
<1>1. kind \in EditKinds
  BY DEF EditKinds
<1>2. /\ message'.data = data /\ origin' = origin /\ Binary' /\ ~Text'
      /\ ToSet(edits') = ToSet(edits) \cup {kind}
  BY <1>1, EditEffect, OneFormat DEF Binary, Text
<1>3. Front(edits') = edits /\ Last(edits') = kind
  BY <1>1, EditHistory
<1>4. ToSet(edits) \subseteq {"overwrite", "tear"}
  BY DEF OneInv
<1>5. ToSet(edits) \subseteq {"reorder", "annotate"} => edits = <<>>
  <2>1. edits \in Seq(EditKinds)
    BY DEF MessageInv, History
  <2>2. edits # <<>> => edits[1] \in ToSet(edits)
    BY <2>1 DEF ToSet
  <2>. QED BY <1>4, <2>2
<1>. QED BY <1>2, <1>3, <1>4, <1>5 DEF OneInv

\* An edited text.
LEMMA OneTextEdited ==
  ASSUME MessageInv, Text, NEW kind \in EditKinds, NEW data, Edit(kind, data),
         ToSet(edits) \subseteq {"reorder", "annotate"} => OneNameOff(data, origin)
  PROVE  OneInv'
<1>1. message'.data = data /\ origin' = origin /\ ~Binary'
  BY EditEffect, OneFormat
<1>2. Front(edits') = edits
  BY EditHistory
<1>. QED BY <1>1, <1>2 DEF OneInv

\* An edited text that other programs could have written.
LEMMA OneTextRewritten ==
  ASSUME MessageInv, MessageInv', Text, NEW kind \in {"reorder", "annotate"},
         NEW data, Edit(kind, data)
  PROVE  OneInv'
<1>1. kind \in EditKinds
  BY DEF EditKinds
<1>2. /\ message'.data = data /\ origin' = origin /\ Text'
      /\ ToSet(edits') = ToSet(edits) \cup {kind}
  BY <1>1, EditEffect
<1>3. ToSet(edits) \subseteq {"reorder", "annotate"} => OneNameOff(data, origin)
  <2>1. ToSet(edits) \subseteq {"reorder", "annotate"} =>
          data \in Seq(Token) /\ WellPlaced(data, origin)
    BY <1>2 DEF MessageInv, TextInv
  <2>. QED BY <2>1, WellPlacedReads
<1>. QED BY <1>1, <1>3, OneTextEdited

\* One lemma for each kind of edit.
LEMMA OneOverwrite ==
  ASSUME MessageInv, OneInv, NEW k \in 0..43, NEW b \in Overwrites, Overwrite(k, b)
  PROVE  OneInv'
<1>1. Binary /\ Edit("overwrite", [message.data EXCEPT ![k] = b])
  BY DEF Overwrite
<1>2. edits = <<>> => message.data = serialize_binary(origin)
  BY <1>1 DEF MessageInv, FrameInv
<1>3. b \in Byte
  BY InputAssumption
<1>4. edits = <<>> => OneByteOff([message.data EXCEPT ![k] = b], origin)
  BY <1>2, <1>3 DEF OneByteOff
<1>. QED BY <1>1, <1>4, OneFrameEdited

LEMMA OneTear ==
  ASSUME MessageInv, OneInv, NEW k \in 0..43, NEW st \in Exports, Tear(k, st)
  PROVE  OneInv'
BY OneFrameEdited DEF Tear

LEMMA OneLose ==
  ASSUME MessageInv, NEW i \in 1..45, Lose(i)
  PROVE  OneInv'
<1>1. /\ Text /\ message.data \in Seq(Token) /\ i <= Len(message.data)
      /\ Edit("lose", RemoveAt(message.data, i)) /\ "lose" \in EditKinds
  BY DEF Lose, MessageInv, TextInv, EditKinds
<1>2. ToSet(edits) \subseteq {"reorder", "annotate"} =>
        WellPlaced(message.data, origin)
  BY <1>1 DEF MessageInv, TextInv
<1>3. i \in 1 .. Len(message.data)
  BY <1>1
<1>4. ToSet(edits) \subseteq {"reorder", "annotate"} =>
        OneNameOff(RemoveAt(message.data, i), origin)
  BY <1>1, <1>2, <1>3, LoseOneOff, Zenon
<1>. QED BY <1>1, <1>4, OneTextEdited

LEMMA OneRewrite ==
  ASSUME MessageInv, NEW i \in 1..45, NEW v \in Numbers, Rewrite(i, v)
  PROVE  OneInv'
<1>1. /\ Text /\ message.data \in Seq(Token) /\ i <= Len(message.data)
      /\ message.data[i][1] = "number"
      /\ Edit("rewrite", ReplaceAt(message.data, i, Number(v)))
      /\ "rewrite" \in EditKinds
  BY DEF Rewrite, MessageInv, TextInv, EditKinds
<1>2. ToSet(edits) \subseteq {"reorder", "annotate"} =>
        WellPlaced(message.data, origin)
  BY <1>1 DEF MessageInv, TextInv
<1>3. i \in 1 .. Len(message.data) /\ v \in Uint32
  BY <1>1, InputAssumption
<1>4. ToSet(edits) \subseteq {"reorder", "annotate"} =>
        OneNameOff(ReplaceAt(message.data, i, Number(v)), origin)
  BY <1>1, <1>2, <1>3, RewriteOneOff, Zenon
<1>. QED BY <1>1, <1>4, OneTextEdited

LEMMA OneReorder ==
  ASSUME MessageInv, NEW k \in 1..11, NEW l \in 1..11, Reorder(k, l)
  PROVE  OneInv'
<1>1. Text /\ \E data : Edit("reorder", data)
  BY DEF Reorder
<1>. QED BY <1>1, ReorderInv, OneTextRewritten

LEMMA OneAnnotate ==
  ASSUME MessageInv, MessageInv', NEW t \in Notes,
         AddFirst("annotate", "note", t) \/ AddLast("annotate", "note", t)
  PROVE  OneInv'
<1>1. Text /\ \E data : Edit("annotate", data)
  BY DEF AddFirst, AddLast
<1>. QED BY <1>1, OneTextRewritten

LEMMA OneDuplicate ==
  ASSUME MessageInv, NEW v \in Numbers, NEW name \in JsonNames,
         \/ AddFirst("duplicate", name, Number(v))
         \/ AddLast("duplicate", name, Number(v))
  PROVE  OneInv'
<1>1. Text /\ message.data \in Seq(Token) /\ message.data # <<>>
  BY DEF AddFirst, AddLast, MessageInv, TextInv
<1>2. PICK json \in Seq(Token) : json = message.data
  BY <1>1
<1>3. PICK new :
        /\ \/ new = WithFirst(json, Quoted(name), Colon, Number(v), Comma)
           \/ new = WithLast(json, Quoted(name), Colon, Number(v), Comma)
        /\ Edit("duplicate", new)
  BY <1>2 DEF AddFirst, AddLast, EntryOf, WithFirst, WithLast
<1>4. ToSet(edits) \subseteq {"reorder", "annotate"} => WellPlaced(json, origin)
  BY <1>1, <1>2 DEF MessageInv, TextInv
<1>5. v \in Uint32 /\ "duplicate" \in EditKinds
  BY InputAssumption DEF EditKinds
<1>6. ToSet(edits) \subseteq {"reorder", "annotate"} => OneNameOff(new, origin)
  BY <1>1, <1>2, <1>3, <1>4, <1>5, DuplicateOneOff, Zenon
<1>. QED BY <1>1, <1>3, <1>5, <1>6, OneTextEdited

\* Every step keeps the invariant.
LEMMA OneNextInv ==
  ASSUME WordsOnly, MessageInv, OneInv, [Next]_vars
  PROVE  OneInv'
<1>1. ASSUME NEW st \in Exports, ExportBinary(st) \/ ExportJson(st)
      PROVE  OneInv'
  <2>1. edits' = <<>>
    BY <1>1 DEF ExportBinary, ExportJson, Send
  <2>. QED BY <2>1 DEF OneInv, ToSet
<1>2. ASSUME NEW k \in 0..43, \/ \E b \in Overwrites : Overwrite(k, b)
                              \/ \E st \in Exports : Tear(k, st)
      PROVE  OneInv'
  BY <1>2, OneOverwrite, OneTear
<1>3. ASSUME NEW i \in 1..45, Lose(i) \/ \E v \in Numbers : Rewrite(i, v)
      PROVE  OneInv'
  BY <1>3, OneLose, OneRewrite
<1>4. ASSUME NEW k \in 1..11, NEW l \in 1..11, Reorder(k, l)
      PROVE  OneInv'
  BY <1>4, OneReorder
<1>5. ASSUME NEW t \in Notes, \/ AddFirst("annotate", "note", t)
                              \/ AddLast("annotate", "note", t)
      PROVE  OneInv'
  BY <1>5, NextInv, OneAnnotate
<1>6. ASSUME NEW v \in Numbers, NEW name \in JsonNames,
             \/ AddFirst("duplicate", name, Number(v))
             \/ AddLast("duplicate", name, Number(v))
      PROVE  OneInv'
  BY <1>6, OneDuplicate
<1>7. CASE Import
  BY <1>7 DEF Import, OneInv, Binary, Text
<1>8. CASE UNCHANGED vars
  BY <1>8 DEF vars, OneInv, Binary, Text
<1>. QED BY <1>1, <1>2, <1>3, <1>4, <1>5, <1>6, <1>7, <1>8 DEF Next

\* What the deserializers answer to a message with one edit.
LEMMA OneEditAnswer ==
  ASSUME WordsOnly, DetectsOneWord, MessageInv, OneInv
  PROVE  OneEditHarmless
<1>. SUFFICES ASSUME edits # <<>>, Last(edits) # "tear", answer # NoAnswer,
                     ToSet(Front(edits)) \subseteq {"reorder", "annotate"}
              PROVE  answer \in {Refused, Accepted(origin)}
  BY DEF OneEditHarmless
<1>1. origin \in State
  BY InputAssumption DEF MessageInv, History
<1>2. CASE Binary
  <2>1. answer = deserialize_binary(message.data) /\ message.data \in Frame
    BY <1>2 DEF MessageInv, Current, FrameInv
  <2>2. OneByteOff(message.data, origin)
    BY <1>2 DEF OneInv
  <2>. QED BY <1>1, <2>1, <2>2, OneByteRefused DEF OneByteOff
<1>3. CASE ~Binary
  <2>1. Text
    BY <1>3 DEF MessageInv, Current, Binary, Text
  <2>2. answer = deserialize_json(message.data) /\ message.data \in Seq(Token)
    BY <1>3, <2>1 DEF MessageInv, Current, TextInv
  <2>3. OneNameOff(message.data, origin)
    BY <2>1 DEF OneInv
  <2>. QED BY <1>1, <2>2, <2>3, OneNameRefused
<1>. QED BY <1>2, <1>3

\* deserialize_binary() refuses every frame with one damaged byte, and
\* deserialize_json() every text with one lost token, rewritten number or
\* repeated entry, whatever other programs rightly did to it before, unless it
\* still reads the State that was exported.
THEOREM OneEditCorrect ==
  ASSUME WordsOnly, DetectsOneWord
  PROVE  Spec => []OneEditHarmless
<1>1. Init => OneInv
  BY DEF Init, OneInv, ToSet
<1>. QED BY <1>1, InitInv, NextInv, OneNextInv, OneEditAnswer, PTL DEF Spec

-----------------------------------------------------------------------------
(* crc32().  What it detects, for buffers of every length: the bit that    *)
(* leaves a register in a turn shows in the highest bit after it, so turns *)
(* can be undone.  Bits 8h .. 31 after a byte tell what was mixed into the *)
(* lowest byte, and bits 8h + 8 .. 31 before it.  Going back byte by byte, *)
(* a register tells the last four bytes it took.                           *)

\* A register.
Reg == SUBSET (0 .. 31)

\* A turn of a register gives a register.
LEMMA ShiftedType == ASSUME NEW c \in Reg PROVE Shifted(c) \in Reg
BY DEF Reg, Shifted, SymDiff, POLYNOMIAL

\* The loop of eight turns, unfolded.
LEMMA TurnsUnfold ==
  ASSUME NEW crc \in Reg
  PROVE  /\ Turns(crc) \in [0 .. 8 -> Reg]
         /\ Turns(crc)[0] = crc
         /\ \A j \in 1 .. 8 : Turns(crc)[j] = Shifted(Turns(crc)[j - 1])
<1>. DEFINE next == [jc \in (1 .. 8) \X Reg |-> Shifted(jc[2])]
<1>1. next \in [(1 .. 8) \X Reg -> Reg]
  BY ShiftedType
<1>. HIDE DEF next
<1>2. PICK f \in [0 .. 8 -> Reg] : /\ f[0] = crc
            /\ \A k \in 1 .. 8 : f[k] = next[<<k, f[k - 1]>>]
  <2>1. 8 \in Nat
    OBVIOUS
  <2>2. Runs(Reg, crc, 8, next)
    BY <1>1, <2>1, Recursion, Zenon
  <2>. QED BY <2>2 DEF Runs
<1>3. \A k \in 1 .. 8 : f[k] = Shifted(f[k - 1])
  <2>1. ASSUME NEW k \in 1 .. 8 PROVE f[k] = Shifted(f[k - 1])
     <3>1. <<k, f[k - 1]>> \in (1 .. 8) \X Reg
       OBVIOUS
     <3>2. next[<<k, f[k - 1]>>] = Shifted(f[k - 1])
       BY <3>1 DEF next
     <3>. QED BY <3>2, <1>2
  <2>. QED BY <2>1
<1>4. f = [j \in 0..8 |-> IF j = 0 THEN crc ELSE Shifted(f[j - 1])]
  BY <1>2, <1>3
<1>5. Turns(crc) = [j \in 0..8 |-> IF j = 0 THEN crc ELSE Shifted(Turns(crc)[j - 1])]
  BY <1>4, Zenon DEF Turns
<1>. DEFINE t == Turns(crc)
            Typed == {j \in Nat : j <= 8 => t[j] \in Reg}
<1>6. t[0] = crc /\ \A j \in 1 .. 8 : t[j] = Shifted(t[j - 1])
  BY <1>5
<1>. HIDE DEF t
<1>7. 0 \in Typed /\ \A j \in Nat : j \in Typed => j + 1 \in Typed
  <2>1. ASSUME NEW j \in Nat, j \in Typed, j + 1 <= 8
        PROVE  t[j + 1] \in Reg
    <3>1. t[j + 1] = Shifted(t[j]) /\ t[j] \in Reg
      BY <2>1, <1>6
    <3>. QED BY <3>1, ShiftedType
  <2>. QED BY <2>1, <1>6
<1>8. \A j \in 0 .. 8 : t[j] \in Reg
  <2>. HIDE DEF Typed
  <2>1. Nat \subseteq Typed
    BY <1>7, Induction
  <2>. QED BY <2>1 DEF Typed
<1>9. t = [j \in 0..8 |-> t[j]]
  BY <1>5 DEF t
<1>. QED BY <1>6, <1>8, <1>9 DEF t

-----------------------------------------------------------------------------
(* Bytes and their bits.                                                   *)

\* The places of the lowest byte of a register.
Low == 0 .. 7

\* A byte is its eight bits.
LEMMA OctetBits ==
  /\ \A byte \in Octet : BitsOf(byte) \in SUBSET Low
  /\ \A bits \in SUBSET Low : \E byte \in Octet : BitsOf(byte) = bits
  /\ \A a, b \in Octet : BitsOf(a) = BitsOf(b) => a = b
<1>1. /\ PowersOfTwo[1] = 1 /\ PowersOfTwo[2] = 2 /\ PowersOfTwo[3] = 4
      /\ PowersOfTwo[4] = 8 /\ PowersOfTwo[5] = 16 /\ PowersOfTwo[6] = 32
      /\ PowersOfTwo[7] = 64 /\ PowersOfTwo[8] = 128
  BY DEF PowersOfTwo
<1>2. ASSUME NEW byte
      PROVE  /\ 0 \in BitsOf(byte) <=> (byte \div 1) % 2 = 1
             /\ 1 \in BitsOf(byte) <=> (byte \div 2) % 2 = 1
             /\ 2 \in BitsOf(byte) <=> (byte \div 4) % 2 = 1
             /\ 3 \in BitsOf(byte) <=> (byte \div 8) % 2 = 1
             /\ 4 \in BitsOf(byte) <=> (byte \div 16) % 2 = 1
             /\ 5 \in BitsOf(byte) <=> (byte \div 32) % 2 = 1
             /\ 6 \in BitsOf(byte) <=> (byte \div 64) % 2 = 1
             /\ 7 \in BitsOf(byte) <=> (byte \div 128) % 2 = 1
  BY <1>1 DEF BitsOf
<1>3. \A byte : BitsOf(byte) \in SUBSET Low
  BY DEF BitsOf, Low
<1>4. ASSUME NEW bits \in SUBSET Low
      PROVE  \E byte \in Octet : BitsOf(byte) = bits
  <2>. DEFINE b(i) == IF i \in bits THEN 1 ELSE 0
              byte == b(0) + 2 * b(1) + 4 * b(2) + 8 * b(3) + 16 * b(4) + 32 * b(5)
                        + 64 * b(6) + 128 * b(7)
  <2>1. \A i : b(i) \in {0, 1} /\ (b(i) = 1 <=> i \in bits)
    OBVIOUS
  <2>. HIDE DEF b
  <2>2. byte \in Octet
    BY <2>1 DEF Octet
  <2>3. /\ (byte \div 1) % 2 = b(0) /\ (byte \div 2) % 2 = b(1)
        /\ (byte \div 4) % 2 = b(2) /\ (byte \div 8) % 2 = b(3)
        /\ (byte \div 16) % 2 = b(4) /\ (byte \div 32) % 2 = b(5)
        /\ (byte \div 64) % 2 = b(6) /\ (byte \div 128) % 2 = b(7)
    BY <2>1
  <2>. HIDE DEF byte
  <2>4. \A i \in Low : i \in BitsOf(byte) <=> i \in bits
    BY <2>1, <2>3, <1>2 DEF Low
  <2>5. BitsOf(byte) = bits
    BY <2>4, <1>3
  <2>. QED BY <2>2, <2>5, Zenon
<1>5. ASSUME NEW a \in Octet, NEW b \in Octet, BitsOf(a) = BitsOf(b)
      PROVE  a = b
  <2>1. ASSUME NEW n \in Octet
        PROVE  n = ((n \div 1) % 2) + 2 * ((n \div 2) % 2) + 4 * ((n \div 4) % 2)
                     + 8 * ((n \div 8) % 2) + 16 * ((n \div 16) % 2)
                     + 32 * ((n \div 32) % 2) + 64 * ((n \div 64) % 2)
                     + 128 * ((n \div 128) % 2)
    BY DEF Octet
  <2>2. /\ (a \div 1) % 2 = (b \div 1) % 2 /\ (a \div 2) % 2 = (b \div 2) % 2
        /\ (a \div 4) % 2 = (b \div 4) % 2 /\ (a \div 8) % 2 = (b \div 8) % 2
        /\ (a \div 16) % 2 = (b \div 16) % 2 /\ (a \div 32) % 2 = (b \div 32) % 2
        /\ (a \div 64) % 2 = (b \div 64) % 2
        /\ (a \div 128) % 2 = (b \div 128) % 2
    <3>1. ASSUME NEW n \in Octet, NEW k \in {1, 2, 4, 8, 16, 32, 64, 128}
          PROVE  (n \div k) % 2 = 0 \/ (n \div k) % 2 = 1
      BY DEF Octet
    <3>. QED BY <3>1, <1>2, <1>5
  <2>. QED BY <2>1, <2>2
<1>. QED BY <1>3, <1>4, <1>5

\* Every set of eight bits is a byte, and only one.
LEMMA OctetOfBits ==
  ASSUME NEW bits \in SUBSET Low
  PROVE  OctetOf[bits] \in Octet /\ BitsOf(OctetOf[bits]) = bits
BY OctetBits DEF OctetOf, Low

-----------------------------------------------------------------------------
(* Turns.                                                                  *)

\* Two registers have the same bits in some places.
Agree(c, d, places) == \A i \in places : i \in c <=> i \in d

\* The bits of a register after a turn.
LEMMA ShiftedBit ==
  ASSUME NEW c \in Reg, NEW i \in 0 .. 31
  PROVE  i \in Shifted(c) <=> ~(i + 1 \in c <=> 0 \in c /\ i \in POLYNOMIAL)
<1>1. i \in {k - 1 : k \in c \ {0}} <=> i + 1 \in c
  BY DEF Reg
<1>. QED BY <1>1 DEF Shifted, SymDiff

\* The highest bit of the polynomial tells which bit was shifted out.
LEMMA TurnBack ==
  ASSUME NEW c \in Reg, NEW d \in Reg, NEW m \in 0 .. 7,
         Agree(Shifted(c), Shifted(d), (0 .. m - 1) \cup (24 + m .. 31))
  PROVE  Agree(c, d, (0 .. m) \cup (25 + m .. 31))
<1>1. 31 \in POLYNOMIAL /\ 32 \notin c /\ 32 \notin d
  BY DEF POLYNOMIAL, Reg
<1>2. 0 \in c <=> 0 \in d
  <2>1. 31 \in Shifted(c) <=> 31 \in Shifted(d)
    BY DEF Agree
  <2>. QED BY <1>1, <2>1, ShiftedBit
<1>3. ASSUME NEW i \in 0 .. 30, i \in Shifted(c) <=> i \in Shifted(d)
      PROVE  i + 1 \in c <=> i + 1 \in d
  BY <1>2, <1>3, ShiftedBit
<1>4. ASSUME NEW i \in (0 .. m) \cup (25 + m .. 31), i # 0
      PROVE  i \in c <=> i \in d
  <2>1. i - 1 \in 0 .. 30 /\ i - 1 \in (0 .. m - 1) \cup (24 + m .. 31)
        /\ (i - 1) + 1 = i
    BY <1>4
  <2>. QED BY <1>3, <2>1 DEF Agree
<1>. QED BY <1>2, <1>4 DEF Agree

\* The eight turns of a lowest byte.
LEMMA TurnedUnfold ==
  ASSUME NEW low \in SUBSET Low
  PROVE  low \in Reg /\ Turned[low] = Turns(low)[8] /\ Turned[low] \in Reg
<1>1. low \in Reg /\ Turned[low] = Turns(low)[8]
  BY DEF Turned, Reg, Low
<1>. QED BY <1>1, TurnsUnfold

\* Eight turns lose nothing: the highest eight bits say what was shifted out.
LEMMA TurnsBack ==
  ASSUME NEW a \in SUBSET Low, NEW b \in SUBSET Low,
         Agree(Turned[a], Turned[b], 24 .. 31)
  PROVE  a = b
<1>. DEFINE ta == Turns(a)
            tb == Turns(b)
            Back == {m \in Nat : m <= 8 =>
                       Agree(ta[8 - m], tb[8 - m], (0 .. m - 1) \cup (24 + m .. 31))}
<1>1. /\ ta \in [0 .. 8 -> Reg] /\ ta[0] = a /\ ta[8] = Turned[a]
      /\ \A j \in 1 .. 8 : ta[j] = Shifted(ta[j - 1])
      /\ tb \in [0 .. 8 -> Reg] /\ tb[0] = b /\ tb[8] = Turned[b]
      /\ \A j \in 1 .. 8 : tb[j] = Shifted(tb[j - 1])
  BY TurnedUnfold, TurnsUnfold
<1>. HIDE DEF ta, tb
<1>2. 0 \in Back
  BY <1>1 DEF Agree
<1>3. ASSUME NEW m \in Nat, m \in Back
      PROVE  m + 1 \in Back
  <2>. SUFFICES ASSUME m + 1 <= 8
                PROVE  Agree(ta[8 - (m + 1)], tb[8 - (m + 1)],
                             (0 .. (m + 1) - 1) \cup (24 + (m + 1) .. 31))
    OBVIOUS
  <2>1. Agree(ta[8 - m], tb[8 - m], (0 .. m - 1) \cup (24 + m .. 31))
    BY <1>3
  <2>2. /\ 8 - m \in 1 .. 8 /\ (8 - m) - 1 = 7 - m /\ 7 - m \in 0 .. 8
        /\ 8 - (m + 1) = 7 - m /\ m \in 0 .. 7
        /\ (m + 1) - 1 = m /\ 24 + (m + 1) = 25 + m
    OBVIOUS
  <2>3. /\ ta[8 - m] = Shifted(ta[7 - m]) /\ ta[7 - m] \in Reg
        /\ tb[8 - m] = Shifted(tb[7 - m]) /\ tb[7 - m] \in Reg
    BY <1>1, <2>2
  <2>4. Agree(ta[7 - m], tb[7 - m], (0 .. m) \cup (25 + m .. 31))
    BY <2>1, <2>2, <2>3, TurnBack
  <2>. QED BY <2>2, <2>4
<1>4. 8 \in Back
  <2>. HIDE DEF Back
  <2>. QED BY <1>2, <1>3, Induction
<1>5. Agree(a, b, Low)
  BY <1>1, <1>4 DEF Agree, Low
<1>. QED BY <1>5 DEF Agree

-----------------------------------------------------------------------------
(* One byte.                                                               *)

\* crc ^= byte
Mixed(crc, byte) == SymDiff(crc, BitsOf(byte))

\* The bits of crc ^ byte.
LEMMA MixedBit ==
  ASSUME NEW crc \in Reg, NEW byte \in Octet
  PROVE  /\ Mixed(crc, byte) \in Reg
         /\ \A i \in 8 .. 31 : i \in Mixed(crc, byte) <=> i \in crc
         /\ \A i \in Low :
              i \in Mixed(crc, byte) <=> ~(i \in crc <=> i \in BitsOf(byte))
<1>1. BitsOf(byte) \in SUBSET Low
  BY OctetBits
<1>2. \A i : i \in Mixed(crc, byte) <=> ~(i \in crc <=> i \in BitsOf(byte))
  BY DEF Mixed, SymDiff
<1>3. \A i \in BitsOf(byte) : i \in Low /\ i \in 0 .. 31
  BY <1>1 DEF Low
<1>4. \A i \in 8 .. 31 : i \notin BitsOf(byte)
  BY <1>1 DEF Low
<1>. QED BY <1>2, <1>3, <1>4 DEF Reg

\* The bits of a register after a byte.
LEMMA TakenBit ==
  ASSUME NEW crc \in Reg, NEW byte \in Octet
  PROVE  /\ Taken(crc, byte) \in Reg
         /\ \A i \in 0 .. 31 :
              i \in Taken(crc, byte) <=>
                ~(i + 8 \in Mixed(crc, byte)
                    <=> i \in Turned[Mixed(crc, byte) \cap Low])
<1>. DEFINE mixed == Mixed(crc, byte)
            high == {i - 8 : i \in mixed \ Low}
            turned == Turned[mixed \cap Low]
<1>1. mixed \in Reg
  BY MixedBit
<1>. HIDE DEF mixed
<1>2. turned \in Reg
  BY TurnedUnfold
<1>. HIDE DEF turned
<1>3. high \in Reg /\ \A i \in 0 .. 31 : i \in high <=> i + 8 \in mixed
  <2>1. \A k \in mixed : k \in 0 .. 31
    BY <1>1 DEF Reg
  <2>2. high \in Reg
    BY <2>1 DEF Reg, Low
  <2>3. ASSUME NEW i \in 0 .. 31
        PROVE  i \in high <=> i + 8 \in mixed
    <3>1. ASSUME NEW k \in mixed \ Low, i = k - 8
          PROVE  i + 8 = k
      BY <2>1, <3>1
    <3>2. (i + 8) - 8 = i /\ i + 8 \notin Low
      BY DEF Low
    <3>. QED BY <3>1, <3>2
  <2>. QED BY <2>2, <2>3
<1>4. Taken(crc, byte) = SymDiff(high, turned)
  BY DEF Taken, mixed, Mixed, turned, Low
<1>. HIDE DEF high
<1>. QED BY <1>2, <1>3, <1>4 DEF SymDiff, Reg, mixed, turned

\* What the upper bits of a register tell of the register before a byte.
LEMMA TakenBack ==
  ASSUME NEW c \in Reg, NEW d \in Reg, NEW b \in Octet, NEW e \in Octet,
         NEW h \in 0 .. 3, Agree(Taken(c, b), Taken(d, e), 8 * h .. 31)
  PROVE  /\ Agree(Mixed(c, b), Mixed(d, e), Low)
         /\ Agree(c, d, 8 * h + 8 .. 31)
<1>. DEFINE x == Mixed(c, b)
            y == Mixed(d, e)
<1>1. /\ x \in Reg /\ \A i \in 8 .. 31 : i \in x <=> i \in c
      /\ y \in Reg /\ \A i \in 8 .. 31 : i \in y <=> i \in d
  BY MixedBit
<1>2. /\ \A i \in 0 .. 31 :
           i \in Taken(c, b) <=> ~(i + 8 \in x <=> i \in Turned[x \cap Low])
      /\ \A i \in 0 .. 31 :
           i \in Taken(d, e) <=> ~(i + 8 \in y <=> i \in Turned[y \cap Low])
  BY TakenBit
<1>. HIDE DEF x, y
<1>3. x \cap Low = y \cap Low
  <2>1. ASSUME NEW i \in 24 .. 31
        PROVE  i \in Turned[x \cap Low] <=> i \in Turned[y \cap Low]
    <3>1. i + 8 \notin x /\ i + 8 \notin y
      <4>1. i + 8 \notin 0 .. 31
        OBVIOUS
      <4>2. \A k \in x \cup y : k \in 0 .. 31
        BY <1>1, Zenon DEF Reg
      <4>. QED BY <4>1, <4>2, Zenon
    <3>2. i \in 0 .. 31 /\ i \in 8 * h .. 31
      <4>1. 8 * h <= 24
        OBVIOUS
      <4>. QED BY <4>1
    <3>3. i \in Taken(c, b) <=> i \in Taken(d, e)
      BY <3>2 DEF Agree
    <3>. QED BY <1>2, <3>1, <3>2, <3>3
  <2>. QED BY <2>1, TurnsBack DEF Agree
<1>4. ASSUME NEW i \in 8 * h + 8 .. 31
      PROVE  i \in c <=> i \in d
  <2>1. i - 8 \in 8 * h .. 31 /\ i - 8 \in 0 .. 31 /\ (i - 8) + 8 = i /\ i \in 8 .. 31
    BY <1>4
  <2>2. i \in x <=> i \in y
    BY <1>2, <1>3, <2>1 DEF Agree
  <2>. QED BY <1>1, <2>1, <2>2
<1>. QED BY <1>3, <1>4 DEF Agree, x, y

\* What mixes with the same lowest bits to the same is the same byte.
LEMMA SameByte ==
  ASSUME NEW c \in Reg, NEW d \in Reg, NEW b \in Octet, NEW e \in Octet,
         Agree(Mixed(c, b), Mixed(d, e), Low), Agree(c, d, Low)
  PROVE  b = e
<1>1. Agree(BitsOf(b), BitsOf(e), Low)
  BY MixedBit DEF Agree
<1>. QED BY <1>1, OctetBits DEF Agree

\* A byte leaves different registers different.
LEMMA TakenApart ==
  ASSUME NEW c \in Reg, NEW d \in Reg, NEW b \in Octet, Taken(c, b) = Taken(d, b)
  PROVE  c = d
<1>1. Agree(Taken(c, b), Taken(d, b), 8 * 0 .. 31)
  BY DEF Agree
<1>2. /\ Agree(Mixed(c, b), Mixed(d, b), Low)
      /\ Agree(c, d, 8 * 0 + 8 .. 31)
  BY <1>1, TakenBack
<1>3. Agree(c, d, Low)
  BY <1>2, MixedBit DEF Agree
<1>4. \A i \in 0 .. 31 : i \in c <=> i \in d
  BY <1>2, <1>3 DEF Agree, Low
<1>. QED BY <1>4 DEF Reg

\* Nor can the four bytes be changed that follow a register.
LEMMA FourApart ==
  ASSUME NEW r \in Reg,
         NEW b \in [1 .. 4 -> Octet], NEW e \in [1 .. 4 -> Octet],
         Taken(Taken(Taken(Taken(r, b[1]), b[2]), b[3]), b[4])
           = Taken(Taken(Taken(Taken(r, e[1]), e[2]), e[3]), e[4])
  PROVE  b = e
<1>. DEFINE c1 == Taken(r, b[1])
            c2 == Taken(c1, b[2])
            c3 == Taken(c2, b[3])
            d1 == Taken(r, e[1])
            d2 == Taken(d1, e[2])
            d3 == Taken(d2, e[3])
<1>1. /\ b[1] \in Octet /\ b[2] \in Octet /\ b[3] \in Octet /\ b[4] \in Octet
      /\ e[1] \in Octet /\ e[2] \in Octet /\ e[3] \in Octet /\ e[4] \in Octet
  OBVIOUS
<1>2. c1 \in Reg /\ d1 \in Reg
  BY <1>1, TakenBit
<1>3. c2 \in Reg /\ d2 \in Reg
  BY <1>1, <1>2, TakenBit
<1>4. c3 \in Reg /\ d3 \in Reg
  BY <1>1, <1>3, TakenBit
<1>5. Agree(Taken(c3, b[4]), Taken(d3, e[4]), 8 * 0 .. 31)
  BY DEF Agree
<1>6. /\ Agree(Mixed(c3, b[4]), Mixed(d3, e[4]), Low)
      /\ Agree(c3, d3, 8 * 1 .. 31)
  <2>. HIDE DEF c3, d3
  <2>. QED BY <1>1, <1>4, <1>5, TakenBack
<1>7. /\ Agree(Mixed(c2, b[3]), Mixed(d2, e[3]), Low)
      /\ Agree(c2, d2, 8 * 2 .. 31)
  <2>. HIDE DEF c2, d2
  <2>. QED BY <1>1, <1>3, <1>6, TakenBack
<1>8. /\ Agree(Mixed(c1, b[2]), Mixed(d1, e[2]), Low)
      /\ Agree(c1, d1, 8 * 3 .. 31)
  <2>. HIDE DEF c1, d1
  <2>. QED BY <1>1, <1>2, <1>7, TakenBack
<1>9. Agree(Mixed(r, b[1]), Mixed(r, e[1]), Low)
  BY <1>1, <1>8, TakenBack
<1>10. b[1] = e[1]
  BY <1>1, <1>9, SameByte DEF Agree
<1>11. b[2] = e[2]
  <2>1. c1 = d1
    BY <1>10
  <2>. HIDE DEF c1, d1
  <2>. QED BY <1>1, <1>2, <1>8, <2>1, SameByte DEF Agree
<1>12. b[3] = e[3]
  <2>1. c2 = d2
    BY <1>10, <1>11
  <2>. HIDE DEF c2, d2
  <2>. QED BY <1>1, <1>3, <1>7, <2>1, SameByte DEF Agree
<1>13. b[4] = e[4]
  <2>1. c3 = d3
    BY <1>10, <1>11, <1>12
  <2>. HIDE DEF c3, d3
  <2>. QED BY <1>1, <1>4, <1>6, <2>1, SameByte DEF Agree
<1>. QED BY <1>10, <1>11, <1>12, <1>13

\* A register whose upper 24 bits have moved j places, and the rest.
SplitAt(c, t, s, j) ==
  \A i \in 0 .. 31 : i \in t <=> ~(i + j \in c \ Low <=> i \in s)

\* A turn moves the upper bits one place on.
LEMMA SplitTurn ==
  ASSUME NEW c \in Reg, NEW t \in Reg, NEW s \in Reg, NEW j \in 0 .. 7,
         SplitAt(c, t, s, j)
  PROVE  SplitAt(c, Shifted(t), Shifted(s), j + 1)
<1>1. 0 \in t <=> 0 \in s
  <2>1. 0 + j \notin c \ Low
    BY DEF Low
  <2>. QED BY <2>1 DEF SplitAt
<1>2. ASSUME NEW i \in 0 .. 31
      PROVE  i + 1 \in t <=> ~(i + (j + 1) \in c \ Low <=> i + 1 \in s)
  <2>1. CASE i = 31
    <3>1. i + 1 \notin t /\ i + 1 \notin s /\ i + (j + 1) \notin c
      BY <2>1 DEF Reg
    <3>. QED BY <3>1
  <2>2. CASE i # 31
    <3>1. i + 1 \in 0 .. 31 /\ (i + 1) + j = i + (j + 1)
      BY <2>2
    <3>. QED BY <3>1 DEF SplitAt
  <2>. QED BY <2>1, <2>2
<1>3. ASSUME NEW i \in 0 .. 31
      PROVE  i \in Shifted(t) <=> ~(i + (j + 1) \in c \ Low <=> i \in Shifted(s))
  <2>1. /\ i \in Shifted(t) <=> ~(i + 1 \in t <=> 0 \in t /\ i \in POLYNOMIAL)
        /\ i \in Shifted(s) <=> ~(i + 1 \in s <=> 0 \in s /\ i \in POLYNOMIAL)
    BY ShiftedBit
  <2>. QED BY <1>1, <1>2, <2>1
<1>. QED BY <1>3 DEF SplitAt

\* The inner loop of crc32() is eight turns of the whole register: that Taken
\* turns the lowest byte only and moves the others down loses nothing.
THEOREM TakenIsEightTurns ==
  ASSUME NEW crc \in Reg, NEW byte \in Octet
  PROVE  Taken(crc, byte) = Turns(SymDiff(crc, BitsOf(byte)))[8]
<1>. DEFINE c == Mixed(crc, byte)
            t == Turns(c)
            s == Turns(c \cap Low)
            Split == {j \in Nat : j <= 8 => SplitAt(c, t[j], s[j], j)}
<1>1. c \in Reg /\ c \cap Low \in SUBSET Low /\ c \cap Low \in Reg
  BY MixedBit DEF Reg
<1>2. \A i \in 0 .. 31 : i \in Taken(crc, byte) <=> ~(i + 8 \in c <=> i \in s[8])
  BY <1>1, TakenBit, TurnedUnfold
<1>3. Taken(crc, byte) \in Reg
  BY TakenBit
<1>. HIDE DEF c
<1>4. /\ t \in [0 .. 8 -> Reg] /\ t[0] = c
      /\ \A j \in 1 .. 8 : t[j] = Shifted(t[j - 1])
      /\ s \in [0 .. 8 -> Reg] /\ s[0] = c \cap Low
      /\ \A j \in 1 .. 8 : s[j] = Shifted(s[j - 1])
  BY <1>1, TurnsUnfold
<1>. HIDE DEF t, s
<1>5. 0 \in Split
  BY <1>4 DEF SplitAt
<1>6. ASSUME NEW j \in Nat, j \in Split
      PROVE  j + 1 \in Split
  <2>. SUFFICES ASSUME j + 1 <= 8
                PROVE  SplitAt(c, t[j + 1], s[j + 1], j + 1)
    OBVIOUS
  <2>1. /\ j \in 0 .. 7 /\ j \in 0 .. 8 /\ j + 1 \in 1 .. 8 /\ (j + 1) - 1 = j
    OBVIOUS
  <2>2. /\ t[j] \in Reg /\ s[j] \in Reg
        /\ t[j + 1] = Shifted(t[j]) /\ s[j + 1] = Shifted(s[j])
    BY <1>4, <2>1
  <2>3. SplitAt(c, t[j], s[j], j)
    BY <1>6
  <2>4. SplitAt(c, Shifted(t[j]), Shifted(s[j]), j + 1)
    BY <1>1, <2>1, <2>2, <2>3, SplitTurn, Zenon
  <2>. QED BY <2>2, <2>4
<1>7. 8 \in Split
  <2>. HIDE DEF Split
  <2>. QED BY <1>5, <1>6, Induction
<1>8. \A i \in 0 .. 31 : i \in t[8] <=> ~(i + 8 \in c \ Low <=> i \in s[8])
  BY <1>7 DEF SplitAt
<1>9. \A i \in 0 .. 31 : i + 8 \in c \ Low <=> i + 8 \in c
  BY DEF Low
<1>10. t[8] \in Reg
  BY <1>4
<1>11. t[8] = Taken(crc, byte)
  BY <1>2, <1>3, <1>8, <1>9, <1>10 DEF Reg
<1>. QED BY <1>11 DEF t, c, Mixed

-----------------------------------------------------------------------------
(* All bytes of a buffer.                                                  *)

\* The register after each byte.
LEMMA RegistersUnfold ==
  ASSUME NEW n \in Nat, NEW data \in [1 .. n -> Octet]
  PROVE  /\ Len(data) = n
         /\ Registers(data)[0] = 0 .. 31
         /\ \A k \in 0 .. n : Registers(data)[k] \in Reg
         /\ \A k \in 1 .. n :
              Registers(data)[k] = Taken(Registers(data)[k - 1], data[k])
<1>0. Len(data) = n
  OBVIOUS
<1>. DEFINE next == [kc \in (1 .. n) \X Reg |-> Taken(kc[2], data[kc[1]])]
<1>1. next \in [(1 .. n) \X Reg -> Reg]
  BY TakenBit
<1>2. 0 .. 31 \in Reg
  BY DEF Reg
<1>. HIDE DEF next
<1>3. PICK f \in [0 .. n -> Reg] :
        /\ f[0] = 0 .. 31
        /\ \A k \in 1 .. n : f[k] = next[<<k, f[k - 1]>>]
  <2>1. Runs(Reg, 0 .. 31, n, next)
    BY <1>1, <1>2, Recursion, Zenon
  <2>. QED BY <2>1 DEF Runs
<1>4. ASSUME NEW k \in 1 .. n
      PROVE  f[k] = Taken(f[k - 1], data[k])
  <2>1. <<k, f[k - 1]>> \in (1 .. n) \X Reg
    OBVIOUS
  <2>2. next[<<k, f[k - 1]>>] = Taken(f[k - 1], data[k])
    BY <2>1 DEF next
  <2>. QED BY <1>3, <2>2
<1>5. f = [k \in 0 .. Len(data) |-> IF k = 0 THEN 0 .. 31 ELSE Taken(f[k - 1], data[k])]
  BY <1>0, <1>3, <1>4
<1>. DEFINE reg == Registers(data)
            Typed == {k \in Nat : k <= n => reg[k] \in Reg}
<1>6. reg = [k \in 0 .. Len(data) |-> IF k = 0 THEN 0 .. 31
                                     ELSE Taken(reg[k - 1], data[k])]
  BY <1>5, Zenon DEF Registers
<1>. HIDE DEF reg
<1>7. reg[0] = 0 .. 31 /\ \A k \in 1 .. n : reg[k] = Taken(reg[k - 1], data[k])
  <2>1. 0 \in 0 .. n /\ \A k \in 1 .. n : k \in 0 .. n /\ k # 0
    OBVIOUS
  <2>. QED BY <1>0, <1>6, <2>1, Zenon
<1>8. 0 \in Typed
  BY <1>2, <1>7
<1>9. ASSUME NEW k \in Nat, k \in Typed
      PROVE  k + 1 \in Typed
  <2>. SUFFICES ASSUME k + 1 <= n PROVE reg[k + 1] \in Reg
    OBVIOUS
  <2>1. /\ k + 1 \in 1 .. n /\ (k + 1) - 1 = k
        /\ reg[k] \in Reg /\ data[k + 1] \in Octet
    BY <1>9
  <2>2. reg[k + 1] = Taken(reg[k], data[k + 1])
    BY <1>7, <2>1
  <2>. QED BY <2>1, <2>2, TakenBit
<1>10. \A k \in 0 .. n : reg[k] \in Reg
  <2>. HIDE DEF Typed
  <2>1. Nat \subseteq Typed
    BY <1>8, <1>9, Induction
  <2>. QED BY <2>1 DEF Typed
<1>. QED BY <1>0, <1>7, <1>10 DEF reg

\* As long as the bytes are the same, so are the registers ...
LEMMA SameBefore ==
  ASSUME NEW n \in Nat, NEW a \in [1 .. n -> Octet], NEW b \in [1 .. n -> Octet],
         NEW p \in 0 .. n, \A k \in 1 .. p : a[k] = b[k]
  PROVE  Registers(a)[p] = Registers(b)[p]
<1>. DEFINE Same == {k \in Nat : k <= p => Registers(a)[k] = Registers(b)[k]}
<1>1. 0 \in Same
  BY RegistersUnfold
<1>2. ASSUME NEW k \in Nat, k \in Same
      PROVE  k + 1 \in Same
  <2>. SUFFICES ASSUME k + 1 <= p PROVE Registers(a)[k + 1] = Registers(b)[k + 1]
    OBVIOUS
  <2>1. /\ k + 1 \in 1 .. n /\ (k + 1) - 1 = k /\ k + 1 \in 1 .. p
        /\ Registers(a)[k] = Registers(b)[k] /\ a[k + 1] = b[k + 1]
    BY <1>2
  <2>2. /\ Registers(a)[k + 1] = Taken(Registers(a)[(k + 1) - 1], a[k + 1])
        /\ Registers(b)[k + 1] = Taken(Registers(b)[(k + 1) - 1], b[k + 1])
    BY <2>1, RegistersUnfold, Zenon
  <2>. QED BY <2>1, <2>2
<1>3. Nat \subseteq Same
  <2>. HIDE DEF Same
  <2>. QED BY <1>1, <1>2, Induction
<1>. QED BY <1>3

\* ... and where they end up the same, they were the same.
LEMMA SameBehind ==
  ASSUME NEW n \in Nat, NEW a \in [1 .. n -> Octet], NEW b \in [1 .. n -> Octet],
         NEW p \in 0 .. n, \A k \in p + 1 .. n : a[k] = b[k],
         Registers(a)[n] = Registers(b)[n]
  PROVE  Registers(a)[p] = Registers(b)[p]
<1>. DEFINE Same == {k \in Nat : k <= n - p =>
                       Registers(a)[n - k] = Registers(b)[n - k]}
<1>1. 0 \in Same
  OBVIOUS
<1>2. ASSUME NEW k \in Nat, k \in Same
      PROVE  k + 1 \in Same
  <2>. SUFFICES ASSUME k + 1 <= n - p
                PROVE  Registers(a)[n - (k + 1)] = Registers(b)[n - (k + 1)]
    OBVIOUS
  <2>. DEFINE j == n - k
  <2>1. /\ j \in 1 .. n /\ j \in p + 1 .. n /\ j - 1 \in 0 .. n
        /\ n - (k + 1) = j - 1
    OBVIOUS
  <2>2. Registers(a)[j] = Registers(b)[j]
    BY <1>2
  <2>. HIDE DEF j
  <2>3. /\ Registers(a)[j] = Taken(Registers(a)[j - 1], a[j])
        /\ Registers(b)[j] = Taken(Registers(b)[j - 1], a[j])
        /\ Registers(a)[j - 1] \in Reg /\ Registers(b)[j - 1] \in Reg
        /\ a[j] \in Octet
    BY <2>1, RegistersUnfold
  <2>4. Registers(a)[j - 1] = Registers(b)[j - 1]
    BY <2>2, <2>3, TakenApart
  <2>. QED BY <2>1, <2>4
<1>3. Nat \subseteq Same
  <2>. HIDE DEF Same
  <2>. QED BY <1>1, <1>2, Induction
<1>4. n - p \in Nat /\ n - (n - p) = p
  OBVIOUS
<1>5. n - p \in Same
  <2>. HIDE DEF Same
  <2>. QED BY <1>3, <1>4
<1>. QED BY <1>4, <1>5

\* A checksum is four bytes.
LEMMA ChecksumType ==
  ASSUME NEW n \in Nat, NEW data \in [1 .. n -> Octet]
  PROVE  Checksum(data) \in [0 .. 3 -> Octet]
<1>. DEFINE final == (0 .. 31) \ Registers(data)[Len(data)]
            bits(k) == {i - 8 * k : i \in final \cap (8 * k .. 8 * k + 7)}
<1>1. \A k \in 0 .. 3 : bits(k) \in SUBSET Low
  BY DEF Low
<1>2. \A k \in 0 .. 3 : OctetOf[bits(k)] \in Octet
  <2>. HIDE DEF bits
  <2>. QED BY <1>1, OctetOfBits
<1>3. Checksum(data) = [k \in 0 .. 3 |-> OctetOf[bits(k)]]
  BY DEF Checksum
<1>. QED BY <1>2, <1>3

\* Equal checksums come from equal registers.
LEMMA ChecksumApart ==
  ASSUME NEW n \in Nat, NEW a \in [1 .. n -> Octet], NEW b \in [1 .. n -> Octet],
         Checksum(a) = Checksum(b)
  PROVE  Registers(a)[n] = Registers(b)[n]
<1>. DEFINE x == Registers(a)[n]
            y == Registers(b)[n]
            bits(r, k) == {i - 8 * k : i \in ((0 .. 31) \ r) \cap (8 * k .. 8 * k + 7)}
<1>1. /\ x \in Reg /\ Len(a) = n
      /\ y \in Reg /\ Len(b) = n
  BY RegistersUnfold
<1>2. /\ Checksum(a) = [k \in 0 .. 3 |-> OctetOf[bits(x, k)]]
      /\ Checksum(b) = [k \in 0 .. 3 |-> OctetOf[bits(y, k)]]
  BY <1>1 DEF Checksum
<1>. HIDE DEF x, y
<1>3. ASSUME NEW k \in 0 .. 3
      PROVE  bits(x, k) = bits(y, k)
  <2>1. bits(x, k) \in SUBSET Low /\ bits(y, k) \in SUBSET Low
    <3>1. \A i \in 8 * k .. 8 * k + 7 : i - 8 * k \in Low
      BY DEF Low
    <3>. QED BY <3>1
  <2>. HIDE DEF bits
  <2>2. /\ Checksum(a)[k] = OctetOf[bits(x, k)]
        /\ Checksum(b)[k] = OctetOf[bits(y, k)]
    BY <1>2
  <2>. QED BY <2>1, <2>2, OctetOfBits
<1>4. ASSUME NEW k \in 0 .. 3, NEW i \in 8 * k .. 8 * k + 7, NEW r \in Reg
      PROVE  i - 8 * k \in bits(r, k) <=> i \notin r
  <2>1. i \in 0 .. 31
    OBVIOUS
  <2>2. ASSUME NEW j \in 8 * k .. 8 * k + 7, j - 8 * k = i - 8 * k
        PROVE  j = i
    BY <2>2
  <2>. QED BY <2>1, <2>2
<1>. HIDE DEF bits
<1>5. ASSUME NEW i \in 0 .. 31
      PROVE  i \in x <=> i \in y
  <2>1. PICK k \in 0 .. 3 : i \in 8 * k .. 8 * k + 7
    OBVIOUS
  <2>. QED BY <1>1, <1>3, <1>4, <2>1
<1>6. x = y
  BY <1>1, <1>5 DEF Reg
<1>. QED BY <1>6 DEF x, y

\* Two buffers are the same but for the four bytes behind place p.
SameOutside(a, b, n, p) == \A k \in 1 .. n : k \notin p + 1 .. p + 4 => a[k] = b[k]

\* crc32() notices every damage within four adjacent bytes: they cannot be
\* changed, in a buffer of any length, without changing the checksum.
THEOREM BurstDetected ==
  ASSUME NEW n \in Nat, NEW a \in [1 .. n -> Octet], NEW b \in [1 .. n -> Octet],
         NEW p \in 0 .. n - 4, SameOutside(a, b, n, p),
         Checksum(a) = Checksum(b)
  PROVE  a = b
<1>1. p \in 0 .. n /\ p + 4 \in 0 .. n
  OBVIOUS
<1>2. Registers(a)[n] = Registers(b)[n]
  BY ChecksumApart
<1>3. Registers(a)[p] = Registers(b)[p]
  <2>1. \A k \in 1 .. p : a[k] = b[k]
    BY DEF SameOutside
  <2>. QED BY <1>1, <2>1, SameBefore
<1>4. Registers(a)[p + 4] = Registers(b)[p + 4]
  <2>1. \A k \in (p + 4) + 1 .. n : a[k] = b[k]
    BY DEF SameOutside
  <2>. QED BY <1>1, <1>2, <2>1, SameBehind
<1>. DEFINE r == Registers(a)[p]
            c == [k \in 1 .. 4 |-> a[p + k]]
            d == [k \in 1 .. 4 |-> b[p + k]]
<1>5. /\ p + 1 \in 1 .. n /\ p + 2 \in 1 .. n /\ p + 3 \in 1 .. n /\ p + 4 \in 1 .. n
      /\ (p + 1) - 1 = p /\ (p + 2) - 1 = p + 1
      /\ (p + 3) - 1 = p + 2 /\ (p + 4) - 1 = p + 3
  OBVIOUS
<1>6. /\ r \in Reg
      /\ c \in [1 .. 4 -> Octet] /\ d \in [1 .. 4 -> Octet]
  <2>1. r \in Reg
    BY <1>1, RegistersUnfold
  <2>2. \A k \in 1 .. 4 : p + k \in 1 .. n
    OBVIOUS
  <2>. QED BY <2>1, <2>2
<1>7. ASSUME NEW data \in [1 .. n -> Octet]
      PROVE  Registers(data)[p + 4]
               = Taken(Taken(Taken(Taken(Registers(data)[p], data[p + 1]), data[p + 2]),
                             data[p + 3]), data[p + 4])
  <2>1. \A k \in 1 .. n : Registers(data)[k] = Taken(Registers(data)[k - 1], data[k])
    BY RegistersUnfold
  <2>. QED BY <1>5, <2>1
<1>8. Taken(Taken(Taken(Taken(r, c[1]), c[2]), c[3]), c[4])
        = Taken(Taken(Taken(Taken(r, d[1]), d[2]), d[3]), d[4])
  BY <1>3, <1>4, <1>7
<1>9. c = d
  <2>. HIDE DEF c, d, r
  <2>. QED BY <1>6, <1>8, FourApart
<1>10. ASSUME NEW k \in 1 .. n
       PROVE  a[k] = b[k]
  <2>1. CASE k \in p + 1 .. p + 4
    <3>1. k - p \in 1 .. 4 /\ p + (k - p) = k
      BY <2>1
    <3>2. c[k - p] = a[k] /\ d[k - p] = b[k]
      BY <3>1
    <3>. HIDE DEF c, d
    <3>. QED BY <1>9, <3>2
  <2>2. CASE k \notin p + 1 .. p + 4
    BY <2>2 DEF SameOutside
  <2>. QED BY <2>1, <2>2
<1>. QED BY <1>10

-----------------------------------------------------------------------------
(* The messages of src/serialization.cpp, with this checksum.              *)

\* The buffer that crc32() is given.
Buffer(b) == [i \in 1 .. 40 |-> b[i - 1]]

\* crc32() of the source, on bytes of eight bits.
TheChecksum == Byte = Octet /\ \A b \in Body : crc32(b) = Checksum(Buffer(b))

\* The checksum of the source has the two properties that the theorems
\* above ask for: it is a 32-bit word, and a difference in one word of a body shows.
THEOREM Crc32Suffices ==
  ASSUME TheChecksum
  PROVE  WordsOnly /\ DetectsOneWord
<1>1. ASSUME NEW b \in Body
      PROVE  Buffer(b) \in [1 .. 40 -> Octet]
  <2>1. \A i \in 1 .. 40 : i - 1 \in 0 .. 39
    OBVIOUS
  <2>. QED BY <2>1 DEF Body, TheChecksum, Buffer
<1>2. WordsOnly
  <2>1. 40 \in Nat
    OBVIOUS
  <2>2. ASSUME NEW b \in Body
        PROVE  crc32(b) \in Uint32
    BY <1>1, <2>1, ChecksumType DEF TheChecksum, Uint32
  <2>. QED BY <2>2, InputAssumption DEF WordsOnly
<1>3. ASSUME NEW a \in Body, NEW b \in Body, NEW n \in 0 .. 9,
             \A k \in 0 .. 39 : k \div 4 # n => a[k] = b[k],
             crc32(a) = crc32(b)
      PROVE  a = b
  <2>1. 40 \in Nat /\ 4 * n \in 0 .. 40 - 4
    OBVIOUS
  <2>2. SameOutside(Buffer(a), Buffer(b), 40, 4 * n)
    <3>1. ASSUME NEW k \in 1 .. 40, k \notin 4 * n + 1 .. 4 * n + 4
          PROVE  Buffer(a)[k] = Buffer(b)[k]
      <4>1. k - 1 \in 0 .. 39 /\ (k - 1) \div 4 # n
        BY <3>1
      <4>2. a[k - 1] = b[k - 1]
        BY <1>3, <4>1
      <4>. QED BY <4>2 DEF Buffer
    <3>. QED BY <3>1 DEF SameOutside
  <2>3. Checksum(Buffer(a)) = Checksum(Buffer(b))
    BY <1>3 DEF TheChecksum
  <2>4. Buffer(a) = Buffer(b)
    <3>1. Buffer(a) \in [1 .. 40 -> Octet] /\ Buffer(b) \in [1 .. 40 -> Octet]
      BY <1>1
    <3>. QED BY <2>1, <2>2, <2>3, <3>1, BurstDetected, Zenon
  <2>5. ASSUME NEW k \in 0 .. 39
        PROVE  a[k] = b[k]
    <3>1. k + 1 \in 1 .. 40 /\ (k + 1) - 1 = k
      OBVIOUS
    <3>2. Buffer(a)[k + 1] = a[k] /\ Buffer(b)[k + 1] = b[k]
      BY <3>1 DEF Buffer
    <3>. QED BY <2>4, <3>2
  <2>. QED BY <2>5 DEF Body
<1>. QED BY <1>2, <1>3 DEF DetectsOneWord

\* With crc32() itself, and nothing else assumed of it: exports of both formats
\* are read as what they were made from, also after other programs have written
\* a text anew, no byte of a frame is ignored, and one edit is never believed.
THEOREM FormatsCorrect ==
  ASSUME TheChecksum
  PROVE  Spec => [](/\ TypeOK /\ IntactAccepted /\ Canonical
                    /\ RewritingTolerated /\ OneEditHarmless)
<1>1. WordsOnly /\ DetectsOneWord
  BY Crc32Suffices
<1>. QED BY <1>1, TypeCorrect, IntactCorrect, CanonicalCorrect, RewritingCorrect,
            OneEditCorrect, PTL

=============================================================================
