----------------------------- MODULE SessionProofs -----------------------------
(***************************************************************************)
(* The data of the library is what module Cipher says it is, for any words *)
(* that obey the laws of module WordLaws and any number of objects: the    *)
(* places and positions that the theorems about Cipher speak of are those  *)
(* of the States and bytes that the code has in memory.                    *)
(***************************************************************************)
EXTENDS Session, WordLaws, WordLawsProofs, Numbers

LEMMA MaxWordsType == MaxWords \in Nat
  BY SessionAssumption

-----------------------------------------------------------------------------
(* States along a trajectory.                                              *)

LEMMA ZeroStateType == ZeroState \in State
  BY WordAssumption DEF WordLaw, ZeroState, State

LEMMA StepType == ASSUME NEW st \in State PROVE step(st) \in State
  BY StepEffect

LEMMA AfterUnfold ==
  ASSUME NEW st \in State
  PROVE  /\ After(st) \in [0 .. MaxWords -> State]
         /\ After(st)[0] = st
         /\ \A k \in 1 .. MaxWords : After(st)[k] = step(After(st)[k - 1])
<1>. DEFINE next == [ks \in (1 .. MaxWords) \X State |-> step(ks[2])]
<1>1. next \in [(1 .. MaxWords) \X State -> State]
  BY StepType
<1>. HIDE DEF next
<1>2. PICK f \in [0 .. MaxWords -> State] :
              /\ f[0] = st
              /\ \A k \in 1 .. MaxWords : f[k] = next[<<k, f[k - 1]>>]
  <2>1. Runs(State, st, MaxWords, next)
    BY <1>1, MaxWordsType, Recursion, Zenon
  <2>. QED BY <2>1 DEF Runs
<1>3. ASSUME NEW k \in 1 .. MaxWords PROVE f[k] = step(f[k - 1])
  <2>1. f[k - 1] \in State
    BY MaxWordsType
  <2>2. <<k, f[k - 1]>> \in (1 .. MaxWords) \X State
    BY <2>1
  <2>3. next[<<k, f[k - 1]>>] = step(f[k - 1])
    BY <2>2 DEF next
  <2>. QED BY <1>2, <2>3
<1>4. f = [n \in 0 .. MaxWords |-> IF n = 0 THEN st ELSE step(f[n - 1])]
  BY <1>2, <1>3, MaxWordsType
<1>5. After(st) = [n \in 0 .. MaxWords |-> IF n = 0 THEN st ELSE step(After(st)[n - 1])]
  BY <1>4, Zenon DEF After
<1>. DEFINE a == After(st)
            Typed == {k \in Nat : k <= MaxWords => a[k] \in State}
<1>6. a[0] = st /\ \A k \in 1 .. MaxWords : a[k] = step(a[k - 1])
  BY <1>5, MaxWordsType
<1>7. a = [n \in 0 .. MaxWords |-> a[n]]
  BY <1>5
<1>. HIDE DEF a
<1>8. 0 \in Typed
  BY <1>6
<1>9. ASSUME NEW k \in Nat, k \in Typed PROVE k + 1 \in Typed
  <2>. SUFFICES ASSUME k + 1 <= MaxWords PROVE a[k + 1] \in State
    OBVIOUS
  <2>1. k + 1 \in 1 .. MaxWords /\ (k + 1) - 1 = k /\ a[k] \in State
    BY <1>9, MaxWordsType
  <2>. QED BY <2>1, <1>6, StepType
<1>10. \A k \in 0 .. MaxWords : a[k] \in State
  <2>. HIDE DEF Typed
  <2>1. Nat \subseteq Typed
    BY <1>8, <1>9, Induction
  <2>. QED BY <2>1, MaxWordsType DEF Typed
<1>. QED BY <1>6, <1>7, <1>10 DEF a

\* Further along a trajectory.
LEMMA AfterAdd ==
  ASSUME NEW st \in State, NEW m \in Nat, NEW k \in Nat, m + k <= MaxWords
  PROVE  After(After(st)[m])[k] = After(st)[m + k]
<1>. DEFINE Adds == {j \in Nat : m + j <= MaxWords =>
                                   After(After(st)[m])[j] = After(st)[m + j]}
<1>0. m \in 0 .. MaxWords /\ After(st)[m] \in State
  BY MaxWordsType, AfterUnfold
<1>1. 0 \in Adds
  BY <1>0, AfterUnfold
<1>2. ASSUME NEW j \in Nat, j \in Adds PROVE j + 1 \in Adds
  <2>. SUFFICES ASSUME m + (j + 1) <= MaxWords
                PROVE  After(After(st)[m])[j + 1] = After(st)[m + (j + 1)]
    OBVIOUS
  <2>1. /\ j + 1 \in 1 .. MaxWords /\ (j + 1) - 1 = j
        /\ m + (j + 1) \in 1 .. MaxWords /\ (m + (j + 1)) - 1 = m + j
        /\ m + j <= MaxWords
    BY MaxWordsType
  <2>2. After(After(st)[m])[j + 1] = step(After(After(st)[m])[j])
    BY <1>0, <2>1, AfterUnfold
  <2>3. After(st)[m + (j + 1)] = step(After(st)[m + j])
    BY <2>1, AfterUnfold
  <2>4. After(After(st)[m])[j] = After(st)[m + j]
    BY <1>2, <2>1
  <2>. QED BY <2>2, <2>3, <2>4
<1>3. Nat \subseteq Adds
  <2>. HIDE DEF Adds
  <2>. QED BY <1>1, <1>2, Induction
<1>. QED BY <1>3

\* The bytes of an extracted word.
LEMMA WordBytesType ==
  ASSUME NEW st \in State
  PROVE  WordBytes(st) \in [0..7 -> 0..255]
<1>1. /\ Xor(Add(st.x, st.z), Rol(st.y, 16)) \in Word
      /\ Xor(Add(st.y, st.w), Rol(st.x, 16)) \in Word
  <2>1. st.x \in Word /\ st.y \in Word /\ st.z \in Word /\ st.w \in Word
    BY DEF State
  <2>2. Rol(st.x, 16) \in Word /\ Rol(st.y, 16) \in Word
    BY <2>1, ShiftAssumption DEF ShiftLaw
  <2>3. Add(st.x, st.z) \in Word /\ Add(st.y, st.w) \in Word
    BY <2>1, OperationAssumption DEF OperationLaw
  <2>. QED BY <2>2, <2>3, OperationAssumption DEF OperationLaw
<1>2. \A h \in 1..2 : ToBytes(extract(st)[h]) \in [0..3 -> 0..255]
  <2>1. extract(st)[1] \in Word /\ extract(st)[2] \in Word
    BY <1>1 DEF extract
  <2>2. \A v \in Word : ToBytes(v) \in [0..3 -> 0..255]
    BY BytesAssumption DEF Fmt!Uint32
  <2>. QED BY <2>1, <2>2
<1>3. ASSUME NEW i \in 0..7
      PROVE  ToBytes(extract(st)[2 - (i \div 4)])[i % 4] \in 0..255
  <2>1. 2 - (i \div 4) \in 1..2 /\ i % 4 \in 0..3
    OBVIOUS
  <2>. QED BY <1>2, <2>1
<1>. QED BY <1>3 DEF WordBytes

-----------------------------------------------------------------------------
(* What places and positions stand for.                                    *)

Starts == A!Seeds \cup {ZeroSeed}

LEMMA StartType == ASSUME NEW seed \in Starts PROVE Start(seed) \in State
  BY ZeroStateType, DeriveAssumption DEF Starts, Start

LEMMA TrajectoryIs ==
  ASSUME NEW seed \in Starts
  PROVE  Trajectory[seed] = After(Start(seed))
  BY DEF Trajectory, Streams, Starts

LEMMA PlaceIsReal ==
  ASSUME NEW p, p.seed \in Starts, p.n \in Nat, p.n <= MaxWords
  PROVE  RealState(p) = After(Start(p.seed))[p.n] /\ RealState(p) \in State
<1>1. p.n \in 0 .. MaxWords
  BY MaxWordsType
<1>. QED BY <1>1, TrajectoryIs, StartType, AfterUnfold DEF RealState

\* A place further along.
LEMMA PlaceFurther ==
  ASSUME NEW p, p.seed \in Starts, p.n \in Nat, NEW k \in Nat, p.n + k <= MaxWords,
         NEW q, q.seed = p.seed, q.n = p.n + k
  PROVE  RealState(q) = After(RealState(p))[k]
<1>1. p.n <= MaxWords /\ q.n \in Nat
  BY MaxWordsType
<1>. QED BY <1>1, PlaceIsReal, StartType, AfterAdd

LEMMA WipedIsReal == RealState(A!Wiped) = ZeroState
<1>1. A!Wiped.seed = ZeroSeed /\ A!Wiped.n = 0 /\ ZeroSeed \in Starts
  BY DEF A!Wiped, Starts
<1>2. Start(ZeroSeed) = ZeroState
  BY DEF Start
<1>. QED BY <1>1, <1>2, PlaceIsReal, MaxWordsType, AfterUnfold, ZeroStateType

LEMMA DerivedIsReal ==
  ASSUME NEW m \in A!Arguments, A!HasKey(m)
  PROVE  /\ A!DeriveState(m).seed \in A!Seeds
         /\ RealState(A!DeriveState(m)) = derive_state(A!DeriveState(m).seed)
         /\ derive_state(A!DeriveState(m).seed) \in State
<1>1. A!DeriveState(m).seed \in A!Seeds /\ A!DeriveState(m).n = 0
  BY DEF A!Arguments, A!HasKey, A!DeriveState, A!Seeds
<1>2. A!DeriveState(m).seed # ZeroSeed
  BY <1>1, SessionAssumption
<1>3. Start(A!DeriveState(m).seed) = derive_state(A!DeriveState(m).seed)
  BY <1>2 DEF Start
<1>. QED BY <1>1, <1>3, PlaceIsReal, MaxWordsType, AfterUnfold, StartType DEF Starts

LEMMA ZeroByteIsReal == RealByte(A!ZeroByte) = 0
  BY DEF RealByte

\* Byte j of the words that follow place n of a stream.
LEMMA ByteIsReal ==
  ASSUME NEW seed \in Starts, NEW n \in Nat, NEW j \in Nat,
         n + (j \div 8) + 1 <= MaxWords
  PROVE  RealByte(<<seed, 8 * n + j>>)
           = WordBytes(Trajectory[seed][n + (j \div 8) + 1])[j % 8]
<1>1. /\ (8 * n + j) \div 8 = n + (j \div 8) /\ (8 * n + j) % 8 = j % 8
      /\ 8 * n + j \in Nat /\ n + (j \div 8) + 1 \in 1 .. MaxWords
  BY MaxWordsType
<1>2. <<seed, 8 * n + j>> # A!ZeroByte
  BY <1>1 DEF A!ZeroByte
<1>3. Keystream[seed][n + (j \div 8) + 1]
        = WordBytes(Trajectory[seed][n + (j \div 8) + 1])
  BY <1>1 DEF Keystream, Streams, Starts
<1>4. RealByte(<<seed, 8 * n + j>>)
        = Keystream[seed][((8 * n + j) \div 8) + 1][(8 * n + j) % 8]
  BY <1>2 DEF RealByte
<1>. QED BY <1>1, <1>3, <1>4

\* The word extracted at a place.
LEMMA WordIsReal ==
  ASSUME NEW p, p.seed \in Starts, p.n \in Nat, p.n > 0, p.n <= MaxWords,
         NEW i \in 0..7
  PROVE  RealByte(A!ExtractByte(p, i)) = WordBytes(RealState(p))[i]
<1>1. /\ p.n - 1 \in Nat /\ i \in Nat /\ i \div 8 = 0 /\ i % 8 = i
      /\ (p.n - 1) + (i \div 8) + 1 = p.n
  OBVIOUS
<1>2. A!ExtractByte(p, i) = <<p.seed, 8 * (p.n - 1) + i>>
  BY DEF A!ExtractByte, A!StreamByte
<1>. DEFINE m == p.n - 1
<1>3. RealByte(<<p.seed, 8 * m + i>>) = WordBytes(Trajectory[p.seed][p.n])[i]
  <2>1. /\ m \in Nat /\ m + (i \div 8) + 1 = p.n /\ i \in Nat
        /\ m + (i \div 8) + 1 <= MaxWords
    BY <1>1
  <2>. HIDE DEF m
  <2>2. RealByte(<<p.seed, 8 * m + i>>)
          = WordBytes(Trajectory[p.seed][m + (i \div 8) + 1])[i % 8]
    BY <2>1, ByteIsReal
  <2>. QED BY <1>1, <2>1, <2>2
<1>. QED BY <1>2, <1>3 DEF RealState

-----------------------------------------------------------------------------
(* A State on its way through a message.                                   *)

\* The theorems about the two formats; Fmt has the same definitions.  Nothing
\* is in transit there.
SP == INSTANCE SerializationProofs WITH
        Byte <- 0..255, Exports <- {}, Overwrites <- {}, Numbers <- {},
        Notes <- {}, MaxEdits <- 0, message <- <<>>, origin <- <<>>,
        edits <- <<>>, answer <- <<>>

LEMMA SameBinary ==
  /\ \A st : Fmt!serialize_binary(st) = SP!serialize_binary(st)
  /\ \A data : Fmt!deserialize_binary(data) = SP!deserialize_binary(data)
<1>1. ASSUME NEW st PROVE Fmt!serialize_binary(st) = SP!serialize_binary(st)
  BY DEF Fmt!serialize_binary, SP!serialize_binary, Fmt!body, SP!body,
         Fmt!FieldNames, SP!FieldNames
<1>2. ASSUME NEW data PROVE Fmt!deserialize_binary(data) = SP!deserialize_binary(data)
  BY DEF Fmt!deserialize_binary, SP!deserialize_binary, Fmt!load_le32, SP!load_le32,
         Fmt!Offset, SP!Offset, Fmt!Accepted, SP!Accepted, Fmt!Refused, SP!Refused
<1>. QED BY <1>1, <1>2

LEMMA SameJson ==
  /\ \A st : Fmt!serialize_json(st) = SP!serialize_json(st)
  /\ \A json : Fmt!deserialize_json(json) = SP!deserialize_json(json)
<1>1. ASSUME NEW st PROVE Fmt!serialize_json(st) = SP!serialize_json(st)
  BY DEF Fmt!serialize_json, SP!serialize_json, Fmt!body, SP!body,
         Fmt!FieldNames, SP!FieldNames, Fmt!Punctuation, SP!Punctuation,
         Fmt!EntryToken, SP!EntryToken, Fmt!Quoted, SP!Quoted, Fmt!Colon, SP!Colon,
         Fmt!Comma, SP!Comma, Fmt!Number, SP!Number, Fmt!JsonValue, SP!JsonValue,
         Fmt!JsonKeys, SP!JsonKeys
<1>2. ASSUME NEW json PROVE Fmt!deserialize_json(json) = SP!deserialize_json(json)
  BY DEF Fmt!deserialize_json, SP!deserialize_json, Fmt!body, SP!body,
         Fmt!FieldNames, SP!FieldNames, Fmt!Punctuation, SP!Punctuation,
         Fmt!Quoted, SP!Quoted, Fmt!Colon, SP!Colon, Fmt!find, SP!find,
         Fmt!ValueAt, SP!ValueAt, Fmt!JsonNames, SP!JsonNames, Fmt!Offset, SP!Offset,
         Fmt!Readable, SP!Readable, Fmt!parse_json_uint32, SP!parse_json_uint32,
         Fmt!Accepted, SP!Accepted, Fmt!Refused, SP!Refused,
         Fmt!SelectInSeq, SP!SelectInSeq, Fmt!SelectInSubSeq, SP!SelectInSubSeq,
         Fmt!Min, SP!Min
<1>. QED BY <1>1, <1>2

\* What SerializationProofs asks of its parameters.
LEMMA NothingInTransit == SP!InputAssumption /\ SP!NotesAssumption
  BY DEF SP!InputAssumption, SP!NotesAssumption, VERSION, SP!Uint32

\* The checksum: a 32-bit word that tells apart what differs in one word.
ChecksumLaw == SP!WordsOnly /\ SP!DetectsOneWord

LEMMA StoredType ==
  ASSUME NEW st \in State
  PROVE  Stored(st) \in SP!State /\ Loaded(Stored(st)) = st
<1>. DEFINE fields == {"x", "y", "z", "w", "alpha", "gamma", "mu", "sigma", "counter"}
<1>1. DOMAIN st = fields /\ \A f \in fields : st[f] \in Word
  BY DEF State
<1>2. \A f \in fields : ToBytes(st[f]) \in SP!Uint32 /\ FromBytes(ToBytes(st[f])) = st[f]
  BY <1>1, BytesAssumption DEF Fmt!Uint32, SP!Uint32
<1>3. Stored(st) \in SP!State
  BY <1>1, <1>2 DEF Stored, SP!State
<1>4. DOMAIN Stored(st) = fields /\ \A f \in fields : Stored(st)[f] = ToBytes(st[f])
  BY <1>1 DEF Stored
<1>5. Loaded(Stored(st)) = [f \in fields |-> st[f]]
  BY <1>2, <1>4 DEF Loaded
<1>6. st = [f \in fields |-> st[f]]
  BY DEF State
<1>. QED BY <1>3, <1>5, <1>6

BinaryOf(st) == [format |-> "binary", data |-> Fmt!serialize_binary(Stored(st))]

JsonOf(st) == [format |-> "json", data |-> Fmt!serialize_json(Stored(st))]

\* One byte of the frame was damaged.
DamagedOf(st, k, b) ==
  [format |-> "binary", data |-> [Fmt!serialize_binary(Stored(st)) EXCEPT ![k] = b]]

LEMMA FrameType ==
  ASSUME ChecksumLaw, NEW st \in State
  PROVE  SP!serialize_binary(Stored(st)) \in SP!Frame
<1>1. Stored(st) \in SP!State
  BY StoredType
<1>2. SP!InputAssumption /\ SP!NotesAssumption
  BY NothingInTransit
<1>. QED BY <1>1, <1>2, SP!ExportIsAFrame, Zenon DEF ChecksumLaw

LEMMA IntactRead ==
  ASSUME ChecksumLaw, NEW st \in State, NEW msg \in {BinaryOf(st), JsonOf(st)}
  PROVE  Read(msg).outcome = "ok" /\ Loaded(Read(msg).state) = st
<1>1. Stored(st) \in SP!State /\ Loaded(Stored(st)) = st
  BY StoredType
<1>2. SP!InputAssumption /\ SP!NotesAssumption
  BY NothingInTransit
<1>3. SP!deserialize_binary(SP!serialize_binary(Stored(st))) = SP!Accepted(Stored(st))
  BY <1>1, <1>2, SP!RoundTrip, Zenon DEF ChecksumLaw
<1>4. SP!deserialize_json(SP!serialize_json(Stored(st))) = SP!Accepted(Stored(st))
  BY <1>1, <1>2, SP!JsonRoundTrip, Zenon DEF ChecksumLaw
<1>5. Read(msg) = SP!Accepted(Stored(st))
  <2>1. CASE msg = BinaryOf(st)
    <3>1. msg.format = "binary" /\ msg.data = Fmt!serialize_binary(Stored(st))
      BY <2>1 DEF BinaryOf
    <3>. QED BY <3>1, <1>3, SameBinary DEF Read
  <2>2. CASE msg = JsonOf(st)
    <3>1. msg.format = "json" /\ msg.data = Fmt!serialize_json(Stored(st))
      BY <2>2 DEF JsonOf
    <3>. QED BY <3>1, <1>4, SameJson DEF Read
  <2>. QED BY <2>1, <2>2
<1>. QED BY <1>1, <1>5 DEF SP!Accepted

\* A damaged frame is refused, or is the export it was before.
LEMMA DamagedRead ==
  ASSUME ChecksumLaw, NEW st \in State, NEW k \in 0..43, NEW b \in 0..255,
         NEW msg, msg = DamagedOf(st, k, b), Read(msg).outcome = "ok"
  PROVE  msg = BinaryOf(st)
<1>. DEFINE stored == Stored(st)
            frame == SP!serialize_binary(stored)
            data == [frame EXCEPT ![k] = b]
<1>1. stored \in SP!State
  BY StoredType
<1>2. SP!InputAssumption /\ SP!NotesAssumption
  BY NothingInTransit
<1>3. msg.format = "binary" /\ msg.data = data
  BY SameBinary DEF DamagedOf
<1>4. data \in SP!Frame
  BY FrameType DEF SP!Frame
<1>. HIDE DEF stored
<1>5. SP!deserialize_binary(data) \in {SP!Refused, SP!Accepted(stored)}
  BY <1>1, <1>2, <1>4, SP!OneByteRefused, Zenon DEF ChecksumLaw
<1>. HIDE DEF data, frame
<1>6. Read(msg) = SP!deserialize_binary(data)
  BY <1>3, SameBinary DEF Read
<1>7. SP!deserialize_binary(data) = SP!Accepted(stored)
  BY <1>5, <1>6 DEF SP!Refused
<1>8. frame = data
  BY <1>2, <1>4, <1>7, SP!OneSpelling, Zenon DEF ChecksumLaw, frame
<1>. QED BY <1>8, SameBinary DEF BinaryOf, DamagedOf, data, frame, stored

-----------------------------------------------------------------------------
(* The invariant: the data is where module Cipher says it is, and the      *)
(* message is the last export, perhaps with one byte damaged.              *)

Typed ==
  /\ state_ \in [Ciphers -> State]
  /\ initial_state_ \in [Ciphers -> State]
  /\ buffer_ \in [Ciphers -> [0..7 -> 0..255]]

\* A message made from st.
MadeFrom(msg, st) ==
  \/ msg \in {BinaryOf(st), JsonOf(st)}
  \/ \E k \in 0..43, b \in 0..255 : msg = DamagedOf(st, k, b)

MessageInv ==
  message # <<>> => /\ blob # <<>>
                    /\ RealState(blob.state) \in State
                    /\ MadeFrom(message, RealState(blob.state))

DataInv == Typed /\ DataInPlace /\ ServesExtractedBytes /\ MessageInv

\* What is accepted of such a message.
LEMMA MadeFromRead ==
  ASSUME ChecksumLaw, NEW st \in State, NEW msg, MadeFrom(msg, st),
         Read(msg).outcome = "ok"
  PROVE  Loaded(Read(msg).state) = st
<1>1. CASE msg \in {BinaryOf(st), JsonOf(st)}
  BY <1>1, IntactRead
<1>2. CASE \E k \in 0..43, b \in 0..255 : msg = DamagedOf(st, k, b)
  <2>1. msg = BinaryOf(st)
    BY <1>2, DamagedRead
  <2>. QED BY <2>1, IntactRead
<1>. QED BY <1>1, <1>2 DEF MadeFrom

LEMMA MessageHolds == ASSUME ChecksumLaw, MessageInv PROVE MessageHoldsExport
  BY MadeFromRead DEF MessageInv, MessageHoldsExport

LEMMA WipedBytes ==
  /\ ZeroBytes \in [0..7 -> 0..255]
  /\ \A i \in 0..7 : ZeroBytes[i] = RealByte(A!ZeroBuffer[i])
  BY ZeroByteIsReal DEF ZeroBytes, A!ZeroBuffer

\* One object is given data, and the place, home and tags that go with it.
LEMMA OneInPlace ==
  ASSUME A!TypeOK, Typed, DataInPlace, NEW c \in Ciphers,
         NEW st \in State, NEW init \in State, NEW bytes \in [0..7 -> 0..255],
         NEW p, NEW h, NEW t,
         st = RealState(p), init = RealState(h),
         \A i \in 0..7 : bytes[i] = RealByte(t[i]),
         Assign(c, st, init, bytes),
         place' = [place EXCEPT ![c] = p],
         home'  = [home EXCEPT ![c] = h],
         tags'  = [tags EXCEPT ![c] = t]
  PROVE  Typed' /\ DataInPlace'
<1>1. Typed'
  BY DEF Typed, Assign
<1>2. /\ state_'[c] = st /\ initial_state_'[c] = init /\ buffer_'[c] = bytes
      /\ place'[c] = p /\ home'[c] = h /\ tags'[c] = t
  BY DEF Typed, Assign, A!TypeOK
<1>3. ASSUME NEW d \in Ciphers, d # c
      PROVE  /\ state_'[d] = state_[d] /\ initial_state_'[d] = initial_state_[d]
             /\ buffer_'[d] = buffer_[d] /\ place'[d] = place[d]
             /\ home'[d] = home[d] /\ tags'[d] = tags[d]
  BY <1>3 DEF Typed, Assign, A!TypeOK
<1>4. ASSUME NEW d \in Ciphers
      PROVE  /\ state_'[d] = RealState(place'[d])
             /\ initial_state_'[d] = RealState(home'[d])
             /\ \A i \in 0..7 : buffer_'[d][i] = RealByte(tags'[d][i])
  <2>1. CASE d = c
    BY <2>1, <1>2
  <2>2. CASE d # c
    BY <2>2, <1>3 DEF DataInPlace
  <2>. QED BY <2>1, <2>2
<1>. QED BY <1>1, <1>4 DEF DataInPlace

LEMMA WipeInPlace ==
  ASSUME A!TypeOK, Typed, DataInPlace, NEW c \in Ciphers, Wipe(c),
         place' = [place EXCEPT ![c] = A!Wiped],
         home'  = [home EXCEPT ![c] = A!Wiped],
         tags'  = [tags EXCEPT ![c] = A!ZeroBuffer]
  PROVE  Typed' /\ DataInPlace'
  BY OneInPlace, WipedIsReal, ZeroStateType, WipedBytes DEF Wipe

LEMMA NothingInPlace ==
  ASSUME Typed, DataInPlace, UNCHANGED <<state_, initial_state_, buffer_>>,
         UNCHANGED <<place, home, tags>>
  PROVE  Typed' /\ DataInPlace'
  BY DEF Typed, DataInPlace

\* A call that returns nothing and leaves the message alone.
LEMMA QuietInPlace ==
  ASSUME MessageInv, Quiet, ret'.bytes = <<>>, blob' = blob
  PROVE  ServesExtractedBytes' /\ MessageInv'
  BY DEF Quiet, ServesExtractedBytes, MessageInv

-----------------------------------------------------------------------------
(* The calls, one by one.                                                  *)

LEMMA InitData == Init => A!TypeOK /\ DataInv
<1>. SUFFICES ASSUME Init PROVE A!TypeOK /\ DataInv
  OBVIOUS
<1>1. A!TypeOK
  <2>1. /\ A!Wiped \in A!State /\ A!ZeroBuffer \in [0..7 -> A!Byte]
        /\ A!NoMaterial \in A!Material
    BY DEF A!Wiped, A!State, A!ZeroBuffer, A!Byte, A!NoMaterial, A!Material
  <2>. QED BY <2>1 DEF Init, A!Init, A!TypeOK
<1>2. Typed
  BY ZeroStateType, WipedBytes DEF Init, Typed
<1>3. DataInPlace
  BY WipedIsReal, WipedBytes DEF Init, A!Init, DataInPlace
<1>4. ServesExtractedBytes
  BY DEF Init, A!Init, A!Answer, ServesExtractedBytes
<1>5. MessageInv
  BY DEF Init, MessageInv
<1>. QED BY <1>1, <1>2, <1>3, <1>4, <1>5 DEF DataInv

LEMMA DeriveData ==
  ASSUME A!TypeOK, DataInv, NEW c \in Ciphers, NEW m \in A!Arguments, Derive(c, m)
  PROVE  DataInv'
<1>. DEFINE p == A!DeriveState(m)
            st == derive_state(p.seed)
<1>1. /\ A!HasKey(m) /\ A!Assign(c, p, p, A!ZeroBuffer, 8, m)
      /\ ret'.bytes = <<>> /\ blob' = blob
  BY DEF Derive, A!Construct, A!Reseed, A!Done, A!Answer
<1>2. Assign(c, st, st, ZeroBytes) /\ Quiet
  BY DEF Derive
<1>3. st \in State /\ st = RealState(p)
  BY <1>1, DerivedIsReal
<1>. HIDE DEF st
<1>4. /\ place' = [place EXCEPT ![c] = p] /\ home' = [home EXCEPT ![c] = p]
      /\ tags' = [tags EXCEPT ![c] = A!ZeroBuffer]
  BY <1>1 DEF A!Assign
<1>. HIDE DEF p
<1>5. Typed' /\ DataInPlace'
  BY <1>2, <1>3, <1>4, WipedBytes, OneInPlace DEF DataInv
<1>. QED BY <1>1, <1>2, <1>5, QuietInPlace DEF DataInv

LEMMA DeriveThrowsData ==
  ASSUME A!TypeOK, DataInv, NEW c \in Ciphers, NEW m \in A!Arguments,
         DeriveThrows(c, m)
  PROVE  DataInv'
<1>1. CASE (A!ConstructThrows(c, m) \/ A!ReseedWithoutKey(c, m)) /\ Throws
  <2>1. /\ UNCHANGED <<place, home, tags>> /\ ret'.bytes = <<>> /\ blob' = blob
    BY <1>1 DEF A!ConstructThrows, A!ReseedWithoutKey, A!Throws, A!Answer, A!members
  <2>. QED BY <1>1, <2>1, NothingInPlace, QuietInPlace DEF DataInv, Throws
<1>2. CASE A!ReseedThrows(c, m) /\ Wipe(c) /\ Quiet
  <2>1. /\ place' = [place EXCEPT ![c] = A!Wiped] /\ home' = [home EXCEPT ![c] = A!Wiped]
        /\ tags' = [tags EXCEPT ![c] = A!ZeroBuffer]
        /\ ret'.bytes = <<>> /\ blob' = blob
    BY <1>2 DEF A!ReseedThrows, A!Assign, A!Answer
  <2>. QED BY <1>2, <2>1, WipeInPlace, QuietInPlace DEF DataInv
<1>. QED BY <1>1, <1>2 DEF DeriveThrows

LEMMA DestroyData ==
  ASSUME A!TypeOK, DataInv, NEW c \in Ciphers, Destroy(c)
  PROVE  DataInv'
<1>1. /\ place' = [place EXCEPT ![c] = A!Wiped] /\ home' = [home EXCEPT ![c] = A!Wiped]
      /\ tags' = [tags EXCEPT ![c] = A!ZeroBuffer]
      /\ ret'.bytes = <<>> /\ blob' = blob
  BY DEF Destroy, A!Destroy, A!Assign, A!Done, A!Answer
<1>. QED BY <1>1, WipeInPlace, QuietInPlace DEF DataInv, Destroy

LEMMA ResetData ==
  ASSUME A!TypeOK, DataInv, NEW c \in Ciphers, Reset(c)
  PROVE  DataInv'
<1>1. /\ place' = [place EXCEPT ![c] = home[c]] /\ home' = home
      /\ tags' = [tags EXCEPT ![c] = A!ZeroBuffer]
      /\ ret'.bytes = <<>> /\ blob' = blob
  BY DEF Reset, A!Reset, A!DiscardLeftover, A!Done, A!Answer
<1>2. home' = [home EXCEPT ![c] = home[c]]
  BY <1>1 DEF A!TypeOK
<1>3. initial_state_[c] \in State /\ initial_state_[c] = RealState(home[c])
  BY DEF DataInv, Typed, DataInPlace
<1>4. Typed' /\ DataInPlace'
  BY <1>1, <1>2, <1>3, WipedBytes, OneInPlace DEF Reset, DataInv
<1>. QED BY <1>1, <1>4, QuietInPlace DEF DataInv, Reset

LEMMA MoveData ==
  ASSUME A!TypeOK, DataInv, NEW to \in Ciphers, NEW from \in Ciphers, Move(to, from)
  PROVE  DataInv'
<1>1. ret'.bytes = <<>> /\ blob' = blob
  BY DEF Move, A!MoveConstruct, A!MoveAssign, A!Transfer, A!Done, A!Answer, A!members
<1>2. Typed' /\ DataInPlace'
  <2>1. CASE to = from
    <3>1. UNCHANGED <<place, home, tags>>
      BY <2>1 DEF Move, A!MoveConstruct, A!MoveAssign, A!members
    <3>. QED BY <2>1, <3>1, NothingInPlace DEF Move, DataInv
  <2>2. CASE to # from
    <3>1. /\ state_' = A!Moved(state_, to, from, ZeroState)
          /\ initial_state_' = A!Moved(initial_state_, to, from, ZeroState)
          /\ buffer_' = A!Moved(buffer_, to, from, ZeroBytes)
          /\ place' = A!Moved(place, to, from, A!Wiped)
          /\ home' = A!Moved(home, to, from, A!Wiped)
          /\ tags' = A!Moved(tags, to, from, A!ZeroBuffer)
      BY <2>2 DEF Move, A!MoveConstruct, A!MoveAssign, A!Transfer
    <3>2. Typed'
      BY <3>1, ZeroStateType, WipedBytes DEF DataInv, Typed, A!Moved
    <3>3. ASSUME NEW d \in Ciphers
          PROVE  /\ state_'[d] = RealState(place'[d])
                 /\ initial_state_'[d] = RealState(home'[d])
                 /\ \A i \in 0..7 : buffer_'[d][i] = RealByte(tags'[d][i])
      <4>1. CASE d = from
        <5>1. /\ state_'[d] = ZeroState /\ initial_state_'[d] = ZeroState
              /\ buffer_'[d] = ZeroBytes /\ place'[d] = A!Wiped
              /\ home'[d] = A!Wiped /\ tags'[d] = A!ZeroBuffer
          BY <3>1, <4>1 DEF DataInv, Typed, A!TypeOK, A!Moved
        <5>. QED BY <5>1, WipedIsReal, WipedBytes
      <4>2. CASE d # from
        <5>. DEFINE e == IF d = to THEN from ELSE d
        <5>1. /\ state_'[d] = state_[e] /\ initial_state_'[d] = initial_state_[e]
              /\ buffer_'[d] = buffer_[e] /\ place'[d] = place[e]
              /\ home'[d] = home[e] /\ tags'[d] = tags[e] /\ e \in Ciphers
          BY <3>1, <4>2 DEF DataInv, Typed, A!TypeOK, A!Moved
        <5>. HIDE DEF e
        <5>. QED BY <5>1 DEF DataInv, DataInPlace
      <4>. QED BY <4>1, <4>2
    <3>. QED BY <3>2, <3>3 DEF DataInPlace
  <2>. QED BY <2>1, <2>2
<1>. QED BY <1>1, <1>2, QuietInPlace DEF DataInv, Move

\* The State and the place of an object, some steps on.
LEMMA FurtherOn ==
  ASSUME A!TypeOK, DataInv, NEW c \in Ciphers, NEW k \in Nat,
         A!StepBy(place[c], k).n <= MaxWords
  PROVE  /\ After(state_[c])[k] = RealState(A!StepBy(place[c], k))
         /\ After(state_[c])[k] \in State
         /\ A!StepBy(place[c], k).seed = place[c].seed
         /\ A!StepBy(place[c], k).n = place[c].n + k
         /\ place[c].seed \in Starts /\ place[c].n \in Nat
<1>1. place[c] \in A!State
  BY DEF A!TypeOK
<1>2. /\ place[c].seed \in Starts /\ place[c].n \in Nat
      /\ A!StepBy(place[c], k).seed = place[c].seed
      /\ A!StepBy(place[c], k).n = place[c].n + k
  BY <1>1 DEF A!State, A!StepBy, Starts
<1>3. state_[c] = RealState(place[c])
  BY DEF DataInv, DataInPlace
<1>4. RealState(A!StepBy(place[c], k)) = After(RealState(place[c]))[k]
  BY <1>2, PlaceFurther
<1>5. RealState(A!StepBy(place[c], k)) \in State
  BY <1>2, PlaceIsReal, MaxWordsType
<1>. QED BY <1>2, <1>3, <1>4, <1>5

LEMMA NextWordData ==
  ASSUME A!TypeOK, DataInv, NEW c \in Ciphers, NextWord(c)
  PROVE  DataInv'
<1>. DEFINE s == A!StepBy(place[c], 1)
            next == step(state_[c])
<1>1. /\ s.n <= MaxWords /\ place' = [place EXCEPT ![c] = s]
      /\ ret'.bytes = [i \in 1..8 |-> A!ExtractByte(s, i - 1)]
      /\ home' = home /\ tags' = tags /\ blob' = blob
  BY DEF NextWord, A!NextWord, A!Answer
<1>2. /\ state_' = [state_ EXCEPT ![c] = next]
      /\ output' = [i \in 1..8 |-> WordBytes(next)[i - 1]]
      /\ initial_state_' = initial_state_ /\ buffer_' = buffer_ /\ message' = message
  BY DEF NextWord
<1>3. /\ After(state_[c])[1] = RealState(s) /\ RealState(s) \in State
      /\ s.seed \in Starts /\ s.n \in Nat /\ s.n > 0
  <2>1. 1 \in Nat
    OBVIOUS
  <2>. QED BY <1>1, <2>1, FurtherOn
<1>4. next = RealState(s)
  <2>1. state_[c] \in State /\ 1 \in 1 .. MaxWords /\ 1 - 1 = 0
    <3>1. place[c].n \in Nat /\ s.n = place[c].n + 1
      BY <1>1, FurtherOn
    <3>. QED BY <1>1, <3>1, MaxWordsType DEF DataInv, Typed
  <2>2. After(state_[c])[1] = step(After(state_[c])[1 - 1]) /\ After(state_[c])[0] = state_[c]
    BY <2>1, AfterUnfold
  <2>. QED BY <1>3, <2>1, <2>2
<1>. HIDE DEF s, next
<1>5. Typed' /\ DataInPlace'
  <2>1. Assign(c, next, initial_state_[c], buffer_[c])
    BY <1>2 DEF Assign, DataInv, Typed
  <2>2. home' = [home EXCEPT ![c] = home[c]] /\ tags' = [tags EXCEPT ![c] = tags[c]]
    BY <1>1 DEF A!TypeOK
  <2>3. /\ initial_state_[c] \in State /\ initial_state_[c] = RealState(home[c])
        /\ buffer_[c] \in [0..7 -> 0..255]
        /\ \A i \in 0..7 : buffer_[c][i] = RealByte(tags[c][i])
    BY DEF DataInv, Typed, DataInPlace
  <2>4. next \in State /\ place' = [place EXCEPT ![c] = s] /\ Typed /\ DataInPlace
    BY <1>1, <1>3, <1>4 DEF DataInv
  <2>. QED BY <1>4, <2>1, <2>2, <2>3, <2>4, OneInPlace
<1>6. ServesExtractedBytes'
  <2>1. ASSUME NEW i \in 1..8 PROVE output'[i] = RealByte(ret'.bytes[i])
    <3>1. i - 1 \in 0..7
      OBVIOUS
    <3>2. RealByte(A!ExtractByte(s, i - 1)) = WordBytes(RealState(s))[i - 1]
      BY <1>1, <1>3, <3>1, WordIsReal
    <3>. QED BY <1>1, <1>2, <1>4, <3>2
  <2>2. DOMAIN output' = 1..8 /\ DOMAIN ret'.bytes = 1..8
    BY <1>1, <1>2
  <2>. QED BY <2>1, <2>2 DEF ServesExtractedBytes
<1>7. MessageInv'
  BY <1>1, <1>2 DEF DataInv, MessageInv
<1>. QED BY <1>5, <1>6, <1>7 DEF DataInv

LEMMA GenerateData ==
  ASSUME A!TypeOK, DataInv, NEW c \in Ciphers, NEW size \in GenerateSizes,
         Generate(c, size)
  PROVE  DataInv'
<1>. DEFINE drained == A!DrainLength(c, size)
            pos == buffer_pos_[c]
            rest == size - drained
            words == (rest + 7) \div 8
            last == A!StepBy(place[c], words)
            after == After(state_[c])
            n == place[c].n
            seed == place[c].seed
\* The calculation of the sizes.
<1>1. /\ size \in Nat /\ drained \in 0..8 /\ pos + drained \in 0..8 /\ rest \in Nat
      /\ pos \in 0..8
  <2>1. size \in Nat /\ pos \in 0..8
    BY SessionAssumption DEF A!TypeOK
  <2>. QED BY <2>1 DEF A!DrainLength
<1>2. /\ words \in Nat
      /\ words = (rest \div 8) + (IF rest % 8 > 0 THEN 1 ELSE 0)
      /\ rest % 8 \in 0..7 /\ (rest % 8 > 0 => words > 0)
      /\ \A j \in 0 .. rest - 1 : /\ j \div 8 \in Nat /\ (j \div 8) + 1 <= words
                                 /\ j % 8 \in 0..7
  BY <1>1
<1>3. /\ last.n <= MaxWords
      /\ place' = [place EXCEPT ![c] = last]
      /\ tags' = IF rest % 8 > 0
                 THEN [tags EXCEPT ![c] = [i \in 0..7 |-> A!ExtractByte(last, i)]]
                 ELSE tags
      /\ ret'.bytes = [i \in 1..size |->
                         IF i <= drained THEN tags[c][pos + i - 1]
                         ELSE A!ExtractByte(A!StepBy(place[c], 1), i - drained - 1)]
      /\ home' = home /\ blob' = blob
  <2>. DEFINE steps == (rest \div 8) + (IF rest % 8 > 0 THEN 1 ELSE 0)
  <2>1. steps = words
    BY <1>2
  <2>. HIDE DEF words
  <2>2. A!Generate(c, size)
    BY DEF Generate
  <2>3. /\ A!StepBy(place[c], steps).n <= MaxWords
        /\ place' = [place EXCEPT ![c] = A!StepBy(place[c], steps)]
        /\ tags' = IF rest % 8 > 0
                   THEN [tags EXCEPT ![c] = [i \in 0..7 |->
                           A!ExtractByte(A!StepBy(place[c], steps), i)]]
                   ELSE tags
    BY <2>2 DEF A!Generate
  <2>4. /\ ret'.bytes = [i \in 1..size |->
                           IF i <= drained THEN tags[c][pos + i - 1]
                           ELSE A!ExtractByte(A!StepBy(place[c], 1), i - drained - 1)]
        /\ home' = home /\ blob' = blob
    BY <2>2 DEF A!Generate, A!Answer
  <2>. QED BY <2>1, <2>3, <2>4
<1>4. /\ state_' = [state_ EXCEPT ![c] = after[words]]
      /\ buffer_' = IF rest % 8 = 0 THEN buffer_
                    ELSE [buffer_ EXCEPT ![c] = WordBytes(after[words])]
      /\ output' = [i \in 1..size |->
                      IF i <= drained THEN buffer_[c][pos + i - 1]
                      ELSE WordBytes(after[((i - drained - 1) \div 8) + 1])
                             [(i - drained - 1) % 8]]
      /\ initial_state_' = initial_state_ /\ message' = message
  BY DEF Generate
<1>5. /\ after[words] = RealState(last) /\ after[words] \in State
      /\ last.seed = seed /\ last.n = n + words
      /\ seed \in Starts /\ n \in Nat
  BY <1>2, <1>3, FurtherOn
<1>. HIDE DEF drained, pos, rest, words, last, after
\* Every word on the way.
<1>6. ASSUME NEW k \in Nat, k <= words
      PROVE  after[k] = Trajectory[seed][n + k]
  <2>1. A!StepBy(place[c], k).n = n + k /\ A!StepBy(place[c], k).seed = seed
    BY <1>5 DEF A!TypeOK, A!State, A!StepBy
  <2>2. A!StepBy(place[c], k).n <= MaxWords
    BY <1>2, <1>3, <1>5, <1>6, <2>1, MaxWordsType
  <2>3. after[k] = RealState(A!StepBy(place[c], k))
    BY <2>2, FurtherOn DEF after
  <2>. QED BY <2>1, <2>3 DEF RealState
<1>7. Typed' /\ DataInPlace'
  <2>. DEFINE bytes == IF rest % 8 = 0 THEN buffer_[c] ELSE WordBytes(after[words])
              held == IF rest % 8 > 0 THEN [i \in 0..7 |-> A!ExtractByte(last, i)]
                      ELSE tags[c]
  <2>1. Typed /\ DataInPlace
    BY DEF DataInv
  <2>2. Assign(c, after[words], initial_state_[c], bytes)
    BY <1>4, <2>1 DEF Assign, Typed
  <2>3. home' = [home EXCEPT ![c] = home[c]] /\ tags' = [tags EXCEPT ![c] = held]
    BY <1>3 DEF A!TypeOK
  <2>4. initial_state_[c] \in State /\ initial_state_[c] = RealState(home[c])
    BY <2>1 DEF Typed, DataInPlace
  <2>5. bytes \in [0..7 -> 0..255] /\ \A i \in 0..7 : bytes[i] = RealByte(held[i])
    <3>1. CASE rest % 8 = 0
      <4>1. bytes = buffer_[c] /\ held = tags[c]
        BY <3>1
      <4>. HIDE DEF bytes, held
      <4>2. buffer_[c] \in [0..7 -> 0..255]
        BY <2>1 DEF Typed
      <4>3. \A i \in 0..7 : buffer_[c][i] = RealByte(tags[c][i])
        BY <2>1 DEF DataInPlace
      <4>. QED BY <4>1, <4>2, <4>3
    <3>2. CASE rest % 8 # 0
      <4>1. rest % 8 > 0 /\ last.n \in Nat /\ last.n > 0
        BY <1>2, <1>5, <3>2
      <4>2. \A i \in 0..7 : RealByte(A!ExtractByte(last, i)) = WordBytes(RealState(last))[i]
        BY <1>3, <1>5, <4>1, WordIsReal
      <4>3. bytes = WordBytes(RealState(last))
            /\ held = [i \in 0..7 |-> A!ExtractByte(last, i)]
        BY <1>5, <3>2, <4>1
      <4>4. WordBytes(RealState(last)) \in [0..7 -> 0..255]
        BY <1>5, WordBytesType
      <4>. QED BY <4>2, <4>3, <4>4
    <3>. QED BY <3>1, <3>2
  <2>6. /\ after[words] = RealState(last) /\ after[words] \in State
        /\ place' = [place EXCEPT ![c] = last]
    BY <1>3, <1>5
  <2>. HIDE DEF bytes, held
  <2>. QED BY <2>1, <2>2, <2>3, <2>4, <2>5, <2>6, OneInPlace
<1>8. ServesExtractedBytes'
  <2>1. ASSUME NEW i \in 1..size PROVE output'[i] = RealByte(ret'.bytes[i])
    <3>1. CASE i <= drained
      <4>1. pos + i - 1 \in 0..7
        BY <1>1, <3>1
      <4>2. output'[i] = buffer_[c][pos + i - 1] /\ ret'.bytes[i] = tags[c][pos + i - 1]
        BY <1>3, <1>4, <3>1
      <4>. QED BY <4>1, <4>2 DEF DataInv, DataInPlace
    <3>2. CASE ~(i <= drained)
      <4>. DEFINE j == i - drained - 1
                  q == (j \div 8) + 1
      <4>1. j \in 0 .. rest - 1
        BY <1>1, <3>2 DEF rest
      <4>2. j \in Nat /\ q \in Nat /\ q <= words /\ j % 8 \in 0..7
        BY <1>2, <4>1
      <4>3. output'[i] = WordBytes(after[q])[j % 8]
            /\ ret'.bytes[i] = A!ExtractByte(A!StepBy(place[c], 1), j)
        BY <1>3, <1>4, <3>2
      <4>. HIDE DEF j
      <4>4. A!ExtractByte(A!StepBy(place[c], 1), j) = <<seed, 8 * n + j>>
        <5>1. A!StepBy(place[c], 1).n = n + 1 /\ A!StepBy(place[c], 1).seed = seed
          BY <1>5 DEF A!TypeOK, A!State, A!StepBy
        <5>2. 8 * ((n + 1) - 1) + j = 8 * n + j
          BY <1>5, <4>2
        <5>. QED BY <5>1, <5>2 DEF A!ExtractByte, A!StreamByte
      <4>5. n + q <= MaxWords /\ n + (j \div 8) + 1 = n + q
        <5>1. n + words <= MaxWords /\ n \in Nat /\ words \in Nat
          BY <1>2, <1>3, <1>5
        <5>2. j \div 8 \in Int
          BY <4>2
        <5>3. n + (j \div 8) + 1 = n + q
          BY <5>1, <5>2
        <5>. HIDE DEF q
        <5>4. n + q <= MaxWords
          BY <4>2, <5>1, MaxWordsType
        <5>. QED BY <5>3, <5>4
      <4>6. RealByte(<<seed, 8 * n + j>>) = WordBytes(Trajectory[seed][n + q])[j % 8]
        BY <1>5, <4>2, <4>5, ByteIsReal
      <4>7. after[q] = Trajectory[seed][n + q]
        BY <1>6, <4>2
      <4>. QED BY <4>3, <4>4, <4>6, <4>7
    <3>. QED BY <3>1, <3>2
  <2>2. DOMAIN output' = 1..size /\ DOMAIN ret'.bytes = 1..size
    BY <1>3, <1>4
  <2>. QED BY <2>1, <2>2 DEF ServesExtractedBytes
<1>9. MessageInv'
  BY <1>3, <1>4 DEF DataInv, MessageInv
<1>. QED BY <1>7, <1>8, <1>9 DEF DataInv

LEMMA ExportData ==
  ASSUME A!TypeOK, DataInv, NEW c \in Ciphers, Export(c)
  PROVE  DataInv'
<1>1. /\ UNCHANGED <<place, home, tags>> /\ ret'.bytes = <<>>
      /\ blob' # <<>> /\ blob'.state = place[c]
  BY DEF Export, A!ExportState, A!Done, A!Answer, A!members
<1>2. Typed' /\ DataInPlace'
  BY <1>1, NothingInPlace DEF Export, DataInv
<1>3. ServesExtractedBytes'
  BY <1>1 DEF Export, ServesExtractedBytes
<1>4. MessageInv'
  <2>1. RealState(blob'.state) = state_[c] /\ state_[c] \in State
    BY <1>1 DEF DataInv, DataInPlace, Typed
  <2>2. message' \in {BinaryOf(state_[c]), JsonOf(state_[c])}
    BY DEF Export, BinaryOf, JsonOf
  <2>. QED BY <1>1, <2>1, <2>2 DEF MessageInv, MadeFrom
<1>. QED BY <1>2, <1>3, <1>4 DEF DataInv

LEMMA DamageData ==
  ASSUME ChecksumLaw, A!TypeOK, DataInv, Damage
  PROVE  DataInv'
<1>. DEFINE st == RealState(blob.state)
<1>1. /\ UNCHANGED <<place, home, tags, ret, blob>>
      /\ UNCHANGED <<state_, initial_state_, buffer_, output>>
      /\ message # <<>> /\ message.format = "binary" /\ Read(message).outcome = "ok"
  BY DEF Damage, calls
<1>2. Typed' /\ DataInPlace' /\ ServesExtractedBytes'
  BY <1>1, NothingInPlace DEF DataInv, ServesExtractedBytes
<1>3. blob # <<>> /\ st \in State /\ MadeFrom(message, st)
  BY <1>1 DEF DataInv, MessageInv
<1>. HIDE DEF st
<1>4. message = BinaryOf(st)
  <2>1. JsonOf(st).format # "binary"
    BY DEF JsonOf
  <2>. QED BY <1>1, <1>3, <2>1, DamagedRead DEF MadeFrom
<1>5. PICK d \in Damages : message' = [message EXCEPT !.data[d[1]] = d[2]]
  BY DEF Damage
<1>6. d[1] \in 0..43 /\ d[2] \in 0..255
  BY DamagesAssumption
<1>7. message' = DamagedOf(st, d[1], d[2])
  BY <1>4, <1>5 DEF BinaryOf, DamagedOf
<1>8. MessageInv'
  BY <1>1, <1>3, <1>6, <1>7 DEF MessageInv, MadeFrom, st
<1>. QED BY <1>2, <1>8 DEF DataInv

LEMMA ImportData ==
  ASSUME ChecksumLaw, A!TypeOK, DataInv, NEW c \in Ciphers, Import(c)
  PROVE  DataInv'
<1>1. CASE /\ Read(message).outcome = "ok" /\ A!ImportState(c) /\ Quiet
           /\ Assign(c, Loaded(Read(message).state), initial_state_[c], ZeroBytes)
  <2>1. /\ place' = [place EXCEPT ![c] = blob.state] /\ home' = home
        /\ tags' = [tags EXCEPT ![c] = A!ZeroBuffer]
        /\ ret'.bytes = <<>> /\ blob' = blob
    BY <1>1 DEF A!ImportState, A!DiscardLeftover, A!Done, A!Answer
  <2>2. RealState(blob.state) \in State /\ MadeFrom(message, RealState(blob.state))
    BY DEF Import, DataInv, MessageInv
  <2>3. Loaded(Read(message).state) = RealState(blob.state)
    BY <1>1, <2>2, MadeFromRead
  <2>4. home' = [home EXCEPT ![c] = home[c]]
    BY <2>1 DEF A!TypeOK
  <2>5. initial_state_[c] \in State /\ initial_state_[c] = RealState(home[c])
    BY DEF DataInv, Typed, DataInPlace
  <2>6. Typed' /\ DataInPlace'
    <3>. DEFINE st == Loaded(Read(message).state)
    <3>1. /\ st \in State /\ st = RealState(blob.state) /\ Typed /\ DataInPlace
          /\ Assign(c, st, initial_state_[c], ZeroBytes)
      BY <1>1, <2>2, <2>3 DEF DataInv
    <3>. HIDE DEF st
    <3>. QED BY <2>1, <2>4, <2>5, <3>1, WipedBytes, OneInPlace
  <2>. QED BY <1>1, <2>1, <2>6, QuietInPlace DEF DataInv
<1>2. CASE A!ImportThrows(c) /\ Throws
  <2>1. /\ UNCHANGED <<place, home, tags>> /\ ret'.bytes = <<>> /\ blob' = blob
    BY <1>2 DEF A!ImportThrows, A!Throws, A!Answer, A!members
  <2>. QED BY <1>2, <2>1, NothingInPlace, QuietInPlace DEF DataInv, Throws
<1>. QED BY <1>1, <1>2 DEF Import

-----------------------------------------------------------------------------
(* The theorems of CipherProofs; A has the same definitions.               *)

P == INSTANCE CipherProofs WITH
       state_ <- place, initial_state_ <- home, buffer_ <- tags

LEMMA SameInit == A!Init => P!Init
  BY
  DEF P!Init, A!Init, P!Wiped, A!Wiped,
      P!ZeroBuffer, A!ZeroBuffer, P!ZeroByte,
      A!ZeroByte, P!NoMaterial, A!NoMaterial, P!Answer,
      A!Answer

LEMMA SameNext == [A!Next]_(A!vars) => [P!Next]_(P!vars)
<1>1. A!Next => P!Next
  BY
  DEF P!Seeds, A!Seeds, P!members, A!members,
      P!Wiped, A!Wiped, P!StreamByte, A!StreamByte,
      P!ZeroByte, A!ZeroByte, P!ZeroBuffer,
      A!ZeroBuffer, P!NoMaterial, A!NoMaterial,
      P!Zeroed, A!Zeroed, P!DeriveState, A!DeriveState,
      P!StepBy, A!StepBy, P!ExtractByte, A!ExtractByte,
      P!Answer, A!Answer, P!Done, A!Done, P!Throws,
      A!Throws, P!Assign, A!Assign, P!Arguments,
      A!Arguments, P!HasKey, A!HasKey, P!Construct,
      A!Construct, P!ConstructThrows, A!ConstructThrows,
      P!Destroy, A!Destroy, P!Moved, A!Moved,
      P!Transfer, A!Transfer, P!MoveConstruct,
      A!MoveConstruct, P!MoveAssign, A!MoveAssign,
      P!DrainLength, A!DrainLength, P!Generate,
      A!Generate, P!NextWord, A!NextWord,
      P!DiscardLeftover, A!DiscardLeftover, P!Reset,
      A!Reset, P!Reseed, A!Reseed, P!ReseedWithoutKey,
      A!ReseedWithoutKey, P!PartlyCopied, A!PartlyCopied,
      P!ReseedThrows, A!ReseedThrows, P!NextByte,
      A!NextByte, P!ExportState, A!ExportState,
      P!ImportState, A!ImportState, P!ImportThrows,
      A!ImportThrows, P!Next, A!Next
<1>2. UNCHANGED A!vars => UNCHANGED P!vars
  BY DEF P!vars, A!vars, P!members, A!members
<1>. QED BY <1>1, <1>2

LEMMA SameKeystream ==
  /\ P!K!Init => A!K!Init
  /\ [P!K!Next]_(P!K!kvars) => [A!K!Next]_(A!K!kvars)
<1>1. P!K!Init => A!K!Init
  BY
  DEF P!K!Init, A!K!Init, P!BegunOf, A!BegunOf,
      P!HeldBy, A!HeldBy, P!Seeds, A!Seeds
<1>2. P!K!Next => A!K!Next
  BY
  DEF P!K!Attach, A!K!Attach, P!K!Silent, A!K!Silent,
      P!K!Start, A!K!Start, P!K!Drop, A!K!Drop,
      P!K!Rewind, A!K!Rewind, P!K!Save, A!K!Save,
      P!K!Restore, A!K!Restore, P!K!Move, A!K!Move,
      P!K!Refuse, A!K!Refuse, P!K!Positions,
      A!K!Positions, P!K!Serve, A!K!Serve,
      P!K!ServeWord, A!K!ServeWord, P!K!ServeVoid,
      A!K!ServeVoid, P!K!StreamByte, A!K!StreamByte,
      P!K!Next, A!K!Next, P!BegunOf, A!BegunOf,
      P!HeldBy, A!HeldBy, P!Seeds, A!Seeds
<1>3. UNCHANGED P!K!kvars => UNCHANGED A!K!kvars
  BY
  DEF P!K!kvars, A!K!kvars, P!BegunOf, A!BegunOf,
      P!HeldBy, A!HeldBy, P!Seeds, A!Seeds
<1>. QED BY <1>1, <1>2, <1>3

LEMMA SameType == A!TypeOK <=> P!TypeOK
  BY
  DEF P!TypeOK, A!TypeOK, P!State, A!State, P!Byte, A!Byte, P!Material, A!Material,
      P!Seeds, A!Seeds, P!ZeroByte, A!ZeroByte

\* What module Cipher asks of its parameters.
LEMMA CipherAssumptions ==
  /\ GenerateSizes \subseteq Nat /\ MaxWords \in Nat
  /\ P!SizesAssumption /\ P!ZeroSeedAssumption
  BY SessionAssumption DEF P!SizesAssumption, P!ZeroSeedAssumption, P!Seeds, A!Seeds

-----------------------------------------------------------------------------
(* The library.                                                            *)

\* Every call is the call of module Cipher that it is named after, and what
\* happens to a message is none.
LEMMA CallsOfCipher == [Next]_sessionVars => [A!Next]_(A!vars)
<1>. SUFFICES ASSUME [Next]_sessionVars PROVE A!Next \/ UNCHANGED A!vars
  OBVIOUS
<1>1. CASE UNCHANGED calls
  BY <1>1 DEF calls, A!vars, A!members
<1>2. ASSUME NEW c \in Ciphers,
             \/ Destroy(c) \/ NextWord(c) \/ Reset(c) \/ Export(c) \/ Import(c)
      PROVE  A!Next
  <2>1. \/ A!Destroy(c) \/ A!NextWord(c) \/ A!Reset(c) \/ A!ExportState(c)
        \/ A!ImportState(c) \/ A!ImportThrows(c)
    BY <1>2 DEF Destroy, NextWord, Reset, Export, Import
  <2>. QED BY <2>1 DEF A!Next
<1>3. ASSUME NEW c \in Ciphers, NEW size \in GenerateSizes, Generate(c, size)
      PROVE  A!Next
  BY <1>3 DEF Generate, A!Next
<1>4. ASSUME NEW c \in Ciphers, NEW m \in A!Arguments, Derive(c, m) \/ DeriveThrows(c, m)
      PROVE  A!Next
  <2>1. \/ A!Construct(c, m) \/ A!Reseed(c, m) \/ A!ConstructThrows(c, m)
        \/ A!ReseedWithoutKey(c, m) \/ A!ReseedThrows(c, m)
    BY <1>4 DEF Derive, DeriveThrows
  <2>. QED BY <2>1 DEF A!Next
<1>5. ASSUME NEW to \in Ciphers, NEW from \in Ciphers, Move(to, from)
      PROVE  A!Next
  BY <1>5 DEF Move, A!Next
<1>6. CASE Damage
  BY <1>1, <1>6 DEF Damage
<1>. QED BY <1>1, <1>2, <1>3, <1>4, <1>5, <1>6 DEF Next, sessionVars

LEMMA TypeNext == A!TypeOK /\ [Next]_sessionVars => A!TypeOK'
<1>1. P!TypeOK /\ [P!Next]_(P!vars) => P!TypeOK'
  BY CipherAssumptions, P!NextType, Zenon
<1>2. A!TypeOK' <=> P!TypeOK'
  BY
  DEF P!TypeOK, A!TypeOK, P!State, A!State, P!Byte, A!Byte, P!Material, A!Material,
      P!Seeds, A!Seeds, P!ZeroByte, A!ZeroByte
<1>. QED BY <1>1, <1>2, SameType, SameNext, CallsOfCipher

LEMMA DataNext ==
  ASSUME ChecksumLaw
  PROVE  A!TypeOK /\ DataInv /\ [Next]_sessionVars => DataInv'
<1>. SUFFICES ASSUME A!TypeOK, DataInv, [Next]_sessionVars PROVE DataInv'
  OBVIOUS
<1>1. CASE UNCHANGED sessionVars
  BY <1>1 DEF sessionVars, calls, DataInv, Typed, DataInPlace, ServesExtractedBytes,
              MessageInv
<1>2. ASSUME NEW c \in Ciphers,
             \/ Destroy(c) \/ NextWord(c) \/ Reset(c) \/ Export(c) \/ Import(c)
      PROVE  DataInv'
  BY <1>2, DestroyData, NextWordData, ResetData, ExportData, ImportData
<1>3. ASSUME NEW c \in Ciphers, NEW size \in GenerateSizes, Generate(c, size)
      PROVE  DataInv'
  BY <1>3, GenerateData
<1>4. ASSUME NEW c \in Ciphers, NEW m \in A!Arguments, Derive(c, m) \/ DeriveThrows(c, m)
      PROVE  DataInv'
  BY <1>4, DeriveData, DeriveThrowsData
<1>5. ASSUME NEW to \in Ciphers, NEW from \in Ciphers, Move(to, from)
      PROVE  DataInv'
  BY <1>5, MoveData
<1>6. CASE Damage
  BY <1>6, DamageData
<1>. QED BY <1>1, <1>2, <1>3, <1>4, <1>5, <1>6 DEF Next

LEMMA SessionInvariant ==
  ASSUME ChecksumLaw
  PROVE  Spec => []DataInv
  BY InitData, TypeNext, DataNext, PTL DEF Spec

\* DataInPlace: whatever calls are made on however many objects, failed ones
\* among them, the States and buffers in memory are those that step() and
\* extract() lead to from the key material, as many steps on as module Cipher
\* says; so what is proved of places and positions holds of the data.
THEOREM DataCorrect ==
  ASSUME ChecksumLaw
  PROVE  Spec => []DataInPlace
<1>1. DataInv => DataInPlace
  BY DEF DataInv
<1>. QED BY <1>1, SessionInvariant, PTL

\* ServesExtractedBytes: generate() and next() return the bytes of the words
\* extracted along the stream, each in its place, through leftover bytes, whole
\* words and the last word of a call.
THEOREM BytesCorrect ==
  ASSUME ChecksumLaw
  PROVE  Spec => []ServesExtractedBytes
<1>1. DataInv => ServesExtractedBytes
  BY DEF DataInv
<1>. QED BY <1>1, SessionInvariant, PTL

\* MessageHoldsExport: what an import accepts, in either format and after a
\* byte of a frame was damaged, is the State the exporter had.
THEOREM MessageCorrect ==
  ASSUME ChecksumLaw
  PROVE  Spec => []MessageHoldsExport
<1>1. DataInv => MessageHoldsExport
  BY MessageHolds DEF DataInv
<1>. QED BY <1>1, SessionInvariant, PTL

LEMMA KeystreamServed == Spec => A!ImplementsKeystream
<1>1. P!Spec => P!ImplementsKeystream
  BY CipherAssumptions, P!Refinement, Zenon
<1>2. Init => P!Init
  BY SameInit DEF Init
<1>3. Spec => P!Spec
  BY <1>2, CallsOfCipher, SameNext, PTL DEF Spec, P!Spec
<1>4. P!ImplementsKeystream => A!ImplementsKeystream
  BY SameKeystream, PTL DEF P!ImplementsKeystream, A!ImplementsKeystream,
     P!K!Spec, A!K!Spec
<1>. QED BY <1>1, <1>3, <1>4

\* The whole library, with the checksum of the source: the bytes that clients
\* get are those of the words extracted along their streams (ServesExtractedBytes),
\* in order and none twice (ImplementsKeystream), and an import goes on from the
\* State that was exported or refuses.
THEOREM LibraryCorrect ==
  ASSUME SP!TheChecksum
  PROVE  Spec => /\ [](DataInPlace /\ ServesExtractedBytes /\ MessageHoldsExport)
                 /\ A!ImplementsKeystream
<1>1. ChecksumLaw
  BY NothingInTransit, SP!Crc32Suffices, Zenon DEF ChecksumLaw
<1>. QED BY <1>1, DataCorrect, BytesCorrect, MessageCorrect, KeystreamServed, PTL

=============================================================================
