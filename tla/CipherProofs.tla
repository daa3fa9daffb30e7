----------------------------- MODULE CipherProofs -----------------------------
(***************************************************************************)
(* Proofs, for every choice of the constants, of the invariants of module  *)
(* CipherProperties.                                                       *)
(***************************************************************************)
EXTENDS CipherProperties, TLAPS

-----------------------------------------------------------------------------
(* What the helpers return.                                                *)

LEMMA WipedType == Wiped \in State
  BY DEF Wiped, State

LEMMA ZeroBufferType == ZeroBuffer \in [0..7 -> Byte]
  BY DEF ZeroBuffer, Byte

LEMMA DeriveStateType ==
  ASSUME NEW m \in Arguments, HasKey(m)
  PROVE  DeriveState(m) \in State
  BY DEF Arguments, HasKey, DeriveState, State, Seeds

LEMMA StepByType ==
  ASSUME NEW s \in State, NEW k \in Nat
  PROVE  /\ StepBy(s, k) \in State
         /\ StepBy(s, k).seed = s.seed
         /\ StepBy(s, k).n = s.n + k
  BY DEF StepBy, State

LEMMA ExtractByteType ==
  ASSUME NEW s \in State, s.n > 0, NEW i \in 0..7
  PROVE  ExtractByte(s, i) \in Byte
  BY DEF ExtractByte, StreamByte, Byte, State

LEMMA ArgumentsType == Arguments \subseteq Material
  BY DEF Arguments, Material

LEMMA PartlyCopiedType ==
  ASSUME NEW old \in Material, NEW m \in Arguments, NEW failed \in 1..4
  PROVE  PartlyCopied(old, m, failed) \in Material
  BY DEF PartlyCopied, Material, Arguments, Zeroed

LEMMA NextByteType ==
  ASSUME TypeOK, NEW c \in Ciphers
  PROVE  NextByte(c) \in Byte
<1>1. CASE buffer_pos_[c] < 8
  BY <1>1 DEF TypeOK, NextByte
<1>2. CASE ~(buffer_pos_[c] < 8)
  <2>1. state_[c] \in State /\ state_[c].n \in Nat
    BY DEF TypeOK, State
  <2>2. StepBy(state_[c], 1) \in State /\ StepBy(state_[c], 1).n = state_[c].n + 1
    BY <2>1, StepByType
  <2>3. StepBy(state_[c], 1).n > 0
    BY <2>1, <2>2
  <2>4. ExtractByte(StepBy(state_[c], 1), 0) \in Byte
    BY <2>2, <2>3, ExtractByteType
  <2>. QED BY <1>2, <2>4 DEF NextByte
<1>. QED BY <1>1, <1>2

-----------------------------------------------------------------------------
(* Type correctness.                                                       *)

\* Assigning members of their types to one object keeps every type.
LEMMA AssignType ==
  ASSUME TypeOK, NEW c \in Ciphers,
         NEW st \in State, NEW init \in State, NEW buf \in [0..7 -> Byte],
         NEW pos \in 0..8, NEW mat \in Material,
         Assign(c, st, init, buf, pos, mat)
  PROVE  /\ state_'         \in [Ciphers -> State]
         /\ initial_state_' \in [Ciphers -> State]
         /\ buffer_'        \in [Ciphers -> [0..7 -> Byte]]
         /\ buffer_pos_'    \in [Ciphers -> 0..8]
         /\ material_'      \in [Ciphers -> Material]
  BY DEF TypeOK, Assign

LEMMA MovedType ==
  ASSUME NEW T, NEW member \in [Ciphers -> T], NEW residue \in T,
         NEW to \in Ciphers, NEW from \in Ciphers
  PROVE  Moved(member, to, from, residue) \in [Ciphers -> T]
  BY DEF Moved

\* So does moving the members of one object into another.
LEMMA TransferType ==
  ASSUME TypeOK, NEW to \in Ciphers, NEW from \in Ciphers, Transfer(to, from)
  PROVE  /\ state_'         \in [Ciphers -> State]
         /\ initial_state_' \in [Ciphers -> State]
         /\ buffer_'        \in [Ciphers -> [0..7 -> Byte]]
         /\ buffer_pos_'    \in [Ciphers -> 0..8]
         /\ material_'      \in [Ciphers -> Material]
         /\ blob' = blob
<1>1. NoMaterial \in Material
  BY DEF NoMaterial, Material
<1>2. /\ state_ \in [Ciphers -> State] /\ initial_state_ \in [Ciphers -> State]
      /\ buffer_ \in [Ciphers -> [0..7 -> Byte]]
      /\ buffer_pos_ \in [Ciphers -> 0..8]
      /\ material_ \in [Ciphers -> Material]
  BY DEF TypeOK
<1>3. 8 \in 0..8
  OBVIOUS
<1>. QED BY <1>1, <1>2, <1>3, MovedType, WipedType, ZeroBufferType DEF Transfer

\* The drained bytes and the words a call of generate() takes.
LEMMA DrainLengthType ==
  ASSUME TypeOK, NEW c \in Ciphers, NEW size \in GenerateSizes
  PROVE  /\ size \in Nat
         /\ DrainLength(c, size) \in 0..8
         /\ size - DrainLength(c, size) \in Nat
         /\ buffer_pos_[c] + DrainLength(c, size) \in 0..8
         /\ (size - DrainLength(c, size) > 0
               => buffer_pos_[c] + DrainLength(c, size) = 8)
<1>1. size \in Nat /\ buffer_pos_[c] \in 0..8
  BY SizesAssumption DEF TypeOK
<1>. QED BY <1>1 DEF DrainLength

\* What generate() does to an object, in the terms the invariants use: it
\* either advances whole words and leaves the buffer as it was but for the
\* drained bytes, or it leaves part of a freshly drawn word in the buffer.
LEMMA GenerateEffect ==
  ASSUME TypeOK, NEW c \in Ciphers, NEW size \in GenerateSizes,
         Generate(c, size)
  PROVE  /\ UNCHANGED <<live, initial_state_, material_, blob>>
         /\ ret'.op = "generate"
         /\ \E k \in Nat :
              /\ state_' = [state_ EXCEPT ![c] = StepBy(state_[c], k)]
              /\ \/ /\ buffer_' = buffer_
                    /\ \E pos \in buffer_pos_[c] .. 8 :
                         buffer_pos_' = [buffer_pos_ EXCEPT ![c] = pos]
                 \/ /\ k > 0
                    /\ buffer_' = [buffer_ EXCEPT
                         ![c] = [i \in 0..7 |->
                                   ExtractByte(StepBy(state_[c], k), i)]]
                    /\ \E pos \in 0..7 :
                         buffer_pos_' = [buffer_pos_ EXCEPT ![c] = pos]
<1>. DEFINE drained == DrainLength(c, size)
            words   == (size - drained) \div 8
            tail    == (size - drained) % 8
            steps   == words + (IF tail > 0 THEN 1 ELSE 0)
            last    == StepBy(state_[c], steps)
<1>1. /\ drained \in 0..8 /\ size - drained \in Nat
      /\ buffer_pos_[c] + drained \in 0..8 /\ buffer_pos_[c] \in 0..8
  BY DrainLengthType DEF TypeOK
<1>2. words \in Nat /\ tail \in 0..7
  BY <1>1
<1>3. steps \in Nat /\ (tail > 0 => steps > 0)
  BY <1>2
<1>4. /\ UNCHANGED <<live, initial_state_, material_, blob>>
      /\ ret'.op = "generate"
      /\ state_' = [state_ EXCEPT ![c] = last]
      /\ IF tail > 0
         THEN /\ buffer_' = [buffer_ EXCEPT
                               ![c] = [i \in 0..7 |-> ExtractByte(last, i)]]
              /\ buffer_pos_' = [buffer_pos_ EXCEPT ![c] = tail]
         ELSE /\ UNCHANGED buffer_
              /\ buffer_pos_' = [buffer_pos_ EXCEPT ![c] = @ + drained]
  BY DEF Generate, Answer
<1>. HIDE DEF steps, tail, words, drained
<1>5. CASE tail > 0
  BY <1>2, <1>3, <1>4, <1>5
<1>6. CASE ~(tail > 0)
  <2>1. buffer_pos_' = [buffer_pos_ EXCEPT ![c] = buffer_pos_[c] + drained]
    BY <1>4, <1>6
  <2>2. buffer_pos_[c] + drained \in buffer_pos_[c] .. 8
    BY <1>1
  <2>. QED BY <1>3, <1>4, <1>6, <2>1, <2>2
<1>. QED BY <1>5, <1>6

LEMMA GenerateType ==
  ASSUME TypeOK, NEW c \in Ciphers, NEW size \in GenerateSizes,
         Generate(c, size)
  PROVE  TypeOK'
<1>1. PICK k \in Nat :
        /\ state_' = [state_ EXCEPT ![c] = StepBy(state_[c], k)]
        /\ \/ /\ buffer_' = buffer_
              /\ \E pos \in buffer_pos_[c] .. 8 :
                   buffer_pos_' = [buffer_pos_ EXCEPT ![c] = pos]
           \/ /\ k > 0
              /\ buffer_' = [buffer_ EXCEPT
                   ![c] = [i \in 0..7 |->
                             ExtractByte(StepBy(state_[c], k), i)]]
              /\ \E pos \in 0..7 :
                   buffer_pos_' = [buffer_pos_ EXCEPT ![c] = pos]
  BY GenerateEffect
<1>2. state_[c] \in State /\ state_[c].n \in Nat /\ buffer_pos_[c] \in 0..8
  BY DEF TypeOK, State
<1>3. StepBy(state_[c], k) \in State /\ StepBy(state_[c], k).n = state_[c].n + k
  BY <1>2, StepByType
<1>4. state_' \in [Ciphers -> State]
  BY <1>1, <1>3 DEF TypeOK
<1>5. buffer_' \in [Ciphers -> [0..7 -> Byte]]
  <2>1. CASE buffer_' = buffer_
    BY <2>1 DEF TypeOK
  <2>2. CASE /\ k > 0
             /\ buffer_' = [buffer_ EXCEPT
                  ![c] = [i \in 0..7 |-> ExtractByte(StepBy(state_[c], k), i)]]
    <3>1. StepBy(state_[c], k).n > 0
      BY <1>2, <1>3, <2>2
    <3>2. [i \in 0..7 |-> ExtractByte(StepBy(state_[c], k), i)] \in [0..7 -> Byte]
      BY <1>3, <3>1, ExtractByteType
    <3>. QED BY <2>2, <3>2 DEF TypeOK
  <2>. QED BY <1>1, <2>1, <2>2
<1>6. buffer_pos_' \in [Ciphers -> 0..8]
  <2>1. PICK pos \in 0..8 : buffer_pos_' = [buffer_pos_ EXCEPT ![c] = pos]
    BY <1>1, <1>2
  <2>. QED BY <2>1 DEF TypeOK
<1>. QED BY <1>4, <1>5, <1>6, GenerateEffect DEF TypeOK

LEMMA InitType == Init => TypeOK
<1>1. NoMaterial \in Material
  BY DEF NoMaterial, Material
<1>. QED BY <1>1, WipedType, ZeroBufferType DEF Init, TypeOK

LEMMA NextType == TypeOK /\ [Next]_vars => TypeOK'
<1>. SUFFICES ASSUME TypeOK, [Next]_vars PROVE TypeOK'
  OBVIOUS
<1>. USE WipedType, ZeroBufferType
<1>1. CASE UNCHANGED vars
  BY <1>1 DEF TypeOK, vars, members
<1>2. ASSUME NEW c \in Ciphers, Destroy(c) PROVE TypeOK'
  <2>1. NoMaterial \in Material /\ buffer_pos_[c] \in 0..8
    BY DEF NoMaterial, Material, TypeOK
  <2>2. Assign(c, Wiped, Wiped, ZeroBuffer, buffer_pos_[c], NoMaterial)
    BY <1>2 DEF Destroy
  <2>. QED BY <1>2, <2>1, <2>2, AssignType DEF Destroy, TypeOK
<1>3. ASSUME NEW c \in Ciphers, NextWord(c) PROVE TypeOK'
  <2>1. StepBy(state_[c], 1) \in State
    BY StepByType DEF TypeOK
  <2>. QED BY <1>3, <2>1 DEF NextWord, TypeOK
<1>4. ASSUME NEW c \in Ciphers, Reset(c) PROVE TypeOK'
  BY <1>4 DEF Reset, DiscardLeftover, TypeOK
<1>5. ASSUME NEW c \in Ciphers, ExportState(c) PROVE TypeOK'
  BY <1>5, NextByteType DEF ExportState, TypeOK, members
<1>6. ASSUME NEW c \in Ciphers, ImportState(c) PROVE TypeOK'
  <2>1. blob.state \in State
    BY <1>6 DEF ImportState, TypeOK
  <2>. QED BY <1>6, <2>1 DEF ImportState, DiscardLeftover, TypeOK
<1>7. ASSUME NEW c \in Ciphers, ImportThrows(c) PROVE TypeOK'
  BY <1>7 DEF ImportThrows, Throws, TypeOK, members
<1>8. ASSUME NEW c \in Ciphers, NEW size \in GenerateSizes, Generate(c, size)
      PROVE  TypeOK'
  BY <1>8, GenerateType
<1>9. ASSUME NEW c \in Ciphers, NEW m \in Arguments,
             Construct(c, m) \/ Reseed(c, m)
      PROVE  TypeOK'
  <2>1. Assign(c, DeriveState(m), DeriveState(m), ZeroBuffer, 8, m)
    BY <1>9 DEF Construct, Reseed
  <2>2. DeriveState(m) \in State /\ m \in Material /\ 8 \in 0..8
    BY <1>9, DeriveStateType, ArgumentsType DEF Construct, Reseed
  <2>. QED BY <1>9, <2>1, <2>2, AssignType DEF Construct, Reseed, TypeOK
<1>10. ASSUME NEW c \in Ciphers, NEW m \in Arguments,
              ConstructThrows(c, m) \/ ReseedWithoutKey(c, m)
       PROVE  TypeOK'
  BY <1>10 DEF ConstructThrows, ReseedWithoutKey, Throws, TypeOK, members
<1>11. ASSUME NEW c \in Ciphers, NEW m \in Arguments, ReseedThrows(c, m)
       PROVE  TypeOK'
  <2>1. PICK failed \in 1..4 :
          Assign(c, Wiped, Wiped, ZeroBuffer, buffer_pos_[c],
                 PartlyCopied(material_[c], m, failed))
    BY <1>11 DEF ReseedThrows
  <2>2. PartlyCopied(material_[c], m, failed) \in Material
    BY PartlyCopiedType DEF TypeOK
  <2>3. buffer_pos_[c] \in 0..8
    BY DEF TypeOK
  <2>. QED BY <1>11, <2>1, <2>2, <2>3, AssignType DEF ReseedThrows, TypeOK
<1>12. ASSUME NEW to \in Ciphers, NEW from \in Ciphers,
              MoveConstruct(to, from) \/ MoveAssign(to, from)
       PROVE  TypeOK'
  <2>1. CASE Transfer(to, from)
    BY <1>12, <2>1, TransferType DEF MoveConstruct, MoveAssign, TypeOK
  <2>2. CASE ~Transfer(to, from)
    BY <1>12, <2>2 DEF MoveConstruct, MoveAssign, TypeOK, members
  <2>. QED BY <2>1, <2>2
<1>. QED
  BY <1>1, <1>2, <1>3, <1>4, <1>5, <1>6, <1>7, <1>8, <1>9, <1>10, <1>11, <1>12
  DEF Next

\* Every member of every Cipher object keeps its type; in particular the read
\* position of generate() stays within the buffer it indexes.
THEOREM TypeCorrect == Spec => []TypeOK
  BY InitType, NextType, PTL DEF Spec

-----------------------------------------------------------------------------
(* reset() goes home to what the key material derives.                     *)

LEMMA HomeInit == Init => HomeMatchesMaterial
  BY DEF Init, HomeMatchesMaterial

LEMMA HomeNext ==
  TypeOK /\ HomeMatchesMaterial /\ [Next]_vars => HomeMatchesMaterial'
<1>. SUFFICES ASSUME TypeOK, HomeMatchesMaterial, [Next]_vars
              PROVE  HomeMatchesMaterial'
  OBVIOUS
<1>1. CASE UNCHANGED <<initial_state_, material_>>
  BY <1>1 DEF HomeMatchesMaterial, Wiped, DeriveState
<1>2. ASSUME NEW c \in Ciphers, NEW st, NEW init, NEW buf, NEW pos, NEW mat,
             Assign(c, st, init, buf, pos, mat),
             init = Wiped \/ init = DeriveState(mat)
      PROVE  HomeMatchesMaterial'
  <2>. SUFFICES ASSUME NEW d \in Ciphers
                PROVE  \/ initial_state_'[d] = Wiped
                       \/ initial_state_'[d] = DeriveState(material_'[d])
    BY DEF HomeMatchesMaterial, Wiped, DeriveState
  <2>1. /\ initial_state_'[d] = IF d = c THEN init ELSE initial_state_[d]
        /\ material_'[d] = IF d = c THEN mat ELSE material_[d]
    BY <1>2 DEF Assign, TypeOK
  <2>. QED BY <1>2, <2>1 DEF HomeMatchesMaterial
<1>3. ASSUME NEW to \in Ciphers, NEW from \in Ciphers, Transfer(to, from)
      PROVE  HomeMatchesMaterial'
  <2>. SUFFICES ASSUME NEW d \in Ciphers
                PROVE  \/ initial_state_'[d] = Wiped
                       \/ initial_state_'[d] = DeriveState(material_'[d])
    BY DEF HomeMatchesMaterial, Wiped, DeriveState
  <2>1. CASE d = from
    BY <1>3, <2>1 DEF Transfer, Moved, TypeOK
  <2>2. CASE d = to /\ d # from
    <3>1. initial_state_'[d] = initial_state_[from] /\ material_'[d] = material_[from]
      BY <1>3, <2>2 DEF Transfer, Moved, TypeOK
    <3>. QED BY <3>1 DEF HomeMatchesMaterial
  <2>3. CASE d # to /\ d # from
    <3>1. initial_state_'[d] = initial_state_[d] /\ material_'[d] = material_[d]
      BY <1>3, <2>3 DEF Transfer, Moved, TypeOK
    <3>. QED BY <3>1 DEF HomeMatchesMaterial
  <2>. QED BY <2>1, <2>2, <2>3
<1>4. ASSUME NEW c \in Ciphers, Destroy(c) PROVE HomeMatchesMaterial'
  BY <1>2, <1>4 DEF Destroy
<1>5. ASSUME NEW c \in Ciphers, NEW m \in Arguments,
             Construct(c, m) \/ Reseed(c, m)
      PROVE  HomeMatchesMaterial'
  BY <1>2, <1>5 DEF Construct, Reseed
<1>6. ASSUME NEW c \in Ciphers, NEW m \in Arguments, ReseedThrows(c, m)
      PROVE  HomeMatchesMaterial'
  BY <1>2, <1>6 DEF ReseedThrows
<1>7. ASSUME NEW to \in Ciphers, NEW from \in Ciphers,
             MoveConstruct(to, from) \/ MoveAssign(to, from)
      PROVE  HomeMatchesMaterial'
  BY <1>1, <1>3, <1>7 DEF MoveConstruct, MoveAssign, members
<1>8. ASSUME NEW c \in Ciphers,
             \/ NextWord(c) \/ Reset(c) \/ ExportState(c)
             \/ ImportState(c) \/ ImportThrows(c)
             \/ \E size \in GenerateSizes : Generate(c, size)
             \/ \E m \in Arguments : ConstructThrows(c, m) \/ ReseedWithoutKey(c, m)
      PROVE  HomeMatchesMaterial'
  <2>1. UNCHANGED <<initial_state_, material_>>
    BY <1>8 DEF NextWord, Reset, ExportState, ImportState, ImportThrows, Generate,
                ConstructThrows, ReseedWithoutKey, Throws, members
  <2>. QED BY <1>1, <2>1
<1>9. CASE UNCHANGED vars
  BY <1>1, <1>9 DEF vars, members
<1>. QED BY <1>4, <1>5, <1>6, <1>7, <1>8, <1>9 DEF Next

\* Through any sequence of reseeds, failures, imports and moves, reset()
\* returns an object to the stream its key material derives, or to none.
THEOREM HomeCorrect == Spec => []HomeMatchesMaterial
  BY InitType, NextType, HomeInit, HomeNext, PTL DEF Spec

-----------------------------------------------------------------------------
(* The buffer is in step with the State.                                   *)

LEMMA ByteOfWord ==
  ASSUME NEW s \in State, NEW m \in Nat, NEW i \in 0..7
  PROVE  WordOf(s, m)[i] = <<s.seed, 8 * (m - 1) + i>>
  BY DEF WordOf, ExtractByte, StreamByte, State

LEMMA WordIsNotZero ==
  ASSUME NEW s \in State, NEW m \in Nat, m > 0
  PROVE  WordOf(s, m) # ZeroBuffer
<1>1. 0 \in 0..7
  OBVIOUS
<1>2. WordOf(s, m)[0] = <<s.seed, 8 * (m - 1) + 0>>
  BY <1>1, ByteOfWord
<1>3. ZeroBuffer[0] = <<ZeroSeed, -1>>
  BY DEF ZeroBuffer, ZeroByte
<1>4. 8 * (m - 1) + 0 # -1
  OBVIOUS
<1>. QED BY <1>2, <1>3, <1>4

\* A word that was produced stays so however far the State steps on.
LEMMA ProducedLater ==
  ASSUME NEW s \in State, NEW k \in Nat, NEW word, Produced(word, s)
  PROVE  Produced(word, StepBy(s, k))
<1>1. PICK m \in 1..s.n : word = WordOf(s, m)
  BY DEF Produced
<1>2. StepBy(s, k) \in State /\ StepBy(s, k).n = s.n + k /\ s.n \in Nat
  BY StepByType DEF State
<1>3. m \in 1 .. StepBy(s, k).n
  BY <1>1, <1>2
<1>4. WordOf(StepBy(s, k), m) = WordOf(s, m)
  BY DEF WordOf, StepBy, State
<1>. QED BY <1>1, <1>3, <1>4 DEF Produced

LEMMA NewestIsProduced ==
  ASSUME NEW s \in State, s.n > 0
  PROVE  Produced([i \in 0..7 |-> ExtractByte(s, i)], s)
<1>1. s.n \in 1..s.n
  BY DEF State
<1>2. [s EXCEPT !.n = s.n] = s
  BY DEF State
<1>. QED BY <1>1, <1>2 DEF Produced, WordOf

\* An empty buffer fits every State.
LEMMA EmptyInStep == ASSUME NEW s PROVE InStep(s, ZeroBuffer, 8)
  BY DEF InStep

LEMMA BufferInit == Init => BufferInStep
  BY EmptyInStep DEF Init, BufferInStep

LEMMA BufferGenerate ==
  ASSUME TypeOK, BufferInStep, NEW c \in Ciphers,
         NEW size \in GenerateSizes, Generate(c, size)
  PROVE  BufferInStep'
<1>1. PICK k \in Nat :
        /\ state_' = [state_ EXCEPT ![c] = StepBy(state_[c], k)]
        /\ \/ /\ buffer_' = buffer_
              /\ \E pos \in buffer_pos_[c] .. 8 :
                   buffer_pos_' = [buffer_pos_ EXCEPT ![c] = pos]
           \/ /\ k > 0
              /\ buffer_' = [buffer_ EXCEPT
                   ![c] = [i \in 0..7 |->
                             ExtractByte(StepBy(state_[c], k), i)]]
              /\ \E pos \in 0..7 :
                   buffer_pos_' = [buffer_pos_ EXCEPT ![c] = pos]
  BY GenerateEffect
<1>2. /\ state_[c] \in State /\ state_[c].n \in Nat
      /\ buffer_pos_[c] \in 0..8
      /\ InStep(state_[c], buffer_[c], buffer_pos_[c])
  BY DEF TypeOK, State, BufferInStep
<1>3. /\ StepBy(state_[c], k) \in State
      /\ StepBy(state_[c], k).n = state_[c].n + k
      /\ StepBy(state_[c], k).seed = state_[c].seed
  BY <1>2, StepByType
<1>4. state_'[c] = StepBy(state_[c], k)
  BY <1>1 DEF TypeOK
<1>5. InStep(state_'[c], buffer_'[c], buffer_pos_'[c])
  <2>1. CASE /\ buffer_' = buffer_
             /\ \E pos \in buffer_pos_[c] .. 8 :
                  buffer_pos_' = [buffer_pos_ EXCEPT ![c] = pos]
    <3>1. buffer_pos_'[c] < 8 => buffer_pos_[c] < 8
      BY <1>2, <2>1 DEF TypeOK
    <3>2. Produced(buffer_[c], state_[c]) => Produced(buffer_[c], state_'[c])
      BY <1>2, <1>4, ProducedLater
    <3>. QED BY <1>2, <1>3, <1>4, <2>1, <3>1, <3>2 DEF InStep
  <2>2. CASE /\ k > 0
             /\ buffer_' = [buffer_ EXCEPT
                  ![c] = [i \in 0..7 |-> ExtractByte(StepBy(state_[c], k), i)]]
    <3>1. StepBy(state_[c], k).n > 0
      BY <1>2, <1>3, <2>2
    <3>2. buffer_'[c] = [i \in 0..7 |-> ExtractByte(state_'[c], i)]
      BY <1>4, <2>2 DEF TypeOK
    <3>3. Produced(buffer_'[c], state_'[c])
      BY <1>3, <1>4, <3>1, <3>2, NewestIsProduced
    <3>4. buffer_'[c] # ZeroBuffer
      BY <1>3, <1>4, <3>3, WordIsNotZero DEF Produced, State
    <3>. QED BY <3>3, <3>4 DEF InStep
  <2>. QED BY <1>1, <2>1, <2>2
<1>6. ASSUME NEW d \in Ciphers, d # c
      PROVE  /\ state_'[d] = state_[d] /\ buffer_'[d] = buffer_[d]
             /\ buffer_pos_'[d] = buffer_pos_[d]
  BY <1>1, <1>6 DEF TypeOK
<1>. QED BY <1>5, <1>6 DEF BufferInStep

LEMMA BufferNext == TypeOK /\ BufferInStep /\ [Next]_vars => BufferInStep'
<1>. SUFFICES ASSUME TypeOK, BufferInStep, [Next]_vars PROVE BufferInStep'
  OBVIOUS
<1>1. CASE UNCHANGED <<state_, buffer_, buffer_pos_>>
  BY <1>1 DEF BufferInStep
\* One object is given a State, a buffer and a position that fit.
<1>2. ASSUME NEW c \in Ciphers, NEW st, NEW buf, NEW pos,
             state_' = [state_ EXCEPT ![c] = st],
             buffer_' = [buffer_ EXCEPT ![c] = buf],
             buffer_pos_' = [buffer_pos_ EXCEPT ![c] = pos],
             InStep(st, buf, pos)
      PROVE  BufferInStep'
  <2>1. state_'[c] = st /\ buffer_'[c] = buf /\ buffer_pos_'[c] = pos
    BY <1>2 DEF TypeOK
  <2>2. ASSUME NEW d \in Ciphers, d # c
        PROVE  /\ state_'[d] = state_[d] /\ buffer_'[d] = buffer_[d]
               /\ buffer_pos_'[d] = buffer_pos_[d]
    BY <1>2, <2>2 DEF TypeOK
  <2>. QED BY <1>2, <2>1, <2>2 DEF BufferInStep
<1>3. ASSUME NEW to \in Ciphers, NEW from \in Ciphers, Transfer(to, from)
      PROVE  BufferInStep'
  <2>1. /\ state_'[from] = Wiped /\ buffer_'[from] = ZeroBuffer
        /\ buffer_pos_'[from] = 8
    BY <1>3 DEF Transfer, Moved, TypeOK
  <2>2. ASSUME to # from
        PROVE  /\ state_'[to] = state_[from] /\ buffer_'[to] = buffer_[from]
               /\ buffer_pos_'[to] = buffer_pos_[from]
    BY <1>3, <2>2 DEF Transfer, Moved, TypeOK
  <2>3. ASSUME NEW d \in Ciphers, d # to, d # from
        PROVE  /\ state_'[d] = state_[d] /\ buffer_'[d] = buffer_[d]
               /\ buffer_pos_'[d] = buffer_pos_[d]
    BY <1>3, <2>3 DEF Transfer, Moved, TypeOK
  <2>4. InStep(state_'[from], buffer_'[from], buffer_pos_'[from])
    BY <2>1, EmptyInStep
  <2>. QED BY <2>2, <2>3, <2>4 DEF BufferInStep
<1>4. ASSUME NEW pos PROVE InStep(Wiped, ZeroBuffer, pos)
  BY DEF InStep, Wiped
<1>5. ASSUME NEW c \in Ciphers, Destroy(c) PROVE BufferInStep'
  BY <1>2, <1>4, <1>5 DEF Destroy, Assign
<1>6. ASSUME NEW c \in Ciphers, NextWord(c) PROVE BufferInStep'
  <2>1. /\ state_[c] \in State
        /\ InStep(state_[c], buffer_[c], buffer_pos_[c])
    BY DEF TypeOK, BufferInStep
  <2>2. InStep(StepBy(state_[c], 1), buffer_[c], buffer_pos_[c])
    BY <2>1, StepByType, ProducedLater DEF InStep
  <2>3. /\ state_'[c] = StepBy(state_[c], 1)
        /\ \A d \in Ciphers \ {c} : state_'[d] = state_[d]
        /\ buffer_' = buffer_ /\ buffer_pos_' = buffer_pos_
    BY <1>6 DEF NextWord, TypeOK
  <2>. QED BY <2>2, <2>3 DEF BufferInStep
<1>7. ASSUME NEW c \in Ciphers, Reset(c) \/ ImportState(c) PROVE BufferInStep'
  BY <1>2, <1>7, EmptyInStep DEF Reset, ImportState, DiscardLeftover
<1>8. ASSUME NEW c \in Ciphers, NEW m \in Arguments,
             Construct(c, m) \/ Reseed(c, m)
      PROVE  BufferInStep'
  BY <1>2, <1>8, EmptyInStep DEF Construct, Reseed, Assign
<1>9. ASSUME NEW c \in Ciphers, NEW m \in Arguments, ReseedThrows(c, m)
      PROVE  BufferInStep'
  BY <1>2, <1>4, <1>9 DEF ReseedThrows, Assign
<1>10. ASSUME NEW to \in Ciphers, NEW from \in Ciphers,
              MoveConstruct(to, from) \/ MoveAssign(to, from)
       PROVE  BufferInStep'
  BY <1>1, <1>3, <1>10 DEF MoveConstruct, MoveAssign, members
<1>11. ASSUME NEW c \in Ciphers,
              \/ ExportState(c) \/ ImportThrows(c)
              \/ \E m \in Arguments : ConstructThrows(c, m) \/ ReseedWithoutKey(c, m)
       PROVE  BufferInStep'
  BY <1>1, <1>11
  DEF ExportState, ImportThrows, ConstructThrows, ReseedWithoutKey, Throws, members
<1>12. CASE UNCHANGED vars
  BY <1>1, <1>12 DEF vars, members
<1>. QED
  BY <1>5, <1>6, <1>7, <1>8, <1>9, <1>10, <1>11, <1>12, BufferGenerate DEF Next

\* Leftover bytes always continue the stream the object is on: no reset,
\* reseed, import or move lets generate() serve bytes of an earlier stream.
THEOREM BufferCorrect == Spec => []BufferInStep
  BY InitType, NextType, BufferInit, BufferNext, PTL DEF Spec

-----------------------------------------------------------------------------
(* An import never rewinds.                                                *)

\* The next byte of an object in step is a zeroed one, or is on the stream of
\* its State and not beyond the word that follows.
LEMMA NextByteNotAhead ==
  ASSUME TypeOK, BufferInStep, NEW c \in Ciphers, NextByte(c) # ZeroByte
  PROVE  NextByte(c)[1] = state_[c].seed /\ NextByte(c)[2] <= 8 * state_[c].n
<1>1. /\ state_[c] \in State /\ state_[c].n \in Nat /\ buffer_pos_[c] \in 0..8
      /\ InStep(state_[c], buffer_[c], buffer_pos_[c])
  BY DEF TypeOK, State, BufferInStep
<1>2. CASE buffer_pos_[c] < 8
  <2>1. buffer_pos_[c] \in 0..7 /\ NextByte(c) = buffer_[c][buffer_pos_[c]]
    BY <1>1, <1>2 DEF NextByte
  <2>2. buffer_[c] # ZeroBuffer
    BY <2>1 DEF ZeroBuffer
  <2>3. PICK m \in 1 .. state_[c].n : buffer_[c] = WordOf(state_[c], m)
    BY <1>1, <2>2 DEF InStep, Produced
  <2>4. m \in Nat /\ m <= state_[c].n
    BY <1>1, <2>3
  <2>5. NextByte(c) = <<state_[c].seed, 8 * (m - 1) + buffer_pos_[c]>>
    BY <1>1, <2>1, <2>3, <2>4, ByteOfWord
  <2>6. 8 * (m - 1) + buffer_pos_[c] <= 8 * state_[c].n
    BY <1>1, <2>1, <2>4
  <2>. QED BY <2>5, <2>6
<1>3. CASE ~(buffer_pos_[c] < 8)
  <2>1. NextByte(c) = <<state_[c].seed, 8 * (state_[c].n + 1 - 1) + 0>>
    BY <1>1, <1>3 DEF NextByte, ExtractByte, StreamByte, StepBy, State
  <2>2. 8 * (state_[c].n + 1 - 1) + 0 <= 8 * state_[c].n
    BY <1>1
  <2>. QED BY <2>1, <2>2
<1>. QED BY <1>2, <1>3

LEMMA ExportNext ==
  TypeOK /\ BufferInStep /\ ExportNotAhead /\ [Next]_vars => ExportNotAhead'
<1>. SUFFICES ASSUME TypeOK, BufferInStep, ExportNotAhead, [Next]_vars
              PROVE  ExportNotAhead'
  OBVIOUS
<1>1. CASE UNCHANGED blob
  BY <1>1 DEF ExportNotAhead
<1>2. ASSUME NEW c \in Ciphers, ExportState(c) PROVE ExportNotAhead'
  <2>1. blob' = [state |-> state_[c], next |-> NextByte(c)]
    BY <1>2 DEF ExportState
  <2>. QED BY <2>1, NextByteNotAhead DEF ExportNotAhead
<1>3. CASE ~ \E c \in Ciphers : ExportState(c)
  <2>1. UNCHANGED blob
    BY <1>3 DEF Next, vars, Destroy, NextWord, Reset, ImportState, ImportThrows,
       Generate, Construct, ConstructThrows, Reseed, ReseedWithoutKey,
       ReseedThrows, MoveConstruct, MoveAssign, Transfer, Throws
  <2>. QED BY <1>1, <2>1
<1>. QED BY <1>2, <1>3

LEMMA ImportNext ==
  TypeOK /\ ExportNotAhead /\ ImportNeverRewinds /\ [Next]_vars
    => ImportNeverRewinds'
<1>. SUFFICES ASSUME TypeOK, ExportNotAhead, ImportNeverRewinds, [Next]_vars
              PROVE  ImportNeverRewinds'
  OBVIOUS
<1>1. ASSUME NEW c \in Ciphers, ImportState(c) PROVE ImportNeverRewinds'
  <2>1. /\ ret'.cipher = c /\ blob' = blob /\ blob # <<>>
        /\ state_'[c] = blob.state /\ buffer_pos_'[c] = 8
    BY <1>1 DEF ImportState, DiscardLeftover, Done, Answer, TypeOK
  <2>2. blob.state \in State /\ blob.state.n \in Nat
    BY <2>1 DEF TypeOK, State
  <2>3. NextByte(c)' = ExtractByte(StepBy(blob.state, 1), 0)
    BY <2>1 DEF NextByte, ExtractByte, StreamByte, StepBy
  <2>4. NextByte(c)' = <<blob.state.seed, 8 * (blob.state.n + 1 - 1) + 0>>
    BY <2>2, <2>3 DEF ExtractByte, StreamByte, StepBy, State
  <2>5. 8 * (blob.state.n + 1 - 1) + 0 = 8 * blob.state.n
    BY <2>2
  <2>6. ASSUME blob.next # ZeroByte
        PROVE  /\ NextByte(c)'[1] = blob.next[1]
               /\ NextByte(c)'[2] >= blob.next[2]
    BY <2>1, <2>4, <2>5, <2>6 DEF ExportNotAhead
  <2>. QED BY <2>1, <2>6 DEF ImportNeverRewinds
<1>2. CASE UNCHANGED vars
  <2>1. ASSUME NEW c PROVE NextByte(c)' = NextByte(c)
    BY <1>2 DEF vars, members, NextByte, ExtractByte, StreamByte, StepBy
  <2>. QED BY <1>2, <2>1 DEF ImportNeverRewinds, vars
<1>3. CASE Next /\ ~ \E c \in Ciphers : ImportState(c)
  <2>1. ~(ret'.op = "import" /\ ret'.outcome = "ok")
    BY <1>3 DEF Next, Destroy, NextWord, Reset, ExportState, ImportThrows,
       Generate, Construct, ConstructThrows, Reseed, ReseedWithoutKey,
       ReseedThrows, MoveConstruct, MoveAssign, Throws, Done, Answer
  <2>. QED BY <2>1 DEF ImportNeverRewinds
<1>. QED BY <1>1, <1>2, <1>3

\* A receiver never repeats what the exporter of a State has handed out.
THEOREM ImportCorrect == Spec => []ImportNeverRewinds
<1>1. Init => ExportNotAhead /\ ImportNeverRewinds
  BY DEF Init, ExportNotAhead, ImportNeverRewinds, Answer
<1>. QED
  BY <1>1, InitType, NextType, BufferInit, BufferNext, ExportNext, ImportNext, PTL
  DEF Spec

-----------------------------------------------------------------------------
(* Exceptions.                                                             *)

\* Whatever the arguments, and wherever in reseed() an exception arises, the
\* objects are as before or the one concerned holds nothing keyed.
THEOREM ExceptionSafety == Spec => NoHalfDoneCall
<1>. DEFINE Safe ==
       ret'.outcome # "ok" =>
         /\ UNCHANGED live
         /\ \/ UNCHANGED members
            \/ \E c \in Ciphers :
                 /\ Unkeyed(c)'
                 /\ \A d \in Ciphers \ {c} :
                      UNCHANGED <<state_[d], initial_state_[d], buffer_[d],
                                  buffer_pos_[d], material_[d]>>
<1>1. ASSUME TypeOK, Next PROVE Safe
  <2>1. ASSUME NEW c \in Ciphers, NEW m \in Arguments, ReseedThrows(c, m)
        PROVE  Safe
    <3>1. PICK failed \in 1..4 :
            Assign(c, Wiped, Wiped, ZeroBuffer, buffer_pos_[c],
                   PartlyCopied(material_[c], m, failed))
      BY <2>1 DEF ReseedThrows
    <3>2. /\ state_'[c] = Wiped /\ initial_state_'[c] = Wiped
          /\ buffer_'[c] = ZeroBuffer
      BY <1>1, <3>1 DEF Assign, TypeOK
    <3>3. Unkeyed(c)'
      BY <3>2 DEF Unkeyed, Wiped, ZeroBuffer, ZeroByte
    <3>4. \A d \in Ciphers \ {c} :
            UNCHANGED <<state_[d], initial_state_[d], buffer_[d],
                        buffer_pos_[d], material_[d]>>
      BY <1>1, <3>1 DEF Assign, TypeOK
    <3>5. UNCHANGED live
      BY <2>1 DEF ReseedThrows
    <3>. QED BY <3>3, <3>4, <3>5
  <2>2. ASSUME NEW c \in Ciphers,
               \/ ImportThrows(c)
               \/ \E m \in Arguments :
                    ConstructThrows(c, m) \/ ReseedWithoutKey(c, m)
        PROVE  Safe
    BY <2>2 DEF ImportThrows, ConstructThrows, ReseedWithoutKey, Throws
  <2>3. ASSUME NEW c \in Ciphers,
               \/ Destroy(c) \/ NextWord(c) \/ Reset(c)
               \/ ExportState(c) \/ ImportState(c)
               \/ \E size \in GenerateSizes : Generate(c, size)
               \/ \E m \in Arguments : Construct(c, m) \/ Reseed(c, m)
        PROVE  ret'.outcome = "ok"
    BY <2>3 DEF Destroy, NextWord, Reset, ExportState, ImportState, Generate,
                Construct, Reseed, Done, Answer
  <2>4. ASSUME NEW to \in Ciphers, NEW from \in Ciphers,
               MoveConstruct(to, from) \/ MoveAssign(to, from)
        PROVE  ret'.outcome = "ok"
    BY <2>4 DEF MoveConstruct, MoveAssign, Done, Answer
  <2>. QED BY <1>1, <2>1, <2>2, <2>3, <2>4 DEF Next
<1>2. TypeOK /\ [Next]_vars => [Safe]_vars
  BY <1>1
<1>. QED BY <1>2, TypeCorrect, PTL DEF Spec, NoHalfDoneCall

-----------------------------------------------------------------------------
(* The objects implement the keystream of module Keystream: the initial    *)
(* states map to initial states, and every call to a step of one handle or *)
(* to a refusal.                                                           *)

\* What the invariants of the objects say, together.
Inv == TypeOK /\ HomeMatchesMaterial /\ BufferInStep

LEMMA InvCorrect == Spec => []Inv
  BY TypeCorrect, HomeCorrect, BufferCorrect, PTL DEF Inv

\* A request in words of eight bytes and a rest.
LEMMA EightSplit ==
  ASSUME NEW b \in Nat
  PROVE  b \div 8 \in Nat /\ b % 8 \in 0..7 /\ b = 8 * (b \div 8) + (b % 8)
  OBVIOUS

LEMMA InitRefines == Init => K!Init
<1>. SUFFICES ASSUME Init PROVE K!Init
  OBVIOUS
<1>1. \A c \in Ciphers : /\ state_[c] = Wiped /\ initial_state_[c] = Wiped
                         /\ BegunOf(state_[c]) = 0 /\ HeldBy(c) = {}
  BY DEF Init, Wiped, BegunOf, HeldBy
<1>2. blob = <<>> /\ ret.bytes = <<>>
  BY DEF Init, Answer
<1>. QED BY <1>1, <1>2 DEF K!Init, Wiped

-----------------------------------------------------------------------------
(* Steps that position a handle or leave it alone.                         *)

\* One object gets a State and a home, and owes nothing.
LEMMA Attached ==
  ASSUME TypeOK, NEW c \in Ciphers, NEW st \in State, NEW init \in State,
         state_' = [state_ EXCEPT ![c] = st],
         initial_state_' = [initial_state_ EXCEPT ![c] = init],
         \A d \in Ciphers \ {c} : /\ buffer_'[d] = buffer_[d]
                                  /\ buffer_pos_'[d] = buffer_pos_[d],
         st.seed = ZeroSeed \/ buffer_pos_'[c] = 8
  PROVE  K!Attach(c, st.seed, init.seed, BegunOf(st))
<1>1. state_ \in [Ciphers -> State] /\ initial_state_ \in [Ciphers -> State]
  BY DEF TypeOK
<1>2. HeldBy(c)' = {}
  <2>1. state_'[c] = st
    BY <1>1
  <2>. QED BY <2>1 DEF HeldBy
<1>3. ASSUME NEW d \in Ciphers \ {c} PROVE HeldBy(d)' = HeldBy(d)
  <2>1. state_'[d] = state_[d] /\ buffer_'[d] = buffer_[d] /\ buffer_pos_'[d] = buffer_pos_[d]
    BY <1>1
  <2>. QED BY <2>1 DEF HeldBy
<1>4. [d \in Ciphers |-> state_'[d].seed]
        = [[d \in Ciphers |-> state_[d].seed] EXCEPT ![c] = st.seed]
  BY <1>1
<1>5. [d \in Ciphers |-> initial_state_'[d].seed]
        = [[d \in Ciphers |-> initial_state_[d].seed] EXCEPT ![c] = init.seed]
  BY <1>1
<1>6. [d \in Ciphers |-> BegunOf(state_'[d])]
        = [[d \in Ciphers |-> BegunOf(state_[d])] EXCEPT ![c] = BegunOf(st)]
  BY <1>1
<1>7. [d \in Ciphers |-> HeldBy(d)']
        = [[d \in Ciphers |-> HeldBy(d)] EXCEPT ![c] = {}]
  BY <1>2, <1>3
<1>. QED BY <1>4, <1>5, <1>6, <1>7 DEF K!Attach

\* Members that stay keep the mapped variables, too.
LEMMA Unmoved ==
  ASSUME UNCHANGED <<state_, initial_state_, buffer_, buffer_pos_>>
  PROVE  /\ [d \in Ciphers |-> state_[d].seed]' = [d \in Ciphers |-> state_[d].seed]
         /\ [d \in Ciphers |-> initial_state_[d].seed]'
              = [d \in Ciphers |-> initial_state_[d].seed]
         /\ [d \in Ciphers |-> BegunOf(state_[d])]' = [d \in Ciphers |-> BegunOf(state_[d])]
         /\ [d \in Ciphers |-> HeldBy(d)]' = [d \in Ciphers |-> HeldBy(d)]
  BY DEF HeldBy

LEMMA ThrowsRefines ==
  ASSUME NEW op, NEW c, NEW exception, Throws(op, c, exception)
  PROVE  K!Refuse
<1>1. /\ UNCHANGED <<state_, initial_state_, buffer_, buffer_pos_>>
      /\ blob' = blob /\ ret'.bytes = <<>>
  BY DEF Throws, members, Answer
<1>. QED BY <1>1, Unmoved DEF K!Refuse, K!Silent

\* Every home is a State of no steps.
LEMMA HomeIsUnstepped ==
  ASSUME HomeMatchesMaterial, NEW c \in Ciphers
  PROVE  BegunOf(initial_state_[c]) = 0
<1>1. Wiped.n = 0 /\ DeriveState(material_[c]).n = 0
  BY DEF Wiped, DeriveState
<1>2. initial_state_[c].n = 0
  BY <1>1 DEF HomeMatchesMaterial
<1>. QED BY <1>2 DEF BegunOf

LEMMA StartRefines ==
  ASSUME TypeOK, NEW c \in Ciphers, NEW m \in Arguments, HasKey(m),
         Assign(c, DeriveState(m), DeriveState(m), ZeroBuffer, 8, m),
         blob' = blob, ret'.bytes = <<>>
  PROVE  K!Start(c)
<1>1. /\ DeriveState(m) \in State /\ DeriveState(m).seed \in Seeds
      /\ BegunOf(DeriveState(m)) = 0
  BY DeriveStateType DEF DeriveState, Seeds, Arguments, HasKey, BegunOf
<1>2. K!Attach(c, DeriveState(m).seed, DeriveState(m).seed, 0)
  BY <1>1, Attached DEF Assign, TypeOK
<1>. QED BY <1>1, <1>2 DEF K!Start, K!Silent

LEMMA DropRefines ==
  ASSUME TypeOK, NEW c \in Ciphers, NEW mat, NEW buf, NEW pos,
         Assign(c, Wiped, Wiped, buf, pos, mat),
         blob' = blob, ret'.bytes = <<>>
  PROVE  K!Drop(c)
<1>1. Wiped \in State /\ Wiped.seed = ZeroSeed /\ BegunOf(Wiped) = 0
  BY WipedType DEF Wiped, BegunOf
<1>2. K!Attach(c, ZeroSeed, ZeroSeed, 0)
  BY <1>1, Attached DEF Assign, TypeOK
<1>. QED BY <1>2 DEF K!Drop, K!Silent

LEMMA ResetRefines ==
  ASSUME Inv, NEW c \in Ciphers, Reset(c) PROVE K!Rewind(c)
<1>1. /\ TypeOK /\ initial_state_[c] \in State
      /\ BegunOf(initial_state_[c]) = 0
  BY HomeIsUnstepped DEF Inv, TypeOK
<1>2. initial_state_' = [initial_state_ EXCEPT ![c] = initial_state_[c]]
  BY <1>1 DEF Reset, TypeOK
<1>3. /\ state_' = [state_ EXCEPT ![c] = initial_state_[c]]
      /\ \A d \in Ciphers \ {c} : buffer_'[d] = buffer_[d] /\ buffer_pos_'[d] = buffer_pos_[d]
      /\ buffer_pos_'[c] = 8
  BY <1>1 DEF Reset, DiscardLeftover, TypeOK
<1>4. K!Attach(c, initial_state_[c].seed, initial_state_[c].seed, 0)
  BY <1>1, <1>2, <1>3, Attached
<1>. QED BY <1>4 DEF K!Rewind, K!Silent, Reset, Done, Answer

LEMMA ExportRefines ==
  ASSUME NEW c \in Ciphers, ExportState(c) PROVE K!Save(c)
<1>1. /\ UNCHANGED <<state_, initial_state_, buffer_, buffer_pos_>>
      /\ blob' = [state |-> state_[c], next |-> NextByte(c)] /\ ret'.bytes = <<>>
  BY DEF ExportState, members, Done, Answer
<1>2. blob' # <<>> /\ blob'.state = state_[c]
  BY <1>1
<1>. QED BY <1>1, <1>2, Unmoved DEF K!Save, K!Silent

LEMMA ImportRefines ==
  ASSUME TypeOK, NEW c \in Ciphers, ImportState(c) PROVE K!Restore(c)
<1>1. /\ blob # <<>> /\ blob.state \in State /\ blob' = blob
      /\ initial_state_[c] \in State
      /\ initial_state_' = [initial_state_ EXCEPT ![c] = initial_state_[c]]
      /\ state_' = [state_ EXCEPT ![c] = blob.state]
      /\ \A d \in Ciphers \ {c} : buffer_'[d] = buffer_[d] /\ buffer_pos_'[d] = buffer_pos_[d]
      /\ buffer_pos_'[c] = 8
  BY DEF ImportState, DiscardLeftover, TypeOK
<1>2. PICK st \in State, back \in State : st = blob.state /\ back = initial_state_[c]
  BY <1>1
<1>3. K!Attach(c, st.seed, back.seed, BegunOf(st))
  <2>1. /\ initial_state_' = [initial_state_ EXCEPT ![c] = back]
        /\ state_' = [state_ EXCEPT ![c] = st]
    BY <1>1, <1>2
  <2>2. \A d \in Ciphers \ {c} : buffer_'[d] = buffer_[d] /\ buffer_pos_'[d] = buffer_pos_[d]
    BY <1>1
  <2>3. buffer_pos_'[c] = 8
    BY <1>1
  <2>. QED BY <1>2, <2>1, <2>2, <2>3, Attached
<1>. DEFINE mapped == IF blob = <<>> THEN <<>>
                      ELSE <<blob.state.seed, BegunOf(blob.state)>>
<1>4. mapped = <<st.seed, BegunOf(st)>> /\ mapped # <<>>
  BY <1>1, <1>2
<1>5. mapped' = mapped
  BY <1>1
<1>6. ret'.bytes = <<>>
  BY DEF ImportState, Done, Answer
<1>7. K!Attach(c, mapped[1], [d \in Ciphers |-> initial_state_[d].seed][c], mapped[2])
  <2>1. /\ mapped[1] = st.seed /\ mapped[2] = BegunOf(st)
        /\ [d \in Ciphers |-> initial_state_[d].seed][c] = back.seed
    BY <1>2, <1>4
  <2>. HIDE DEF mapped
  <2>. QED BY <1>3, <2>1 DEF K!Attach
<1>. QED BY <1>4, <1>5, <1>6, <1>7 DEF K!Restore, K!Silent

LEMMA MoveRefines ==
  ASSUME TypeOK, NEW to \in Ciphers, NEW from \in Ciphers, to # from,
         Transfer(to, from), ret'.bytes = <<>>
  PROVE  K!Move(to, from)
<1>1. /\ state_'[to] = state_[from] /\ state_'[from] = Wiped
      /\ initial_state_'[to] = initial_state_[from] /\ initial_state_'[from] = Wiped
      /\ buffer_'[to] = buffer_[from] /\ buffer_pos_'[to] = buffer_pos_[from]
      /\ \A d \in Ciphers \ {to, from} :
           /\ state_'[d] = state_[d] /\ initial_state_'[d] = initial_state_[d]
           /\ buffer_'[d] = buffer_[d] /\ buffer_pos_'[d] = buffer_pos_[d]
      /\ blob' = blob
  BY DEF Transfer, Moved, TypeOK
<1>2. Wiped.seed = ZeroSeed /\ BegunOf(Wiped) = 0
  BY DEF Wiped, BegunOf
<1>3. /\ HeldBy(to)' = HeldBy(from) /\ HeldBy(from)' = {}
      /\ \A d \in Ciphers \ {to, from} : HeldBy(d)' = HeldBy(d)
  <2>1. state_'[from].seed = ZeroSeed
    BY <1>1, <1>2
  <2>2. HeldBy(from)' = {}
    BY <2>1 DEF HeldBy
  <2>3. HeldBy(to)' = HeldBy(from)
    BY <1>1 DEF HeldBy
  <2>4. ASSUME NEW d \in Ciphers \ {to, from} PROVE HeldBy(d)' = HeldBy(d)
    <3>1. state_'[d] = state_[d] /\ buffer_'[d] = buffer_[d] /\ buffer_pos_'[d] = buffer_pos_[d]
      BY <1>1
    <3>. QED BY <3>1 DEF HeldBy
  <2>. QED BY <2>2, <2>3, <2>4
<1>4. [d \in Ciphers |-> state_'[d].seed]
        = [[d \in Ciphers |-> state_[d].seed] EXCEPT
             ![to] = state_[from].seed, ![from] = ZeroSeed]
  BY <1>1, <1>2
<1>5. [d \in Ciphers |-> initial_state_'[d].seed]
        = [[d \in Ciphers |-> initial_state_[d].seed] EXCEPT
             ![to] = initial_state_[from].seed, ![from] = ZeroSeed]
  BY <1>1, <1>2
<1>6. [d \in Ciphers |-> BegunOf(state_'[d])]
        = [[d \in Ciphers |-> BegunOf(state_[d])] EXCEPT
             ![to] = BegunOf(state_[from]), ![from] = 0]
  BY <1>1, <1>2
<1>7. [d \in Ciphers |-> HeldBy(d)']
        = [[d \in Ciphers |-> HeldBy(d)] EXCEPT ![to] = HeldBy(from), ![from] = {}]
  BY <1>3
<1>. QED BY <1>1, <1>4, <1>5, <1>6, <1>7 DEF K!Move, K!Silent

-----------------------------------------------------------------------------
(* next().                                                                 *)

\* A State that steps on along its trajectory with a buffer left alone.
LEMMA NextWordRefines ==
  ASSUME TypeOK, NEW c \in Ciphers, NextWord(c)
  PROVE  K!ServeWord(c) \/ K!ServeVoid(c)
<1>. DEFINE s == StepBy(state_[c], 1)
            seed == state_[c].seed
            n == state_[c].n
<1>1. /\ state_[c] \in State /\ seed \in Seeds \cup {ZeroSeed} /\ n \in Nat
      /\ s \in State /\ s.seed = seed /\ s.n = n + 1
  BY StepByType DEF TypeOK, State
<1>2. /\ state_' = [state_ EXCEPT ![c] = s]
      /\ UNCHANGED <<initial_state_, buffer_, buffer_pos_, blob>>
      /\ ret'.bytes = [i \in 1..8 |-> ExtractByte(s, i - 1)]
  BY DEF NextWord, Answer
<1>. HIDE DEF s
<1>3. /\ state_'[c] = s
      /\ \A d \in Ciphers \ {c} : state_'[d] = state_[d]
  BY <1>2 DEF TypeOK
<1>4. [d \in Ciphers |-> state_'[d].seed] = [d \in Ciphers |-> state_[d].seed]
  BY <1>1, <1>3
<1>5. ASSUME NEW d \in Ciphers PROVE HeldBy(d)' = HeldBy(d)
  <2>1. state_'[d].seed = state_[d].seed /\ buffer_' = buffer_ /\ buffer_pos_' = buffer_pos_
    BY <1>1, <1>2, <1>3
  <2>. QED BY <2>1 DEF HeldBy
<1>6. [d \in Ciphers |-> HeldBy(d)'] = [d \in Ciphers |-> HeldBy(d)]
  BY <1>5
<1>7. CASE seed = ZeroSeed
  <2>1. [d \in Ciphers |-> BegunOf(state_'[d])] = [d \in Ciphers |-> BegunOf(state_[d])]
    BY <1>1, <1>3, <1>7 DEF BegunOf
  <2>2. \A i \in DOMAIN ret'.bytes : ret'.bytes[i][1] \notin Seeds
    BY <1>1, <1>2, <1>7, ZeroSeedAssumption DEF ExtractByte, StreamByte
  <2>. QED BY <1>2, <1>4, <1>6, <1>7, <2>1, <2>2 DEF K!ServeVoid
<1>8. CASE seed \in Seeds
  <2>1. BegunOf(s) = n + 1 /\ BegunOf(state_[c]) = n
    BY <1>1, <1>8, ZeroSeedAssumption DEF BegunOf
  <2>2. [d \in Ciphers |-> BegunOf(state_'[d])]
          = [[d \in Ciphers |-> BegunOf(state_[d])] EXCEPT ![c] = @ + 1]
    BY <1>3, <2>1
  <2>3. ret'.bytes = [i \in 1..8 |-> <<seed, 8 * n + i - 1>>]
    <3>1. \A i \in 1..8 : ExtractByte(s, i - 1) = <<seed, 8 * n + i - 1>>
      BY <1>1 DEF ExtractByte, StreamByte
    <3>. QED BY <1>2, <3>1
  <2>. QED BY <1>2, <1>4, <1>6, <1>8, <2>1, <2>2, <2>3 DEF K!ServeWord, K!StreamByte
<1>. QED BY <1>1, <1>7, <1>8

-----------------------------------------------------------------------------
(* generate().                                                             *)

\* The places of a list of bytes: d on from base + pos, then b on from 8 * n.
PlacesInOrder(place, n, pos, d, b, base) ==
  \A i \in 1 .. d + b :
    place[i] = IF i <= d THEN base + pos + i - 1 ELSE 8 * n + i - d - 1

TwoRuns(place, n, pos, d, b, base) ==
  {place[i] : i \in 1 .. d + b}
    = (base + pos .. base + pos + d - 1) \cup (8 * n .. 8 * n + b - 1)

\* The places generate() serves are two intervals: what the buffer owed, which
\* lies before the frontier, and what is drawn from there on.
LEMMA ServedPlaces ==
  ASSUME NEW base \in Nat, NEW pos \in 0..8, NEW d \in 0..8, NEW n \in Nat,
         NEW b \in Nat, NEW place,
         PlacesInOrder(place, n, pos, d, b, base)
  PROVE  TwoRuns(place, n, pos, d, b, base)
<1>. DEFINE S == {place[i] : i \in 1 .. d + b}
            T == (base + pos .. base + pos + d - 1) \cup (8 * n .. 8 * n + b - 1)
<1>. USE DEF PlacesInOrder, TwoRuns
<1>1. ASSUME NEW q \in S PROVE q \in T
  <2>1. PICK i \in 1 .. d + b : q = place[i]
    OBVIOUS
  <2>. QED BY <2>1
<1>2. ASSUME NEW q \in T PROVE q \in S
  <2>1. CASE q \in base + pos .. base + pos + d - 1
    <3>1. q - base - pos + 1 \in 1 .. d + b /\ q - base - pos + 1 <= d
      BY <2>1
    <3>2. place[q - base - pos + 1] = q
      BY <2>1, <3>1
    <3>. QED BY <3>1, <3>2
  <2>2. CASE q \in 8 * n .. 8 * n + b - 1
    <3>1. q - 8 * n + d + 1 \in 1 .. d + b /\ ~(q - 8 * n + d + 1 <= d)
      BY <2>2
    <3>2. place[q - 8 * n + d + 1] = q
      BY <2>2, <3>1
    <3>. QED BY <3>1, <3>2
  <2>. QED BY <2>1, <2>2
<1>. QED BY <1>1, <1>2

\* A call of generate() on a keyed object, in numbers: pos bytes of the word
\* at base were served before, d are drained, b are drawn from word n on.
ServesInNumbers(c, seed, n, pos, d, b, w, base) ==
  /\ seed = state_[c].seed /\ n = state_[c].n
  /\ pos + d <= 8 /\ (b > 0 => pos + d = 8)
  /\ pos < 8 => base + 8 <= 8 * n
  /\ w = n + (b \div 8) + (IF b % 8 > 0 THEN 1 ELSE 0)
  /\ HeldBy(c) = base + pos .. base + 7
  /\ HeldBy(c)' = IF b % 8 > 0 THEN 8 * n + b .. 8 * w - 1
                  ELSE base + pos + d .. base + 7
  /\ ret'.bytes = [i \in 1 .. d + b |->
       <<seed, IF i <= d THEN base + pos + i - 1 ELSE 8 * n + i - d - 1>>]
  /\ state_' = [state_ EXCEPT ![c] = StepBy(state_[c], w - n)]
  /\ \A e \in Ciphers \ {c} : /\ buffer_'[e] = buffer_[e]
                              /\ buffer_pos_'[e] = buffer_pos_[e]
  /\ UNCHANGED <<initial_state_, blob>>

LEMMA GenerateInNumbers ==
  ASSUME TypeOK, BufferInStep, NEW c \in Ciphers, NEW size \in GenerateSizes,
         Generate(c, size), state_[c].seed # ZeroSeed
  PROVE  \E seed \in Seeds, n \in Nat, pos \in 0..8, d \in 0..8, b \in Nat,
            w \in Nat, base \in Nat :
           ServesInNumbers(c, seed, n, pos, d, b, w, base)
<1>. DEFINE drained == DrainLength(c, size)
            words   == (size - drained) \div 8
            tail    == (size - drained) % 8
            steps   == words + (IF tail > 0 THEN 1 ELSE 0)
            last    == StepBy(state_[c], steps)
            drawn   == [i \in 1..size |->
                          IF i <= drained
                          THEN buffer_[c][buffer_pos_[c] + i - 1]
                          ELSE ExtractByte(StepBy(state_[c], 1), i - drained - 1)]
<1>1. /\ state_' = [state_ EXCEPT ![c] = last]
      /\ IF tail > 0
         THEN /\ buffer_' = [buffer_ EXCEPT
                               ![c] = [i \in 0..7 |-> ExtractByte(last, i)]]
              /\ buffer_pos_' = [buffer_pos_ EXCEPT ![c] = tail]
         ELSE /\ UNCHANGED buffer_
              /\ buffer_pos_' = [buffer_pos_ EXCEPT ![c] = @ + drained]
      /\ ret'.bytes = drawn
      /\ UNCHANGED <<initial_state_, blob>>
  BY DEF Generate, Answer
<1>2. /\ state_[c] \in State /\ state_[c].seed \in Seeds /\ state_[c].n \in Nat
      /\ buffer_pos_[c] \in 0..8 /\ drained \in 0..8 /\ size - drained \in Nat
      /\ size \in Nat
  BY DrainLengthType DEF TypeOK, State
<1>d. /\ buffer_pos_[c] + drained <= 8
      /\ (size - drained > 0 => buffer_pos_[c] + drained = 8)
  BY <1>2 DEF DrainLength
<1>. HIDE DEF drained
<1>3. PICK seed \in Seeds, n \in Nat, pos \in 0..8, d \in 0..8, b \in Nat :
        /\ seed = state_[c].seed /\ n = state_[c].n /\ pos = buffer_pos_[c]
        /\ d = drained /\ b = size - drained
  BY <1>2
<1>4. /\ pos + d <= 8 /\ (b > 0 => pos + d = 8) /\ size = d + b
  BY <1>2, <1>3, <1>d
<1>5. /\ words = b \div 8 /\ tail = b % 8 /\ b \div 8 \in Nat /\ b % 8 \in 0..7
      /\ b = 8 * (b \div 8) + (b % 8)
  <2>1. words = b \div 8 /\ tail = b % 8
    BY <1>3, Zenon
  <2>. QED BY <2>1, EightSplit
<1>6. PICK w \in Nat : w = n + (b \div 8) + (IF b % 8 > 0 THEN 1 ELSE 0)
  BY <1>5
<1>7. /\ steps = w - n /\ steps \in Nat
      /\ IF b % 8 > 0 THEN 8 * w - 8 = 8 * n + b - (b % 8) ELSE 8 * w = 8 * n + b
  BY <1>3, <1>5, <1>6
<1>. HIDE DEF words, tail, steps
<1>8. PICK base \in Nat :
        pos < 8 => /\ base + 8 <= 8 * n
                   /\ \A i \in 0..7 : buffer_[c][i] = <<seed, base + i>>
  <2>1. CASE pos < 8
    <3>1. Produced(buffer_[c], state_[c])
      BY <1>3, <2>1 DEF BufferInStep, InStep
    <3>2. PICK m \in 1 .. n : buffer_[c] = WordOf(state_[c], m)
      BY <1>3, <3>1 DEF Produced
    <3>3. \A i \in 0..7 : buffer_[c][i] = <<seed, 8 * (m - 1) + i>>
      <4>1. /\ m \in Nat /\ [state_[c] EXCEPT !.n = m].seed = seed
            /\ [state_[c] EXCEPT !.n = m].n = m
        BY <1>2, <1>3, <3>2 DEF State
      <4>. QED BY <3>2, <4>1 DEF WordOf, ExtractByte, StreamByte
    <3>. QED BY <3>2, <3>3
  <2>2. CASE ~(pos < 8)
    BY <2>2
  <2>. QED BY <2>1, <2>2
<1>9. HeldBy(c) = base + pos .. base + 7
  <2>1. HeldBy(c) = {buffer_[c][i][2] : i \in pos .. 7}
    BY <1>2, <1>3, ZeroSeedAssumption DEF HeldBy
  <2>2. CASE pos < 8
    <3>1. \A i \in pos .. 7 : buffer_[c][i][2] = base + i
      BY <1>8, <2>2
    <3>2. {buffer_[c][i][2] : i \in pos .. 7} = {base + i : i \in pos .. 7}
      BY <3>1
    <3>3. ASSUME NEW q \in base + pos .. base + 7
          PROVE  q \in {base + i : i \in pos .. 7}
      <4>1. q - base \in pos .. 7 /\ q = base + (q - base)
        OBVIOUS
      <4>. QED BY <4>1
    <3>. QED BY <2>1, <3>2, <3>3
  <2>3. CASE pos = 8
    BY <2>1, <2>3
  <2>. QED BY <2>2, <2>3
<1>10. /\ last \in State /\ last.seed = seed /\ last.n = w
  <2>1. n + steps = w
    BY <1>3, <1>6, <1>7
  <2>. QED BY <1>2, <1>3, <1>7, <2>1, StepByType DEF State
<1>. HIDE DEF last
<1>11. state_'[c].seed = seed
  BY <1>1, <1>10 DEF TypeOK
<1>12. ASSUME b % 8 > 0 PROVE HeldBy(c)' = 8 * n + b .. 8 * w - 1
  <2>1. /\ buffer_'[c] = [i \in 0..7 |-> ExtractByte(last, i)]
        /\ buffer_pos_'[c] = b % 8
    BY <1>1, <1>5, <1>12 DEF TypeOK
  <2>2. HeldBy(c)' = {buffer_'[c][i][2] : i \in b % 8 .. 7}
    BY <1>3, <1>11, <2>1, ZeroSeedAssumption DEF HeldBy
  <2>3. \A i \in b % 8 .. 7 : buffer_'[c][i][2] = 8 * (w - 1) + i
    BY <1>5, <1>10, <2>1 DEF ExtractByte, StreamByte
  <2>4. {buffer_'[c][i][2] : i \in b % 8 .. 7} = {8 * (w - 1) + i : i \in b % 8 .. 7}
    BY <2>3
  <2>5. {8 * (w - 1) + i : i \in b % 8 .. 7} = 8 * n + b .. 8 * w - 1
    <3>. DEFINE r == b % 8
    <3>1. r \in 0..7 /\ 8 * w - 8 = 8 * n + b - r
      BY <1>5, <1>7, <1>12
    <3>. HIDE DEF r
    <3>2. ASSUME NEW q \in 8 * n + b .. 8 * w - 1
          PROVE  q \in {8 * (w - 1) + i : i \in r .. 7}
      <4>1. q - 8 * (w - 1) \in r .. 7 /\ q = 8 * (w - 1) + (q - 8 * (w - 1))
        BY <3>1
      <4>. QED BY <4>1
    <3>3. ASSUME NEW i \in r .. 7
          PROVE  8 * (w - 1) + i \in 8 * n + b .. 8 * w - 1
      BY <3>1
    <3>4. {8 * (w - 1) + i : i \in r .. 7} = 8 * n + b .. 8 * w - 1
      BY <3>2, <3>3
    <3>. QED BY <3>4 DEF r
  <2>. QED BY <2>2, <2>4, <2>5
<1>13. ASSUME ~(b % 8 > 0) PROVE HeldBy(c)' = base + pos + d .. base + 7
  <2>1. /\ buffer_'[c] = buffer_[c] /\ buffer_pos_'[c] = pos + d
    BY <1>1, <1>3, <1>5, <1>13 DEF TypeOK
  <2>2. HeldBy(c)' = {buffer_[c][i][2] : i \in pos + d .. 7}
    BY <1>3, <1>11, <2>1, ZeroSeedAssumption DEF HeldBy
  <2>3. CASE pos < 8
    <3>1. \A i \in pos + d .. 7 : buffer_[c][i][2] = base + i
      BY <1>8, <2>3
    <3>2. {buffer_[c][i][2] : i \in pos + d .. 7} = {base + i : i \in pos + d .. 7}
      BY <3>1
    <3>3. ASSUME NEW q \in base + pos + d .. base + 7
          PROVE  q \in {base + i : i \in pos + d .. 7}
      <4>1. q - base \in pos + d .. 7 /\ q = base + (q - base)
        OBVIOUS
      <4>. QED BY <4>1
    <3>4. ASSUME NEW i \in pos + d .. 7
          PROVE  base + i \in base + pos + d .. base + 7
      OBVIOUS
    <3>5. {base + i : i \in pos + d .. 7} = base + pos + d .. base + 7
      BY <3>3, <3>4
    <3>. QED BY <2>2, <3>2, <3>5
  <2>4. CASE pos = 8
    BY <1>4, <1>13, <2>2, <2>4
  <2>. QED BY <2>3, <2>4
<1>14. HeldBy(c)' = IF b % 8 > 0 THEN 8 * n + b .. 8 * w - 1
                    ELSE base + pos + d .. base + 7
  BY <1>12, <1>13
<1>15. drawn = [i \in 1 .. d + b |->
          <<seed, IF i <= d THEN base + pos + i - 1 ELSE 8 * n + i - d - 1>>]
  <2>1. ASSUME NEW i \in 1 .. d + b
        PROVE  (IF i <= drained
                THEN buffer_[c][buffer_pos_[c] + i - 1]
                ELSE ExtractByte(StepBy(state_[c], 1), i - drained - 1))
                 = <<seed, IF i <= d THEN base + pos + i - 1 ELSE 8 * n + i - d - 1>>
    <3>1. CASE i <= d
      <4>1. pos < 8 /\ pos + i - 1 \in 0..7
        BY <1>4, <3>1
      <4>2. buffer_[c][pos + i - 1] = <<seed, base + (pos + i - 1)>>
        BY <1>8, <4>1
      <4>3. base + (pos + i - 1) = base + pos + i - 1
        BY <4>1
      <4>. QED BY <1>3, <3>1, <4>2, <4>3
    <3>2. CASE ~(i <= d)
      <4>1. StepBy(state_[c], 1).seed = seed /\ StepBy(state_[c], 1).n = n + 1
        BY <1>2, <1>3, StepByType
      <4>2. 8 * ((n + 1) - 1) + (i - d - 1) = 8 * n + i - d - 1
        OBVIOUS
      <4>3. ExtractByte(StepBy(state_[c], 1), i - d - 1) = <<seed, 8 * n + i - d - 1>>
        BY <4>1, <4>2 DEF ExtractByte, StreamByte
      <4>. QED BY <1>3, <3>2, <4>3
    <3>. QED BY <3>1, <3>2
  <2>. QED BY <1>4, <2>1
<1>16. \A e \in Ciphers \ {c} : buffer_'[e] = buffer_[e] /\ buffer_pos_'[e] = buffer_pos_[e]
  BY <1>1 DEF TypeOK
<1>17. state_' = [state_ EXCEPT ![c] = StepBy(state_[c], w - n)]
  BY <1>1, <1>7 DEF last
<1>. HIDE DEF drawn
<1>18. ret'.bytes = [i \in 1 .. d + b |->
          <<seed, IF i <= d THEN base + pos + i - 1 ELSE 8 * n + i - d - 1>>]
  BY <1>1, <1>15
<1>19. ServesInNumbers(c, seed, n, pos, d, b, w, base)
  BY <1>1, <1>3, <1>4, <1>6, <1>8, <1>9, <1>14, <1>16, <1>17, <1>18
     DEF ServesInNumbers
<1>. QED BY <1>19

\* What one call serves, what was owed before it and what is left owed.
CallShape(n, pos, d, b, w, base, served, owed, left) ==
  /\ pos + d <= 8
  /\ b > 0 => pos + d = 8
  /\ pos < 8 => base + 8 <= 8 * n
  /\ w = n + (b \div 8) + (IF b % 8 > 0 THEN 1 ELSE 0)
  /\ served = (base + pos .. base + pos + d - 1) \cup (8 * n .. 8 * n + b - 1)
  /\ owed = base + pos .. base + 7
  /\ left = IF b % 8 > 0 THEN 8 * n + b .. 8 * w - 1
            ELSE base + pos + d .. base + 7

\* The lowest places owed or not begun are served, none is left out, and words
\* are begun only as far as those places need.
LowestServed(n, w, served, owed, left) ==
  /\ \A q \in served : q \in Nat /\ (q \in owed \/ q >= 8 * n) /\ q < 8 * w
  /\ \A p \in owed \ served : \A q \in served : q < p
  /\ \A q \in served : \A p \in 8 * n .. q : p \in served
  /\ w \in {n} \cup {(q \div 8) + 1 : q \in served} /\ w >= n
  /\ left = (owed \cup (8 * n .. 8 * w - 1)) \ served

LEMMA ServesLowest ==
  ASSUME NEW n \in Nat, NEW pos \in 0..8, NEW d \in 0..8, NEW b \in Nat,
         NEW w \in Nat, NEW base \in Nat, NEW served, NEW owed, NEW left,
         CallShape(n, pos, d, b, w, base, served, owed, left)
  PROVE  LowestServed(n, w, served, owed, left)
<1>. USE DEF CallShape
<1>1. PICK k \in Nat, r \in 0..7 : /\ k = b \div 8 /\ r = b % 8 /\ b = 8 * k + r
                                   /\ w = n + k + (IF r > 0 THEN 1 ELSE 0)
  <2>1. b \div 8 \in Nat /\ b % 8 \in 0..7 /\ b = 8 * (b \div 8) + (b % 8)
    BY EightSplit
  <2>. QED BY <2>1
<1>2. /\ w >= n /\ 8 * n + b <= 8 * w
      /\ r > 0 => 8 * w = 8 * n + b - r + 8
      /\ r = 0 => 8 * w = 8 * n + b
  BY <1>1
<1>3. left = IF r > 0 THEN 8 * n + b .. 8 * w - 1 ELSE base + pos + d .. base + 7
  BY <1>1
<1>4. \A q \in served : q \in Nat /\ (q \in owed \/ q >= 8 * n) /\ q < 8 * w
  BY <1>2
<1>5. \A p \in owed \ served : \A q \in served : q < p
  OBVIOUS
<1>6. \A q \in served : \A p \in 8 * n .. q : p \in served
  OBVIOUS
<1>7. w \in {n} \cup {(q \div 8) + 1 : q \in served}
  <2>1. CASE b = 0
    BY <1>1, <2>1
  <2>2. CASE b > 0
    <3>1. 8 * n + b - 1 \in served
      BY <2>2
    <3>2. ((8 * n + b - 1) \div 8) + 1 = w
      BY <1>1, <2>2
    <3>. QED BY <3>1, <3>2
  <2>. QED BY <2>1, <2>2
<1>8. left = (owed \cup (8 * n .. 8 * w - 1)) \ served
  <2>1. CASE r > 0
    <3>1. pos + d = 8 /\ left = 8 * n + b .. 8 * w - 1
      BY <1>1, <1>3, <2>1
    <3>. QED BY <1>2, <2>1, <3>1
  <2>2. CASE r = 0
    <3>1. left = base + pos + d .. base + 7 /\ 8 * w = 8 * n + b
      BY <1>2, <1>3, <2>2
    <3>. QED BY <1>2, <2>2, <3>1
  <2>. QED BY <2>1, <2>2
<1>. QED BY <1>2, <1>4, <1>5, <1>6, <1>7, <1>8 DEF LowestServed

LEMMA KeyedGenerateRefines ==
  ASSUME TypeOK, BufferInStep, NEW c \in Ciphers, NEW size \in GenerateSizes,
         Generate(c, size), state_[c].seed # ZeroSeed
  PROVE  K!Serve(c)
<1>1. PICK seed \in Seeds, n \in Nat, pos \in 0..8, d \in 0..8, b \in Nat,
           w \in Nat, base \in Nat :
        ServesInNumbers(c, seed, n, pos, d, b, w, base)
  BY GenerateInNumbers
<1>. DEFINE place == [i \in 1 .. d + b |->
                        IF i <= d THEN base + pos + i - 1 ELSE 8 * n + i - d - 1]
            out == ret'.bytes
            served == K!Positions(out)
<1>2. out = [i \in 1 .. d + b |-> <<seed, place[i]>>]
  BY <1>1 DEF ServesInNumbers
<1>3. /\ seed = state_[c].seed /\ n = state_[c].n /\ state_[c] \in State
      /\ pos + d <= 8 /\ (b > 0 => pos + d = 8) /\ (pos < 8 => base + 8 <= 8 * n)
      /\ w = n + (b \div 8) + (IF b % 8 > 0 THEN 1 ELSE 0)
  BY <1>1 DEF ServesInNumbers, TypeOK
<1>4. DOMAIN out = 1 .. d + b /\ \A i \in 1 .. d + b : out[i] = <<seed, place[i]>>
  BY <1>2
<1>5. \A i, j \in 1 .. d + b : i < j => place[i] < place[j]
  BY <1>3
<1>6. served = (base + pos .. base + pos + d - 1) \cup (8 * n .. 8 * n + b - 1)
  <2>1. served = {place[i] : i \in 1 .. d + b}
    <3>1. \A i \in 1 .. d + b : out[i][2] = place[i]
      BY <1>4
    <3>. HIDE DEF out, place
    <3>. QED BY <1>4, <3>1 DEF K!Positions
  <2>2. PlacesInOrder(place, n, pos, d, b, base)
    BY DEF PlacesInOrder
  <2>. HIDE DEF place, served
  <2>3. PICK list : list = place
    OBVIOUS
  <2>4. PlacesInOrder(list, n, pos, d, b, base)
    BY <2>2, <2>3
  <2>5. TwoRuns(list, n, pos, d, b, base)
    BY <2>4, ServedPlaces
  <2>. QED BY <2>1, <2>3, <2>5 DEF TwoRuns
<1>7. /\ HeldBy(c) = base + pos .. base + 7
      /\ HeldBy(c)' = IF b % 8 > 0 THEN 8 * n + b .. 8 * w - 1
                      ELSE base + pos + d .. base + 7
      /\ state_' = [state_ EXCEPT ![c] = StepBy(state_[c], w - n)]
      /\ \A e \in Ciphers \ {c} : /\ buffer_'[e] = buffer_[e]
                                  /\ buffer_pos_'[e] = buffer_pos_[e]
      /\ UNCHANGED <<initial_state_, blob>>
  BY <1>1 DEF ServesInNumbers
<1>. HIDE DEF place, served, out
<1>8. PICK told, owed, left : told = served /\ owed = HeldBy(c) /\ left = HeldBy(c)'
  OBVIOUS
<1>9. LowestServed(n, w, told, owed, left)
  <2>1. CallShape(n, pos, d, b, w, base, told, owed, left)
    BY <1>3, <1>6, <1>7, <1>8 DEF CallShape
  <2>. QED BY <2>1, ServesLowest
<1>10. w - n \in Nat
  BY <1>9 DEF LowestServed
<1>11. /\ state_'[c] \in State /\ state_'[c].seed = seed /\ state_'[c].n = w
       /\ \A e \in Ciphers \ {c} : state_'[e] = state_[e]
  <2>1. /\ StepBy(state_[c], w - n) \in State
        /\ StepBy(state_[c], w - n).seed = seed /\ StepBy(state_[c], w - n).n = w
    <3>1. n + (w - n) = w
      OBVIOUS
    <3>. QED BY <1>3, <1>10, <3>1, StepByType
  <2>. QED BY <1>7, <2>1 DEF TypeOK
<1>12. [e \in Ciphers |-> state_'[e].seed] = [e \in Ciphers |-> state_[e].seed]
  BY <1>3, <1>11
<1>13. /\ BegunOf(state_'[c]) = w /\ BegunOf(state_[c]) = n
  BY <1>3, <1>11, ZeroSeedAssumption DEF BegunOf
<1>14. [e \in Ciphers |-> BegunOf(state_'[e])]
         = [[e \in Ciphers |-> BegunOf(state_[e])] EXCEPT ![c] = w]
  BY <1>11, <1>13
<1>15. ASSUME NEW e \in Ciphers \ {c} PROVE HeldBy(e)' = HeldBy(e)
  <2>1. state_'[e] = state_[e] /\ buffer_'[e] = buffer_[e] /\ buffer_pos_'[e] = buffer_pos_[e]
    BY <1>7, <1>11
  <2>. QED BY <2>1 DEF HeldBy
<1>16. [e \in Ciphers |-> HeldBy(e)']
         = [[e \in Ciphers |-> HeldBy(e)] EXCEPT
              ![c] = (@ \cup (8 * n .. 8 * w - 1)) \ told]
  <2>1. HeldBy(c)' = (HeldBy(c) \cup (8 * n .. 8 * w - 1)) \ told
    BY <1>8, <1>9 DEF LowestServed
  <2>. QED BY <1>15, <2>1
<1>17. /\ [e \in Ciphers |-> state_[e].seed][c] = seed
       /\ [e \in Ciphers |-> BegunOf(state_[e])][c] = n
       /\ [e \in Ciphers |-> HeldBy(e)][c] = owed
  BY <1>3, <1>8, <1>13
<1>18. \A i \in DOMAIN out : out[i] = <<seed, out[i][2]>> /\ out[i][2] \in told
  <2>1. \A i \in 1 .. d + b : out[i] = <<seed, out[i][2]>>
    BY <1>4
  <2>2. \A i \in DOMAIN out : out[i][2] \in served
    BY DEF served, K!Positions
  <2>. QED BY <1>4, <1>8, <2>1, <2>2
<1>19. \A i, j \in DOMAIN out : i < j => out[i][2] < out[j][2]
  BY <1>4, <1>5
<1>20. ret'.bytes = out /\ K!Positions(ret'.bytes) = told
  BY <1>8 DEF out, served
<1>21. /\ \A i \in DOMAIN ret'.bytes :
            /\ ret'.bytes[i] = <<seed, ret'.bytes[i][2]>>
            /\ ret'.bytes[i][2] \in owed \/ ret'.bytes[i][2] >= 8 * n
       /\ \A i, j \in DOMAIN ret'.bytes : i < j => ret'.bytes[i][2] < ret'.bytes[j][2]
  BY <1>9, <1>18, <1>19, <1>20 DEF LowestServed
<1>22. /\ [e \in Ciphers |-> initial_state_'[e].seed]
            = [e \in Ciphers |-> initial_state_[e].seed]
       /\ (IF blob' = <<>> THEN <<>> ELSE <<blob'.state.seed, BegunOf(blob'.state)>>)
            = (IF blob = <<>> THEN <<>> ELSE <<blob.state.seed, BegunOf(blob.state)>>)
  BY <1>7
<1>. QED BY <1>9, <1>12, <1>14, <1>16, <1>17, <1>20, <1>21, <1>22
         DEF K!Serve, K!StreamByte, LowestServed

\* An object on no stream hands out zeros and bytes of the all-zero State.
LEMMA VoidGenerateRefines ==
  ASSUME TypeOK, BufferInStep, NEW c \in Ciphers, NEW size \in GenerateSizes,
         Generate(c, size), state_[c].seed = ZeroSeed
  PROVE  K!ServeVoid(c)
<1>. DEFINE drained == DrainLength(c, size)
            steps == ((size - drained) \div 8)
                       + (IF (size - drained) % 8 > 0 THEN 1 ELSE 0)
            last  == StepBy(state_[c], steps)
            drawn == [i \in 1..size |->
                        IF i <= drained
                        THEN buffer_[c][buffer_pos_[c] + i - 1]
                        ELSE ExtractByte(StepBy(state_[c], 1), i - drained - 1)]
<1>1. /\ state_' = [state_ EXCEPT ![c] = last]
      /\ \A e \in Ciphers \ {c} : /\ buffer_'[e] = buffer_[e]
                                  /\ buffer_pos_'[e] = buffer_pos_[e]
      /\ ret'.bytes = drawn
      /\ UNCHANGED <<initial_state_, blob>>
  BY DEF Generate, Answer, TypeOK
<1>2. /\ state_[c] \in State /\ buffer_pos_[c] \in 0..8 /\ size \in Nat
      /\ drained \in 0..8 /\ buffer_pos_[c] + drained <= 8
      /\ steps \in Nat
  <2>1. /\ state_[c] \in State /\ buffer_pos_[c] \in 0..8 /\ size \in Nat
        /\ drained \in 0..8 /\ size - drained \in Nat
    BY DrainLengthType DEF TypeOK
  <2>2. buffer_pos_[c] + drained <= 8
    BY <2>1 DEF DrainLength
  <2>. HIDE DEF drained
  <2>3. PICK b \in Nat : b = size - drained
    BY <2>1
  <2>4. b \div 8 \in Nat
    OBVIOUS
  <2>. QED BY <2>1, <2>2, <2>3, <2>4
<1>. HIDE DEF drained, steps
<1>3. last \in State /\ last.seed = ZeroSeed
  BY <1>2, StepByType
<1>4. /\ state_'[c].seed = ZeroSeed
      /\ \A e \in Ciphers \ {c} : state_'[e] = state_[e]
  BY <1>1, <1>3 DEF TypeOK
<1>. HIDE DEF last
<1>5. [e \in Ciphers |-> state_'[e].seed] = [e \in Ciphers |-> state_[e].seed]
  BY <1>4
<1>6. [e \in Ciphers |-> BegunOf(state_'[e])] = [e \in Ciphers |-> BegunOf(state_[e])]
  BY <1>4 DEF BegunOf
<1>7. ASSUME NEW e \in Ciphers PROVE HeldBy(e)' = HeldBy(e)
  <2>1. CASE e = c
    BY <1>4, <2>1 DEF HeldBy
  <2>2. CASE e # c
    <3>1. /\ state_'[e] = state_[e] /\ buffer_'[e] = buffer_[e]
          /\ buffer_pos_'[e] = buffer_pos_[e]
      BY <1>1, <1>4, <2>2
    <3>. QED BY <3>1 DEF HeldBy
  <2>. QED BY <2>1, <2>2
<1>8. [e \in Ciphers |-> HeldBy(e)'] = [e \in Ciphers |-> HeldBy(e)]
  BY <1>7
<1>9. \A i \in 0..7 : buffer_[c][i][1] = ZeroSeed
  <2>1. InStep(state_[c], buffer_[c], buffer_pos_[c])
    BY DEF BufferInStep
  <2>2. CASE buffer_[c] = ZeroBuffer
    BY <2>2 DEF ZeroBuffer, ZeroByte
  <2>3. CASE Produced(buffer_[c], state_[c])
    <3>1. PICK m \in 1 .. state_[c].n : buffer_[c] = WordOf(state_[c], m)
      BY <2>3 DEF Produced
    <3>2. [state_[c] EXCEPT !.n = m].seed = ZeroSeed
      BY <1>2 DEF State
    <3>. QED BY <3>1, <3>2 DEF WordOf, ExtractByte, StreamByte
  <2>. QED BY <2>1, <2>2, <2>3 DEF InStep
<1>10. ASSUME NEW i \in 1 .. size PROVE drawn[i][1] = ZeroSeed
  <2>1. CASE i <= drained
    <3>1. buffer_pos_[c] + i - 1 \in 0..7
      BY <1>2, <2>1
    <3>. QED BY <1>9, <2>1, <3>1
  <2>2. CASE ~(i <= drained)
    <3>1. StepBy(state_[c], 1).seed = ZeroSeed
      BY <1>2, StepByType
    <3>2. ExtractByte(StepBy(state_[c], 1), i - drained - 1)[1] = ZeroSeed
      BY <3>1 DEF ExtractByte, StreamByte
    <3>. QED BY <2>2, <3>2
  <2>. QED BY <2>1, <2>2
<1>11. \A i \in DOMAIN ret'.bytes : ret'.bytes[i][1] \notin Seeds
  <2>1. DOMAIN drawn = 1 .. size
    OBVIOUS
  <2>. HIDE DEF drawn
  <2>. QED BY <1>1, <1>10, <2>1, ZeroSeedAssumption
<1>12. [e \in Ciphers |-> state_[e].seed][c] = ZeroSeed
  OBVIOUS
<1>13. /\ [e \in Ciphers |-> initial_state_'[e].seed]
             = [e \in Ciphers |-> initial_state_[e].seed]
       /\ (IF blob' = <<>> THEN <<>> ELSE <<blob'.state.seed, BegunOf(blob'.state)>>)
            = (IF blob = <<>> THEN <<>> ELSE <<blob.state.seed, BegunOf(blob.state)>>)
  BY <1>1
<1>. QED BY <1>5, <1>6, <1>8, <1>11, <1>12, <1>13 DEF K!ServeVoid

-----------------------------------------------------------------------------
(* Every step, and the whole.                                              *)

\* A call that changes no member a handle maps to, and hands out no byte.
LEMMA QuietRefines ==
  ASSUME UNCHANGED <<state_, initial_state_, buffer_, buffer_pos_, blob>>,
         ret'.bytes = <<>>
  PROVE  K!Refuse
<1>1. (IF blob' = <<>> THEN <<>> ELSE <<blob'.state.seed, BegunOf(blob'.state)>>)
        = (IF blob = <<>> THEN <<>> ELSE <<blob.state.seed, BegunOf(blob.state)>>)
  OBVIOUS
<1>. QED BY <1>1, Unmoved DEF K!Refuse, K!Silent

LEMMA MoveAssignRefines ==
  ASSUME TypeOK, NEW to \in Ciphers, NEW from \in Ciphers, MoveAssign(to, from)
  PROVE  K!Refuse \/ K!Move(to, from)
<1>1. ret'.bytes = <<>>
  BY DEF MoveAssign, Done, Answer
<1>2. CASE to = from
  <2>1. UNCHANGED <<state_, initial_state_, buffer_, buffer_pos_, blob>>
    BY <1>2 DEF MoveAssign, members
  <2>. QED BY <1>1, <2>1, QuietRefines
<1>3. CASE to # from
  BY <1>1, <1>3, MoveRefines DEF MoveAssign
<1>. QED BY <1>2, <1>3

LEMMA StutterRefines ==
  ASSUME UNCHANGED vars PROVE UNCHANGED K!kvars
<1>1. /\ UNCHANGED <<state_, initial_state_, buffer_, buffer_pos_>>
      /\ blob' = blob /\ ret' = ret
  BY DEF vars, members
<1>2. (IF blob' = <<>> THEN <<>> ELSE <<blob'.state.seed, BegunOf(blob'.state)>>)
        = (IF blob = <<>> THEN <<>> ELSE <<blob.state.seed, BegunOf(blob.state)>>)
  BY <1>1
<1>. QED BY <1>1, <1>2, Unmoved DEF K!kvars

LEMMA ObjectRefines ==
  ASSUME Inv, NEW c \in Ciphers,
         \/ Destroy(c) \/ NextWord(c) \/ Reset(c)
         \/ ExportState(c) \/ ImportState(c) \/ ImportThrows(c)
         \/ \E size \in GenerateSizes : Generate(c, size)
  PROVE  K!Next
<1>0. TypeOK /\ BufferInStep
  BY DEF Inv
<1>1. CASE Destroy(c)
  <2>1. K!Drop(c)
    BY <1>0, <1>1, DropRefines DEF Destroy, Done, Answer
  <2>. QED BY <2>1 DEF K!Next
<1>2. CASE NextWord(c)
  BY <1>0, <1>2, NextWordRefines DEF K!Next
<1>3. CASE Reset(c)
  BY <1>3, ResetRefines DEF K!Next
<1>4. CASE ExportState(c)
  BY <1>4, ExportRefines DEF K!Next
<1>5. CASE ImportState(c)
  BY <1>0, <1>5, ImportRefines DEF K!Next
<1>6. CASE ImportThrows(c)
  BY <1>6, ThrowsRefines DEF ImportThrows, K!Next
<1>7. ASSUME NEW size \in GenerateSizes, Generate(c, size) PROVE K!Next
  BY <1>0, <1>7, KeyedGenerateRefines, VoidGenerateRefines DEF K!Next
<1>. QED BY <1>1, <1>2, <1>3, <1>4, <1>5, <1>6, <1>7

LEMMA MaterialRefines ==
  ASSUME Inv, NEW c \in Ciphers, NEW m \in Arguments,
         \/ Construct(c, m) \/ ConstructThrows(c, m)
         \/ Reseed(c, m) \/ ReseedWithoutKey(c, m) \/ ReseedThrows(c, m)
  PROVE  K!Next
<1>0. TypeOK
  BY DEF Inv
<1>1. CASE Construct(c, m)
  <2>1. K!Start(c)
    BY <1>0, <1>1, StartRefines DEF Construct, Done, Answer
  <2>. QED BY <2>1 DEF K!Next
<1>2. CASE ConstructThrows(c, m)
  BY <1>2, ThrowsRefines DEF ConstructThrows, K!Next
<1>3. CASE Reseed(c, m)
  <2>1. K!Start(c)
    BY <1>0, <1>3, StartRefines DEF Reseed, Done, Answer
  <2>. QED BY <2>1 DEF K!Next
<1>4. CASE ReseedWithoutKey(c, m)
  BY <1>4, ThrowsRefines DEF ReseedWithoutKey, K!Next
<1>5. CASE ReseedThrows(c, m)
  <2>1. PICK failed \in 1..4 :
          Assign(c, Wiped, Wiped, ZeroBuffer, buffer_pos_[c],
                 PartlyCopied(material_[c], m, failed))
    BY <1>5 DEF ReseedThrows
  <2>2. blob' = blob /\ ret'.bytes = <<>>
    BY <1>5 DEF ReseedThrows, Answer
  <2>3. PICK mat, pos : Assign(c, Wiped, Wiped, ZeroBuffer, pos, mat)
    BY <2>1
  <2>4. K!Drop(c)
    BY <1>0, <2>2, <2>3, DropRefines
  <2>. QED BY <2>4 DEF K!Next
<1>. QED BY <1>1, <1>2, <1>3, <1>4, <1>5

LEMMA NextRefines ==
  Inv /\ [Next]_vars => [K!Next]_(K!kvars)
<1>. SUFFICES ASSUME Inv, [Next]_vars PROVE K!Next \/ UNCHANGED K!kvars
  OBVIOUS
<1>0. TypeOK
  BY DEF Inv
<1>1. CASE UNCHANGED vars
  BY <1>1, StutterRefines
<1>2. ASSUME NEW to \in Ciphers, NEW from \in Ciphers, MoveConstruct(to, from)
      PROVE  K!Next
  <2>1. /\ to # from /\ Transfer(to, from) /\ ret'.bytes = <<>>
    BY <1>2 DEF MoveConstruct, Done, Answer
  <2>. QED BY <1>0, <2>1, MoveRefines DEF K!Next
<1>3. ASSUME NEW to \in Ciphers, NEW from \in Ciphers, MoveAssign(to, from)
      PROVE  K!Next
  BY <1>0, <1>3, MoveAssignRefines DEF K!Next
<1>. QED BY <1>1, <1>2, <1>3, ObjectRefines, MaterialRefines DEF Next

\* ImplementsKeystream: whatever calls a client mixes on whatever objects, each
\* object serves the bytes of its stream in order and none twice.
THEOREM Refinement == Spec => ImplementsKeystream
<1>1. Init => K!Init
  BY InitRefines
<1>2. Inv /\ [Next]_vars => [K!Next]_(K!kvars)
  BY NextRefines
<1>. QED BY <1>1, <1>2, InvCorrect, PTL DEF Spec, ImplementsKeystream, K!Spec

=============================================================================
