--------------------------- MODULE CipherCallsProofs ---------------------------
(***************************************************************************)
(* Proofs, for any threads, objects, keys and sizes, that the loops of     *)
(* module CipherCalls stay within their output and their buffer, and that  *)
(* each call of theirs implements the one-step call of module Cipher.      *)
(***************************************************************************)
EXTENDS CipherCallsProperties, CipherProofs, SequenceTheorems

Call == [pc : Pcs, op : {"none", "generate", "next", "reset"},
         cipher : Ciphers \cup {"none"}, size : Nat, output : Seq(Byte)]

MembersType ==
  /\ live \subseteq Ciphers
  /\ state_         \in [Ciphers -> State]
  /\ initial_state_ \in [Ciphers -> State]
  /\ buffer_        \in [Ciphers -> [0..7 -> Byte]]
  /\ buffer_pos_    \in [Ciphers -> 0..8]

\* A running call is on a living object, and it is alone there.
Exclusive ==
  /\ \A t \in Threads : call[t].pc # "idle" => call[t].cipher \in live
  /\ \A c \in Ciphers, t, u \in Threads : Uses(t, c) /\ Uses(u, c) => t = u

\* How far a call has come: what is missing from its output still fits, and
\* what is buffered is enough to serve it.
InBounds(t) ==
  /\ Remaining(t) >= 0
  /\ call[t].pc = "word" => /\ Remaining(t) > 0
                            /\ state_[call[t].cipher].n > 0
  /\ call[t].pc = "serve" =>
       /\ buffer_pos_[call[t].cipher] + Remaining(t) <= 8
       /\ buffer_[call[t].cipher] = Word(call[t].cipher)

CallsInv ==
  /\ MembersType
  /\ call \in [Threads -> Call]
  /\ Exclusive
  /\ \A t \in Threads : InBounds(t)

-----------------------------------------------------------------------------
(* What the helpers return.                                                *)

LEMMA WordType ==
  ASSUME MembersType, NEW c \in Ciphers, state_[c].n > 0
  PROVE  /\ Word(c) \in [0..7 -> Byte]
         /\ [i \in 1..8 |-> Word(c)[i - 1]] \in Seq(Byte)
         /\ Len([i \in 1..8 |-> Word(c)[i - 1]]) = 8
<1>1. state_[c] \in State
  BY DEF MembersType
<1>2. Word(c) \in [0..7 -> Byte]
  <2>1. \A i \in 0..7 : ExtractByte(state_[c], i) \in Byte
    BY <1>1, ExtractByteType
  <2>. QED BY <2>1 DEF Word
<1>. HIDE DEF Word
<1>3. \A i \in 1..8 : Word(c)[i - 1] \in Byte
  BY <1>2
<1>4. [i \in 1..8 |-> Word(c)[i - 1]] \in Seq(Byte)
  BY <1>3
<1>. QED BY <1>2, <1>4

LEMMA OneByte ==
  ASSUME NEW byte \in Byte
  PROVE  <<byte>> \in Seq(Byte) /\ Len(<<byte>>) = 1
  OBVIOUS

\* A byte list put at the end of an output.
LEMMA PutType ==
  ASSUME call \in [Threads -> Call], NEW t \in Threads,
         NEW bytes \in Seq(Byte), NEW pc \in Pcs, Put(t, bytes, pc)
  PROVE  /\ call' \in [Threads -> Call]
         /\ call'[t].pc = pc /\ call'[t].cipher = call[t].cipher
         /\ Remaining(t)' = Remaining(t) - Len(bytes)
         /\ Remaining(t)' \in Int /\ Len(bytes) \in Nat
         /\ \A u \in Threads \ {t} : call'[u] = call[u]
<1>1. call[t].output \in Seq(Byte) /\ call[t].size \in Nat
  BY DEF Call
<1>2. /\ call[t].output \o bytes \in Seq(Byte)
      /\ Len(call[t].output \o bytes) = Len(call[t].output) + Len(bytes)
      /\ Len(bytes) \in Nat /\ Len(call[t].output) \in Nat
  BY <1>1, ConcatProperties, LenProperties
<1>3. call' = [call EXCEPT ![t] = [call[t] EXCEPT !.output = call[t].output \o bytes,
                                                  !.pc = pc]]
  BY DEF Put, Call
<1>4. [call[t] EXCEPT !.output = call[t].output \o bytes, !.pc = pc] \in Call
  BY <1>2 DEF Call
<1>5. /\ call' \in [Threads -> Call]
      /\ \A u \in Threads \ {t} : call'[u] = call[u]
  BY <1>3, <1>4
<1>6. /\ call'[t].pc = pc /\ call'[t].cipher = call[t].cipher
      /\ call'[t].size = call[t].size /\ call'[t].output = call[t].output \o bytes
  BY <1>3 DEF Call
<1>. QED BY <1>1, <1>2, <1>5, <1>6 DEF Remaining

LEMMA GotoType ==
  ASSUME call \in [Threads -> Call], NEW t \in Threads, NEW pc \in Pcs, Goto(t, pc)
  PROVE  /\ call' \in [Threads -> Call]
         /\ call'[t].pc = pc /\ call'[t].cipher = call[t].cipher
         /\ Remaining(t)' = Remaining(t)
         /\ \A u \in Threads \ {t} : call'[u] = call[u]
<1>1. call' = [call EXCEPT ![t] = [call[t] EXCEPT !.pc = pc]]
  BY DEF Goto, Call
<1>2. [call[t] EXCEPT !.pc = pc] \in Call
  BY DEF Call
<1>. QED BY <1>1, <1>2 DEF Call, Remaining

LEMMA RemainingType ==
  ASSUME call \in [Threads -> Call], NEW t \in Threads
  PROVE  /\ Remaining(t) \in Int
         /\ Len(call[t].output) \in Nat /\ call[t].size \in Nat
<1>1. call[t].output \in Seq(Byte) /\ call[t].size \in Nat
  BY DEF Call
<1>. QED BY <1>1, LenProperties DEF Remaining

-----------------------------------------------------------------------------
(* One call goes on, and the others are not disturbed.                     *)

\* The members of the other objects and the other calls are what they were.
Elsewhere(t, c) ==
  /\ \A u \in Threads \ {t} : call'[u] = call[u]
  /\ \A d \in Ciphers \ {c} : /\ state_'[d] = state_[d]
                              /\ buffer_'[d] = buffer_[d]
                              /\ buffer_pos_'[d] = buffer_pos_[d]

LEMMA OthersInBounds ==
  ASSUME CallsInv, NEW t \in Threads, NEW c \in Ciphers, Elsewhere(t, c),
         \A u \in Threads \ {t} : ~Uses(u, c),
         NEW u \in Threads \ {t}
  PROVE  InBounds(u)'
<1>1. call'[u] = call[u] /\ Remaining(u)' = Remaining(u)
  BY DEF Elsewhere, Remaining
<1>2. CASE call[u].pc = "idle"
  BY <1>1, <1>2 DEF CallsInv, InBounds
<1>3. CASE call[u].pc # "idle"
  <2>1. call[u].cipher \in Ciphers \ {c}
    BY <1>3 DEF CallsInv, Exclusive, MembersType, Uses
  <2>2. PICK d \in Ciphers \ {c} : d = call[u].cipher
    BY <2>1
  <2>3. /\ state_'[d] = state_[d] /\ buffer_'[d] = buffer_[d]
        /\ buffer_pos_'[d] = buffer_pos_[d]
    BY DEF Elsewhere
  <2>4. Word(d)' = Word(d)
    BY <2>3 DEF Word
  <2>. QED BY <1>1, <2>2, <2>3, <2>4 DEF CallsInv, InBounds
<1>. QED BY <1>2, <1>3

\* A statement keeps the calls exclusive.
LEMMA StillExclusive ==
  ASSUME CallsInv, NEW t \in Threads, NEW c \in Ciphers, Uses(t, c),
         live' = live, call'[t].cipher = c,
         \A u \in Threads \ {t} : call'[u] = call[u]
  PROVE  Exclusive'
<1>1. \A u \in Threads, d \in Ciphers : Uses(u, d)' => Uses(u, d)
  BY DEF Uses
<1>2. \A u \in Threads : call'[u].pc # "idle" => call'[u].cipher \in live'
  BY DEF Uses, CallsInv, Exclusive
<1>3. \A d \in Ciphers, u, v \in Threads : Uses(u, d)' /\ Uses(v, d)' => u = v
  BY <1>1 DEF CallsInv, Exclusive
<1>. QED BY <1>2, <1>3 DEF Exclusive

\* What a statement of thread t on object c leaves behind.
Kept(t, c) ==
  /\ MembersType'
  /\ call' \in [Threads -> Call]
  /\ call'[t].cipher = c
  /\ InBounds(t)'
  /\ Elsewhere(t, c)

LEMMA DrainKeeps ==
  ASSUME CallsInv, NEW t \in Threads, NEW c \in Ciphers, Uses(t, c),
         live' = live, DrainByte(t, c) \/ Drained(t, c)
  PROVE  Kept(t, c)
<1>0. /\ MembersType /\ call \in [Threads -> Call] /\ call[t].cipher = c
      /\ InBounds(t) /\ Remaining(t) \in Int /\ buffer_pos_[c] \in 0..8
      /\ buffer_[c] \in [0..7 -> Byte]
  BY RemainingType DEF CallsInv, Uses, MembersType
<1>1. CASE DrainByte(t, c)
  <2>1. PICK bytes \in Seq(Byte) : bytes = <<buffer_[c][buffer_pos_[c]]>> /\ Len(bytes) = 1
    <3>1. buffer_[c][buffer_pos_[c]] \in Byte
      BY <1>0, <1>1 DEF DrainByte
    <3>2. PICK byte \in Byte : byte = buffer_[c][buffer_pos_[c]]
      BY <3>1
    <3>3. <<byte>> \in Seq(Byte) /\ Len(<<byte>>) = 1
      BY OneByte
    <3>. QED BY <3>2, <3>3
  <2>2. Put(t, bytes, "drain")
    BY <1>1, <2>1 DEF DrainByte
  <2>3. /\ call' \in [Threads -> Call] /\ call'[t].pc = "drain"
        /\ call'[t].cipher = c /\ Remaining(t)' = Remaining(t) - 1
        /\ \A u \in Threads \ {t} : call'[u] = call[u]
    BY <1>0, <2>1, <2>2, PutType DEF Pcs
  <2>4. /\ Remaining(t) > 0 /\ buffer_pos_[c] + 1 \in 0..8
        /\ buffer_pos_' = [buffer_pos_ EXCEPT ![c] = buffer_pos_[c] + 1]
        /\ UNCHANGED <<state_, initial_state_, buffer_>>
    BY <1>0, <1>1 DEF DrainByte, MembersType
  <2>5. MembersType'
    BY <1>0, <2>4 DEF MembersType
  <2>6. InBounds(t)'
    BY <1>0, <2>3, <2>4 DEF InBounds
  <2>7. Elsewhere(t, c)
    BY <1>0, <2>3, <2>4 DEF Elsewhere, MembersType
  <2>. QED BY <2>3, <2>5, <2>6, <2>7 DEF Kept
<1>2. CASE Drained(t, c)
  <2>1. Goto(t, "fill") /\ UNCHANGED members
    BY <1>2 DEF Drained
  <2>2. /\ call' \in [Threads -> Call] /\ call'[t].pc = "fill"
        /\ call'[t].cipher = c /\ Remaining(t)' = Remaining(t)
        /\ \A u \in Threads \ {t} : call'[u] = call[u]
    BY <1>0, <2>1, GotoType DEF Pcs
  <2>. QED BY <1>0, <2>1, <2>2 DEF Kept, MembersType, InBounds, Elsewhere, members
<1>. QED BY <1>1, <1>2

LEMMA AdvanceKeeps ==
  ASSUME CallsInv, NEW t \in Threads, NEW c \in Ciphers, Uses(t, c),
         live' = live, Advance(t, c)
  PROVE  Kept(t, c)
<1>0. /\ MembersType /\ call \in [Threads -> Call] /\ call[t].cipher = c
      /\ InBounds(t) /\ state_[c] \in State
  BY DEF CallsInv, Uses, MembersType
<1>1. /\ state_' = [state_ EXCEPT ![c] = StepBy(state_[c], 1)]
      /\ Remaining(t) > 0 /\ Goto(t, "word")
      /\ UNCHANGED <<initial_state_, buffer_, buffer_pos_>>
  BY <1>0 DEF Advance, MembersType
<1>2. StepBy(state_[c], 1) \in State /\ StepBy(state_[c], 1).n > 0
  <2>1. state_[c].n \in Nat
    BY <1>0 DEF State
  <2>2. StepBy(state_[c], 1) \in State /\ StepBy(state_[c], 1).n = state_[c].n + 1
    BY <1>0, StepByType
  <2>. QED BY <2>1, <2>2
<1>3. /\ call' \in [Threads -> Call] /\ call'[t].pc = "word"
      /\ call'[t].cipher = c /\ Remaining(t)' = Remaining(t)
      /\ \A u \in Threads \ {t} : call'[u] = call[u]
  BY <1>0, <1>1, GotoType DEF Pcs
<1>4. MembersType' /\ state_'[c].n > 0
  BY <1>0, <1>1, <1>2 DEF MembersType
<1>5. InBounds(t)'
  BY <1>0, <1>1, <1>3, <1>4 DEF InBounds
<1>6. Elsewhere(t, c)
  BY <1>0, <1>1, <1>3 DEF Elsewhere, MembersType
<1>. QED BY <1>3, <1>4, <1>5, <1>6 DEF Kept

LEMMA TakeKeeps ==
  ASSUME CallsInv, NEW t \in Threads, NEW c \in Ciphers, Uses(t, c),
         live' = live, TakeWord(t, c)
  PROVE  Kept(t, c)
<1>0. /\ MembersType /\ call \in [Threads -> Call] /\ call[t].cipher = c
      /\ InBounds(t) /\ Remaining(t) \in Int /\ state_[c].n > 0 /\ Remaining(t) >= 8
  BY RemainingType DEF CallsInv, Uses, TakeWord, WholeWord, InBounds
<1>1. PICK bytes \in Seq(Byte) : /\ bytes = [i \in 1..8 |-> Word(c)[i - 1]]
                                 /\ Len(bytes) = 8
  BY <1>0, WordType
<1>2. Put(t, bytes, "fill") /\ UNCHANGED members
  BY <1>1 DEF TakeWord
<1>3. /\ call' \in [Threads -> Call] /\ call'[t].pc = "fill"
      /\ call'[t].cipher = c /\ Remaining(t)' = Remaining(t) - 8
      /\ \A u \in Threads \ {t} : call'[u] = call[u]
  <2>1. call \in [Threads -> Call] /\ Put(t, bytes, "fill") /\ "fill" \in Pcs
    BY <1>0, <1>2 DEF Pcs
  <2>2. /\ call' \in [Threads -> Call] /\ call'[t].pc = "fill"
        /\ call'[t].cipher = call[t].cipher
        /\ Remaining(t)' = Remaining(t) - Len(bytes)
        /\ \A u \in Threads \ {t} : call'[u] = call[u]
    BY <2>1, PutType
  <2>3. Len(bytes) = 8
    BY <1>1
  <2>. QED BY <1>0, <2>2, <2>3
<1>. QED BY <1>0, <1>2, <1>3 DEF Kept, MembersType, InBounds, Elsewhere, members

LEMMA KeepKeeps ==
  ASSUME CallsInv, NEW t \in Threads, NEW c \in Ciphers, Uses(t, c),
         live' = live, KeepWord(t, c)
  PROVE  Kept(t, c)
<1>0. /\ MembersType /\ call \in [Threads -> Call] /\ call[t].cipher = c
      /\ InBounds(t) /\ Remaining(t) \in Int /\ state_[c].n > 0
      /\ Remaining(t) > 0 /\ Remaining(t) < 8
  BY RemainingType DEF CallsInv, Uses, KeepWord, WholeWord, InBounds
<1>1. /\ buffer_' = [buffer_ EXCEPT ![c] = Word(c)]
      /\ buffer_pos_' = [buffer_pos_ EXCEPT ![c] = 0]
      /\ Goto(t, "serve") /\ UNCHANGED <<state_, initial_state_>>
  BY DEF KeepWord
<1>2. Word(c) \in [0..7 -> Byte]
  BY <1>0, WordType
<1>3. /\ call' \in [Threads -> Call] /\ call'[t].pc = "serve"
      /\ call'[t].cipher = c /\ Remaining(t)' = Remaining(t)
      /\ \A u \in Threads \ {t} : call'[u] = call[u]
  BY <1>0, <1>1, GotoType DEF Pcs
<1>4. MembersType'
  BY <1>0, <1>1, <1>2 DEF MembersType
<1>5. buffer_'[c] = Word(c)' /\ buffer_pos_'[c] = 0
  BY <1>0, <1>1 DEF MembersType, Word
<1>6. InBounds(t)'
  BY <1>0, <1>3, <1>5 DEF InBounds
<1>7. Elsewhere(t, c)
  BY <1>0, <1>1, <1>3 DEF Elsewhere, MembersType
<1>. QED BY <1>3, <1>4, <1>6, <1>7 DEF Kept

LEMMA ServeKeeps ==
  ASSUME CallsInv, NEW t \in Threads, NEW c \in Ciphers, Uses(t, c),
         live' = live, ServeByte(t, c)
  PROVE  Kept(t, c)
<1>0. /\ MembersType /\ call \in [Threads -> Call] /\ call[t].cipher = c
      /\ InBounds(t) /\ Remaining(t) \in Int /\ Remaining(t) > 0
      /\ buffer_pos_[c] \in 0..8 /\ buffer_[c] \in [0..7 -> Byte]
      /\ buffer_pos_[c] + Remaining(t) <= 8 /\ buffer_[c] = Word(c)
  BY RemainingType DEF CallsInv, Uses, ServeByte, InBounds, MembersType
<1>1. PICK bytes \in Seq(Byte) : bytes = <<buffer_[c][buffer_pos_[c]]>> /\ Len(bytes) = 1
  <2>1. buffer_[c][buffer_pos_[c]] \in Byte
    BY <1>0
  <2>2. PICK byte \in Byte : byte = buffer_[c][buffer_pos_[c]]
    BY <2>1
  <2>3. <<byte>> \in Seq(Byte) /\ Len(<<byte>>) = 1
    BY OneByte
  <2>. QED BY <2>2, <2>3
<1>2. /\ Put(t, bytes, "serve")
      /\ buffer_pos_' = [buffer_pos_ EXCEPT ![c] = buffer_pos_[c] + 1]
      /\ UNCHANGED <<state_, initial_state_, buffer_>>
  BY <1>0, <1>1 DEF ServeByte, MembersType
<1>3. /\ call' \in [Threads -> Call] /\ call'[t].pc = "serve"
      /\ call'[t].cipher = c /\ Remaining(t)' = Remaining(t) - 1
      /\ \A u \in Threads \ {t} : call'[u] = call[u]
  BY <1>0, <1>1, <1>2, PutType DEF Pcs
<1>4. buffer_pos_'[c] = buffer_pos_[c] + 1 /\ buffer_pos_[c] + 1 \in 0..8
  BY <1>0, <1>2 DEF MembersType
<1>5. MembersType'
  BY <1>0, <1>2, <1>4 DEF MembersType
<1>6. Word(c)' = Word(c) /\ buffer_'[c] = Word(c)
  BY <1>0, <1>2 DEF Word
<1>7. InBounds(t)'
  BY <1>0, <1>3, <1>4, <1>6 DEF InBounds
<1>8. Elsewhere(t, c)
  BY <1>0, <1>2, <1>3 DEF Elsewhere, MembersType
<1>. QED BY <1>3, <1>5, <1>7, <1>8 DEF Kept

LEMMA ResetKeeps ==
  ASSUME CallsInv, NEW t \in Threads, NEW c \in Ciphers, Uses(t, c),
         live' = live, Rewind(t, c) \/ Forget(t, c) \/ ZeroLeftover(t, c)
  PROVE  Kept(t, c)
<1>0. /\ MembersType /\ call \in [Threads -> Call] /\ call[t].cipher = c
      /\ InBounds(t) /\ initial_state_[c] \in State
  BY DEF CallsInv, Uses, MembersType
<1>1. PICK pc \in {"forget", "zero", "fill"} : Goto(t, pc)
  BY DEF Rewind, Forget, ZeroLeftover
<1>2. /\ call' \in [Threads -> Call] /\ call'[t].pc \in {"forget", "zero", "fill"}
      /\ call'[t].cipher = c /\ Remaining(t)' = Remaining(t)
      /\ \A u \in Threads \ {t} : call'[u] = call[u]
  BY <1>0, <1>1, GotoType DEF Pcs
<1>3. InBounds(t)'
  BY <1>0, <1>2 DEF InBounds
<1>4. MembersType'
  BY <1>0, ZeroBufferType DEF MembersType, Rewind, Forget, ZeroLeftover
<1>5. Elsewhere(t, c)
  BY <1>0, <1>2 DEF Elsewhere, MembersType, Rewind, Forget, ZeroLeftover
<1>. QED BY <1>2, <1>3, <1>4, <1>5 DEF Kept

LEMMA StatementKeeps ==
  ASSUME CallsInv, NEW t \in Threads, NEW c \in Ciphers, call[t].cipher = c,
         Statement(t, c)
  PROVE  CallsInv'
<1>1. Uses(t, c) /\ live' = live
  BY DEF Statement, Uses, DrainByte, Drained, Advance, TakeWord, KeepWord,
         ServeByte, Rewind, Forget, ZeroLeftover
<1>2. Kept(t, c)
  BY <1>1, DrainKeeps, AdvanceKeeps, TakeKeeps, KeepKeeps, ServeKeeps, ResetKeeps
     DEF Statement
<1>3. \A u \in Threads \ {t} : ~Uses(u, c)
  BY <1>1 DEF CallsInv, Exclusive
<1>4. \A u \in Threads \ {t} : InBounds(u)'
  BY <1>2, <1>3, OthersInBounds DEF Kept
<1>5. Exclusive'
  BY <1>1, <1>2, StillExclusive DEF Kept, Elsewhere
<1>. QED BY <1>2, <1>4, <1>5 DEF Kept, CallsInv

-----------------------------------------------------------------------------
(* A call begins, a call ends, an object comes to life.                    *)

LEMMA EnterKeeps ==
  ASSUME CallsInv, NEW t \in Threads, NEW c \in Ciphers,
         NEW op \in {"generate", "next", "reset"}, NEW size \in Nat,
         NEW pc \in {"drain", "fill", "rewind"}, Enter(t, c, op, size, pc)
  PROVE  CallsInv'
<1>. DEFINE new == [pc |-> pc, op |-> op, cipher |-> c, size |-> size, output |-> <<>>]
<1>1. /\ call' = [call EXCEPT ![t] = new] /\ new \in Call
      /\ c \in live /\ Free(c) /\ UNCHANGED <<live, members>>
  BY DEF Enter, vars, Call, Pcs
<1>2. /\ call' \in [Threads -> Call] /\ call'[t] = new
      /\ \A u \in Threads \ {t} : call'[u] = call[u]
  BY <1>1 DEF CallsInv
<1>3. MembersType'
  BY <1>1 DEF CallsInv, MembersType, members
<1>4. Exclusive'
  <2>1. \A u \in Threads : call'[u].pc # "idle" => call'[u].cipher \in live'
    BY <1>1, <1>2 DEF CallsInv, Exclusive
  <2>2. \A u \in Threads \ {t}, d \in Ciphers : Uses(u, d)' = Uses(u, d)
    BY <1>2 DEF Uses
  <2>3. \A d \in Ciphers : Uses(t, d)' => d = c
    BY <1>2 DEF Uses
  <2>4. \A u \in Threads \ {t} : ~Uses(u, c)
    BY <1>1 DEF Free
  <2>. QED BY <2>1, <2>2, <2>3, <2>4 DEF CallsInv, Exclusive
<1>5. ASSUME NEW u \in Threads PROVE InBounds(u)'
  <2>1. CASE u = t
    <3>1. Remaining(t)' = size
      BY <1>2 DEF Remaining
    <3>. QED BY <1>2, <2>1, <3>1 DEF InBounds
  <2>2. CASE u # t
    <3>1. call'[u] = call[u] /\ Remaining(u)' = Remaining(u)
      BY <1>2, <2>2 DEF Remaining
    <3>2. Word(call[u].cipher)' = Word(call[u].cipher)
      BY <1>1, <3>1 DEF Word, members
    <3>. QED BY <1>1, <3>1, <3>2 DEF CallsInv, InBounds, Word, members
  <2>. QED BY <2>1, <2>2
<1>. QED BY <1>2, <1>3, <1>4, <1>5 DEF CallsInv

LEMMA ReturnKeeps ==
  ASSUME CallsInv, NEW t \in Threads, NEW c \in Ciphers, call[t].cipher = c,
         Return(t, c)
  PROVE  CallsInv'
<1>1. /\ call' = [call EXCEPT ![t] = NoCall] /\ NoCall \in Call
      /\ UNCHANGED <<live, members>>
  BY DEF Return, NoCall, Call, Pcs
<1>2. /\ call' \in [Threads -> Call] /\ call'[t] = NoCall
      /\ \A u \in Threads \ {t} : call'[u] = call[u]
  BY <1>1 DEF CallsInv
<1>3. MembersType'
  BY <1>1 DEF CallsInv, MembersType, members
<1>4. Exclusive'
  <2>1. \A u \in Threads : call'[u].pc # "idle" => u # t
    BY <1>2 DEF NoCall
  <2>2. \A u \in Threads, d \in Ciphers : Uses(u, d)' => Uses(u, d)
    BY <1>2, <2>1 DEF Uses
  <2>. QED BY <1>1, <1>2, <2>1, <2>2 DEF CallsInv, Exclusive
<1>5. ASSUME NEW u \in Threads PROVE InBounds(u)'
  <2>1. CASE u = t
    <3>1. Remaining(t)' = 0
      BY <1>2 DEF Remaining, NoCall
    <3>. QED BY <1>2, <2>1, <3>1 DEF InBounds, NoCall
  <2>2. CASE u # t
    <3>1. call'[u] = call[u] /\ Remaining(u)' = Remaining(u)
      BY <1>2, <2>2 DEF Remaining
    <3>. QED BY <1>1, <3>1 DEF CallsInv, InBounds, Word, members
  <2>. QED BY <2>1, <2>2
<1>. QED BY <1>2, <1>3, <1>4, <1>5 DEF CallsInv

LEMMA ConstructKeeps ==
  ASSUME CallsInv, NEW c \in Ciphers, NEW m \in Arguments, Construct(c, m),
         UNCHANGED <<call, entry>>
  PROVE  CallsInv'
<1>1. /\ c \notin live /\ live' = live \cup {c} /\ call' = call
      /\ DeriveState(m) \in State
      /\ state_' = [state_ EXCEPT ![c] = DeriveState(m)]
      /\ initial_state_' = [initial_state_ EXCEPT ![c] = DeriveState(m)]
      /\ buffer_' = [buffer_ EXCEPT ![c] = ZeroBuffer]
      /\ buffer_pos_' = [buffer_pos_ EXCEPT ![c] = 8]
  BY DeriveStateType DEF Construct, Assign
<1>2. MembersType'
  BY <1>1, ZeroBufferType DEF CallsInv, MembersType
<1>3. Exclusive'
  BY <1>1 DEF CallsInv, Exclusive, Uses
<1>4. ASSUME NEW u \in Threads PROVE InBounds(u)'
  <2>1. Remaining(u)' = Remaining(u)
    BY <1>1 DEF Remaining
  <2>2. CASE call[u].pc = "idle"
    BY <1>1, <2>1, <2>2 DEF CallsInv, InBounds
  <2>3. CASE call[u].pc # "idle"
    <3>1. call[u].cipher \in Ciphers \ {c}
      BY <1>1, <2>3 DEF CallsInv, Exclusive, MembersType
    <3>2. PICK d \in Ciphers \ {c} : d = call[u].cipher
      BY <3>1
    <3>3. /\ state_'[d] = state_[d] /\ buffer_'[d] = buffer_[d]
          /\ buffer_pos_'[d] = buffer_pos_[d]
      BY <1>1 DEF CallsInv, MembersType
    <3>4. Word(d)' = Word(d)
      BY <3>3 DEF Word
    <3>. QED BY <1>1, <2>1, <3>2, <3>3, <3>4 DEF CallsInv, InBounds
  <2>. QED BY <2>2, <2>3
<1>. QED BY <1>1, <1>2, <1>3, <1>4 DEF CallsInv

-----------------------------------------------------------------------------
(* The theorems.                                                           *)

LEMMA CallsInvInit == CallsInit => CallsInv
<1>. SUFFICES ASSUME CallsInit PROVE CallsInv
  OBVIOUS
<1>1. MembersType
  BY WipedType, ZeroBufferType DEF CallsInit, Init, MembersType
<1>2. NoCall \in Call /\ NoCall.pc = "idle"
  BY DEF NoCall, Call, Pcs
<1>3. /\ call \in [Threads -> Call]
      /\ \A t \in Threads : call[t].pc = "idle" /\ Remaining(t) = 0
  BY <1>2 DEF CallsInit, Remaining, NoCall
<1>4. Exclusive /\ \A t \in Threads : InBounds(t)
  BY <1>3 DEF Exclusive, Uses, InBounds
<1>. QED BY <1>1, <1>3, <1>4 DEF CallsInv

LEMMA CallsInvNext == CallsInv /\ [CallsNext]_callVars => CallsInv'
<1>. SUFFICES ASSUME CallsInv, [CallsNext]_callVars PROVE CallsInv'
  OBVIOUS
<1>1. CASE UNCHANGED callVars
  BY <1>1 DEF callVars, vars, members, CallsInv, MembersType, Exclusive, Uses,
              InBounds, Remaining, Word
<1>2. ASSUME NEW t \in Threads, Proceed(t) PROVE CallsInv'
  BY <1>2, StatementKeeps, ReturnKeeps DEF Proceed
<1>3. ASSUME NEW t \in Threads, NEW c \in Ciphers, NEW size \in GenerateSizes,
             Enter(t, c, "generate", size, "drain")
      PROVE  CallsInv'
  BY <1>3, EnterKeeps, SizesAssumption
<1>4. ASSUME NEW t \in Threads, NEW c \in Ciphers, Enter(t, c, "next", 8, "fill")
      PROVE  CallsInv'
  BY <1>4, EnterKeeps
<1>5. ASSUME NEW t \in Threads, NEW c \in Ciphers, Enter(t, c, "reset", 0, "rewind")
      PROVE  CallsInv'
  BY <1>5, EnterKeeps
<1>6. ASSUME NEW c \in Ciphers, NEW m \in Arguments, Construct(c, m),
             UNCHANGED <<call, entry>>
      PROVE  CallsInv'
  BY <1>6, ConstructKeeps
<1>. QED BY <1>1, <1>2, <1>3, <1>4, <1>5, <1>6 DEF CallsNext

LEMMA CallsInvCorrect == CallsSpec => []CallsInv
  BY CallsInvInit, CallsInvNext, PTL DEF CallsSpec

\* WithinBounds: whatever the sizes and the read positions, no call writes
\* beyond its output or moves the read position beyond the buffer.
THEOREM WithinBoundsCorrect == CallsSpec => []WithinBounds
<1>1. CallsInv => WithinBounds
  <2>. SUFFICES ASSUME CallsInv PROVE WithinBounds
    OBVIOUS
  <2>1. ASSUME NEW t \in Threads
        PROVE  call[t].pc \in Pcs /\ Len(call[t].output) <= call[t].size
    <3>1. Len(call[t].output) \in Nat /\ call[t].size \in Nat /\ Remaining(t) >= 0
      BY RemainingType DEF CallsInv, InBounds
    <3>2. call[t].pc \in Pcs
      BY DEF CallsInv, Call
    <3>. QED BY <3>1, <3>2 DEF Remaining
  <2>. QED BY <2>1 DEF CallsInv, MembersType, WithinBounds
<1>. QED BY <1>1, CallsInvCorrect, PTL

\* ReadsOwnWord: a byte is served from the buffer only while the buffer holds
\* the word the object stands at, whoever else is running.
THEOREM ReadsOwnWordCorrect == CallsSpec => []ReadsOwnWord
<1>1. CallsInv => ReadsOwnWord
  <2>. SUFFICES ASSUME CallsInv, NEW t \in Threads, NEW c \in Ciphers, Uses(t, c),
                       call[t].pc = "serve", Remaining(t) > 0
                PROVE  buffer_pos_[c] < 8 /\ buffer_[c] = Word(c)
    BY DEF ReadsOwnWord
  <2>1. /\ buffer_pos_[c] \in 0..8 /\ Remaining(t) \in Int
        /\ buffer_pos_[c] + Remaining(t) <= 8 /\ buffer_[c] = Word(c)
    BY RemainingType DEF CallsInv, MembersType, InBounds, Uses
  <2>. QED BY <2>1
<1>. QED BY <1>1, CallsInvCorrect, PTL

-----------------------------------------------------------------------------
(* The loops end.                                                          *)

LEMMA StatementNearer ==
  ASSUME CallsInv, NEW t \in Threads, NEW c \in Ciphers, call[t].cipher = c,
         Statement(t, c)
  PROVE  StatementsLeft(t)' \in 0 .. StatementsLeft(t) - 1
<1>0. /\ call \in [Threads -> Call] /\ call[t].pc \in Pcs
      /\ Remaining(t) \in Int /\ MembersType
  BY RemainingType DEF CallsInv, Call
<1>1. Remaining(t)' \in Nat /\ call'[t].pc \in Pcs
  <2>1. CallsInv'
    BY StatementKeeps
  <2>2. call' \in [Threads -> Call]
    BY <2>1 DEF CallsInv
  <2>3. /\ call'[t].output \in Seq(Byte) /\ call'[t].size \in Nat
        /\ call'[t].pc \in Pcs
    BY <2>2 DEF Call
  <2>4. Remaining(t)' \in Int
    BY <2>3, LenProperties DEF Remaining
  <2>. QED BY <2>1, <2>3, <2>4 DEF CallsInv, InBounds
<1>2. ASSUME NEW from \in Pcs, NEW to \in Pcs, NEW bytes \in Nat,
             call[t].pc = from, call'[t].pc = to,
             Remaining(t)' = Remaining(t) - bytes, Ahead[to] < Ahead[from] + bytes
      PROVE  StatementsLeft(t)' \in 0 .. StatementsLeft(t) - 1
  <2>1. Ahead[from] \in Nat /\ Ahead[to] \in Nat
    BY DEF Ahead, Pcs
  <2>2. /\ StatementsLeft(t) = Remaining(t) + Ahead[from]
        /\ StatementsLeft(t)' = Remaining(t)' + Ahead[to]
    BY <1>2 DEF StatementsLeft, Ahead
  <2>. QED BY <1>0, <1>1, <1>2, <2>1, <2>2
<1>3. ASSUME NEW bytes \in Seq(Byte), NEW pc \in Pcs, Put(t, bytes, pc)
      PROVE  call'[t].pc = pc /\ Remaining(t)' = Remaining(t) - Len(bytes)
  BY <1>0, <1>3, PutType
<1>4. ASSUME NEW pc \in Pcs, Goto(t, pc)
      PROVE  call'[t].pc = pc /\ Remaining(t)' = Remaining(t) - 0
  BY <1>0, <1>4, GotoType
<1>5. CASE DrainByte(t, c) \/ ServeByte(t, c)
  <2>1. PICK pc \in {"drain", "serve"} :
          call[t].pc = pc /\ Put(t, <<buffer_[c][buffer_pos_[c]]>>, pc)
    BY <1>5 DEF DrainByte, ServeByte
  <2>2. buffer_[c][buffer_pos_[c]] \in Byte
    BY <1>0, <1>5 DEF DrainByte, ServeByte, CallsInv, InBounds, MembersType
  <2>3. /\ <<buffer_[c][buffer_pos_[c]]>> \in Seq(Byte)
        /\ Len(<<buffer_[c][buffer_pos_[c]]>>) = 1
    BY <2>2, OneByte
  <2>4. pc \in Pcs /\ call'[t].pc = pc /\ Remaining(t)' = Remaining(t) - 1
    BY <1>3, <2>1, <2>3 DEF Pcs
  <2>5. Ahead[pc] < Ahead[pc] + 1
    BY DEF Ahead
  <2>. QED BY <1>2, <2>1, <2>4, <2>5
<1>6. CASE TakeWord(t, c)
  <2>1. PICK bytes \in Seq(Byte) : /\ bytes = [k \in 1..8 |-> Word(c)[k - 1]]
                                   /\ Len(bytes) = 8
    BY <1>6, WordType DEF TakeWord, CallsInv, InBounds
  <2>2. call[t].pc = "word" /\ Put(t, bytes, "fill")
    BY <1>6, <2>1 DEF TakeWord
  <2>3. call'[t].pc = "fill" /\ Remaining(t)' = Remaining(t) - 8
    BY <1>3, <2>1, <2>2 DEF Pcs
  <2>4. Ahead["fill"] < Ahead["word"] + 8 /\ "fill" \in Pcs /\ "word" \in Pcs
    BY DEF Ahead, Pcs
  <2>. QED BY <1>2, <2>2, <2>3, <2>4
<1>7. CASE \/ Drained(t, c) \/ Advance(t, c) \/ KeepWord(t, c)
           \/ Rewind(t, c) \/ Forget(t, c) \/ ZeroLeftover(t, c)
  <2>1. PICK from \in Pcs, to \in Pcs :
          call[t].pc = from /\ Goto(t, to) /\ Ahead[to] < Ahead[from]
    BY <1>7 DEF Drained, Advance, KeepWord, Rewind, Forget, ZeroLeftover, Ahead, Pcs
  <2>2. call'[t].pc = to /\ Remaining(t)' = Remaining(t) - 0
    BY <1>4, <2>1
  <2>3. Ahead[to] < Ahead[from] + 0
    BY <2>1 DEF Ahead, Pcs
  <2>. QED BY <1>2, <2>1, <2>2, <2>3
<1>. QED BY <1>5, <1>6, <1>7 DEF Statement

\* For any threads, objects and sizes, each statement of a call takes one of a
\* finite number that were left.
THEOREM ReturnNearerCorrect == CallsSpec => ReturnNearer
<1>1. ASSUME CallsInv, NEW t \in Threads, Proceed(t)
      PROVE  \/ call'[t] = NoCall
             \/ StatementsLeft(t)' \in 0 .. StatementsLeft(t) - 1
  <2>1. PICK c \in Ciphers : call[t].cipher = c /\ (Statement(t, c) \/ Return(t, c))
    BY <1>1 DEF Proceed
  <2>2. CASE Statement(t, c)
    BY <1>1, <2>1, <2>2, StatementNearer
  <2>3. CASE Return(t, c)
    BY <1>1, <2>3 DEF Return, CallsInv
  <2>. QED BY <2>1, <2>2, <2>3
<1>2. CallsInv => \A t \in Threads : Proceed(t) =>
                    \/ call'[t] = NoCall
                    \/ StatementsLeft(t)' \in 0 .. StatementsLeft(t) - 1
  BY <1>1
<1>. QED BY <1>2, CallsInvCorrect, PTL DEF CallsSpec, ReturnNearer

-----------------------------------------------------------------------------
(* A trace of the calls: the bytes a running call owes to what it found,   *)
(* and where its statements so far have brought its object.                *)

\* What r, a call that found e, drains of the leftover bytes.
Held(r, e) ==
  IF r.op # "generate" THEN 0
  ELSE IF r.size <= 8 - e.buffer_pos_ THEN r.size ELSE 8 - e.buffer_pos_

\* Byte i of the output that such a call owes.
Owed(e, held, i) ==
  IF i <= held THEN e.buffer_[e.buffer_pos_ + i - 1]
  ELSE ExtractByte(StepBy(e.state_, 1), i - held - 1)

\* The members s, b, p of the object stand where the call has left the entry
\* by k bytes of leftovers and m words.
Stands(e, s, b, p, m, k) ==
  s = StepBy(e.state_, m) /\ b = e.buffer_ /\ p = e.buffer_pos_ + k

\* The output is a beginning of the one owed, and the members are where the
\* statements so far have brought them.
Drawing(r, e, s, b, p) ==
  LET done == Len(r.output)
      held == Held(r, e)
  IN  /\ \A i \in 1 .. done : r.output[i] = Owed(e, held, i)
      /\ \/ /\ r.pc = "drain" /\ r.op = "generate"
            /\ done <= held /\ Stands(e, s, b, p, 0, done)
         \/ /\ r.pc = "fill"
            /\ \E m \in Nat : done = held + 8 * m /\ Stands(e, s, b, p, m, held)
         \/ /\ r.pc = "word"
            /\ \E m \in Nat : done = held + 8 * m /\ Stands(e, s, b, p, m + 1, held)
         \/ /\ r.pc = "serve" /\ r.op = "generate"
            /\ \E m \in Nat : /\ r.size - held - 8 * m \in 1..7
                              /\ p = done - held - 8 * m
                              /\ s = StepBy(e.state_, m + 1)
                              /\ b = [i \in 0..7 |-> ExtractByte(s, i)]

Rewinding(r, e, s, b, p, init) ==
  /\ r.output = <<>>
  /\ \/ r.pc = "rewind" /\ Stands(e, s, b, p, 0, 0)
     \/ r.pc = "forget" /\ s = init
     \/ r.pc = "zero"   /\ s = init /\ p = 8
     \/ r.pc = "fill"   /\ s = init /\ p = 8 /\ b = ZeroBuffer

Entries == [state_ : State, buffer_ : [0..7 -> Byte], buffer_pos_ : 0..8]

OnTheWay(r, e, s, b, p, init) ==
  /\ r.op \in {"generate", "next", "reset"}
  /\ IF r.op = "reset" THEN r.size = 0 /\ Rewinding(r, e, s, b, p, init)
     ELSE Drawing(r, e, s, b, p)
  /\ r.op = "generate" => r.size \in GenerateSizes
  /\ r.op = "next" => r.size = 8
  /\ e.state_.n + ((r.size - Held(r, e) + 7) \div 8) <= MaxWords

Along(t) ==
  LET c == call[t].cipher
  IN  call[t].pc # "idle" =>
        OnTheWay(call[t], entry[c], state_[c], buffer_[c], buffer_pos_[c],
                 initial_state_[c])

TraceInv ==
  /\ CallsInv
  /\ entry \in [Ciphers -> Entries]
  /\ \A t \in Threads : Along(t)

LEMMA SizesType ==
  ASSUME NEW r \in Call, NEW e \in Entries
  PROVE  /\ r.size \in Nat /\ Len(r.output) \in Nat
         /\ e.state_ \in State /\ e.state_.n \in Nat
         /\ e.buffer_ \in [0..7 -> Byte] /\ e.buffer_pos_ \in 0..8
<1>1. r.output \in Seq(Byte)
  BY DEF Call
<1>. QED BY <1>1, LenProperties DEF Call, Entries, State

LEMMA HeldType ==
  ASSUME NEW r \in Call, NEW e \in Entries
  PROVE  /\ Held(r, e) \in 0..8 /\ e.buffer_pos_ + Held(r, e) \in 0..8
         /\ Held(r, e) <= r.size
         /\ r.op = "generate" /\ Held(r, e) < r.size => e.buffer_pos_ + Held(r, e) = 8
<1>1. PICK size \in Nat, from \in 0..8 : size = r.size /\ from = e.buffer_pos_
  BY SizesType
<1>2. PICK h : h = Held(r, e) /\ h = IF r.op # "generate" THEN 0
                                    ELSE IF size <= 8 - from THEN size ELSE 8 - from
  BY <1>1 DEF Held
<1>3. h \in 0..8 /\ from + h \in 0..8 /\ h <= size
  BY <1>2
<1>4. r.op = "generate" /\ h < size => from + h = 8
  BY <1>2
<1>. QED BY <1>1, <1>2, <1>3, <1>4

\* r2 is r with bytes put at the end of its output.
Extended(r, r2, bytes) ==
  /\ r2.op = r.op /\ r2.size = r.size
  /\ Len(r2.output) = Len(r.output) + Len(bytes)
  /\ \A i \in 1 .. Len(r2.output) :
       r2.output[i] = IF i <= Len(r.output) THEN r.output[i]
                      ELSE bytes[i - Len(r.output)]

LEMMA Further ==
  ASSUME NEW s \in State, NEW m \in Nat, NEW i \in Int
  PROVE  ExtractByte(StepBy(s, m + 1), i) = ExtractByte(StepBy(s, 1), 8 * m + i)
<1>1. m + 1 \in Nat /\ 1 \in Nat
  OBVIOUS
<1>2. /\ StepBy(s, m + 1).seed = s.seed /\ StepBy(s, m + 1).n = s.n + (m + 1)
      /\ StepBy(s, 1).seed = s.seed /\ StepBy(s, 1).n = s.n + 1
  BY <1>1, StepByType
<1>3. PICK n \in Nat : n = s.n
  BY DEF State
<1>4. 8 * (n + (m + 1) - 1) + i = 8 * (n + 1 - 1) + (8 * m + i)
  OBVIOUS
<1>. QED BY <1>2, <1>3, <1>4 DEF ExtractByte, StreamByte

LEMMA StepTwice ==
  ASSUME NEW s \in State, NEW m \in Nat
  PROVE  StepBy(StepBy(s, m), 1) = StepBy(s, m + 1)
<1>1. \A q \in State : q = [seed |-> q.seed, n |-> q.n]
  BY DEF State
<1>2. /\ StepBy(s, m) \in State /\ StepBy(s, m + 1) \in State
      /\ StepBy(s, m).seed = s.seed /\ StepBy(s, m).n = s.n + m
      /\ StepBy(s, m + 1).seed = s.seed /\ StepBy(s, m + 1).n = s.n + (m + 1)
  BY StepByType
<1>3. PICK q \in State : q = StepBy(s, m)
  BY <1>2
<1>4. StepBy(q, 1) \in State /\ StepBy(q, 1).seed = q.seed /\ StepBy(q, 1).n = q.n + 1
  BY StepByType
<1>5. (s.n + m) + 1 = s.n + (m + 1)
  BY DEF State
<1>6. StepBy(q, 1).seed = StepBy(s, m + 1).seed /\ StepBy(q, 1).n = StepBy(s, m + 1).n
  BY <1>2, <1>3, <1>4, <1>5
<1>. QED BY <1>1, <1>2, <1>3, <1>4, <1>6

\* A call in numbers: what it has done, its size, its leftovers and where they
\* began, before and after bytes.
Measured(r, e, r2, bytes, done, size, held, from) ==
  /\ done = Len(r.output) /\ size = r.size /\ from = e.buffer_pos_
  /\ held = Held(r, e) /\ held = Held(r2, e)
  /\ from + held <= 8 /\ held <= size
  /\ r.op = "generate" /\ held < size => from + held = 8
  /\ Len(r2.output) = done + Len(bytes) /\ r2.size = size /\ r2.op = r.op
  /\ \A i \in 1 .. done : r2.output[i] = r.output[i]
  /\ \A i \in (done + 1) .. (done + Len(bytes)) : r2.output[i] = bytes[i - done]

LEMMA Numbers ==
  ASSUME NEW r \in Call, NEW e \in Entries, NEW r2 \in Call,
         NEW bytes, Extended(r, r2, bytes), Len(bytes) \in Nat
  PROVE  \E done \in Nat, size \in Nat, held \in 0..8, from \in 0..8 :
           Measured(r, e, r2, bytes, done, size, held, from)
<1>1. Held(r2, e) = Held(r, e)
  BY DEF Held, Extended
<1>2. PICK done \in Nat : done = Len(r.output)
  BY SizesType
<1>3. /\ r.size \in Nat /\ Held(r, e) \in 0..8 /\ e.buffer_pos_ \in 0..8
  BY SizesType, HeldType
<1>4. /\ e.buffer_pos_ + Held(r, e) <= 8 /\ Held(r, e) <= r.size
      /\ r.op = "generate" /\ Held(r, e) < r.size => e.buffer_pos_ + Held(r, e) = 8
  <2>1. e.buffer_pos_ + Held(r, e) \in 0..8
    BY HeldType
  <2>. QED BY <2>1, HeldType
<1>5. /\ Len(r2.output) = done + Len(bytes)
      /\ \A i \in 1 .. done + Len(bytes) :
           r2.output[i] = IF i <= done THEN r.output[i] ELSE bytes[i - done]
  BY <1>2 DEF Extended
<1>6. /\ \A i \in 1 .. done : r2.output[i] = r.output[i]
      /\ \A i \in (done + 1) .. (done + Len(bytes)) : r2.output[i] = bytes[i - done]
  BY <1>5
<1>7. Measured(r, e, r2, bytes, done, r.size, Held(r, e), e.buffer_pos_)
  BY <1>1, <1>2, <1>4, <1>5, <1>6, Zenon DEF Measured, Extended
<1>. QED BY <1>3, <1>7

LEMMA Drawn ==
  ASSUME NEW r, NEW e, NEW s, NEW b, NEW p, Drawing(r, e, s, b, p)
  PROVE  \A i \in 1 .. Len(r.output) : r.output[i] = Owed(e, Held(r, e), i)
  BY DEF Drawing

\* Two ways to be on the way.
LEMMA OneWay ==
  ASSUME NEW r \in Call, NEW e, NEW s, NEW b, NEW p, NEW init,
         OnTheWay(r, e, s, b, p, init)
  PROVE  \/ r.op # "reset" /\ Drawing(r, e, s, b, p)
         \/ r.op = "reset" /\ r.size = 0 /\ Len(r.output) = 0
<1>1. Rewinding(r, e, s, b, p, init) => r.output = <<>>
  BY DEF Rewinding
<1>2. r.output = <<>> => Len(r.output) = 0
  OBVIOUS
<1>. QED BY <1>1, <1>2 DEF OnTheWay

LEMMA DrainDraws ==
  ASSUME NEW r \in Call, NEW e \in Entries, NEW s, NEW b, NEW p, NEW init,
         NEW r2 \in Call, r.pc = "drain", r.size - Len(r.output) > 0, p < 8,
         NEW bytes, Len(bytes) = 1, bytes[1] = b[p],
         OnTheWay(r, e, s, b, p, init), Extended(r, r2, bytes), r2.pc = "drain"
  PROVE  OnTheWay(r2, e, s, b, p + 1, init)
<1>1. PICK done \in Nat, size \in Nat, held \in 0..8, from \in 0..8 :
           Measured(r, e, r2, bytes, done, size, held, from)
  BY Numbers
<1>2. /\ done = Len(r.output) /\ size = r.size /\ from = e.buffer_pos_
      /\ held = Held(r, e) /\ held = Held(r2, e)
      /\ from + held <= 8 /\ held <= size
      /\ r.op = "generate" /\ held < size => from + held = 8
      /\ Len(r2.output) = done + 1 /\ r2.size = size /\ r2.op = r.op
      /\ \A i \in 1 .. done : r2.output[i] = r.output[i]
      /\ r2.output[done + 1] = bytes[1]
  BY <1>1 DEF Measured
<1>3. r.op = "generate" /\ Drawing(r, e, s, b, p)
  BY DEF OnTheWay, Drawing, Rewinding
<1>4. \A i \in 1 .. done : r.output[i] = Owed(e, held, i)
  <2>1. \A i \in 1 .. Len(r.output) : r.output[i] = Owed(e, Held(r, e), i)
    BY <1>3, Drawn
  <2>. QED BY <1>2, <2>1
<1>5. done <= held /\ Stands(e, s, b, p, 0, done)
  BY <1>2, <1>3 DEF Drawing
<1>6. p = from + done
  BY <1>2, <1>5 DEF Stands
<1>7. done + 1 <= held
  <2>1. size - done > 0 /\ done <= held /\ from + done < 8
    BY <1>2, <1>5, <1>6
  <2>2. held = size \/ from + held = 8
    BY <1>2, <1>3
  <2>. QED BY <2>1, <2>2
<1>8. Stands(e, s, b, p + 1, 0, done + 1)
  <2>1. p + 1 = from + (done + 1)
    BY <1>6
  <2>. QED BY <1>2, <1>5, <2>1, Zenon DEF Stands
<1>9. ASSUME NEW i \in 1 .. done + 1 PROVE r2.output[i] = Owed(e, held, i)
  <2>1. CASE i <= done
    <3>1. i \in 1 .. done
      BY <2>1
    <3>. QED BY <1>2, <1>4, <3>1
  <2>2. CASE i = done + 1
    <3>1. i <= held /\ p = from + i - 1 /\ b = e.buffer_
      BY <1>5, <1>6, <1>7, <2>2 DEF Stands
    <3>2. Owed(e, held, i) = e.buffer_[p]
      BY <1>2, <3>1 DEF Owed
    <3>. QED BY <1>2, <2>2, <3>1, <3>2
  <2>. QED BY <2>1, <2>2
<1>10. Drawing(r2, e, s, b, p + 1)
  BY <1>2, <1>3, <1>7, <1>8, <1>9 DEF Drawing
<1>. QED BY <1>2, <1>3, <1>10 DEF OnTheWay

LEMMA DrainedDraws ==
  ASSUME NEW r \in Call, NEW e \in Entries, NEW s, NEW b, NEW p, NEW init,
         NEW r2 \in Call, r.pc = "drain", ~(r.size - Len(r.output) > 0 /\ p < 8),
         OnTheWay(r, e, s, b, p, init),
         NEW bytes, Len(bytes) = 0, Extended(r, r2, bytes), r2.pc = "fill"
  PROVE  OnTheWay(r2, e, s, b, p, init)
<1>1. PICK done \in Nat, size \in Nat, held \in 0..8, from \in 0..8 :
           Measured(r, e, r2, bytes, done, size, held, from)
  BY Numbers
<1>2. /\ done = Len(r.output) /\ size = r.size /\ from = e.buffer_pos_
      /\ held = Held(r, e) /\ held = Held(r2, e)
      /\ from + held <= 8 /\ held <= size
      /\ r.op = "generate" /\ held < size => from + held = 8
      /\ Len(r2.output) = done + 0 /\ r2.size = size /\ r2.op = r.op
      /\ \A i \in 1 .. done : r2.output[i] = r.output[i]
  BY <1>1 DEF Measured
<1>3. r.op = "generate" /\ Drawing(r, e, s, b, p)
  BY DEF OnTheWay, Drawing, Rewinding
<1>4. \A i \in 1 .. done : r.output[i] = Owed(e, held, i)
  <2>1. \A i \in 1 .. Len(r.output) : r.output[i] = Owed(e, Held(r, e), i)
    BY <1>3, Drawn
  <2>. QED BY <1>2, <2>1
<1>5. done <= held /\ Stands(e, s, b, p, 0, done)
  BY <1>2, <1>3 DEF Drawing
<1>6. p = from + done
  BY <1>2, <1>5 DEF Stands
<1>7. done = held
  <2>1. ~(size - done > 0 /\ from + done < 8) /\ done <= held
    BY <1>2, <1>5, <1>6
  <2>2. from + held <= 8 /\ held <= size
    BY <1>2
  <2>. QED BY <2>1, <2>2
<1>8. \E m \in Nat : done = held + 8 * m /\ Stands(e, s, b, p, m, held)
  <2>1. 0 \in Nat /\ done = held + 8 * 0
    BY <1>7
  <2>. QED BY <1>5, <1>7, <2>1, Zenon
<1>9. Len(r2.output) = done /\ \A i \in 1 .. done : r2.output[i] = Owed(e, held, i)
  BY <1>2, <1>4
<1>10. Drawing(r2, e, s, b, p)
  BY <1>2, <1>8, <1>9 DEF Drawing
<1>. QED BY <1>2, <1>3, <1>10 DEF OnTheWay

\* A word, and the place it has in the output.
LEMMA WordOwed ==
  ASSUME NEW e \in Entries, NEW m \in Nat, NEW held \in Nat, NEW i \in Nat,
         i > held + 8 * m
  PROVE  Owed(e, held, i)
           = ExtractByte(StepBy(e.state_, m + 1), i - (held + 8 * m) - 1)
<1>1. /\ i - held - 1 = 8 * m + (i - (held + 8 * m) - 1) /\ ~(i <= held)
      /\ i - (held + 8 * m) - 1 \in Int
  OBVIOUS
<1>2. e.state_ \in State
  BY DEF Entries
<1>3. ExtractByte(StepBy(e.state_, m + 1), i - (held + 8 * m) - 1)
        = ExtractByte(StepBy(e.state_, 1), 8 * m + (i - (held + 8 * m) - 1))
  BY <1>1, <1>2, Further
<1>. QED BY <1>1, <1>3, Zenon DEF Owed

LEMMA AdvanceDraws ==
  ASSUME NEW r \in Call, NEW e \in Entries, NEW s, NEW b, NEW p, NEW init,
         NEW r2 \in Call, r.pc = "fill", r.size - Len(r.output) > 0,
         OnTheWay(r, e, s, b, p, init),
         NEW bytes, Len(bytes) = 0, Extended(r, r2, bytes), r2.pc = "word"
  PROVE  OnTheWay(r2, e, StepBy(s, 1), b, p, init)
<1>1. PICK done \in Nat, size \in Nat, held \in 0..8, from \in 0..8 :
           Measured(r, e, r2, bytes, done, size, held, from)
  BY Numbers
<1>2. /\ done = Len(r.output) /\ size = r.size /\ from = e.buffer_pos_
      /\ held = Held(r, e) /\ held = Held(r2, e)
      /\ from + held <= 8 /\ held <= size
      /\ r.op = "generate" /\ held < size => from + held = 8
      /\ Len(r2.output) = done + 0 /\ r2.size = size /\ r2.op = r.op
      /\ \A i \in 1 .. done : r2.output[i] = r.output[i]
  BY <1>1 DEF Measured
<1>3. r.op # "reset" /\ Drawing(r, e, s, b, p)
  <2>1. ~(r.size = 0 /\ Len(r.output) = 0)
    BY <1>2
  <2>. QED BY <2>1, OneWay
<1>4. \A i \in 1 .. done : r.output[i] = Owed(e, held, i)
  <2>1. \A i \in 1 .. Len(r.output) : r.output[i] = Owed(e, Held(r, e), i)
    BY <1>3, Drawn
  <2>. QED BY <1>2, <2>1
<1>5. PICK m \in Nat : done = held + 8 * m /\ Stands(e, s, b, p, m, held)
  BY <1>2, <1>3 DEF Drawing
<1>6. Stands(e, StepBy(s, 1), b, p, m + 1, held)
  <2>1. e.state_ \in State
    BY DEF Entries
  <2>2. StepBy(StepBy(e.state_, m), 1) = StepBy(e.state_, m + 1)
    BY <2>1, StepTwice
  <2>. QED BY <1>5, <2>2, Zenon DEF Stands
<1>7. Len(r2.output) = done /\ \A i \in 1 .. done : r2.output[i] = Owed(e, held, i)
  BY <1>2, <1>4
<1>8. Drawing(r2, e, StepBy(s, 1), b, p)
  BY <1>2, <1>5, <1>6, <1>7 DEF Drawing
<1>. QED BY <1>2, <1>3, <1>8 DEF OnTheWay

LEMMA TakeDraws ==
  ASSUME NEW r \in Call, NEW e \in Entries, NEW s, NEW b, NEW p, NEW init,
         NEW r2 \in Call, r.pc = "word", r.size - Len(r.output) >= 8,
         OnTheWay(r, e, s, b, p, init),
         NEW bytes, Len(bytes) = 8, \A i \in 1..8 : bytes[i] = ExtractByte(s, i - 1),
         Extended(r, r2, bytes), r2.pc = "fill"
  PROVE  OnTheWay(r2, e, s, b, p, init)
<1>1. PICK done \in Nat, size \in Nat, held \in 0..8, from \in 0..8 :
           Measured(r, e, r2, bytes, done, size, held, from)
  BY Numbers
<1>2. /\ done = Len(r.output) /\ size = r.size /\ from = e.buffer_pos_
      /\ held = Held(r, e) /\ held = Held(r2, e)
      /\ from + held <= 8 /\ held <= size
      /\ r.op = "generate" /\ held < size => from + held = 8
      /\ Len(r2.output) = done + 8 /\ r2.size = size /\ r2.op = r.op
      /\ \A i \in 1 .. done : r2.output[i] = r.output[i]
      /\ \A i \in (done + 1) .. (done + 8) : r2.output[i] = bytes[i - done]
  BY <1>1 DEF Measured
<1>3. r.op # "reset" /\ Drawing(r, e, s, b, p)
  <2>1. ~(r.size = 0 /\ Len(r.output) = 0)
    BY <1>2
  <2>. QED BY <2>1, OneWay
<1>4. \A i \in 1 .. done : r.output[i] = Owed(e, held, i)
  <2>1. \A i \in 1 .. Len(r.output) : r.output[i] = Owed(e, Held(r, e), i)
    BY <1>3, Drawn
  <2>. QED BY <1>2, <2>1
<1>5. PICK m \in Nat : done = held + 8 * m /\ Stands(e, s, b, p, m + 1, held)
  BY <1>2, <1>3 DEF Drawing
<1>6. ASSUME NEW i \in 1 .. done + 8 PROVE r2.output[i] = Owed(e, held, i)
  <2>1. CASE i <= done
    <3>1. i \in 1 .. done
      BY <2>1
    <3>. QED BY <1>2, <1>4, <3>1
  <2>2. CASE i > done
    <3>1. i - done \in 1..8 /\ i \in (done + 1) .. (done + 8)
      BY <2>2
    <3>2. r2.output[i] = bytes[i - done]
      BY <1>2, <3>1
    <3>3. bytes[i - done] = ExtractByte(s, i - done - 1)
      BY <3>1
    <3>4. Owed(e, held, i) = ExtractByte(StepBy(e.state_, m + 1), i - (held + 8 * m) - 1)
      <4>1. i > held + 8 * m /\ i \in Nat /\ held \in Nat
        BY <1>5, <2>2
      <4>. QED BY <4>1, WordOwed
    <3>5. s = StepBy(e.state_, m + 1) /\ done = held + 8 * m
      BY <1>5 DEF Stands
    <3>. QED BY <3>2, <3>3, <3>4, <3>5
  <2>. QED BY <2>1, <2>2
<1>7. \E k \in Nat : done + 8 = held + 8 * k /\ Stands(e, s, b, p, k, held)
  <2>1. m + 1 \in Nat /\ done + 8 = held + 8 * (m + 1)
    BY <1>5
  <2>. QED BY <1>5, <2>1, Zenon
<1>8. Drawing(r2, e, s, b, p)
  BY <1>2, <1>6, <1>7 DEF Drawing
<1>. QED BY <1>2, <1>3, <1>8 DEF OnTheWay

LEMMA KeepDraws ==
  ASSUME NEW r \in Call, NEW e \in Entries, NEW s, NEW b, NEW p, NEW init,
         NEW r2 \in Call, r.pc = "word",
         r.size - Len(r.output) > 0, r.size - Len(r.output) < 8,
         OnTheWay(r, e, s, b, p, init),
         NEW bytes, Len(bytes) = 0, Extended(r, r2, bytes), r2.pc = "serve"
  PROVE  OnTheWay(r2, e, s, [i \in 0..7 |-> ExtractByte(s, i)], 0, init)
<1>1. PICK done \in Nat, size \in Nat, held \in 0..8, from \in 0..8 :
           Measured(r, e, r2, bytes, done, size, held, from)
  BY Numbers
<1>2. /\ done = Len(r.output) /\ size = r.size /\ from = e.buffer_pos_
      /\ held = Held(r, e) /\ held = Held(r2, e)
      /\ from + held <= 8 /\ held <= size
      /\ r.op = "generate" /\ held < size => from + held = 8
      /\ Len(r2.output) = done + 0 /\ r2.size = size /\ r2.op = r.op
      /\ \A i \in 1 .. done : r2.output[i] = r.output[i]
  BY <1>1 DEF Measured
<1>3. r.op # "reset" /\ Drawing(r, e, s, b, p)
  <2>1. ~(r.size = 0 /\ Len(r.output) = 0)
    BY <1>2
  <2>. QED BY <2>1, OneWay
<1>4. \A i \in 1 .. done : r.output[i] = Owed(e, held, i)
  <2>1. \A i \in 1 .. Len(r.output) : r.output[i] = Owed(e, Held(r, e), i)
    BY <1>3, Drawn
  <2>. QED BY <1>2, <2>1
<1>5. PICK m \in Nat : done = held + 8 * m /\ Stands(e, s, b, p, m + 1, held)
  BY <1>2, <1>3 DEF Drawing
<1>6. size - held - 8 * m \in 1..7 /\ 0 = done - held - 8 * m
  <2>1. size - done > 0 /\ size - done < 8 /\ done = held + 8 * m
    BY <1>2, <1>5
  <2>. QED BY <2>1
<1>7. r.op = "generate"
  <2>1. r.op = "next" => size = 8 /\ held = 0
    BY <1>2 DEF OnTheWay, Held
  <2>2. r.op \in {"generate", "next", "reset"}
    BY DEF OnTheWay
  <2>3. r.op # "next"
    BY <1>6, <2>1
  <2>. QED BY <1>3, <2>2, <2>3
<1>8. Len(r2.output) = done /\ \A i \in 1 .. done : r2.output[i] = Owed(e, held, i)
  BY <1>2, <1>4
<1>9. s = StepBy(e.state_, m + 1)
  BY <1>5 DEF Stands
<1>10. Drawing(r2, e, s, [i \in 0..7 |-> ExtractByte(s, i)], 0)
  BY <1>2, <1>6, <1>7, <1>8, <1>9 DEF Drawing
<1>. QED BY <1>2, <1>3, <1>10 DEF OnTheWay

LEMMA ServeDraws ==
  ASSUME NEW r \in Call, NEW e \in Entries, NEW s, NEW b, NEW p \in 0..7, NEW init,
         NEW r2 \in Call, r.pc = "serve", r.size - Len(r.output) > 0,
         NEW bytes, Len(bytes) = 1, bytes[1] = b[p],
         OnTheWay(r, e, s, b, p, init), Extended(r, r2, bytes), r2.pc = "serve"
  PROVE  OnTheWay(r2, e, s, b, p + 1, init)
<1>1. PICK done \in Nat, size \in Nat, held \in 0..8, from \in 0..8 :
           Measured(r, e, r2, bytes, done, size, held, from)
  BY Numbers
<1>2. /\ done = Len(r.output) /\ size = r.size /\ from = e.buffer_pos_
      /\ held = Held(r, e) /\ held = Held(r2, e)
      /\ from + held <= 8 /\ held <= size
      /\ r.op = "generate" /\ held < size => from + held = 8
      /\ Len(r2.output) = done + 1 /\ r2.size = size /\ r2.op = r.op
      /\ \A i \in 1 .. done : r2.output[i] = r.output[i]
      /\ r2.output[done + 1] = bytes[1]
  BY <1>1 DEF Measured
<1>3. r.op = "generate" /\ Drawing(r, e, s, b, p)
  BY DEF OnTheWay, Drawing, Rewinding
<1>4. \A i \in 1 .. done : r.output[i] = Owed(e, held, i)
  <2>1. \A i \in 1 .. Len(r.output) : r.output[i] = Owed(e, Held(r, e), i)
    BY <1>3, Drawn
  <2>. QED BY <1>2, <2>1
<1>5. PICK m \in Nat : /\ size - held - 8 * m \in 1..7 /\ p = done - held - 8 * m
                       /\ s = StepBy(e.state_, m + 1)
                       /\ b = [i \in 0..7 |-> ExtractByte(s, i)]
  BY <1>2, <1>3 DEF Drawing
<1>6. ASSUME NEW i \in 1 .. done + 1 PROVE r2.output[i] = Owed(e, held, i)
  <2>1. CASE i <= done
    <3>1. i \in 1 .. done
      BY <2>1
    <3>. QED BY <1>2, <1>4, <3>1
  <2>2. CASE i = done + 1
    <3>1. /\ i > held + 8 * m /\ p = i - (held + 8 * m) - 1
          /\ i \in Nat /\ held \in Nat
      <4>1. /\ p \in 0..7 /\ p = done - held - 8 * m /\ i = done + 1
            /\ held \in Nat /\ i \in Nat
        BY <1>5, <2>2
      <4>2. PICK k \in Nat : k = 8 * m
        OBVIOUS
      <4>3. i > held + k /\ p = i - (held + k) - 1
        BY <4>1, <4>2
      <4>. QED BY <4>1, <4>2, <4>3
    <3>2. Owed(e, held, i) = ExtractByte(StepBy(e.state_, m + 1), p)
      BY <3>1, WordOwed
    <3>3. b[p] = ExtractByte(s, p)
      BY <1>5
    <3>. QED BY <1>2, <1>5, <2>2, <3>2, <3>3
  <2>. QED BY <2>1, <2>2
<1>7. Len(r2.output) = done + 1 /\ p + 1 = (done + 1) - held - 8 * m
  <2>1. Len(r2.output) = done + 1
    BY <1>2
  <2>2. PICK k \in Nat : k = 8 * m
    OBVIOUS
  <2>3. p = done - held - k
    BY <1>5, <2>2
  <2>4. p + 1 = (done + 1) - held - k
    BY <2>3
  <2>. QED BY <2>1, <2>2, <2>4
<1>8. Drawing(r2, e, s, b, p + 1)
  BY <1>2, <1>3, <1>5, <1>6, <1>7 DEF Drawing
<1>. QED BY <1>2, <1>3, <1>8 DEF OnTheWay

-----------------------------------------------------------------------------
(* The statements of reset(), and a statement's effect on the calls.       *)

LEMMA StepZero ==
  ASSUME NEW s \in State
  PROVE  StepBy(s, 0) = s
<1>1. \A q \in State : q = [seed |-> q.seed, n |-> q.n]
  BY DEF State
<1>2. StepBy(s, 0) \in State /\ StepBy(s, 0).seed = s.seed /\ StepBy(s, 0).n = s.n + 0
  BY StepByType
<1>3. s.n + 0 = s.n
  BY DEF State
<1>. QED BY <1>1, <1>2, <1>3

LEMMA NoOutput ==
  ASSUME NEW r \in Call, Len(r.output) = 0
  PROVE  r.output = <<>>
<1>1. r.output \in Seq(Byte)
  BY DEF Call
<1>. QED BY <1>1, EmptySeq

LEMMA ResetDraws ==
  ASSUME NEW r \in Call, NEW e \in Entries, NEW s, NEW b, NEW p, NEW init,
         NEW r2 \in Call, NEW bytes, Len(bytes) = 0, Extended(r, r2, bytes),
         OnTheWay(r, e, s, b, p, init)
  PROVE  /\ r.pc = "rewind" /\ r2.pc = "forget" => OnTheWay(r2, e, init, b, p, init)
         /\ r.pc = "forget" /\ r2.pc = "zero" => OnTheWay(r2, e, s, b, 8, init)
         /\ r.pc = "zero" /\ r2.pc = "fill" => OnTheWay(r2, e, s, ZeroBuffer, p, init)
<1>. SUFFICES ASSUME r.pc \in {"rewind", "forget", "zero"}
              PROVE  /\ r.pc = "rewind" /\ r2.pc = "forget" => OnTheWay(r2, e, init, b, p, init)
                     /\ r.pc = "forget" /\ r2.pc = "zero" => OnTheWay(r2, e, s, b, 8, init)
                     /\ r.pc = "zero" /\ r2.pc = "fill" => OnTheWay(r2, e, s, ZeroBuffer, p, init)
  OBVIOUS
<1>1. r.op = "reset" /\ r.size = 0 /\ Rewinding(r, e, s, b, p, init)
  BY DEF OnTheWay, Drawing
<1>2. Len(r.output) = 0
  <2>1. r.output = <<>>
    BY <1>1 DEF Rewinding
  <2>. QED BY <2>1
<1>3. r2.output = <<>>
  <2>1. Len(r2.output) = 0
    BY <1>2 DEF Extended
  <2>. QED BY <2>1, NoOutput
<1>4. r2.op = "reset" /\ r2.size = 0 /\ r2.size = r.size /\ r2.op = r.op
  BY <1>1 DEF Extended
<1>5. e.state_.n + ((r2.size - Held(r2, e) + 7) \div 8) <= MaxWords
  <2>1. Held(r2, e) = Held(r, e)
    BY <1>4 DEF Held
  <2>. QED BY <1>4, <2>1 DEF OnTheWay
<1>6. CASE r.pc = "rewind" /\ r2.pc = "forget"
  <2>1. Rewinding(r2, e, init, b, p, init)
    BY <1>3, <1>6 DEF Rewinding
  <2>. QED BY <1>4, <1>6, <1>5, <2>1 DEF OnTheWay
<1>7. CASE r.pc = "forget" /\ r2.pc = "zero"
  <2>1. Rewinding(r2, e, s, b, 8, init)
    BY <1>1, <1>3, <1>7 DEF Rewinding
  <2>. QED BY <1>4, <1>7, <1>5, <2>1 DEF OnTheWay
<1>8. CASE r.pc = "zero" /\ r2.pc = "fill"
  <2>1. Rewinding(r2, e, s, ZeroBuffer, p, init)
    BY <1>1, <1>3, <1>8 DEF Rewinding
  <2>. QED BY <1>4, <1>8, <1>5, <2>1 DEF OnTheWay
<1>. QED BY <1>6, <1>7, <1>8

LEMMA PutExtends ==
  ASSUME call \in [Threads -> Call], NEW t \in Threads,
         NEW bytes \in Seq(Byte), NEW pc \in Pcs, Put(t, bytes, pc)
  PROVE  Extended(call[t], call'[t], bytes) /\ call'[t].pc = pc
<1>1. call[t].output \in Seq(Byte) /\ call[t] \in Call
  BY DEF Call
<1>2. call' = [call EXCEPT ![t] = [call[t] EXCEPT !.output = call[t].output \o bytes,
                                                  !.pc = pc]]
  BY DEF Put, Call
<1>3. /\ call'[t].pc = pc /\ call'[t].op = call[t].op
      /\ call'[t].size = call[t].size /\ call'[t].output = call[t].output \o bytes
  BY <1>2 DEF Call
<1>4. /\ Len(call[t].output \o bytes) = Len(call[t].output) + Len(bytes)
      /\ \A i \in 1 .. Len(call[t].output) + Len(bytes) :
           (call[t].output \o bytes)[i]
             = IF i <= Len(call[t].output) THEN call[t].output[i]
               ELSE bytes[i - Len(call[t].output)]
  BY <1>1, ConcatProperties
<1>. QED BY <1>3, <1>4 DEF Extended

LEMMA GotoExtends ==
  ASSUME call \in [Threads -> Call], NEW t \in Threads, NEW pc \in Pcs, Goto(t, pc)
  PROVE  \E bytes : /\ Len(bytes) = 0
                    /\ Extended(call[t], call'[t], bytes) /\ call'[t].pc = pc
<1>1. call' = [call EXCEPT ![t] = [call[t] EXCEPT !.pc = pc]]
  BY DEF Goto, Call
<1>2. /\ call'[t].pc = pc /\ call'[t].op = call[t].op
      /\ call'[t].size = call[t].size /\ call'[t].output = call[t].output
  BY <1>1 DEF Call
<1>3. Len(call[t].output) \in Nat
  BY RemainingType
<1>4. PICK bytes : bytes = <<>> /\ Len(bytes) = 0
  OBVIOUS
<1>5. Extended(call[t], call'[t], bytes)
  BY <1>2, <1>3, <1>4 DEF Extended
<1>. QED BY <1>2, <1>4, <1>5

\* The statements of thread t leave every other call as far as it was.
LEMMA AlongElsewhere ==
  ASSUME TraceInv, NEW t \in Threads, NEW c \in Ciphers, Elsewhere(t, c),
         initial_state_' = initial_state_, entry' = entry,
         NEW u \in Threads \ {t}, ~Uses(u, c)
  PROVE  Along(u)'
<1>1. call'[u] = call[u] /\ Along(u)
  BY DEF Elsewhere, TraceInv
<1>2. CASE call[u].pc = "idle"
  BY <1>1, <1>2 DEF Along
<1>3. CASE call[u].pc # "idle"
  <2>1. call[u].cipher \in Ciphers \ {c}
    BY <1>3 DEF TraceInv, CallsInv, Exclusive, MembersType, Uses
  <2>2. PICK d \in Ciphers \ {c} : d = call[u].cipher
    BY <2>1
  <2>3. /\ state_'[d] = state_[d] /\ buffer_'[d] = buffer_[d]
        /\ buffer_pos_'[d] = buffer_pos_[d]
    BY DEF Elsewhere
  <2>. QED BY <1>1, <2>2, <2>3 DEF Along
<1>. QED BY <1>2, <1>3

-----------------------------------------------------------------------------
(* Each statement brings its call further along, and no other call.        *)

\* What thread t and its object are, taken apart.
LEMMA AlongType ==
  ASSUME TraceInv, NEW t \in Threads, NEW c \in Ciphers, Uses(t, c)
  PROVE  /\ call \in [Threads -> Call] /\ call[t] \in Call
         /\ call[t].pc # "idle" /\ call[t].cipher = c
         /\ entry[c] \in Entries /\ MembersType /\ InBounds(t)
         /\ OnTheWay(call[t], entry[c], state_[c], buffer_[c], buffer_pos_[c],
                     initial_state_[c])
  BY DEF TraceInv, CallsInv, Uses, Along

LEMMA DrainAlong ==
  ASSUME TraceInv, NEW t \in Threads, NEW c \in Ciphers, Uses(t, c),
         entry' = entry, Kept(t, c), DrainByte(t, c) \/ Drained(t, c)
  PROVE  Along(t)'
<1>1. /\ call \in [Threads -> Call] /\ call[t] \in Call /\ call'[t] \in Call
      /\ call'[t].cipher = c /\ entry[c] \in Entries /\ MembersType /\ entry'[c] = entry[c]
      /\ OnTheWay(call[t], entry[c], state_[c], buffer_[c], buffer_pos_[c],
                  initial_state_[c])
  BY AlongType DEF Kept
<1>2. CASE DrainByte(t, c)
  <2>1. PICK bytes \in Seq(Byte) : /\ bytes = <<buffer_[c][buffer_pos_[c]]>>
                                   /\ Len(bytes) = 1 /\ bytes[1] = buffer_[c][buffer_pos_[c]]
    <3>1. buffer_[c][buffer_pos_[c]] \in Byte
      BY <1>1, <1>2 DEF DrainByte, MembersType
    <3>2. PICK byte \in Byte : byte = buffer_[c][buffer_pos_[c]]
      BY <3>1
    <3>3. <<byte>> \in Seq(Byte) /\ Len(<<byte>>) = 1 /\ <<byte>>[1] = byte
      OBVIOUS
    <3>. QED BY <3>2, <3>3
  <2>2. Extended(call[t], call'[t], bytes) /\ call'[t].pc = "drain"
    <3>1. Put(t, bytes, "drain") /\ "drain" \in Pcs
      BY <1>2, <2>1 DEF DrainByte, Pcs
    <3>. QED BY <1>1, <3>1, PutExtends
  <2>3. /\ call[t].pc = "drain" /\ call[t].size - Len(call[t].output) > 0
        /\ buffer_pos_[c] < 8
    BY <1>2 DEF DrainByte, Remaining
  <2>4. /\ state_'[c] = state_[c] /\ buffer_'[c] = buffer_[c]
        /\ buffer_pos_'[c] = buffer_pos_[c] + 1 /\ initial_state_'[c] = initial_state_[c]
    BY <1>1, <1>2 DEF DrainByte, MembersType
  <2>5. OnTheWay(call'[t], entry[c], state_[c], buffer_[c], buffer_pos_[c] + 1,
                 initial_state_[c])
    BY <1>1, <2>1, <2>2, <2>3, DrainDraws
  <2>. QED BY <1>1, <2>4, <2>5 DEF Along
<1>3. CASE Drained(t, c)
  <2>1. PICK bytes : /\ Len(bytes) = 0
                     /\ Extended(call[t], call'[t], bytes) /\ call'[t].pc = "fill"
    <3>1. Goto(t, "fill") /\ "fill" \in Pcs
      BY <1>3 DEF Drained, Pcs
    <3>. QED BY <1>1, <3>1, GotoExtends
  <2>2. /\ call[t].pc = "drain"
        /\ ~(call[t].size - Len(call[t].output) > 0 /\ buffer_pos_[c] < 8)
    BY <1>3 DEF Drained, Remaining
  <2>3. /\ state_'[c] = state_[c] /\ buffer_'[c] = buffer_[c]
        /\ buffer_pos_'[c] = buffer_pos_[c] /\ initial_state_'[c] = initial_state_[c]
    BY <1>3 DEF Drained, members
  <2>4. OnTheWay(call'[t], entry[c], state_[c], buffer_[c], buffer_pos_[c],
                 initial_state_[c])
    BY <1>1, <2>1, <2>2, DrainedDraws
  <2>. QED BY <1>1, <2>3, <2>4 DEF Along
<1>. QED BY <1>2, <1>3

LEMMA WordAlong ==
  ASSUME TraceInv, NEW t \in Threads, NEW c \in Ciphers, Uses(t, c),
         entry' = entry, Kept(t, c), Advance(t, c) \/ TakeWord(t, c) \/ KeepWord(t, c)
  PROVE  Along(t)'
<1>1. /\ call \in [Threads -> Call] /\ call[t] \in Call /\ call'[t] \in Call
      /\ call'[t].cipher = c /\ entry[c] \in Entries /\ MembersType /\ entry'[c] = entry[c]
      /\ OnTheWay(call[t], entry[c], state_[c], buffer_[c], buffer_pos_[c],
                  initial_state_[c])
      /\ Remaining(t) = call[t].size - Len(call[t].output) /\ Remaining(t) \in Int
  BY AlongType, RemainingType DEF Kept, Remaining
<1>2. CASE Advance(t, c)
  <2>1. PICK bytes : /\ Len(bytes) = 0
                     /\ Extended(call[t], call'[t], bytes) /\ call'[t].pc = "word"
    <3>1. Goto(t, "word") /\ "word" \in Pcs
      BY <1>2 DEF Advance, Pcs
    <3>. QED BY <1>1, <3>1, GotoExtends
  <2>2. call[t].pc = "fill" /\ call[t].size - Len(call[t].output) > 0
    BY <1>1, <1>2 DEF Advance
  <2>3. /\ state_'[c] = StepBy(state_[c], 1) /\ buffer_'[c] = buffer_[c]
        /\ buffer_pos_'[c] = buffer_pos_[c] /\ initial_state_'[c] = initial_state_[c]
    BY <1>1, <1>2 DEF Advance, MembersType
  <2>4. OnTheWay(call'[t], entry[c], StepBy(state_[c], 1), buffer_[c], buffer_pos_[c],
                 initial_state_[c])
    BY <1>1, <2>1, <2>2, AdvanceDraws
  <2>. QED BY <1>1, <2>3, <2>4 DEF Along
<1>3. CASE TakeWord(t, c)
  <2>0. call[t].pc = "word" /\ state_[c].n > 0
    BY <1>1, <1>3, AlongType DEF TakeWord, InBounds
  <2>1. PICK bytes \in Seq(Byte) : /\ bytes = [i \in 1..8 |-> Word(c)[i - 1]]
                                   /\ Len(bytes) = 8
    BY <1>1, <2>0, WordType
  <2>2. Extended(call[t], call'[t], bytes) /\ call'[t].pc = "fill"
    <3>1. Put(t, bytes, "fill") /\ "fill" \in Pcs
      BY <1>3, <2>1 DEF TakeWord, Pcs
    <3>. QED BY <1>1, <3>1, PutExtends
  <2>3. \A i \in 1..8 : bytes[i] = ExtractByte(state_[c], i - 1)
    BY <2>1 DEF Word
  <2>4. call[t].size - Len(call[t].output) >= 8
    BY <1>1, <1>3 DEF TakeWord, WholeWord
  <2>5. /\ state_'[c] = state_[c] /\ buffer_'[c] = buffer_[c]
        /\ buffer_pos_'[c] = buffer_pos_[c] /\ initial_state_'[c] = initial_state_[c]
    BY <1>3 DEF TakeWord, members
  <2>6. OnTheWay(call'[t], entry[c], state_[c], buffer_[c], buffer_pos_[c],
                 initial_state_[c])
    <3>1. PICK r, r2, e, st, b, p, init :
            /\ r \in Call /\ r2 \in Call /\ e \in Entries
            /\ r = call[t] /\ r2 = call'[t] /\ e = entry[c] /\ st = state_[c]
            /\ b = buffer_[c] /\ p = buffer_pos_[c] /\ init = initial_state_[c]
      BY <1>1
    <3>2. /\ r.pc = "word" /\ r.size - Len(r.output) >= 8
          /\ OnTheWay(r, e, st, b, p, init) /\ Len(bytes) = 8
          /\ \A i \in 1..8 : bytes[i] = ExtractByte(st, i - 1)
          /\ Extended(r, r2, bytes) /\ r2.pc = "fill"
      BY <1>1, <2>0, <2>1, <2>2, <2>3, <2>4, <3>1
    <3>3. OnTheWay(r2, e, st, b, p, init)
      BY <3>1, <3>2, TakeDraws, Zenon
    <3>. QED BY <3>1, <3>3
  <2>. QED BY <1>1, <2>5, <2>6 DEF Along
<1>4. CASE KeepWord(t, c)
  <2>1. PICK bytes : /\ Len(bytes) = 0
                     /\ Extended(call[t], call'[t], bytes) /\ call'[t].pc = "serve"
    <3>1. Goto(t, "serve") /\ "serve" \in Pcs
      BY <1>4 DEF KeepWord, Pcs
    <3>. QED BY <1>1, <3>1, GotoExtends
  <2>2. /\ call[t].pc = "word" /\ call[t].size - Len(call[t].output) > 0
        /\ call[t].size - Len(call[t].output) < 8
    BY <1>1, <1>4, AlongType DEF KeepWord, WholeWord, InBounds
  <2>3. /\ state_'[c] = state_[c] /\ initial_state_'[c] = initial_state_[c]
        /\ buffer_'[c] = [i \in 0..7 |-> ExtractByte(state_[c], i)]
        /\ buffer_pos_'[c] = 0
    BY <1>1, <1>4 DEF KeepWord, MembersType, Word
  <2>4. OnTheWay(call'[t], entry[c], state_[c], [i \in 0..7 |-> ExtractByte(state_[c], i)],
                 0, initial_state_[c])
    BY <1>1, <2>1, <2>2, KeepDraws
  <2>. QED BY <1>1, <2>3, <2>4 DEF Along
<1>. QED BY <1>2, <1>3, <1>4

LEMMA ServeAlong ==
  ASSUME TraceInv, NEW t \in Threads, NEW c \in Ciphers, Uses(t, c),
         entry' = entry, Kept(t, c), ServeByte(t, c)
  PROVE  Along(t)'
<1>1. /\ call \in [Threads -> Call] /\ call[t] \in Call /\ call'[t] \in Call
      /\ call'[t].cipher = c /\ entry[c] \in Entries /\ MembersType /\ entry'[c] = entry[c]
      /\ OnTheWay(call[t], entry[c], state_[c], buffer_[c], buffer_pos_[c],
                  initial_state_[c])
  BY AlongType DEF Kept
<1>2. /\ call[t].pc = "serve" /\ call[t].size - Len(call[t].output) > 0
      /\ buffer_pos_[c] \in 0..7
  <2>1. /\ call[t].pc = "serve" /\ Remaining(t) \in Int /\ Remaining(t) > 0
        /\ buffer_pos_[c] + Remaining(t) <= 8 /\ buffer_pos_[c] \in 0..8
    BY <1>1, AlongType, RemainingType DEF ServeByte, InBounds, MembersType
  <2>. QED BY <2>1 DEF Remaining
<1>3. PICK bytes \in Seq(Byte) : /\ bytes = <<buffer_[c][buffer_pos_[c]]>>
                                 /\ Len(bytes) = 1 /\ bytes[1] = buffer_[c][buffer_pos_[c]]
  <2>1. buffer_[c][buffer_pos_[c]] \in Byte
    BY <1>1, <1>2 DEF MembersType
  <2>2. PICK byte \in Byte : byte = buffer_[c][buffer_pos_[c]]
    BY <2>1
  <2>3. <<byte>> \in Seq(Byte) /\ Len(<<byte>>) = 1 /\ <<byte>>[1] = byte
    OBVIOUS
  <2>. QED BY <2>2, <2>3
<1>4. Extended(call[t], call'[t], bytes) /\ call'[t].pc = "serve"
  <2>1. Put(t, bytes, "serve") /\ "serve" \in Pcs
    BY <1>3 DEF ServeByte, Pcs
  <2>. QED BY <1>1, <2>1, PutExtends
<1>5. /\ state_'[c] = state_[c] /\ buffer_'[c] = buffer_[c]
      /\ buffer_pos_'[c] = buffer_pos_[c] + 1 /\ initial_state_'[c] = initial_state_[c]
  BY <1>1 DEF ServeByte, MembersType
<1>6. OnTheWay(call'[t], entry[c], state_[c], buffer_[c], buffer_pos_[c] + 1,
               initial_state_[c])
  BY <1>1, <1>2, <1>3, <1>4, ServeDraws
<1>. QED BY <1>1, <1>5, <1>6 DEF Along

LEMMA ResetAlong ==
  ASSUME TraceInv, NEW t \in Threads, NEW c \in Ciphers, Uses(t, c), entry' = entry,
         Kept(t, c), Rewind(t, c) \/ Forget(t, c) \/ ZeroLeftover(t, c)
  PROVE  Along(t)'
<1>1. /\ call \in [Threads -> Call] /\ call[t] \in Call /\ call'[t] \in Call
      /\ call'[t].cipher = c /\ entry[c] \in Entries /\ MembersType /\ entry'[c] = entry[c]
      /\ OnTheWay(call[t], entry[c], state_[c], buffer_[c], buffer_pos_[c],
                  initial_state_[c])
  BY AlongType DEF Kept
<1>2. ASSUME NEW pc \in Pcs, Goto(t, pc)
      PROVE  \E bytes : /\ Len(bytes) = 0
                        /\ Extended(call[t], call'[t], bytes) /\ call'[t].pc = pc
  BY <1>1, <1>2, GotoExtends
<1>3. CASE Rewind(t, c)
  <2>1. PICK bytes : /\ Len(bytes) = 0
                     /\ Extended(call[t], call'[t], bytes) /\ call'[t].pc = "forget"
    BY <1>2, <1>3 DEF Rewind, Pcs
  <2>2. /\ state_'[c] = initial_state_[c] /\ initial_state_'[c] = initial_state_[c]
        /\ buffer_'[c] = buffer_[c] /\ buffer_pos_'[c] = buffer_pos_[c]
        /\ call[t].pc = "rewind"
    BY <1>1, <1>3 DEF Rewind, MembersType
  <2>3. OnTheWay(call'[t], entry[c], initial_state_[c], buffer_[c], buffer_pos_[c],
                 initial_state_[c])
    BY <1>1, <2>1, <2>2, ResetDraws
  <2>. QED BY <1>1, <2>2, <2>3 DEF Along
<1>4. CASE Forget(t, c)
  <2>1. PICK bytes : /\ Len(bytes) = 0
                     /\ Extended(call[t], call'[t], bytes) /\ call'[t].pc = "zero"
    BY <1>2, <1>4 DEF Forget, Pcs
  <2>2. /\ state_'[c] = state_[c] /\ initial_state_'[c] = initial_state_[c]
        /\ buffer_'[c] = buffer_[c] /\ buffer_pos_'[c] = 8
        /\ call[t].pc = "forget"
    BY <1>1, <1>4 DEF Forget, MembersType
  <2>3. OnTheWay(call'[t], entry[c], state_[c], buffer_[c], 8, initial_state_[c])
    BY <1>1, <2>1, <2>2, ResetDraws
  <2>. QED BY <1>1, <2>2, <2>3 DEF Along
<1>5. CASE ZeroLeftover(t, c)
  <2>1. PICK bytes : /\ Len(bytes) = 0
                     /\ Extended(call[t], call'[t], bytes) /\ call'[t].pc = "fill"
    BY <1>2, <1>5 DEF ZeroLeftover, Pcs
  <2>2. /\ state_'[c] = state_[c] /\ initial_state_'[c] = initial_state_[c]
        /\ buffer_'[c] = ZeroBuffer /\ buffer_pos_'[c] = buffer_pos_[c]
        /\ call[t].pc = "zero"
    BY <1>1, <1>5 DEF ZeroLeftover, MembersType
  <2>3. OnTheWay(call'[t], entry[c], state_[c], ZeroBuffer, buffer_pos_[c],
                 initial_state_[c])
    BY <1>1, <2>1, <2>2, ResetDraws
  <2>. QED BY <1>1, <2>2, <2>3 DEF Along
<1>. QED BY <1>3, <1>4, <1>5

LEMMA StatementTraced ==
  ASSUME TraceInv, NEW t \in Threads, NEW c \in Ciphers, call[t].cipher = c,
         Statement(t, c)
  PROVE  TraceInv'
<1>1. /\ CallsInv /\ Uses(t, c) /\ live' = live /\ entry' = entry
      /\ initial_state_' = initial_state_
  BY DEF TraceInv, Statement, Uses, DrainByte, Drained, Advance, TakeWord, KeepWord,
         ServeByte, Rewind, Forget, ZeroLeftover, members
<1>2. Kept(t, c)
  BY <1>1, DrainKeeps, AdvanceKeeps, TakeKeeps, KeepKeeps, ServeKeeps, ResetKeeps
     DEF Statement
<1>3. Along(t)'
  BY <1>1, <1>2, DrainAlong, WordAlong, ServeAlong, ResetAlong DEF Statement
<1>4. ASSUME NEW u \in Threads \ {t} PROVE Along(u)'
  <2>1. ~Uses(u, c) /\ Elsewhere(t, c)
    BY <1>1, <1>2 DEF CallsInv, Exclusive, Kept
  <2>. QED BY <1>1, <2>1, AlongElsewhere
<1>5. CallsInv'
  BY <1>1, StatementKeeps
<1>. QED BY <1>1, <1>3, <1>4, <1>5 DEF TraceInv

\* Where every call begins.
LEMMA Begun ==
  ASSUME MembersType, NEW c \in Ciphers, NEW r \in Call, r.output = <<>>,
         state_[c].n + WordsDrawn(c, r.op, r.size) <= MaxWords,
         \/ r.op = "generate" /\ r.pc = "drain" /\ r.size \in GenerateSizes
         \/ r.op = "next" /\ r.pc = "fill" /\ r.size = 8
         \/ r.op = "reset" /\ r.pc = "rewind" /\ r.size = 0
  PROVE  /\ Written(c) \in Entries
         /\ OnTheWay(r, Written(c), state_[c], buffer_[c], buffer_pos_[c],
                     initial_state_[c])
<1>1. PICK e \in Entries : /\ e = Written(c) /\ e.state_ = state_[c]
                           /\ e.buffer_ = buffer_[c] /\ e.buffer_pos_ = buffer_pos_[c]
  <2>1. /\ state_[c] \in State /\ buffer_[c] \in [0..7 -> Byte]
        /\ buffer_pos_[c] \in 0..8
    BY DEF MembersType
  <2>2. /\ Written(c).state_ = state_[c] /\ Written(c).buffer_ = buffer_[c]
        /\ Written(c).buffer_pos_ = buffer_pos_[c]
    BY DEF Written
  <2>3. Written(c) \in Entries
    BY <2>1 DEF Written, Entries
  <2>. QED BY <2>2, <2>3
<1>2. Stands(e, state_[c], buffer_[c], buffer_pos_[c], 0, 0)
  <2>1. state_[c] = StepBy(e.state_, 0)
    BY <1>1, StepZero DEF MembersType
  <2>2. buffer_pos_[c] = e.buffer_pos_ + 0
    BY <1>1 DEF MembersType
  <2>. QED BY <1>1, <2>1, <2>2 DEF Stands
<1>3. /\ Len(r.output) = 0 /\ Held(r, e) \in Nat
      /\ e.state_.n + ((r.size - Held(r, e) + 7) \div 8) <= MaxWords
  <2>1. (IF r.op = "generate" THEN DrainLength(c, r.size) ELSE 0) = Held(r, e)
    BY <1>1 DEF DrainLength, Held
  <2>2. WordsDrawn(c, r.op, r.size) = (r.size - Held(r, e) + 7) \div 8
    BY <2>1 DEF WordsDrawn
  <2>. QED BY <1>1, <2>2, HeldType
<1>4. CASE r.op = "generate"
  <2>1. Drawing(r, e, state_[c], buffer_[c], buffer_pos_[c])
    BY <1>2, <1>3, <1>4 DEF Drawing
  <2>. QED BY <1>1, <1>3, <1>4, <2>1 DEF OnTheWay
<1>5. CASE r.op = "next"
  <2>1. Held(r, e) = 0
    BY <1>5 DEF Held
  <2>2. \E m \in Nat : /\ 0 = 0 + 8 * m
                       /\ Stands(e, state_[c], buffer_[c], buffer_pos_[c], m, 0)
    <3>1. 0 \in Nat /\ 0 = 0 + 8 * 0
      OBVIOUS
    <3>. QED BY <1>2, <3>1, Zenon
  <2>3. Drawing(r, e, state_[c], buffer_[c], buffer_pos_[c])
    BY <1>3, <1>5, <2>1, <2>2 DEF Drawing
  <2>. QED BY <1>1, <1>3, <1>5, <2>3 DEF OnTheWay
<1>6. CASE r.op = "reset"
  <2>1. Rewinding(r, e, state_[c], buffer_[c], buffer_pos_[c], initial_state_[c])
    BY <1>2, <1>6 DEF Rewinding
  <2>. QED BY <1>1, <1>3, <1>6, <2>1 DEF OnTheWay
<1>. QED BY <1>4, <1>5, <1>6

LEMMA EnterTraced ==
  ASSUME TraceInv, NEW t \in Threads, NEW c \in Ciphers,
         NEW op \in {"generate", "next", "reset"}, NEW size \in Nat,
         NEW pc \in {"drain", "fill", "rewind"}, Enter(t, c, op, size, pc),
         \/ op = "generate" /\ pc = "drain" /\ size \in GenerateSizes
         \/ op = "next" /\ pc = "fill" /\ size = 8
         \/ op = "reset" /\ pc = "rewind" /\ size = 0
  PROVE  TraceInv'
<1>1. PICK r \in Call : /\ r = [pc |-> pc, op |-> op, cipher |-> c, size |-> size,
                                output |-> <<>>]
                        /\ r.pc = pc /\ r.op = op /\ r.size = size /\ r.cipher = c
                        /\ r.output = <<>>
  <2>. DEFINE new == [pc |-> pc, op |-> op, cipher |-> c, size |-> size, output |-> <<>>]
  <2>1. new \in Call
    BY DEF Call, Pcs
  <2>2. /\ new.pc = pc /\ new.op = op /\ new.size = size /\ new.cipher = c
        /\ new.output = <<>>
    OBVIOUS
  <2>. QED BY <2>1, <2>2
<1>2. /\ CallsInv /\ MembersType /\ Free(c)
      /\ call' = [call EXCEPT ![t] = r] /\ entry' = [entry EXCEPT ![c] = Written(c)]
      /\ UNCHANGED <<live, members>>
      /\ state_[c].n + WordsDrawn(c, r.op, r.size) <= MaxWords
  BY <1>1 DEF TraceInv, CallsInv, Enter, vars
<1>3. /\ Written(c) \in Entries
      /\ OnTheWay(r, Written(c), state_[c], buffer_[c], buffer_pos_[c],
                  initial_state_[c])
  BY <1>1, <1>2, Begun
<1>4. entry' \in [Ciphers -> Entries]
  BY <1>2, <1>3 DEF TraceInv
<1>5. ASSUME NEW u \in Threads PROVE Along(u)'
  <2>1. CASE u = t
    <3>1. call'[t] = r /\ entry'[c] = Written(c)
      BY <1>2 DEF TraceInv, CallsInv
    <3>. QED BY <1>1, <1>2, <1>3, <2>1, <3>1 DEF Along, members
  <2>2. CASE u # t
    <3>1. call'[u] = call[u] /\ Along(u)
      BY <1>2, <2>2 DEF TraceInv, CallsInv
    <3>2. call[u].pc # "idle" => /\ call[u].cipher # c
                                 /\ entry'[call[u].cipher] = entry[call[u].cipher]
      BY <1>2 DEF Free, Uses, TraceInv, CallsInv, Exclusive, MembersType
    <3>. QED BY <1>2, <3>1, <3>2 DEF Along, members
  <2>. QED BY <2>1, <2>2
<1>6. CallsInv'
  BY <1>2, EnterKeeps
<1>. QED BY <1>4, <1>5, <1>6 DEF TraceInv

LEMMA ReturnTraced ==
  ASSUME TraceInv, NEW t \in Threads, NEW c \in Ciphers, call[t].cipher = c,
         Return(t, c)
  PROVE  TraceInv'
<1>1. /\ CallsInv /\ call' = [call EXCEPT ![t] = NoCall]
      /\ UNCHANGED <<members, entry>>
  BY DEF TraceInv, Return
<1>2. ASSUME NEW u \in Threads PROVE Along(u)'
  <2>1. CASE u = t
    BY <1>1, <2>1 DEF Along, CallsInv, NoCall
  <2>2. CASE u # t
    <3>1. call'[u] = call[u] /\ Along(u)
      BY <1>1, <2>2 DEF TraceInv, CallsInv
    <3>. QED BY <1>1, <3>1 DEF Along, members
  <2>. QED BY <2>1, <2>2
<1>3. CallsInv'
  BY <1>1, ReturnKeeps
<1>. QED BY <1>1, <1>2, <1>3 DEF TraceInv

LEMMA ConstructTraced ==
  ASSUME TraceInv, NEW c \in Ciphers, NEW m \in Arguments, Construct(c, m),
         UNCHANGED <<call, entry>>
  PROVE  TraceInv'
<1>1. /\ CallsInv /\ c \notin live /\ MembersType
      /\ state_' = [state_ EXCEPT ![c] = DeriveState(m)]
      /\ initial_state_' = [initial_state_ EXCEPT ![c] = DeriveState(m)]
      /\ buffer_' = [buffer_ EXCEPT ![c] = ZeroBuffer]
      /\ buffer_pos_' = [buffer_pos_ EXCEPT ![c] = 8]
  BY DEF TraceInv, CallsInv, Construct, Assign
<1>2. ASSUME NEW u \in Threads PROVE Along(u)'
  <2>1. CASE call[u].pc = "idle"
    BY <2>1 DEF Along
  <2>2. CASE call[u].pc # "idle"
    <3>1. PICK d \in Ciphers \ {c} : d = call[u].cipher
      BY <1>1, <2>2 DEF CallsInv, Exclusive, MembersType
    <3>2. /\ state_'[d] = state_[d] /\ buffer_'[d] = buffer_[d]
          /\ buffer_pos_'[d] = buffer_pos_[d] /\ initial_state_'[d] = initial_state_[d]
      BY <1>1 DEF MembersType
    <3>. QED BY <3>1, <3>2 DEF Along, TraceInv
  <2>. QED BY <2>1, <2>2
<1>3. CallsInv'
  BY <1>1, ConstructKeeps
<1>. QED BY <1>2, <1>3 DEF TraceInv

LEMMA TraceInvInit == CallsInit => TraceInv
<1>. SUFFICES ASSUME CallsInit PROVE TraceInv
  OBVIOUS
<1>1. CallsInv
  BY CallsInvInit
<1>2. \A c \in Ciphers : Written(c) \in Entries
  BY <1>1 DEF CallsInv, MembersType, Written, Entries
<1>3. entry \in [Ciphers -> Entries]
  BY <1>2 DEF CallsInit
<1>4. \A t \in Threads : Along(t)
  BY DEF CallsInit, NoCall, Along
<1>. QED BY <1>1, <1>3, <1>4 DEF TraceInv

LEMMA TraceInvNext == TraceInv /\ [CallsNext]_callVars => TraceInv'
<1>. SUFFICES ASSUME TraceInv, [CallsNext]_callVars PROVE TraceInv'
  OBVIOUS
<1>1. CASE UNCHANGED callVars
  <2>1. CallsInv'
    BY CallsInvNext DEF TraceInv
  <2>2. ASSUME NEW t \in Threads PROVE Along(t)'
    BY <1>1 DEF callVars, vars, members, TraceInv, Along
  <2>. QED BY <1>1, <2>1, <2>2 DEF callVars, TraceInv
<1>2. ASSUME NEW t \in Threads, Proceed(t) PROVE TraceInv'
  BY <1>2, StatementTraced, ReturnTraced DEF Proceed
<1>3. ASSUME NEW t \in Threads, NEW c \in Ciphers, NEW size \in GenerateSizes,
             Enter(t, c, "generate", size, "drain")
      PROVE  TraceInv'
  BY <1>3, EnterTraced, SizesAssumption
<1>4. ASSUME NEW t \in Threads, NEW c \in Ciphers, Enter(t, c, "next", 8, "fill")
      PROVE  TraceInv'
  BY <1>4, EnterTraced
<1>5. ASSUME NEW t \in Threads, NEW c \in Ciphers, Enter(t, c, "reset", 0, "rewind")
      PROVE  TraceInv'
  BY <1>5, EnterTraced
<1>6. ASSUME NEW c \in Ciphers, NEW m \in Arguments, Construct(c, m),
             UNCHANGED <<call, entry>>
      PROVE  TraceInv'
  BY <1>6, ConstructTraced
<1>. QED BY <1>1, <1>2, <1>3, <1>4, <1>5, <1>6 DEF CallsNext

-----------------------------------------------------------------------------
(* Under the mapping, a call happens when it returns.                      *)

\* The members of Cipher under the mapping.
SettledState  == [c \in Ciphers |-> Settled(c).state_]
SettledBuffer == [c \in Ciphers |-> Settled(c).buffer_]
SettledPos    == [c \in Ciphers |-> Settled(c).buffer_pos_]

LEMMA NothingSettled ==
  ASSUME \A d \in Ciphers : Settled(d)' = Settled(d),
         UNCHANGED <<live, initial_state_, material_, blob, ret>>
  PROVE  UNCHANGED Atomic!vars
<1>1. /\ SettledState' = SettledState /\ SettledBuffer' = SettledBuffer
      /\ SettledPos' = SettledPos
  BY DEF SettledState, SettledBuffer, SettledPos
<1>. QED BY <1>1 DEF Atomic!vars, Atomic!members, SettledState, SettledBuffer, SettledPos

LEMMA OneSettled ==
  ASSUME NEW c \in Ciphers, \A d \in Ciphers \ {c} : Settled(d)' = Settled(d)
  PROVE  /\ SettledState' = [SettledState EXCEPT ![c] = Settled(c)'.state_]
         /\ SettledBuffer' = [SettledBuffer EXCEPT ![c] = Settled(c)'.buffer_]
         /\ SettledPos' = [SettledPos EXCEPT ![c] = Settled(c)'.buffer_pos_]
<1>1. ASSUME NEW d \in Ciphers \ {c} PROVE Settled(d)' = Settled(d)
  OBVIOUS
<1>2. SettledState' = [SettledState EXCEPT ![c] = Settled(c)'.state_]
  BY DEF SettledState
<1>3. SettledBuffer' = [SettledBuffer EXCEPT ![c] = Settled(c)'.buffer_]
  BY DEF SettledBuffer
<1>4. SettledPos' = [SettledPos EXCEPT ![c] = Settled(c)'.buffer_pos_]
  BY DEF SettledPos
<1>. QED BY <1>2, <1>3, <1>4

\* A statement is invisible to the next caller.
LEMMA StatementStutters ==
  ASSUME TraceInv, NEW t \in Threads, NEW c \in Ciphers, call[t].cipher = c,
         Statement(t, c)
  PROVE  UNCHANGED Atomic!vars
<1>1. /\ CallsInv /\ Uses(t, c) /\ entry' = entry
      /\ UNCHANGED <<live, initial_state_, material_, blob, ret>>
  BY DEF TraceInv, Statement, Uses, DrainByte, Drained, Advance, TakeWord, KeepWord,
         ServeByte, Rewind, Forget, ZeroLeftover, members
<1>2. Kept(t, c)
  BY <1>1, DrainKeeps, AdvanceKeeps, TakeKeeps, KeepKeeps, ServeKeeps, ResetKeeps
     DEF Statement
<1>3. call'[t].pc # "idle" /\ call'[t].cipher = c
  <2>1. call \in [Threads -> Call]
    BY <1>1 DEF CallsInv
  <2>2. \E pc \in Pcs \ {"idle"} : (\E bytes : Put(t, bytes, pc)) \/ Goto(t, pc)
    BY DEF Statement, DrainByte, Drained, Advance, TakeWord, KeepWord,
           ServeByte, Rewind, Forget, ZeroLeftover, Pcs
  <2>3. PICK pc \in Pcs \ {"idle"} : (\E bytes : Put(t, bytes, pc)) \/ Goto(t, pc)
    BY <2>2
  <2>4. call'[t].pc = pc
    <3>1. CASE Goto(t, pc)
      BY <2>1, <3>1 DEF Goto, Call
    <3>2. ASSUME NEW bytes, Put(t, bytes, pc) PROVE call'[t].pc = pc
      BY <2>1, <3>2 DEF Put, Call
    <3>. QED BY <2>3, <3>1, <3>2
  <2>. QED BY <1>2, <2>4 DEF Kept
<1>4. ASSUME NEW d \in Ciphers PROVE Settled(d)' = Settled(d)
  <2>1. CASE d = c
    <3>1. ~Free(c) /\ ~Free(c)'
      BY <1>1, <1>3 DEF Free, Uses
    <3>. QED BY <1>1, <2>1, <3>1 DEF Settled
  <2>2. CASE d # c
    <3>1. /\ Written(d)' = Written(d)
          /\ \A u \in Threads : Uses(u, d)' = Uses(u, d)
      BY <1>1, <1>2, <1>3, <2>2 DEF Kept, Elsewhere, Written, Uses
    <3>2. Free(d)' = Free(d)
      BY <3>1 DEF Free
    <3>. QED BY <1>1, <3>1, <3>2 DEF Settled
  <2>. QED BY <2>1, <2>2
<1>. QED BY <1>1, <1>4, NothingSettled

\* So is the beginning of a call.
LEMMA EnterStutters ==
  ASSUME TraceInv, NEW t \in Threads, NEW c \in Ciphers, NEW op, NEW size,
         NEW pc \in {"drain", "fill", "rewind"}, Enter(t, c, op, size, pc)
  PROVE  UNCHANGED Atomic!vars
<1>1. /\ CallsInv /\ Free(c) /\ UNCHANGED vars
      /\ call' = [call EXCEPT ![t] = [pc |-> pc, op |-> op, cipher |-> c,
                                      size |-> size, output |-> <<>>]]
      /\ entry' = [entry EXCEPT ![c] = Written(c)]
      /\ entry \in [Ciphers -> Entries] /\ call \in [Threads -> Call]
      /\ call[t].pc = "idle"
  BY DEF TraceInv, CallsInv, Enter
<1>2. /\ call'[t].pc # "idle" /\ call'[t].cipher = c
      /\ \A u \in Threads \ {t} : call'[u] = call[u]
  BY <1>1
<1>3. \A d \in Ciphers : Written(d)' = Written(d)
  BY <1>1 DEF Written, vars, members
<1>4. ASSUME NEW d \in Ciphers PROVE Settled(d)' = Settled(d)
  <2>1. CASE d = c
    <3>1. Free(c) /\ ~Free(c)' /\ entry'[c] = Written(c)
      BY <1>1, <1>2 DEF Free, Uses
    <3>. QED BY <2>1, <3>1 DEF Settled
  <2>2. CASE d # c
    <3>1. \A u \in Threads : Uses(u, d)' = Uses(u, d)
      BY <1>1, <1>2, <2>2 DEF Uses
    <3>2. Free(d)' = Free(d) /\ entry'[d] = entry[d]
      BY <1>1, <2>2, <3>1 DEF Free
    <3>. QED BY <1>3, <3>2 DEF Settled
  <2>. QED BY <2>1, <2>2
<1>. QED BY <1>1, <1>4, NothingSettled DEF vars, members

LEMMA ConstructAtomic ==
  ASSUME TraceInv, NEW c \in Ciphers, NEW m \in Arguments, Construct(c, m),
         UNCHANGED <<call, entry>>
  PROVE  Atomic!Construct(c, m)
<1>1. /\ CallsInv /\ MembersType /\ c \notin live /\ live' = live \cup {c}
      /\ state_' = [state_ EXCEPT ![c] = DeriveState(m)]
      /\ initial_state_' = [initial_state_ EXCEPT ![c] = DeriveState(m)]
      /\ buffer_' = [buffer_ EXCEPT ![c] = ZeroBuffer]
      /\ buffer_pos_' = [buffer_pos_ EXCEPT ![c] = 8]
      /\ material_' = [material_ EXCEPT ![c] = m]
      /\ blob' = blob /\ HasKey(m) /\ Done("Cipher", c)
  BY DEF TraceInv, CallsInv, Construct, Assign
<1>2. \A d \in Ciphers : Free(d)' = Free(d)
  BY DEF Free, Uses
<1>3. Free(c)
  BY <1>1 DEF Free, Uses, CallsInv, Exclusive
<1>4. /\ Settled(c)'.state_ = DeriveState(m) /\ Settled(c)'.buffer_ = ZeroBuffer
      /\ Settled(c)'.buffer_pos_ = 8
  BY <1>1, <1>2, <1>3 DEF Settled, Written, MembersType
<1>5. ASSUME NEW d \in Ciphers \ {c} PROVE Settled(d)' = Settled(d)
  <2>1. Written(d)' = Written(d)
    BY <1>1 DEF Written, MembersType
  <2>. QED BY <1>2, <2>1 DEF Settled
<1>6. /\ SettledState' = [SettledState EXCEPT ![c] = DeriveState(m)]
      /\ SettledBuffer' = [SettledBuffer EXCEPT ![c] = ZeroBuffer]
      /\ SettledPos' = [SettledPos EXCEPT ![c] = 8]
  BY <1>4, <1>5, OneSettled
<1>. QED
  BY <1>1, <1>6
  DEF Atomic!Construct, Atomic!Assign, Atomic!HasKey, Atomic!Done, Atomic!Answer,
      Atomic!DeriveState, Atomic!ZeroBuffer, Atomic!ZeroByte,
      HasKey, Done, Answer, DeriveState, ZeroBuffer, ZeroByte,
      SettledState, SettledBuffer, SettledPos

\* The caller gets its object back, and nobody else sees a change.
LEMMA ReturnSettles ==
  ASSUME TraceInv, NEW t \in Threads, NEW c \in Ciphers, call[t].cipher = c,
         Return(t, c)
  PROVE  /\ Settled(c) = entry[c]
         /\ SettledState' = [SettledState EXCEPT ![c] = state_[c]]
         /\ SettledBuffer' = [SettledBuffer EXCEPT ![c] = buffer_[c]]
         /\ SettledPos' = [SettledPos EXCEPT ![c] = buffer_pos_[c]]
<1>1. /\ CallsInv /\ Uses(t, c) /\ call' = [call EXCEPT ![t] = NoCall]
      /\ call \in [Threads -> Call] /\ UNCHANGED <<members, entry>>
  BY DEF TraceInv, CallsInv, Return, Uses
<1>2. /\ ~Uses(t, c)' /\ \A d \in Ciphers : ~Uses(t, d)'
      /\ \A u \in Threads \ {t}, d \in Ciphers : Uses(u, d)' = Uses(u, d)
  BY <1>1 DEF Uses, NoCall
<1>3. \A u \in Threads \ {t} : ~Uses(u, c)
  BY <1>1 DEF CallsInv, Exclusive
<1>4. ~Free(c) /\ Free(c)'
  BY <1>1, <1>2, <1>3 DEF Free
<1>5. \A d \in Ciphers : Written(d)' = Written(d)
  BY <1>1 DEF Written, members
<1>6. ASSUME NEW d \in Ciphers \ {c} PROVE Settled(d)' = Settled(d)
  <2>1. ~Uses(t, d)
    BY <1>1 DEF Uses
  <2>2. Free(d)' = Free(d)
    BY <1>2, <2>1 DEF Free
  <2>. QED BY <1>1, <1>5, <2>2 DEF Settled
<1>7. Settled(c) = entry[c] /\ Settled(c)' = Written(c)
  BY <1>4, <1>5 DEF Settled
<1>8. /\ Settled(c)'.state_ = state_[c] /\ Settled(c)'.buffer_ = buffer_[c]
      /\ Settled(c)'.buffer_pos_ = buffer_pos_[c]
  BY <1>7 DEF Written
<1>. QED BY <1>6, <1>7, <1>8, OneSettled

\* How many words a generate() of size bytes takes.
LEMMA WordCount ==
  ASSUME NEW size \in Nat, NEW held \in Nat, held <= size,
         NEW m \in Nat, NEW tail \in 0..7, size - held = 8 * m + tail
  PROVE  /\ (size - held) \div 8 = m /\ (size - held) % 8 = tail
         /\ m + (IF tail > 0 THEN 1 ELSE 0) = (size - held + 7) \div 8
<1>1. PICK b \in Nat : b = size - held
  OBVIOUS
<1>2. b \div 8 = m /\ b % 8 = tail
  BY <1>1
<1>3. m + (IF tail > 0 THEN 1 ELSE 0) = (b + 7) \div 8
  BY <1>1
<1>. QED BY <1>1, <1>2, <1>3

\* s, b, p are what a generate() that drained held bytes has left of e: it has
\* put m words into the output, and tail bytes of one more.
Finished(r, e, s, b, p, m, tail, held) ==
  /\ held = Held(r, e) /\ held <= r.size
  /\ r.size - held = 8 * m + tail
  /\ s = StepBy(e.state_, m + (IF tail > 0 THEN 1 ELSE 0))
  /\ IF tail > 0 THEN /\ b = [i \in 0..7 |-> ExtractByte(s, i)]
                      /\ p = tail
     ELSE b = e.buffer_ /\ p = e.buffer_pos_ + held

\* What a finished generate() has done, in the terms of its atomic form.
LEMMA GenerateDone ==
  ASSUME NEW r \in Call, NEW e \in Entries, NEW s, NEW b, NEW p, NEW init,
         OnTheWay(r, e, s, b, p, init), r.op = "generate",
         r.pc \in {"fill", "serve"}, r.size - Len(r.output) = 0
  PROVE  \E m \in Nat, tail \in 0..7, held \in 0..8 :
           Finished(r, e, s, b, p, m, tail, held)
<1>1. Drawing(r, e, s, b, p)
  BY DEF OnTheWay
<1>2. PICK size \in Nat, held \in 0..8 :
        /\ size = r.size /\ size = Len(r.output)
        /\ held = Held(r, e) /\ held <= size
  <2>1. r.size \in Nat /\ Len(r.output) \in Nat
    BY SizesType
  <2>2. Held(r, e) \in 0..8 /\ Held(r, e) <= r.size
    BY HeldType
  <2>. QED BY <2>1, <2>2
<1>3. CASE r.pc = "fill"
  <2>1. PICK m \in Nat : size = held + 8 * m /\ Stands(e, s, b, p, m, held)
    BY <1>1, <1>2, <1>3 DEF Drawing
  <2>2. size - held = 8 * m + 0 /\ m + (IF 0 > 0 THEN 1 ELSE 0) = m /\ ~(0 > 0) /\ 0 \in 0..7
    BY <2>1
  <2>. QED BY <1>2, <2>1, <2>2 DEF Stands, Finished
<1>4. CASE r.pc = "serve"
  <2>1. PICK m \in Nat : /\ size - held - 8 * m \in 1..7
                         /\ p = size - held - 8 * m
                         /\ s = StepBy(e.state_, m + 1)
                         /\ b = [i \in 0..7 |-> ExtractByte(s, i)]
    BY <1>1, <1>2, <1>4 DEF Drawing
  <2>2. PICK tail \in 1..7 : tail = size - held - 8 * m
    BY <2>1
  <2>3. /\ size - held = 8 * m + tail /\ tail > 0 /\ tail \in 0..7
        /\ m + (IF tail > 0 THEN 1 ELSE 0) = m + 1
    BY <2>2
  <2>. QED BY <1>2, <2>1, <2>2, <2>3 DEF Finished
<1>. QED BY <1>3, <1>4

LEMMA OutputIs ==
  ASSUME NEW r \in Call, NEW size \in Nat, Len(r.output) = size
  PROVE  r.output = [i \in 1..size |-> r.output[i]]
<1>1. r.output \in Seq(Byte)
  BY DEF Call
<1>. QED BY <1>1, LenProperties

LEMMA GenerateAtomic ==
  ASSUME TraceInv, NEW t \in Threads, NEW c \in Ciphers, call[t].cipher = c,
         Return(t, c), call[t].op = "generate"
  PROVE  /\ call[t].size \in GenerateSizes
         /\ Atomic!Generate(c, call[t].size)
<1>1. PICK r \in Call, e \in Entries :
        /\ r = call[t] /\ e = entry[c] /\ r.op = "generate" /\ r.pc \in {"fill", "serve"}
        /\ r.size - Len(r.output) = 0
        /\ OnTheWay(r, e, state_[c], buffer_[c], buffer_pos_[c], initial_state_[c])
  BY DEF TraceInv, CallsInv, Return, Remaining, Along
<1>2. PICK m \in Nat, tail \in 0..7, held \in 0..8 :
           /\ held = Held(r, e) /\ held <= r.size
           /\ r.size - held = 8 * m + tail
           /\ state_[c] = StepBy(e.state_, m + (IF tail > 0 THEN 1 ELSE 0))
           /\ IF tail > 0 THEN /\ buffer_[c] = [i \in 0..7 |-> ExtractByte(state_[c], i)]
                               /\ buffer_pos_[c] = tail
              ELSE buffer_[c] = e.buffer_ /\ buffer_pos_[c] = e.buffer_pos_ + held
  <2>1. \E m \in Nat, tail \in 0..7, held \in 0..8 :
          Finished(r, e, state_[c], buffer_[c], buffer_pos_[c], m, tail, held)
    BY <1>1, GenerateDone
  <2>. QED BY <2>1 DEF Finished
<1>3. PICK size \in Nat : /\ size = r.size /\ Len(r.output) = size /\ held <= size
                          /\ size - held = 8 * m + tail /\ size \in GenerateSizes
                          /\ e.state_.n + ((size - held + 7) \div 8) <= MaxWords
  <2>1. r.size \in Nat /\ Len(r.output) \in Nat
    BY SizesType
  <2>2. /\ r.size \in GenerateSizes
        /\ e.state_.n + ((r.size - held + 7) \div 8) <= MaxWords
    BY <1>1, <1>2 DEF OnTheWay
  <2>3. Len(r.output) = r.size
    BY <1>1, <2>1
  <2>4. held <= r.size /\ r.size - held = 8 * m + tail
    BY <1>2
  <2>. QED BY <2>1, <2>2, <2>3, <2>4
<1>4. PICK steps \in Nat : /\ steps = m + (IF tail > 0 THEN 1 ELSE 0)
                           /\ steps = (size - held + 7) \div 8
                           /\ (size - held) \div 8 = m /\ (size - held) % 8 = tail
  <2>1. held \in Nat /\ held <= size /\ size - held = 8 * m + tail
    BY <1>3
  <2>2. /\ (size - held) \div 8 = m /\ (size - held) % 8 = tail
        /\ m + (IF tail > 0 THEN 1 ELSE 0) = (size - held + 7) \div 8
    BY <2>1, WordCount
  <2>3. m + (IF tail > 0 THEN 1 ELSE 0) \in Nat
    OBVIOUS
  <2>. QED BY <2>2, <2>3
<1>5. /\ c \in live /\ UNCHANGED <<live, initial_state_, material_, blob>>
      /\ ret' = Answer("generate", c, "ok", r.output)
  BY <1>1 DEF TraceInv, CallsInv, Exclusive, Return, members
<1>6. /\ SettledState[c] = e.state_ /\ SettledBuffer[c] = e.buffer_
      /\ SettledPos[c] = e.buffer_pos_ /\ e.state_ \in State
      /\ e.buffer_pos_ \in 0..8
  BY <1>1, ReturnSettles DEF SettledState, SettledBuffer, SettledPos, Entries
<1>7. /\ SettledState' = [SettledState EXCEPT ![c] = StepBy(e.state_, steps)]
      /\ StepBy(e.state_, steps).n <= MaxWords
  <2>1. SettledState' = [SettledState EXCEPT ![c] = state_[c]]
    BY ReturnSettles
  <2>2. StepBy(e.state_, steps).n = e.state_.n + steps /\ e.state_.n \in Nat
    BY <1>6, StepByType DEF State
  <2>3. PICK n \in Nat : n = e.state_.n
    BY <2>2
  <2>4. n + steps <= MaxWords
    BY <1>3, <1>4, <2>3
  <2>. QED BY <1>2, <1>4, <2>1, <2>2, <2>3, <2>4
<1>8. IF tail > 0
      THEN /\ SettledBuffer' = [SettledBuffer EXCEPT
                 ![c] = [i \in 0..7 |-> ExtractByte(StepBy(e.state_, steps), i)]]
           /\ SettledPos' = [SettledPos EXCEPT ![c] = tail]
      ELSE /\ SettledBuffer' = SettledBuffer
           /\ SettledPos' = [SettledPos EXCEPT ![c] = SettledPos[c] + held]
  <2>1. /\ SettledBuffer' = [SettledBuffer EXCEPT ![c] = buffer_[c]]
        /\ SettledPos' = [SettledPos EXCEPT ![c] = buffer_pos_[c]]
    BY ReturnSettles
  <2>2. [SettledBuffer EXCEPT ![c] = SettledBuffer[c]] = SettledBuffer
    BY DEF SettledBuffer
  <2>3. CASE tail > 0
    <3>1. /\ state_[c] = StepBy(e.state_, steps) /\ buffer_pos_[c] = tail
          /\ buffer_[c] = [i \in 0..7 |-> ExtractByte(state_[c], i)]
      BY <1>2, <1>4, <2>3, Zenon
    <3>2. buffer_[c] = [i \in 0..7 |-> ExtractByte(StepBy(e.state_, steps), i)]
      BY <3>1, Zenon
    <3>. QED BY <2>1, <2>3, <3>1, <3>2, Zenon
  <2>4. CASE ~(tail > 0)
    BY <1>2, <1>6, <2>1, <2>2, <2>4
  <2>. QED BY <2>3, <2>4
<1>9. r.output = [i \in 1..size |->
                    IF i <= held THEN SettledBuffer[c][SettledPos[c] + i - 1]
                    ELSE ExtractByte(StepBy(SettledState[c], 1), i - held - 1)]
  <2>1. r.output = [i \in 1..size |-> r.output[i]]
    BY <1>3, OutputIs
  <2>2. ASSUME NEW i \in 1..size
        PROVE  r.output[i] = IF i <= held THEN SettledBuffer[c][SettledPos[c] + i - 1]
                             ELSE ExtractByte(StepBy(SettledState[c], 1), i - held - 1)
    <3>1. Drawing(r, e, state_[c], buffer_[c], buffer_pos_[c])
      BY <1>1 DEF OnTheWay
    <3>2. \A j \in 1 .. Len(r.output) : r.output[j] = Owed(e, Held(r, e), j)
      BY <3>1, Drawn
    <3>3. r.output[i] = Owed(e, held, i)
      BY <1>2, <1>3, <3>2
    <3>. QED BY <1>6, <3>3 DEF Owed
  <2>3. [i \in 1..size |-> r.output[i]]
          = [i \in 1..size |->
              IF i <= held THEN SettledBuffer[c][SettledPos[c] + i - 1]
              ELSE ExtractByte(StepBy(SettledState[c], 1), i - held - 1)]
    BY <2>2
  <2>. QED BY <2>1, <2>3
<1>10. held = IF size <= 8 - SettledPos[c] THEN size ELSE 8 - SettledPos[c]
  BY <1>1, <1>2, <1>3, <1>6 DEF Held
<1>11. Atomic!DrainLength(c, size) = held
  BY <1>10 DEF Atomic!DrainLength, SettledPos
<1>12. /\ (size - Atomic!DrainLength(c, size)) \div 8 = m
       /\ (size - Atomic!DrainLength(c, size)) % 8 = tail
       /\ m + (IF tail > 0 THEN 1 ELSE 0) = steps
  BY <1>4, <1>11
<1>13. ret' = Answer("generate", c, "ok", [i \in 1..size |->
                    IF i <= held THEN SettledBuffer[c][SettledPos[c] + i - 1]
                    ELSE ExtractByte(StepBy(SettledState[c], 1), i - held - 1)])
  BY <1>5, <1>9
<1>14. /\ StepBy(SettledState[c], steps).n <= MaxWords
       /\ SettledState' = [SettledState EXCEPT ![c] = StepBy(SettledState[c], steps)]
       /\ IF tail > 0
          THEN /\ SettledBuffer' = [SettledBuffer EXCEPT
                    ![c] = [i \in 0..7 |-> ExtractByte(StepBy(SettledState[c], steps), i)]]
               /\ SettledPos' = [SettledPos EXCEPT ![c] = tail]
          ELSE /\ SettledBuffer' = SettledBuffer
               /\ SettledPos' = [SettledPos EXCEPT ![c] = SettledPos[c] + held]
  BY <1>6, <1>7, <1>8
<1>. DEFINE D    == Atomic!DrainLength(c, size)
            over == (size - D) % 8
            L    == Atomic!StepBy(SettledState[c],
                                  ((size - D) \div 8) + (IF over > 0 THEN 1 ELSE 0))
            left == [i \in 0..7 |-> Atomic!ExtractByte(L, i)]
            out  == [i \in 1..size |->
                       IF i <= D THEN SettledBuffer[c][SettledPos[c] + i - 1]
                       ELSE Atomic!ExtractByte(Atomic!StepBy(SettledState[c], 1), i - D - 1)]
<1>15. L = StepBy(SettledState[c], steps) /\ over = tail /\ D = held
  BY <1>11, <1>12 DEF Atomic!StepBy, StepBy
<1>16. left = [i \in 0..7 |-> ExtractByte(StepBy(SettledState[c], steps), i)]
  <2>. HIDE DEF L
  <2>1. \A q, i : Atomic!ExtractByte(q, i) = ExtractByte(q, i)
    BY DEF Atomic!ExtractByte, ExtractByte, Atomic!StreamByte, StreamByte
  <2>. QED BY <1>15, <2>1
<1>17. out = [i \in 1..size |->
                    IF i <= held THEN SettledBuffer[c][SettledPos[c] + i - 1]
                    ELSE ExtractByte(StepBy(SettledState[c], 1), i - held - 1)]
  <2>. HIDE DEF D
  <2>1. \A q, i : Atomic!ExtractByte(q, i) = ExtractByte(q, i)
    BY DEF Atomic!ExtractByte, ExtractByte, Atomic!StreamByte, StreamByte
  <2>2. Atomic!StepBy(SettledState[c], 1) = StepBy(SettledState[c], 1)
    BY DEF Atomic!StepBy, StepBy
  <2>. QED BY <1>15, <2>1, <2>2
<1>18. /\ c \in live /\ L.n <= MaxWords
       /\ SettledState' = [SettledState EXCEPT ![c] = L]
       /\ IF over > 0
          THEN /\ SettledBuffer' = [SettledBuffer EXCEPT ![c] = left]
               /\ SettledPos' = [SettledPos EXCEPT ![c] = over]
          ELSE /\ SettledBuffer' = SettledBuffer
               /\ SettledPos' = [SettledPos EXCEPT ![c] = SettledPos[c] + D]
       /\ ret' = Atomic!Answer("generate", c, "ok", out)
       /\ UNCHANGED <<live, initial_state_, material_, blob>>
  <2>. HIDE DEF L, over, left, D, out
  <2>1. ret' = Atomic!Answer("generate", c, "ok", out)
    BY <1>13, <1>17 DEF Atomic!Answer, Answer
  <2>2. IF over > 0
        THEN /\ SettledBuffer' = [SettledBuffer EXCEPT ![c] = left]
             /\ SettledPos' = [SettledPos EXCEPT ![c] = over]
        ELSE /\ SettledBuffer' = SettledBuffer
             /\ SettledPos' = [SettledPos EXCEPT ![c] = SettledPos[c] + D]
    <3>1. CASE tail > 0
      BY <1>14, <1>15, <1>16, <3>1
    <3>2. CASE ~(tail > 0)
      BY <1>14, <1>15, <3>2
    <3>. QED BY <3>1, <3>2
  <2>. QED BY <1>5, <1>14, <1>15, <2>1, <2>2
<1>19. Atomic!Generate(c, size)
  BY <1>18, Zenon DEF Atomic!Generate, SettledState, SettledBuffer, SettledPos
<1>. QED BY <1>1, <1>3, <1>19

LEMMA NextAtomic ==
  ASSUME TraceInv, NEW t \in Threads, NEW c \in Ciphers, call[t].cipher = c,
         Return(t, c), call[t].op = "next"
  PROVE  Atomic!NextWord(c)
<1>1. PICK r \in Call, e \in Entries :
        /\ r = call[t] /\ e = entry[c] /\ r.op = "next" /\ r.pc \in {"fill", "serve"}
        /\ r.size - Len(r.output) = 0
        /\ OnTheWay(r, e, state_[c], buffer_[c], buffer_pos_[c], initial_state_[c])
  BY DEF TraceInv, CallsInv, Return, Remaining, Along
<1>2. /\ r.size = 8 /\ Held(r, e) = 0 /\ Drawing(r, e, state_[c], buffer_[c], buffer_pos_[c])
      /\ e.state_.n + ((8 + 7) \div 8) <= MaxWords /\ Len(r.output) = 8
  <2>1. r.size = 8 /\ Drawing(r, e, state_[c], buffer_[c], buffer_pos_[c])
    BY <1>1 DEF OnTheWay
  <2>2. Len(r.output) \in Nat
    BY SizesType
  <2>3. Held(r, e) = 0
    BY <1>1 DEF Held
  <2>4. e.state_.n + ((8 - 0 + 7) \div 8) <= MaxWords
    BY <1>1, <2>1, <2>3, Zenon DEF OnTheWay
  <2>5. 8 - 0 + 7 = 8 + 7
    OBVIOUS
  <2>. QED BY <1>1, <2>1, <2>2, <2>3, <2>4, <2>5
<1>3. /\ state_[c] = StepBy(e.state_, 1) /\ buffer_[c] = e.buffer_
      /\ buffer_pos_[c] = e.buffer_pos_
  <2>1. PICK m \in Nat : 8 = 0 + 8 * m /\ Stands(e, state_[c], buffer_[c], buffer_pos_[c], m, 0)
    BY <1>1, <1>2 DEF Drawing
  <2>2. m = 1
    BY <2>1
  <2>3. e.buffer_pos_ + 0 = e.buffer_pos_
    BY SizesType
  <2>. QED BY <2>1, <2>2, <2>3 DEF Stands
<1>4. /\ c \in live /\ UNCHANGED <<live, initial_state_, material_, blob>>
      /\ ret' = Answer("next", c, "ok", r.output)
  BY <1>1 DEF TraceInv, CallsInv, Exclusive, Return, members
<1>5. /\ SettledState[c] = e.state_ /\ SettledBuffer[c] = e.buffer_
      /\ SettledPos[c] = e.buffer_pos_ /\ e.state_ \in State
  BY <1>1, ReturnSettles DEF SettledState, SettledBuffer, SettledPos, Entries
<1>. DEFINE s   == StepBy(SettledState[c], 1)
            out == [i \in 1..8 |-> ExtractByte(s, i - 1)]
<1>6. s = StepBy(e.state_, 1) /\ s.n <= MaxWords
  <2>1. StepBy(e.state_, 1).n = e.state_.n + 1 /\ e.state_.n \in Nat
    BY <1>5, StepByType DEF State
  <2>2. (8 + 7) \div 8 = 1
    OBVIOUS
  <2>. QED BY <1>2, <1>5, <2>1, <2>2
<1>7. r.output = out
  <2>1. r.output = [i \in 1..8 |-> r.output[i]]
    BY <1>2, OutputIs
  <2>2. ASSUME NEW i \in 1..8 PROVE r.output[i] = ExtractByte(s, i - 1)
    <3>1. \A j \in 1 .. Len(r.output) : r.output[j] = Owed(e, Held(r, e), j)
      BY <1>2, Drawn
    <3>2. r.output[i] = Owed(e, 0, i)
      BY <1>2, <3>1
    <3>3. i - 0 - 1 = i - 1 /\ ~(i <= 0)
      OBVIOUS
    <3>. QED BY <1>6, <3>2, <3>3, Zenon DEF Owed
  <2>. HIDE DEF s
  <2>. QED BY <2>1, <2>2
<1>8. /\ SettledState' = [SettledState EXCEPT ![c] = s]
      /\ SettledBuffer' = SettledBuffer /\ SettledPos' = SettledPos
  <2>1. /\ SettledState' = [SettledState EXCEPT ![c] = state_[c]]
        /\ SettledBuffer' = [SettledBuffer EXCEPT ![c] = buffer_[c]]
        /\ SettledPos' = [SettledPos EXCEPT ![c] = buffer_pos_[c]]
    BY ReturnSettles
  <2>2. /\ [SettledBuffer EXCEPT ![c] = SettledBuffer[c]] = SettledBuffer
        /\ [SettledPos EXCEPT ![c] = SettledPos[c]] = SettledPos
    BY DEF SettledBuffer, SettledPos
  <2>. QED BY <1>3, <1>5, <1>6, <2>1, <2>2
<1>9. /\ c \in live /\ s.n <= MaxWords /\ SettledState' = [SettledState EXCEPT ![c] = s]
      /\ SettledBuffer' = SettledBuffer /\ SettledPos' = SettledPos
      /\ ret' = Answer("next", c, "ok", out)
      /\ UNCHANGED <<live, initial_state_, material_, blob>>
  <2>. HIDE DEF s, out
  <2>. QED BY <1>4, <1>6, <1>7, <1>8
<1>. QED
  BY <1>9, Zenon
  DEF Atomic!NextWord, SettledState, SettledBuffer, SettledPos, Atomic!StepBy, StepBy,
      Atomic!ExtractByte, ExtractByte, Atomic!StreamByte, StreamByte, Atomic!Answer, Answer

LEMMA ResetAtomic ==
  ASSUME TraceInv, NEW t \in Threads, NEW c \in Ciphers, call[t].cipher = c,
         Return(t, c), call[t].op = "reset"
  PROVE  Atomic!Reset(c)
<1>1. PICK r \in Call : /\ r = call[t] /\ r.op = "reset" /\ r.pc \in {"fill", "serve"}
        /\ OnTheWay(r, entry[c], state_[c], buffer_[c], buffer_pos_[c], initial_state_[c])
  BY DEF TraceInv, CallsInv, Return, Along
<1>2. /\ state_[c] = initial_state_[c] /\ buffer_[c] = ZeroBuffer
      /\ buffer_pos_[c] = 8 /\ r.output = <<>>
  BY <1>1 DEF OnTheWay, Rewinding
<1>3. /\ c \in live /\ UNCHANGED <<live, initial_state_, material_, blob>>
      /\ ret' = Answer("reset", c, "ok", <<>>)
  BY <1>1, <1>2 DEF TraceInv, CallsInv, Exclusive, Return, members
<1>4. /\ SettledState' = [SettledState EXCEPT ![c] = initial_state_[c]]
      /\ SettledBuffer' = [SettledBuffer EXCEPT ![c] = ZeroBuffer]
      /\ SettledPos' = [SettledPos EXCEPT ![c] = 8]
  BY <1>2, ReturnSettles
<1>. QED
  BY <1>3, <1>4, Zenon
  DEF Atomic!Reset, Atomic!DiscardLeftover, Atomic!Done, SettledState, SettledBuffer,
      SettledPos, Atomic!Answer, Answer, Atomic!ZeroBuffer, ZeroBuffer,
      Atomic!ZeroByte, ZeroByte

LEMMA AtomicInit == CallsInit => Atomic!Init
<1>. SUFFICES ASSUME CallsInit PROVE Atomic!Init
  OBVIOUS
<1>1. \A c \in Ciphers : Settled(c) = Written(c)
  BY DEF CallsInit, NoCall, Free, Uses, Settled
<1>2. \A c \in Ciphers : /\ Settled(c).state_ = Wiped /\ Settled(c).buffer_ = ZeroBuffer
                         /\ Settled(c).buffer_pos_ = 8
  <2>1. \A c \in Ciphers : /\ Written(c).state_ = state_[c]
                           /\ Written(c).buffer_ = buffer_[c]
                           /\ Written(c).buffer_pos_ = buffer_pos_[c]
    BY DEF Written
  <2>2. \A c \in Ciphers : /\ state_[c] = Wiped /\ buffer_[c] = ZeroBuffer
                           /\ buffer_pos_[c] = 8
    BY DEF CallsInit, Init
  <2>3. ASSUME NEW c \in Ciphers
        PROVE  /\ Settled(c).state_ = Wiped /\ Settled(c).buffer_ = ZeroBuffer
               /\ Settled(c).buffer_pos_ = 8
    BY <1>1, <2>1, <2>2
  <2>. QED BY <2>3
<1>3. /\ SettledState = [c \in Ciphers |-> Wiped]
      /\ SettledBuffer = [c \in Ciphers |-> ZeroBuffer]
      /\ SettledPos = [c \in Ciphers |-> 8]
  BY <1>2 DEF SettledState, SettledBuffer, SettledPos
<1>. QED
  BY <1>3 DEF CallsInit, Init, Atomic!Init, SettledState, SettledBuffer, SettledPos,
      Atomic!Wiped, Wiped, Atomic!ZeroBuffer, ZeroBuffer, Atomic!ZeroByte, ZeroByte,
      Atomic!NoMaterial, NoMaterial, Atomic!Answer, Answer

LEMMA ReturnAtomic ==
  ASSUME TraceInv, NEW t \in Threads, NEW c \in Ciphers, call[t].cipher = c,
         Return(t, c)
  PROVE  Atomic!Next
<1>1. call[t].op \in {"generate", "next", "reset"}
  BY DEF TraceInv, CallsInv, Return, Along, OnTheWay
<1>. QED BY <1>1, GenerateAtomic, NextAtomic, ResetAtomic DEF Atomic!Next

LEMMA AtomicNext == TraceInv /\ [CallsNext]_callVars => [Atomic!Next]_(Atomic!vars)
<1>. SUFFICES ASSUME TraceInv, [CallsNext]_callVars
              PROVE  Atomic!Next \/ UNCHANGED Atomic!vars
  OBVIOUS
<1>1. CASE UNCHANGED callVars
  <2>1. \A c \in Ciphers : Written(c)' = Written(c) /\ Free(c)' = Free(c)
    BY <1>1 DEF callVars, vars, members, Written, Free, Uses
  <2>2. \A c \in Ciphers : Settled(c)' = Settled(c)
    BY <1>1, <2>1 DEF callVars, Settled
  <2>. QED BY <1>1, <2>2, NothingSettled DEF callVars, vars, members
<1>2. ASSUME NEW t \in Threads, Proceed(t) PROVE Atomic!Next \/ UNCHANGED Atomic!vars
  BY <1>2, StatementStutters, ReturnAtomic DEF Proceed
<1>3. ASSUME NEW t \in Threads, NEW c \in Ciphers, NEW size \in GenerateSizes,
             Enter(t, c, "generate", size, "drain")
      PROVE  UNCHANGED Atomic!vars
  BY <1>3, EnterStutters
<1>4. ASSUME NEW t \in Threads, NEW c \in Ciphers,
             Enter(t, c, "next", 8, "fill") \/ Enter(t, c, "reset", 0, "rewind")
      PROVE  UNCHANGED Atomic!vars
  BY <1>4, EnterStutters
<1>5. ASSUME NEW c \in Ciphers, NEW m \in Arguments, Construct(c, m),
             UNCHANGED <<call, entry>>
      PROVE  Atomic!Next
  BY <1>5, ConstructAtomic DEF Atomic!Next, Atomic!Arguments, Arguments
<1>. QED BY <1>1, <1>2, <1>3, <1>4, <1>5 DEF CallsNext

\* ImplementsAtomicCalls: as long as an object has one user at a time, whatever
\* the threads interleave between their calls, each call looks to every other
\* caller like the single step that module Cipher takes it for.
THEOREM CallsRefineCipher == CallsSpec => ImplementsAtomicCalls
<1>1. CallsSpec => []TraceInv
  BY TraceInvInit, TraceInvNext, PTL DEF CallsSpec
<1>. QED BY <1>1, AtomicInit, AtomicNext, PTL DEF CallsSpec, ImplementsAtomicCalls, Atomic!Spec

-----------------------------------------------------------------------------
(* What module CipherProofs proves of one-step calls holds of calls made   *)
(* of statements.                                                          *)

\* The theorems of CipherProofs, about the objects as the next caller finds
\* them; Atomic has the same definitions, and not the theorems.
Served == INSTANCE CipherProofs WITH
            state_      <- [c \in Ciphers |-> Settled(c).state_],
            buffer_     <- [c \in Ciphers |-> Settled(c).buffer_],
            buffer_pos_ <- [c \in Ciphers |-> Settled(c).buffer_pos_]

LEMMA SameInit == Atomic!Init => Served!Init
  BY
  DEF Served!Init, Atomic!Init, Served!Wiped, Atomic!Wiped,
      Served!ZeroBuffer, Atomic!ZeroBuffer, Served!ZeroByte,
      Atomic!ZeroByte, Served!NoMaterial, Atomic!NoMaterial, Served!Answer,
      Atomic!Answer

LEMMA SameNext == [Atomic!Next]_(Atomic!vars) => [Served!Next]_(Served!vars)
<1>1. Atomic!Next => Served!Next
  BY
  DEF Served!Seeds, Atomic!Seeds, Served!members, Atomic!members,
      Served!Wiped, Atomic!Wiped, Served!StreamByte, Atomic!StreamByte,
      Served!ZeroByte, Atomic!ZeroByte, Served!ZeroBuffer,
      Atomic!ZeroBuffer, Served!NoMaterial, Atomic!NoMaterial,
      Served!Zeroed, Atomic!Zeroed, Served!DeriveState, Atomic!DeriveState,
      Served!StepBy, Atomic!StepBy, Served!ExtractByte, Atomic!ExtractByte,
      Served!Answer, Atomic!Answer, Served!Done, Atomic!Done, Served!Throws,
      Atomic!Throws, Served!Assign, Atomic!Assign, Served!Arguments,
      Atomic!Arguments, Served!HasKey, Atomic!HasKey, Served!Construct,
      Atomic!Construct, Served!ConstructThrows, Atomic!ConstructThrows,
      Served!Destroy, Atomic!Destroy, Served!Moved, Atomic!Moved,
      Served!Transfer, Atomic!Transfer, Served!MoveConstruct,
      Atomic!MoveConstruct, Served!MoveAssign, Atomic!MoveAssign,
      Served!DrainLength, Atomic!DrainLength, Served!Generate,
      Atomic!Generate, Served!NextWord, Atomic!NextWord,
      Served!DiscardLeftover, Atomic!DiscardLeftover, Served!Reset,
      Atomic!Reset, Served!Reseed, Atomic!Reseed, Served!ReseedWithoutKey,
      Atomic!ReseedWithoutKey, Served!PartlyCopied, Atomic!PartlyCopied,
      Served!ReseedThrows, Atomic!ReseedThrows, Served!NextByte,
      Atomic!NextByte, Served!ExportState, Atomic!ExportState,
      Served!ImportState, Atomic!ImportState, Served!ImportThrows,
      Atomic!ImportThrows, Served!Next, Atomic!Next
<1>2. UNCHANGED Atomic!vars => UNCHANGED Served!vars
  BY DEF Served!vars, Atomic!vars, Served!members, Atomic!members
<1>. QED BY <1>1, <1>2

LEMMA SameKeystream ==
  /\ Served!K!Init => Atomic!K!Init
  /\ [Served!K!Next]_(Served!K!kvars) => [Atomic!K!Next]_(Atomic!K!kvars)
<1>1. Served!K!Init => Atomic!K!Init
  BY
  DEF Served!K!Init, Atomic!K!Init, Served!BegunOf, Atomic!BegunOf,
      Served!HeldBy, Atomic!HeldBy, Served!Seeds, Atomic!Seeds
<1>2. Served!K!Next => Atomic!K!Next
  BY
  DEF Served!K!Attach, Atomic!K!Attach, Served!K!Silent, Atomic!K!Silent,
      Served!K!Start, Atomic!K!Start, Served!K!Drop, Atomic!K!Drop,
      Served!K!Rewind, Atomic!K!Rewind, Served!K!Save, Atomic!K!Save,
      Served!K!Restore, Atomic!K!Restore, Served!K!Move, Atomic!K!Move,
      Served!K!Refuse, Atomic!K!Refuse, Served!K!Positions,
      Atomic!K!Positions, Served!K!Serve, Atomic!K!Serve,
      Served!K!ServeWord, Atomic!K!ServeWord, Served!K!ServeVoid,
      Atomic!K!ServeVoid, Served!K!StreamByte, Atomic!K!StreamByte,
      Served!K!Next, Atomic!K!Next, Served!BegunOf, Atomic!BegunOf,
      Served!HeldBy, Atomic!HeldBy, Served!Seeds, Atomic!Seeds
<1>3. UNCHANGED Served!K!kvars => UNCHANGED Atomic!K!kvars
  BY
  DEF Served!K!kvars, Atomic!K!kvars, Served!BegunOf, Atomic!BegunOf,
      Served!HeldBy, Atomic!HeldBy, Served!Seeds, Atomic!Seeds
<1>. QED BY <1>1, <1>2, <1>3

LEMMA AtomicRefines == Atomic!Spec => Atomic!ImplementsKeystream
<1>1. Served!ZeroSeedAssumption
  BY ZeroSeedAssumption DEF Served!ZeroSeedAssumption, Served!Seeds, Seeds
<1>2. Served!Spec => Served!ImplementsKeystream
  BY <1>1, SizesAssumption, Served!Refinement, Zenon
<1>3. Atomic!Spec => Served!Spec
  BY SameInit, SameNext, PTL DEF Atomic!Spec, Served!Spec
<1>4. Served!ImplementsKeystream => Atomic!ImplementsKeystream
  BY SameKeystream, PTL DEF Served!ImplementsKeystream, Atomic!ImplementsKeystream,
     Served!K!Spec, Atomic!K!Spec
<1>. QED BY <1>2, <1>3, <1>4

\* ServesKeystream: whatever the threads interleave, and wherever in its loops
\* each call is, the objects hand out their keystreams in order and no byte
\* twice: CallsRefineCipher composed with the Refinement of module CipherProofs.
THEOREM CallsServeKeystream == CallsSpec => ServesKeystream
  BY CallsRefineCipher, AtomicRefines DEF ImplementsAtomicCalls, ServesKeystream

=============================================================================
