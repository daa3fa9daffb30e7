----------------------------- MODULE CipherCalls -----------------------------
(***************************************************************************)
(* The loops of Cipher::generate(), next() and reset() (src/cipher.cpp)    *)
(* statement by statement, in several threads.  A client keeps to the      *)
(* contract of cipher.hpp: an object is used by one thread, or its users   *)
(* lock it for the length of a call.                                       *)
(*                                                                         *)
(* Module Cipher takes each call as one step; this module is where that    *)
(* is shown to be right.                                                   *)
(***************************************************************************)
EXTENDS Cipher

CONSTANT Threads

VARIABLES call,   \* per thread: the running call and its local variables
          entry   \* per object, a history variable: what the running call found

callVars == <<vars, call, entry>>

\* The members that the three calls write.
Written(c) == [state_      |-> state_[c],
               buffer_     |-> buffer_[c],
               buffer_pos_ |-> buffer_pos_[c]]

NoCall == [pc |-> "idle", op |-> "none", cipher |-> "none",
           size |-> 0, output |-> <<>>]

CallsInit ==
  /\ Init
  /\ call  = [t \in Threads |-> NoCall]
  /\ entry = [c \in Ciphers |-> Written(c)]

Uses(t, c) == call[t].pc # "idle" /\ call[t].cipher = c

\* Mutant: two threads share an object and nobody locks it.
Unlocked(c) == TRUE

Free(c) == \A t \in Threads : ~Uses(t, c)

\* output.size() - pos
Remaining(t) == call[t].size - Len(call[t].output)

\* The word extract() makes of state_.
Word(c) == [i \in 0..7 |-> ExtractByte(state_[c], i)]

Goto(t, pc) == call' = [call EXCEPT ![t].pc = pc]

\* output[pos++] = ..., for each of bytes.
Put(t, bytes, pc) ==
  call' = [call EXCEPT ![t].output = @ \o bytes, ![t].pc = pc]

-----------------------------------------------------------------------------

\* How many words a call draws: none for the bytes that phase 1 drains.
WordsDrawn(c, op, size) ==
  LET drained == IF op = "generate" THEN DrainLength(c, size) ELSE 0
  IN  (size - drained + 7) \div 8

\* A thread calls op on an object that no other thread is using.
Enter(t, c, op, size, pc) ==
  /\ call[t].pc = "idle"
  /\ c \in live
  /\ Free(c)
  /\ state_[c].n + WordsDrawn(c, op, size) <= MaxWords
  /\ call' = [call EXCEPT ![t] = [pc |-> pc, op |-> op, cipher |-> c,
                                  size |-> size, output |-> <<>>]]
  /\ entry' = [entry EXCEPT ![c] = Written(c)]
  /\ UNCHANGED vars

\* Mutant: neither position is advanced.
DrainInPlace(t, c) ==
  /\ call[t].pc = "drain"
  /\ Remaining(t) > 0 /\ buffer_pos_[c] < 8
  /\ UNCHANGED <<members, call>>

\* Phase 1: one leftover byte.
DrainByte(t, c) ==
  /\ call[t].pc = "drain"
  /\ Remaining(t) > 0 /\ buffer_pos_[c] < 8
  /\ Put(t, <<buffer_[c][buffer_pos_[c]]>>, "drain")
  /\ buffer_pos_' = [buffer_pos_ EXCEPT ![c] = @ + 1]
  /\ UNCHANGED <<state_, initial_state_, buffer_, material_>>

Drained(t, c) ==
  /\ call[t].pc = "drain"
  /\ ~(Remaining(t) > 0 /\ buffer_pos_[c] < 8)
  /\ Goto(t, "fill")
  /\ UNCHANGED members

\* next(): step(state_).
Advance(t, c) ==
  /\ call[t].pc = "fill"
  /\ Remaining(t) > 0
  /\ state_' = [state_ EXCEPT ![c] = StepBy(@, 1)]
  /\ Goto(t, "word")
  /\ UNCHANGED <<initial_state_, buffer_, buffer_pos_, material_>>

\* Mutant: the loop of phase 2 tests the position and not the whole word.
AnyRoom(t) == Remaining(t) > 0

WholeWord(t) == Remaining(t) >= 8

\* Mutant: pos stays where it is.
TakeNoWord(t, c) ==
  /\ call[t].pc = "word"
  /\ WholeWord(t)
  /\ Goto(t, "fill")
  /\ UNCHANGED members

\* Phase 2, and next(): the word goes straight into the output.
TakeWord(t, c) ==
  /\ call[t].pc = "word"
  /\ WholeWord(t)
  /\ Put(t, [i \in 1..8 |-> Word(c)[i - 1]], "fill")
  /\ UNCHANGED members

\* Mutant: the read position stays at the end of the old word.
KeepWordUnread(t, c) ==
  /\ call[t].pc = "word"
  /\ ~WholeWord(t)
  /\ buffer_' = [buffer_ EXCEPT ![c] = Word(c)]
  /\ Goto(t, "serve")
  /\ UNCHANGED <<state_, initial_state_, buffer_pos_, material_>>

\* Phase 3: the word goes into the buffer.
KeepWord(t, c) ==
  /\ call[t].pc = "word"
  /\ ~WholeWord(t)
  /\ buffer_'     = [buffer_     EXCEPT ![c] = Word(c)]
  /\ buffer_pos_' = [buffer_pos_ EXCEPT ![c] = 0]
  /\ Goto(t, "serve")
  /\ UNCHANGED <<state_, initial_state_, material_>>

\* Mutant: the byte is served and stays in the buffer as well.
ServeUncounted(t, c) ==
  /\ call[t].pc = "serve"
  /\ Remaining(t) > 0
  /\ Put(t, <<buffer_[c][buffer_pos_[c]]>>, "serve")
  /\ UNCHANGED members

\* The rest of phase 3: one byte of the buffered word.
ServeByte(t, c) ==
  /\ call[t].pc = "serve"
  /\ Remaining(t) > 0
  /\ Put(t, <<buffer_[c][buffer_pos_[c]]>>, "serve")
  /\ buffer_pos_' = [buffer_pos_ EXCEPT ![c] = @ + 1]
  /\ UNCHANGED <<state_, initial_state_, buffer_, material_>>

\* The statements of reset().
Rewind(t, c) ==
  /\ call[t].pc = "rewind"
  /\ state_' = [state_ EXCEPT ![c] = initial_state_[c]]
  /\ Goto(t, "forget")
  /\ UNCHANGED <<initial_state_, buffer_, buffer_pos_, material_>>

Forget(t, c) ==
  /\ call[t].pc = "forget"
  /\ buffer_pos_' = [buffer_pos_ EXCEPT ![c] = 8]
  /\ Goto(t, "zero")
  /\ UNCHANGED <<state_, initial_state_, buffer_, material_>>

ZeroLeftover(t, c) ==
  /\ call[t].pc = "zero"
  /\ buffer_' = [buffer_ EXCEPT ![c] = ZeroBuffer]
  /\ Goto(t, "fill")
  /\ UNCHANGED <<state_, initial_state_, buffer_pos_, material_>>

Statement(t, c) ==
  /\ \/ DrainByte(t, c) \/ Drained(t, c) \/ Advance(t, c)
     \/ TakeWord(t, c)  \/ KeepWord(t, c) \/ ServeByte(t, c)
     \/ Rewind(t, c)    \/ Forget(t, c)  \/ ZeroLeftover(t, c)
  /\ UNCHANGED <<live, blob, ret, entry>>

\* The call is over, and so is the lock on the object.
Return(t, c) ==
  /\ call[t].pc \in {"fill", "serve"}
  /\ Remaining(t) = 0
  /\ ret' = Answer(call[t].op, c, "ok", call[t].output)
  /\ call' = [call EXCEPT ![t] = NoCall]
  /\ UNCHANGED <<live, members, blob, entry>>

\* A thread goes on with its call.
Proceed(t) ==
  \E c \in Ciphers : /\ call[t].cipher = c
                     /\ Statement(t, c) \/ Return(t, c)

-----------------------------------------------------------------------------

CallsNext ==
  \/ \E t \in Threads :
       \/ Proceed(t)
       \/ \E c \in Ciphers :
            \/ \E size \in GenerateSizes : Enter(t, c, "generate", size, "drain")
            \/ Enter(t, c, "next", 8, "fill")
            \/ Enter(t, c, "reset", 0, "rewind")
  \/ \E c \in Ciphers, m \in Arguments :
       Construct(c, m) /\ UNCHANGED <<call, entry>>

CallsSpec == CallsInit /\ [][CallsNext]_callVars

\* The scheduler runs every thread; no statement of a call waits for anything.
FairCallsSpec == CallsSpec /\ \A t \in Threads : WF_callVars(Proceed(t))

=============================================================================
