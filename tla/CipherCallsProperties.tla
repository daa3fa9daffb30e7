------------------------ MODULE CipherCallsProperties ------------------------
(***************************************************************************)
(* What must hold of the calls of module CipherCalls, and the mapping      *)
(* under which they implement the one-step calls of module Cipher.         *)
(***************************************************************************)
EXTENDS CipherCalls

Pcs == {"idle", "drain", "fill", "word", "serve", "rewind", "forget", "zero"}

\* generate() and next() write nothing beyond the end of the span they were
\* given, and the read position never passes the end of buffer_.
WithinBounds ==
  /\ buffer_pos_ \in [Ciphers -> 0..8]
  /\ \A t \in Threads : /\ call[t].pc \in Pcs
                        /\ Len(call[t].output) <= call[t].size

\* The byte about to be read from buffer_ exists and belongs to a word that
\* the object's current stream produced, however the threads interleave.
ReadsOwnWord ==
  \A t \in Threads, c \in Ciphers :
    Uses(t, c) /\ call[t].pc = "serve" /\ Remaining(t) > 0 =>
      /\ buffer_pos_[c] < 8
      /\ buffer_[c] = Word(c)

\* How many statements a call may still run: at most one for each byte that is
\* missing from its output, and those that put no byte there.
Ahead ==
  [idle |-> 0, serve |-> 0, word |-> 1, fill |-> 2, drain |-> 3,
   zero |-> 3, forget |-> 4, rewind |-> 5]

StatementsLeft(t) == Remaining(t) + Ahead[call[t].pc]

\* No turn of a loop is for nothing: each statement of generate(), next() and
\* reset() brings the return of its call nearer, whatever the read position it
\* started from, and however many bytes were asked for.
ReturnNearer ==
  [][\A t \in Threads : Proceed(t) =>
       \/ call'[t] = NoCall
       \/ StatementsLeft(t)' \in 0 .. StatementsLeft(t) - 1]_callVars

\* Every call returns: the loops end for every size and every read position.
EveryCallReturns ==
  \A t \in Threads : call[t].pc # "idle" ~> call[t].pc = "idle"

-----------------------------------------------------------------------------

\* An object as the next caller will find it: unchanged while a call runs.
Settled(c) == IF Free(c) THEN Written(c) ELSE entry[c]

Atomic == INSTANCE CipherProperties WITH
            state_      <- [c \in Ciphers |-> Settled(c).state_],
            buffer_     <- [c \in Ciphers |-> Settled(c).buffer_],
            buffer_pos_ <- [c \in Ciphers |-> Settled(c).buffer_pos_]

\* The calls of threads that keep to the contract of cipher.hpp can be put in
\* an order, that of their returns, in which each is one step of Cipher.
ImplementsAtomicCalls == Atomic!Spec

\* The statements of calls, interleaved as they are, serve each object's
\* keystream: every call that returns, and no other step, hands out the bytes
\* that come next, each of them once.
ServesKeystream == Atomic!ImplementsKeystream

=============================================================================
