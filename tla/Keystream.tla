------------------------------ MODULE Keystream ------------------------------
(***************************************************************************)
(* What a client of the library is promised.  A handle is attached to a    *)
(* keyed stream, an endless sequence of bytes numbered from 0 and made of  *)
(* words of 8 bytes, or to no stream at all (Void: a moved-from, wiped or  *)
(* destroyed object).  Since it was last positioned, a handle has begun    *)
(* the words 0 .. begun-1 and owes its client the bytes in held, those of  *)
(* the begun words it has not handed out yet.                              *)
(*                                                                         *)
(*   - every byte is handed out at most once between two repositionings;   *)
(*   - generate() hands out the lowest bytes still owed or not begun, in   *)
(*     ascending order;                                                    *)
(*   - next() hands out the first word not begun, whatever is owed;        *)
(*   - a handle attached to no stream never hands out a keyed byte.        *)
(*                                                                         *)
(* Nothing here says how bytes are buffered: that is module Cipher.        *)
(***************************************************************************)
EXTENDS Naturals, Sequences

CONSTANTS Handles,   \* the objects a client may hold
          Streams,   \* the keyed streams, one per effective key material
          Void       \* "attached to no stream"

VARIABLES stream,    \* the stream each handle reads, or Void
          home,      \* the stream reset() returns to, or Void
          begun,     \* number of words begun since the last positioning
          held,      \* positions of the begun words not handed out yet
          snapshot,  \* the last exported position, <<>> if there is none
          out        \* the bytes the last call handed out

kvars == <<stream, home, begun, held, snapshot, out>>

StreamByte(s, p) == <<s, p>>

Attach(h, s, back, w) ==
  /\ stream' = [stream EXCEPT ![h] = s]
  /\ home'   = [home   EXCEPT ![h] = back]
  /\ begun'  = [begun  EXCEPT ![h] = w]
  /\ held'   = [held   EXCEPT ![h] = {}]

Silent == out' = <<>>

-----------------------------------------------------------------------------

Init ==
  /\ stream = [h \in Handles |-> Void]
  /\ home   = [h \in Handles |-> Void]
  /\ begun  = [h \in Handles |-> 0]
  /\ held   = [h \in Handles |-> {}]
  /\ snapshot = <<>>
  /\ out = <<>>

\* A successful construction or reseed: byte 0 of stream s is next.
Start(h) ==
  /\ \E s \in Streams : Attach(h, s, s, 0)
  /\ UNCHANGED snapshot /\ Silent

\* Destruction, or a reseed that failed half way: nothing keyed is left.
Drop(h) ==
  /\ Attach(h, Void, Void, 0)
  /\ UNCHANGED snapshot /\ Silent

Rewind(h) ==
  /\ Attach(h, home[h], home[h], 0)
  /\ UNCHANGED snapshot /\ Silent

\* A snapshot records the words begun: the bytes still owed are not in it.
Save(h) ==
  /\ snapshot' = <<stream[h], begun[h]>>
  /\ UNCHANGED <<stream, home, begun, held>> /\ Silent

Restore(h) ==
  /\ snapshot # <<>>
  /\ Attach(h, snapshot[1], home[h], snapshot[2])
  /\ UNCHANGED snapshot /\ Silent

\* The stream, with what it still owes, changes hands; the source keeps nothing.
Move(to, from) ==
  /\ to # from
  /\ stream' = [stream EXCEPT ![to] = stream[from], ![from] = Void]
  /\ home'   = [home   EXCEPT ![to] = home[from],   ![from] = Void]
  /\ begun'  = [begun  EXCEPT ![to] = begun[from],  ![from] = 0]
  /\ held'   = [held   EXCEPT ![to] = held[from],   ![from] = {}]
  /\ UNCHANGED snapshot /\ Silent

\* A call that throws and leaves every handle as it was.
Refuse == UNCHANGED <<stream, home, begun, held, snapshot>> /\ Silent

-----------------------------------------------------------------------------

\* The positions of a sequence of bytes.
Positions(bytes) == {bytes[i][2] : i \in DOMAIN bytes}

\* generate(): out' lists, in ascending order, the lowest positions that are
\* owed or not begun; words are begun only as far as those positions need.
Serve(h) ==
  LET frontier == 8 * begun[h]
      served   == Positions(out')
  IN  /\ stream[h] \in Streams
      /\ \A i \in DOMAIN out' :
           /\ out'[i] = StreamByte(stream[h], out'[i][2])
           /\ out'[i][2] \in held[h] \/ out'[i][2] >= frontier
      /\ \A i, j \in DOMAIN out' : i < j => out'[i][2] < out'[j][2]
      /\ \A p \in held[h] \ served : \A q \in served : q < p
      /\ \A q \in served : \A p \in frontier .. q : p \in served
      /\ \E w \in {begun[h]} \cup {(q \div 8) + 1 : q \in served} :
           /\ w >= begun[h]
           /\ \A q \in served : q < 8 * w
           /\ begun' = [begun EXCEPT ![h] = w]
           /\ held'  = [held EXCEPT
                          ![h] = (@ \cup (frontier .. 8 * w - 1)) \ served]
      /\ UNCHANGED <<stream, home, snapshot>>

\* next(): the first word not begun, least significant byte first.
ServeWord(h) ==
  /\ stream[h] \in Streams
  /\ out' = [i \in 1..8 |-> StreamByte(stream[h], 8 * begun[h] + i - 1)]
  /\ begun' = [begun EXCEPT ![h] = @ + 1]
  /\ UNCHANGED <<stream, home, held, snapshot>>

\* Reading from a handle attached to no stream: anything but a keyed byte.
ServeVoid(h) ==
  /\ stream[h] = Void
  /\ \A i \in DOMAIN out' : out'[i][1] \notin Streams
  /\ UNCHANGED <<stream, home, begun, held, snapshot>>

Next ==
  \/ Refuse
  \/ \E h \in Handles : \/ Start(h) \/ Drop(h) \/ Rewind(h)
                        \/ Save(h)  \/ Restore(h)
                        \/ Serve(h) \/ ServeWord(h) \/ ServeVoid(h)
  \/ \E to, from \in Handles : Move(to, from)

Spec == Init /\ [][Next]_kvars

=============================================================================
