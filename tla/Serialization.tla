----------------------------- MODULE Serialization -----------------------------
(***************************************************************************)
(* An exported message on its way to an import.  The formats are those of  *)
(* module Formats; what happens to a message on the way (Overwrite ..      *)
(* AddLast) is the environment.                                            *)
(***************************************************************************)
EXTENDS Formats

CONSTANTS Exports,      \* the States that are exported
          Overwrites,   \* the bytes a damaged medium leaves
          Numbers,      \* the numbers a text may be edited to
          Notes,        \* tokens of the values of foreign entries
          MaxEdits      \* bound: edits of one message

VARIABLES message,  \* what is in transit: its format and its data
          origin,   \* the State it was made from
          edits,    \* the kinds of edits it went through
          answer    \* what the last import gave

vars == <<message, origin, edits, answer>>

\* The tokens of a text: an export's, and those of foreign entries.
Token ==
  {"punctuation"} \X {"{", "}", ":", ","}
    \cup {"string"} \X (JsonNames \cup {"note"})
    \cup {"number"} \X Uint32
    \cup Notes

NoAnswer == [outcome |-> "none"]

EditKinds ==
  {"overwrite", "tear", "lose", "rewrite", "reorder", "annotate", "duplicate"}

Send(format, data, st) ==
  /\ message' = [format |-> format, data |-> data]
  /\ origin' = st
  /\ edits' = <<>>
  /\ answer' = NoAnswer

Init ==
  \E st \in Exports :
    /\ message = [format |-> "binary", data |-> serialize_binary(st)]
    /\ origin = st
    /\ edits = <<>>
    /\ answer = NoAnswer

ExportBinary(st) == Send("binary", serialize_binary(st), st)

ExportJson(st) == Send("json", serialize_json(st), st)

Binary == message.format = "binary"

Text == message.format = "json"

Edit(kind, data) ==
  /\ answer = NoAnswer
  /\ Len(edits) < MaxEdits
  /\ message' = [message EXCEPT !.data = data]
  /\ edits' = Append(edits, kind)
  /\ UNCHANGED <<origin, answer>>

\* One byte of a binary message is damaged.
Overwrite(k, b) ==
  /\ Binary
  /\ Edit("overwrite", [message.data EXCEPT ![k] = b])

\* An export is cut off after k bytes and lands on top of an earlier one.
Tear(k, earlier) ==
  /\ Binary
  /\ Edit("tear", [i \in 0..43 |-> IF i < k THEN message.data[i]
                                   ELSE serialize_binary(earlier)[i]])

\* A text loses a token.
Lose(i) ==
  /\ Text /\ i <= Len(message.data)
  /\ Edit("lose", RemoveAt(message.data, i))

\* A number of a text is rewritten.
Rewrite(i, v) ==
  /\ Text /\ i <= Len(message.data)
  /\ message.data[i][1] = "number"
  /\ Edit("rewrite", ReplaceAt(message.data, i, Number(v)))

\* Another program writes the entries of an export in another order: entries k
\* and l change places.
Reorder(k, l) ==
  /\ Text /\ k < l
  /\ {"lose", "annotate", "duplicate"} \cap ToSet(edits) = {}
  /\ Edit("reorder",
          [i \in DOMAIN message.data |->
             CASE i \in 4 * k - 2 .. 4 * k -> message.data[i + 4 * (l - k)]
               [] i \in 4 * l - 2 .. 4 * l -> message.data[i - 4 * (l - k)]
               [] OTHER -> message.data[i]])

\* A program adds an entry in front of the others, or behind them.
AddFirst(kind, name, value) ==
  /\ Text /\ message.data # <<>>
  /\ Edit(kind, <<Head(message.data)>> \o EntryOf(name, value) \o <<Comma>>
                  \o Tail(message.data))

AddLast(kind, name, value) ==
  /\ Text /\ message.data # <<>>
  /\ Edit(kind, Front(message.data) \o <<Comma>> \o EntryOf(name, value)
                  \o <<Last(message.data)>>)

\* import_state() or import_state_json().
Import ==
  /\ answer = NoAnswer
  /\ answer' = IF Binary
               THEN deserialize_binary(message.data)
               ELSE deserialize_json(message.data)
  /\ UNCHANGED <<message, origin, edits>>

Next ==
  \/ \E st \in Exports : ExportBinary(st) \/ ExportJson(st)
  \/ \E k \in 0..43 : \/ \E b \in Overwrites : Overwrite(k, b)
                      \/ \E st \in Exports : Tear(k, st)
  \/ \E i \in 1..45 : Lose(i) \/ \E v \in Numbers : Rewrite(i, v)
  \/ \E k, l \in 1..11 : Reorder(k, l)
  \/ \E t \in Notes : \/ AddFirst("annotate", "note", t)
                      \/ AddLast("annotate", "note", t)
  \/ \E v \in Numbers, name \in JsonNames :
       \/ AddFirst("duplicate", name, Number(v))
       \/ AddLast("duplicate", name, Number(v))
  \/ Import

Spec == Init /\ [][Next]_vars

=============================================================================
