------------------------ MODULE SerializationProperties ------------------------
(***************************************************************************)
(* What must hold of the two export formats, for messages that arrive      *)
(* intact, damaged, or rewritten by another program.                       *)
(***************************************************************************)
EXTENDS Serialization

\* What goes into a message: States, bytes, numbers and tokens.
ASSUME InputAssumption ==
  /\ VERSION \in Uint32 /\ Exports \subseteq State
  /\ Overwrites \subseteq Byte /\ Numbers \subseteq Uint32
  /\ \A t \in Notes : t[1] = "number" => t[2] \in Uint32
  /\ MaxEdits \in Nat

\* No value of a foreign entry is one of the quoted names.
ASSUME NotesAssumption ==
  \A name \in JsonNames : Quoted(name) \notin Notes

\* The messages of either format, the States behind them and the answers.
TypeOK ==
  /\ origin \in Exports
  /\ \/ Binary /\ message.data \in Frame
     \/ Text /\ message.data \in Seq(Token)
  /\ edits \in Seq(EditKinds) /\ Len(edits) <= MaxEdits
  /\ answer.outcome = "ok" => answer.state \in State

\* An intact export of either format is accepted and gives back the State it
\* was made from, field by field.
IntactAccepted ==
  edits = <<>> => answer \in {NoAnswer, Accepted(origin)}

\* Among the edits and States of a run, bytes damaged, a binary export torn
\* between two States, a text with lost, rewritten, reordered or repeated
\* entries: what is accepted is a State that somebody exported, never a mixture.
\* It cannot hold for all: nine words have more values than a checksum of one.
NothingForged == answer.outcome = "ok" => answer.state \in Exports

\* A frame is accepted only if it is, byte for byte, the export of the State it
\* is read as: no byte of it is ignored.
Canonical ==
  Binary /\ answer.outcome = "ok" =>
    serialize_binary(answer.state) = message.data

\* A text that another program has written anew, with its entries in another
\* order or with foreign entries, is still accepted and means the same State.
\* (NotesAssumption: the entries added here have none of the quoted names as
\* their values.)
RewritingTolerated ==
  Text /\ ToSet(edits) \subseteq {"reorder", "annotate"} =>
    answer \in {NoAnswer, Accepted(origin)}

\* One edit is never believed: a damaged byte of a frame, or, at the end of
\* whatever other programs rightly did to a text, a lost token, a rewritten
\* number or a repeated entry, is refused, or it changes nothing.
OneEditHarmless ==
  /\ edits # <<>> /\ Last(edits) # "tear"
  /\ ToSet(Front(edits)) \subseteq {"reorder", "annotate"}
  => answer \in {NoAnswer, Refused, Accepted(origin)}

\* serialization.hpp: deserialize_json() throws on a parse error.  A text that
\* has lost a token, and nothing else, is no JSON text any more.
MalformedRefused ==
  edits = <<"lose">> => answer \in {NoAnswer, Refused}

=============================================================================
