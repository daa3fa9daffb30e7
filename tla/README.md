# EAHCM: models and proofs

TLA+ models of the C++ library in this repository: a stream cipher whose
keystream comes from a four-dimensional chaotic map over 32-bit words. Paths
below are relative to the repository root.

## The system

The library is passive. It starts no thread, takes no lock and calls nothing
back; `include/eahcm/cipher.hpp` asks its users to keep one object per thread or
to synchronise themselves. Under that contract a call on one object is one step
for everybody else: `Cipher` takes it so, and `CipherCalls` shows it statement by
statement. What interleaves is the calls of clients on their objects, the
exceptions some of them throw, and what happens to an exported message before it
is imported. No statement waits for anything; what must eventually happen is that
the calls return.

| component | code | state it keeps | operations |
|---|---|---|---|
| Cipher objects | `src/cipher.cpp`, `include/eahcm/cipher.hpp` | `state_`, `initial_state_`, `buffer_`, `buffer_pos_`, key, nonce and info | construct, destroy, move, `generate`, `next`, `reset`, `reseed`, export, import |
| Chaotic state | `include/eahcm/state.hpp`, `arithmetic.hpp`, `types.hpp` | `State`: x, y, z, w, four parameters, counter | `make_state`, `step`, `drift_parameters`, `extract`, `warmup` |
| Machine words | `include/eahcm/bit_ops.hpp`, `arithmetic.hpp` | none | wrapping addition, rotation, the product in `L` in two builds |
| Serialization | `src/serialization.cpp`, `serialization.hpp` | none | binary and JSON export and import, CRC-32 |
| Key schedule | `src/key_schedule.cpp`, `key_schedule.hpp` | none | HKDF over HMAC-SHA3-256, `get_init_params`, `derive_state`, `derive_state_with_mixing` |
| HMAC-SHA3-256 | OpenSSL | external | may fail |

How they interact: a `Cipher` calls the key schedule when it is constructed or
reseeded and keeps the State it returns twice, once to run and once for
`reset()`. Every word of keystream is one `step()` and one `extract()`.
`generate()` cuts words into bytes and keeps the unused bytes of the last word
in `buffer_`. Exports contain `state_` alone: neither the buffer nor the State
`reset()` returns to nor the key material.

What is hard about it:

- four members have to stay in step through every call that repositions an
  object (`reset`, `reseed`, imports, moves), and `next()` and `generate()` share
  the State but not the buffer;
- `reseed()` wipes first and may throw afterwards, in the middle of its copies;
- moved-from objects stay callable;
- an import can come from an object with another key, in the middle of a word,
  and its values are not validated beyond the checksum;
- the map is coupled: each equation reads values another one overwrites, the
  drift reads the values before the step but tests the counter after it, and the
  counter wraps;
- two builds compute the same product in different ways;
- nonce and salt are put together without a separator, and the result is an HMAC
  key, which is padded with zeros and whose length is narrowed to `int`;
- parameters are clamped twice, and clamping is not idempotent;
- between two statements of `generate()` or `reset()` the members do not fit
  together, which only the clients' locking hides;
- a JSON text is searched, not parsed.

What makes each component correct: a Cipher serves every byte of its keystream
in order and at most once until it is repositioned, and no keyed byte when it has
no key; a chaotic State keeps its parameters in the chaotic regime and never
closes a short cycle; both products agree; different clients get different seeds;
what an import accepts is what was exported.

`PROJECT.json` lists the hazards one by one with the properties that cover them.

## The modules

| module | what it is |
|---|---|
| `Keystream` | the promise to a client: handles on endless byte streams, words begun, bytes owed |
| `Cipher`, `CipherProperties`, `MCCipher` | every operation of the class on several objects, exceptions; properties and the mapping to `Keystream`; the instances TLC checks |
| `CipherProofs` | theorems about `Cipher`, and that it implements `Keystream` |
| `CipherCalls`, `CipherCallsProperties` | `generate()`, `next()`, `reset()` statement by statement in several threads; the mapping to `Cipher` |
| `CipherCallsProofs` | theorems about these loops: they stay in bounds, end, and implement `Cipher` |
| `ChaoticCore` | arithmetic, State, `make_state`, `step`, `extract` over abstract words |
| `WordLaws`, `WordLawsProofs` | the laws asked of words and constants, and what they say of seeds |
| `ChaoticState`, `ChaoticProperties`, `MCChaotic` | a State that is seeded, imported and stepped; properties; the 10-bit instance |
| `NaturalWords`, `ChaoticBuilds` | words of W bits as naturals, both products of `L`; what the two builds owe each other |
| `ChaoticProofs` | theorems about the State's life; that machine words obey `WordLaws`, and that both builds compute the same |
| `Numbers` | induction without operator parameters, recursive functions, division with remainder |
| `ByteWords`, `Constants32`, `ReferenceVectors` | 32-bit words as bytes; the constants; replay of `tests/vectors` |
| `KeySchedule`, `KeyScheduleProperties`, `MCKeySchedule` | HKDF and the derivations; properties; the instances TLC checks |
| `KeyScheduleProofs` | theorems about them |
| `Formats` | both formats: what is written, and what is made of what is read |
| `Serialization`, `SerializationProperties` | a message on its way from export to import; properties |
| `Crc32`, `MCSerialization` | the exact CRC-32 and the instance TLC checks |
| `SerializationProofs` | theorems about both formats, for any checksum; what this CRC-32 detects, which gives them for the checksum of the code |
| `Session`, `MCSession` | the library put together: `Cipher` with the data of `ChaoticCore` and `Formats`; the instance TLC checks |
| `SessionProofs` | theorems about it: the data are what `Cipher` says they are |

How they fit together: `CipherCalls` and `Session` implement `Cipher`, the one with its
statements and the other with its data; `Cipher` implements `Keystream`. `Cipher`
takes a derived State as an injective function of the key material. What that is
worth, `DerivationsApart` of `KeySchedule` says: exactly which key material shares a
seed. Nonces of one size below 4 GiB never do (`EqualSizesApart`), which is the case
`Cipher` stands for; nonces of different sizes may (`KeyScheduleNonces` below, and the
smaller disagreements). `KeySchedule`, `ChaoticState` and `Session`
share `ChaoticCore` and `WordLaws`; `Serialization` and `Session` share `Formats`.

### Cipher

The variables of `Cipher` are the members of the class, with their names, as
functions over the places where a client keeps objects; `live` is the set of
places where an object exists. A State is abstracted to a place on a trajectory:
the effective key material (after `build_info()`'s default for an empty info) and
the number of steps since warm-up. Byte `i` of the word extracted after `n` steps
is byte `8(n-1)+i` of that key's stream, so that a byte served out of place, twice
or from the wrong key is a different value. The all-zero State of wiped objects
has a trajectory of its own (`ZeroSeed`), and zeroed buffer bytes are on no
trajectory.

Each public operation is one action: `Construct`, `Destroy`, `MoveConstruct`,
`MoveAssign`, `Generate`, `NextWord`, `Reset`, `Reseed`, `ExportState`,
`ImportState`. Calls that throw are actions of their own: `ConstructThrows` and
`ReseedWithoutKey` (an empty key, checked before anything is written),
`ReseedThrows` (an exception at any of the three copies or in the derivation,
after the wipe), `ImportThrows` (deserialization fails before any assignment).
`generate(size_t)` allocates its result before it calls the other `generate()`, so
that running out of memory there leaves no trace and is no action.
A single value `blob` stands for the last export, which any object may import.
It carries one history field, the byte `generate(1)` would have returned when the
export was made; no code reads it.

`Keystream` knows nothing of buffers. The mapping counts the words begun, takes
as owed the positions in `buffer_` from `buffer_pos_` on, and forgets the rest.
`Serve` lets a call return any number of bytes in order, `ServeWord` the next
unbegun word, and `ServeVoid` anything except keyed bytes.

### Threads

`CipherCalls` adds to the members of `Cipher` one program counter per thread, with
the local variables of the call under way: its size and what it has put into
`output` so far. Each action is a statement or one turn of a loop: `DrainByte` and
`Drained` (phase 1), `Advance` (`step` in `next()`), `TakeWord` (phase 2, and
`next()` itself), `KeepWord` and `ServeByte` (phase 3), `Rewind`, `Forget` and
`ZeroLeftover` (`reset()`). The contract of `cipher.hpp` is the guard `Free` of
`Enter`: no other thread is in a call on this object. Construction is one step, as
nobody else can have the object yet; the other operations are those of `Cipher`
and are left out here.

The mapping to `Cipher` shows a member, while a call runs, as the call found it
(`entry`, a history variable), and as it is otherwise (`Settled`). `Return` is then
the one step of `Cipher` that the call is, and every other statement none.

### Key schedule

One call after another runs through `Extract`, one `Expand` for each block of
output, `Expanded`, `Parse`, `MakeState`, the turns of both step loops (`Step`) and
`Mix`; it returns, or throws because of its arguments (`CallRefused`), of the
length asked for (`LengthRefused`) or because HMAC returned null (`HmacFails`). A
byte string is a sequence of symbols, the suffixes of `build_info()` being one
symbol each, which does no harm as they have the same length and differ. A digest
is a term that holds the key and the data it was made of: equal digests have
equal ones. HMAC hashes a key that is longer than its block and pads the others with
zeros (`HmacKey`, `Padded`); what the code does before is to narrow the key's length
(`IntOf`). Which words a digest
contains is left open. `drawn` is a history variable with the seeds of the calls
that returned.

### Chaotic state

`ChaoticCore` takes the operations on words as constant operators. One text is
thus checked on 10-bit words over long runs, replayed on exact 32-bit words, and
proved about for any words that obey `WordLaws`. The actions of `ChaoticState` are
`Seed` (a State from `make_state`), `Import` (any State: nothing validates it) and
`Step`. `base` and `age` remember which State was loaded and how many steps ago.

### Serialization

A 32-bit word is its four bytes; a frame is 44 bytes; a JSON text is its sequence
of tokens. The reader is what the code does: the first place where the quoted name
occurs, the first colon behind it, a number behind that. Between export and import
a message may lose or change bytes, be cut off on top of an older export, lose a
token, have numbers rewritten, entries reordered, repeated or added. The quoted
strings that are added contain no colon. Numbers with trailing garbage ("12abc",
which `from_chars` accepts) are not told apart from numbers.

### Session

`Cipher` speaks of places on trajectories and of positions in streams. `Session` has
the States, buffers and messages themselves: `state_` and `initial_state_` are nine
words each, advanced by `step` of `ChaoticCore`; `buffer_` is eight bytes of an
extracted word; an export is a frame or a text of `Formats`, of which a byte may be
damaged before it is imported. Each action is an action of `Cipher`, which gives the
control (lifetimes, read positions, key material, exceptions), together with the
assignments to the data. The places of `Cipher` remain as history variables: no
assignment to the data reads them, and of the guards only the bound `MaxWords` does.
`Trajectory` and `Keystream` (an operator of `Session`) say what places and positions
stand for, so that the properties compare both accounts after every call.

## What is checked

| run | instance | shows |
|---|---|---|
| `CipherObjects` | two objects, two keys (both symmetric) and the empty key, sizes 4 and 8, one word per trajectory | type, buffer in step with State, imports do not rewind, `reset()` matches the key material, exceptions leave no mixture, the objects implement `Keystream` |
| `CipherCalls` | two threads, two objects, sizes 3 and 13, two words | calls behave as one step of `Cipher`, and the statements themselves serve the keystreams of `Keystream`; calls stay in the span and the buffer, serve their own word, come nearer to their return with each statement, and return |
| `Chaotic` | 10-bit words, four seeds, five imported States, 1100 steps | regime, no return of the counter before it wraps, drift on schedule through the wrap, both products agree |
| `ReferenceVectors` | 32-bit words, five seeds, 256 steps | equal to the vectors of evolution, drift, extraction and initialization |
| `KeySchedule` | two calls, of any two out of 192 clients and of a few longer calls | exactly which clients share a seed, at equal and at different sizes; every call returns |
| `KeyScheduleStates` | one call: lengths from none to 33 blocks; 7-bit words, every word mixed into every variable | numbering of blocks, double clamping, no absorbing variable after mixing, release just after a drift, every step brings the end nearer |
| `Serialization` | two States, both formats, up to two edits | intact messages accepted, nothing forged, one edit never believed as another State, no frame with an ignored byte, rewriting tolerated |
| `Session` | two objects, a key and the empty key, sizes 3 and 8, two words between the objects, 10-bit words, both formats, two kinds of damage | States, buffers, served bytes and messages are the ones `Cipher` says |

Four more runs each find a violation, of something the repository says and the
code does not do:

- `CipherImportExact`: `MANUAL.md` promises that an importer continues with exactly
  the bytes of the exporter; leftover bytes are not exported.
- `CipherLeftover`: a comment in `cipher.cpp` says that `buffer_pos_ < 8` means there
  are leftover bytes; after a reseed that threw, the buffer is zeroed and the
  position is not.
- `KeyScheduleNonces`: `MANUAL.md` says that nonces make identical keys produce
  different keystreams; nonces that differ only in trailing zero bytes do not, since
  HMAC pads its key, the nonce, with zeros.
- `SerializationLoose`: `serialization.hpp` says that a parse error throws; a text
  that lost a brace or a comma is accepted.

Smaller disagreements, met while reading and without a run: nothing throws the
`StateError` of `exceptions.hpp`, and nothing checks the nonce length that it names
as a reason for `KeyError`; a nonce of 4 GiB or more enters the
seed by its size modulo 4 GiB only, as `sha3_256_hmac()` narrows the size to `int`, so that
two such nonces with a common beginning, or one and that beginning, share a keystream
(`DerivationsApart` says exactly when); the guard of `F` acts on 0 and 0xFFFFFFFF, not on
0x80000000 as `arithmetic.hpp` says; `R` is linear over bits, and eliminating the
images of single bits shows that it has full rank, so that it is invertible although
`arithmetic.hpp` says it is not.

### Fairness

Only the two runs with a property of progress assume any. `FairCallsSpec` is weakly
fair to the statements of each thread, `FairSpec` of `KeySchedule` to the statements
of the call: the scheduler runs the thread that made the call. No statement waits
for another thread, so weak fairness is enough, and nothing is assumed of clients:
they need not make calls, and calls need not be free of exceptions.

### Bounds, and why they are enough

- `MaxWords` bounds the words drawn from one trajectory. `generate()` depends on
  the place in the trajectory only through the next word, and on the request only
  through its size modulo 8 and whether it exceeds the leftover.
- `CipherObjects`: two objects are what moves and exports need. One word each and
  sizes 4 and 8 are a whole word, a partial one, and leftovers that are drained to the
  last byte: a full, a partial and an empty buffer in every place it can matter. With
  one word in each stream, `next()` never passes leftover bytes here and no call
  needs a second word; both happen in `CipherCalls` (`ServesKeystream`) and in
  `Session` (`ServesExtractedBytes`), and `Refinement` is about any number of words.
- `CipherCalls`: the bound counts the words a call draws, not the bytes it drains. With
  sizes 3 and 13 and two words, each of the three phases is run empty and not: 3 from
  an empty buffer is phase 3 alone, from five leftover bytes phase 1 alone, and from
  two (after 3 and 3) phases 1 and 3; 13 from an empty buffer is phases 2 and 3, and
  from five leftover bytes phases 1 and 2, which end with the last whole word. Only all
  three in one call need a third word and are left to the theorems. `next()` is called past
  leftover bytes, which are drained after it. With two threads and two objects there is another call on the same object to keep out and
  one on the other object to interleave with.
- 10 bits keep the ten top bits of each constant of `constants.hpp`, so the
  regime, the remainder and the sentinels keep their relative places; the drift
  interval keeps its 64 steps. 1100 steps are more than the 1024 after which the
  counter wraps. The counter of the imported States is 0, 1, 63, 1000 or 1023:
  on both sides of a drift and of the wrap.
- `KeySchedule`: `INT_MAX` is 40 bytes instead of 2 GiB, so that nonces of 45 and 83
  bytes have lengths that become negative and that wrap, the second one to the nonce of
  one byte; HMAC's block is 36 bytes instead of 136, below `INT_MAX` as in the code, and
  a nonce of 36 bytes and the same with a zero byte behind it lie on both sides of it. The nonces, salts and
  infos are chosen to collide where they can: trailing zeros, a nonce that continues
  as a salt, the default info given explicitly, an info that ends like a derived
  one. `DerivationsApart` relates two calls, so two draws are enough. Its words
  only count, as their values do not matter there.
- `KeyScheduleStates`: 7-bit words keep seven top bits of each constant; the numbers
  of steps are those of the code. The number of a block has five bits instead of
  eight, and the limit is 31 blocks: what matters is that it is the last one the
  number can hold. The 128 hashes, each word in
  all four variables, contain each variable and its complement. One draw is enough
  for properties of one call.
- `Session`: the derived State has counter 63, so that the first step is a step with a
  drift and the second one without. `MCExplored` allows two words, in one stream or one
  in each object's. Size 3 leaves five bytes, and size 8 after it is a call over leftover
  bytes and a new word; `next()` after size 3 passes leftover bytes, and size 3 after that
  drains them. Objects go on after a reseed that failed and an import that was refused;
  from the all-zero State, which is not in the chaotic regime, they go one step.
  `MCView` leaves out what no guard, no property and no assignment to anything else
  reads: the stored key material, the byte an exporter still owed, and the name and
  outcome of the last call; two states that differ in those alone have the same
  successors up to those and satisfy the same properties. The checksum is a sum of
  the bytes that ten bits reach, which detects the two kinds of damage (a byte of `x`,
  a byte of the checksum). Any number of objects, words and calls is what the theorems
  of `SessionProofs` are about.
- 256 steps are the warm-up of the key schedule, and cross four drifts.
- Two edits are the fewest that could make a forged text agree with itself: a value
  and its checksum.

## What is proved

All theorems hold for every value of the constants under the assumptions that the
modules name.

- `CipherProofs`: `TypeCorrect`, `HomeCorrect`, `BufferCorrect`, `ImportCorrect`,
  `ExceptionSafety`. The first four are invariants. `BufferInStep` needs the type
  invariant (a position never beyond 8, so a drained buffer is not read again).
  `ImportNeverRewinds` is not inductive: its strengthening `ExportNotAhead` says that
  the byte owed by an export is on the exported stream and not beyond the exported
  place, which in turn rests on `BufferInStep` when the export was made.
  `ExceptionSafety` goes through the four actions that throw: no object appears or goes,
  and either no member changes or one object is left without any keyed stream.
  `Refinement`, the objects implement `Keystream`: every step is mapped to a step
  of `Keystream` or to a stutter under these invariants; the step of `generate()`
  rests on what the buffer owes (`BufferInStep`) and on what three phases put
  together serve.
- `CipherCallsProofs`: `WithinBoundsCorrect`, `ReadsOwnWordCorrect`,
  `ReturnNearerCorrect` and `CallsRefineCipher`, for any number of threads, objects
  and sizes. The invariant `CallsInv` says per program counter how many bytes are
  still to be served and where the read position is: phase 3 asks for fewer bytes
  than a word has; and that a running call is alone on its object, so that the
  steps of other threads leave all of this as it is.
  `ReturnNearer` is what can be proved of termination: `StatementsLeft`, a natural
  number, becomes smaller with every statement of a call that does not return.
  `CallsRefineCipher`, that `CipherCalls` implements `Cipher`, needs what no step of
  `Cipher` shows: `TraceInv` adds to `CallsInv`, per program counter, which bytes the
  call owes to what it found in its object (`Owed`), how many of them the output
  holds, and by how many leftover bytes and words the members have moved on
  (`Stands`). At `Return` the output is then the one owed and the members are those
  of the one step. `CallsServeKeystream` puts it together with `Refinement`: the
  statements of any threads that keep to the contract serve the keystreams of
  `Keystream`, so that the promise to clients reaches down to the single statement.
- `SessionProofs`: `DataCorrect`, `BytesCorrect` and `MessageCorrect`, that the data are
  what `Cipher` says, for any words that obey `WordLaws`, any number of objects, any
  sizes and any damage of one byte; and `LibraryCorrect`, with the CRC-32 of the
  source in place of any checksum, which adds that the bytes served, now bytes of
  words, come in the order of `Keystream` and none twice. None of the first three is
  inductive alone: the bytes served come from `state_` and `buffer_`, an import's State
  from the message. `DataInv` joins them with types and with `MessageInv`, which
  says that a message is an export of the State of the exporter, with one byte
  damaged at most; `TypeOK` of `Cipher` gives the positions. The lemma
  `FurtherOn` is about a trajectory: stepping `k` times from the State of a place gives
  the State `k` places on; `After` is defined by recursion, so it takes least
  numbers. Of the checksum it needs `ChecksumLaw`, words and `DetectsOneWord`, both of
  which `Crc32Suffices` proves of `crc32()`. That the bytes of a word make that word
  again (`BytesAssumption`) is `BytesAreLawful` of `ChaoticProofs` for words of up to 32
  bits, the code's among them; that `derive_state` gives words is `TypeCorrect` of
  `KeyScheduleProofs`.
- `WordLawsProofs`: `SeedSound`, a State from `make_state` is in the regime and has no
  absorbing variable, for any raw seed.
- `KeyScheduleProofs`: `TypeCorrect`, `DerivationsApartCorrect`, `BlocksNumberedCorrect`,
  `ClampedTwiceCorrect`, `MixedCorrect`, `ReleasedCorrect`, `EndNearerCorrect`.
  `DerivationsApart` is an equivalence, for nonces and salts of any sizes: a seed is
  shared exactly by derivations for the same purpose, key and context whose nonce
  and salt, put together and cut to their size modulo 4 GiB (`EffectiveSalt`), are one key
  of HMAC (`OneHmacKey`). It is strengthened by what each seed is: one block whose key
  is the extraction of its own call and whose data are its info and the number 1; a
  negative narrowed length never gets that far. The rest is what padding identifies
  (`PaddingExact`), that no salt and 32 zero bytes are one key, and that appending
  different suffixes gives different infos. `EqualSizesApart` adds that equally long
  nonces and salts below 4 GiB are one key only if they are equal.
  `BlocksNumbered` uses that 255 is less than 256; `ClampedTwice` that `PARAM_FLOOR`
  is no multiple of `DRIFT_MASK`; `ReleasedAtDrift` that both numbers of steps are
  multiples of 64 and that the counter counts them modulo the word size.
  `EndNearer` is about a natural number again, of the blocks and steps still due;
  that it is one needs to know which expansions are left (`TodoType`) and that no
  loop has gone beyond its limit (`StepsType`).
- `ChaoticProofs`: `TypeCorrect`, `RegimeCorrect`, `DriftCorrect`,
  `NoEarlyCycleCorrect`. `RegimeWithinOneInterval` is strengthened by
  `OutsideIsYoung`, a State outside the regime has not passed a multiple of 64 since
  it was loaded, and by `CounterCountsSteps`, the counter is the loaded counter plus
  the age modulo the word size; the second one alone gives `NoEarlyCycle`, which is about the counter: it says nothing of
  the variables, nor of what happens after 2^32 steps. `DriftsOnSchedule` is exact: the
  parameters are redrawn in the steps where the loaded counter and the age make a multiple
  of 64, from the variables before the step, and in no other, through any number of
  wraps. The laws
  used are those of a wrapping addition and a remainder; nothing is assumed of the
  product, the rotations or the exclusive or except that they yield words.
  `BothPathsAgree`: the split and the wide product are equal for every word size and
  all operands; it uses only division with remainder. `PathsAgreeCorrect` carries
  it over to every State of a run whose words are naturals.
  `WordsAreLawful` says that the assumptions about words are those a machine meets:
  unsigned numbers of `W` bits, with the sum that wraps, the remainder, the
  complement, both shifts, the rotation, the bitwise exclusive or and the product in
  `L`, obey the four laws of `WordLaws`, for every `W` from three on (the code shifts by
  three). `ConstantsAreLawful` adds the fifth, about the constants, for `W = 32` and the numbers of `constants.hpp`.
  The two follow from the definitions of `NaturalWords` alone, as does
  `BytesAreLawful`: four bytes lose no bit of a word of up to 32.
- `SerializationProofs`: `RoundTrip`, `OneSpelling` and `JsonRoundTrip`, about reading
  and writing. The binary ones follow from `FieldPlace`: the nine offsets read are the
  nine places written. For JSON the reader's three searches are followed through the
  text written: the quoted name occurs once, the first colon behind it is its own,
  and so is the number. `TypeCorrect`, `IntactCorrect`, `RewritingCorrect` and
  `CanonicalCorrect` are invariants of `Serialization`, for any checksum that yields
  words. They rest on `MessageInv`: the answer is the one for this message
  (`Current`); without edits the message is what was exported, and after rewriting
  alone it is the same entries in some order (`History`); a binary message is bytes,
  44 of them unless cut (`FrameInv`); a JSON text, however edited, has no colon in a
  quoted string and no number without one (`TextInv`).
  `OneEditCorrect`, that one edit is never believed as another State, needs a law of
  the checksum, `DetectsOneWord`: bodies that differ in a single aligned word
  have different checksums. Its invariant `OneInv` says what one edit can have
  reached: one word of a frame, or one entry of a text.
  The rest of the module is about the CRC-32 of `serialization.cpp`, which obeys
  these laws.
  `TakenIsEightTurns` is what the table is about: taking a byte through the table
  is eight turns of the register, each of which can be undone. Hence registers that
  differ stay different while the same bytes are taken, and `BurstDetected`:
  buffers of one length that differ within four neighbouring bytes have different
  checksums. The register has 32 bits, so what four bytes put in they can only
  put in once: after `h` bytes, the bits from `8h` on are not yet touched by the
  ones still to come. `Crc32Suffices` says that `TheChecksum`, which gives the
  constants of `Serialization` their meaning, implies all that the theorems
  before it assume; `FormatsCorrect` is their conclusion with nothing else assumed.
- `Numbers`: what these proofs share. A set that contains 0 and with every number its
  successor contains all of them, by least numbers: the library's well-founded
  minimum gives these without an operator parameter, which its own induction has.
  From this follow the existence of functions defined by recursion over a range, and
  division with remainder.

Only model-checked: that calls return (`EveryCallReturns`; liveness and fairness are
out of the prover's reach, which is why the variants above are properties); the
reference vectors (concrete computations); `NothingForged`, that two edits
forge nothing. The last one cannot be a theorem for all States: a checksum of four
bytes for 36 has collisions, and two edits may reach the value and the checksum.

## What is not modelled

- How HMAC-SHA3-256 computes a digest: it is OpenSSL's. Digests of different data, and
  the hash of a key longer than its block of 136 bytes, are taken as kept apart.
- `state()` and `counter()` only read. `load_be32` and `store_be32` have no caller.
- In `CipherCalls`, threads that break the contract: that is a data race, whose
  outcome C++ leaves undefined.
- White space, number formatting and the wording of exceptions.
- Quality of the keystream, timing, and whether zeroing survives the optimiser.
- Build files, examples, benchmarks, the umbrella header, the paper.

## Plan

Done, in this order: `Cipher` with `Keystream`; `ChaoticState` with its two
instances; the proofs about both; `Serialization`; `KeySchedule` on the shared
`ChaoticCore`; `CipherCalls`; the refinement proofs of `Cipher` and `CipherCalls`; the
proofs about both formats and about the CRC-32; the variants of all loops; the laws
of machine words for words of any width; `Session` and its proofs; the keystream served
by single statements.

What could follow: `Session` statement by statement, as `CipherCalls` is, and a medium
in `Session` that does to messages all that it does in `Serialization`.
