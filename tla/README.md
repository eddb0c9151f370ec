# The Kaia application in TLA+

A TLA+ model of the Kaia application for Ledger devices: what the application
does with the commands a host sends, with the bytes of a transaction, and with
the answers of the owner of the device. The modules follow the C code under
`src/src/`; paths below are relative to that directory unless they say
otherwise. `PROJECT.json` maps every definition to the lines it stands for.

    tlc -workers 2 -config Session.cfg MCSession    # model-check a run
    tlapm SessionProofs.tla                              # check the proofs

## 1. The system

| Part | State | Operations | Talks to |
|---|---|---|---|
| command loop (`app_main.c`) | none | receive, parse, dispatch, end | SDK transport, dispatcher |
| dispatcher (`apdu/dispatcher.c`) | none | checks class, instruction, P1, P2, data | handlers |
| handlers (`handler/*.c`) | none of their own | version, name, public key, sign | global context, parser, reviews, responses |
| global context (`types.h`, `globals.h`) | `G_context`: state, request type, path, and a union of the key and the transaction | cleared by `explicit_bzero` | everything below |
| transaction parser (`transaction/deserialize.c`, `process_txs.c`, `process_rlp_fields.c`) | a parser context on the stack; the `transaction_t` it fills | a loop over RLP items, one function per kind of transaction, one per field | global context |
| reviews (`ui/bagl_display.c`, `ui/nbgl_display_*.c`) | static strings, steps or pages | open, continue, ask, go back, approve, reject | global context, answers, menu |
| answers (`ui/action/validate.c`) | `v`, signature, state in `G_context` | approve and reject, a key or a transaction | SDK cryptography, responses |
| responses (`helper/send_reponse.c`) | none | encode a key, encode a signature | SDK transport |
| formatting (`helper/format.c`, `transaction/utils.c`, `address.c`) | none | types, amounts, numbers, addresses as text | reviews, responses |
| menus (`ui/menu_*.c`) | none | home, about the application, quit | |
| host client (`src/tests/application_client/kaia_command_sender.py`) | none between calls | name, key, sign: each a call of one or more commands | the application, over the transport |
| settings (`globals.h`) | three bytes in NVM | written at the first start | |

There is one thread. A command runs to its end inside `app_main`'s loop, but a
command that opens a review *returns without an answer*: the answer is sent by a
callback when the owner decides, and the callback reads `G_context` again. So
what interleaves is commands, the owner's moves and the end of the process, and
they share the global context, the static strings and the screen. The client of
the repository's tests adds a thread of its own: it sends the commands of a call one
by one and raises at the first status that is not 9000, which leaves the application
in the middle of a session.

What is hard, by part:

* **Context across callbacks.** Approval signs `m_hash` with `bip32_path`, both
  written by commands long before. They must be those of the review on the
  screen, in any order of commands, refusals, rejections and signatures.
* **Sessions.** Only `req_type` guards a chunk, so chunks are accepted behind a
  refused path, a failed parse, a rejection and a signature.
* **Two encodings of state in one place.** The key and the transaction share
  memory; `state` is reset in some paths and not in others.
* **Answers.** Each command is to be answered once, by the handler or the callback.
* **Partial failure.** Parsing, hashing, formatting, deriving and signing may each
  fail after something was already written.
* **The parser.** Lengths come from the data. Positions are moved back by hand;
  headers are read twice; the status of some calls is not looked at; the data may
  end anywhere; the order of the fields is kept in six enumerations, and a field
  that only some types have is skipped by the function of the field before it.
* **Numbers.** 256-bit amounts as decimals, leading bytes of integers, a chain id
  folded into one byte, DER signatures.
* **Static pages.** The strings, the flows and the pairs are static arrays that the
  next review overwrites from their start; which of them a review shows is decided
  by ten hand-written lists, five for each user interface.
* **A call of several commands** meets whatever an earlier call that raised, an
  owner who refused, or a restart has left.

Nothing survives the process except the NVM settings nobody reads, so there is no
recovery to model; no queue, no retry and no timeout is in this code. The process
may end between any two steps, also between two commands of a call.
`PROJECT.json` lists the hazards, each at its line with the properties for it.

What makes each part correct: the session signs only what was shown and approved,
once, and answers every command; the parser returns, accepts exactly complete
transactions, and returns the fields they encode; a review shows every field before
it can be approved, and its texts denote the numbers the transaction holds; a
response is the signature that was made; a call of the client returns what it asked
for.

## 2. Plan

Modelled, in the order it was done: `SigningDevice` (what the device promises),
`Session` (loop, dispatcher, handlers, context, reviews, answers), its refinement
and proofs; `Rlp` and `TxParser` and their proofs; `Items`, what the bytes say, and
the proof that the parser decodes it; `Encoding`, the documented encoding, and the
proof that decoding what was encoded gives the transaction back; `Format`, `SigResponse` and `Review`, the pages of a review and what is on them, and their proofs;
`SigningExchange` and `Client`, the host's client composed with `Session`, the
refinement and its proofs.

Left, most important first:

1. The response to a key: its two hash strings with their checksums.
2. `Review` under `Session`: a refinement that hides the pages.
3. `TxParser` under `Session`: that what a parse leaves in the transaction is a
   function of the bytes received, which `Session` takes from `Parse`. `OneReading`
   is the part that is proved: of bytes that are accepted, the fields shown are.

## 3. Modules

| Module | What it is |
|---|---|
| `SigningDevice` | abstract specification: a signature takes the approval of an open review |
| `Session` | the application from the transport to the screen |
| `MCSession` | a small instance: two paths, four chunks |
| `SessionProofs` | theorems about `Session` |
| `Rlp` | RLP headers |
| `TxParser` | the transaction parser, byte by byte |
| `Items` | what the bytes of a transaction say, read without the parser: where each field's item is |
| `TxTypes` | the types of transaction and the order of their fields, for the parser and the reviews |
| `Encoding` | a reference encoder after `doc/TRANSACTION.md`, and what the parser must make of what it encoded |
| `MCTxParser` | the transactions that are encoded, and the inputs |
| `TxParserProofs` | theorems about `TxParser`: it stays within its input |
| `DecodeProofs` | theorems about `TxParser`: it decodes, moves on, and keeps what it has stored |
| `EncodingProofs` | theorems about `Encoding`: the round trip; and that accepted bytes have one reading |
| `Format` | `helper/format.c`: 256-bit numbers to decimal text |
| `Numerals` | what a sequence of digits, and an amount's text, denotes |
| `FormatProofs` | theorems about `Format` |
| `SigResponse` | the response made of a DER signature |
| `Review` | one review, page by page, and the response of its approval |
| `MCReview` | the transactions and signatures, and the moduli numbers are compared by |
| `ReviewProofs` | theorems about `SigResponse` and `Review` |
| `SigningExchange` | abstract specification: the answer of a call is of that call |
| `Client` | the host's client and `Session`, composed |
| `MCClient` | the transactions the client signs |
| `ClientProofs` | theorems about `Client` |
| `Induction` | induction over the integers up to a bound, and functions defined step by step, for the proofs |

`Client` extends `Session`: its variables are the session's and the client's, and
`Receive` becomes a joint step. `Review` is `Session`'s one screen of a transaction
opened up; it shares `TxTypes` with the parser, so that what a review must show is
derived from the parser's field lists and not from the review's own.

Operators whose comment begins with "Slip" are not part of the model: each is a
definition of the model with a plausible mistake, listed in `PROJECT.json` under
"mutants". With the mistake in place TLC finds the property named there violated.

### Session

State: `app` (the process), the fields of `G_context` (`state`, `req_type`,
`bip32_path`, `raw_tx`, `raw_tx_len`, `transaction`, `m_hash`, `v`, `pk`), the
screen, the static strings (`g_tx` for a transaction's, `g_address`), `pairs` (the
pages or steps they are laid out on) and `reply` (the last response; "none" while a
command waits).

Actions: `Boot` and `Exit`; `Receive(c)`, one turn of the loop with everything
`apdu_dispatcher` and the handler do, every early return included; and the owner's
moves, one per callback: `ReviewContinue`, `ApproveAddress`, `RejectAddress`,
`ApproveTransaction`, `RejectTransaction`, `AskRejection`, `GoBackToTransaction`,
`DismissStatus`. The variable `ux` is the user interface
compiled in: no step changes it, and the constant `Interfaces` is what it may be.

Abstractions:

* A chunk is a value with a size; a hash is named by the chunks hashed, a key by
  its path, strings by the transaction or key they were formatted from. So equality
  of a hash and a list of chunks says that exactly those bytes were hashed.
* `Parse` is a constant operator on the list of chunks received. The parser sees
  the whole buffer each time a last chunk arrives; the fields of its result are in
  memory cleared by the first APDU of the session, and an earlier parse in the same
  session read a prefix of the same bytes, so the result is a function of them.
  `TxParser` models what the parser does; `ParseNoEnd` stands for the inputs on
  which it does not return (run `parser_faulty`), after which only the end of the
  process helps.
* `Garbage` is memory partly written: a path that could not be read, a key that
  could not be derived, a transaction that did not parse, strings half formatted.
* Failures of key derivation, hashing, address computation and signing may happen
  whenever the code checks for them. Which transactions format is the constant
  `Displayable`.
* `Exit` is the loop's return, Quit in the menu and loss of power, so it is possible
  at any moment.
* Versions, names and settings are constants nobody depends on.
* The menu has two pages, `"menu"` and `"about"`, and `MenuAbout` goes between them.

**HalfDuplex.** The SDK's transport, which is not in the repository, delivers a
command only when the last one was answered. That is the constant `HalfDuplex`:
with it `Receive` waits for the reply, without it a command may arrive while a
review is open. Most of what the session promises needs it, and the theorems that
do say so; `HashBelongsToSession`, `PathBindsSession` and `LengthTracksBytes` are
checked without it (run `session_pipelined`), and the first is proved without it.

### TxParser

State: `raw`, the bytes; `ctx`, the parser context as a record with the code's
field names; `tx`, the transaction; `pc`, where in the loop; `status`, what was
returned. `ParseRLP` maps a context to a status and a context, because
`parseNestedRlp` and the detection of the type do not look at the status.

A turn of the loop is one step up to the switch on the type and one for the field
function; the turn that detects the type is a step per header. `ProcessField` has
four cases: an unknown type or field, a field at fault, a field the data ends in, a
whole field. `FieldsOfKind` lists the field function for each member of the six
enumerations, `Skips` where the ratio is skipped, `ReportsFaults` which functions
return a fault.

Abstractions: `currentFieldPos` is 0 whenever a copy begins and is not kept; of a
field cut short nothing is stored, since the parse then ends without "OK" or, for
the chain id of an old-style end, sets its length to zero; `dataLength` and
`dataPresent` are never read. `WRONG_LENGTH_ERROR` cannot be returned:
`handler_sign_tx` bounds the size. `txType` is an enumeration whose size the build
chooses, and `StoreType` allows both; a type of more bytes than that runs into the
nonce, at most to the end of its bytes, and the nonce is written after it. The byte behind the data, which type
detection may look at, is any of `StaleBytes`; in the application it is 0. A header
buffer that is full when a byte is stored gives the status "OVERRUN", at which the
model stops: what the code reads after it is the build's, so `Understood` says nothing of
it. No `Decodable` bytes lead there (`DecodableIsAccepted`).

`Items` is the reference the parser is compared with. It has no context, no loop and
no status: an item at a position has a header, a payload and a place behind it, the
fields of a type are items one behind the other (`PlacesOf`), the first behind the
header of the outer list and of its first item. On it `Understood` says that whatever
is returned with "OK" is what the items say (`IsDecodedFrom`), and
`DecodableIsAccepted` that bytes in which each field's item is there, of the right
kind and not too long (`Decodable`), are not refused. Three things the code does are
part of the statements: an amount that a ratio of more than a byte runs over is exempt
(run `parser_ratio` shows it); a legacy transaction may end in front of, or inside, its
chain id; and the lists' lengths are not looked at, nor what follows the last field.

`Encoding` is the other reference: the bytes a host builds of a transaction
(`doc/TRANSACTION.md`, SigRLP), for each type, with headers of up to two bytes of
length. `Originals` are the transactions that are encoded. An original is
`WellFormed`: of a supported type, its fields no longer than the parser's limits, a
fee ratio of one byte, a legacy transaction's nonce one byte of at most 127 (the
others are run `parser_nonce`), and its encoding not longer than `MAX_ENCODED`, 65535
bytes, more than the application's buffer holds. `AcceptsWhatWasEncoded` and
`EncodedIsAccepted` say of every input that begins with an encoding, or that an
encoding begins with, what the parser makes of it.

### Format, SigResponse, Review

`Format` is pure. A 256-bit number is sixteen limbs of sixteen bits, as in the code,
divided by ten over and over with the carry from limb to limb; a text is a sequence
of digits and a point; every buffer size the code compares with is a constant.
`format_u64` and `format_hex` are the SDK's, and external. Three things the code does
are kept and are no property: numbers of more than eight bytes are shown by their
first eight (`convertUint256ToUint64`); an amount of 44 characters or more loses
trailing decimals, because "KAIA " is printed in front of it into the same buffer
(`Printed`); `format_transaction_type` relies on `snprintf` returning 0, which the
SDK's does. The '%' behind the fee ratio is layout and left out.

`SigResponse` is `helper_send_response_sig`: `format_signature_out` moves r and s out
of the DER signature to the right end of their places, by lengths it reads from the
signature; `v` is computed from the first four bytes of the chain id in 32 bits and
truncated, so that only the lowest of them matters. `Der` is the SDK's encoding.
`ResponseTellsSignature` says of the response what it is for: of all signatures only
the one that was made gives it. That it has the documented layout is not so:
`helper/send_response.h:50`, `src/APP_SPECIFICATION.md:89` and
`src/tests/application_client/kaia_response_unpacker.py:64` describe a length, the
signature in DER and v (run `review_response`).

`Review` has the static strings, the static flow of each BAGL handler and the static
pairs of NBGL, all kept from one review to the next, the page on the screen (`at`),
and `shown`, what each page showed when it came on the screen in this review. Actions:
`Open` (formatting with its early return, and in BAGL the assembly of the flow),
`ReviewContinue` (NBGL's pairs), `Forward`, `Back`, `Approve`, `Reject`. An entry of
a flow is written only where the handler writes it (`Overlaid`), so that a flow
without its end would run into the last review's. Pairs that share an NBGL page are
shown one by one. `OwnEntries` is the list of one review by itself, without the static
arrays; `PageIsOwn` says that the screen is on an entry of it and that the arrays hold
it there.

### Client

`call` with its arguments, `idx` (the P1 of the next command), `waiting`, `result`,
and `restarted`, whether the application ended since the call began. `Begin`, `Send`
(joint with `Receive`), `Continue`, `Return` and `Raise` are the client's steps;
`Owner` and `Restart` are `Session`'s. A transaction is cut by `split_message`, so
all chunks but the last are full. `get_version` is not a method of its own: it is a
single command without data answered at once, like `get_app_name`.

## 4. Runs

All runs are exhaustive over their instance.

| Run | Shows |
|---|---|
| `session` | two paths, both user interfaces, all combinations of signature flags: types, `ReviewMatchesContext`, `SignedWasShown`, `WaitingHasReview`, `BadStateOnlyOutsideSession`, and `Session` implements `SigningDevice` |
| `session_pipelined` | without `HalfDuplex`: `LengthTracksBytes`, `HashBelongsToSession`, `PathBindsSession` |
| `client` | the client's calls of all methods, a fair owner, restarts at any moment: `WellSentIsTaken`, `ParityOfCall`, `CommandAnswered`, `CallReturns`, and client and application implement `SigningExchange` |
| `review` | two reviews in a row, both user interfaces, any way through the pages: the screen stays on entries of this review (`PageIsOwn`), `ApprovalSeesAll`, `PagesAreTrue`, `ResponseTellsSignature` |
| `parser` | the documented encodings of sixteen types, cut at every byte or with one more: accepted exactly if complete, with the right fields (`AcceptsWhatWasEncoded`, `EncodedIsAccepted`), and the parser returns (`DocumentedReturns`); those, and plain transactions with any byte replaced by any of fourteen that mean something: `WithinInput`, `FieldsKept`, `Understood`, `DecodableIsAccepted`, `FaultsEnd`, `MovesOn` |

`PagesAreTrue` has a reference of its own, `Numerals`: the number a text denotes is
computed from its digits by multiplication, and compared with that of the
transaction's bytes. The numbers are longer than TLC's integers, so it compares their
remainders by each member of `Moduli`; in the run these are twelve primes whose
product is above 2^266, so that numbers of 256 bits with equal remainders are equal.
The proof is about the numbers themselves (`AmountDenotesBytes`).

Runs that are expected to find a violation, each a disagreement of the code with
something the repository says (quoted in `PROJECT.json`, "findings"):

| Run | Statement that does not hold |
|---|---|
| `session_parity` | `v` is the parity of R: it keeps an earlier signature's odd parity |
| `session_status` | the page says signed: also when signing failed |
| `parser_faulty` | a fault is returned as an error: four of six functions drop it, and the loop does not end |
| `parser_nonce` | a legacy transaction starts with its nonce: 0 and all above 127 are refused |
| `parser_ratio` | `value` is the amount: a ratio of more than a byte runs over it |
| `client_index` | P1 is a chunk index from 00 to FF: the dispatcher takes at most `P1_MAX`, and refuses the last chunk of a transaction that fits the buffer |
| `review_response` | the response is a length, the signature in DER, and v: it is v, r and s |

`session_parity` and `ParityOfCall` go together: the stale parity needs a chunk
behind a signature, which a host may send and this client never does.

Behaviours the models show which no run is spent on:

* A first APDU whose path is refused leaves its request open (`handler/sign_tx.c:37`;
  `SignTxFirst`): chunks that follow are taken, reviewed and signed under the part of
  the path that was read. `HashBelongsToSession` and `PathBindsSession` take that part
  for the session's path and do not exclude it; nothing in the repository says whether
  it should be.
* A command that arrives while a review is open, which `HalfDuplex` excludes, replaces
  the transaction under it: the screen then shows another one than is signed. The
  properties of `session_pipelined` do not say otherwise; `ReviewMatchesContext` and
  `SignedWasShown` do, and need `HalfDuplex`.
* A legacy transaction cut inside its chain id is accepted as one without
  (`transaction/deserialize.c:209`; `OldStyleEnd`, and the second case of
  `AcceptsWhatWasEncoded`).

### Bounds

`MCSession`: P1 goes up to an index out of range but in `session`, where it stops at
`P1_MAX` because both interfaces and all flags are in one run; an index out of range
is refused before anything else happens, in `session_pipelined` and `client`. The buffer holds 3 bytes and a command carries 2, so that
`P1_MAX` is 1, rounded down as in the code, and P1 is 0, 1 or 2: the path, an
index in range, and one out of range although the buffer has room. The four chunks
are one that is a transaction, one that needs a second (2 bytes, so that the buffer
can be full exactly, and overfull by one), one that does not format, and one the
parser does not return from. Three chunks are enough for a chunk behind a
signature, behind a failed parse and behind a refusal. Two paths tell a session from
the next; they are symmetric where the run has no liveness. Nothing bounds the
number of commands, sessions, restarts or answers: the state space is finite.

`MCClient`: the buffer holds 5 bytes, so that `P1_MAX` is 2 and a transaction may
have two full chunks, or need a third, which fits the buffer and has no index. The
eight transactions are complete in one chunk or two, faulty, not to be shown, not
returned from, of a chunk too many, and of no byte. The number of calls is not bounded.

`MCReview`: `MAX_REVIEWS` is 2, which is enough for a review to find what another
left, since `Open` writes from the start whatever it found; the proofs have any
number. `WIDTH`, the bytes of r and s, is 2 instead of 32, with and without leading
zeros and leading bit. Every type with an amount, a nonce and a chain id of its own;
a ratio of 0 and of 30; and the sixteen amounts around which the code's cases change:
none, a few digits, 17, 18, 19 and 20 digits, zeros inside and behind, above 2^64,
filling the screen, longer than it, and too long.

`MCTxParser`: one run has all inputs, the encodings (`MCEncoded`) and the altered ones
(`MCAltered`). Cut at every byte are, of each type, the plain transaction, one with an
empty gas price and one with 60 bytes of data, and one with 260; the others are
encoded as they are and with a byte more, since their headers have the same forms.
Addresses have 2 bytes and integers at most 3 instead of 20 and 32;
nothing in the parser depends on more than the comparison with the limit. The
fields take the values that matter to RLP: empty, a byte that encodes itself, a byte
that does not, several bytes, and data of 60 and of 260 bytes, whose headers have one and
two bytes of length. Headers with three or four bytes of length appear only among the
altered inputs, with their data missing; the proofs cover them. A header that
announces more is reached there too, and the model stops at its "OVERRUN".
Lengths stay below 2^31: a header 0xbb or 0xfb with a larger one is covered by the
proofs, where numbers are unbounded, and excluded from the runs.

### Deadlock

The session cannot stop (`Boot` and `Exit`), alone or with its client, and their runs
check that. The parser returns and reviews are bounded by `MAX_REVIEWS`, so their runs
say `CHECK_DEADLOCK FALSE`.

### Fairness

`Session`'s `FairSpec`: an owner who taps through an opened review
(`WF_vars(ReviewContinue)`) and does not go back and forth between the review and
the question whether to reject it for ever (`SF_vars(Decide)`). Nothing is asked of
the host. The code gives the owner no timeout, so this is an assumption on the
owner, not on the scheduling. `Client`'s `ClientFairSpec` has the same owner, and adds
`WF_allVars(ClientStep)`: the calling thread sends its next command and takes an
answer that is there; that it begins another call, or that the application restarts,
is never assumed. `TxParser`'s: the loop runs.

## 5. Proofs

For all values of the constants that satisfy the modules' assumptions:

| Theorem | Says |
|---|---|
| `TypeCorrect` | `Spec => []TypeOK`: with it, the stored bytes stay within the buffer |
| `HashBelongs` | `Spec => []HashBelongsToSession`, whether or not the host waits |
| `ReviewMatches`, `SignedShown`, `WaitingReviewed` | the three invariants of `session`, if `HalfDuplex` |
| `SessionImplementsDevice` | `Spec => ImplementsDevice`, if `HalfDuplex` |
| `PathBinds` | `Spec => PathBindsSession`, whether or not the host waits |
| `BadStateOutside` | `Spec => BadStateOnlyOutsideSession`, if `HalfDuplex` |
| `LengthTracked` | `Spec => []LengthTracksBytes`, for chunks of any sizes, whether or not the host waits |
| `ClientTypeCorrect` | `ClientSpec => []ClientTypeOK` |
| `ClientIsSession` | `ClientSpec => Spec`: the client's behaviours are the session's, and every theorem above is true of them |
| `ClientImplementsExchange` | `ClientSpec => ImplementsExchange`, if `HalfDuplex` |
| `ClientParity` | `ClientSpec => []ParityOfCall`, if `HalfDuplex` and no signature reports an r beyond the curve order (`WithinOrder`) |
| `ClientWellSent` | `ClientSpec => []WellSentIsTaken`, if `HalfDuplex`: what fits the buffer in at most `P1_MAX` chunks is not refused, what does not fit is not signed |
| `ResponseHoldsSignature` | for r and s of any width: the response is one byte, r and s |
| `ReviewTypeCorrect` | `Spec => []TypeOK` of `Review`: no review lays out more steps or pairs than the arrays have room for |
| `PageOfReview` | `Spec => []PageIsOwn`: the screen is on an entry of this review's own list, whatever earlier ones left |
| `ApprovalSawAll` | `Spec => []ApprovalSeesAll`, for any transactions and any number of reviews |
| `PagesTrue` | `Spec => []PagesAreTrue`, for any transactions |
| `DecimalDenotesBytes` | the digits of `uint256_to_decimal` denote exactly the number the bytes are, for all of at most 256 bits |
| `DecimalFitsBuffer` | 100 bytes hold the digits of every such number and the NUL behind them |
| `AmountDenotesBytes` | the text of `amount_to_string`, read in peb, is exactly the number the bytes are; the text and its NUL fit the buffer |
| `ResponseOfSignature` | `Spec => []ResponseTellsSignature`, for any chain id and signature |
| `Decodes` | `Spec => []Understood`, for all inputs |
| `RefusesNothingWhole` | `Spec => []DecodableIsAccepted`, for all inputs |
| `ParserMovesOn` | `Spec => MovesOn`, for all inputs: at most 36 steps and a return, however long the data, unless a fault is dropped |
| `RoundTrip` | `Spec => []AcceptsWhatWasEncoded`: of any well-formed transaction's encoding, whatever follows it, the parser returns the fields that were encoded, and of one that was cut off nothing, or a legacy transaction without its chain id |
| `OneReading` | for all inputs, whatever else `Understood` could be true of shows the same type, fields and chain id as what was returned, but for an amount that a long ratio ran over |
| `EncodedAccepted` | `Spec => []EncodedIsAccepted`: any well-formed transaction's encoding is accepted, whatever follows it |
| `StaysWithinInput` | `Spec => []WithinInput`, for all inputs |
| `FieldsStay` | `Spec => FieldsKept`, for all inputs: a field is copied to once and runs over no other, but a long ratio over the amount |

Assumptions: a transaction is cut into chunks of which all but the last are full, and
P1 holds every index the client sends; an original is `WellFormed`; r, s and the fields of a transaction are bytes, and a
ratio is one; the moduli are not 0; chunks have at least one byte, which the dispatcher's check of the
data gives; the parser's result for as many chunks as fit is a transaction or one of
two failures; the special values differ from each other and from the data.

**Session.** The cases of `Receive` are first reduced to five (`Refused`,
`Informed`, `KeyAsked`, `SessionOpened`, `ChunkStored`; lemma `ReceiveOutcome`), and
each invariant is shown for each case and each move of the owner. `HashBelongsToSession` alone is not
inductive: a signature is made of the hash in the context, so what is needed is that
the hash is a prefix of the bytes *and* the last signature is of such a prefix under
the path that is still there (`BelongsInv`). For the others, `ShownInv` joins the
three properties, because each step of one uses another: a command may overwrite the
context only because no review is open, which follows from `WaitingHasReview` and the
reply being there; `SignedWasShown` after an approval follows from
`ReviewMatchesContext` before it; and an open review's transaction must be known to
be `Displayable`. The refinement maps an open transaction screen to a review of
`m_hash` under `bip32_path`, and a signature reply to the output; each step is one of
`SigningDevice`'s or a stutter by the two inductive invariants. `LengthTracksBytes`
is about the sum of all stored chunks, whatever their sizes: the partial sums of a
longer list agree with those of its prefix (`TotalsAgree`), so that an appended chunk
adds its own size (`BytesInAppend`), which is what the handler adds to the length.

**TxParser.** `ParserInv` says of the context that position and remaining length add
up to the data *and* that the header buffer is empty, full, or holds a header that is
not complete (`HeaderOpen`): without it nothing would be known of how many bytes
`ParseRLP` still wants, and a negative number of them would leave the range. `Sound`
is shown of `ParseRLP`'s result once (`ParseSound`) and used by each of the steps
that call it.

**Fields kept.** `FieldsStay` needs more than the checks of the lengths. That a field
is empty when its turn comes is a matter of order: `UnreadInv` says that every field
the parser has not passed still holds what `Init` gave it, which the turn of another
field keeps because the names in a type's list differ (`Orderly`). That no copy reaches
the next place follows from the length each field function compares with; the ratio
compares with the wrong one, and the statement names it.

**Decoding.** `DecodeInv` says where in the items the parser stands. Most of the time it
is in front of one or behind the header of one, at its place among `PlacesOf`, with
everything before it read (`Between`, `Within`). The rest is what happens after
something went wrong that the code goes on from, and the invariant has to show that
none of it comes to a good end: a fault that was dropped and is tried again for ever
(`Stuck`); data that ends in a field (`Cut`); a header that was not complete, whose
bytes stay in the header buffer while the type is looked for (`Doomed`, `Lost`). For
`Lost` the bytes no longer tell anything; what excludes an acceptance is a count: an
item takes at least a byte of data, so the number of the field reached and the data
left never add up to more than the size of the header buffer, and every type has more
fields. Until the type is known there is none of this (`Opened`), and the type that
was found is the one its own item says (`Known`, `TypeItem`), which is why the byte
looked at behind the data does no harm. Of the field lists the proof uses only what
`Orderly` says: a stored field occurs once, the ratio follows a field that any bytes
fit, the list comes first and the type behind it. Before it was proved, TLC found
`DecodeInv` to hold on the inputs of run `parser` and in half a million
states of short and mutilated inputs.

**Progress.** `StepsFrom` counts the steps that are left at a place of the loop: four
in front of the fields, two for each field behind the one that is reached, and one if
no data is left. `MovesOn` says that each step lowers it, but one that drops a fault
(`FaultDropped`). What makes it inductive is that the field never goes beyond the one
behind the longest list (`NextField`, by `SkipFacts`) and that the outer list is behind
the parser once the type is looked for (`CountedInv`). A type whose function returns
faults has no such exception, so that `FaultsEnd`, and with it the return of every
other parse in which no fault is dropped, follows for all inputs from the fairness of
the loop, by the descent of a natural number.

**Round trip.** That a parser returns what a reference encoder encoded is proved in
three parts, none of which steps through the parser again. First, where things lie:
an encoding is the flattened list of its items, and an item that was encoded at a
position has there a header of its kind, its payload, and its size (`CarriedHeader`,
`CarriedString`); the partial heaps of a flattened list (`Heaped`, `Flattened`) say
where each of its items begins, so that the items that follow each other are a chain
of positions (`Spans`), which splits where two lists were joined (`SpansSplit`). For
each kind of transaction that chain is laid beside the parser's own list of field
functions (`LegacyFollows`, `TypedFollows`): this is where the enumerations of the
code meet the order of the documentation, and it gives `EncodedWhole`, that the items
`Items` finds at `PlacesOf` are those that were encoded. Second, `EncodedAccepted`:
bytes in which they lie are `Decodable`, and `RefusesNothingWhole` says the rest.
Third, `RoundTrip`: by `Decodes` what is returned is what the items of the *input*
say. If the input begins with the encoding, or the other way round, each has the same
items as long as they end within the shorter (`SamePlaces`, by induction over the
fields, and `FieldRead`); so every field that was read is the one that was encoded
(`ReadBack`), and if all were read, the last one ends where the encoding does, which
an input that was cut off does not reach (`CutOff`). An amount cannot be exempt here,
because the ratio the input has is the encoded one, of one byte (`NoLongRatio`).

**One reading.** `Understood` says which items a transaction was decoded from;
`OneReading` says that it thereby says which transaction. The first item is a list or
is not, which tells a legacy transaction from the others, and the type of the others
is the second item, which is at a place that does not depend on the type (`OneType`).
Under one type the fields are at the same places (`SaidAlike`), and of the two ways in
which a legacy transaction may end at most one fits the bytes (`ReadAlike`). So the
signature is of bytes that `Understood` reads in one way, the one that is shown.

**Client.** Each step of the composition is a step of `Session` or leaves its
variables alone, which gives `ClientIsSession`. `ClientImplementsExchange` needs to
know, while a call runs, that the application's session is *this* call's: `CallInv`
says that what was stored are the chunks sent so far and the path the call's, that an
open review is of the command that is waited for, and that a key or a signature in
`reply` is of this call, if it is waited for. A restart in the middle is the hard
case: the application then has no session, and what remains of the call can only be
refused, until the client raises. `CallInv` also keeps `v` at 0
until this call's session signs, from which `ParityInv` gets the parity of the reply
and of the result. `ClientWellSent` adds that the session the path has opened stays open to
the chunks until the application ends, and that an open review has had its last chunk
under an index P1 can say (`WellInv`). What is stored are the chunks sent (`CallInv`),
so their bytes are at most the transaction's (`BytesInPrefix`), and by
`LengthTracksBytes` they are what the handler compares with the room.

**Format.** `Denoted` is a function of the number of digits read; appending a digit
multiplies by the base and adds it (`DenotedAppend`). One pass of the division keeps,
limb by limb, ten times the quotient so far plus the carry equal to the limbs so far
(`DividesBy10`), and no quotient is larger than a limb, because the carry is a digit.
`decimal` is recursive on the number the limbs denote: that it exists at all, and that
its digits denote the number, are inductions over that number (`decimalExists`,
`decimalRight`). Each limb has less than five digits, so sixteen have at most eighty
(`LimbsBelow`, `DigitsBelow`). The point and the zeros are an argument about positions:
the whole part and the fraction are the digits with a point among them (`ShortSplit`,
`LongSplit`), and cutting zeros, with or without the point, leaves a text that reads as
the same digits (`CutZerosReads`). tlapm has no induction over data as a rule with a
predicate; `Induction` states it for sets instead: a set that contains 0 and with each
number the next contains them all. `DenotedModuloIs` connects the two ways to compare
numbers.

**SigResponse.** The encoding of a number is its bytes without leading zeros, or
those behind one zero (`DerNumberShape`); copying it to the right end of a cleared
place gives the number back (`CopyNumberCopies`); s is found behind r because r's
length is in the signature (`FormattedSignature`).

**Review.** The layouts are lists whose length and set of titles are computed for
each handler (`BaglFieldsList`, `FlowLayout`, `PairsLayout`), and the titles the owner
must see are among them for every type (`FieldsAreLaid`, from the parser's field
lists). `ApprovalSeesAll` is not inductive: `ReviewInv` adds that the page which
approves is behind all pages with a field (`PagesOf`), that the pages up to the one on
the screen were shown (`Reached`), and that what was shown is what the strings of this
transaction still hold (`ShownIsString`, `Reviewed`). `PageIsOwn`
follows from what it says of the layout (`OwnLayout`): the flow or the pairs of this
review lie at the beginning of the static array, and a flow's end behind them. For `PagesTrue` it also has to
keep that what was shown is of the transaction in the context, which formatted as a
whole, and that no page is of a field the transaction has not (`Viewed`): NBGL shows
an amount whether or not the type has one. The rest is what each text tells
(`TypeTells`, `AmountTells`, `AddressTells`, `NumberTells`), from the theorems about
`Format`.

Only model-checked: liveness (`CommandAnswered`, `CallReturns`, `DocumentedReturns`,
`FaultsEnd`), which the prover does not do (of the last two `MovesOn` is the part that
is proved). `ParserReturns` holds of documented inputs only (`DocumentedReturns`), and
`ValueKept`, `IndexIsTaken` and `ResponseAsSpecified` are what the code does not do.
Every invariant of a passing run is proved.

## 6. Not modelled

* The SDK: transport, screens, cryptography, BIP32 parsing. They appear as choices
  of the environment and as `HalfDuplex`.
* The response to a key: its length bytes and the two hash strings with their
  checksums (`helper/send_reponse.c`). `Session` keeps which key it is of.
* How pairs are put on NBGL pages, and wording: the SDK's, and layout.
* NVM settings: written at the first start, read only to see whether they were.
* `get_app_and_version` of the client: the operating system answers it.
* `processAccessList`, memo helpers and the memo status codes: never used.
* Logging, assertions on null pointers, icons, build, tests.
