# A TLA+ verification of the Hathor Ledger application

The application runs on a Ledger device. A host (a wallet) sends it commands
(APDUs) over USB; the device derives keys, shows what it is asked to do, waits
for the user's buttons and answers. Its source is C, under `src/src/` of the
repository. This directory holds TLA+ modules that model its commands, TLC
configurations that check them on small instances, and TLAPS proofs of the
properties for every value of the constants. `PROJECT.json` maps each
definition to the lines it models.

## 1. Inventory

### Actors

There is one thread. It is either in `io_exchange`, or running a handler to its
end. While it is in `io_exchange` four things can happen: a command arrives, the
user presses a button (a callback of the UX flow), the link is reset, the
application restarts. Nothing is preempted, so the hard interleavings are those
of *commands, buttons and restarts*, not of instructions. What makes them hard is
that everything shares a few globals:

| global | file | read and written by |
|---|---|---|
| `G_context`: a union of the contexts of all commands, with one `state` | `main.c`, `types.h` | every handler and every callback |
| `G_io_state`, `G_output_len` | `io.c` | the main loop, every reply |
| `g_validate_callback` | `ui/display.c` | every question: one pointer serves all buttons |
| `G_token_symbols` | `globals.h`, `handler/send_token_data.c` | SEND_TOKEN_DATA, and transactions through pointers |
| `N_storage` (flash) | `storage.c` | the token commands; the only thing that survives a restart |

### Components

| component | state | operations | what makes it correct |
|---|---|---|---|
| Transaction signing, `handler/sign_tx.c` | `sign_tx_ctx_t`: state, counters, change info, decode buffer, output buffer, hash, digest | DATA (first, next), SIGN, DONE; the decoder loop | no signature on an output the user has not reviewed; data after the approval ends the transaction; every command ends |
| Transaction display, `ui/display.c` | `display_index`, `confirmed_outputs`, the callback | show, skip change, approve, reject, quit | outputs are asked about in order, each once; the screen fits the context |
| Input and output, `io.c`, `main.c` | `G_io_state`, the stored answer | receive, send, main loop, exception, link reset | at most one answer per command, made for that command; no silent wait |
| Parser and dispatcher, `apdu/` | none of its own | checks in order, then one handler | an ill-formed command reaches no handler |
| Address, xpub and version, `handler/get_*.c`, `ui/display.c` | the context's key, path | derive, ask, answer | a button runs the callback of the question it is drawn under |
| Validation callbacks, `ui/action/validate.c` | the context | accept or reject an address, an xpub, a token | one answer, then the menu |
| Token signatures, `token/signature.c`, `handler/sign_token_data.c`, `verify_token_signature.c`, `reset_token_signatures.c` | the secret in flash | sign, verify, reset | a signature that verifies was approved by the user under the secret in use |
| Token registry, `handler/send_token_data.c`, `token/token_parser.c` | `G_token_symbols` | first, next, find | entries lead back to an approval; an output shows a symbol that was approved for its uid |
| Persistent secret, `storage.c` | `N_storage` | generate at first use, replace, survive a restart | old signatures survive a restart and die with a reset |
| Output deserialisation, `transaction/deserialize.c`, `common/read.c`, `common/buffer.c` | none (pure) | parse one output; offsets in one buffer | the decode buffer never overflows; what is parsed is what was sent, wherever a chunk ends |
| Formatting, `common/format.c`, `common/base58.c`, `common/bip32.c` | none (pure) | numbers, addresses, paths | agreement with a reference; room for the text |
| Keys and addresses, `hathor.c` | none (pure) | compress, hash, address | an output counts as change only if its address is the wallet's own |
| Menus, stubs, unit tests, functional tests, fuzzer | | | not modelled, see section 8 |

### Behaviours that are hard to test

`PROJECT.json` lists each hazard at its line. In groups:

* **Order of commands.** SIGN checks nothing but `state`
  (`handler/sign_tx.c:540`). That the hashed outputs were reviewed rests on every
  other stage, on commands of other kinds between two chunks, and on the erasures
  of `G_context`.
* **Two counters over one stream.** `display_index` counts slots of the output
  buffer and `confirmed_outputs` counts outputs; both advance over ordinary and
  change outputs, in chunks of any size, and are `uint8_t`.
* **Answers given twice, late, or never.** An answer is sent at once or stored for
  the main loop depending on `G_io_state`; some exits store one and then make
  the loop return.
* **Stale pointers, slots and callbacks.** One global callback; a transaction's pointers
  into a registry that can be emptied between two chunks; an array of outputs whose
  slots keep the outputs of earlier chunks; a `change_len` that a failed first chunk
  leaves behind.
* **Restarts.** RAM is lost and the secret is kept, so old signatures come back.
* **A stream cut anywhere.** The host decides where a chunk ends; the decoder
  keeps the beginning of an element in a buffer of 300 bytes, and a chunk is hashed
  before it is decoded.
* **Arithmetic at the edge.** Offsets of `size_t` whose check is separate from
  their use, values stored negated, output numbers subtracted in `uint8_t`, carries,
  commas, and texts cut off by `snprintf` without notice.
* **Equality as an end condition.** `skip_change_outputs` and the end of the
  review compare counters with `==`.

## 2. Plan and order

The modules were written in this order, the most important behaviour first:

1. `SignTx`, with its abstract specification `TxSigner`: modelled, checked, proved.
2. `ApduIO`, commands, answers and buttons, with its abstract specification
   `Exchange`: modelled, checked, proved.
3. `TokenRegistry`, secret, signatures, registry and pointers: modelled, checked,
   proved.
4. `Buffers`, the offset arithmetic of `buffer.c`, and `DecodeBuffer` over it, the
   decoder of SIGN_TX with real byte lengths: modelled, checked, proved.
5. The functions without state: `Deserialize`, `Format`, `Base58`, `Bip32`,
   `OutputOrder`, `TokenText`, `Keys`, and `Conversions`, which feeds them inputs:
   modelled, checked, proved.

What would come next, and why it is not here:

* A product of `TokenRegistry` with the stages of `SignTx`, to tie a signature to
  the symbols shown for it. `v_token_pointers` already shows that the tie can break;
  the product multiplies both state spaces.
* `SignTx` in the thread of `ApduIO`. `ApduIO` gives SIGN_TX every outcome its
  handler has; that it has no others is seen by reading, not proved.
* A refinement between `DecodeBuffer` and the `left` and `partial` of `SignTx`. The two share
  the loop; `SignTx` lets a chunk complete any number of elements up to `MaxChunk`, and
  `OutputsInOneCall` says how many that can be.

## 3. The modules

    SignTx         --implements-->  TxSigner     SignTxProofs         MCSignTx
    ApduIO         --implements-->  Exchange     ApduIOProofs         MCApduIO
    TokenRegistry                                TokenRegistryProofs  MCTokenRegistry
    DecodeBuffer   --extends-->     Buffers      DecodeBufferProofs   MCDecodeBuffer
                                                 BuffersProofs
    Conversions    --instances-->   Buffers, Deserialize, Format,     MCConversions
                                    Base58, Bip32, OutputOrder,
                                    TokenText, Keys, SignTx
                                                 ConversionsProofs
                                                 ScreenProofs

`CommonLemmas` has facts about numbers, sequences and recursive functions that
the proof modules rest on; `ScreenProofs` extends `ConversionsProofs`.

The first four models are views of one program. `ApduIO` has all commands, and of
each handler only which of its exits is taken. `SignTx` and `TokenRegistry` have one
family of commands in detail, and the others as what they do to the shared context.
`DecodeBuffer` has the DATA stage of SIGN_TX once more, with bytes in place of elements.
The last group are the functions these handlers call.

### SignTx

State: the fields of `sign_tx_ctx_t` under their names, and `pc`, `screen` and
`reply`. `pc` says whose turn it is: `"host"` (a command may arrive), `"decode"` (inside the
loop of `receive_data`), `"ready"` (the loop has ended, outputs are to be displayed or
more data requested), `"user"` (a screen waits for a button). Each step of the
code that can be observed between two others is one action:

| actions | code |
|---|---|
| `FirstChunk`, `FirstChunkFault`, `FirstChunkAgain` | the first DATA command: sighash header, change information; its error exits; its repetition, which throws |
| `NextChunk`, `ChunkNotHashed`, `DataRefused` | later DATA commands, one whose hash fails, and DATA in a state that does not take it |
| `DecodeToken`, `DecodeInput`, `DecodeOutput`, `DecodeIncomplete`, `DecodeRefused`, `ChangeDerivationFails` | one turn of the decoder loop |
| `RequestData`, `DisplayOutputs` | what follows the loop |
| `ApproveOutput`, `RejectOutput`, `AddressFails`, `ApproveSend`, `RejectSend`, `Quit` | buttons |
| `Sign`, `SignRefused`, `SignFails`, `Done` | the other stages of the command |
| `OtherCommand`, `OtherCommandAsks`, `AnswerOther` | commands of other kinds: they may erase the shared context |
| `Restart` | the application starts again |

`Settle(c, d)` models what the code runs wherever an output is to be shown:
`ui_display_tx_outputs`, `skip_change_outputs` and the two comparisons behind them.
`reviewed` is a history variable: the outputs the user confirmed or `verify_change`
accepted. The bytes of a transaction are abstracted to its elements. A chunk completes up
to `MaxChunk` of them (`left`) and may end inside one more (`partial`); what an
element says is chosen when the decoder reads it. The header, with its counts and change
indices, is chosen freely, so that ill-meant and ill-formed transactions are included.
A first chunk that throws (`FirstChunkFault`) leaves what it has read in a context in
`STATE_RECV_DATA`: also the number of change outputs, which `read_change_info_v1` stores
before it compares it with its array (`TooMuchChange`). That is why `change_len` is a
variable beside the set `change`.

The array `outputs[]` is `outputs \o stale`: the slots counted by `buffer_output_len`,
and those behind them, which keep the outputs of earlier chunks because only the length
is zeroed between two commands. The display reads a slot without a look at the length
(`Shown`), as `prepare_display_output` does.

`TxSigner` is the promise: a message that grows only while it is open, is sealed
only when all of it is reviewed, and is signed only when sealed.
The refinement maps message to `current_output`, and sealed to `STATE_APPROVED`.

### ApduIO

State: `G_io_state`, the stored answer, the place of the thread (`"boot"`, `"recv"`,
`"exchange"`, `"handle"`), the command, what `G_context` is about, the callback, the
flow on the screen, and for the host whether it waits. Each answer carries the `turn` bit of the
command it was made for, so that an answer to an earlier command is visible.
`Recv` is `io_recv_command` up to the wait in `io_exchange`, `Receive` the arrival of
a command, `SendResponse` the table of `io_send_response`. There is one action per
instruction (`GetVersion` ... `ResetTokenSignatures`), `Refuse` for the checks
before a handler in their order, one action per kind of button, and `Boot`,
`IoReset`, `LeaveApp` for restart, link reset and quit. `GiveUp` and
`ReplyAndGiveUp` are the exits that make `app_main` return; `Reply` and
`ReplyAndGoOn` the ordinary ones. An exception is answered with whatever was thrown: a
status word of `sw.h`, or the `cx_err_t` of `sighash_all_hash` (`"CX_ERROR"`), which
`CX_THROW` passes on and `main.c:75` sends as it is.

`Exchange` is the promise: a request gets at most one answer; an answer is one
made for the request that waits; a request goes without only when the link or
the application does.

### TokenRegistry

State: the secret (counted: each generation is a new one, 0 is erased flash), the
signatures the host was ever given, the registry `slots`/`len`, the transaction's
token pointers (indices of slots), the question on the screen, and four histories
(`approved`, `uids`, `accepted`, `wiped`). A signature is the pair of secret and
message; the message is uid, symbol and name put together without lengths, as
`init_token_signature_message` hashes them. The host may send any signature it has,
or one that is none. sha256 is taken to be injective and not to be guessed. The
version byte of a token, constant in this version, is left out. Symbols and names
are short sequences of letters, because where one ends and the other begins is what one
property is about.

### DecodeBuffer and Buffers

`Buffers` is `buffer_t` as a size and an offset, with every operation of
`buffer.c` in the arithmetic of a `size_t` of any width. The reads check that the bytes
are there, call `buffer_seek_cur` and ignore its result, as the code does.

`DecodeBuffer` counts bytes: `buffer_len` is `tx_info.buffer_len`, a chunk has a
length, a token 32 bytes, an input 35, an output 32 or 36. Of the next output of the
stream it knows only what its length depends on: the first bit of its value and
whether its script length is 25 (`next`, chosen ahead so that every attempt
at it sees the same bytes). `undecoded` is a history variable: bytes that are in the
hash and were not taken by the decoder. `FirstChunk` reads change information and
header through `Buffers`; `ChangeInfoFault` and `HeaderCut` are the chunks that end in them;
`NextChunk` appends, or throws when there is no room, after the hash has the bytes;
`HashFails` is a chunk that the hash refuses, which is thrown away before it is appended.
`DecodeToken`, `DecodeInput`, `DecodeOutput`, `DecodeIncomplete` and
`DecodeRefused` are the turns of the loop. The review is one step here (`ReviewChunk`).

### Conversions and the functions it checks

| module | code |
|---|---|
| `Deserialize` | `parse_output`, `parse_output_value`, `validate_p2pkh_script` on bytes |
| `Format` | `format_u64`, `format_value`, `itoa`, and the amount line of `prepare_display_output` |
| `Base58` | `base58_encode` with its digit array, its carry loop and where the loop stops; `base58_decode` with its repeated division |
| `Bip32` | `bip32_path_read` with the bounds of each level, `bip32_path_format` with `snprintf`'s truncation |
| `OutputOrder` | the sort and the walk of `skip_change_outputs`, total and number of the output screen |
| `TokenText` | `parse_token`, `is_printable`, `format_hex` and the texts of the token screens |
| `Keys` | compression, hash and address, and their three users: `verify_change`, GET_ADDRESS, GET_XPUB |

`Conversions` has two variables: the kind of an input and the input. A step
adds one piece (a byte, a digit, a component, an index), so each state is an input, and
an invariant speaks of a function's result for all of them and, where it compares the
input with the one before it, of what one piece more changes. `WalkIsSkips` ties this
group to `SignTx`: the walk over the sorted list does what the relation `Skips`
says, which is stated for a set of indices.

## 4. The runs

| run | distinct states | what it asks |
|---|---|---|
| `sign_tx` | 153,236 | signing and review, wrapping counters, refinement of `TxSigner`, every command ends |
| `apdu_io` | 503,908 | commands, answers and buttons, refinement of `Exchange`, every command ends |
| `token_registry` | 87,182 | signatures, registry, pointers, resets and restarts |
| `decode_buffer` | 216,597 | the decode buffer with real lengths, the transaction cut anywhere |
| `conversions` | 1,848,463 | the functions without state against their references |
| `v_whole_tx`, `v_sha256d`, `v_bypass` | | three statements of the documentation about SIGN_TX that the code does not meet |
| `v_delivered` | | one about `io_send_sw`, in the model of `ApduIO` |
| `v_token_pointers`, `v_token_message`, `v_token_array` | | three such statements about tokens |

Properties checked by the passing runs, apart from one `TypeOK` each, which says that
no counter or array length leaves its bound (of the `change_len` of `SignTx` it says only
that it is a `uint8_t`, see `ChangeListFits`):

* `SignedOutputsReviewed`: a signature goes out only in `STATE_APPROVED`, and every
  hashed output was confirmed or is verified change.
* `HostTurnMeansReviewed`: a chunk is acknowledged only when nothing decoded is
  left to review.
* `DisplayedOutputIsNext`: the output on display is the one that `confirmed_outputs`
  counts, which is not a change output, as long as `display_index` is inside the buffer. When a
  change index is skipped before its output has been decoded, `display_index` passes the
  end of the buffer and the device asks about whatever slot it finds there: an output of
  an earlier chunk, possibly verified change, or a zeroed slot. The property says that
  this is the only way there, that every decoded output has been reviewed then, and that
  the output in the slot was reviewed before. So the user may be asked about a change
  output, or again about an output, but never about one in place of another that waits.
* `ChangeListFits`: wherever the list of change outputs is read, its length is at most
  that of the array. The longer ones that `TooMuchChange` leaves in the context meet no
  reader, since the header behind them was not read and announces no output.
* `ScreensMatchContext`: transaction buttons are there only for their own state.
* `CommandsEnd` (of `SignTx`): after a command it is the host's turn again.
* `ImplementsTxSigner`, `ImplementsExchange`: refinement, as above.
* `ButtonsMatchQuestion`: buttons run the callback of their own question, over its
  context, for a command that waits.
* `WaitsForTheUser`: a silent device has a question on its screen.
* `IoStateMatchesThread`: the arms of the I/O state machine that would end
  `app_main` are never taken.
* `CommandsEnd` (of `ApduIO`): each command is answered or its link is dropped.
* `SignaturesAreApproved`, `AcceptedIsApproved`, `EntriesWereApproved`: what is handed
  out, accepted and stored leads back to a press of the user's button.
* `ShownSymbolApproved`: the symbol shown was approved for the output's token,
  unless the registry was emptied under the transaction.
* `RegistryGrowsOrIsWiped`: no entry is replaced in place.
* `NothingDecodableLeft`: when a chunk is acknowledged, what is in the buffer is
  the beginning of one element and could neither be taken nor refused.
* `ChunkAlwaysFits`: the longest chunk fits behind it, so the length error of
  later chunks, which would leave bytes in the hash that nobody decodes, is never thrown.
* `OutputsInOneCall`: a call decodes at most 8 outputs: 7 whole ones fit in 255
  bytes, as the comment at `types.h:121` counts, and one more may have begun in the
  chunk before. The array has 10, so its guard is never met.
* `HashedIsDecoded`: once an output is decoded, every hashed byte was decoded or waits
  in the buffer.
* `ReadsTakeOrRefuse`: a read takes its bytes or leaves the buffer alone.
* `ParsedIsSerialized`, `MoreBytesAgree`: a parsed output is the one whose
  serialisation was hashed, wherever the chunk ended.
* `AmountIsDecimal`, `AmountFitsLine`: the text of an amount is its digits, grouped;
  and it fits in `g_amount[30]` for HTR and every symbol of up to 3 characters. With 4
  characters it fits for values of at most 18 digits, with 5 for 17; beyond,
  from 10^15 whole tokens on, the text is longer than the array: `format_value` is
  not told how much room it has.
* `AddressTextExact`, `PathShownWhole`: addresses and paths are shown exactly
  and whole. (`bip32_path_read` accepts the empty path, which has no text.)
* `WalkIsSkips`: sorting makes one pass enough, with repeated indices too.
* `OutputsNumbered`: the total on the screen is the number of the outputs shown exactly
  if every change index names an output of its own; then the outputs are numbered from 1 to the
  total. The code does not check the indices: with a repeated or absent one the total
  is wrong, always, and the review is as before.
* `TokenShownIsSigned`: what the user reads of a token is what is signed, up to a zero
  byte, and the amount line has the same symbol.
* `ChangeIsOwnAddress`: an output passes for change exactly when GET_ADDRESS would show
  its address for the path given. GET_ADDRESS answers a status word only, so the address
  shown is compared with what a wallet computes from the key that GET_XPUB answers for the
  path; the fingerprint in that answer is the one of the parent's key.

### Bounds

* `sign_tx`: `Modulus = 6` in place of 256, so the `uint8_t` counters do wrap
  within a run, change indices range over values no output has, and index 5 is the
  last value before the wrap. `BufferSlots = 4` above `MaxChunk = 3`, as the array of
  10 is above the 8 outputs that one call can decode (`OutputsInOneCall`); chunks of 0 to 3 elements give
  chunks with none, some and all of the outputs. `MaxChange = 3` allows change
  first, last, in a row and out of range. One token and one input are enough: both
  are counters that are consumed before the outputs.
* `apdu_io`: no bound. The module is finite: contexts, screens and outcomes are small
  sets, and the turn bit suffices to tell a command from the one before it.
* `token_registry`: two of three tokens share uid and joined letters, two share the
  symbol; two slots, so that the registry is both partly and wholly filled; two
  secrets, so that a signature can be older than the reset; transactions of up to two tokens.
  `v_token_message` and `v_token_array` need one slot only.
* `decode_buffer`: buffer, array, chunk and elements have their real lengths. Chunks of
  5, 9, 31, 36, 64 and 255 bytes end before, in and behind each element; up to 10
  outputs make it possible to fill a call. Two tokens and two inputs let a
  chunk end in the first and in the last of each. `SizeMod` is 1024: any width
  above the lengths gives the same.
* `conversions`: `size_t` has 24 values and all sizes, offsets and lengths are tried;
  counters have 4 and all lists of up to 4 change indices are; bytes of
  outputs and tokens are digits of base 4 with a hash of one byte and fields of up to
  two, all bytes of the places that matter. Values have up to 19 digits, as 2^63 has:
  the first six are any of 0, 1 and 9, the others repeat the last, which
  gives every length and thus every place of the commas. Base 58 is
  the real one, on up to five bytes and on the 25 of an address (the theorem has up to
  `MAX_ENC_INPUT_SIZE`). Paths have up to
  six components, one more than is accepted. The numbers scaled down are parameters
  of the modules; nothing in them compares a byte with a literal.

`conversions` does not check deadlock: inputs are finite and a behaviour ends with
the longest one. Every bound is a constant of its module and a guard of the action it
bounds.

### Fairness

`SignTx` has weak fairness of the device (a handler and its loop run to their
end: one thread, nothing preempts it) and of the user while a screen is up. The host has no fairness: it may
stop at any time. `ApduIO` has the same two: the thread runs when it is not waiting
in `io_exchange`, and the user answers a question that stays on the screen.
Without the user's fairness nothing could be said of commands that ask, as the
application has no timeouts. `TokenRegistry`, `DecodeBuffer` and `Conversions` make only safety claims and have none.

`CommandsEnd` of `SignTx` excludes transactions in which a change index equals the number
of outputs: such an index, which no output has, lets the counter jump over the
value it is compared with, and the screens go round until the user rejects or quits. `CommandsEnd`
of `ApduIO` excludes the review of outputs, which `SignTx` covers.

## 5. What the code does and its documentation does not say

| run | property | line | what |
|---|---|---|---|
| `v_whole_tx` | `ApprovalCoversWholeTx` | `ui/display.c:340` | a change index not decoded yet is counted as confirmed, so the final question may come before the last output. No unreviewed output is signed (`SignedOutputsReviewed` holds); what is signed is shorter than what was announced |
| `v_sha256d` | `SignaturesCoverTheData` | `handler/sign_tx.c:241` | "is the digest empty" is a test of its first byte; a digest that begins with zero is computed again from a finished hash |
| `v_delivered` | `SentIsDelivered` | `handler/sign_tx.c:228` | in the error exits of SIGN `io_send_sw(..) > 0` is false for success: the stored status word is dropped with `app_main`, and the command gets no answer |
| `v_bypass` | `BypassCancels` | `handler/sign_tx.c:542` | a SIGN before the approval is refused, but the transaction goes on |
| `v_token_pointers` | `ShownSymbolIsTheTokens` | `handler/send_token_data.c:19` | one token too many empties the registry under a transaction's pointers |
| `v_token_message` | `EntriesAreApprovedTokens` | `token/signature.c:27` | lengths are not hashed: one signature fits two tokens |
| `v_token_array` | `TokensFitArray` | `handler/sign_tx.c:333` | the announced number of tokens is not compared with the array |

The quotations are in `PROJECT.json` under `findings`.

Two more things deserve a look, although no line of the repository says otherwise and they
have no run of their own:

* The same look ahead that `v_whole_tx` shows lets `display.c:282` read a slot behind
  `buffer_output_len`. With four outputs, change indices 2 and 4, the outputs 0 to 2 in
  one chunk and output 3 in the next, the approval of output 3 leaves the counters at 5 and 2, and the
  screen asks about the third slot: output 2, verified change.
  `DisplayedOutputIsNext` states what is left to rely on.
* `g_amount[30]` is shorter than the longest amount line. `AmountFitsLine` has the exact
  boundary as what it expects.

## 6. What is proved

All theorems hold for every value of the constants that meets the named assumptions
of the modules. They have the form `Spec => ...`, but for those about
`Buffers`, which has no state: they are about its operators.

**SignTxProofs** (from `ModulusAssumption`: a modulus of at least 2, and
`SizesAssumption`: sizes are natural numbers, and the change array has at least one entry
and a length that a `uint8_t` holds). The safety properties are not inductive. `IndInv`
adds that the buffer holds the last outputs decoded, in order
(`BufferInOrder`); that `confirmed_outputs` and `display_index` stand for the same
output, modulo the width, and that all before it are reviewed
(`CountersCover`); that decoded change was verified
(`ChangeIsVerified`); and that between commands no output waits in the buffer
(`TurnMatchesContext`). `Skips`, the loop over change outputs, is stated as a
relation between its first and last counters, so that one lemma carries
`CountersCover` through every place that runs it. Results: `TypeCorrect`,
`Invariance`, `HostTurnCorrect`, `SigningCorrect`, `ScreensCorrect`, and
`Refinement`: every step is a step of `TxSigner` or a stutter. `DisplayCorrect`
needs a second invariant besides, proved from the first (`DisplayInvariance`): while an
output is on the screen `confirmed_outputs` is no change index and no counter has
reached its end (`ChangeNotAsked`); the display index passes the end of the buffer only
over a change output that is still to come (`BeyondIsChange`: of a walk that goes beyond, one step began at
that end); and the slots hold outputs of this transaction
(`StaleIsHashed`), which are reviewed by `CountersCover` once the display is beyond them.
`ChangeListCorrect` rests on `LongListUnread`: a change list that is too long comes
with no outputs, and no step changes either but a first chunk or an erasure.

**ApduIOProofs** (no constants, no assumptions). `IndInv` is `TypeOK` with
`ThreadMatchesIo`, which says for each place of the thread what becomes of the
command that waits: its question is on the screen with the right callback, or its
answer is stored and carries its turn, or there is none. Results: `IoTypeCorrect`,
`IoInvariance`, `ButtonsCorrect`, `WaitingCorrect`, `IoStateCorrect`,
`IoRefinement`.

**TokenRegistryProofs** (from `SlotsAssumption`: at least one slot, and
`BoundsAssumption`). The inductive invariant is the conjunction of the checked ones with
`PointersHold`: as long as the registry was not emptied under it, each pointer of a
transaction leads to a filled slot with the uid it was looked up for. That a lookup returns
the *first* slot needs the least element of a set of naturals, taken from the
well-founded induction library. Results: `RegistryTypeCorrect`, `Approvals`,
`SignaturesCorrect`, `ResetCorrect`, `RegistryCorrect`, `ShownCorrect`,
`KeepsEntries` (an action property).

**BuffersProofs** (from `SizeModAssumption`: the width is at least 2).
`SeekCurExact`: the two comparisons of `buffer_seek_cur` catch every sum that
`size_t` cannot hold. From it follow `ReadsTakeOrRefuse`,
`ReadPathTakesOrRefuses` and `OperationsStayInBounds`.

**DecodeBufferProofs** (from `BufferAssumption`: the longest element and a
chunk behind it fit in the buffer but for one byte, and the buffer in `size_t`;
`ChunkAssumption` and `CountsAssumption`). `IndInv` adds to the checked properties what
holds inside a call (`RoomInChunk`): only the first element taken can have begun in an
earlier chunk, so all outputs decoded but one came out of this one, and
`buffer_len` is bounded by what is left of it; and that the context is empty when there
is no transaction. Results: `Inductive`, `TypeCorrect`, `GreedyDecoder`,
`RoomForChunks`, `ArrayOfOutputsFits`, `SignedIsDecoded`. The lemmas about
`Buffers` are cited by name.

**CommonLemmas** (no assumptions). Functions that the model defines by recursion
(a loop of the code as a function of the turn, `itoa` as a function of the value) are
`CHOOSE f : f = [...f...]` to the prover, which says nothing until it is known that
such an f exists. `LoopExists` builds it for a loop of n turns, `DescentExists` for a
recursion that goes down in the natural numbers. `NumbersUpTo` is the induction over the
turns, as a statement about a set of numbers, because the library's induction theorems
take an operator as a parameter. The last section is about digits in any base and the
numbers they denote: powers as a function, the bounds `0 <= number < base^n`, that digits
behind zeros denote the same number (`NumberBehindZeros`), and that one number has one
sequence of digits of a length (`SameDigits`).

**ConversionsProofs** (from the assumptions of `Conversions`: `size_t` holds the
longest output and token, bytes have an even base, a character is not zero). A state
of `Conversions` is an input, so what is inductive is that it is an input at all
(`InputOK`, lemma `Inputs`), and each theorem reduces to a statement about one input
of its kind. Inputs are *not* bounded by what TLC tries: `InputOK` admits every sequence
of bytes, digits, components or indices up to the length that the code admits. Every
theorem but `ChangeAddressIsOwn` says both: `InputOK => P`, of all those inputs, and
`Spec => []P`, of those that a behaviour reaches (whose digits `MaxFreeDigits` limits).
Results:

* `BufferReadsExact`, with the lemmas of `BuffersProofs`.
* `ShownOutputIsSigned`: lemmas give `parse_output` in closed form (its length and fields,
  when it asks for more, when it refuses). That a number's bytes are the ones it was read
  from, for every base, rests on the uniqueness of quotient and remainder (`HighLow`);
  a value of 8 bytes, stored negated, comes out below 2^63.
* `ChunksDoNotMatter`, from the same closed form.
* `TokenIsShown`, from a closed form of `parse_token`.
* `ChangeAddressIsOwn`: compression, hash and address agree for `verify_change`, the output
  screen, GET_ADDRESS and GET_XPUB.
* `AddressTextIsExact`: for every input of up to `MAX_ENC_INPUT_SIZE` bytes. The carry
  loop turns each digit and what was carried to it into a new digit and a carry of the
  same value (`AddInv`); added up, the digits denote 256 times the old number plus the
  byte, if nothing is carried out of the array and nothing is left when the loop stops.
  Neither happens, because `OutputSize` is enough: 256^8 < 58^11 gives
  256^n <= 58^OutputSize(n) (`Capacity`); and above `stop_at` all digits are still zero,
  so that a spent carry has nothing left to do there.
  Decoding is repeated division by 256, each pass giving the next byte from the end;
  that the digits come back follows from `SameDigits`. The 34 characters of an address
  follow from its first byte, 40: 58^33 <= 40 * 256^24 and 41 * 256^24 <= 58^34. The theorem
  also states, without the length of 3 at which TLC's integers end, that text
  and bytes denote the same number.

**ScreenProofs** (from the same). Results:

* `ShownAreNumbered`: by the cardinalities of intervals and sets of indices. A list is a
  surjection onto the indices it names, so that they are as many as its entries only if
  none is named twice (`NamedOutputs`); the subtraction, even where it wraps around, gives
  the number of outputs shown in no other case.
* `SortedWalkSkips`: the loop of `inplace_selection_sort` keeps the set of values and puts
  the least of the rest in front; the loop of `skip_change_outputs` over a sorted list has,
  after each turn, passed a run of consecutive change indices and no other
  (`HasSkipped`); and one pass is then enough. Counters wrap at any modulus.
* `AmountShownIsDecimal`: the loop of `format_value` over n digits from phase c has written
  n characters and `Commas(c, n)` commas, each digit behind those that precede it
  (`IsPlaced`). Counted from the right, with the phase that the code computes from the
  length, this puts the commas in every fourth place (`WholePlaces`).
* `AmountLineFits`: from the length of that text.
* `PathIsShownWhole`: a component below 2^31 is printed in at most 10 digits, so the text
  of i components has at most 12 i characters, and none of the up to fifteen `snprintf`
  of a path that `bip32_path_read` accepts is cut off.

## 7. What is only model-checked

The two `CommandsEnd`: liveness under fairness is beyond the prover. All invariants and
action properties that the passing runs check are theorems. The violations of section 5 are
counterexamples and need no proof.

## 8. What is not modelled

* Derivation, ECDSA and hashing: they call the operating system's library. Their
  failures are outcomes of the handlers, of `sighash_all_hash` too; a hash that fails is
  taken to have absorbed nothing of the chunk. `Keys` takes a hash to be equal to another only
  when the hashed bytes are.
* Functions that nothing in the program calls: the little-endian reads, all writes but
  the one of the status word, `format_i64` and `format_fpu64`. (`buffer_seek_set`,
  `buffer_seek_end`, `buffer_move` and `base58_decode` have no caller either; they
  are modelled because the others are checked against them or beside them.)
* The opcode errors of a script in `DecodeBuffer`: a refusal is one whatever its
  reason; `Deserialize` has them.
* The operating system: taken to deliver one command at a time, to run button
  callbacks inside `io_exchange`, to write flash atomically, and to restart the
  application at will. It is modelled as far as `io.c` and `main.c` use it.
* The text of menus and of the about page, which have no state.
* Unit tests, functional tests, the fuzzer and the host-side stubs, which are not part of the
  program. They were read for what they promise of it.

## Running

    tlc -workers 2 -config SignTx.cfg MCSignTx
    tlc -workers 2 -config ApduIO.cfg MCApduIO
    tlc -workers 2 -config TokenRegistry.cfg MCTokenRegistry
    tlc -workers 2 -config DecodeBuffer.cfg MCDecodeBuffer
    tlc -workers 2 -config Conversions.cfg MCConversions
    tlapm SignTxProofs.tla
    tlapm ApduIOProofs.tla
    tlapm TokenRegistryProofs.tla
    tlapm BuffersProofs.tla
    tlapm DecodeBufferProofs.tla
    tlapm CommonLemmas.tla
    tlapm ConversionsProofs.tla
    tlapm ScreenProofs.tla

A configuration named `V_<property>.cfg` belongs to `MCSignTx`,
`MCApduIO` (`V_SentIsDelivered`) or `MCTokenRegistry` and ends with the counterexample to that property.
