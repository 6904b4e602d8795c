# oaverify in TLA+

Models, model-checking runs and machine-checked proofs for the parts of
oaverify that keep state over time. Paths below are relative to the
repository; `sv` stands for `packages/stream-validator/src`.

- [The system](#the-system): components, state, operations, what is hard
- [The modules](#the-modules): what each models and how it maps to the code
- [The runs](#the-runs): what each checks, its bounds, what it shows
- [Fairness](#fairness)
- [The proofs](#the-proofs)
- [Disagreements found](#disagreements-found)
- [Not modelled](#not-modelled)
- [Plan](#plan)

`PROJECT.json` holds the same facts for tools: the component list, the runs,
which lines of the source each definition stands for, one seeded bug (mutant)
per checked property, the hazards of the code, and the theorems.

## The system

oaverify validates HTTP traffic and JSON against OpenAPI documents. Most of its
packages are functions of their arguments. The places that keep state while other
code runs, or whose worklists, caches and scans make the order of steps decide
what happens, are the streaming validator, the Express and Fastify adapters, the
spec resolver, and the router with the HTTP validator around it.

### Streaming validator (`packages/stream-validator`)

A Node `Transform` that validates a JSON document as it passes, echoes it, and
can drop, rename or append members on the way. It is a chain of three machines
that call each other synchronously.

**Tokenizer** (`sv/tokenizer/tokenizer.ts`)
- *State.* The parse state, the stack of open containers, the token being read
  (its start, its bytes, whether it is a key), the absolute offset, a byte limit
  and a span limit set by the spine, caps on keys and numbers.
- *Operations.* `write(chunk)`, `end()`, `setByteLimit`, `setSpanLimit`,
  `dispose`. A string's body is scanned in batches that end at a quote, an
  escape, a limit or the chunk, each decoded by a streaming `TextDecoder`.
- *Interaction.* Calls the spine's `JsonEventHandler` methods in the middle of
  `write`; they may throw, set limits or dispose of the tokenizer.
- *Hard.* State and stack must agree after every close; token memory is bounded
  by caps compared before each byte; a number ends only at the byte behind it
  or at the end of input; a character split across writes is held by the
  decoder and again, for its offset, by the tokenizer; text flushed late must
  be counted and must part two escapes that would make a pair.
- *Correct when.* It accepts exactly the JSON texts, refuses at the first
  impossible byte, and reports tokens with the text they have, however the
  input is cut.

**Spine: member editing** (`sv/spine/spine.ts`)
- *State.* A frame per open container (with the keys it has put out and the
  start of the undecided member), the open discard, the armed byte limit, the
  failure count and a deferred budget.
- *Operations.* One handler per tokenizer event, `decideMember`,
  `onByteLimit`, `dispose`, `memberPrefixStart`, `openDiscardStart`.
- *Interaction.* Calls hooks and listeners, which are user code and may destroy
  the stream; adds edits to the engine's list.
- *Hard.* Commas when members go; colliding names after a rename; a failure
  budget reached in the middle of a member under `detach`; one byte limit for
  two kinds of span.
- *Correct when.* The edits it queues, applied to the input, are the document
  the hooks asked for, and its limits are armed only while their span is open.

**Spine: what it holds** (`sv/spine/spine.ts`, `value-builder.ts`)
- *State.* An open island (a container built whole for the in-memory engine),
  the text of an open string, an open TEE with a sub-spine per branch, each
  of which has the same state again; the reported peak; the regions of
  `SpanLimits`, shared by the root and all sub-spines.
- *Operations.* `beginContainerIsland`, `forwardIsland`, `finalizeIsland`,
  `beginTee`, `teeFeed`, `finalizeTee`, `releaseSpans`, `onStringStart`,
  `onStringChunk`, `onStringEnd`, `SpanLimits.set` and `clear`.
- *Interaction.* `SpanLimits` tells the tokenizer the earliest limit; the
  tokenizer calls `onSpanLimit` when a byte reaches it.
- *Hard.* Regions of several branches open and close in any order in two
  arrays with removal by swapping; strings that are dropped half way; three
  checks of the same cap with different offsets.
- *Correct when.* A region is open exactly while a spine holds something
  under it, nothing outgrows its cap, and only a value too large is refused.

**Engine** (`sv/engine/stream-validator.ts`)
- *State.* `totalBytes`, the hold (`heldBase`, `heldLength`), pending edits,
  `sealed`, `finished`, `destroyed`, the result promise.
- *Operations.* `_transform`, `_flush`, `_destroy`, `flushEdits`,
  `flushResolved`, `flushHeldVerbatim`, `applyBudget`, `releaseInput`.
- *Interaction.* `push` runs the consumer's listeners inside the call.
- *Hard.* Destruction at any push or hook; a refused chunk in mid document;
  `detach` copies the rest raw behind a half edited document; a number ended
  by the end of input can reach the budget.
- *Correct when.* The output is the edited document however the input is cut
  into chunks; what was dropped never leaks; the result always settles.

### Express adapters (`packages/oav-express4`, `packages/oav-express5`)

- *State.* Per response: the mark of `validateResponses`, the replaced `send`,
  the `handled` flag. Per request: what Express runs next.
- *Operations.* `validateRequests`, `validateResponses`, the wrapped `send`,
  `check`, `handleFailure`, `sendIfUnsent`, `forwardable`.
- *Interaction.* Both run an `onError` of the application, maybe asynchronous,
  beside the route handler and the application's error handler; answers of all
  four go through the same wrapped `send`, which Express calls again for an
  object.
- *Hard.* Who answers, how often a check runs, and what a falsy rejection means
  to Express (`next(undefined)` goes on).
- *Correct when.* A refused request stays out of the route, each response is
  checked once and in the form that goes out, and a held response is answered.

### Fastify adapter (`packages/oav-fastify`)

- *State.* On the request: the mark `REQUEST_REFUSED` and the mark `VALIDATED`.
  In Fastify: the replies in their `onSend` hooks and `reply.sent`.
- *Operations.* `validateRequests` (preValidation), `validateResponses` (onSend),
  `markRequestRefused`, `unmarkRequestRefused`, `routeWasMatched`.
- *Interaction.* Both await an `onError` of the application; replies of the
  refusal, of the handler and of the error page go through the same hooks, among
  them other hooks of the application.
- *Hard.* One mark covers a window around an awaited callback; `reply.sent` turns
  true only when every hook has answered; the error page of a hook that throws is
  a reply of its own.
- *Correct when.* A refusal stays the response and is not checked against the
  document, a handler's bad reply never goes out unreported, and what was sent is
  answered.

### Spec resolver (`packages/spec`)

- *State.* Documents read, by reader key, `visiting`, component names by target,
  places of stitched fragments, two queues, the holes, the discriminators met.
- *Operations.* `walk` and `walkChild`, `claim`, `queueStitch`, `drainHoists` and
  `drainStitches`, `readDoc` and `readFragment`, `fixUpDiscriminatorMappings`; the
  names and places are those of `HoistNames` and `StitchedExternals`.
- *Interaction.* The walk fills the queues, each drain walks again and may fill
  both; the reader is the application's.
- *Hard.* Cycles between files; names the author has taken; fragments inside one
  another under different kinds; files that cannot be read, in two modes.
- *Correct when.* Every reference of the result leads somewhere, no name or place
  is given twice, no reader key is read twice, mappings follow the branches that
  were renamed, and it ends.

### Router, HTTP validator and Fetch bridge (`packages/router`, `packages/validator`)

- *State.* The sorted routes; per document the operation cache, filled by
  requests, lookups and `precompile`, its response side later than the rest; the
  counter of a Fetch body being read.
- *Operations.* `createRouter`, `match`, `matchCompound`, `methodsDeclaredOn`;
  `validateRequest`, `validateResponse`, `matchRoute`, `getOperation`, `precompile`,
  `validateFetchRequest`, `validateFetchResponse`; `combineValidators`,
  `ownerFor`; `readBody`.
- *Interaction.* A composite sends a request to the member that owns its route, which
  answers alone, while its `matchRoute` joins what all members allow; a
  Fetch message is awaited, and other calls come between.
- *Hard.* A scan without backtracking replaced a lazy expression; HEAD served by
  GET in four places; a cache that a collecting precompile fills in part; platform
  parsers that swallow the failure of the stream they read.
- *Correct when.* Captures are those of the expression, a 405 names what the validator
  that gives it would answer, routes that take the same requests are refused, no earlier call shows
  in an answer, and no body past its limit is ever used.

### The rest

The schema compiler, the code generator, formats, metaschemas, overlays, linting,
document checks and the command line are functions of their input, and the
repository tests them as such. They make up most of its lines.

## The modules

| Module | Models | Used by |
|---|---|---|
| `JsonTokenizer` | the tokenizer's state machine, one byte at a time | `JsonReader`, `MemberEdits`, `BufferedRegions` |
| `JsonReader` | the tokenizer fed by a source, with its events | `JsonText`, `JsonReaderProofs` |
| `JsonText` | the JSON grammar over the text alone, as the reference | run `json_text` |
| `MemberEdits` | the spine's handlers for member editing, and the byte limit | `StreamEngine`, `MemberEditsProofs` |
| `StreamEngine` | the Transform: hold, flushes, policies, destruction, result | `EditedStream` |
| `EditedStream` | the edited document from the input and the hooks' answers alone; all properties of the stream | `MCEditedStream`, `StreamEngineProofs` |
| `SpanLimits` | the class of that name: two arrays and the limit last told | `SpanOwners`, `BufferedSpine` |
| `OpenRegions` | abstract: a map from spine to region, and the earliest limit | refined by `SpanOwners` |
| `SpanOwners` | `SpanLimits` with its owners in any order | `StringScan`, `SpanOwnersProofs` |
| `StringScan` | the body of one string, scanned in batches and decoded, under the limits of `SpanOwners` | `MCStringScan` |
| `Classifier` | which schemas can stream: the walk, its references and the fixed point | `Applicable` |
| `Applicable` | the schemas that apply to a value, and how a spine handles them | `BufferedRegions` |
| `BufferedSpine` | islands, held strings and trees of TEEs | `BufferedRegions` |
| `BufferedRegions` | tokenizer, spine tree and regions under the span limit | `MCBufferedRegions` |
| `ExpressAdapter` | one request through both middlewares of either adapter | `MCExpressAdapter`, `ExpressAdapterProofs` |
| `FastifyAdapter` | one request and its replies through the hooks of the adapter | `MCFastifyAdapter`, `FastifyAdapterProofs` |
| `SpecResolver` | `resolveSpec`: walk, hoists, stitches, drains, mappings | `MCSpecResolver`, `SpecResolverProofs` |
| `Router` | templates, their order and their match | `HttpValidator` |
| `FetchBody` | `readBody` with its counter and the platform's parsers | `HttpValidator` |
| `HttpValidator` | documents behind one validator, their caches, lookups, precompile, Fetch messages | `MCHttpValidator`, `HttpValidatorProofs` |

**Bytes.** A byte is a class: `{ } [ ] , :` stand for themselves, `Q` is a
quote, `n` a digit, `-` a sign, `w` whitespace, `t` a whole literal; anything
else is text inside a string and an error outside. Offsets are exact counts
of these bytes. UTF-8 and escapes are the subject of `StringScan`, whose bytes are
numbers; fractions, exponents and spelled literals would only lengthen tokens.

**Tokenizer.** `Scan(t, b)` is one turn of the loop in `write`: it returns the
next record and the event reported, or an error. `FinishNumber` and
`EndsCleanly` are `end()`. Events are returned rather than called, and each
composition calls its handler where the code does.

**Member editing.** The spine runs inside one synchronous `write`, so its state
is one record and each handler an operator from record to record. What the
schema and user code answer in one event (a decision, a failing keyword, an
opaque value, destruction) is a record `u` the step chooses. A thrown error is
the field `thrown`.

**Engine.** `pc` says where the driver stands. A write is one `Parse` step per
byte and each `push` is a step of its own, because a hook or a data listener
may destroy the stream inside each. Pending output is `queue`, and `after` is
what follows the flush. `out` records each pushed byte with its input offset.

**Spans.** `SpanOwners!Open` is `openSpan` and `Close` is `closeSpan`, also of a
spine that holds nothing, as `releaseSpans` does. `BufferedSpine` keeps the tree
of sub-spines in the spine's own record; `Feed` is one event to one spine, which
goes to the open TEE, to the open island, or is streamed. What applies to a value
is a node, a list of schemas, and `schemas` says what the spine does with each.
`BufferedRegions!Turn` compares the span limit before each byte as `write` does.

**Classifier.** A schema is a record of what its keywords ask for and where it
leads; a reference is a link to its target. `Collect` is `addTree` with the references
followed, `Fails` what throws, `Settle` the rounds of the fixed point. `Handlings`
applies `expand`, `computeKind` and `beginTee` to every node a value can meet:
the code does it when a value comes and remembers the answer for each schema,
`BufferedRegions!Init` does it for the chosen root before the first byte.

**Express.** `at` is the next layer; `next(err)` is an answer the error handler
owes (`owed`). A callback is running from its call until it settles and all else
goes on meanwhile; a synchronous callback settles at once, which is one of the
interleavings. `Send` is the wrapped `send`, with Express's second call for the
bodies it serializes; the two versions differ in which bodies those are.

**Strings.** `StringScan!Turn` is one turn of `write` inside a string: limits and
the key cap first, then `ScanBody` (one batch of `scanStringBody` with
`finishString`), `StepEscape` or `StepUnicode`. `decoder` is what `TextDecoder`
holds, `pending` the tokenizer's own copy of it under `utf8: "reject"`. `Decode`
is the platform's decoder, written from `firstIllFormedUtf8` and from its use.
`Write` is the next chunk; `Hold` is the region `onStringStart` opens, and `LetGo`
the handler of a slice that closes one, which is how a limit moves inside a chunk.

**Fastify.** Fastify is external: `ReplySend` starts a run of the `onSend` hooks
and `ReplyWrites` ends it. A hook that awaits nothing answers before the code that
called `send` goes on, which `Settled` says; `OtherHook` takes its time. `refused`
and `validated` are the two marks; `OnErrorReturns` is the code behind the awaited
`onError`, with its look at `reply.sent`.

**Resolver.** A document is a tree of addresses; `links` says which node holds a
`$ref`, and `stack` is the recursion of the walk, a frame per call. `EnterNode`
has one disjunct per way a node is treated: its schema reference is followed
(`FollowSchemaRef`), its content inlined, stitched, left, or copied. `Hoist` and
`Stitch` take the head of a queue and start a walk; the phase goes back to the
hoists while there are any. What the documents hold is chosen in `Init`, and how the
caller spelt the entry: `world.entry` is `options.entry`, the key it is read and kept
under, and `Entry` its `entryIdentity`, the key references to it resolve to.

**Router and validator.** A segment is literals around names, a token is items
that are characters or escapes. `Scan` is `matchCompound`, `RawCapture` its wire
text, `Before` the order of the routes, `Answer` is `match`. `HttpValidator` sends
each request through `Dispatched` (`ownerFor`, and the answer of that owner alone) to
`CacheFor`; `Routed` is what `matchRoute` makes of all members. `bodies` is the lazy
response side. A schema is well formed or malformed, which is what the caches can
get wrong. A read in `reads` is one `readBody`: it is chunk by chunk beside all
other calls, and `ParserOutcomes` lets the platform fail, replace or swallow.

## The runs

| Run | States | Shows |
|---|---|---|
| `json_text` | 981 174 | The tokenizer against the grammar, on every text |
| `string_scan` | 1 228 682 | Strings in batches: text, limits, offsets, regions |
| `edited_detach` | 305 648 | Output under edits and a detach anywhere |
| `edited_terminate` | 79 665 | Limits, leaks, verdicts and settlement |
| `buffered_regions` | 4 680 837 | What is held and why, how much, and what is refused |
| `buffered_refusal` | violation | A disagreement described below |
| `express_adapter` | 7 188 | Refusals, checks and answers of both adapters |
| `fastify_adapter` | 59 637 | Refusals, checks and answers among hooks |
| `fastify_refusal` | violation | A disagreement described below |
| `spec_resolver` | 675 577 | References, names, places and the drains' end |
| `http_validator` | 121 650 | Captures, 405, collisions, caches, bodies |
| `precompile_covers` | violation | A disagreement described below |

**json_text.** Every text of up to 9 bytes over 12 classes, with at most 2 bytes
inside strings and 1 of whitespace, key cap 3, number cap 2. Nine bytes hold an
object in an array with a separator behind it, and each cap is passed by a
token on either side.
- `ReadsJson`: accepted exactly when the grammar derives it, refused at the
  first byte after which no text continues, caps included.
- `EventsInText`: an event's key and offsets are those of the text.

**string_scan.** Every pair of pieces (characters of one to four bytes, four ways
to break one off, seven ill-formed sequences, escapes, both halves of a pair, a
control character), left open or closed, and longer strings where broken pieces
lie between two halves or two letters; values and keys, both `utf8` modes; key
caps of 1 and 5, a byte limit of 4, span limits of 3 and 5; writes of 1, 2 and 30
bytes; batches of 3 for capped keys. Every piece thus meets a cut, a limit and
another piece at every byte. Three owners, so that a removal from `SpanLimits` can
take the first, a middle one or the last.
- `SlicesFollowText`: the slices so far are the text of the bytes up to the end
  the last one claims, with their count, and so is the closed string.
- `RefusedAtTheLimit`: the byte refused is that at the earliest limit, with every
  character before it delivered.
- `MalformedLocated`: under `reject` the error names the first byte that belongs to
  no character, and no text is made up.
- `ImplementsOpenRegions`: every step of the arrays is a step of the map from spine
  to region, `OpenRegions`.

**edited_detach, edited_terminate.** Eight documents with objects in objects and
arrays, arrays that are empty and not, duplicate keys, punctuation in strings, whitespace around keys, a syntax
error and a cut; chunks of 1, 4 and 30 bytes (every split, some, none); every
answer of the hooks at every member and every close, and destruction everywhere. `edited_detach`
runs with and without hooks (`EditModes`), with a budget of one failure, so that
the seal can fall on any byte, and a total cap of 27 that some documents exceed.
`edited_terminate` uses a prefix cap of 3, a drop cap of 6 and a total cap of 20,
each below what some document needs.
- `PushedIsEdited`: what was pushed is a prefix of the edited document, all of
  it at a clean end. The edited document is computed from text positions and
  answers, not from edits or offsets the engine keeps.
- `OutputIsJson`: JSON in, JSON out, whatever is dropped, renamed, or appended to an
  object or array that closes.
- `DroppedStaysGone`: no accepted byte of a dropped member is pushed, also by a
  stream that fails.
- `RetentionBounded`: between calls only one undecided member prefix is held,
  and the part the cap counts is within it.
- `ReleasedInput`: a destroyed or sealed stream keeps no input, also when the
  hook that destroyed it went on inside the parser.
- `LimitMatchesSpan`: the byte limit is armed exactly while its span is open.
- `VerdictHonest`: valid means all input parsed without a failure.
- `QuietOnceDestroyed`: nothing is pushed once destroyed.
- `EchoIsVerbatim`: without hooks the output is the input, refused chunks included.
- `ResultSettles`: as its name says.

**buffered_regions.** Every text of up to 7 bytes over 10 classes, against nine
roots: an array whose rows are TEEs with an island, a pattern string and a TEE of
its own as branches; an array whose elements are TEEs of two equality strings
and a uniqueItems island; the first TEE as the root; a uniqueItems array; a circle
of references, through composition, with an object constant at its far end; an
array whose elements wait and which itself does not; and three that cannot be
streamed, for a keyword two references away, a reference to nothing, and a bound
that is enforced (`enforceBounds` is on, `parity` off). The cap is 4 bytes and uniqueItems 1, so a region that opens at offset 0, 1 or 2 is
refused inside the bound, and so is one that opens after another closed.
- `HeldWithinCaps`: islands and strings stay within the cap, equality text within
  its longest candidate, uniqueItems arrays within their count.
- `RefusesTooLarge`: a buffer refusal names a value that starts at the offset less
  the cap and is not over within the cap, by the text alone.
- `PeakCoversHeld`: at the end nothing is held, and the reported peak is at least
  the total spanned by open regions at any one moment.
- `HeldAsNeeded`: a value is fanned out only if nothing that its schemas couple with
  must see it whole, and is held whole only if something must; no value meets a schema
  that cannot be streamed. The circle needs more than one round of the fixed point.

**express_adapter.** Express 4 and 5, both orders of the middlewares and
`validateResponses` mounted twice; two sends of the route handler (one to check
and one to race), every form of body; three owed errors.
- `RefusedUnrouted`: the route runs only for a valid request or when `onError`
  called `next()` itself, whatever it rejects with.
- `CheckedOnce`: one check per response, and none of the answer to a failed one.
- `BadIsReported`: a bad body of the handler goes out only after `onError` was
  told, though Express sends an object twice.
- `HeldIsAnswered`: a body held for `onError` goes out, or another answer does.

**fastify_adapter, fastify_refusal.** Applications without `validateResponses`, with
it alone, twice, and before or after another `onSend` hook; routed or not; replies
that are bad or not and watched or not; callbacks that send, return or throw, each
before or after the hooks of an earlier reply are through.
- `RefusalStands`: where only the adapter has `onSend` hooks, a refusal that was sent
  is the response and the handler does not run.
- `HandlerOutputChecked`: a handler's bad reply is never written without a report.
- `ReportScope`: at most one report, only of a routed request, none of the refusal.
- `SentIsAnswered`: a reply that was sent ends in a response.

**spec_resolver.** An entry and two files that refer to themselves, to each other
and back, as operations, schemas and whole documents, to fragments inside one
another and to a node that is missing; a file that cannot be read; both values of
`onUnresolved`; 3.0 and 3.1 treatment of siblings; the author's own place under the
root extension. Suffixes collide on purpose, so that names are widened. The entry is
spelt as its identity or, in a circle back to it, with a `./` before it, and can be read
again under its identity or not.
- `Closed`, `NamesOwn`, `MountsOwn`, `ReadOnce`, `MappingFollows`, `Resolves`: the six
  conditions listed for the component. `ReadOnce` is by reader key: a document the caller
  spelt otherwise than its identity has two, and is read once under each.

**http_validator, precompile_covers.** Documents whose templates compete: compound
against plain parameters, parameters side by side, one literal spelt two ways, one
path under two methods, two segments that pull apart; alone and two behind one
validator, among them two members that have the same paths with different methods, with `onOverlap` either way; malformed schemas on either side. Tokens
have separators that repeat, escapes of one and two units and one that is invalid.
One Fetch body is read at a time: of 0 or 3 bytes, in chunks of 1 and 2, any declared
size, limit 2 or none.
- `CapturesAreLazy`: the scan matches and captures what the anchored lazy expression
  would, which is defined as the least of all ways to fit.
- `WireCapturesDecode`: the wire text of a capture decodes to it, and is absent
  exactly when no run of the token does.
- `AllowedIsHonest`: a refusal names exactly the methods that the first member with the
  path would answer, `matchRoute` those that any member would, and neither says so of what
  some member has an operation for.
- `CollisionsRefused`: no two routes of an accepted document take the same requests.
- `CachesNeverShow`: a call answers as it would first, whatever came before.
- `BodyIsWhole`: only a whole body within its limit is used, and a passed limit is
  what is reported.

Deadlock is not checked where the system may stop: a stream or a string that ended, a
text at its bound, an application with nothing left to answer, a document resolved.

## Fairness

- *Stream.* `WF(Engine)`: a call runs to its end, since nothing in it waits.
  `WF(Source)`: the source goes on to write or to end. A source that stops for
  ever gets no result and the code promises none. `Destroy` is not assumed.
- *Express.* `WF(ReportSettles)`: `onError` returns, throws or its promise
  settles. `WF(ErrorHandler)`: an error handler answers, which Express's default
  one does. Nothing is assumed of the route handler or of a refusal.
- *Fastify.* `WF` of hooks and callbacks: they settle. Nobody has to send anything.
- *Resolver.* `WF_vars(Next)`: a walk, awaited or not, always goes on; the reader
  answers.
- The other specifications state safety only and assume nothing.

## The proofs

**`JsonReaderProofs`**: for every alphabet, cap and text.
- The invariant `Inv` says: the text is a sequence of bytes, the position is
  within it, and the tokenizer is `Sound`. `Sound` has three parts. Its type;
  `Matches`, state against stack; `Bounded`, token bytes against offsets.
- `StateMatchesStack` and `TokensBounded` are not inductive as they stand. A
  string that is a key must be in an object *while it is read*, and the caps are
  compared by offsets while memory is in `buf`, so `Bounded` ties the two:
  `start + Len(buf)` (and the quote) is `pos`.
- There is a lemma per operator (`PopType`, `AfterValueSound`, `CloseSound`,
  `BeginStringSound`, `InStringSound`, `InNumberSound` and so on) and `ScanSound`
  joins them. They open `MemberEditsProofs`, with those that say where the events of
  a step lie and what they do to the stack (`CloseTells`, `OpenTells`, `ScanTells`), so
  that the stream's proofs share them. The module's other constants and their
  assumptions come along with it; no proof about the reader cites one.
- `EventsInText` needs to know what the tokenizer has read of the token it is in:
  `Reads` says it byte by byte (the buffer of a string is the text behind its quote; all
  of a number since its start is number bytes), and `Located` is the property of one
  event. `Traced` joins them with the chunk's events; a cut between chunks keeps both.
- Theorems: `Soundness`, `StateAndStack`, `TokenMemory`, `EventsInTextAlways`.

**`MemberEditsProofs`** and **`StreamEngineProofs`**: for every document, chunking,
limit, and answer of hooks and listeners. The first has the lemmas about one byte or one
event, which are about records alone; the second those about the driver, the text and
the output, and the theorems.
- Each handler of the spine `Moves`: it leaves the tokenizer alone, forgets no failure,
  revives nothing, throws for the budget only when something failed, and opens or closes
  as many containers as its event. There is a lemma per handler; `HandleMoves` joins
  them and `StepTurns` carries them through `DeliverEvents`.
- That needs `Sized`: the tokenizer's stack is as deep as the frames and the opaque
  containers together. A key, a comma or a close therefore always finds its frame, which
  the code reads without asking. It holds only until the spine throws or is disposed.
- `Plain`: without hooks no handler edits or discards.
- The driver's invariant `Inv`: `Over` (where a stream that is over stands, and that a
  destroyed one never flushes), `Progress` (a live stream has read between two calls what
  it accepted, and what the continuation of a flush relies on), `Bare`, and `Gone` (what
  was destroyed or sealed is empty once idle). A hook may destroy the stream inside the
  parser, so the spine is disposed while the call still runs: `ReleasedInput` is not
  inductive without `Over`.
- `Echoed`: what was pushed, with what is queued, is the input up to `fed`. `EchoJoins`
  and `EchoPrefix` are its lemmas on sequences.
- `LimitMatchesSpan` speaks of the limit and of what is open, which only `Spans` makes
  inductive. Four parts, each against the text's containers: `Kinds` (each frame is of
  its container's kind), `Holds` (a prefix is held by the innermost object only, and
  exactly from a brace or comma until a value starts), `Drops` (the depth of a discard
  and what nests in it are the containers that are open) and `Armed` (the limit is of the
  kind that is open). Every event is a step of `Spans` by `ScanFollows`, which says what
  place in the member the tokenizer left.
- `RetentionBounded` is proved of a member byte by byte. `Stretch` says for each place in
  it (before the key, in it, behind it, in a number) how prefix, key and limit lie, and
  that no separator is inside a token. It needs `Reading`: whether a byte is quoted is
  the parity of the quotes before it, and holds exactly while the tokenizer reads a
  string. `Retains` is the driver's part: what is held starts at or before the waiting
  prefix, and exactly there between calls; a flush that is to hold is not a stopped one.
  `StretchBounds` then counts: the separators lie in two intervals, one on either side of
  the key, that together are no longer than the limit.
- `DroppedStaysGone` speaks of the output and of the members of the text, which only the
  spine connects: a byte is safe because an edit the spine added long before lies over the
  member the text has there. `Withholds` says it between two steps, in four parts.
  - `Placed`: what the spine reads is where the text has it. The depth of the text is the
    depth of the stack (`Deep`), the key that is read opens a key of the text (`KeyRead`,
    `Named`), and the member that is being dropped starts no later than behind the brace
    or the comma before its key (`Dropping`).
  - `Cut`: the pending edits start at different bytes, end within what was read and before
    the prefix that waits, and leave the start of an open drop alone. So a flush never
    cuts one in two, and their order has no ties.
  - `Handled`: every member a hook dropped ends before the hold, is covered by a pending
    edit, or is the one that is open, which is deleted up to each flush.
  - `Free`: nothing pushed or queued lies inside such a member. A drop that is decided
    now is behind all that was pushed, because what was pushed ends at `base` and a
    prefix that waits is never flushed.

  A hook that destroys the stream, and a fatal error, leave the edits half made: `Cut` and
  `Handled` are claimed only while the spine is not `Lost`. A budget that throws is not
  that: the hold is flushed with the edits made so far, and `DeliverDeleted` shows they
  are complete.
- `FlushIs` is what the loop of `flushEdits` does with edits in order, whatever their
  number: nothing comes out that a deletion covers. It takes the fold's own definition
  (`FoldingExists`, `SplicedExists`) and the fact that ranks of edits which start at
  different bytes are a permutation (`InOrderIs`).
- `DriverSound`, `VerdictHonestAlways`, `ReleasedInputAlways`, `QuietOnceDestroyedAlways`,
  `EchoIsVerbatimAlways`, `LimitMatchesSpanAlways`, `RetentionBoundedAlways`,
  `DroppedStaysGoneAlways`. Assumptions: `EngineAssumption`, which says that documents are
  byte sequences shorter than `Infinity`, and `MemberEditsAssumption`, which says that
  limits are positive and names are byte sequences.

**`SpanOwnersProofs`**: for any number of spines and any limits.
- Assumptions: `InfinityAssumption` and `OffsetsAssumption`, which say that
  `Infinity` is a number above each limit, as `Number.POSITIVE_INFINITY` is.
- The invariant is `Typed` and `Paired`. `SwappedOut` says what the arrays hold
  after entry `i` is replaced by the last: every other entry stays, at its place
  or at `i`. `OpenKeeps` and `CloseKeeps` are the two actions.
- `PairedAlways` is that invariant. `Refinement` maps the arrays to the function
  from owner to limit: `OpenMaps` and `CloseMaps` show that a step of the arrays
  is the step of the map, and closing nothing is a step that changes nothing.

**`ExpressAdapterProofs`**: for every chain that mounts `validateRequests`, any
number of sends and of owed errors.
- `RefusedUnrouted` speaks of the route handler only. Its invariant `Behind` says
  it of every layer behind a `validateRequests`, since any may come next.
- `CheckedOnce` needs `Answered`: the flag is down only while nothing was checked,
  and then nothing is reported. `SendAnswered` carries it through both calls of the
  wrapped `send`.
- `BadIsReported` needs `Passing`, that the handler is reached once and after its first
  send no layer is left that replaces `send`, and `Told`, that once the flag is up
  something is on the wire or with `onError`. Theorems: `RefusedStaysOut`,
  `CheckedOnceAlways`, `BadIsReportedAlways`.
- Assumption: `AppsAssumption`, which says what a chain is.

**`FastifyAdapterProofs`**: for every set of hook orders, any number of replies.
- The invariant is `MarkInvariant`: `TypeOK`, `Marking` (what the mark says of where
  the request is and of who was reported) and `Refusing` (a refusal that was sent,
  with hooks that await nothing, is through them before anything else moves).
  Neither property is inductive without the place of each reply in its hooks.
- `HandlerOutputChecked` is about a reply on the wire and a report made earlier. Its
  invariant is `HandlerInvariant`: `Handling` (the handler runs with the mark down and
  answers once), `Looking` (a reply behind a response hook was looked at, and none waits
  in one), `Written` (the response is a reply that is through all its hooks) and
  `Checked`: as long as only the handler sent, a look has reported every reply that had
  to be. `RepliesGrow` says what a step may do to the list of replies.
- `RefusalStandsAlways`, `ReportScopeAlways`, `HandlerOutputCheckedAlways`. Assumption:
  `AppsAssumption`.

**`HttpValidatorProofs`**: for all documents, malformed schemas, requests, bodies and
limits.
- `SoundCaches`: what is memoized has a well-formed request schema, and what has a
  response validator has a well-formed response schema. That, and not the answers,
  is inductive; `FreshIs` turns it into what a call answers. `OwnersDecide` shows that
  the owner of a matched request answers it, with a least member that exists since
  members are numbers.
- `ReadsCounted`: of each read, what the counter saw, passed on and refused.
  `ReadIsWhole` gets `BodyIsWhole` from it for a step.
- `AllowedIsHonest` is about what the routers find only, so its state invariant
  `Answered` is small: an answer to what was not matched comes from the dispatch.
  `OwnersAre` says who owns a request, from `AnswerIs` and `MemberAnswers`, `DispatchedIs`
  what the first owner answers; `RefusedBy` gets from them that the first member with the
  path is the one that refuses.
- The scan of a compound segment and the offsets of its captures are folds. A fold over
  `1 .. n` is first shown to be what its step says (`FoldingExists`, `FoldSteps`), and then
  followed step by step with `Climbs`, a property of the first numbers that each hands on
  to the next: no induction theorem that takes an operator is needed, since the property
  is given as a set of numbers. `Flattened` does the same for `FlattenSeq`.
- `ScanIsLazy`: by `Passes`, where each parameter of the scan starts and ends, the scan
  stops each parameter no later than any fit does, so it fails only where nothing fits;
  the first place where another fit differs is then one where the scan stopped earlier.
- `BoundariesAre`: the boundaries of a token are where its items end (`Ends`), each at
  its place on the wire (`WireEnds`), also where the code skips the offsets since the
  token decodes to itself. Items take at least a character, so a boundary is that of one
  item only (`EndsIncrease`), and `RawCaptureIs` finds the one run there can be.
- `CachesNeverShowAlways`, `BodyIsWholeAlways`, `AllowedIsHonestAlways`,
  `CapturesAreLazyAlways`, `WireCapturesDecodeAlways`. Assumptions: `ValidatorAssumption`,
  which says that sizes are numbers, members are numbered, what is asked of a document is
  a request, and templates and paths are made of items, with one literal more than there
  are names; `RouterAssumption`, which says what an item takes on the wire and stands for:
  one character, or two for an escape of four bytes, which takes twelve.

**`SpecResolverProofs`**: for all documents, links, modes and tables.
- `Reading`: of each reader key, what was read is kept, as a document or as the hole of a
  whole file, and is listed; `ReadsOnce` gets `ReadOnce` from it, since only what is not kept is read.
- `Naming`, `Mounting`: finitely many names and places are taken, and none overlap.
  `NewNameIsFree` and `MountForIsFree` show that the numbering finds a free one, by
  counting: of `n + 1` numbered candidates, `n` taken ones leave one (`OneIsFree`).
- `Closed` speaks of the end only. Its invariant says where each reference leads at any
  time: `Claims` (a claimed target waits or was hoisted, and a missing name belongs to a
  hole), `Tracked` (a fragment waits, is being walked, is placed or is a hole) and
  `Halted` (nothing waits when all is done). `Claims` needs `Naming`: were a name shared,
  one hole would take a component away from another target.
- `MappingFollows` compares two decisions made at different times: how a branch was
  written when it was met, and what `fixUpDiscriminatorMappings` finds claimed at the
  end. `Branches` is what they share: a branch written as a hoist is claimed for good, and
  what is written as a node of the entry can never be claimed.
- `ReadOnceAlways`, `NamesOwnAlways`, `MountsOwnAlways`, `ClosedAlways`,
  `MappingFollowsAlways`. Assumption: `ResolverAssumption`, which says what documents are:
  finitely many component slots and places of the author's, links that are written where
  they are found, and no document without a name.

**Only model-checked.** `ResultSettles`, `HeldIsAnswered`, `SentIsAnswered` and `Resolves`
are liveness, out of the prover's reach. `Classifier`, `Applicable`, `BufferedSpine`,
`JsonText` and `StringScan` declare RECURSIVE operators, which the prover does not accept,
so `ReadsJson` and the properties of `BufferedRegions` and `StringScan` stay with TLC.
`PushedIsEdited` and `OutputIsJson` compare the output with a definition by recursion over
the text: what a
recursive definition computes for every input takes an induction over data, which the
prover cannot instantiate. `CollisionsRefused` is true of the requests that are made, which
are enough to tell two documents apart, and not of every smaller set of them.
`PairedAlways`, `StateAndStack` and `TokenMemory` are proved of definitions no run
checks: the refinement and `ReadsJson` would break first.

## Disagreements found

### The fallback check of an island

`maxBufferedBytes` is documented to the byte: "for a region starting at byte I
with cap B, a span of B bytes fits and byte I + B is refused"
(`packages/stream-validator/test/buffer-limits.test.ts:12-13`, and
`sv/options.ts:245-247`). `forwardIsland` repeats the check for each event and
explains it with "The event's first byte is at `curOffset`, so `span + 1` bytes
are in" (`sv/spine/spine.ts:1273`). For the end of a string that is not so:
`onStringEnd` sets `curOffset` to the offset *past* the closing quote. An island
whose inner string ends exactly on its last allowed byte is refused at once, at
an offset that has not arrived: `["a"` under a cap of 4. Run `buffered_refusal`
finds it as a violation of `RefusedByteArrived`.

The effect is small. The island is still open, so it is too large whatever comes
next, as `RefusesTooLarge` confirms; only the error comes a byte early, and a
stream that ends there reports the buffer limit rather than a syntax error.

### A refusal beside another `onSend` hook

The README of the Fastify adapter promises "a request `validateRequests` refused
keeps its 400" (`packages/oav-fastify/README.md:98`). After its awaited `onError` the
hook takes the mark down `if (!reply.sent)`. `reply.sent` is false until every `onSend`
hook has answered, so with another hook that awaits, the refusal is on its way, the
mark comes down, Fastify goes on, and the handler's reply may be the one written. Run
`fastify_refusal` finds it as a violation of `RefusedKeepsItsReply`. Without such a
hook the promise holds: `RefusalStands`, proved.

### Operations `precompile` does not come to

`precompile` is documented as compiling "every operation's schemas up front"
(`packages/validator/src/validator.ts:2114`). It finds each operation by matching its
template as if it were a request path. Where another template captures that text, as
`/{x}-{y}` captures `/{r-i}`, the operation is passed over: it is neither compiled nor
checked, though requests reach it. Run `precompile_covers` finds it as a violation of
`PrecompileCovers`.

### Met on the way, without a run

- A parse error names "the offending byte" (`JsonParseError.byteOffset`), but which one
  it is can depend on the cut. For the string bytes `E2 41 09` under `utf8: "reject"`
  one write reports the control character `09`, because a batch is scanned for control
  characters before it is decoded; two writes, cut before `09`, report `E2`.
- The ambiguity check joins decoded segments, so `/a%2Fb` and `/a/b` are refused as the
  same path although no request matches both.
- A composition that leads back to itself on the same value, such as
  `{"anyOf": [{"$ref": "#"}]}`, is classified TEE. Its branch is a sub-spine, whose
  branch is one again, all at the first event, although "deep recursion grows the heap
  scope stack, never the native call stack" (`sv/spine/spine.ts:7-8`). With a keyword in
  the circle that buffers there is no such descent; `buffered_regions` has that case,
  and no root of the other kind.
- A discriminator in another file may name a schema of the entry. The branch beside it is
  re-pointed into the document (`#/...`), a mapping value spelt as a path to the entry is
  left as written, since `fixUpDiscriminatorMappings` rewrites what was hoisted only. It
  does no harm where a route is found by the last segment of the path. `MappingFollows` and
  its proof speak of hoisted targets, and say that others are left alone.
- `combineValidators` sends a request for a path without its method to the first member
  that has the path, whose error names that member's methods only
  (`packages/validator/src/combine.ts:268-301`), and so does the `Allow` header made of it.
  Its `matchRoute` joins those of all members (376-402). Two members that share a path
  with different methods thus give two answers to one question. Both are modelled.
- The entry is kept under `options.entry` (`packages/spec/src/resolver.ts:416`), while a
  reference back to it resolves to `entryIdentity(options.entry)` (653 and
  `resolver-shared.ts:101`). One given as `./openapi.json` is therefore read a second time
  when a position that is not a schema, or a whole document that is hoisted, leads back
  to it. Modelled: see `ReadOnce`.
- `precompile` in collect mode called twice counts `responseBodiesCompiled` twice.
- A multipart body whose source fails is reported as a malformed body.

## Not modelled

- *Stream.* What a keyword says of a value, the combination of branch verdicts, and
  the in-memory engine: answers of a step, or absent. The text of violations, value
  capture, peak metering in the engine, the depth limit. Slices of a string in
  `BufferedSpine`, which hears text a byte at a time. In `StringScan`, disposal from
  inside the handler of a slice.
- *Fastify.* The turns of the event loop between hooks that await nothing: each async
  hook takes one, so that `Settled` is exact for the one or two hooks an application has
  here, and an idealisation for long chains.
- *Express.* An `onError` of `validateResponses` that calls `next` itself, a validator
  that throws inside `send`, `res.end` and redirects.
- *Resolver.* Provenance, `inlinedComponents`, anchors, a 3.0 pointer that passes through
  a schema's `$ref`, readers and loaders. `resolveSpecSync` mirrors the same steps.
- *Router.* Leading and trailing slashes, what follows `?` or `#`, `x-` keys, unclosed
  braces.
- *Validator.* What schemas say, deserialization, security, path filters, the
  application's own `readBody`, introspection.
- *Pure packages.* The schema compiler and code generator, the command line, the
  analyzers, document checks, overlays, linting, formats, metaschemas and syntax hold
  the larger part of the repository's lines. They keep no state and meet no
  interleaving; their correctness is that of the keyword semantics or of wording, over
  data no small model represents. That is why the mapped share of the repository is
  small although the stateful parts are mapped nearly whole.

## Plan

What remains, in order of what a mistake would cost.

1. Numbers and literals scanned in batches, beside the strings of `StringScan`, and a
   refinement of `JsonReader` by both.
2. Theorem: the part of `PushedIsEdited` that says what is pushed comes in the order of the
   input, each byte once, from the `Cut` of `DroppedStaysGoneAlways`.
