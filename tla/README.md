# Formal models of fing

`fing` (src/) is a blocking client library for the FairyDB server. This
directory holds TLA+ models of it, configurations that check them with TLC on
small instances, and proofs, checked by TLAPS, of the main theorems for every
value of the constants.

- [The system](#the-system)
- [Modules](#modules)
- [Runs, bounds and fairness](#runs-bounds-and-fairness)
- [Proofs](#proofs)
- [Where the code and its documentation disagree](#where-the-code-and-its-documentation-disagree)
- [What is not modelled](#what-is-not-modelled)
- [Plan](#plan)

## The system

| Component | Source | State it keeps | Operations | What is hard about it |
|---|---|---|---|---|
| Client | `client.rs`, `error.rs` | the socket, `database`, `statement_guard` | `connect` (with an optional `use_database`), three setters, twelve methods that are one request and one reply each | the server and the network move between any two reads and writes; a timeout or an error can leave the reply behind; `shutdown_server` needs a second connection |
| Framing | `codec.rs` | none of its own: the position in the byte stream | `write_request` (no length, one read by the server), `read_response` (8 bytes of length, then the body) | nothing in the protocol pairs replies with requests but their order; three of its errors leave the stream in three different conditions |
| Interpretation of responses | `client.rs`, `protocol.rs` | none | `check`, `expect_message`, `into_outcome`, `into_rows` | `shutdown_server` alone skips `check`; quiet servers answer with an empty frame |
| Statement guard | `sql.rs` | the index, words and flag of one pass | `inspect`, `scan` | five loops over one index, quotes and comments, multi-byte characters, an early return |
| Result sets | `rows.rs`, `schema.rs` | the rows of a reply | `RowIter::next`, `Row::get`, `Row::value`, `Index`, `Display`, `index_of` | nothing makes a row as wide as its schema; a short name may stand for several columns |
| Conversion | `convert.rs`, `value.rs` | none | `FromValue`, the `as_*` accessors | narrowing, NULL, dates beyond the type they are read into |
| Text of values | `value.rs` | none | `civil_from_days`, `format_decimal` | division that truncates, eras, days and years that overflow, the split at the point |
| Wire types | `protocol.rs`, `schema.rs`, `value.rs` | none | serde's derives, `Schema`'s own two implementations, `encode_request`'s limit, `into_outcome` | the declarations mirror the server's by hand, and only names on the wire can tell when one side has changed |
| Several clients | `client.rs`, `lib.rs`, `README.md` | per `Client` its session; on the server the databases, the shutdown flag, the accept loop and its backlog | `ClientBuilder::connect`, all methods | one Client's reset and shutdown reach into the sessions of all; a builder can fail when its connection is already queued |
| Prose | `client.rs` | none | `parse_list`, `parse_imported` | the separators may occur in the names |
| FairyDB | external | per connection: the request being worked on and the bound database; shared: the shutdown flag and the accept loop | read, answer, hang up, accept | modelled from `client.rs`, `codec.rs`, `README.md` and the tests |

The caller owns a `Client` exclusively (every method takes `&mut self` or
`self`), so there is no concurrency inside the library. All of it lies between
the caller's thread, the server's thread for this connection, the server's
accept loop and the network, which share the two directions of one TCP
connection; and between several `Client` values, of one program or of many,
which share the server: its databases, its backlog and its end.

## Modules

| Module | What it is |
|---|---|
| `Protocol` | The pure part of a call: which response a method turns into `Ok` and which into which `Error`, what is refused before anything is sent, and what the server answers. |
| `Client` | The core: one `Client`, its connection and the server's threads. |
| `Rpc` | The abstract specification: a synchronous remote call that is carried out at most once. |
| `ClientRpc` | `Client` implements `Rpc`, by a refinement mapping. |
| `ClientClaims` | What the comments and tests say of a `Client`, without the conditions under which it is true. |
| `ClientProofs` | The theorems about `Client`, and about its refinement of `Rpc`. |
| `Sessions` | Several `Client`s of one server: builders, backlog, accept loop, sessions, shutdown. |
| `Service` | The abstract specification of that: a linearizable service, without listener, queue, threads or shutdown. |
| `SessionsService` | `Sessions` implements `Service`, by a refinement mapping. |
| `SessionsProofs` | The theorems about `Sessions`. |
| `Wire` | The wire types as declarations, CBOR in both directions, and a server whose declarations have drifted. |
| `WireProofs` | The theorems about `Wire`. |
| `StatementGuard` | `inspect` and `scan`, one action per branch of the scan and per turn of its loops. |
| `StatementLexer` | The reference: a lexer defined byte by byte, and the verdict on a statement with that text. |
| `StatementGuardProofs` | The theorems about `StatementGuard`. |
| `Conversion` | `FromValue` and the accessors, over integer types of a given width. |
| `ResultSet` | `Rows`, `Row`, the lookup of columns and `Display`. |
| `ValueText` | Dates as text and as `NaiveDate`, decimals as text, and references that read both back. |
| `ResultSetProofs`, `ValueTextProofs` | The theorems about these two. |
| `Prose` | Lists and row counts through the server's sentences. |
| `ProseProofs` | The theorems about `Prose`. |
| `NatFacts` | Induction over the natural numbers and the turns of a loop, for the proofs about pure functions. |
| `MCClient`, `MCSessions`, `MCWire`, `MCStatementGuard`, `MCResultSet`, `MCValueText`, `MCProse` | Instances for TLC. |

### Client

A call is three steps, which are those of `round_trip`: `WriteRequest`,
`ReadLength`, `ReadBody`. `stage` says which comes next. In place of each step
stands its failure: `WriteTimesOut`, `WriteFails`, `ReadTimesOut`, `ReadEof`;
`ReadLength` itself returns on an empty or an oversized reply. `Call` is the
beginning of a method with everything it refuses by itself (`LocalError`), and
`Return` its end: the result, `database`, the throwaway connection of
`shutdown_server`, the drop of a `Client` whose method took `self` or whose
builder's `use_database` failed.

The reply direction is a stream of bytes by position. `frames` are the replies
the client has not begun to read, each at its absolute position; `rpos` and
`wpos` are what has been read and what will arrive. A client that reads at the
beginning of a frame gets that frame; one that reads anywhere else is inside a
reply and may take its bytes for any length and any body (`Phantoms`). This is
what makes a lost position visible: it is not assumed that errors are harmless.
The request direction is a queue, since a request has no framing at all: the
server's single read takes all that has arrived, and drops the connection if
that is not exactly one request (`ServerRead`).

`tcp` tells the ways apart in which a peer is gone, since the code maps them to
different errors: closed (`fin`), reset with the error still to be reported
(`rst`), reset and reported (`broken`).

Three variables are history and guard nothing: the `to` of a frame, `last`, and
`abandoned`, the errors that have left a reply unused.

Abstractions: names are raw names with what `trim` makes of them; a statement
is its class; a response is its variant, with the payloads the client
distinguishes; the length prefix is `LengthBytes` long and sizes are small; the
limit `MaxResponse` is a constant. `import_csv`'s two arguments are one.
`connect_timeout`, name resolution and the socket options can only fail
(`ConnectFails`); a setter given a timeout of zero is refused and changes nothing, and
is left out.

### Sessions

`Client` looks at one connection byte by byte. `Sessions` takes from it what
`ClientRpc` shows, that a call is one request and one answer or none, and puts
several of them beside each other; a Client that has been built uses no read
timeout here, since what that does is the subject of `Client`.

A Client begins with its builder. `Connect` resolves the address, of which the
first one is taken, and refuses a `connect_timeout` of zero; `Establish` is the
kernel's part, the place in the backlog, together with what the builder does
next without waiting: the socket's timeouts, of which zero is an error, and the
request of its `use_database`. From the moment of `Establish` the server has a
connection, also when the builder fails. `ConnectRefused`, `ConnectTimesOut` and
`BuildTimesOut` are its other ends. After that a call is `Call`, then `Answer`
or `Lost`; `shutdown_server` has a stage of its own between the answer and its
end, `waking`, in which the throwaway connection waits for room in the same
backlog (`WakeUp`) or fails unnoticed (`WakeFails`).

On the server's side `Accept` takes a connection and only then looks at the
flag; when the loop ends, what still waits in the backlog is reset (`Leave`).
`Serve` is the instant at which a command is carried out. `overruled` is
history: the Clients whose session another Client's reset has cleared.

`Service` says what all of this amounts to. It knows calls, answers, databases
and sessions: a call is carried out at one instant between its beginning and its
end or not at all, `databases()` returns what existed at that instant, and only
a call that was given up may still be carried out later. The mapping takes
connections in the backlog and with a thread for `up`, those the server has left
for `down`, and everything else as it is.

### Wire

A type is a declaration: fields or variants with their names and types, as in
the source. `Encode` and `Decode` are what serde's derives and `serde_cbor` make
of a declaration: a struct is a map from names, a unit variant its bare name,
any other variant a map from its name to the payload, an unknown field is
ignored, a missing one is an error unless it is an `Option`. The types nest eight
deep at most, so each is a tower of eight definitions: `EncodeBy` and `DecodeBy` are
one layer, given what writes or reads the parts, and `Encode0` to `Encode6` (and
`Decode0` to `Decode6`) put them on top of each other. `Client` are this
crate's declarations; `Common` are the server's, which an assumption of `MCWire`
checks against the response of a real server that the repository keeps
(`tests/fixtures/select_response.cbor`).

What may be sent is typed: `Values`, `DataTypes`, `Constraints`, `Columns`, `Rows`,
`Pages` and `Responses` are all values of the declarations, over the integers of
`Ranges`. The constant `Replies` is any set of such responses
(`RepliesAreResponses`); `ArgumentSizes` are the lengths of a request's arguments.
The client's `MaxRequestBytes` is the server's buffer (`SameLimit`), as the comment
of `MAX_REQUEST_BYTES` has it.

`drift` is one edit of one of the server's declarations: a field or variant
renamed, a field added, dropped or widened, the fields in another order, a
variant that carries one value more or less. One request and one response go
through both sides. What names cannot protect is left out of the edits: two
names or two positional payloads of one type that change places.

### The other modules

`StatementGuard` keeps `scan`'s index, words and flag; a byte is what the scan
tells apart, with one letter for each keyword. `ResultSet` keeps a decoded reply
and the row in hand; panics are outcomes, and since rows never change one read
is made of each row taken. `ValueText` spells out Rust's truncating division,
and gives days and years a range (`DayLimit`, `YearLimit`), which is that of `i64`
and `i32` in the code and is scaled down to 24 and 14 bits for TLC; where the first addition overflows, a build either panics or wraps.
`Prose` composes `create_database`, which trims, with the server's list and the
client's parser.

## Runs, bounds and fairness

| Run | Properties | Bounds |
|---|---|---|
| `client_faults` | `TypeOK`, `InSync`, `AnswersItsRequest`, `DatabaseIsBound`, `WakesAfterFlag`, `InOrder`, `Exchange`, `Tracking`, `Addressed`, `Settles` | two calls after a possible `use_database` of the builder (the calls are counted together); five methods, one per way of ending and one that is refused without a database; seven responses, one of each kind `Result` tells apart; two bytes of length, bodies of three bytes, of which a part can pass for a length, and of one byte over the limit; timeouts on or off; all faults |
| `client_rpc` | `IsRpc`, `CallsReturn`, `ShutdownStops` | all methods, all responses, two calls, hang-ups and undecodable bodies; no timeouts, no oversized replies; every thread of the server fair |
| `client_stall` | `CallsReturn`, `ClosedStaysClosed` | three calls of two methods; three responses; bodies of two bytes, of which one may arrive, and of one over the limit; timeouts always set, hang-ups, the server not fair |
| `guard` | `TypeOK`, `JudgesCorrectly`, `SliceIsSafe`, `Terminates` | all valid texts of up to five bytes over quotes, comments, a word and a two-byte character, of up to six over two halves of these; all texts of up to five bytes over words, a blank, a terminator and another byte |
| `result_set` | `TypeOK`, `NamesResolve`, `GetsWhatIsThere`, `OnlySubscriptsPanic`, `Aligned` | schemas of up to three columns over four names, up to two rows of up to three cells, cells (`Cells`) at the edge of every integer type (scaled to 2 to 5 bits) |
| `value_text` | `DateIsItsDays`, `DecimalReadsBack` | 293801 consecutive days, the surroundings of 31 era boundaries, of the ends of the years of `i32` and of chrono, and of the ends of the days themselves; decimals from -1200 to 1200 at scales 0 to 5 |
| `sessions` | `TypeOK`, `DatabaseKnown`, `Consistent`, `IsService`, `CallsReturn`, `ShutdownStops`, `SessionReleased` | two Clients with two calls in all besides those of their builders; five sets of options, one per way a builder ends; three resolutions of the address; seven methods and five responses, one of each kind these calls tell apart; two databases, one of them with a name to be trimmed; a backlog of one; panics |
| `wire` | `SameTypesAgree`, `DriftNeverMisleads`, `CarriesOutWhatWasCalled` | every request the client makes, with arguments that bring the encoding to 1023, 1024 and 1025 bytes; every variant of the response types, rows and columns in both orders, with and without paging; no drift, and every single edit of every declaration |
| `prose` | `ListsNames`, `CountsRows` | three names of up to three characters with blanks and commas |

`InSync`, `AnswersItsRequest`, `DatabaseIsBound`, `Exchange` and `Tracking` hold as
long as no call has left its reply behind (`Clean`: no timeout, no
`ResponseTooLarge`) or no outcome is unknown either (`Sure`: no undecodable reply).
These conditions are the code's: after a timeout the next call does read the late
reply (`claim_rows`). What holds without any of them is in three more properties.
`InOrder` says that what is left behind is late and nothing worse: replies and requests
keep the order of the calls, no reply answers two calls, no request is carried out
twice. `Settles` says that a `use_database` or `reset_server` that gets its own reply
puts `Client::database` right, whatever was lost before. `WakesAfterFlag` says that
`shutdown_server` opens its throwaway connection after the flag is set, provided the
acknowledgement it has read is its own.
`ClosedStaysClosed` has no condition either, and speaks of every later call, not of
the next one.

Why these bounds are enough. The state a call leaves to the next is `database`,
the position in the stream, what is in the two directions and `tcp`; two calls
show every way in which one call meets what another has left, and the theorems
below show that nothing changes with more calls. The 8 bytes of the length are
read by one `read_exact`, so that what matters is whether a timeout can fall
before, inside and after it: two bytes are enough. The scan looks one byte
ahead, and its longest token (`/**/`) takes four.

Two Clients are enough for `Sessions` because every interaction in it is between
one Client and the server's shared state, which one other Client can bring into
any of its conditions; a backlog of one is the smallest that the other Client,
or its throwaway connection, can fill. The theorems hold for any number of both.
The edits of `wire` come one at a time, since each declaration is decoded on its
own.

`MaxCalls` bounds the only unbounded counters: `sent` of `Client`, in `Call` and
`Connect`, and `made` of `Sessions`, in `Call`.

Fairness. `ClientFairness` is weak fairness of the step the caller's thread has
to take next: the thread is in a system call that returns when data, the end of
the stream or its timeout is there. `ServerFairness` is weak fairness of the
server's read, of its answer, and of its accept loop; `FairSpec` assumes both,
for a caller without timeouts against a server that works. `StallSpec` assumes
nothing about the server, and only a caller whose timeouts are set may rely on
it. `FairSpec` of `Sessions`
assumes the same of each Client's thread, of each connection's thread and of the
accept loop. The setters and new calls are never fair, nor are the threads'
panics. Deadlock is not checked in the
models of calls, since a caller may stop calling and a dropped `Client` does
nothing, nor in those of pure functions, which end with their result.

## Proofs

`ClientProofs` proves for every value of the constants (any names, limits and
sizes, any number of calls, every set of faults and timeouts), from
`ConstantsAssumption` alone:

| Theorem | Invariant or property |
|---|---|
| `TypeCorrect` | `TypeOK` |
| `OneExchange` | `Exchange` |
| `StaysInSync` | `InSync` |
| `OwnAnswers` | `AnswersItsRequest` |
| `Tracks` | `Tracking` |
| `DatabaseTracked` | `DatabaseIsBound` |
| `AlwaysAddressed` | `Addressed` |
| `ArrivesInOrder` | `InOrder` |
| `WakesInTime` | `WakesAfterFlag` |
| `SettlesDatabase` | `Settles` |
| `StaysClosed` | `ClosedStaysClosed` |

`InSync` speaks of the moments between two calls and is not inductive. `Exchange`
says what may be under way at each stage: nothing before the request is written
(`Quiet`); then the request in the queue, or being worked on, or its reply in
the stream, or nothing any more since the server is gone (`InFlight`); then the
rest of one reply (`HalfRead`). All of this only as long as no call has ended in
a timeout or in `ResponseTooLarge` (`Clean`), and `abandoned` only grows. With
`TypeOK` it is inductive, has a step per action, and implies `InSync`.
`AnswersItsRequest` follows from it, since the one frame that can be read is
marked with the current call. `DatabaseIsBound` needs what lies between the
server's step and the client's: `Tracking` says that the database the server
has bound is the one the client will record when it reads the pending reply.
Its second part does the same for the shutdown flag.

The other four have no condition on the past. `Addressed` is their invariant: the
order itself (`InOrder`); that requests and replies bear numbers of calls begun, and
of earlier ones until a call has written its request (`Numbered`); that on an open
connection every reply has arrived to its end, and the one being read lies where it
should if it is a reply at all (`Placed`); and that what bears the number of the
current call is its request, or a reply that says what the server has done (`Own`).
What a client takes out of the middle of a reply bears no number, and so can break none
of this. `AddressedClient` has a case per step of the client, `AddressedServer` one
per step of the server, with what they have in common in `Returns`, `Undisturbed`,
`LessUnderway` and `MoreUnderway`. `ClosedStaysClosed` follows from `Over`: after
such a report writes fail, or reads find the end of the stream, which no step
undoes (`OverStep`); and from `Piped`: after a broken pipe there is nothing to read.

`SessionsProofs` proves, from `SessionsAssumption` alone, for any number of
Clients, calls, databases and places in the backlog:

| Theorem | Invariant or property |
|---|---|
| `TypeCorrect` | `TypeOK` |
| `AlwaysConsistent` | `Consistent` |
| `KnowsItsDatabase` | `DatabaseKnown` |
| `Linearizable` | `IsService`, the refinement of `Service` |

`DatabaseKnown` is about Clients between two calls. While a call is under way
the two sides differ by the answer that has not been read, which `Tracks` says:
what the server has bound is what the Client will record when it reads it.
`InStep` ties each stage to what the connection may hold, above all that the
request or the answer there is the current call's, unless the builder has given
it up; `InQueue` says that a connection is in the backlog at most once and only
while it waits, without which a thread could be started twice. Together they are
`Consistent`, which is inductive with `TypeOK`. The refinement then has one step
per action: `Establish` is `Open`, `Call` is `Begin` or `Refuse`, `Serve` is
`Perform`, `Answer` and `WakeUp` are `End`, `BuildTimesOut` is `GiveUp`, the end
of the accept loop, of a thread and of a session is `Break`; what only moves
connections through the backlog is a stutter.

`StatementGuardProofs` proves, from `StatementsAreBytes`, for statements of any
length:

| Theorem | Invariant |
|---|---|
| `GuardTyped` | `TypeOK` |
| `SlicesSafely` | `SliceIsSafe` |
| `JudgesEveryStatement` | `JudgesCorrectly` |

For the first two the invariant `GuardInv` adds to `TypeOK` that the inner loops
are entered with the index inside the statement and that a word begins between
two characters. `JudgesCorrectly` speaks of the verdict alone. Its strengthening
`JudgeInv` compares the scan, half-way, with the lexer: the loop the scan is in is
the lexer's mode at that byte (`Stands`; only the newline behind a comment is met
by the outer loop); the words taken are the first two of those that begin before
the index, a terminator lies before it just if the flag is set, and no text before it
follows one (`Seen`); and the scan meets no word in its middle, since a word has
been taken from its first byte on. While a word is being read, what has been seen is
what lies before that word. There is one lemma per action of the scan. They rest on
facts about the lexer, by induction over its bytes (`ModeTurns`, `WordIsSlice`): that
nothing is lost where the scan steps over bytes (`StepOver`, `StepOverWord`), and that
the kind of a statement is the one its first two words make it (`KindIsClassified`).

`ClientProofs` also proves `RemoteCall`: `Client` implements `Rpc` (`IsRpc`), for
any number of calls, all names, all responses and every point at which the server
hangs up or answers with bytes that cannot be decoded. Its hypothesis `Defaults`,
besides `ConstantsAssumption`, is that no read timeout is set (`Timeouts` is
`{FALSE}`) and no reply is over the limit. It is not there for the proof's sake:
with a timeout a later call may report the answer of an earlier one, which is what
`claim_rows` shows, and `Rpc` forbids. The proof rests on `Exchange` and `Tracking`
and on `Settled`, what `Defaults` adds to them: no call has left its
reply behind, every reply in the stream is within the limit, a call under way has a
method and a socket, and when the `Client` is dropped nothing of a request is
left. Then there is one lemma per kind of step: the server's answer is the instant
of execution (`ReplyServes`), a hang-up is that of the link (`HangUpBreaks`), the step
that reads the reply or its end, or fails to write, is the end of the call
(`BodyAnswers`, `LengthAnswers`, `EofLoses`, `WriteLoses`), and the rest are the
beginning of a call or stutters.

`ResultSetProofs` proves, from `ShapesAssumption` and `WidthsAreNumbers`, for
replies of any number of columns and rows, ragged ones included:

| Theorem | Invariant |
|---|---|
| `TypeCorrect` | `TypeOK` |
| `ResolvesNames` | `NamesResolve` |
| `GetsIt` | `GetsWhatIsThere` |
| `SubscriptsPanic` | `OnlySubscriptsPanic`, with the panics of ragged replies named |
| `AlwaysAligned` | `Aligned` |

The two loops of `index_of` are recursive functions over the columns. Each has a
lemma that unfolds it (`PositionTurns`, `LoopTurns`) and one that says what it
has found after c columns, by induction on c. The invariant `Told` says of the
last outcome which function of the reply, the row and the request it is; the five
properties are then facts about those functions. `ShapesAssumption` gives a reply
its type only, that of `Vec<Attribute>` and `Vec<Vec<Value>>`, NULL and integers
their datum, and no relation between the two.

`ValueTextProofs` proves, from `LimitsAssumption`, that every date is the day it
stands for (`DatesAreDays`, the invariant `DateIsItsDays`) and that every decimal
reads back (`DecimalsReadBack`, `DecimalReadsBack`):

- A day is split once into era, century, four-year cycle, year and day of a year
  that begins in March (`EraSplits`). From the split every quotient of
  `civil_from_days` is found (`EraIs`, `YearOfEraIs`, `MarchMonths`), among them the
  correction by 1460, 36524 and 146096 days at the last days of cycles, centuries
  and eras; and so is the reference, `BeforeYear` and `BeforeMonth` (`FirstOfMarch`,
  `BeforeMonthIs`). Both are equal for every day whose additions do not overflow
  (`CivilIs`). The year then fits because years come one after the other
  (`YearBetween`), which is also why only dates beyond chrono's years are out of
  range.
- The digits of a number are written by induction from those of its tenth
  (`DigitsWrite`); zeros in front change nothing (`NumberOfPadded`), and what the
  digits are cut into is joined again (`Cut`).

`LimitsAssumption` says that the range of days holds the days of all years that the
range of years allows, also when they are counted from 0000-03-01, and chrono's
years lie in that range: the days of 2^31 years are less than 2^40, an `i64` ends
at 2^63.

`ProseProofs` proves, from `TypedAreTexts`, for names of any length over any
characters and for any number of them, that a listing is parsed back into the names
the server keeps (`ListsEveryName`, the invariant `ListsNames`), and that counts come
back (`CountsEveryRow`, `CountsRows`). `ListsNames` is not inductive: it also
needs that what the server keeps neither begins nor ends with a blank, without
which the client's trimming would change a name. That holds because `require_name` has
trimmed it (`TrimmedIsName`), and is `names \in Seq(Names)` in `ProseInv`. Then
the text in front of a comma ends a piece (`SplitCharacter`, `SplitWord`), the first
m names joined split into m pieces with a blank before each (`SplitJoined`, by
induction on m), trimming removes just that blank (`TrimmedSpoken`), and the filter
keeps every piece (`FilledKeeps`), except for the single blank of a list without names.

`WireProofs` proves, from `SizesAreNumbers`, `SameLimit` and `RepliesAreResponses`,
for any ranges of integers, for responses of any number of rows and columns, for
arguments of any length, for every limit and after every single edit:

| Theorem | Invariant |
|---|---|
| `ExchangeAlways` | `Exchange`, the inductive invariant |
| `TypesAgree` | `SameTypesAgree` |
| `NeverMisled` | `DriftNeverMisleads` |
| `CarriedOut` | `CarriesOutWhatWasCalled` |

`Exchange` says what each side may hold at each stage: the request unread, or what
the server has made of it and answered in its own types, or why one side has given
up (`Refused`, `Dropped`). The three properties are about the end of it, and follow
from what one side makes of the other's bytes:

- What is read is what was written. An edit gives names that nothing else has, so
  what stands under a name was written under it (`FoundFields`), and every field of
  the server is one of the client's, wider at most (`ServerFieldOf`), every variant
  one of the client's with at most one argument more or less (`ServerVariants`). An
  item of another number is not opened, and an array, into which several arguments
  go, is never taken for one argument (`VariantFound`, `ArrayRefused`). With this a
  layer of an enum, a struct or a vector is read from the same layer (`EnumRead`,
  `FieldRead`, `VecRead`), once for any layer and the one below it (`EncodeAt`,
  `DecodeAt`, `Layer`). Then the parts of a response are read as themselves, from
  values and types (`EnumSame`) to rows, columns, paging, results (`QueryRead`) and
  the whole (`ResponseRead`); and so is a request (`RequestSame`).
- What was written is read, where the property says so. As long as no name is lost
  and nothing is wider, whatever the server can read the client can
  (`StillReadDeeper`, from layer to layer, `StillRead`), and the server sends what is
  a value of its own types (`Sendable`). A server of the client's types reads every
  request (`RequestReadable`).
- A request within the limit is within the server's buffer, by `SameLimit`. The
  number of bytes itself (`Size`) stays unopened in the proof: what counts is that
  both sides measure the same item.

The installed provers cannot use an induction theorem that takes an operator. `NatFacts`
therefore proves induction for sets (`Induction`, from the library's
well-foundedness of `<`), for the turns of a loop (`Turns`), and that a function
defined from turn to turn exists (`LoopExists`). With these, recursive
definitions over an interval can be unfolded and reasoned about.

Every invariant, every refinement and the action and temporal safety properties
(`Settles`, `ClosedStaysClosed`) that a passing run checks are proved. Only model-checked: everything about liveness (`CallsReturn`,
`ShutdownStops`, `SessionReleased`, `Terminates`), which needs fairness and `ENABLED`;
and `FixtureAgrees`, the assumption of `MCWire` that the declarations read the
response of a real server, which is about one value.

## Where the code and its documentation disagree

Each of these is a run that TLC must find violated.

- `claim_rows`: after a read timeout the connection stays usable, and the next
  query returns the rows of the one that timed out.
- `claim_shutdown`: a shutdown whose reply is not read in time leaves the server
  in `accept`, since the throwaway connection is made on success only.
- `claim_date`: a DATE beyond the years of an `i32` is read as the `NaiveDate` of
  another year (`y as i32`), where every other conversion that does not fit is
  an error.

More follow from the models and have no run of their own:

- After a call that timed out, `shutdown_server` can take that call's late quiet
  acknowledgement for its own (`client.rs:287`). It then opens the throwaway
  connection before the server has read the shutdown, and returns `Ok`, against
  `client.rs:283` ("afterwards"): the reason why `WakesAfterFlag` asks for its own
  answer.
- `Row::value` and `Row::get` check a column against the schema and panic where the
  row is shorter, against `rows.rs:195` and `error.rs:53` (a case of
  `OnlySubscriptsPanic`).
- A database whose name has a comma in it, which `create_database` accepts, is listed
  as two (the condition of `ListsNames`).
- A later call on a connection the server has reset fails with `Error::Io` (a
  broken pipe) instead of the `ConnectionClosed` of `error.rs:32` (the `Lost` of
  `Rpc` and `Service` allows both).
- `; SELECT 1` is refused as several statements, against `error.rs:42`: every
  semicolon counts, also one before the only statement (`Verdict`).
- After a `use_database` whose reply was lost, `Client::database` is not what the
  server has bound (the condition `Sure` of `DatabaseIsBound`); after a reset by
  another Client it names a database that is gone (`overruled`).
- `convert.rs:8` and `lib.rs:26` let only `Option<T>` accept NULL, while `Value`
  and `&Value` do too (the exception in `GetsWhatIsThere`).
- A server that renames or drops `paging_info` is not noticed: the client reads
  a result without paging (the exception in `DriftNeverMisleads`).

## What is not modelled

- Floating-point numbers: `as_f64` rounds an integer beyond 2^53, and scales a
  decimal by a power whose exponent is cast to `i32`. TLC has no such numbers;
  in `Conversion` an `f64` is the datum it was made from.
- The wording of errors, `Debug` output and the text of a table beyond the
  positions of its columns.
- Read timeouts of several Clients at once: `Client` has them all for one
  connection, and nothing of what they do crosses to another one but what the
  server carries out late, which `BuildTimesOut` shows.
- What statements do to tables: a `query` that is given an `INSERT` returns
  `UnexpectedResponse` although the rows are in, which no property follows.
- The example, the live tests and the program that captures a fixture.

## Plan

1. Done: `Protocol`, `Client` with `Rpc`, `StatementGuard` with its lexer,
   `Conversion`, `ResultSet`, `ValueText`, `Prose`, and the first theorems.
2. Done: `Sessions` with `Service`, the builder in detail, the ends of dates,
   the wire types, and the proofs about `Sessions`.
3. Done: the refinement of `Rpc`, the calendar and the decimals for every day and
   number, `ResultSet` for every reply, the guard's verdict for every statement, and
   lists and counts for all names.
4. Done: the wire types for every response, request and edit, by definitions in
   layers in place of recursive operators.
5. Open: facts about `Protocol` and `Conversion` by themselves where the proofs about
   `Client` and `ResultSet` repeat them; the bytes of a request (`Size`) against CBOR's
   rules, now a definition that TLC evaluates at the limit.
