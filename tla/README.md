# A verification of cupcake

cupcake is an HTTP server library in C++: an accept loop and a thread pool, a
buffered reader per connection, an HTTP/1 connection that calls the user's
handlers, and the beginnings of HTTP/2 with an HPACK decoder, on text and
socket classes of its own. This directory holds TLA+ models of all of these, the
TLC configurations that check them on small instances and TLAPS proofs of the most
important properties for every instance.
`PROJECT.json` lists every run, its properties, the mutants that show that each
property can fail, the source lines of each definition, and the hazards.

    tlc -workers 2 -config HttpServer.cfg MCHttpServer
    tlapm HttpServerProofs.tla

## The system

| Part | State | Operations | Interacts with | What makes it correct |
|---|---|---|---|---|
| `BufferedReader` | one growing buffer, two indices | `read`, `readLine`, `readFixedLength`, `peekMatch`, `discard` | calls the stream source, which blocks; called by the connection and the body readers | no byte lost, repeated or reordered however the client's bytes are cut into socket reads; lines exact; the buffer bounded |
| `StreamSourceSocket` | a socket | `accept`, `read`, `readv`, `write`, `writev`, `close` | maps socket errors to `HttpError` | the end of the stream and a closed listener are told apart from errors |
| `HttpServer` | `started`, `streamSource`, handler map, the loop's `acceptedSocket` | `addHandler`, `start`, `shutdown`, one callback per connection | thread pool, socket, another thread that shuts down | every callback serves its own client; a shutdown ends the loop cleanly |
| `Async`, `SocketImpl_win` | handles, overlapped operations | `runAsync`; `accept`, `connect`, `read`, `write`, `close`, ... | Windows thread pool and completion callbacks | every operation completes once, to the one that waits |
| `HttpConnection` | the request, `keepAlive`, `contentLength`, `isChunked`, ... | `run` | buffered reader, handler map, handlers, response | requests are read in step with the client; each gets one answer; the loop ends |
| `ChunkedReader`, `ContentLengthReader`, `NullReader` | chunk state, what is left | `read`, `close` | buffered reader; called by handlers | handlers get exactly the content |
| `HttpResponseImpl`, writers | response status, headers, stream chosen | `setStatus`, `addHeader`, `getOutputStream`, `close`, `write` | called by handlers, writes to the stream source | one complete response, framed as its headers say |
| `HandlerMap`, `PathTrie` | a radix tree of paths | `addNode`, `find` | filled before the server starts, read by all connections | lookups and refusals follow from the paths added |
| `HpackTable`, `HpackDecoder` | the dynamic table and its size | `resize`, `add`, lookups; `decode` | the peer's encoder, through header blocks | both ends keep the same table; the size is exact and bounded |
| `HuffmanEncoding` | tables of 257 codes and 256 states | `encode`, `decode` | called by the HPACK decoder | `decode` is the automaton of the codes; it gives back what `encode` made |
| `Http2Connection` | frame header, padding | `run`, a write task | buffered reader, thread pool; nothing makes one yet | frames are read in step with the client; both tasks end |
| `Strconv`, `StringRef`, `CommaListIterator` | none | pure functions | called by the connection, the readers and the response | exact at the edges of the types, in every radix, on both sides of the search limit |
| `String` | a text in the object or in a block | constructors, assignments, `append`, `clear`, `trimToSize`, `reserve` | takes `StringRef`s into itself and others | each text in a block of its own, null-terminated, within bounds |
| `CString` | an array or a block | null-terminated copies of texts for system calls | | the copy and its null within the memory taken |
| addresses, `Global_win` | none | system calls | | |

What is hard to test here: where the bytes are cut; three threads that share
unprotected members of the server; operations of a socket that complete at once
or in a callback, while another thread closes it; a handler that reads some of its content,
all of it or none; errors in the middle of a chunk; unsigned numbers at their
edges; two tables that must evict alike for the whole life of a connection. The
hazards in `PROJECT.json` name the lines.

## The modules

| Module | Models |
|---|---|
| `Stream` | what a client sends, as positions with a class of character; the width of `uint32_t` |
| `ByteStream` | the abstract specification: a stream consumed from front to back |
| `BufferedReader` | `BufferedReader.cpp`, one step from a socket read to the next |
| `BufferedReaderProofs` | its theorems |
| `HttpServer` | `HttpServer.cpp`, `Async_win.cpp` and `accept` and `close` of `SocketImpl_win.cpp` |
| `HttpServerProofs` | its theorems |
| `RequestStream` | requests as lines and bytes of content; what `readLine` and `read` give their callers, which is the promise of `ByteStream` for whole lines |
| `BodyReaders` | the three readers of content, over `RequestStream` |
| `HttpConnection` | `HttpConnection.cpp`, over `BodyReaders`, with an arbitrary handler |
| `HttpConnectionProofs` | its theorems: types, reads and answers; in step with the client, with all of the content |
| `HttpResponse` | `HttpResponseImpl.cpp` and its three streams, with an arbitrary handler |
| `HttpResponseProofs` | its theorems |
| `HpackTable` | `HpackTable.cpp`, one step per dropped entry |
| `HpackDecoder` | `HpackDecoder.cpp`, over `HpackTable` |
| `HpackPeer` | an encoder at the other end of an `HpackDecoder` (external) |
| `HpackProofs` | the theorems about the table, that the decoder is a user of it and comes to an end, and that it agrees with its peer |
| `WinSocket` | `SocketImpl_win.cpp`: one socket, its callers, awaiters and callbacks, and the kernel |
| `WinSocketProofs` | its theorems |
| `Http2Connection` | `Http2Connection.cpp`, the reader and its write task |
| `Http2ConnectionProofs` | its theorem |
| `PathTrie` | `PathTrie.h` behind `HandlerMap` |
| `PathTrieProofs` | its theorems |
| `HuffmanData`, `Huffman` | `HuffmanData.cpp`, the program's tables in full, and `HuffmanEncoding.cpp` |
| `Strconv`, `StringRef`, `StringObject`, `CString` | `Strconv.cpp`, `StringRef.cpp` and `CommaListIterator.cpp`, `String.cpp`, `CString.cpp`, as operators |
| `TextCalls` | calls of these |
| `MC*` | the constants of the runs |

**BufferedReader.** `buffer[i]` holds the stream position of a byte, so that a
lost or repeated byte shows. A call (`read(n)`, `readLine(m)`, ...) begins in a
step, each round of its loop up to the next socket read is a step, and the
socket answers with any number of bytes that fits, with the end of the stream or
with an error. Sums and differences wrap at `2 * HalfRange`.

**HttpServer.** `server`, `closer` and `task[c]` are the places of the thread in
`start()`, of the one in `shutdown()` and of the callbacks. The member
`streamSource` starts as garbage, as nothing initialises it. The loop's
`acceptedSocket` is one slot that every callback reads three times; after the
loop it is whatever the stack holds. The data races are choices between the
values that other threads can have left.

**HttpConnection.** A unit of the stream is a line with its meaning, or a byte
of content; content may look like lines. Each unit is labelled with the request
it belongs to and whether it is content, which the program does not see: the
labels are what the properties compare it with. `FramingAssumption` says when
they are right, in terms of the stream alone: the client's requests follow one
another, and each one that has a request line and nothing but headers before its
blank line is framed as these say, by the last `Content-Length`, by chunks or not
at all. What follows a line among the chunks that does not belong there is not
constrained. The variables after `round` are the
members of the class; `asked`, `body`, `skipped` and `loose` are history.
A folded header line spoils the word of the line before it, in the client's meaning too;
clients that fold a header so that its next line makes it a valid one are not among the
streams. `loose` names why the connection may have lost its place: a header line without
a colon (`malformed`: the code breaks only out of the inner loop and goes on), a
404 with content (`noHandler`), a handler that left content (`unread`), a read
that failed (`failed`). The handler reads with any buffer, closes, returns or
throws at any time. The response is an outcome: written, failed, or Ok with
nothing written (code 0, after a call that has told the handler so); that these
are all the outcomes is `OkIsAnswered` of `HttpResponse`.

**HttpResponse.** A handler calls the response and its stream in any order; then
the connection closes the response and the destructors run. `wire` is what has
been written: a head with its framing headers, raw content, chunks, the last
chunk. `careless` records what a handler did wrong without being told, which the
properties except: both framings at once, headers behind the head, content
behind the last chunk. A socket that fails once fails again.

**HpackTable, HpackDecoder.** The deque is a window on `added`, everything ever
added; `sums` is the history that relates sizes to entries. `alias` is the entry
that the name given to `add` points into. A byte has `2 * High` values, with
`High` 16 instead of 128, which scales prefixes and extension bytes down alike.

**WinSocket.** A handle is a name; the kernel gives it to the next socket once it
is free, so that a handle read before a `close` may mean a stranger's socket
(`foreign`). `stage[t]` is how far a call has got: its checks, the operation
started in `await_suspend`, pending, a callback queued. The kernel completes an
operation at once, later, or by aborting it when the socket is closed. `started`
counts `StartThreadpoolIo` per pool object; `outcome` remembers what the kernel
did, to compare with what the call returns; `orphans` are operations whose
awaiter is gone.

**Http2Connection.** The client's bytes are units: the preface, frame headers,
bytes of payload. A read that does not lie between units of its kind gets bytes
nobody sent as such, and any header of `StrayHeaders` may come of it (`inStep` is then
false). `indices` is what matters of the `BufferedReader`'s: whether there are bytes
buffered (`some`), or none with both indices zero or left where the last byte was
(`stale`), or the start is past the end (`past`). Padding that comes in a socket read of
its own is discarded behind stale indices (`DiscardStale`): the reader then skips more
than it was asked to, or loses socket reads until the stream ends, or takes what lies in
and behind its buffer for data, until it crashes. `slipped` records that this has
happened. The write task is a second process. The operators `|` and `&` of the C++ program are the
constants `BitOr` and `BitAnd`, of which `OrAssumption` says what the program needs; the
run gives them the machine's, and TLC evaluates the assumption for these.

**PathTrie.** Each level of `addNodeRecursive` is a step; the nodes are numbered
and linked as the pointers link them. A lookup is a recursive function of a node and
what is left of the path.

**Huffman.** `encode` and `decode` step by byte and half byte. Besides what
`encode` makes, `decode` reads bytes without end; `bits` and `expect` follow them
by the codes alone, so that every state and entry of the table is compared.

**TextCalls.** A parser is fed character by character and so sees texts of any
length; values above all ranges are one value. Widths are 7 and 10 bits instead
of 32 and 64, as the code is the same for both; the tables of least numbers are
the real ones, compared with 2^31 and 2^63 modulo five primes. The limit from
which searches use skip tables is 4 characters instead of 256. Two `String`s of
which 3 characters lie in the object (instead of 23) and blocks of multiples of
4 (instead of 8); a `StringRef` is a pointer with an offset, so that what it
reads depends on what has been deleted or overwritten before; a C string is one that
goes on to its null. A search that would index its skip table outside of its bounds, for
a pattern with characters from 0x80 on, has the result `OUTSIDE`. `CString` is a module of its own for the copies made for system calls, with the real sizes.

## The runs

| Run | Shows |
|---|---|
| `reader` | All operations in any order on an 8-byte stream with both line ends, every cut of it into socket reads, errors and the end at any point. The buffer holds what is unread (`BufferHoldsUnread`), lines, peeks and discards are exact, the buffer is bounded, the reader implements `ByteStream`, and every call returns. |
| `server` | Two clients, two shutdowns, clients that hang up, a kernel that runs out. Ok means closed, no bad pointer before a shutdown or the loop's end, the only client is served, and a shutdown ends a waiting loop. |
| `server_mix_up` | A violation: a callback reads from one client and answers another. |
| `hpack_decoder` | Header blocks of any bytes: the decoder uses the table as `TableSpec` allows, the table's size is exact and within its maximum and no entry is taken from an empty table (`TableSound`), `decode` returns, and each of its steps gets it further (`EveryStepAdvances`). |
| `hpack_peer` | A careful encoder and the decoder agree on headers and table after every block. |
| `connection` | One or two requests with no content, a length, or chunks with trailers; refused, not found, folded, malformed, cut off at any kind of place, with wrong lines among the chunks; reads and writes that fail. Handlers get exactly the content, the connection stays in step, one answer each, `run` ends. |
| `response` | Six calls of a handler in any order, with two lengths and writes of 0 to 2 bytes: the client gets one head and content framed as it says (`AnswerFramed`), complete, and an Ok means an answer. |
| `trie` | Three handlers of all paths of up to three characters, with and without wildcard, in every order: the nodes are the branchings of the accepted paths (`WellFormed`), lookups and refusals are those of a definition over the set of paths (`AnswersAsAdded`), and every level of an addition leaves less of the path (`AdditionsEnd`). |
| `socket` | Two threads make six calls of one socket. Pool announcements and open sockets are accounted for (`Accounted`), results are the kernel's (`ResultsAsKernel`), callbacks find their awaiter, only a call during a close reaches another socket, a close ends every waiting call. |
| `http2` | Prefaces and frames, cut off, padded, with priorities, payload and negative bytes, the padding with the bytes before it or in a socket read of its own: frames without payload are read as sent until padding is discarded behind stale indices (`FramesAsSent`), and both tasks end unless that takes the reader past its data (`RunEnds`). |
| `huffman` | For any bytes `decode` writes, fails and accepts as the codes say (`DecodesExactly`); every character at every bit of a byte is encoded in the shortest way and decoded to itself (`EncodesExactly`). |
| `text` | Numbers, comparisons, searches, lists and the room of copies for system calls against their definitions (`NumbersExact`, `StringsExact`), and any four calls of two `String`s (`StringsSound`). |

`Accounted`, `WellFormed`, `FramesAsSent`, `NumbersExact` and the others of this
kind are conjunctions of named parts, with the type invariant of their module
among them; the other parts
each have a mutant that breaks them.

**Bounds.** The reader's buffer starts at 2 bytes and grows to 4 and to a
limit plus 2, so that moving, growing and refusing all happen within 8 bytes;
`DestLens` has 0, one byte and more than the buffer. The server needs two
connections for a callback to be behind the loop and two shutdowns for one to
find the source gone. The decoder's table has room for one or two entries, so
that most fields drop one; the static table of 6 puts dynamic indices past the
one-byte prefix; `MaxBytes` bounds the blocks decoded on one connection. A
connection needs two requests for the first to leave something for the second;
`Range32` is 4, so that a length of 4 is 0 when cast; buffers are empty, smaller
than, as large as and larger than a chunk; `DiscardLen` is 2 so that a close
takes several reads. Six calls are a status, a header, the stream, two writes and
a close, or any mixture that goes wrong. Two threads are enough for a close to
fall into every place of another call, two hang-ups for a retried accept to be retried
again, two handles for one to be given away and
three sockets for a stranger's. Three paths of three characters give every split,
a wildcard above and below a path, and a collision at each. `ByteRange` is 4, so
that 2 and 3 are negative as `char`; a stray header is of a SETTINGS frame with a wrong
stream, of an unknown type, or of a HEADERS frame with padding, with priority or both. Texts for Huffman start with codes of 5, 6, 7,
8 and 10 bits before one of any length. Four calls of `String`s build a long text,
shorten it, copy it and change a copy. Texts to search contain the characters 130 and 255,
which are negative as `char`.

**Fairness.** `reader`: the connection's thread runs and the client sends or
hangs up (a socket read has no timeout: without that a call may wait for ever).
`server`: threads of the process run and the kernel completes an accept that it
can complete; nobody has to connect or to shut down. `hpack_decoder`: the thread
runs. `connection`: the same for the connection (weak), and the user's handlers
return (strong, as a handler may read as often as it likes before that): this is
an assumption on the user, without which no server ends a connection.
`socket`: threads run, callbacks are called and the kernel completes what it has
aborted; nobody has to connect, to send or to close. `http2`: both tasks run, and
the client's bytes come to an end; a reader past its data may go on for ever or crash. `CHECK_DEADLOCK FALSE` stands where the system
stops by itself: a server that has returned, a decoder that has used up its bytes,
a closed connection, a response that is destroyed, calls that are used up.

## What is proved

For every value of the constants within the named assumptions:

- **`BufferedReaderProofs`** (`CarefulSpec`: callers discard only with bytes
  buffered or indices at 0). `Invariance` of `IInv`, which adds to the type and
  to `BufferHoldsUnread` what holds inside each operation: how much a copy has
  handed over, up to where a line has been searched, what a peek has compared,
  how much of a discard is left; without these a step that returns cannot be
  shown to return the right thing. From it: `TypeCorrect`, `NoByteLost`,
  `AlwaysRoom`, `LinesExact`, `PeeksSound`, `RefusalsJustified`,
  `DiscardsExact`, `GrowsAsAsked`, and `Refinement`, that the reader implements
  `ByteStream`. `SizeAssumption` keeps the callers' lengths away from `UINT32_MAX`.
- **`HttpServerProofs`**, for any number of connections and shutdowns.
  `Invariance` of `IInv`, which adds the order of the steps of `shutdown`
  (`CloserInOrder`), that the source is set before the loop
  (`SourceSetInLoop`), and what the shared slot holds while the loop runs
  (`SlotHoldsSocket`, `SlotHoldsSoleClient`). From it: `TypeCorrect`,
  `OkOnlyWhenClosed`, `ForgottenOnlyWhenClosed`, `SafeWhileLooping`,
  `LoneClientServed`.
- **`HttpConnectionProofs`**, for any streams and handlers with buffers of any length.
  `Invariance` of `IInv`, which adds to the type that a call in progress is one of the
  chunked reader (`CallsInHandler`), how much room its buffer has left (`RoomAndGot`),
  and how many answers each place of `run` has behind it (`Answered`). From it:
  `TypeCorrect`, `ReadsEnd`, `AnswersInStep`. Its second half is for all streams that
  satisfy `StreamAssumption` and `FramingAssumption`. The invariant `InStep` says
  where in the client's request the connection is while nothing is in `loose`: the
  headers read are those of the lines since the request line, in their order
  (`HeadInStep`, by a function from headers to lines); the reader stands at the
  beginning of a chunk, in its data, behind it or among the trailers, as its state
  says (`BodyInStep`); and what the handler has got, with what a call in progress has
  got, are all the units of content behind which the reader is (`AllTaken`). The two
  properties need all of these at once: where the next request is looked for depends
  on where the reader stops, that on the reader that was chosen, and that on the last
  of the headers. From it: `RequestsFollow` and `ContentFollows`.
- **`HttpResponseProofs`**, for any number of calls, any lengths and sizes. `IInv`
  has a part for each stream (`NullWire`, `LengthWire`, `ChunkedWire`,
  `BufferedWire`): what it has put on the wire, compared with what the handler has
  given it, before and after its close. `BegunIsAnswered` relates the status of the
  response to the wire. From it: `TypeCorrect`, `FramingFollowsHead`,
  `DeliveredInFull`, `OkMeansAnswer`. How much content a wire has is a sum over its
  pieces: that appending a piece adds its length is proved by induction, as below.
- **`HpackProofs`**, first for every static table, overhead and user of the table
  (`TableSpec`). `Invariance` rests on `sums`: the sums grow, the table's size is the
  difference of two of them, so a size above 0 means an entry to drop. From it:
  `TypeCorrect`, `AccountingIsExact`, `TableAlwaysFits`, `NeverDropsFromEmpty`. Then
  for every set of blocks of bytes. `DecoderUsesTable` is the refinement `Spec =>
  TableSpec`: each step of the decoder is a step of the table, a call that `TableCall`
  allows, or leaves the table alone. It needs the table's own invariant, for an index
  that the peer has sent must lead to an entry, and that a number or string that is
  read lies within the block. `DecoderTableSound` follows from it and the theorems
  about the table. `DecoderAdvances` (`EveryStepAdvances`) is the part of
  `DecodeReturns` that is not liveness: a step returns, or reads on behind what has
  been read, or ends the table's call or drops one of the entries there.
  `CarefulPeerAgrees` is `EndsAgree` for every careful peer, whatever headers and
  sizes it sends, in whatever order and representation, and however long. Three things
  come together in it. What the encoder writes is read back (`NumberReadBack`,
  `StringReadBack`), as the block holds it byte for byte. The entries that the loops
  leave are the newest that fit (`RightOnesDropped`): none is dropped as long as the
  rest fits, and the sums, which grow, allow only one such number. And the invariant
  `PInv` says for each place in a block what is still ahead of the decoder: the field
  as it is written (`IndexedAhead`, `LiteralAhead`, `IncrementalAhead`, `SizeAhead`),
  or the loop that drops entries (`Adding`, `Resizing`), with what the peer's table,
  which has been changed all at once when the block was sent, is compared with that of
  the decoder. While an entry is added, the one that its name points into must be
  among those that stay: this is where the peer has to be careful.
- **`WinSocketProofs`**, for any finite set of threads, any handles, and any number of
  sockets, calls and retries. `IInv` tells the sockets apart: the one of this
  `SocketImpl` (`OwnSocket`), those prepared for an accept (`Prepared`), those handed out
  (`HandedOut`, `OkIsHandedOut`) and those that nobody has got (`Retried`); what the handle
  may stand for during a close (`ClosingHeld`), and that what is handed out stays connected
  (`ConnectedKept`). From it: `EverythingAccounted`, `ResultsFromKernel`,
  `AwaiterAlive`, and the action property `StrangersOnlyInClose`.
- **`Http2ConnectionProofs`**, for any inputs and any number of values of a byte. `IInv`
  adds to the type that no more frames are handled than units are read (`Counted`), that
  a SETTINGS frame came first (`SettingsSeen`), and for a client whose frames have no
  content where in its stream each place of `innerRun` is (`InStep`), as long as no
  padding is discarded behind stale indices: at a header, behind one, between the bytes of
  padding and priority of one, or at the first frame that is refused. That the reader goes
  past its data only after such a discard is `PastSlipped`. `LengthExact` is that `read3Byte` gives the number that was sent when no byte is
  negative, by arithmetic from `OrAssumption`. Together they are `FramesRight`
  (`FramesAsSent`).
- **`PathTrieProofs`**, for any characters, any lengths of paths and any number of
  calls. `IInv` says that the nodes have full paths `f`, each its own (`Different`), with
  which links and prefixes agree (`Linked`) and which are found by following links
  (`Radix`), in the middle of an addition too; that the nodes with a value are the
  accepted paths (`Recorded`) and the others but the root fork (`Branching`); and that
  every refusal was due (`RefusedForCollision`). The paths `f` are what the nodes do not
  have: `addNodeRecursive` sees prefixes only, and all that it cuts and relinks must leave
  them alone. The trie grows in two ways, below a node (`LeafAdded`) and between a node and
  its child (`MiddleInserted`); the middle of a split is the second, the rest of it the
  first. That a lookup and the paths from the root are what their recursive definitions
  say is proved by the longest node and the shortest rest of a path for which it were not
  (`EndsAre`, `FullPathsAre`, `StepIs`, `FindIs`). From these: `BranchingsAre`, `CountIs` and
  `AnswerIs`, and so `WellFormedAlways` and `AnswersAlways`. `AdditionsAlwaysEnd` is the
  action property `AdditionsEnd`: no child has an empty prefix after any splits, so a level
  of `addNodeRecursive` leaves less of the path.

The type invariants and the other parts that the runs' conjunctions name are proved
with them; those of `BufferedReader` and `HttpServer`, and `RoomToRead`, `TooLongIsLong`
and `SourceForgottenWhenClosed`, are proved and not in the runs.

The assumptions are in the modules that declare the constants, and TLC evaluates them
in the runs. They are types, except for `SizeAssumption`, the sizes of bytes in
`DecoderAssumption`, `FramingAssumption`, `OrAssumption`, and in `WinSocketAssumption`
that the threads are finitely many and that `INVALID_SOCKET` is no handle.
`OrAssumption` is what bits do: words without a bit in common are added by `|`.
`CodingAssumption` says that every byte is a character and that Huffman decoding
yields characters. `PeerAssumption` keeps the peer to the strings that the decoder
reads right, those of 1 to `High - 2` bytes, and to numbers of two extension bytes, as
`EncodeNumber` writes no more.

Two properties changed when they were to be proved. `OkAcceptHasSocket` said that an
accepted socket stays connected. With a third thread and a seventh call TLC finds it is
not so: an accept prepares a socket under the handle that a close has just freed, a
third thread that has read the handle before calls `bind`, `listen` and `accept` or
`close` with it, and reaches the prepared socket. It is now claimed as long as nobody has
reached a stranger's socket (`foreign`). For the connection, which streams are well
formed was decided by what the configuration listed; it is now `FramingAssumption`, and
streams with wrong lines among their chunks, which it allows, are in the run.

The provers take no induction theorem with a predicate as its parameter. Where the
proofs need induction (the content of a wire, the last of several headers, where a
line ends or a request begins, the size of the newest entries, the frames of an input,
the depth of a trie and of a lookup in it), they take the least or greatest element of
a set of counterexamples, from `WellFoundedInduction`, whose theorems about sets they
do take.

Only model-checked:

- liveness (`CallsReturn`, `ShutdownStopsServer`, `DecodeReturns`, `RunEnds`,
  `CloseEndsCalls` and that the tasks of `http2` end), which is out of the prover's reach;
- `DecodesExactly` and `EncodesExactly`: `Huffman` uses `Bitwise`, which the prover does
  not take, and what is claimed is that the entries of two big tables are the right ones,
  which is evaluated and not derived;
- `NumbersExact`, `StringsExact` and `StringsSound`: operators that fold over texts, and
  tables, checked against definitions on bounded inputs; `TextCalls` calls `Strconv` and
  `StringRef`, whose definitions are of that kind;
- `AnswersGoToAsker`, which is false (`server_mix_up`).

## Known departures

`server_mix_up` has a run and a finding. The others are steps of the models which
the properties name as exceptions, or are noted with the hazards:

- A line read just after a consumed `\r` may have the length `UINT32_MAX`.
- `peekMatch` with consumed bytes before the unread ones may say yes after
  comparing a prefix; the only caller peeks first.
- `readLine` refuses a line whose end fits exactly behind the limit.
- `discard` with nothing buffered uses stale indices: it skips too much, or leaves the
  data. HTTP/2 padding that comes in a socket read of its own is discarded so: the frames
  behind it are then read out of step, or the reader goes on past its data and the loop
  need not end.
- `shutdown()` during a round of the loop makes it go through a null pointer; a
  shutdown between two lines of `start()` uses an uninitialised one.
- A shutdown between two accepts makes `start()` return `IoError`.
- A client that hangs up before it is accepted ends the loop: the result of the
  retried `AcceptEx` is taken for that of the accept, and the retry is pending on
  the memory of an awaiter that is gone. A failing `setsockopt` after an accept
  yields Ok without a socket; a failed accept leaves its prepared socket open.
- HPACK strings of length 0 and of 127 or more are misread; an index whose
  extension bytes wrap to 0 fails an assertion; an entry larger than the table
  does not empty it; a name taken from an entry that is dropped for the new one is
  read from freed memory; the result of Huffman decoding is ignored.
- A malformed header line gets no 400; a padded first header line uses an empty
  vector; the status line of `sendStatus` is written without its line ends.
- The content of a request without a handler is read as the next request.
- A content length that is a multiple of 2^32 reads 0 bytes.
- A response left open by the handler of an HTTP/1.0 request is written from
  destroyed members; a response without content gets no `Content-Length`, and a
  failed `getOutputStream` no answer at all; a stream with a content length closes
  with Ok when it was written in part.
- `ChunkedReader::close` returns `Eof` when it has skipped everything and the
  last read found no data.
- A wildcard over existing paths is refused or not depending on where they part; a
  path below a wildcard is accepted and never found.
- HTTP/2: handlers leave payloads unread and odd streams are refused before theirs
  is read, so that the next header is looked for inside; `read3Byte` and
  `read4Byte` are wrong for bytes from 0x80 on; the write task may outlive the
  connection it captures.
- `Strconv`: the entries of `int64_min_values` for the odd radices are not -2^63;
  zero has no digits in a radix other than ten.
- `compare` puts a text before its own beginnings, where the comments say strcmp
  (StringRef.cpp:75, String.cpp:285), and so `StringRef` and `String` with a
  `const char*` order such texts in opposite ways; `OrdersAgree` leaves them out.
  `engCompareIgnoreCase` does not ignore case, as its test for a small letter is true
  of every character; `lastIndexOf` of a character without an index finds nothing;
  `lastIndexOf` may not end from the limit on; both searches index their skip tables
  with `(unsigned)` of a `char`, which may be negative, so that `SearchFindsFirst`
  leaves out patterns with such characters.
- `WCStringBuf` and `WinPathBuf` take the array in the object for as many characters
  as it has bytes: with 128 to 255 the null is written behind it.
- `String` has no destructor, and move assignment forgets a block; a copy of a long
  form with a short text shares its block; `append` of a part of the same `String`
  that makes it grow reads a deleted block, and so does `operator=(const char*)` of a C
  string in the block of the same `String`; of a part of a text in the object it calls
  `memcpy` with memory that overlaps.

## Not modelled, and the plan

Not modelled: `BufferedWriter` (no caller in the repository; its test for room does
not look at the length to copy), addresses and `Global_win` (wrappers of system
calls without state of their own), hashing and moves of `StringRef`, `append_cstr`
(no caller), the destructors of `CString`, the empty files of HTTP/2, and
`SocketImpl_darwin.cpp`, which does not compile and has no thread pool to run on.
The lifetime of the handler map after a shutdown is not modelled either.

Left to prove: `StringsSound` for any number of calls of any number of `String`s, once
`TextCalls` is divided into the ownership of blocks, which is a matter of invariants, and
the functions of texts, which are not.
