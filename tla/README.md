# Scratch+ in TLA+

Models of the connection servers of `scratchplus/` and of the example clients that
talk to them, checked with TLC, and theorems about them proved with TLAPS. Paths are
relative to the repository.

## 1. The system

Every threaded server is a `TCPServer` (scratchplus/tcp.py) with its `_handle_conn`
as handler. The main thread runs the accept loop, each connection gets a daemon
thread, and PipeliningPlusServer and MuxServer start one more thread per request or
stream. A `Connection` owns the socket, a read buffer `rbuf` and a write buffer
`_wbuf`; a socket timeout (`conn_timeout`) applies to reads and writes. AsyncTCPServer
is the asyncio counterpart, used by the echo server only.

| Component | State | Operations | Correct when |
|---|---|---|---|
| ByteBuffer, Connection | `_data`, `rbuf`, `_wbuf`, socket | recv, send, flush, close | bytes leave in order, nothing is lost without the connection ending |
| TCPServer | `_sock`, `_stop`, threads | start, serve_forever, `_dispatch`, stop | stop ends the loop, no accepted client is forgotten, clients do not wait for each other |
| AsyncTCPServer | `_server`, `_started` | start_and_serve, `_wrap`, stop | the same on one event loop; what was sent is echoed before the close |
| HTTP parser | `rbuf` between two calls | `_parse_request` | the i-th call returns the i-th request, whole, in bounded memory |
| HTTPServer | `keep_alive` | `_handle_conn` | one response per request, in order; the announced Connection is kept |
| PipeliningPlusServer | `send_lock`, `pending`, `_wbuf` | reader loop, dispatch, join | complete responses that do not interleave, own Request-ID, no head-of-line blocking |
| MuxServer, MuxConn | `_lock`, `pending` | recv_frame, send_frame, dispatch | frames of a stream in order, one END per stream and last |
| WSServer, WSConnection | `_closed`, `_wbuf` | upgrade, recv_frame, send_* | one CLOSE, PONG for each PING, a session never just breaks off |
| SSEServer, SSEWriter | `_lock` | send_event, send_comment, send_retry | events arrive whole, a reconnect resumes behind the last one |
| Example clients | `_buf`, `streams`, `done`, `current_id`, ... | recv_one, recv_frame, reassembly, reconnect | each answer is filed under its own request, stream or event |
| benchmark/, helpers, log, `*_plus/` | none of their own | timing, logging, placeholders | not modelled |

How they interact: `_handle_conn` calls `_parse_request(conn)`, which calls
`conn.recv()`; responses go through `conn.send` and `conn.flush` (MuxConn writes to
the socket directly). An exception in `_handle_conn` reaches `TCPServer._dispatch`,
whose finally clause closes the socket, whatever threads still use it. `stop()` runs
on another thread than the accept loop. The clients know the servers through the
byte stream only.

What is hard here: threads that share a socket, a lock and a write buffer; a send
that fails in the middle and leaves the rest in `_wbuf`; a timeout taken for an end
of file; a close under running threads; the cut of the byte stream into segments;
the two-sided closing handshake of WebSocket; length fields that change their
form; stop() at any await of a coroutine; resuming an event stream.
`PROJECT.json` lists each of these hazards at its line with the properties that are
aimed at it.

## 2. Modules

| Module | Models | Granularity |
|---|---|---|
| Responder | abstract specification: requests are accepted, answered at most once, never after the close; `InOrderSpec` adds the order | request |
| PipeliningPlus | pipelining_plus.py `_handle_conn`, with `Connection.flush`/`close` | cells of responses |
| RequestReader | http.py `_parse_request` call after call, with `Connection.recv`, `ByteBuffer` | bytes |
| HttpServer | http.py `HTTPServer._handle_conn`; extends RequestReader | bytes in, cells out |
| ResponseReader | `recv_one()` of the example HTTP clients | cells |
| PlusClient | pipelining_plus_client.py; extends PipeliningPlus, instantiates ResponseReader | cells |
| ClassicClient | pipelining_client.py; extends HttpServer, instantiates ResponseReader | cells |
| MuxServer | multiplexing.py `_handle_conn`, `MuxConn.send_frame` | frames in, cells out |
| MuxClient | mux_client.py, both threads; extends MuxServer | frames |
| Framing | headers of WebSocket and multiplexing frames, both writers and both readers | bytes |
| WsSession | websocket.py `WSServer`, `WSConnection`; extends Framing | frames in, cells out |
| WsClient | ws_client.py; extends WsSession | cells |
| SseResume | sse.py with sse_server.py and sse_client.py | lines |
| TcpServer | tcp.py `TCPServer` | system calls |
| AsyncTcpServer | tcp.py `AsyncTCPServer` with the async handler of echo_server.py | awaits |

Two abstractions are implemented: PipeliningPlus implements `Responder!Spec`
(`RefinesResponder`) and HttpServer implements `Responder!InOrderSpec`
(`AnswersInOrder`), with the same mapping: accepted is the number of requests read,
answered the requests whose last cell is on the wire, open the socket. The two
servers differ in exactly the order that InOrderSpec adds.

MCPipeliningPlus, MCPlusClient, MCClassicClient, MCMuxClient and MCWsClient give
tuples to the constants for TLC. The modules named *...Proofs* hold the theorems
(section 5). An operator whose comment starts with *Mutant* is a plausible wrong
version of the definition below it: put in its place, it makes the property that
`PROJECT.json` names with it fail.

### State and actions against the code

*PipeliningPlus.* `pending` is the list of that name, thread t being its t-th
element; `rpc` is where the reader is (reading, joining, in the finally clause of
`_dispatch`, closed). A thread goes through handling (`handler(req)` or the 404 or
500 page), labelling (lines 75-77), encoding (79), ready, sending (80-85), done.
`object`, `header` and `echo` follow the Request-ID from the request into the header
dict of the response object and from there into the encoded bytes, so that a shared
response object can be expressed (`Cached`). `lock`, `wbuf`, `chunk` are `send_lock`,
`conn._wbuf` and what the current `sendall()` has not yet sent; `Acquire`,
`TakeChunk`, `SendCell`, `SendFails`, `Release` are the `with` block. A chunk leaves
the buffer before it is sent, as in tcp.py:40-41, so a failed send loses the chunk
and keeps the rest.

*RequestReader.* Bytes are positions of the client's stream; `rbuf` is the window
from `used + 1` to `got`. `RecvHeader` includes the length test after each `recv()`,
with whatever else came in the same segment; `ParseHead` takes the first blank line
in the window; `Deliver` returns a body as long as the window allows. When a call
starts inside an earlier body, what it parses is arbitrary. `timeouts` is history:
which receives or sends have timed out, for properties that hold without them.

*HttpServer* puts `_handle_conn` around it: handle, flush, go on or close.

*ResponseReader* is the client's half: `got` and `ate` bound its `_buf`; a head is the
first cell of a response; `PlusClient` and `ClassicClient` let it read the very cells the
server has put on the wire. PlusClient sends as the server runs; ClassicClient
reads when all its requests are on their way.

*MuxServer.* `Acquire`/`SendCell`/`SendFails`/`Release` are one `send_frame()`. A DATA
frame that fails raises into dispatch's finally clause, hence from `data!` to `end`;
END that fails ends the thread. `ReadRaises` is the uncaught timeout or the failing
`decode()`, which both skip the join loop. Cells carry the thread for the
properties; the program writes `sid`. *MuxClient* has `waited` for the main
thread, and `reader`, `streams`, `done` for its reader thread and what they share.

*Framing* writes headers as sequences of bytes, `U16`, `U32`, `U64` being
`struct.pack` in network order and `V16`, `V32`, `V64` its inverse.

*WsSession.* `at` is the place of the only thread; `Write` is `write_frame()`, `then`
where it continues and where an OSError takes it. A frame of the server is its header,
byte by byte as Framing has it, and one or two cells of payload. Handlers are those of
the repository: they let OSError through, do not receive again after None and do not send
behind a CLOSE. *WsClient* reads those bytes back with its own `recv_frame()`: `RecvHead`
is the reads of the header, `RecvPayload` one `recv()` of `recv_exact(payload_len)`, `left`
what that still wants, and the reader is "lost" once a cell is not what it is taken for.
`dropped` are the cells that came with the 101 response.

*SseResume.* `lines` is everything the handler will send on this connection; the
client's `current_id` and `pending_fields` are `last` and `fields`.

*TcpServer.* `loop` is the place in serve_forever: the flag test, accept(), between
accept() and `t.start()`. stop() is two steps. accept() may raise OSError at any time.

*AsyncTcpServer.* `main` is start_and_serve() between its awaits, `conn[c]` the await at
which the coroutine of a connection is. `Stop` is one call of stop(); on the loop
it cannot fall between the assignment of `_server` and serve_forever(), from another
thread it can, and then nothing wakes the loop (`awake`). What asyncio does (listening
socket, stream buffers, serve_forever, wait_closed) is modelled as far as the
program can tell, and marked external in the map.

## 3. Runs

| Run | Question | Bounds | Distinct states |
|---|---|---|---|
| pp_client | Does the client get each answer under its own id, whole, none missing at the close, none held back by a slow handler; and is the connection closed in the end? | 3 requests, one without route, bodies of 3, 1, 2 cells, recv() and chunks of 2; the server's receive timeout on, send and join timeouts off; handler 1 may hang | 96 220 |
| pp_faults | What survives every fault (no interleaving, own ids, Responder)? | 4 requests, the last raises in the parser; all timeouts on | 161 544 |
| http_pipelined | Is the classic client right to rely on the order alone; requests in step, head limit, half-close, memory, keep-alive, progress? | 4 requests of 8, 2, 5, 2 bytes, recv() of 2, header limit 4, two timeouts on; the third request closes | 78 548 |
| mux_client | Does the client reassemble each stream, does every stream get its END, does no stream wait for another's handler or frames, does an ended connection leave no thread? | 4 frames (a routed stream with 2 DATA frames, an unrouted one, one stray, one undecodable), 2 cells each; all timeouts on; the first handler may hang | 820 780 |
| tcp_stop | stop() against the loop, service of others | 3 clients, listen queue of 1, one handler may hang | 2 086 |
| ws_session | Is the client in step with the server's frames; CLOSE, PONG, progress? | 4 client frames with payloads of 125, 65536, 126, 2 bytes, a data frame of 65535 or 65536, chunks of 2 cells | 472 983 |
| sse_resume | Events whole, in order, once, lost only when cut, over reconnects? | 3 connections of 2 ticks | 20 741 |
| async_serve | Everything echoed, nobody waits for a deaf client, does a stop that was noticed end the server? | 2 clients of 2 messages, high-water mark 1, one client need not read; stop() from any thread | 191 878 |
| pp_send_timeout | Complete responses after a send timeout? (no) | 3 requests | |
| http_recv_timeout | In step after a receive timeout in a body? (no) | as http_pipelined | |
| mux_recv_timeout | END for every stream when the client is silent? (no) | 2 streams | |
| async_stop | Does every stop() end the server? (no) | 1 client, stop() on the loop | |

Why these bounds: the properties relate two or three actors. Three requests give one
thread that sends, one that waits for the lock and one that is just started; a
response longer than a chunk is what leaves a residue, a shorter one what shares a
chunk with it. A recv() of two bytes against heads of two to four covers segments
that end before, at and behind every boundary, and heads below, at and above the
limit. The WebSocket payloads are the two sides of each change of the length field.
Three connections give a reconnect after a reconnect. The bounds that are counters
of the program's environment (N, Messages, Sends, Ticks, Connections, Conns) are
the only ones; the theorems of section 5 have none of them.

Fairness: threads are scheduled (weak fairness of each thread's steps, of the reader
and of the accept loop; of the coroutines that can go on). Handlers return unless
they are in `Stuck`. The steps of a blocked `sendall()` are fair since it
progresses, fails or times out. In asyncio drain() and wait_closed() have no timeout, so
only a client outside `Deaf` is assumed to read. Nothing else is assumed of clients,
which may stay silent for ever, nor that stop() is called. Nor is a receive timeout
assumed to fire: it may, but where the reader has nothing to receive from an open
connection (`Silent`) no step of it is fair, for the client could always have sent something
more just in time, and N is a bound of the model only. If it had to fire, every silent
connection would stop reading, which is all that Responsive and NoStreamWaits could then
ask; as it is, a lock kept from a stream's first frame to its END (the mutant
LockForStream) and a parser that waits for one byte too many (ShortByOne) break them, in
behaviours in which no wait runs out. A client that is
itself the program under test (PlusClient, the reader of MuxClient) is fair in its
receiving steps, as it loops on recv(). Locks need no strong fairness: each thread
takes one finitely often.

Deadlock is checked in every run; each specification has a step for its final
state, so any other stop is an error.

## 4. Where the code departs from its documentation

The four violation runs:

* *pp_send_timeout.* pipelining_plus.py:84 drops the OSError of a flush that failed half
  way. The residue in `_wbuf` is sent in front of the next response, where
  docs/pipelining_plus.md:63-64 and 76 have one complete response at a time.
* *http_recv_timeout.* http.py:115 ends the body loop on a timeout and returns the short
  body; the rest of it becomes the head of the next request.
* *mux_recv_timeout.* A client that only waits for its streams lets `recv()` time out;
  nothing catches it, and the socket closes under the handlers.
* *async_stop.* tcp.py:175: a stop() that comes while start_server() is awaited finds
  no `_server`, does nothing, and the server goes on to serve.

Met on the way, with no run of their own:

* `_parse_request` raises on a Content-Length that is no number and on a head that is
  not UTF-8, where its docstring says None (`ParseHead` to "raised").
* The same docstring (http.py:80) says None for an end of file, yet a body that an end of
  file cuts short is returned and served like a whole one (`Deliver`). InStep and
  InStepUnlessCut allow this of the last request, behind which nothing can come.
* A handler that returns one shared HTTPResponse gets Request-IDs mixed up: with
  `Cached = {1, 2}` TLC finds EchoesOwnId violated after both threads labelled the object
  and before the first encoded it.
* In a WebSocket session the residue of a failed frame is sent before the CLOSE of the
  finally clause: ClientInSync does not hold without `~broken`.
* ws_client.py drops the bytes that come in one recv() with the 101 response; the
  next frame is then misread (`dropped = 0` in ClientInSync).
* MuxServer's END follows a DATA frame that was cut short, when sendall() timed out in it
  (`"send" \notin faults` in Reassembled). The assertion at mux_client.py:60 compares two
  clock readings taken one after the other, the wait for stream 2 first, and cannot
  fail, in whatever order the streams end.
* An OSError of accept() ends serve_forever although stop() was not called; the docstring
  says it blocks until then.
* A head within one recv() of the limit is served or refused as the segments fall.
* The classic client, and `_ClassicPipelineClient`, extend their buffer by `b""` on
  end of file and go round for ever; only PipeliningPlusClient raises.
* `run_benchmark` of pipelining_plus_client.py lets `_ClassicPipelineClient` talk to
  PipeliningPlusServer, which answers in any order: the head-of-line blocking its
  comments at lines 10 and 142 speak of is not what that server does.
* sse_client.py looks at lines that came with the head only after its next recv();
  when that brings nothing they are dropped, unread but not counted (`StreamEnds`).
* AsyncTCPServer.stop() from another thread between the assignment of `_server` and
  `sockets[0]` makes start_and_serve() raise IndexError, before serve_forever() a
  RuntimeError; and close() from another thread does not wake the loop, so that
  StopWhenServingReturns needs `awake`. Whether the exit waits for the open
  connections depends on the version of Python (`WaitsForHandlers`).
* drain() and wait_closed() have no timeout, so the conn_timeout that
  docs/tcp_blocking_vs_async.md:12-14 gives to both servers does not bound a connection
  of the asyncio one.

## 5. Proofs

The theorems hold for every value of the constants that satisfies the module's ASSUME,
unless a further assumption is named. A theorem about a server is about its module's
`Spec`, in which the client may do anything a client can; the runs with a client have
fewer behaviours of the server, so the theorem covers them. The theorems about what a
client makes of the stream (RightAnswer, MatchedById, Reassembled, ClientInSync) are
about `ClientSpec`, both ends together. Every safety invariant, action property and
refinement of the passing runs is the subject of a theorem.

| Module | Theorem | States | Further assumption |
|---|---|---|---|
| PipeliningPlusProofs | TypeCorrect | TypeOK | |
| | ResponsesNeverInterleave | NoInterleave | |
| | ConnectionIsResponder | RefinesResponder | |
| | OwnIdEchoed | EchoesOwnId | `Cached = {}` |
| | StreamOfResponses | CompleteResponses | `SendMayTimeout = FALSE` |
| | ClosedBehindAnswers | ClosedMeansAnswered | `Patient`: no send or join timeout, and no request that raises in the parser |
| PlusClientProofs | AnswersMatched | MatchedById | `SendMayTimeout = FALSE`, `Cached = {}` |
| HttpServerProofs | TypeCorrect | TypeOK | |
| | BufferBounded | BoundedBuffer | |
| | ParserInStep | InStepUnlessCut | |
| | ShortHeadsRead | ShortHeadsServed | |
| | WordKept | KeepsItsWord | |
| | InOrder | AnswersInOrder | |
| | HalfClosed | HalfClosedStillAnswered | |
| | OrderSuffices | RightAnswer | |
| MuxServerProofs | TypeCorrect | TypeOK | |
| | FramesInOrder | StreamsInOrder | |
| | EndBeforeClose | EveryStreamEndsInTime | |
| | StreamsReassembled | Reassembled | |
| TcpServerProofs | TypeCorrect | TypeOK | |
| | AtMostOneLate | OneLateAtMost | |
| AsyncTcpServerProofs | TypeCorrect | TypeOK | |
| | EverythingEchoed | EchoComplete | |
| SseResumeProofs | TypeCorrect | TypeOK | |
| | WholeEvents | EventsWhole | |
| | Resumed | TicksResumed | |
| WsSessionProofs | TypeCorrect | TypeOK | `LengthsFit` |
| | OneClose | EndsWithClose | `LengthsFit` |
| | PongsAnswer | PongsAnswerPings | `LengthsFit` |
| | ClientReadsFrames | ClientInSync | `LengthsFit` |
| | ServerFramesRead | the client reads the header the server wrote | length below 2^64 |
| | ClientFramesRead | the server reads the header a client wrote | length below 2^64 |
| | MuxFramesRead | a multiplexing header is read back | id and length below 2^32 |

*PipeliningPlus.* `NoInterleave` speaks of `wire` only and is not inductive: whether a
cell may be appended depends on what the buffer and the chunk of the lock's holder
still hold. `IInv` adds three parts. `ThreadsInv`: thread t exists exactly when `pending`
has a t-th element, and a thread not yet sending owns no cell anywhere. `LockInv`: a
thread is sending exactly when it holds the lock, and only the holder has a chunk.
`StreamInv`: the sequence `wire \o Held \o wbuf`, what was sent, what is being sent and
what is buffered, is contiguous. Taking a chunk and sending a cell leave that sequence
as it is; acquiring appends a whole response of a thread that has no cell in it yet; a
failed send removes a stretch from its middle, and a sequence stays contiguous when a
stretch of it is removed. So the theorem covers the residue after a failed send too:
responses may be incomplete, but are never mixed.

For the answers: a labelled thread holds its own id (`LabelInv`), the stream is one of
complete responses while sends only fail on a dead socket (`SizeInv`, `CompleteInv`), and a
thread that is done has sent all it had (`SentInv`), which the join loop waits for (`JoinInv`).

*PlusClient.* The client finds a blank line and takes it for the end of the next head; that
this is so does not follow from the bytes it has, only from what the server has put on the wire.
`ServerInv` gives it whole responses whose cells know how many they are. `PlaceInv` has
the client stand at the end of one of them, or behind a first cell, so that Content-Length
counts up to the next end. `FiledInv` says of each answer that it was taken out of
the stream in front of that place, hence no response is filed twice. With a send timeout the
stream has holes, and with `Cached` two responses may bear one id: both hypotheses are needed.

*RequestReader and HttpServer.* `BufferInv` bounds `rbuf` at each point of a call;
`StepInv` says that the requests returned so far are the first of the stream, and where
in the next one the parser stands; `RefusedInv` why a head was given up. `ServerInv`
relates the answers on the wire to the call they belong to. ReaderAssumption states
that `Start` is monotone, which follows from its recursion by an induction the
provers cannot do.

HalfClosed needs to know why the loop of `_handle_conn` ended. `UpTo`: a parser in step stands
at the beginning of the next request at the latest. `EndInv`: a call that no timeout disturbed
returned None or raised at a head that is malformed or may be too long, or at the end of
the stream with every whole request taken. `TurnInv`: what was handed over is answered, and
the loop ends after such a call or behind a request that closes the connection.

OrderSuffices is the counterpart of AnswersMatched with nothing but the order to go by.
`PagesInv`: `wire \o out` is the whole responses of the calls made so far, in their order,
with none left out. `TakenInv`: behind k answers the client stands at the end of the
k-th response or behind the head of the next. `AnswersInv`: the k-th answer is the
response to the k-th call.

*MuxServer.* The lock plays no part in the order within a stream: the invariant
speaks of one thread at a time, which of its frames can be on the wire given what it
still has to send. `JoinInv` and `EndInv` are what EveryStreamEndsInTime needs: the
reader closes behind joined threads, and a thread is done behind its END.

*MuxClient.* For the reader on the other side the lock does the work: `LockInv`, `RestInv`
and `EdgeInv` make the wire a sequence of whole frames (`RowsInv`) unless a send timed out, so the
client always stands between two (`PlaceInv`). What it has filed are the frames it has
passed (`FiledInv`), in order by StreamsInOrder; that none is missing takes `HaveInv`, what
a thread has sent is on the wire, and `GapInv`, a frame stands behind the frame sent before it.

*TcpServer.* A client waits at one place of the queue (`QueuedOnce`), and the late
connection was taken by the accept() under way when the flag was set (`LateOnce`).

*AsyncTcpServer.* A connection of a client that has shut down closes only with
nothing left to read, and is closed with nothing left to send (`EchoInv`).

*Framing.* Byte by byte: `V16` undoes `U16`, by the laws of division, and the longer
forms follow from it; payload behind the header does not disturb the reader. `LengthsFit`
assumes of a session what this needs, payloads shorter than 2^64 bytes.

*WsSession.* EndsWithClose and PongsAnswerPings speak of `wire`, but a frame is spread over
`wire`, `chunk` and `wbuf`, and a failed send leaves part of it behind. `OrderInv` says which
cell may follow which over all three: nothing but the rest of a CLOSE or a PONG behind a
CLOSE, PONGs in the order of their pings. `CellsInv` relates a cell to the state (a CLOSE
means `_closed`, a PONG that the earlier pings are answered), `ThreadInv` the place of the
thread to what is unsent. `CloseInv` and `PingInv` say what must be there: the CLOSE of a
closed connection, the PONG of each ping that was read.

*WsClient.* While no send has failed, `wire \o chunk \o wbuf` is the frames written so
far, whole and in order (`StreamInv`). The client stands between two of them or in the
payload of the last, with as much of it to read as is left there (`PlaceInv`), because by
ServerFramesRead it read the length that was written; the frames returned are stretches of the wire it
has passed (`FiledInv`).

*SseResume.* `PlaceInv` says which line of which event the client reads next and what it has
collected of that event; `OrderInv` and `CoverInv` relate `last` to what was printed or
cut. Between two connections only `last` remains, which is what the reconnect sends, so
the three parts survive the reset of everything else.

Only model-checked: the liveness properties (LeavesNoConnection, FastNotHeldBack, Responsive,
NoStreamWaits, StopEndsLoop, EveryClientServed, ClientsIndependent,
StopWhenServingReturns), since fairness is beyond this prover.

## 6. Not modelled

* The blocking echo handler and the echo client: straight loops on one connection. (The
  handler never drains `conn.rbuf`, echo_server.py:30, so it grows with the traffic.)
* `_SequentialClient` (one connection per request), the benchmark (wall-clock times of the
  clients modelled here), helpers and log (a clock, a logger), the `*_plus/`
  placeholders, which have no code.
* The text of heads and pages, json and reason tables, routing tables: the kind of a
  request says whether it has a handler. The mask and the accept key of WebSocket.
* SSEWriter with several threads: no handler of the repository has a second writer, and
  its lock has nothing to exclude; `Connection.peek()`, which no server uses.
* The RST that a close with unread input may cause, which can destroy data already
  sent; a thread that cannot be started (pipelining_plus.py:93-95, where `t.start()`
  would leave an unstarted thread in `pending`).
* Handlers of one request or stream that use several threads.
