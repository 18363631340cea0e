# Specifications of c--study

The repository holds the study programs of one author: network servers on
Boost.Asio, small applications, hand-written containers, a neural network, and
demonstrations of language features. This directory holds TLA+ specifications of
those that have behaviour, the TLC runs that check them, and TLAPS proofs.

The centre is `src/asio/Async`, the asynchronous TCP server "with a thread pool,
a message queue and session management" of the repository's README: threads,
callbacks and partial transfers meet there, its parts are composed, and every
safety property of a part is proved. Around it every other program that keeps
state and can run has a module of its own, most of them with proofs too.

## 1. Inventory

### asio/Async, a TCP server

| part | state | operations | correct when |
|---|---|---|---|
| logic queue (`LogicSystem.cpp`) | `_msg_que`, `_mutex`, `_consume`, `_b_stop`, the worker thread | `PostMsgToQue` (io threads), `DealMsg` (worker), `~LogicSystem` | every post is taken up once, in order; the worker never sleeps on work; nothing is left at exit |
| sending half of a session (`CSession.cpp`) | `_send_que`, `_send_lock`, the outstanding write | `Send` (logic thread), `HandleWrite` (strand), `Close` | one write at a time; its buffer is alive; no queue without a write; the wire carries whole messages in order |
| receiving half (`CSession.cpp`) | `_data`, `_recv_head_node`, `_recv_msg_node`, `_b_head_parse` | `HandleRead` (strand) | messages are the frames of the stream however it is cut; no copy leaves its buffer; the session keeps reading (section 3 says how far each is so) |
| server (`CServer.cpp`) | `_session`, the outstanding accept | `StartAccept`, `HandleAccept`, `ClearSession` | always one accept; a session whose peer left leaves the map |
| pools (`ThreadPool.cpp`, `IOServicePool.cpp`), `main` (`AsyncServer.cpp`) | io_contexts, work guards, threads, `bstop` | `GetIOService`, `Stop`, the signal handler | a signal ends the process |
| client (`Jsonclient.cpp`) | one socket per thread | write a request, read its reply, 500 times | the j-th reply is the one to the j-th request |

How they interact. A thread of the pool runs `HandleRead` on the session's
strand; it posts a `LogicNode`, which holds the session, to the logic queue.
The logic thread calls `HelloWordCallBack` with the queue's mutex still held;
the callback calls `Send`, which takes `_send_lock` and may start an
`async_write`. The write completes on the strand in `HandleWrite`, which takes
`_send_lock` and starts the next one. Either handler, on an error, closes the
socket and erases the session from the map of the server. What keeps a session
alive is the handlers of its outstanding operations, the nodes in the logic
queue and the server's map.

What is hard: posts that notify only an empty queue; a shutdown flag written
without the mutex; two threads that both start writes; a buffer that belongs to
a queue; a parser whose state spans reads; a map that is filled after the
session has been started.

### The other programs

Nothing connects these with each other or with `asio/Async`.

| part | state and operations | hard, and correct when |
|---|---|---|
| asio/Coroutine | a server with a coroutine per session (`CSession.h`), a map under a mutex (`Cserver.h`) | the destructor that closes and erases under the mutex that erased it; who holds the session a coroutine reads with |
| asio/http websocket server | accept, handshake, one read, a send queue; a map of connections | the buffer of a write outlives it; what fails leaves the map |
| asio/http `beasthttp.cpp` | read, process, write, deadline | a request is answered; the connection is released |
| asio/http `http.cpp` | http client: chain of handlers | not modelled, see section 5 |
| asio `Asycapi.cpp` | `_send_queue`, `_send_pending`, `_recv_pending` | the next node is sent from its start |
| asio `socket.cpp`, `SyncServer.cpp`, `SyncClient.cpp` | blocking loops | partial transfers add up; client and server do not wait on each other |
| basic/final1 `log.h` | `logQueue`: push, pop, shutdown; `Logger` and its thread; `formatMessage` | nothing logged before the end is lost; the thread ends |
| basic/final2 `TaskManager.h` | tasks, `nextId`, the file; add, remove, update, save, load | ids are unique; what is saved is what is loaded, also after a crash in a save |
| basic/STL | `Deque`, `List`, `hashmap`, `mymap`, `AVLmap` | each is the sequence or map it claims to be |
| basic/type_ptr | `simpleSharedPtr`: copy, move, assign, reset | freed once, by the last owner |
| basic/jsontest | recursive-descent parser | every part consumes what it should |
| tsoding `Matrix.h` | forward, `back_prop`, learn | `back_prop` is the gradient |
| tsoding `neural_network.cpp` | a perceptron on drawn shapes | shapes fit the layer; the training can converge |
| basic/Singleton_Pattern, language demonstrations, other demos of tsoding | none worth a model | not modelled, see section 5 |

## 2. Modules

| module | models | remarks |
|---|---|---|
| `Mailbox` | the abstract promise of a queue between threads | implemented by `LogicSystem` and by `Logger` |
| `LogicSystem` | `LogicSystem.cpp` | one worker, any number of posting threads, the destructor |
| `SendQueue` | `Send`, `HandleWrite`, the error paths, and the transport | writes transfer their buffer piece by piece |
| `RecvFraming` | `HandleRead` over a byte stream | bytes are identified by frame and place; lengths are signed |
| `CServer` | `CServer.cpp` and the life of sessions | handlers cut into statements, on a pool of threads |
| `RequestReply` | the abstract promise to a client | implemented by `AsyncServer` |
| `AsyncServer` | `RecvFraming`, `LogicSystem` and `SendQueue` composed, with the clients of `Jsonclient.cpp` | joint actions where one part calls another |
| `Logger`, `LogFormat` | `basic/final1/log.h` | queue, worker and destructor; `formatMessage` on a format of tokens |
| `CoServer` | `asio/Coroutine` up to the first body | accept on the main thread, coroutine on the pool's, shutdown |
| `WsServer`, `HttpServer` | the two servers of `asio/http` | buffers that are gone; a deadline against a read |
| `ApiSession` | `Asycapi.cpp` | both ways to write and to read |
| `SyncSocket`, `SyncEcho` | `socket.cpp`; `SyncClient.cpp` against `SyncServer.cpp` | calls cut into transfers; two bounded buffers |
| `TaskManager` | `basic/final2` | every line of a save is a step, after which the process may die |
| `SeqContainer` | the abstract promise of a sequence container | implemented by `Deque` and by `List` |
| `Deque`, `List`, `HashMap`, `BinaryTreeMap`, `AvlMap` | `basic/STL` | one action per call, over the representation of the code |
| `SharedPtr` | `basic/type_ptr/simpleSharedPtr.h` | pointers in variables and in the objects they manage |
| `JsonParser` | `basic/jsontest/Jsontask.cpp` | a recursive function, as in the code, on documents given with the values they denote |
| `NeuralNet`, `Perceptron` | `tsoding/mechine_learning/Matrix.h`, `tsoding/neural_network.cpp` | integers for numbers |
| `AsioPrograms` | the programs beside `asio/Async`, side by side | `ApiSession`, `SyncSocket`, `SyncEcho`, `CoServer`, `HttpServer`, `WsServer` |
| `Containers` | containers and shared pointer, side by side | `Deque`, `List`, `HashMap`, `BinaryTreeMap`, `AvlMap`, `SharedPtr` |
| `Programs` | the programs of `basic` and `tsoding`, side by side | `TaskManager`, `JsonParser`, `Logger`, `LogFormat`, `NeuralNet`, `Perceptron` |
| `MC*` | constants and inputs of the runs | see below |
| `*_proofs` | theorems about the module of that name | see section 4 |

`AsioPrograms`, `Containers` and `Programs` instantiate the modules of programs
that nothing connects and put them side by side: a variable (`used` or `runs`)
chosen in the initial state says which of them moves, and the others rest in
their initial states. The reachable states are the disjoint union of those of
the modules, so each property is checked, and proved, as it would be alone. A
property `Safe` of module `M` appears there as `MSafe`, and the assumptions a
module makes of its constants (`MAssumption`) are assumed there, together
(`AsioAssumption`, `ContainersAssumption`, `ProgramsAssumption`).

How state and actions correspond to the code is in `PROJECT.json` ("map") line
by line; the decisions behind it are these.

* **Granularity.** A critical section is one action when everything it touches
  is touched only under the same mutex. `DealMsg` is not one: `_b_stop` is
  written without the mutex, so the test of the wait condition, the entry into
  the wait set and the second read of the flag are actions of their own, and so
  are the callback and the pop after it. The queue of `Logger` is one: flag and
  queue are both under `mutex_`, and the wait inside `pop` cuts it in two.
  `HandleAccept` and the error paths are cut into statements because nothing
  protects the map. One turn of the loop of `HandleRead` is one action. In
  `CoServer` the two threads meet between the statements of `HandleAccept` too.
  What only one thread can see is one action: a call on a container, a handler
  of a server whose io_context has one thread.
* **Condition variables.** A wait releases the mutex and enters the wait set in
  one step, may return without having been notified, and takes the mutex again
  before the condition is tested.
* **`_b_stop`** is a plain `bool` that one thread writes and another reads. The
  reads happen in one or the other order with the write, as the actions say;
  that a compiler could keep the flag in a register is excluded by the calls
  between the reads.
* **Transport.** `async_write` is `Transfer` (a piece of the buffer goes out)
  repeated until the last piece, or `WriteFails`; its handler is a later step.
  `async_read_some` delivers any number of bytes, from one to `MAX_LENGTH`.
  A blocking `write` of `SyncEcho` puts what fits in a buffer, again and again.
* **Undefined behaviour.** What is read from released memory is any of the
  model's values or a value of its own (`Junk` in `WsServer`, `freedRead` in
  `SharedPtr`); a null pointer that is read ends the process (`crashed`); a copy
  past the end of a `RecvNode` is made, and nothing is said of what the process
  does from there (`InBounds` in `RecvFraming`).
  Properties of such a module say what holds until then.
* **Data.** A message is the node that carries it, a head is decoded to the
  length its peer wrote if its bytes are the head of one frame. The four bytes
  of a head that has lost its framing can decode to any value of a signed `short`
  the model has (`Short`): the length of a body, one the code refuses, or a
  negative one, which passes the check of `CSession.cpp:142`. `CServer` has no
  bytes; a read there has the outcomes that make a difference to the life of a
  session: an error, a head that is refused, a head whose node throws, messages.
  A document of the JSON parser is a sequence
  of characters, because what a value consumes is what the property is about.
  The numbers of `NeuralNet` are integers and sums over the samples: the rounding
  of floats is left out.
* **Intent.** `main` of `asio/Async` as committed builds no server that compiles
  everywhere (`ThreadPool` has an ambiguous constructor, `Start` names
  `HandleRead` without its class), nor do the calls that make a `MsgNode` in
  `Asycapi.cpp`; `beast_main` returns without running its io_context. The modules
  follow the code's evident intent there.

## 3. Runs

| run | instance | distinct states | shows |
|---|---|---|---|
| `logic_system` | 4 messages, one with an unregistered id | 5,497 | order, no loss, no sleeping on work, drain at exit, the mailbox, liveness |
| `send_queue` | 1 session, 4 sends, limit 1, 2 pieces | 4,967 | one write, live buffer, wire in order, no stall, the limit, liveness |
| `recv_framing` | head of 4, chunks up to 8, bodies of 0, 1 and 3, 3 frames; lengths of -6 to 9 once framing is lost | 16,794 | copies fit in every node but those of a negative length, bytes are conserved, frames are exact unless a body was split, liveness |
| `recv_framing_split` | the same | stops early | a split body swallows the head of the next frame |
| `cserver_pool` | 2 sessions, pools of 1 and of 2 threads | 92,197 | one accept; the two ways to a stale entry in the map; on one thread only one of them |
| `async_server` | 2 clients with 1 request each, or 1 client with 3 | 38,361 | answers in the order of requests, once, to their own client; a split request starves; what a client leaves is released |
| `containers` | `MCContainers` | 130,174 | the containers and the counts of the shared pointer |
| `asio_programs` | `AsioPrograms` | 30,559 | the programs beside `asio/Async` |
| `http_server_answer` | `AsioPrograms` | stops early | a response is put together and not written |
| `socket_send` | `AsioPrograms` | stops early | a single `send` returns when a part was sent |
| `programs` | `MCPrograms`: a logger with 2 threads and 3 lines each; documents without spaces before `]`, `}` and `,` | 42,400 | the logger (lines once and in order, a complete closed file, no sleeping on lines, the mailbox, liveness), task manager, parser, `formatMessage`, network, perceptron |
| `json_parser_spaces` | `MCPrograms`, documents with such spaces | stops early | a space before a closing bracket becomes a value |

Why the bounds are enough.

* *asio/Async.* A queue of the logic thread with four messages passes through
  empty, one and many while the worker is at each of its states, and an
  unregistered id can come first, last and between. A send queue with a limit
  of one is full with two nodes, and four calls reach it, are refused, and
  reach it again after a pop; sessions share nothing in `SendQueue`, so one is
  enough. In `RecvFraming` the head and a body of three are longer than one
  byte, so both are cut in every place; a chunk of eight holds a whole frame
  and a part of the next; an empty body makes a frame that ends with its head;
  three frames let the third be read after the framing was lost on the second.
  Text read as a length can then be each kind that the code tells apart: above
  `MAX_LENGTH` (refused), of a body, negative with a node of four bytes, fewer or
  none (-1 to -5), and so negative that the allocation throws (-6).
  Two sessions and two threads let one thread be between two statements of
  `HandleAccept` while another runs the handlers of the same session and
  accepts the other. Two clients interleave in every queue; a client does not
  ask again before it has been answered, so what several rounds add is checked
  with one client.
* *basic/final1.* Two threads with three lines each fill the queue to more than
  one line while the worker is asleep, before the queue, and with a line in its
  hand, and the destructor may begin at each of these moments. Formats of four
  tokens with up to three arguments have fewer, as many and more placeholders
  than arguments, adjacent ones, and text before, between and behind them; an
  argument may print as a placeholder.
* *Containers.* A ring of two slots wraps at every place and is resized twice
  before it holds five; list nodes have neighbours on both sides; two of three
  keys share a bucket until the second rehash; with four nodes and three keys a
  tree has equal keys and a node with two children one of which has a child;
  six keys give an AVL tree both double rotations; two pointers and three
  objects make chains and cycles.
* *asio beside Async.* Messages of one to three bytes let a partial transfer be
  shorter than, as long as or longer than the next message. Frames of four bytes
  in buffers of three never fit in one piece. The coroutine server accepts one
  connection, and one is enough. Of two http or websocket connections one may
  fail while the other is served.
* *Other programs.* Three tasks have one in the middle that can be removed, and
  five ids let an id be reused if the code would. Documents nest lists and
  dictionaries twice. A network of three layers has one below a layer that is
  below the last. A layer of six by six has circles of radius one and two.

Every run allows deadlock (`CHECK_DEADLOCK FALSE`): with bounded messages,
sends, frames or sessions all of these systems come to rest, and the logic
queue ends when its destructor has joined.

### Fairness

Threads that can run do run (`WF` on the worker and on the destructor's steps,
in `LogicSystem` and in `Logger`), sockets deliver what was written or fail, and
queued handlers are run by the pool. Nobody owes a post, a send, a frame, a
signal or the end of a connection. Strong fairness stands in three places. In
`AsyncServer`, `PostMsgToQue` competes for a mutex that the worker releases
again and again, and a write's handler competes with `HandleRead` for the
strand: a mutex and a strand that are free infinitely often are got some time.
In `CServer`, an operation on a socket that can only fail is delivered some time
even though threads are busy now and then, because the io_context serves its
handlers in order.

`SyncEcho` has `WF` on every step of its three threads: they block, and go on
when there is room or a byte. `HttpServer` has `WF` on the two handlers of a
connection, whose timer expires and whose read ends. `AsioPrograms` and `Programs`
assume the fairness of a program only where it is the one that runs. The other programs state
safety only, and need none.

### What the runs found

Four runs show that the code does not do what the repository says of it.

* **A split body swallows the next head** (`recv_framing_split`).
  `CSession.cpp:186` computes what is missing of a body from `_total_len`,
  which for a `RecvNode` includes the head (`Node.h:40`). A message whose body
  does not arrive together with its head is posted with four bytes of the next
  frame, or is not posted at all until they come: a client that waits for the
  reply, as `Jsonclient.cpp` does, waits forever (`SplitStarves`).
  `ExactUnlessSplit`, `FrameIsPosted` and `RequestIsAnswered` state what does
  hold.
* **No request is answered** (`http_server_answer`). `process_request` ends
  without a call of `write_response` (`beasthttp.cpp:72`); the deadline closes
  the connection, as `ConnectionEnds` shows.
* **Spaces before a closing bracket** (`json_parser_spaces`). The parser looks
  for brackets, commas and colons without skipping spaces and takes a space for
  the beginning of a value. `ParsesDocument` holds for documents without them that
  have no `true`, `false` or `null` either: for those the parser returns null and
  consumes nothing (`Jsontask.cpp:223`).
* **A part is sent** (`socket_send`). A comment says of the `send` of
  `send_data_by_send` that it sends all or throws (`socket.cpp:212`). One `send`
  of a socket is one transfer, and returns when the system took a part;
  `SyncSocketSafe` states what does hold: the functions that loop, or let the
  library do so, end with the whole message.

Other faults met on the way are part of the modules, whose properties state what
remains true; no document of the repository says otherwise, so there is no
failing run for them.

* A session can stay in the map of `CServer` for good if its first read fails on
  another thread between `Start` and `insert`, or if a head with a length below -5
  makes the allocation of its node throw: `HandleRead` ends in its `catch`
  (`CSession.cpp:223`) with no further read, `Close` or `ClearSession`.
  `StaleOnlyIfEarlyOrThrown` says that these are the only ways, `GoneIsErased` that
  on one thread only the second is left.
* The length of a message is a signed `short` that is compared with `MAX_LENGTH`
  only (`CSession.cpp:142`). One from -1 to -5 makes a node of at most four bytes, and
  the comparison of a `size_t` with it is always true, so that the whole rest of the
  chunk is copied there (`CSession.cpp:152`). `CopiesFit` says that every other
  copy stays in its node, and that a session has such a node only when a body was
  split before; `BytesConserved` holds until the copy. A client that waits for each
  reply does not get there: a split body has nothing behind it that could be read as
  a head (`SplitStarves`).
* The notification of `~LogicSystem` can fall between the test of the wait
  condition and the entry into the wait set; the worker then sleeps (unless it
  wakes spuriously) and `join` does not return. `JoinReturns` excludes exactly
  this window.
* The send queue holds one node more than its message says (`>` against the
  size before the push, `CSession.cpp:46`); `TypeOK` states the bound it keeps.
* The coroutine server locks its mutex twice when the erase in `ClearSession`
  drops the last reference, and crashes on the first valid head, whose node is
  assigned to the wrong field (`CSession.h:104`). `CoServerSafe` says when a
  coroutine ends at all.
* A websocket message may be written from released memory, and a connection that
  has echoed is never removed from the map (`WsServerSafe`).
* In `Asycapi.cpp` the count of a partial transfer is carried over to the next
  node (`ApiSessionSafe`).
* The readers of `socket.cpp` end the process or return nothing
  (`SyncSocketSafe`).
* `hashmap::insert` does not compare the last node of a chain: a key is there
  twice, at most (`HashMapSafe`). `mymap::erase` cuts off subtrees: what is left
  is a tree (`BinaryTreeMapSafe`). `AVLmap::insert` does not balance after a
  descent to the left, and removing a node with two children reads a null
  pointer (`AvlMapSafe`).
* An assignment of a `simpleSharedPtr` reads its source after it has released
  what may own it (`SharedPtrSafe`).
* `back_prop` doubles the gradient once per layer below the last
  (`GradientDoubledDown`).

## 4. Proofs

Eight modules hold proofs. Their theorems are about every set of messages,
sessions, nodes, threads, connections, tokens or pointers, and every
limit, length and number of pieces, lines and arguments, under the assumptions
the modules name. `LogicSystem_proofs`, `SendQueue_proofs`,
`RecvFraming_proofs` and `CServer_proofs` are about the module
of their name (`RegisteredAssumption`, `LimitAssumption`, `PiecesAssumption`,
`HeadAssumption`, `LengthAssumption`, `ShortAssumption`, `FramesAssumption`,
`NoSessionAssumption`, `ThreadAssumption`), and `SafeAlways` is there the
invariant `Safe` of the run. `AsyncServer_proofs` is about the composition of
three of them (`RoundsAssumption`, `LengthAssumption`, `LimitAssumption`), and
instantiates their proofs. `AsioPrograms_proofs`, `Containers_proofs` and
`Programs_proofs` are about the modules that are put side by side
(`AsioAssumption`, `ContainersAssumption`, `ProgramsAssumption`); there the
theorem about `MSafe` is `MSafeAlways`. Each of these three rests on
`StepsOfOne`: a step of the composition is a step of the module at hand or
leaves its variables alone, so an invariant of the module alone is one of the
composition.

### asio/Async

*LogicSystem.* `NoSleepOnWork` is not inductive: a post keeps it only because
a worker in the wait set has an empty queue, and that is because it entered the
set with the mutex held since it tested the condition. The invariant adds to
the types who holds the mutex at each place of `DealMsg`, what is known of the
queue there (empty at "block" and "waiting", not empty where its front is
used), and that past the second test the flag is as it was read. One lemma
per group of actions preserves it. `TakenInPostOrder` is the conjunct that
carries the history; `DrainedAtExit` follows from it and the empty queue at
"exited". `ImplementsMailbox` maps the initial state and every step to the
abstract mailbox.

*SendQueue.* The three facts about writes need each other: `Send` starts a
write on an empty queue only, which has none because a write's buffer is the
front of the queue; `HandleWrite` pops the front, which is the node it wrote
because there is only one write. `WInv` says all of it of one session, and
that a running write has pieces left. `WireStaysInOrder` adds what links the
queue to the history (`WireInv`): the queue is the end of what was accepted, and
the wire is all pieces of the nodes before it followed by the pieces of its
front that the outstanding write has sent. The arithmetic of pieces is in
`PieceOfNode`, `NodeOfPiece` and `PrefixOfFrames`.

*RecvFraming.* Types and `Fits`, the bounds of `CopiesFit`, are inductive together. The first lemmas
say what the chunk is cut into: the missing part of a head is in it once
`HeadShort` is false (`HeadCut`), and a decoded length is one of the model's
(`DecodeType`). Each way through the loop then bounds its copy by the test it
has made: a beginning is shorter than its body and so than its node, a
continuation fills at most `RemainMsg`; for a node of a negative length no bound
holds, and none is claimed (`Fits`). That there is no such node before a body
was split is a consequence of exactness (`CopiesStayInside`), because until then
only whole heads are decoded. This part does not ask what the bytes
are, so it covers the streams that have lost their framing.
`ExactAlways` does ask. As long as no body was split, what a session has not
posted, the parts of head and body it holds, its chunk and what is still on the
wire, is a concatenation of whole frames that continue the posted ones (`EInv`).
`FramedConcat` and `FramedPop` say what appending a frame and taking one off
does to such a stream, and `HeadDecoded` that the head of one decodes to its
own length.
`NoByteIsLost` (`CInv`) holds for the split ones too, as long as each copy stays
in its node. The bytes that were posted
are a sequence of sequences that is flattened; the library defines that by
recursion over its length. `FlattenExists` and `FlattenUnique` show, by
induction, that the function it chooses exists and is the only one, and
`FlattenAppend` what one more node adds.

*CServer.* `OneAccept` counts; the invariant says instead that what accepts, the
acceptor or a thread in `HandleAccept`, is unique, and the count follows without
a bound on the threads. For `StaleOnlyIfEarlyOrThrown` it says who will erase a session
that is in the map or about to be inserted, was not erased early and did not end
in the `catch` of `HandleRead`: its
outstanding read, or a thread on its way to `ClearSession` (`Erasable`); and of
a session that is not yet started that nobody holds it (`Fresh`).

*AsyncServer.* `IInv == Parts /\ Flow`. `Parts` are the invariants of the
receiving half, the logic queue and the sending half, from the three modules of
proofs by instance (`FP`, `LP`, `SP`): a step of the composition is a step of a
part, or leaves its variables alone (`PartsStep`). So everything proved of the
parts holds in the composition, exactness of frames and order on the wire
included. What no part knows is `Flow`, with four conjuncts for each client. A
client writes when it has read two pieces, head and body, for each request
(`AskInv`). The k-th reply accepted is the one to the k-th request, none has been
refused, and the wire is at most one reply ahead of those popped (`ReplyInv`).
What has been posted and not yet replied to is at most one message, and it is the
next (`DueInv`, over `LP!Owed`, the messages the logic thread has not called back
for). And a split body has nothing behind it (`SplitInv`). They need each other:
since the client has read what was replied, it is at most one request ahead of
the replies (`Counted`), so the frame whose head is complete is the last one
(`LastHead`) and no second message can be posted before the first has been
replied to; since the message in front is the next, its reply is; and since the
wire has carried the reply before, the send queue holds at most that one and does
not refuse (`NoReplyIsRefused`, which needs a limit of at least one).
`SplitAlwaysStarves` follows: HandleRead waits for four bytes more than the body
has, and its client has nothing more to write. For `ImplementsRequestReply`, the
pieces a client has read are the pieces of the nodes accepted (`SP!WireInv`),
which are its own replies in order (`AnswersInOrder`); the read of a body is then
the abstract answer, the write of a request the abstract question, and every
other step leaves both as they are. It needs `Pieces = 2`, as the composition
does: a client reads a head and a body.

### Beside asio/Async

*WsServer* (`WsInv`). For each operation that can be outstanding the invariant
says whether the connection is in the map, and what is in its queue and on its
wire (`WsConnection`): one message at most, that has been heard.

*SyncSocket* (`SyncInv`). A function that only connects never comes to a
transfer, and a transfer goes on only while there is something left of it.

*CoServer* (`CoInv`). While the coroutine has not come to `Close`, the handler
of the accept or the map holds its session; which of the two is a matter of
where the main thread is. The thread locks itself out only when the map alone
holds the session, which is after `HandleAccept`.

*ApiSession* (`ApiInv`). The count of a partial transfer is carried over to the
next node, so the bytes on the wire are not those of the messages. What remains
true is that they ascend: the wire never overtakes what the front node holds
(`Past`), a partial transfer moves that on, and a node that is popped is
followed by one of a later message, whatever its count (`Queued`).

*SyncEcho* (`EchoInv`). Client buffer, socket buffers and server buffer hold
adjacent pieces of one stream, from the byte the client waits for to the end of
the last frame written (`Stream`). Each step moves a piece from one of them to
the next (`Moved`); the first piece, once it is as long as the client wants, is
the body of the next frame (`PieceIsReply`).

*Deque* (`DInv`). `IsRing`: the slots of all elements, counted around the buffer
from `front_idx`, hold values. Four lemmas (`RingPushFront` and so on) say what
a call does to the sequence those slots show, `ResizedRing` that a copy into a
larger buffer shows the same. `DequeImplementsContainer` maps each call to the
call of `SeqContainer`.

*List* (`LInv`). A `Chain` through a sequence of nodes: they are those that are
allocated, each once, and `next` and `prev` lead from each to its neighbours,
with the sentinels around them. `InsertLinks` and `EraseLinks` say that four
(two) assignments make a chain of the sequence with the node put in (taken
out). The sequence is what a walk along `next` meets, a recursive function:
`WalkIsChain` ties it to the chain. `ListImplementsContainer` maps each call to
a call of `SeqContainer` or to none.

*SharedPtr* (`PInv`). `Counted`: each object that was not deleted has as many
pointers, in variables and in such objects, as its count says, and at least one.
A release deletes a chain of objects, each the only owner of the next.
`DeletedFacts` says that the model's iteration has gone to the end of the chain
within as many steps as there are objects; `ReleaseCounted` that all other counts stay right, the
count of the object behind the chain being one less. The invariant holds until a
pointer that a release freed is read (`freedRead`), as in the property.

*HashMap* (`HInv`). Until a null pointer is read the map is a table (`Map`): each
node is in the bucket of its key, as many nodes as `element_count_`, no key more
than twice. Nodes are counted as places, a bucket and a position in it, one
bucket at a time (`BelowFinite`). A rehash puts all chains one after the other
(`ChainedIs`) and spreads that list over twice the buckets (`SpreadIs`), which
loses no node, although every chain is turned around; an insert that finds
nothing among all nodes but the last of its chain finds the key once at most
there (`FoundIs`), and so twice at most when it has added one. A loop has visited
what lies before its iterator (`Before`), which each step makes one place more
(`AdvanceIs`); when that are as many as there are nodes, it is at the end
(`VisitsAll`).

*BinaryTreeMap* (`TInv`). What hangs below the root is a tree (`IsTree`): each of
its nodes holds a set of nodes, itself among them, and all nodes have positions
from left to right. A child holds what its parent holds on that side of itself,
and is linked back; a node lies on one side of all that another holds
(`OneSide`), unless it is one of them. `minn` and `successor` are then the first
node a node holds and the next by position (`MinnIs`, `SuccessorIs`), so that a
loop meets every node (`VisitsTree`); keys ascend with positions, so that
`find` and the descent of `insert` stay at the places where a key can be (`FindIs`,
`LastIs`). The functions that descend and climb exist because a rank falls
along every link, those of nodes that were cut off included (`Ranked`). An
`insert` doubles all positions and puts the new node at an odd one beside its
parent (`Grown`); `erase` takes out the node it deletes with all that node holds,
which is what it leaks (`Shrunk`), and the node that gets the key of its
successor keeps its place (`EraseSorted`). That no link of any node leads to one
that was deleted, nor from a node that was cut off into the tree (`Cut`), is what
lets a node that is allocated again be a leaf.

*AvlMap* (`AvlInv`). Trees are values there. A tree is a search tree of a set of
keys (`Shows`) when some set of pairs of a tree and its keys holds it and, with
a pair, those of the two subtrees, on either side of the key between them; this
takes a tree apart and puts one together without a recursion. The invariant is
that the tree is one of the keys that were put and not removed, and says nothing
of heights: `Measured` gives a node any height, a rotation keeps the keys in their
order (`PartsRight`, `PartsLeft`) or finds no child and crashes, and so each
branch of the balancing leaves the keys as they are (`RebalanceLeaves`), also
those that `insert` selects by heights it has not brought up to date. `insert` and
`deleteNode` are recursive functions on the trees that have no more levels than
there are keys; they exist (`TreeRecursion`) because a rank falls to the subtrees
and every operation on any tree, ordered or not, gives a tree or the mark of a
crash (`AvlResults`). A search tree of some of the keys is one of those trees
(`ShowsLevels`), and `inorder` lists its keys ascending (`InorderLists`).

*TaskManager* (`TInv`). A save only ever copies an ascending list, so the file
is ascending wherever it is cut; the id past the greatest is the one past the
last line (`LastIsGreatest`).

*LogFormat* (`LogInv`). What has been written is the format as far as it was
scanned, with its placeholders filled (`Filled`), and the number of arguments
taken is the number of placeholders seen, or all. The search for the next
placeholder is a minimum over positions, which exists by well-foundedness
(`LeastOf`).

*Logger* (`LoggerInv`). `ClosedComplete` is the end of a chain, and the
invariant holds its links: the file is closed after the join (`DtorInv`), the
join returns when the worker has exited, the worker exits with the flag set and
the queue empty (`ExitInv`), nobody pushes once the flag is set, and nothing is
in the worker's hand except between a pop and a write (`MsgInv`). Two facts
carry the order: a pop moves a line from the queue to the hand, a write from the
hand to the file (`WrittenInLogOrder`). `LoggerImplementsMailbox` takes hand and queue
together as what is pending, so a pop is a stutter and a write is the take.

*Perceptron* (`PerceptronInv`). The score of a sample and the square of the
weights are sums that the library folds over sets in an order nobody knows.
`TotalRemove` says that any element may be taken off such a sum, whatever the
order, and by it `SquaresGrow` that adding 1 or -1 to the weights of a sample
changes their square by twice its score, with that sign, and its area. A sample
is only corrected when its score is on the wrong side of the bias, and so the
bound of `PerceptronSafe` moves by at least as much. `RectIs`, `CircleIs` and
`EveryCellDrawn` are the samples, for every size of layer.

*NeuralNet* (`NInv`). `back_prop` goes down from the output, the chain rule
forward from a parameter, and what they compute are sums nested in opposite
orders. `Pair` is a number both share at each layer: the errors `back_prop`
has there times the derivatives by the parameter. `OneLayerDown` says that it is
twice the number of the layer above, by a double sum over the weights taken
either way (`Exchange`); `DownToParameter` follows it from the output, where it is
the derivative of the cost, to the layer of the parameter, where it is what
`back_prop` adds up. `forward`, `Deltas`, `Derivatives` and `Power` are recursive
functions: `RecursionExists` says that a function is there and has a value of its
layer at each step, before anything is said of the one the model chooses. The
theorem has a hypothesis of its own, `ActivationIsNumber`: the activation of an
integer is an integer, which TLC cannot test for all of them, and which the
`Activation` of the runs satisfies. The invariant adds to the property that
parameters and gradients are integers, in the shape `create` gave them.

The provers cannot instantiate a theorem that takes an operator, as the
library's induction theorems do. Where a proof above needs induction, it is over
a set of numbers that contains 0 and with each number the next
(`SetInduction`), which follows from the well-foundedness of `<`.

### Model-checked only

* Every liveness property, and the liveness part of `Mailbox`: TLAPS does not
  reason about `ENABLED`, so not about fairness.
* `ParsesDocument`, which compares the parser with the values given with the
  documents of the run; a theorem would be an induction over the structure of
  documents, which is not attempted.

## 5. Not modelled

* **Thread pools and shutdown of `asio/Async`.** `ThreadPool.h` does not build
  when a pool is made, and `main` waits for its signals on an io_context that
  nobody runs, so that `Stop` is never reached. The threads that run handlers
  are the constant `Pool` of `CServer`; the pool of the coroutine server, which
  is stopped, is in `CoServer`.
* **In `asio/Async`**, the contents of messages (JSON, and exceptions of its
  accessors, which would end the process); an allocation that fails for want of
  memory and a `close` that throws; simultaneous changes of the
  `std::map` of sessions, or of a socket, by two threads, which are undefined:
  each is one step here; and what the process does once a copy has left its node,
  in `CServer` too. `_send_lock` is not a variable: `Send` and
  `HandleWrite` hold it throughout and are one step each, so a deadlock between it
  and the mutex of the logic queue would not show (no code takes them in the
  other order).
* **`Send`, `HandleWrite` and the logic queue of `asio/Coroutine`**, because the
  read of the first body crashes before any of them can be called.
* **`asio/http/http.cpp`.** It does not compile (line 72 names `socket` for
  `_socket`), and the client in it is a temporary that is destroyed before its
  handlers run.
* **`WriteAllCallBack` of `Asycapi.cpp`**, which nobody calls, and the functions
  of `socket.cpp` that only build an endpoint or a socket.
* **In `basic/final1`**, the texts of levels and of the time (whose
  `std::localtime` is shared by the threads that log), and a file that cannot be
  opened, which ends the constructor.
* **In `basic/final2`**, a stream that fails silently in the middle of a save, after
  which the program goes on and reports success (`TaskManager.h:95`).
* **The search functions of `AVLmap.h`**, which do not compile when they are
  used, and the values of its nodes, so not the one that `insert` overwrites
  (`AVLmap.h:80`); `true`, `false` and `null` of the JSON parser; `print.h` of the JSON parser and `ListTasks`, which are output; fractions
  and exponents of JSON numbers.
* **`basic/Singleton_Pattern`.** The language initialises the static object
  once; the double-checked variants are comments.
* **The language studies of `basic`**, which keep no state.
* **Floating point in `tsoding`.** Costs, finite differences, saved images and
  the training loops over real numbers: rounding is out of the reach of TLC and
  TLAPS. What the demos call in `Matrix.h` is in `NeuralNet`.
