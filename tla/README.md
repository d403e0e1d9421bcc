# A TLA+ model of iperf3-rust

This directory models the throughput tester in `src/src`: a client and a server
agree on a test over a control connection, open data connections, load them and
exchange what each side measured. The modules are translated from the Rust code;
`PROJECT.json` names, for every definition, the lines it stands for.

## The system

| component | state | operations | talks to |
|---|---|---|---|
| Listener (`server.rs`, `start_server`) | the test in flight (a weak reference to its state), the sender of its controller's channel, the connection it is serving | accept, `handle_create_stream`, `create_perf` | the controller (`ControllerMessage` with `try_send`; the lock on the state), clients |
| Controller (`controller.rs`, `perf.rs`), one per side | `Perf::state` behind a Mutex, `old_state`, `stream_index`, the map of workers, the results | the arms of `run_controller`, `create_streams`, `accept_stream`, `process_internal_message`, `process_server_message`, collection and exchange of results, `set_state` | the other controller (control socket), its workers (broadcast of capacity 1; join handles), Ctrl-C |
| Stream worker (`stream_workers.rs`), one per stream and side | counters of the interval and of the test | wait for StartLoad, loop, send interval and final statistics, spawn the drain task | its controller, the worker at the other end (TCP), the user interface |
| Control channel (`net_util.rs`) | bytes of frames | write, read, dropped read | both controllers and the listener |
| Server's user interface (`run_server`) | the channel of announced tests (capacity 1), the statistics it is printing | take a test, print its statistics to the end, return | the listener, the senders of a test's statistics |
| Client program (`start_client`, `run_client`) | its cookie, its control connection | connect, Hello, Welcome, parameters, print | the listener, its controller |
| Process (`main.rs`) | shutdown broadcast | Ctrl-C, exit, which cancels every task | all of the above |
| Parameters, options, output, socket options | none that acts | formatting, copying | |

What is hard in it: the server tells the client of a new phase before it stores
the phase, while the listener reads the stored one; the listener holds the lock
on the phase over two awaits; both sides number the streams on their own and
derive directions from the numbers; messages to a controller are dropped when
its channel is full; a worker that fails does not report; a broadcast of capacity 1
overwrites what a slow worker has not read; a `select!` drops a read that has
taken part of a message; the receiving worker may end before the sending one;
Ctrl-C and the death of a process may fall between any two steps; the listener knows of
the test in flight only while a weak reference to its state can be upgraded, and takes every
connection for a new test's when it cannot; it serves one connection at a time and waits for a
user interface that prints one test at a time.

What makes it correct: no load before all streams are in, the same numbering on
both ends, no stream and no result lost on the way to the exchange, phases that
only advance, and a test that ends on both sides; bytes that are counted once,
reports that add up to the summary; control messages that arrive whole and in
order; one test at a time on a server, each with its own client's streams, every client
answered, every test printed, and an exit that leaves nothing half-way. `PROJECT.json` lists each hazard at its line.

## The modules

    StreamPlan    who opens how many streams, which end sends
      PerfVars    the shared state of one test, its messages and channels
        Controller  WorkerTasks  Listener     the actions of each component
          PerfTest      their composition with Ctrl-C, death and exit; properties
            (implements TestLife, what a test promises to both programs)
            PerfTestInv   the inductive invariants: IndInv, OrderInv, ExchangeInv, ArrivalInv
              MCPerfTest    instances for TLC
    ServerLife    what a server promises over its tests
      Sessions    a server over several tests, its user interface, its clients
        SessionsInv   the inductive invariant
          MCSessions
    Measurement   what a data stream promises
      DataStream    run_worker at both ends of one connection
        MCDataStream
    Fifo          what the control socket promises
      ControlChannel  frames over a stream of bytes
        MCControlChannel
    StreamPlanProofs, PerfTestTypes, PerfTestProofs, PerfTestOrder, PerfTestExchange,
    DataStreamProofs, ControlChannelProofs, SessionsProofs                     theorems

**PerfVars, Controller, WorkerTasks, Listener, PerfTest** model one test from the
moment both `Perf` objects exist. The state of a role is indexed by `"client"` or
`"server"`; a stream is its `stream_index`, which on the client is also the
identity of the connection (`conn["server"][j]` is the client connection the server
calls `j`). An action is the code between two places where another task can act:
an await, a lock, a write to a socket or channel. `pc` says where
`run_controller` is: `top` is the match on the state, `poll` the `try_recv` on
shutdown, `select` the `select!`, `assign` the wait for the lock in `set_state` after
the client was told, `collect`, `xsend` and `xread` the ends of a test. Each `SetState`
has the three outcomes of `set_state`. A worker is reduced to its life: waiting,
running, returned with Ok (and its `StreamTerminated` tried) or with an error. The
broadcast is the sequence `published` with a position per worker; two unread
messages are a lag. `mpsc::try_send` is `TrySend`, which drops when the channel is
full or its receiver gone. The control socket is a queue of whole messages per direction;
when a side has closed with unread messages of its own, the other side's reads may fail at once (a TCP
reset). `ControlChannel` is shown to implement that queue only if no read is dropped in the middle of a
frame. The server's reads never are; the client's stands in a `select!`, where the end of a worker can drop it.
With the fault `cut`, PerfTest has one outcome of that: the rest of the message is no message and the
client gives up (`ReadDroppedInFrame`). The other is not in it: a rest whose first four bytes
are a permitted length, for which the client then waits until the server closes, and the server on the client.
Both are behind `BadCancel`. For the safety properties the second is a client that does nothing
more with the server's messages, which they allow at any point; `ClientStops` does not read from the server;
`TestCompletes` is checked without either.
A *stranger* is any other process that connects to the port.

**TestLife** is the abstract specification of a test: the server announces the phases one
after the other, the exchange only with the results of all streams; the client follows or
stops; either side may cut the test short at any time; who completes it is in the exchange and
holds exactly the other side's results, the client after the server. `PerfTest` implements it
(`LivesAsPromised`) with `said` mapped to the argument of the server's last `set_state`, and the
outcome to the way a controller ended. Everything else of PerfTest (workers, channels,
the listener, strangers, faults) is hidden by the mapping.

**Sessions** steps back from the inside of a test to the server's whole life. `lpc` is where the
loop of `start_server` stands: at `accept`, reading the Hello of a connection for the test in flight
(under the lock on its state), reading the Hello or the parameters of one that may
become a new test (`create_perf`), or waiting to announce it to the user interface. `inflight` is the weak
reference with `controller_channel`; its upgrade succeeds while the controller runs. A test keeps the
phases, `set_state` in two steps, the select, one data stream with its worker, and its two
channels (`inbox` of ControllerMessages, `unread` statistics). A client is one run of the program:
it connects, says Hello, hears an answer, sends its parameters, opens a data stream when it is
asked to, and may die anywhere; a client that dies before its Hello is any other program that
connects to the port. The user interface takes a test from the channel of one, prints until
the last sender of its statistics is gone, and returns from `main` when the listener has stopped
and nothing is left.

**ServerLife** is the abstract specification of a server: one test runs at a time, its
statistics are printed test by test in the order in which the tests were made, reports of workers that
outlive their controller included, and the program returns when nothing is left to print. `Sessions`
implements it (`ServesInTurn`): the queue is the test being printed and the one announced behind
it, and a test writes while its controller or its worker holds a sender of its statistics. Clients,
connections, phases and messages are hidden by the mapping.

**DataStream** opens up what `WorkerTasks` hides, for one stream and both ends: the
loop with its three checks, reads and writes of 1 to `Block` bytes or none for 100 ms,
reports through a bounded channel, the summary, the drain task. The controllers
appear as the signals they can broadcast. **Measurement** is its abstract
specification: an end counts, reports what it counted, and finishes with a summary
equal to the sum of its reports. The refinement mapping (`SumOf`) adds the reports in the
channel to the bytes already shown, so a report may be neither lost nor counted twice on
the way through it.

**ControlChannel** opens up the queues of PerfVars: positions in a byte stream,
frames of a header and a payload, arrival in any portions, the reader's calls and
their cancellation, which `CancelsInFrame` allows after a call has taken part of a
frame or only before it has taken a byte. **Fifo** is its abstract specification.

Bounds: `MaxReports` (intervals in a test), `MaxMessages` (messages in one
direction). Nothing else in the modules is cut; all other counters are bounded by
the program itself.

## What is checked

| run | instance | shows |
|---|---|---|
| TestStranger | bidirectional, 2 streams, a stranger, Ctrl-C in the server, channel with room for every stream and two Terminates | `IndInv` (types included) and `ArrivalInv` on every reachable state; `LoadStartsWhole`, `StreamsPaired`, `NoStreamLost`, `WelcomedInPhase` |
| TestTrouble | server to client, 2 streams; Ctrl-C in the client, death of either process, reset connections, stalled statistics, a read of the client dropped in a message | `OrderInv` and `ExchangeInv`; `ExchangeComplete`, `ResultsAgree`, `EndsReported`, `ClientFollows`, `SignalsInOrder`, `PhasesAdvance`; refinement of TestLife; `ClientStops` |
| LiveServer | client to server, 2 streams, Ctrl-C in the server, death of the client | `TestCompletes`, `ServerStops`, `ServerSurvivesClient` |
| Server | two clients, channels of one, Ctrl-C in the server, death of either client at any moment | `ServerInv` (the inductive invariant), `OneTest`, `StreamsOfTheirTest`, `CleanExit`; refinement of ServerLife; `EveryoneAnswered`, `TestsEnd`, `AllShown`, `ServerExits` |
| StreamLoad | blocks of 2 bytes, limit 1, buffers of 2, a statistics channel of 1 | `NothingLost`, `LimitHeld`, `ReportsInOrder`, `SenderNotFailed`, `WorkersEnd`, refinement of Measurement |
| Control | header of 2 bytes, payloads of 1 and 3 (the largest size), 3 messages; reads dropped only before they have taken a byte | `NextReadFindsLength`, `FailsOnlyAtTheEnd`, refinement of Fifo, `AllDelivered` |

Six more runs each violate one statement of the repository; they are the findings
of `PROJECT.json`:

| run | what happens |
|---|---|
| BadStartRace | the server writes SetState(CreateStreams) and has not stored it when the client's first stream is looked at: the stream is refused as another test's |
| BadSilentStranger | `handle_create_stream` reads the Hello of a silent connection under the lock and without a timeout: the test's own streams are not answered, and `set_state` waits too |
| BadHandshake | a connection that closes before its Hello terminates the whole test |
| BadWorkerError | failed workers return before they send `StreamTerminated`: the server waits for ever |
| BadManyStreams | more workers end together than the controller's channel holds: one message is dropped and the test never ends |
| BadCancel | the client's `select!` drops a read in the middle of a message: the next read starts inside a frame |

What the liveness properties do not promise. `TestCompletes` is about a test that neither Ctrl-C nor a
crash disturbs. A controller that gives up counts against it: it is seen (`GaveUp`) before its process
exits, while a process that dies is gone in one step, and a process that is gone disturbs the other only if it
had not completed. The property excepts the refused stream of `BadStartRace`; its run has no strangers, no
resets, no dropped reads and room in the channels, so what `BadHandshake`, `BadSilentStranger`,
`BadWorkerError`, `BadCancel` and `BadManyStreams` show is excepted too. `ClientStops` and `ServerStops`
are checked without strangers: one that connects and says nothing while streams are created keeps
the lock on the phase, and `set_state`, which is also the way to Terminate in the server, waits for it,
as a client that creates its streams waits for its Welcome.
`ServerSurvivesClient` is about a client that sends; when the server sends and its client dies, its writers
fail, and the test may stay (`BadWorkerError`). `TestsEnd` says where a server's test may stay for ever:
in the select, in CreateStreams with its client gone (the server does not read its control socket
then), or in Running with a worker that failed, for whatever reason. `EveryoneAnswered` and
`ServerExits` rest on a Hello, or the end of the connection, from whoever connects (`create_perf` waits
for it without a timeout). `ExchangeComplete` holds although workers fail because a failed worker is
never reported: the server then stays in Running and does not reach the exchange without the
result, as `process_internal_message` means to (controller.rs:330).

Why the bounds are enough: two streams are the least number for which "all", "some"
and "the next one" differ, and a third adds only another stream of the same kind
(the theorems below hold for every number). One stranger can hold the listener, fail
a handshake or be turned away at any moment. The channel capacity is 5 in the code and
matters only relative to the number of streams: 4 is the least that holds
two streams and two Terminates, 3 two messages of workers and a Terminate; BadManyStreams
has 3 streams and room for 2, as 6 and 5 in the code. With blocks of 2 bytes a read or
write may be short or whole; a limit of 1 lies inside a block; a channel of one report
is full at once. A header of 2 bytes can arrive in part; three messages let one be lost
between two others. Two clients give a test in flight and a second one before, during
and after it: refused, taken as the next test, waiting behind the user interface, or a late data
stream of the first taken for a control connection; either may be a stranger. A channel of one
(5 in the code) is full after one message, for the `try_send` of the listener and the workers and the
`send` of statistics. `CHECK_DEADLOCK FALSE` in every run: a test ends, and a controller
may wait for ever on a client that has gone (the server reads its control socket only
to exchange results).

Fairness: `FairSpec` of PerfTest has weak fairness of each controller, each worker, the
listener and the exit of a process, one condition per task, because the runtime polls
every runnable task, timers fire and bytes that were sent arrive; nothing says which
branch of a `select!` is taken. The environment's choices (Ctrl-C, death, strangers) are
not fair. In Sessions the listener, the user interface, each controller and each
worker's way out of its loop are weakly fair (its time runs out: `LeaveLoop` needs no signal), and
so is each client program: one that connected goes on or dies, since nothing bounds the server's
wait for a Hello (BadSilentStranger shows what a silent one does). A client need never start, nor
die; a worker need never report in between; Ctrl-C need never come. The four promises are
written `[]<>(...)`: what they wait for is never undone for a client and there are finitely many
clients, so `everyone, again and again` means that each wait ends. In DataStream time
passes, workers are polled and the user interface reads its channel (`run_client`,
`run_server`); in ControlChannel bytes arrive, the next message is
awaited, and the read is polled: strongly fair, because `select!` polls its branches in
random order, so a read that is dropped and called again is not passed over for ever.

## What is proved

TLAPS checks the proofs for every value of the constants that satisfies the named
assumptions (`ConstantsAssumption`, `StreamAssumption`, `ChannelAssumption`, `SessionsAssumption`).

* `StreamPlanProofs`: exactly one end of each stream sends, and both sides compute the
  same total, the wrap of the u16 sum included.
* `PerfTestProofs` (with the lemmas of `PerfTestTypes`): types,
  `LoadStartsWhole`, `StreamsPaired` and `ExchangeComplete`, all from `IndInv`. None of them
  is inductive. That the server numbers the connections as the client does follows from
  counting: the client has at most one unanswered connection and it is the one of its
  `stream_index` (`ConnectingInv`, `BacklogInv`); the streams queued for the server's controller are
  in order and higher than the registered ones (`QueueInv`, `NumberingInv`); so the
  numbers registered are increasing, below the client's index, and when there are `Total` of
  them they can only be 0, 1, 2, ... although streams in between may have been dropped on the
  way. `RunningInv` ties the start of the load to the full count, and `ResultsInv` that the server
  loses no worker without its result before it enters the exchange; it needs `PhaseInv`, where
  the controller can be in which phase.
* `PerfTestOrder`: `SignalsInOrder`, `ClientFollows`, `PhasesAdvance` and `WelcomedInPhase`, from
  `OrderInv`, which is inductive together with `IndInv`. `set_state` announces a phase before it
  stores it, so the argument is about the phase announced (`target`): the one stored is not ahead of it
  and equal to it outside `set_state`; the announcements on their way to the client are in order between
  the client's phase and the announced one (`AnnouncedInv`). Then nothing the client reads takes it
  back or past the server. StartLoad is sent once because from then on the phase is Running or later and
  `old_state` follows it at the next turn of the loop (`SignalsInv`), and what the listener has looked
  at stays true until its answer because it holds the lock (`LockInv`).
* `PerfTestExchange`: `ResultsAgree`, the refinement of `TestLife` (`LivesAsPromised`),
  `NoStreamLost` and `EndsReported`. The first two need `ExchangeInv`, inductive together with the two above.
  Between the client's phase and the announced one every phase is on its way, each at its place in the
  queue, and results come after all of them (`ChainInv`): the client can skip no phase, and what it
  reads in the exchange is the server's results and not a late announcement. Results are sent when
  the map of workers is empty, and no step changes them after that (`SentInv`, `ReceivedInv`): the
  client hands its own in before the server reads them, and completes the test second. After
  ExchangeResults the server announces nothing, not even Terminate (`LastPhaseInv`). In the refinement every step of a
  component is then an announcement, a step of the client along them, a completion, a stop, or
  a stutter.

  The other two are theorems under the assumption they need, that the channel has room:
  `ChanCap > Total + Cardinality(Strangers)`, a message per connection (its stream, or the Terminate of its
  failed handshake) and one for Ctrl-C. With the 5 of the code that is up to four connections; beyond it
  a welcomed stream may be dropped, and so may the end of a worker (`BadManyStreams`).
  `ArrivalInv` says that each connection is answered at most once (`OnceInv`), that an inbox holds no more
  than the answers given and not yet taken for a stream, the workers that ended well and Ctrl-C account
  for (`RoomInv`), and that what was welcomed is in it or numbered (`KeptInv`). Once the load starts every stream
  has been taken, so the room they had is the workers' when they end, and one bound does for both.
  It also has that a side keeps the result of every worker it drops until it stops them
  (`HeldInv`): a message that is taken is then exchanged for the result, and one that comes after a worker was
  given up as stalled stays in the inbox.
* `DataStreamProofs`: types, `NothingLost`, `LimitHeld`, `SenderNotFailed`, `ReportsInOrder` and
  the refinement of `Measurement`. The limit needs that a worker past the head of the loop is not over
  it (`LimitInv`); the other invariants are inductive with the types. The refinement needs what the reports
  add up to, which is defined by recursion over the channel, and what a recursion computes
  cannot be proved by induction here. The proof does without: `AddsUp(b, q, r)` says that partial sums that
  fit the channel `q` exist and that all of them end in `r`. An empty channel has it (`EmptySum`), a report
  that is sent extends the partial sums at the end (`AppendSum`), one that is shown shifts them by one
  (`ShowSum`), so the steps of the stream themselves are the induction. `MeasureInv` adds that the
  summary is the total of a worker that ended well, and that the receiver is behind the sender by
  at least the bytes between them, also after a reset (`Behind`).
* `SessionsProofs`: `ServerInv`, and from it `OneTest`, `StreamsOfTheirTest` and `CleanExit`, for any
  number of clients and any channel capacity. That one test runs at a time needs that nothing is
  alive while the listener makes a test (`FlightInv`). That a test takes only its own streams
  needs more than the comparison of cookies, for the client's control connection carries
  the right cookie too: the invariant says that a control connection passes through the
  listener once and before its test (`ControlInv`), so the connection with the right cookie can
  only be the data stream. A clean exit needs that every test ever made is on its way to the
  user interface, being printed, or printed (`ShownInv`). The same invariant carries the refinement of
  `ServerLife` (`ServesInTurn`): nothing runs or writes that is not in the queue, so no report comes after its
  test was printed to the end, nor after main has returned; taking a test out of the channel is a
  stutter, and every step of a client or the listener but `Announce` is one.
* `ControlChannelProofs`: unless a read is dropped in a frame, types, `NextReadFindsLength`,
  `FailsOnlyAtTheEnd` and the refinement of `Fifo`. The invariant says that frames lie one behind the
  other (`FramesInv`), that the reader stands at the frame after the messages it
  returned (`PlaceInv`), and that a length it holds is that frame's (`LengthInv`).

Only model-checked: liveness (`TestCompletes`, `ServerStops`, `ServerSurvivesClient`, `ClientStops`,
`WorkersEnd`, `AllDelivered`, `EveryoneAnswered`, `TestsEnd`, `AllShown`, `ServerExits`): fairness
and ENABLED are out of the prover's reach. Every invariant, action property and refinement of the passing runs is
stated by a theorem.

## What is not modelled

* In PerfTest, `SendParameters` and Welcome on the control connection: it starts behind them, and
  Sessions has them. In Sessions, the second and further streams of a test, the client's own workers
  and the messages of the control connection after the parameters: PerfTest has them.
* Durations, TCP_INFO, block contents, JSON, addresses, socket options and printing: nothing in
  the program acts on them. `ui.rs` formats one line per call and keeps no state; `opts.rs` and
  `message.rs` declare options and messages for clap and serde, and what acts among them (direction,
  parallel, length, block size) is a constant of the modules; `net_util_linux.rs` wraps getsockopt.
* Panics: in a debug build the sum of more than 32767 bidirectional streams panics; the
  model has the wrap of a release build.

## Plan

* TimeUpEndsTest under the room that EndsReported assumes, as a liveness property of a run: the other half
  of what `BadManyStreams` shows.
* The control connection of a test from `SendParameters` on, composed with the test it starts, to replace
  the initial state of PerfTest by steps of Sessions.
