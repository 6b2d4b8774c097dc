# media-api in TLA+

media-api is a streaming audio decode service: encoded audio comes in over HTTP,
a framed TCP protocol or gRPC, and decoded PCM goes out while the input is still
arriving. This directory models it in TLA+, checks the models with TLC on small
instances, and proves the safety of every one of them with TLAPS, for every instance.

Paths like `pool.rs:91` are below `src/src/` of the repository.

## 1. The system

| Part | State it keeps | Operations | Talks to |
|---|---|---|---|
| Decode job, `pool.rs` (`PooledDecoder`, `process_job`) | two bounded channels, the worker's place in its loop, `input_done`, the pipeline's buffers | `send`, `try_recv`, `recv`, `drop`; the worker's read, feed, drain and push | a request handler on one side, a soundkit pipeline (with a thread of its own) on the other |
| Decoder pool, `pool.rs` (`DecoderPool`) | a bounded job channel, its receiver behind a mutex, 2 * num_cpus worker threads | `new`, `acquire`, the workers' loop, drop | every handler; the workers run jobs |
| HTTP handler, `router.rs` | the place in `handle_decode_stream`, a decoder, a connection guard | the body loop, the flush, early returns | pool, statistics, the HTTP server |
| TCP server, `tcp_handler.rs` | per session: a decoder, whether META is sent | frames DCOD, META, PCMS, DONE; sessions one after another | pool; the peer |
| gRPC service, `grpc.rs` | per call: current decoder and options, collected output | segments, `drain_decoder_sync`, forwarding, shutdown token | pool; tonic |
| Statistics, `stats.rs` | an atomic counter, a log of samples under a mutex | `connection_start`, `connection_end`, `record_sample`, `to_json` | HTTP handler |
| Options, `decode.rs` and the callers' merges | none | parsing, merging, narrowing, META bytes | all three protocols |
| Process, `main.rs` | the runtime's threads, the shutdown watch channel | starting the three servers, a pool for each; the accept loops; Ctrl-C and the end of `main` | all |
| Configuration, `config.rs` | none after startup | reading the environment | `main` |
| Opus benchmark, load test, tests | none shared | command-line tools and tests | not part of the service |

The behaviour that is hard to test lies in the interactions:

- A job is three parties (handle, worker, pipeline) on four bounded buffers, and
  all of them block or retry. What is full when decides what happens next.
- Handlers are sequential: one that blocks in `send` takes no output, although its
  worker may be waiting for just that.
- Handlers end everywhere: an error, a client gone, a task dropped by its server.
  Then `Drop` runs, which itself blocks.
- Workers can be lost (a panic in the metrics), down to the last one, with jobs
  waiting.
- `acquire`, `send`, `recv` and `Drop` block the thread they are called on, and that is
  one of the few threads of the runtime, which all other handlers need as well.
- Ctrl-C may come at any time; `main` returns when the HTTP server has stopped, and the
  runtime then drops the tasks of TCP and gRPC wherever they are.
- The counter of the statistics and its log are updated in two steps by requests
  that run in parallel, and reports read them meanwhile.

`PROJECT.json` lists these hazards at their lines, with the properties that watch
over them.

## 2. The modules

| Module | Models | Composed of |
|---|---|---|
| `PooledDecoder` | one job: handle, channels, worker, pipeline | |
| `Transcoder` | abstract: what any decode request promises | |
| `HttpDecode` | `handle_decode_stream` as client of one job | extends `PooledDecoder`, implements `Transcoder` |
| `TcpDecode` | a connection and its sessions, a job each | extends `PooledDecoder`, implements `Transcoder` |
| `GrpcDecode` | a call and its segments, a job each | extends `PooledDecoder` |
| `JobService` | abstract: a bounded first-come-first-served service | |
| `DecoderPool` | job channel, mutex, workers, requests, drop of the pool | implements `JobService` |
| `MediaServer` | a pool with the tasks that use it, the runtime's threads, Ctrl-C, the end of `main` | extends `DecoderPool` |
| `ConnStats`, `MCConnStats` | counter, sample log, report; its instance for TLC | |
| `Options` | the arithmetic of options and META | |
| `OptionRequests`, `MCOptions` | its three uses: a query that grows, a call that goes on, a META frame; its instance for TLC | extends `Options` |
| `PooledDecoder_proof`, `HttpDecode_proof`, `TcpDecode_proof`, `GrpcDecode_proof`, `DecoderPool_proof`, `MediaServer_proof`, `ConnStats_proof`, `OptionRequests_proof` | the theorems about each (section 4) | each extends its module; the handlers' extend `PooledDecoder_proof`, the server's `DecoderPool_proof` |

### How a model corresponds to the code

**PooledDecoder.** Chunks are numbered in the order the handle accepts them, results
in the order the pipeline yields them, so that a loss, a repetition or a swap shows
as a gap. `input` and `output` are the two channels of `acquire` (32 each in the
code), `held` is the chunk or result in the worker's hands, `wpc` the place in
`process_job`: `queued` (no worker yet), `read` (top of the loop), `feed` (the retry
loop of `pipeline.send`), `drain` (looking for output, in the loop or in the final
drain), `push` (inside `output_tx.send`), `ended`. `Drop` is two steps: `DropBegin`
(the handle goes out of scope) and `DropEnd` (its blocking send of EOF has returned
and both channel ends are released). `Discard` is what befalls a job that is still
in the job channel when the last worker is lost. Each handler module uses the
actions `SendChunk`, `SendEof`, `Recv`, `DropBegin`, `DropEnd` as the operations of
the handle, and runs `Backend` (worker, pipeline, discard) beside itself.

**The pipeline is external** (the soundkit crate). It is modelled from what
`process_job` and the benchmark rely on: `send` puts a chunk into a bounded buffer or
fails, a thread takes chunks in order, yields at most `Burst` results for each, and
finishes after EOF. Its actions are marked external in the map.

**Handlers.** `hpc`, `tpc` and `gpc` say at which await, call or loop the task is. An
early return, a failed write and a dropped task are the same to what follows, `Unwind`:
the locals are dropped, the decoder first.

**DecoderPool.** A worker is at `lock` (waiting for the mutex), `recv` (holding it and
waiting for a job), `run`, or `gone`. `EndJob` may lose the worker if the job's options
ask for fewer than 8 bits per sample (`Fatal`): `bits / 8` is then 0 and the division
for the log line panics, if the codec has reported a rate and channels. A request is `held` from `acquire` on, `ended` when it
has sent its EOF, `dropped` when its handle is gone. Of the inside of a job, which is `PooledDecoder`, there is here what
may keep its worker (`output`): it waits for room in a full output channel (`FillOutput`) until the client receives
(`TakeOutput`) or has dropped the handle (`Abort`), or it waits for ever in the final drain, as the pipeline has
refused the EOF (`LoseEof`). Either takes more audio than the channels of a job hold, which the requests in
`Long` have.

**MediaServer.** `task[r]` says whether the handler of a request is at an await (`parked`),
or in one of the pool's blocking calls (`acquire`, `send`, `recv`, `drop`), where it keeps a
thread. `Polled` is the step of a task between two awaits, and needs a thread that is free;
`Returns` is the end of a blocking call, and needs none. `acquire` blocks on a full job channel; `send` and the EOF of
`Drop` on a full input channel, of a job that no worker has taken or whose worker waits for room in the output;
the `recv` of TCP's flush until there is a result or the end. What becomes of a `send` or a `Drop` that waits for a worker in
`push` is the wedge of `PooledDecoder`: both keep the output receiver, so neither returns (`Wedged`), and the thread is
lost. A `recv` from a job with `EofLost` never returns either (`HangsInCall`), while HTTP's flush goes on polling
from its await and keeps no thread. The worker stays with such a job in each case, also when the handler has gone after its EOF was lost
(`Standing`). `WorkerHindered` adds those steps of workers to the server's. `LetGo` is the drop
of the handle, by a handler that is through, one that returns early, or one the runtime drops at its
await. `phase` follows Ctrl-C: the signal, the watch channel, the end of the accept
loops, the return of `main` (which waits for HTTP only), the drop of the runtime. Sessions and
segments that follow each other on a connection are requests of their own here.

**OptionRequests.** No component of its own: `AddPair`, `NextSegment` and `OtherFormat` put the operators of
`Options` to every use the callers can make of them, so that TLC can check them and the theorems can speak of
all queries, calls and formats. `ParseDecodeOptions` is a recursive function on the query, a pair a turn of the loop.

**ConnStats.** `Start` and `End` are the atomic operations, `Record` is the sample, a step
of its own since the lock is taken after the counter was read. `to_json` is a step per
lock taken or counter read.

### What is abstracted

- The two 100 µs sleeps of the worker, and the yields of the handlers, are stuttering.
- A worker that ends a job releases its two channel ends at once, and `DropEnd`
  releases the handle's two ends in the step that sends EOF. The code does each in two
  steps; between them the other side can only find what it finds later anyway: an EOF
  or result put into a channel nobody reads.
- What a result holds is left out, except whether it is a decode error (`Bad`).
- The gRPC response channel is the sequence of what was forwarded; when the client has
  gone, forwarding fails (`ClientGone`). Its bound of 32 is left out: a client that does not
  read stops the task in `Forward`, which fairness of the task excludes.
- In `MediaServer`, a `send`, a `Drop` or a `recv` that waits for a worker at work is part of the step that makes it. The
  output of a job fills up at most once (`eased` is the end of it): another time would lead to the same wedge.
  Writes of a response proceed.
- Averages in a report are kept as whether they reach the number of CPUs.

## 3. The runs

Seven runs check what holds, five show where the program does not do what its comments
say. The properties are explained at their definitions.

| Run | Shows | Instance |
|---|---|---|
| `job` | no chunk or result is lost, repeated or reordered between handle, worker and pipeline; a closed output is a complete one; a job stands still only where it is known to, and nothing in it goes round for ever; jobs end and drops free their worker | channels of 2, pipeline buffers of 1 and 2, 4 chunks with up to 2 results each |
| `http` | the response is the audio in order and finished only when complete (`Transcoder`); the request ends and releases its decoder, and stands still nowhere but at a known standstill of its job | as above, result 2 a decode error |
| `tcp` | each session has its own META, audio and DONE; `Transcoder`, session by session; every ended session is answered; a connection stands still only while it waits for its peer or with its job | 2 sessions, else as `http` |
| `grpc` | responses never mix segments or leave a gap; the batch survives the change of decoder; drains and shutdown end; a call stands still only when done, while it waits for a message, or with its job | 2 segments of 4 chunks, an output channel and pipeline buffers of 1, chunks of 1 result, drains of 1 empty poll |
| `server` | the pool implements `JobService` and loses a worker only to a job that kills it; a free worker is never kept from a queued job by the mutex; a stall of the runtime takes a hung call on each thread or more open requests than workers; the server rests only when stalled, or through with all but what hangs with a job that stands; nothing goes round for ever; requests end, accepted jobs start, workers leave, Ctrl-C stops the process, with the same exceptions | 2 workers, 1 thread, 3 requests, 2 of them able to kill a worker, 2 with more audio than the channels hold (one is both), each protocol |
| `stats` | exact counter, ordered and complete log, no alarm without load | 3 requests, log of 4 samples, 3 windows, 2 CPUs |
| `options` | the last legal value of a query wins; the last gRPC options count; META reads back | queries of 3 pairs, calls of 2 segments, 2^31 - 1 for 2^32 |
| `job_wedge` | violated: a drop that never returns | both channels of 1 |
| `job_eof_lost` | violated: an end of input the pipeline refuses | input channel that holds all chunks, pipeline buffer of 1 |
| `grpc_drain` | violated: a drain that gives up with audio to come | as `grpc` |
| `pool_stay` | violated: a worker lost to a division by zero | 2 workers, 4 requests, one such job |
| `server_stall` | violated: handlers held back for ever, with every thread of the runtime waiting inside the pool | as `server`, no job that kills or outgrows its channels |

**Why the bounds are enough.** What matters about a buffer is whether it is empty, partly
filled or full, and whether a party can be blocked on it while another is blocked on the
next one. Capacity 2 with 3 chunks and 2 results a chunk reaches every such combination,
the standstill included; the runs find it. A fourth chunk is there because without it a worker that
went on feeding and never drained the pipeline would not fill it: with it, that slip shows in `StandstillsAreKnown`
and in the like of it for each handler. `grpc`, which has the most states, gets as far with smaller buffers. The proofs of
section 4 lift the bounds. Two sessions or segments are the fewest in which something of one can leak into the
next. For the server, two workers and one thread with three requests let one worker hold the
mutex while the other wants it, lose both workers with a job queued behind them, and stall the runtime: all
workers busy and the one thread held. The job channel, of two, is filled and holds back the third request in
`acquire`; a stall in `acquire` rather than in `send`, `recv` or `Drop` would take a fifth one, and is covered by
the proof of `StallNeedsLoad`. Two requests that outgrow their channels keep both workers, or one worker and the thread, with
the third request behind them: all of `Hangs` and `AllStand` is reached, a wedge in `Drop` while the process stops included.
With two threads the run passes as well. TLC's integers end at 2^31 - 1, so `options` has that for 2^32, with the values on
both sides of it; the proofs have any bound. Three requests are enough for two samples
to be logged out of order with one request staying; six updates overflow a log of 4.

**Deadlock.** `CHECK_DEADLOCK FALSE` stands in every configuration: requests, sessions,
segments and the clock are finite, so all instances come to rest. A rest that should not be
is what `StandstillsAreKnown`, `RestsOnlyWhenDone` and the liveness properties are about.

**Fairness.** Weak fairness for worker threads, the pipeline's thread and a handler's own
steps: the OS schedules threads and tokio polls ready tasks. `process_job` and the sends block
on conditions that, once true, stay true until the step is taken, as only one party
fills and one empties a channel. Clients are fair only where a property is about them: in `job`,
one that has sent EOF goes on receiving (all three handlers do) and one inside `Drop` stays
there; in `http`, the body ends and writes proceed; in `tcp` and `grpc`, nothing makes the peer
send. The gRPC token has strong fairness, as `tokio::select!` polls its arms in random order.
In `server` one weak fairness for all that is bound to happen (`GoesOn`) suffices: as every step uses up some of `ServerEffort`, no
step can be put off for ever by others, and the condition says no more than that the server does not stop while something in it
can go on. For that, worker threads are scheduled, a blocked call returns when what it waits for is there, a ready task
is polled when a thread is free (tokio's run queues are fair), a client ends its input at some time and takes its response. A worker
is not made to run into a full channel or to lose an EOF, nor a `send` or a `Drop` to find the input channel full. A failure or a hang-up is never made
to happen. `StandstillsAreKnown`, `RequestRestsWhenDone`, `SessionRestsWhenDone`, `CallRestsWhenDone`, `RestsOnlyWhenDone`,
`EffortFalls`, `ServerEffortFalls` and `FreeWorkersTakeJobs` rest on no
fairness at all. The first five speak of `CanMove`, `RequestCanMove` and so on, the guards of the fair actions written out, with which
the prover can deal. `FreeWorkersTakeJobs` has ENABLED itself: it is about what the mutex lets a worker do, which a guard written
out would only repeat.

**Liveness is conditional.** A job can come to a standstill in two ways: `Wedged` (input and output
channel full, worker in `push`) and `EofLost` (the pipeline refused EOF). `job_wedge` and
`job_eof_lost` exhibit them. The liveness properties of `job` and the handlers say that these are the only ways: everything ends, or is
`Wedged` with its handler in `send` or `Drop`, or has `EofLost`. In `server` both are there with what follows
from them. A wedged call keeps a thread and a worker for good; a lost EOF keeps a worker, and with TCP a thread (`Hangs`). When all
workers that are left are kept so (`AllStand`), whoever waits for one waits for good. And the runtime can be `Stalled`: each thread is held
by a handler that waits for a worker, or hangs, and each worker waits for a handler that finds no thread
(`server_stall`), or stands. One hung call a thread is enough; without any it takes more open requests than workers (`StallNeedsLoad`).
`RequestsEnd`, `AcceptedJobsStart`, `WorkersLeave` and `ShutdownEnds` name which of these each has to except: a stall does not
keep the workers of a dropped pool, for one, and a lost EOF does. `StandstillsAreKnown`, `RequestRestsWhenDone`, `SessionRestsWhenDone`, `CallRestsWhenDone` and `RestsOnlyWhenDone` say the same of the states
without fairness. All but the last know one more way,
`FeedBlocked`: the worker offers a chunk for ever to a pipeline that waits for the worker to take a result. It takes a
pipeline that bounds its output below what a chunk yields (`Burst > PipeOutCap`); whether soundkit has such a
bound is not in the source, and the runs give it room.

**Mutants.** Each property of a passing run has a mutant in `PROJECT.json`: a definition
replaced by a slip one could make in the code (a `try_send` for a `send`, Empty taken for
Disconnected, a lock held too long) with which TLC finds the property violated. They stand in the
"Faults" section of each module; no behaviour uses them.

## 4. The proofs

The theorems hold for all capacities, bursts, numbers of chunks, sessions, segments, workers, threads
and requests, any set of decode errors, and any query, targets and formats. The assumptions are those on the constants and no more:
`CapacityAssumption` (positive capacities, natural bounds), `BadAssumption` (finitely many errors), `TcpAssumption` and `GrpcAssumption` (bounds are
natural), `PoolAssumption` (a positive number of CPUs, finitely many requests), `ThreadAssumption` (a
positive number of threads), `StatsAssumption`, `OptionsAssumption` (the widths of what a query, a message and a format may
bring). Each proof has one lemma per group of conjuncts with a step per action; the theorems follow from
`Init => Inv`, `Inv /\ [Next]_vars => Inv'` and `Inv => P`.

| Module | Theorems | Invariant |
|---|---|---|
| `PooledDecoder_proof` | `TypeOK`, `InputIntact`, `OutputIntact`, `ClosedMeansComplete`, `EndsOnlyAfterEof`, `EofAhead`; `StandstillsAreKnown`; `EffortFalls` | `JobInv`, `MotionInv` |
| `HttpDecode_proof` | the handler is a client of its job; `HttpTypeOK`, `ResponseIsTheAudio`; it implements `Transcoder`; `RequestRestsWhenDone`, `RequestEffortFalls` | `HttpInv`, `MotionInv` |
| `TcpDecode_proof` | `TcpTypeOK`, `SessionReply`; each session implements `Transcoder`; `SessionRestsWhenDone`, `SessionEffortFalls` | `TcpInv`, `MotionInv` |
| `GrpcDecode_proof` | `GrpcTypeOK`, `ResponsesInOrder`, `NothingCollectedIsLost`; `CallRestsWhenDone`, `CallEffortFalls` | `GrpcInv`, `CallOK`, `MotionInv` |
| `DecoderPool_proof` | types; the pool implements `JobService`; `LossesAreFatal`; no job is forgotten | `PoolInv`, `LossInv` |
| `MediaServer_proof` | the server uses its pool as `DecoderPool` allows; `ServerTypeOK`, `JobService`, `LossesAreFatal`, `StallNeedsLoad`; `RestsOnlyWhenDone`, `ServerEffortFalls` | `ServerInv`, `LossInv` |
| `ConnStats_proof` | `StatsTypeOK`, `CounterIsInFlight`, `LogInTimeOrder`, `LogIsTheWalk`, `NoAlarmWithoutLoad` | `StatsInv` |
| `OptionRequests_proof` | what parsing makes of any query, and reading back of any META; `LastAcceptableWins`, `LastOptionsCount`, `MetaRoundTrip`, `HttpMetricsDefined` | `RequestsInv` |

### The job

None of the first six is inductive. The invariant is `JobInv`:

- `InputIntact` and `OutputIntact` speak of a line: pipeline buffer, worker's hand, channel. Each
  step moves something along the line, adds at its end or takes from its head. The lemmas on
  lines (`LineElements` and those that follow) say that picking something up and putting it down leaves the line
  alone, so the proof of most steps is that the line is the same.
- `EofAccounted`: an EOF in the line, or a trace of one (`inputDone`, a pipeline that is flushing)
  goes back to the client's EOF or to `Drop`. Without it a chunk might be accepted behind an EOF,
  and `InputIntact` would fail in the next step.
- `PipeInv`: a pipeline that has taken EOF has decoded all that was sent (this is where `InputIntact`
  comes in: EOF is at the head only if no chunk is left), and a finished one owes nothing.
- `WorkerInv`: a worker that has ended has drained the pipeline, unless its client is gone. With
  `PipeInv` and `OutputIntact` this gives `ClosedMeansComplete`.
- `EofAhead`: once the input has ended, an EOF is the last thing in it until the worker has noted it. So
  the arm for a disconnected channel (`pool.rs:109`) is never what ends the input, and a worker that reads on finds
  the end: `EffortFalls` needs it, as a worker at an empty channel turns round without getting anywhere.

`StandstillsAreKnown` and `EffortFalls` are together what liveness has in it apart from fairness. The first takes a
state in which no guard holds and asks what each party waits for: `MotionInv` adds that a worker never feeds an EOF to the
retry loop, that a worker in that loop has not given the pipeline EOF, and what room there is for results. The
second weighs what lies in the buffers by how many steps it can still cause: a chunk in the input channel must be read and fed, a chunk in the
pipeline yields up to `Burst` results, a result is drained, pushed and received. Once its input has ended, each step of a job, also
of a dropped one, lowers the sum. Hence a job whose input has ended takes at most `Effort` steps more, and then it
is over or in one of the standstills of section 3, however worker, pipeline and client are scheduled.

### The handlers

Each handler's steps are steps of its job, or, for TCP and gRPC, the start of a new one
(`HttpJobNext`, `TcpJobNext`, `GrpcJobNext`), so that `JobInv` is kept and the whole of the job's theorems is at
hand. To it each invariant adds where the handler is (`PlaceOK`, `TaskOK`: whether it may still
send, whether it has signalled the end, what the outcome is) and what it has made of the results:

- HTTP and TCP (`Dealt`): every result taken has been written or left out as an error, save one that is about
  to be written. `ResponseIsTheAudio` and `SessionReply` alone say nothing of how far the handler is, and
  the refinement needs just that: `outcome = "ok"` means all results were taken (`Closed`, so
  `ClosedMeansComplete` applies) and all of them are dealt with.
- TCP also: no META without an audio frame behind it, and a new session begins only after the last
  has ended well, with a job of its own.
- gRPC (`LastIsCurrent`): what has been forwarded, followed by what has been collected, ends at the last result
  received. `ResponsesInOrder` and `NothingCollectedIsLost` are kept by the three ways in which that
  line changes: it grows (`Takes`), moves from `batch` to `out` (`Moves`), or a segment begins (`Turns`).

The refinement maps a discarded job to a failed request, since `Transcoder` promises nothing then.

Each handler also has its rest and its measure, like the job. `RequestRestsWhenDone`, `SessionRestsWhenDone` and
`CallRestsWhenDone` say where handler, worker and pipeline can all be waiting at once. If the handler is in `send` the job's input
is open, and a worker that cannot move is then in `push` (`RestsAmidInput`), so that with a full input channel the two are `Wedged`
(`BlockedSend`); if it waits in a flush or in `Drop` the input has ended, and `StandstillsAreKnown` has the
answer. What this takes is that the handler's place tells which of the two it is: no handler sits in `recv` before it has signalled
the end of input, none goes on to the next session or segment with a decoder still in its hands (`PlaceOK`, `CallOK`).

`RequestEffort`, `SessionEffort` and `CallEffort` count what is left once the input has ended: the steps of the job, each of which lets
the handler take at most a few of its own, the place of the handler, and for gRPC the tries of the drain and the batch. Each step lowers the
sum, the empty polls of `drain_decoder_sync` too: audio resets `tries`, but it has cost the job a step, and a step of the job
is weighed more than all tries together (`OneStepPays`). With the rests it follows that a request whose input has ended is answered or broken
off, or stands with its job, under any scheduling of the threads. This is liveness but for fairness: TLC adds, on instances, that under
fairness the input's end is reached and the steps are taken.

### The pool and the server

`ServesInOrder` speaks of queue, running jobs and jobs done, as if a job could not be in two of
them. That it cannot is the invariant: `OneWorkerEach` (no two workers have the same
job) and `OnePlaceEach` (queued, running and over exclude each other, and exclude the requests that have not
got their handle). With it, `TakeJob` moves one job from the queue to the running ones and `EndJob` one
from there to `over`, which are steps of `JobService`.

`LossesAreFatal` counts: the end of a job in `Fatal` adds at most one to the lost and exactly one to those over.
`LossInv` carries the count beyond the drop of the pool. A worker may then leave an empty queue, which stays empty, since nobody
asks any more (`AskersHoldPool`); as long as there is something in the queue, the workers that are missing were lost
(`LossesKnown`). Hence jobs are discarded only when all workers have been lost, each to a job in `Fatal`, and
`NoneForgotten`: an accepted job is queued, running or over before.

For the server, `Linked` ties each task to the state of its request (a task in `acquire` is
asking, one that is gone holds nothing) and to the output of its job. `StallNeedsLoad` then counts, if some thread does not hang: that
handler waits for a worker, so the queue is not empty, and each worker that is left has a job, which
waits for its handler or stands. The requests with a running job and those on a thread are open or have a job that stands. One that is both
running and on a thread is counted twice, and has to be: it hangs, so it is open and stands, in both sets. Hence workers and threads
together are no more than the open requests and the jobs that stand.

`RestsOnlyWhenDone` is freedom from deadlock, and splits on the threads. If all are held and nothing moves, each call
waits for a worker or hangs. A worker that cannot move then waits for its handler, which has no thread, or stands, or has no job
because the queue is empty: the server is `Stalled`. If a thread is
free, a running job whose handler could go on would be a step, so what runs stands; either a worker is left that does not, and then the queue is
empty and nobody waits for one, or all stand. What is open then hangs, and `main` would have a step to take if it were not through.

`ServerEffort` gives each task, worker, output channel and phase of `main` a rank: how many steps it may still take by itself. Taking a job may send a worker
round its loop once more, and the end of a job makes its channels new, so each job not yet over adds five to the sum. The ranks are added up as the size
of a set of pairs (`Units`), since a sum over a function is an induction the prover does not have: a step that lowers one
rank and raises no other takes pairs out of the set, and one that ends a job adds at most a few. So a server takes at
most `ServerEffort` steps and is then in one of the rests of `RestsOnlyWhenDone`, whoever is scheduled.

### The statistics

`LogIsTheWalk` says the log misses no value of the counter. A value that has been counted and not yet logged is in the
hands of a request; `WalkInv` says that these and the logged ones together are all there have been.
`NotAhead` (no sample is later than now) carries `LogInTimeOrder`. For `NoAlarmWithoutLoad`, `UnderPeak` bounds counter and samples
by the highest count so far. The sum of a window's samples then fits into a rectangle as wide as the window and as high as that
count (`MeanUnderPeak`), so that an average that reaches the number of CPUs means the count has. `AlarmInv` carries this over the passes of a report.

### The options

That the last legal value wins is an induction over the query, which the library's theorems cannot give here. The module
gets it from the fact that every nonempty set of naturals up to n has a least element (`LeastElement`,
`Induction`), and with it that the recursive function of the model has the values its equation says (`RecursiveFunction`,
`ParsedUnfolds`). What an arm accepts, by parsing to a width and checking a range, is what the API documents (`Legal`, `AcceptableIsLegal`), and
`LastGivenOrDefault` is the result for a query of any length. For META the four
bytes of a rate are quotients and remainders that make up the rate again (`FourBytes`), for every rate of 32 bits. A round trip
that TLC can check only for samples of it thus holds for all.

### What is only model-checked

- Liveness, under the fairness of section 3: outside what the prover supports. The rests and the efforts, of job, handlers
  and server, are the part of it that is not.
- `FreeWorkersTakeJobs`, which contains ENABLED.
- That `CanMove`, `RequestCanMove`, `SessionCanMove`, `CallCanMove` and `ServerCanMove` are the guards of the actions named with them. A reader
  can compare them; on the instances of the runs each is equivalent to ENABLED of those actions.

The other way round, `RequestEffortFalls`, `SessionEffortFalls` and `CallEffortFalls` stand in no configuration: the theorems show
them for every instance.

## 5. Where code and documentation part

With a run (see "findings"): `Drop` that blocks for ever (pool.rs:247), the end of input that is offered
once (pool.rs:91), the drain that gives up (grpc.rs:64), the division by zero that loses a worker
(pool.rs:168), the stall of the runtime behind `acquire` (pool.rs:205). The last one takes three open requests a CPU
of one protocol: two whose clients are still sending have the workers, and a third, whose job is queued, keeps the
thread in `send`, `recv` or `Drop` (or in `acquire`, with the channel full). From then on no handler of the process
is polled, those of the other protocols included. It does not pass when a client goes away: to notice that takes a
thread, too.

Met while modelling, without a run of their own as they need no behaviour to see:

- "Increment active connections and record sample" (stats.rs:34) are two steps: two requests that overlap may log their counts
  in the other order, and the last sample then is not the current count until the next request.
- `acquire` "blocks if all workers are busy" (pool.rs:192): the job channel has room for as many jobs as
  there are workers, so it returns handles of jobs no worker has yet. "Max concurrent = num_cpus"
  (router.rs:31): 2 * num_cpus jobs run.
- A handler in `send` takes no output (router.rs:131), so a long upload whose output is not taken in
  time wedges with its worker; `RequestEnds` has this case in `Stuck`.
- `try_recv` reports a discarded job as a finished one (router.rs:172): such a response ends as a success.
- The "first 7 bytes: metadata" of the HTTP response (router.rs:84) and the metadata message of gRPC
  (decode.proto:8) are never sent; TCP does send META.
- A gRPC target of 0 is the configured default, not "keep original" (decode.proto:27); targets for bits
  and channels are cut to a byte (grpc.rs:133), so 256 bits are 0 bits.
- Samples are trimmed by number, so 6000 updates shorten the windows the log should cover (stats.rs:20);
  `utilization` and `current_connections` of a report are two reads (README.md:86).
- Default port and default of raw TCP differ between README.md:101, :105 and main.rs.

## 6. What is not modelled

- `config.rs`, `lib.rs`: no state. Logging, the TLS handshake and the sockets: I/O; a failure of either is the early return of
  the handler.
- `create_pipeline`, `feed_pipeline`, `finish_pipeline` of `decode.rs`: they forward to soundkit and have no
  caller in the service.
- The three servers side by side: `MediaServer` looks at any one of them, with all threads at its disposal. With three,
  each has its own pool and the threads are shared, so a stall of one stops the others, too. That 6 jobs a CPU
  may run at once (main.rs:115) is a matter of sizing which no property of one pool shows.
- The external HTTP server (the `web_service` crate): it calls the handler and stops at the signal. Whether it waits for its connections
  is not in the source, so `MainReturns` may come with requests open or without.
- The end of the process: workers are detached threads and die with it. The model lets them run on after
  `main` has returned, which only adds behaviour.
- When a job in the server fills its output or loses its EOF: `MediaServer` does not repeat `PooledDecoder`'s channels, it lets a job in
  `Long` do so at any time a channel of its own could (section 2).
- The content of a result, and with it META going stale when the format changes in a session (tcp_handler.rs:139):
  what soundkit does to the format within a stream is not in the source. Nor is when its thread might die, which
  would leave the worker in its retry loop (pool.rs:101).
- The bound of 32 on gRPC's response channel (section 2).
- `opus_benchmark`, a sequential command-line tool; `load_test`, the tests and `build.rs`, which are no part of the
  service.

## 7. Order of work

The job came first, as every byte passes through it; then the handlers on top, the pool beside them, the statistics
and the options; then the process around the pool, and the proofs of all of it.

What could follow, if the code grows that way: the three servers in one
instance (a pool each, one set of threads).
