--------------------------- MODULE PooledDecoder ---------------------------
(***************************************************************************)
(* One decode job of the pool: the PooledDecoder handle a request handler  *)
(* holds, the two bounded channels behind it, the pool worker that runs    *)
(* DecoderPool::process_job for it, and the soundkit DecodePipeline the    *)
(* worker drives (src/src/pool.rs lines 27-30, 70-158, 191-249).           *)
(*                                                                         *)
(* Encoded chunks are numbered 1, 2, ... in the order the handle accepts   *)
(* them; the empty Bytes that signals the end of input is EOF.  Results    *)
(* (decoded audio or a decode error) are numbered in the order the         *)
(* pipeline produces them.  Numbering makes loss, duplication and          *)
(* reordering visible as a gap in what a stage holds.                      *)
(*                                                                         *)
(* The client below is the most general user of the handle that keeps to   *)
(* what every caller in src/ does: no data after EOF, nothing after drop.  *)
(* The modules of the HTTP, TCP and gRPC handlers refine it.               *)
(***************************************************************************)
EXTENDS Naturals, Sequences

CONSTANTS
  InCap,      \* capacity of the input channel  (32 in acquire)
  OutCap,     \* capacity of the output channel (32 in acquire)
  PipeCap,    \* slots in the pipeline's own input buffer
  PipeOutCap, \* slots in the pipeline's own output buffer
  Burst,      \* most results one chunk, or the final flush, can yield
  MaxChunks   \* bound on the chunks a client sends

ASSUME CapacityAssumption ==
  /\ InCap \in Nat \ {0}
  /\ OutCap \in Nat \ {0}
  /\ PipeCap \in Nat \ {0}
  /\ PipeOutCap \in Nat \ {0}
  /\ Burst \in Nat
  /\ MaxChunks \in Nat

EOF == 0

VARIABLES
  input,      \* Bytes queued from the handle to the worker
  output,     \* results queued from the worker to the handle
  handle,     \* the PooledDecoder: "live", "closing" (inside Drop), "dropped"
  eofSent,    \* the client has sent EOF itself
  sent,       \* last chunk the handle accepted
  delivered,  \* last result the client took
  wpc,        \* where the worker is in process_job
  held,       \* the chunk or result the worker has in its hands
  inputDone,  \* input_done of process_job
  pin,        \* the pipeline's input buffer
  pout,       \* the pipeline's output buffer
  pend,       \* results the pipeline still owes for what it took last
  pipe,       \* "running", "flushing" (EOF taken) or "finished"
  decoded,    \* last chunk the pipeline took
  produced    \* last result the pipeline produced

clientVars == <<handle, eofSent, sent, delivered>>
workerVars == <<wpc, held, inputDone>>
pipeVars   == <<pin, pout, pend, pipe, decoded, produced>>
jobVars    == <<input, output, clientVars, workerVars, pipeVars>>

\* "lost": discarded before any worker took it up
WorkerPc == {"queued", "read", "feed", "drain", "push", "ended", "lost"}

JobInit ==
  /\ input = <<>> /\ output = <<>>
  /\ handle = "live" /\ eofSent = FALSE /\ sent = 0 /\ delivered = 0
  /\ wpc = "queued" /\ held = 0 /\ inputDone = FALSE
  /\ pin = <<>> /\ pout = <<>> /\ pend = 0 /\ pipe = "running"
  /\ decoded = 0 /\ produced = 0

\* A handler that is through with one job has acquired another.
NewJob ==
  /\ input' = <<>> /\ output' = <<>>
  /\ handle' = "live" /\ eofSent' = FALSE /\ sent' = 0 /\ delivered' = 0
  /\ wpc' = "queued" /\ held' = 0 /\ inputDone' = FALSE
  /\ pin' = <<>> /\ pout' = <<>> /\ pend' = 0 /\ pipe' = "running"
  /\ decoded' = 0 /\ produced' = 0

----------------------------------------------------------------------------
(* Faults: what a plausible slip would make of an action below.  No         *)
(* behaviour of the specification uses them; each shows that a property can *)
(* fail.                                                                    *)

Room == Len(input) < InCap

\* a blocking send made into one that ignores the channel's bound
PushResultUnbounded ==
  /\ wpc = "push" /\ handle # "dropped"
  /\ output' = Append(output, held) /\ held' = 0 /\ wpc' = "drain"
  /\ UNCHANGED <<input, clientVars, inputDone, pipeVars>>

\* try_send in place of send: a full channel loses the result
PushResultLossy ==
  /\ wpc = "push" /\ handle # "dropped"
  /\ output' = IF Len(output) < OutCap THEN Append(output, held) ELSE output
  /\ held' = 0 /\ wpc' = "drain"
  /\ UNCHANGED <<input, clientVars, inputDone, pipeVars>>

\* the retry loop gone: a full pipeline loses the chunk
FeedPipelineOnce ==
  /\ wpc = "feed"
  /\ pin' = IF Len(pin) < PipeCap THEN Append(pin, held) ELSE pin
  /\ held' = 0 /\ wpc' = "drain"
  /\ UNCHANGED <<input, output, clientVars, inputDone,
                 pout, pend, pipe, decoded, produced>>

\* try_recv in place of the blocking recv of the final drain
EndJobEarly ==
  /\ wpc = "drain" /\ pout = <<>> /\ inputDone
  /\ wpc' = "ended"
  /\ UNCHANGED <<input, output, clientVars, held, inputDone, pipeVars>>

\* one result a turn in place of the drain loop
NextTurnUndrained ==
  /\ wpc = "drain" /\ ~inputDone
  /\ wpc' = "read"
  /\ UNCHANGED <<input, output, clientVars, held, inputDone, pipeVars>>

\* the end of input is passed on but not noted
ReadEofForgotten ==
  /\ wpc = "read" /\ input # <<>> /\ Head(input) = EOF
  /\ input' = Tail(input) /\ wpc' = "drain"
  /\ pin' = IF Len(pin) < PipeCap THEN Append(pin, EOF) ELSE pin
  /\ UNCHANGED <<output, clientVars, held, inputDone, pout, pend, pipe, decoded, produced>>

----------------------------------------------------------------------------
(* The handle.  A blocking send proceeds when there is room; when the job  *)
(* is over, its receiver is gone and the send fails at once.               *)

Over == wpc \in {"ended", "lost"}

SendChunk ==
  /\ handle = "live" /\ ~eofSent /\ sent < MaxChunks
  /\ ~Over /\ Room
  /\ sent' = sent + 1
  /\ input' = Append(input, sent')
  /\ UNCHANGED <<output, handle, eofSent, delivered, workerVars, pipeVars>>

\* "Decoder channel closed"
SendFails == handle = "live" /\ ~eofSent /\ Over /\ UNCHANGED jobVars

SendEof ==
  /\ handle = "live" /\ ~eofSent
  /\ \/ ~Over /\ Room /\ input' = Append(input, EOF)
     \/ Over /\ UNCHANGED input
  /\ eofSent' = TRUE
  /\ UNCHANGED <<output, handle, sent, delivered, workerVars, pipeVars>>

\* recv, or a try_recv that finds a result
Recv ==
  /\ handle = "live" /\ output # <<>>
  /\ delivered' = Head(output)
  /\ output' = Tail(output)
  /\ UNCHANGED <<input, handle, eofSent, sent, workerVars, pipeVars>>

\* what recv and try_recv report once the sender of the job is dropped
Closed == Over /\ output = <<>>

\* The handle goes out of scope: from here the caller is inside Drop::drop.
DropBegin ==
  /\ handle = "live"
  /\ handle' = "closing"
  /\ UNCHANGED <<input, output, eofSent, sent, delivered, workerVars, pipeVars>>

\* Drop::drop sends EOF with the same blocking send; only when it has
\* returned are the two channel ends released.
DropEnd ==
  /\ handle = "closing"
  /\ \/ ~Over /\ Room /\ input' = Append(input, EOF)
     \/ Over /\ UNCHANGED input
  /\ handle' = "dropped"
  /\ output' = <<>>
  /\ UNCHANGED <<eofSent, sent, delivered, workerVars, pipeVars>>

Client == SendChunk \/ SendEof \/ Recv \/ DropBegin \/ DropEnd

----------------------------------------------------------------------------
(* The worker: process_job.  The two 100us sleeps are stuttering.          *)

TakeJob ==
  /\ wpc = "queued"
  /\ wpc' = "read"
  /\ UNCHANGED <<input, output, clientVars, held, inputDone, pipeVars>>

\* input_rx.try_recv() gives a chunk
ReadChunk ==
  /\ wpc = "read" /\ input # <<>> /\ Head(input) # EOF
  /\ held' = Head(input)
  /\ input' = Tail(input)
  /\ wpc' = "feed"
  /\ UNCHANGED <<output, clientVars, inputDone, pipeVars>>

\* while pipeline.send(chunk.clone()).is_err() { sleep }
FeedPipeline ==
  /\ wpc = "feed" /\ Len(pin) < PipeCap
  /\ pin' = Append(pin, held)
  /\ held' = 0
  /\ wpc' = "drain"
  /\ UNCHANGED <<input, output, clientVars, inputDone,
                 pout, pend, pipe, decoded, produced>>

\* try_recv gives Empty: the sender is alive and has sent nothing
ReadNothing ==
  /\ wpc = "read" /\ input = <<>> /\ handle # "dropped"
  /\ wpc' = "drain"
  /\ UNCHANGED <<input, output, clientVars, held, inputDone, pipeVars>>

\* let _ = pipeline.send(Bytes::new()): tried once, the outcome ignored
OfferEof == IF Len(pin) < PipeCap THEN Append(pin, EOF) ELSE pin

\* try_recv gives the empty chunk, or Disconnected
ReadEof ==
  /\ wpc = "read"
  /\ IF input # <<>> THEN Head(input) = EOF /\ input' = Tail(input)
                     ELSE handle = "dropped" /\ input' = input
  /\ pin' = OfferEof
  /\ inputDone' = TRUE
  /\ wpc' = "drain"
  /\ UNCHANGED <<output, clientVars, held, pout, pend, pipe, decoded, produced>>

\* pipeline.try_recv() or, in the final drain, pipeline.recv()
TakeResult ==
  /\ wpc = "drain" /\ pout # <<>>
  /\ held' = Head(pout)
  /\ pout' = Tail(pout)
  /\ wpc' = "push"
  /\ UNCHANGED <<input, output, clientVars, inputDone,
                 pin, pend, pipe, decoded, produced>>

\* output_tx.send(mapped): blocks while the channel is full
PushResult ==
  /\ wpc = "push" /\ handle # "dropped" /\ Len(output) < OutCap
  /\ output' = Append(output, held)
  /\ held' = 0
  /\ wpc' = "drain"
  /\ UNCHANGED <<input, clientVars, inputDone, pipeVars>>

\* output_tx.send fails: the receiver was dropped, abort the job
Abort ==
  /\ wpc = "push" /\ handle = "dropped"
  /\ held' = 0
  /\ wpc' = "ended"
  /\ UNCHANGED <<input, output, clientVars, inputDone, pipeVars>>

\* nothing to drain and more input may come: next turn of the loop
NextTurn ==
  /\ wpc = "drain" /\ pout = <<>> /\ ~inputDone
  /\ wpc' = "read"
  /\ UNCHANGED <<input, output, clientVars, held, inputDone, pipeVars>>

\* the final drain's pipeline.recv() returns None: the pipeline is done
EndJob ==
  /\ wpc = "drain" /\ pout = <<>> /\ inputDone /\ pipe = "finished"
  /\ wpc' = "ended"
  /\ UNCHANGED <<input, output, clientVars, held, inputDone, pipeVars>>

\* The pool has lost its last worker (DecoderPool!EndJob): the job is dropped
\* with the job channel, and its two channel ends with it.
Discard ==
  /\ wpc = "queued"
  /\ wpc' = "lost"
  /\ UNCHANGED <<input, output, clientVars, held, inputDone, pipeVars>>

Worker ==
  \/ TakeJob \/ ReadChunk \/ FeedPipeline \/ ReadNothing \/ ReadEof
  \/ TakeResult \/ PushResult \/ Abort \/ NextTurn \/ EndJob

----------------------------------------------------------------------------
(* The pipeline (soundkit, not part of this repository), as process_job    *)
(* and the benchmarks use it: a thread of its own that takes what send     *)
(* accepted in order, yields some results for it, and finishes after EOF.  *)
(* It is torn down with the job.                                           *)

PipeTake ==
  /\ wpc # "ended" /\ pipe = "running" /\ pend = 0 /\ pin # <<>>
  /\ pin' = Tail(pin)
  /\ pend' \in 0..Burst
  /\ IF Head(pin) = EOF THEN pipe' = "flushing" /\ decoded' = decoded
                        ELSE decoded' = Head(pin) /\ pipe' = pipe
  /\ UNCHANGED <<input, output, clientVars, workerVars, pout, produced>>

PipeEmit ==
  /\ wpc # "ended" /\ pend > 0 /\ Len(pout) < PipeOutCap
  /\ produced' = produced + 1
  /\ pout' = Append(pout, produced')
  /\ pend' = pend - 1
  /\ UNCHANGED <<input, output, clientVars, workerVars, pin, pipe, decoded>>

PipeFinish ==
  /\ wpc # "ended" /\ pipe = "flushing" /\ pend = 0
  /\ pipe' = "finished"
  /\ UNCHANGED <<input, output, clientVars, workerVars,
                 pin, pout, pend, decoded, produced>>

Pipeline == PipeTake \/ PipeEmit \/ PipeFinish

----------------------------------------------------------------------------

\* everything that goes on behind the handle
Backend == Worker \/ Discard \/ Pipeline

JobNext == Client \/ Backend

JobSpec == JobInit /\ [][JobNext]_jobVars

\* Threads of the worker and the pipeline are scheduled, a client that has sent
\* EOF keeps receiving (all three handlers do) or drops the handle, and one that
\* drops it stays in drop until the send returns.  Nothing forces a client to
\* send, to receive while it still has input, or to drop.
JobFairness ==
  /\ WF_jobVars(Worker)
  /\ WF_jobVars(Pipeline)
  /\ WF_jobVars(eofSent /\ Recv)
  /\ WF_jobVars(DropEnd)

FairJobSpec == JobSpec /\ JobFairness

----------------------------------------------------------------------------
(* Properties.                                                             *)

\* Types of the variables; the bounds are the channel capacities.
TypeOK ==
  /\ input \in Seq(Nat) /\ Len(input) <= InCap
  /\ output \in Seq(Nat) /\ Len(output) <= OutCap
  /\ handle \in {"live", "closing", "dropped"}
  /\ eofSent \in BOOLEAN /\ inputDone \in BOOLEAN
  /\ sent \in 0..MaxChunks /\ delivered \in Nat
  /\ wpc \in WorkerPc /\ held \in Nat
  /\ pin \in Seq(Nat) /\ Len(pin) <= PipeCap
  /\ pout \in Seq(Nat) /\ Len(pout) <= PipeOutCap
  /\ pend \in 0..Burst
  /\ pipe \in {"running", "flushing", "finished"}
  /\ decoded \in Nat /\ produced \in Nat

\* Everything on its way to the decoder, oldest first: the pipeline's buffer, the
\* worker's hands, the input channel.
InputHand == IF wpc = "feed" THEN <<held>> ELSE <<>>
InputLine == pin \o InputHand \o input

\* Every result on its way to the client, oldest first.
OutputHand == IF wpc = "push" THEN <<held>> ELSE <<>>
OutputLine == output \o OutputHand \o pout

\* "Retry if buffer is full - don't drop data!" (pool.rs:100): what lies
\* between the decoder and the handle is exactly the chunks accepted and not
\* yet decoded, in order and once each, and behind them nothing but EOF.
InputIntact ==
  /\ decoded <= sent /\ Len(InputLine) >= sent - decoded
  /\ \A i \in 1..Len(InputLine) :
       InputLine[i] = IF i <= sent - decoded THEN decoded + i ELSE EOF

\* As long as the handle exists no result is lost, repeated or reordered on
\* the way from the pipeline through the worker to the client.
OutputIntact ==
  handle # "dropped" =>
    /\ Len(OutputLine) = produced - delivered
    /\ \A i \in 1..Len(OutputLine) : OutputLine[i] = delivered + i

\* A client that keeps the handle of a job that a worker has taken up and finds
\* the output closed has everything: all chunks it sent were decoded, all results
\* they yield were delivered.
ClosedMeansComplete ==
  handle = "live" /\ Closed /\ wpc # "lost" =>
    decoded = sent /\ pend = 0 /\ delivered = produced

\* The worker never leaves a job whose client may still send: "Decoder channel
\* closed" (pool.rs:224) meets a chunk only if the job has been discarded.
EndsOnlyAfterEof == wpc = "ended" => eofSent \/ handle = "dropped"

\* The invariant behind the properties above.  An EOF anywhere between the
\* handle and the decoder, or any trace of one, goes back to the client's EOF or
\* to Drop, after which the client sends no chunk; and an EOF stays the
\* last thing in the input until the worker has taken one, so that its Disconnected
\* arm (pool.rs:109-113) is never what ends the input.
EofAccounted ==
  Len(InputLine) > sent - decoded \/ inputDone \/ pipe # "running"
    => eofSent \/ handle = "dropped"

PipeInv ==
  /\ pipe # "running" => decoded = sent
  /\ pipe = "finished" => pend = 0

WorkerInv ==
  /\ wpc \in {"queued", "read", "feed"} => ~inputDone
  /\ wpc = "ended" /\ handle # "dropped" => inputDone /\ pipe = "finished" /\ pout = <<>>

InputEnded == eofSent \/ handle = "dropped"

EofAhead ==
  InputEnded /\ ~inputDone /\ ~Over => input # <<>> /\ input[Len(input)] = EOF

JobInv ==
  /\ TypeOK /\ InputIntact /\ OutputIntact
  /\ EofAccounted /\ PipeInv /\ WorkerInv /\ EofAhead

\* The two ways a job comes to a standstill, each shown by a run of its own: the
\* handle's owner waits in send for the worker, which waits in send for the owner;
\* and the pipeline has refused the end of input.
Wedged == Len(input) = InCap /\ wpc = "push" /\ Len(output) = OutCap
EofGiven == pipe # "running" \/ \E i \in 1..Len(pin) : pin[i] = EOF
EofLost == inputDone /\ ~EofGiven

\* A third one, had the pipeline less room for results than a chunk can yield: the
\* worker offers a chunk for ever and takes no result meanwhile.
FeedBlocked == wpc = "feed" /\ Len(pin) = PipeCap /\ pend > 0 /\ Len(pout) = PipeOutCap

\* The guards of Worker and Pipeline.
BackendCanMove ==
  \/ wpc \in {"queued", "read"}
  \/ wpc = "feed" /\ Len(pin) < PipeCap
  \/ wpc = "drain" /\ (pout # <<>> \/ ~inputDone \/ pipe = "finished")
  \/ wpc = "push" /\ (handle = "dropped" \/ Len(output) < OutCap)
  \/ wpc # "ended" /\ pend > 0 /\ Len(pout) < PipeOutCap
  \/ wpc # "ended" /\ pend = 0 /\ (pipe = "flushing" \/ (pipe = "running" /\ pin # <<>>))

\* With those of Recv and DropEnd.
CanMove ==
  \/ BackendCanMove
  \/ handle = "live" /\ output # <<>>
  \/ handle = "closing" /\ (Over \/ Room)

\* A job whose client has ended its input, or is dropping it, moves until it is over
\* (pool.rs:84-157), or else is in one of the three: with EofLost, with a Drop that
\* is Wedged, or, if it may lack room for the results of a chunk, with FeedBlocked.
StandstillsAreKnown ==
  (eofSent \/ handle # "live") /\ ~CanMove =>
    \/ Over
    \/ EofLost
    \/ handle = "closing" /\ Wedged
    \/ FeedBlocked /\ Burst > PipeOutCap

\* How many steps a job may take at most from here, once its input has ended: a chunk
\* in the pipeline's buffer has a way to go, with all it may yield, and so has one that
\* is not there yet; the handle may be dropped; worker and pipeline have places to pass.
ChunkEffort == 4 * Burst + 1
HandleEffort == [live |-> ChunkEffort + 5, closing |-> ChunkEffort + 4, dropped |-> 0]
WorkerEffort == [queued |-> 3, read |-> 1, feed |-> ChunkEffort + 3, drain |-> 2, push |-> 4,
                 ended |-> 0, lost |-> 0]
PipeEffort == [running |-> 2, flushing |-> 1, finished |-> 0]
Effort ==
  (ChunkEffort + 3) * Len(input) + ChunkEffort * Len(pin)
  + 4 * pend + 3 * Len(pout) + Len(output)
  + HandleEffort[handle] + WorkerEffort[wpc] + PipeEffort[pipe]

\* Once the client has ended its input, every step brings the job closer to its rest:
\* neither the loop of process_job (pool.rs:84-157) nor anything else goes in circles.
EffortFalls == [][InputEnded => Effort' < Effort]_jobVars

\* Once the pipeline has the end of input the worker drains it and ends its job
\* (pool.rs:131-154), whatever is still in the channels.
FinalDrainEnds == EofGiven ~> wpc = "ended"

\* A dropped handle leaves no worker behind (pool.rs:125-128, 143-145), unless the
\* end of input was refused.
DropFreesWorker == handle = "dropped" ~> Over \/ EofLost

\* "Final drain using blocking recv - waits for pipeline worker to finish"
\* (pool.rs:133): a worker that has seen the end of input ends its job.
WorkerFinishes == inputDone ~> wpc = "ended"

\* "Send EOF if not already sent to let the worker finish" (pool.rs:246): once
\* the handle is being dropped, the drop returns and the worker finishes.
DropLetsWorkerFinish == handle = "closing" ~> (handle = "dropped" /\ Over)
=============================================================================
