----------------------------- MODULE GrpcDecode -----------------------------
(***************************************************************************)
(* The task of one gRPC Decode call (src/src/grpc.rs lines 45-236): a      *)
(* stream of messages cut into segments, each decoded by a job of its own, *)
(* whose output is collected into a batch and then forwarded to the        *)
(* response channel.  drain_decoder_sync collects the rest of a segment,   *)
(* but gives up after MaxTries empty polls in a row.                       *)
(*                                                                         *)
(* Messages, the end or failure of the request stream, and the client's    *)
(* reading of the responses come from tonic.  The variables of             *)
(* PooledDecoder are those of the segment's job.                           *)
(***************************************************************************)
EXTENDS PooledDecoder, FiniteSets, Functions

CONSTANTS
  Bad,         \* the numbers of the results that are decode errors
  MaxTries,    \* empty polls the drain puts up with (10)
  MaxSegments  \* bound on the segments of a call

ASSUME GrpcAssumption ==
  /\ Bad \subseteq Nat \ {0} /\ IsFiniteSet(Bad)
  /\ MaxTries \in Nat /\ MaxSegments \in Nat

VARIABLES
  gpc,      \* where the task is
  segment,  \* number of the current segment; 0 before the first
  tries,    \* tries of drain_decoder_sync
  batch,    \* results collected and not yet forwarded, each with its segment
  out,      \* results forwarded
  after,    \* what the forwarding of the batch is followed by
  drained,  \* the drain of the current segment has returned
  stop      \* the shutdown token is cancelled

taskVars == <<gpc, segment, tries, batch, out, after, drained, stop>>
grpcVars == <<jobVars, taskVars>>

GrpcPc == {"select", "acquire", "send", "collect", "signal", "drain",
           "release", "forward", "unwind", "done"}

GrpcInit ==
  /\ JobInit /\ gpc = "select" /\ segment = 0 /\ tries = 0 /\ batch = <<>> /\ out = <<>>
  /\ after = "select" /\ drained = FALSE /\ stop = FALSE

\* current_decoder.is_some(), where the task looks at it
HasDecoder == segment > 0 /\ handle = "live"

Collected == IF delivered' \in Bad THEN batch ELSE Append(batch, <<segment, delivered'>>)

----------------------------------------------------------------------------
(* Faults.                                                                 *)

\* the old segment's batch is cleared when the new decoder is acquired late
ReleaseClearsBatch ==
  /\ gpc = "release"
  /\ \/ DropBegin /\ UNCHANGED <<gpc, batch>>
     \/ DropEnd /\ gpc' = "forward" /\ batch' = <<>>
  /\ UNCHANGED <<segment, tries, out, after, drained, stop>>

\* Err(()) => continue
DrainSpins ==
  /\ gpc = "drain" /\ Closed
  /\ UNCHANGED grpcVars

\* the shutdown arm goes round the loop again
ShutdownIgnored ==
  /\ gpc = "select" /\ stop
  /\ UNCHANGED grpcVars

----------------------------------------------------------------------------

\* The data of a message, if it has any, is sent; the n-th and last has none.
WithDecoder(n) == {"collect"} \cup {p \in {"send"} : n < MaxChunks}

\* A message.  One that starts a segment, or finds no decoder, drains the
\* current decoder if there is one and acquires another.
NextMessage ==
  /\ gpc = "select"
  /\ \/ HasDecoder /\ gpc' \in WithDecoder(sent) /\ after' = "select"
     \/ segment < MaxSegments /\ after' = "acquire"
        /\ gpc' = IF HasDecoder THEN "signal" ELSE "acquire"
  /\ UNCHANGED <<jobVars, segment, tries, batch, out, drained, stop>>

\* The request stream ends or fails: the loop is left and the decoder drained.
RequestStreamEnds ==
  /\ gpc = "select"
  /\ gpc' = IF HasDecoder THEN "signal" ELSE "done"
  /\ after' = "unwind"
  /\ UNCHANGED <<jobVars, segment, tries, batch, out, drained, stop>>

\* shutdown_token.cancelled(): the task returns; the token is looked at only
\* here, where the task waits for a message
ShutdownSeen ==
  /\ gpc = "select" /\ stop
  /\ gpc' = "unwind"
  /\ UNCHANGED <<jobVars, segment, tries, batch, out, after, drained, stop>>

Acquire ==
  /\ gpc = "acquire" /\ NewJob
  /\ segment' = segment + 1 /\ drained' = FALSE
  /\ gpc' \in WithDecoder(0)
  /\ after' = "select"
  /\ UNCHANGED <<tries, batch, out, stop>>

\* "Decoder pool shutdown": an error status is sent and the task returns
AcquireFails ==
  /\ gpc = "acquire"
  /\ gpc' = "unwind"
  /\ UNCHANGED <<jobVars, segment, tries, batch, out, after, drained, stop>>

\* The data goes to the decoder with a blocking send; on an error the decoder is
\* dropped.
FeedDecoder ==
  /\ gpc = "send"
  /\ \/ SendChunk /\ gpc' = "collect" /\ UNCHANGED after
     \/ SendFails /\ gpc' = "release" /\ after' = "drop"
  /\ UNCHANGED <<segment, tries, batch, out, drained, stop>>

\* Output collected after a message.
CollectSome ==
  /\ gpc = "collect" /\ Recv
  /\ batch' = Collected
  /\ UNCHANGED <<gpc, segment, tries, out, after, drained, stop>>

\* Ok(None), or Err(()), after which the decoder is dropped
CollectNone ==
  /\ gpc = "collect" /\ output = <<>>
  /\ gpc' = "forward"
  /\ after' = IF Closed THEN "drop" ELSE after
  /\ UNCHANGED <<jobVars, segment, tries, batch, out, drained, stop>>

\* drain_decoder_sync: EOF first, with the blocking send
SignalEof ==
  /\ gpc = "signal" /\ SendEof
  /\ gpc' = "drain" /\ tries' = 0
  /\ UNCHANGED <<segment, batch, out, after, drained, stop>>

\* audio resets tries, a decode error does not
DrainSome ==
  /\ gpc = "drain" /\ Recv
  /\ batch' = Collected
  /\ tries' = IF delivered' \in Bad THEN tries ELSE 0
  /\ UNCHANGED <<gpc, segment, out, after, drained, stop>>

\* The drain returns.  The decoder of a segment that is followed by another is
\* dropped before its output is forwarded, the last one after.
DrainReturns ==
  /\ drained' = TRUE
  /\ gpc' = IF after = "acquire" THEN "release" ELSE "forward"

DrainNone ==
  /\ gpc = "drain" /\ output = <<>> /\ ~Closed
  /\ tries' = tries + 1
  /\ IF tries' > MaxTries THEN DrainReturns ELSE UNCHANGED <<gpc, drained>>
  /\ UNCHANGED <<jobVars, segment, batch, out, after, stop>>

DrainClosed ==
  /\ gpc = "drain" /\ Closed /\ DrainReturns
  /\ UNCHANGED <<jobVars, segment, tries, batch, out, after, stop>>

Release ==
  /\ gpc = "release"
  /\ \/ DropBegin /\ UNCHANGED gpc
     \/ DropEnd /\ gpc' = IF after = "drop" THEN "select" ELSE "forward"
  /\ UNCHANGED <<segment, tries, batch, out, after, drained, stop>>

\* tx.send(..).await for each collected chunk
Forward ==
  /\ gpc = "forward"
  /\ IF batch # <<>> THEN /\ out' = Append(out, Head(batch)) /\ batch' = Tail(batch)
                          /\ UNCHANGED gpc
                     ELSE /\ gpc' = IF after = "drop" THEN "release" ELSE after
                          /\ UNCHANGED <<out, batch>>
  /\ UNCHANGED <<jobVars, segment, tries, after, drained, stop>>

\* The locals are dropped, the decoder among them.
Unwind ==
  /\ gpc = "unwind"
  /\ IF segment = 0 \/ handle = "dropped"
     THEN gpc' = "done" /\ UNCHANGED jobVars
     ELSE UNCHANGED gpc /\ (DropBegin \/ DropEnd)
  /\ UNCHANGED <<segment, tries, batch, out, after, drained, stop>>

Task ==
  \/ Acquire \/ FeedDecoder \/ CollectSome \/ CollectNone \/ SignalEof \/ DrainSome
  \/ DrainNone \/ DrainClosed \/ Release \/ Forward \/ Unwind

\* The client has gone: tx.send fails and the task returns.
ClientGone ==
  /\ gpc = "forward" /\ batch # <<>>
  /\ gpc' = "unwind"
  /\ UNCHANGED <<jobVars, segment, tries, batch, out, after, drained, stop>>

Shutdown == ~stop /\ stop' = TRUE
            /\ UNCHANGED <<jobVars, gpc, segment, tries, batch, out, after, drained>>

\* what goes on behind the handle, once there is one
BehindHandle(step) == segment > 0 /\ step /\ UNCHANGED taskVars

GrpcNext ==
  \/ NextMessage \/ RequestStreamEnds \/ ShutdownSeen \/ AcquireFails \/ Task
  \/ ClientGone \/ Shutdown
  \/ BehindHandle(Backend)

GrpcSpec == GrpcInit /\ [][GrpcNext]_grpcVars

\* The threads are scheduled, the task is polled and its client reads the
\* responses.  tokio::select! polls its arms in random order, so that a client
\* that never stops sending does not hide the token for ever: strong fairness.
FairGrpcSpec ==
  /\ GrpcSpec /\ WF_grpcVars(Task) /\ SF_grpcVars(ShutdownSeen)
  /\ WF_grpcVars(BehindHandle(Worker)) /\ WF_grpcVars(BehindHandle(Pipeline))

----------------------------------------------------------------------------
(* Properties.                                                             *)

GrpcTypeOK ==
  /\ TypeOK /\ gpc \in GrpcPc /\ segment \in 0..MaxSegments /\ tries \in 0..(MaxTries + 1)
  /\ \A s \in {batch, out} : s \in Seq((1..MaxSegments) \X Nat)
  /\ after \in {"select", "acquire", "drop", "unwind"} /\ drained \in BOOLEAN /\ stop \in BOOLEAN

\* x may come right after y on the response stream: the next audio of the same
\* segment, or the first of a later one.
Follows(x, y) ==
  IF x[1] = y[1] THEN y[2] < x[2] /\ (y[2] + 1)..(x[2] - 1) \subseteq Bad
                 ELSE y[1] < x[1] /\ 1..(x[2] - 1) \subseteq Bad

\* Whatever the drains cut off, the responses are audio in order: segments never
\* mix, and within a segment nothing is repeated, reordered or left out
\* (grpc.rs:108-121, 176-201).
ResponsesInOrder ==
  LET all == <<<<0, 0>>>> \o out \o batch
  IN  \A k \in 2..Len(all) : Follows(all[k], all[k - 1])

\* Nothing the task has taken from a decoder is lost on its way to the client:
\* the batch survives the release of its decoder and the turn of the segment.
NothingCollectedIsLost ==
  {i \in 1..delivered : i \notin Bad /\ segment > 0}
    = {p[2] : p \in {q \in Range(out \o batch) : q[1] = segment}}

\* Every drain comes to an end: the task goes on to the next segment or is done
\* (grpc.rs:46-73), unless its job is at a standstill.
Stuck == gpc \in {"send", "signal", "release", "unwind"} /\ Wedged
DrainEnds == gpc = "signal" ~> gpc \in {"acquire", "done"} \/ Stuck

\* Cancelling the shutdown token ends every call (grpc.rs:99-103), though the
\* token is not looked at during sends, drains and forwarding.
ShutdownEndsCall == stop ~> gpc = "done" \/ Stuck

\* The guards of what FairGrpcSpec makes happen.
CallCanMove ==
  \/ gpc \in {"acquire", "collect", "drain", "forward"}
  \/ gpc \in {"send", "signal"} /\ (Over \/ Room)
  \/ gpc \in {"release", "unwind"} /\ (segment = 0 \/ handle # "closing" \/ Over \/ Room)
  \/ gpc = "select" /\ stop
  \/ segment > 0 /\ BackendCanMove

\* When nothing can go on the call is done, or waits for a message, with its job over
\* or with as many results unread as the channel holds; or its job is at a standstill
\* (grpc.rs:45-73, 98-228).
CallRestsWhenDone ==
  ~CallCanMove =>
    \/ gpc \in {"select", "done"} /\ (segment = 0 \/ Over)
    \/ gpc = "select" /\ wpc = "push" /\ Len(output) = OutCap
    \/ Stuck \/ EofLost
    \/ FeedBlocked /\ Burst > PipeOutCap

\* What is left of a segment whose input has ended: the steps of its job, the tries and
\* results of its drain, and the places the task has to pass.
PlaceEffort(p) == CASE p = "drain" -> 6 [] p = "release" -> 5 [] p = "forward" -> 4 [] p = "select" -> 3
                    [] p = "acquire" -> 2 [] p = "unwind" -> 1 [] OTHER -> 0
CallEffort ==
  (MaxTries + 3) * Effort + (MaxTries + 1 - tries) + Len(batch) + PlaceEffort(gpc)
    + IF stop THEN 0 ELSE 1

\* From the end of its input on every step of a segment uses up some of it, the empty
\* polls of the drain and the forwarding included (grpc.rs:45-73, 108-121, 220-228).
CallEffortFalls ==
  [][InputEnded /\ segment' = segment => CallEffort' < CallEffort]_grpcVars

\* "Collect all remaining output from a decoder" (grpc.rs:45), "flushes current
\* decoder and starts fresh" (decode.proto:20): when the drain has returned, the
\* segment is decoded and its output taken.
DrainIsComplete ==
  drained /\ wpc # "lost" => decoded = sent /\ pend = 0 /\ delivered = produced
=============================================================================
