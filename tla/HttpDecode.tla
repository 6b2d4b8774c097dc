----------------------------- MODULE HttpDecode -----------------------------
(***************************************************************************)
(* The /decode handler, MediaRouter::handle_decode_stream (src/src/        *)
(* router.rs lines 82-177), as the client of one decode job.  It is one    *)
(* async task, so it is sequential: while it is in PooledDecoder::send it  *)
(* takes no output, and while it awaits the next body chunk or the writer  *)
(* it takes neither.                                                       *)
(*                                                                         *)
(* The body stream and the writer belong to the HTTP server crate: the     *)
(* body yields chunks, ends or fails; send_response, send_data and finish  *)
(* succeed or fail.                                                        *)
(***************************************************************************)
EXTENDS PooledDecoder, FiniteSets, Functions

CONSTANT Bad  \* the numbers of the results that are decode errors

ASSUME BadAssumption == Bad \subseteq Nat \ {0} /\ IsFiniteSet(Bad)

VARIABLES
  hpc,      \* where the handler is
  written,  \* results written to the response, in order
  outcome   \* of the handler: "none" yet, "ok" or "failed"

httpVars == <<jobVars, hpc, written, outcome>>

HttpPc == {"acquire", "refused", "headers", "body", "send", "pump", "write",
           "eof", "flush", "finish", "unwind", "done"}

HttpInit == JobInit /\ hpc = "acquire" /\ written = <<>> /\ outcome = "none"

----------------------------------------------------------------------------
(* Faults.                                                                 *)

\* the flush loop leaves at the first Ok(None), as the body loop does
FlushEndsAtNone ==
  /\ hpc = "flush" /\ output = <<>>
  /\ hpc' = "finish"
  /\ UNCHANGED <<jobVars, written, outcome>>

\* the outcome of send_data is ignored
WriteUnchecked ==
  /\ hpc = "write"
  /\ written' \in {Append(written, delivered), written}
  /\ hpc' = IF eofSent THEN "flush" ELSE "pump"
  /\ UNCHANGED <<jobVars, outcome>>

\* the end of the body is not signalled to the decoder
SignalEofMissing ==
  /\ hpc = "eof"
  /\ hpc' = "flush"
  /\ UNCHANGED <<jobVars, written, outcome>>

----------------------------------------------------------------------------

\* decoder_pool.acquire(options): a decoder, or "Decoder pool shutdown" and with
\* it the end of the request
Acquire ==
  /\ hpc = "acquire"
  /\ \/ hpc' = "headers" /\ UNCHANGED outcome
     \/ hpc' = "refused" /\ outcome' = "failed"
  /\ UNCHANGED <<jobVars, written>>

\* stream_writer.send_response(response).await?
SendHeaders ==
  /\ hpc = "headers"
  /\ \/ hpc' = "body" /\ UNCHANGED outcome
     \/ hpc' = "unwind" /\ outcome' = "failed"
  /\ UNCHANGED <<jobVars, written>>

\* body.next().await: a chunk, or the end of the body or an error of its
\* stream, which leave the loop alike
NextChunk ==
  /\ hpc = "body"
  /\ \/ sent < MaxChunks /\ hpc' = "send"
     \/ hpc' = "eof"
  /\ UNCHANGED <<jobVars, written, outcome>>

\* decoder.send(chunk), blocking; an error leaves the body loop
FeedDecoder ==
  /\ hpc = "send"
  /\ \/ SendChunk /\ hpc' = "pump"
     \/ SendFails /\ hpc' = "eof"
  /\ UNCHANGED <<written, outcome>>

\* try_recv gives Ok(Some(..)): audio is written, an error only logged
TryRecvSome ==
  /\ hpc \in {"pump", "flush"} /\ Recv
  /\ hpc' = IF delivered' \in Bad THEN hpc ELSE "write"
  /\ UNCHANGED <<written, outcome>>

\* try_recv gives Ok(None) or Err(()) in the body loop; in the flush loop
\* Ok(None) is a yield
PumpDry ==
  /\ hpc = "pump" /\ output = <<>>
  /\ hpc' = "body"
  /\ UNCHANGED <<jobVars, written, outcome>>

\* stream_writer.send_data(..).await?, from either loop
WriteOk ==
  /\ hpc = "write"
  /\ written' = Append(written, delivered)
  /\ hpc' = IF eofSent THEN "flush" ELSE "pump"
  /\ UNCHANGED <<jobVars, outcome>>

\* let _ = decoder.send(Bytes::new())
SignalEof ==
  /\ hpc = "eof" /\ SendEof
  /\ hpc' = "flush"
  /\ UNCHANGED <<written, outcome>>

\* Err(()), "Channel closed, decoder finished"
FlushClosed ==
  /\ hpc = "flush" /\ Closed
  /\ hpc' = "finish"
  /\ UNCHANGED <<jobVars, written, outcome>>

\* stream_writer.finish().await
Finish ==
  /\ hpc = "finish"
  /\ outcome' \in {"ok", "failed"}
  /\ hpc' = "unwind"
  /\ UNCHANGED <<jobVars, written>>

\* A write fails (the `?`), or the server drops the task where it awaits.
Cancelled ==
  /\ hpc \in {"body", "write", "flush"}
  /\ outcome' = "failed"
  /\ hpc' = "unwind"
  /\ UNCHANGED <<jobVars, written>>

\* The locals are dropped: first the decoder, in two steps, then the guard
\* that counts the connection.
Unwind ==
  /\ hpc = "unwind"
  /\ \/ DropBegin /\ UNCHANGED hpc
     \/ DropEnd /\ hpc' = "done"
  /\ UNCHANGED <<written, outcome>>

Handler ==
  \/ Acquire \/ SendHeaders \/ NextChunk \/ FeedDecoder \/ TryRecvSome
  \/ PumpDry \/ WriteOk \/ SignalEof \/ FlushClosed \/ Finish \/ Unwind

\* what goes on behind the handle, once there is one
BehindHandle(step) ==
  hpc \notin {"acquire", "refused"} /\ step /\ UNCHANGED <<hpc, written, outcome>>

HttpNext == Handler \/ Cancelled \/ BehindHandle(Backend)

HttpSpec == HttpInit /\ [][HttpNext]_httpVars

\* The threads are scheduled and the handler's task is polled; the client
\* sends its body to the end and reads its response.
FairHttpSpec ==
  /\ HttpSpec /\ WF_httpVars(Handler)
  /\ WF_httpVars(BehindHandle(Worker)) /\ WF_httpVars(BehindHandle(Pipeline))

----------------------------------------------------------------------------
(* Properties.                                                             *)

HttpTypeOK ==
  TypeOK /\ hpc \in HttpPc /\ written \in Seq(Nat) /\ outcome \in {"none", "ok", "failed"}

\* The results the handler is through with.
Streamed == Len(written) + Cardinality({i \in Bad : i <= delivered})

\* The response holds the audio the decoder produced, in order, each piece
\* once, with the decode errors left out and nothing else missing
\* (router.rs:136-147, 160-174).
ResponseIsTheAudio ==
  outcome # "failed" =>
    /\ Range(written) = (1..Streamed) \ Bad
    /\ \A i, j \in 1..Len(written) : i < j => written[i] < written[j]

\* The request keeps the promise of Transcoder, as long as its job is taken up by
\* a worker; a lost job counts as failed, though the response does not say so.  In
\* particular the response is finished only when the flush loop has seen everything
\* (router.rs:159-176).
Promise == INSTANCE Transcoder WITH
  accepted <- sent, consumed <- decoded, results <- produced + pend,
  streamed <- Streamed, flushed <- pipe # "running",
  phase <- IF wpc = "lost" THEN "failed"
           ELSE IF outcome # "none" THEN outcome
           ELSE IF eofSent THEN "ended" ELSE "open"
KeepsPromise == Promise!Spec

\* "Streaming decode handler - streams PCM output as audio is decoded"
\* (router.rs:82): a request whose client sends its body to the end and reads
\* its response comes to an end, its decoder and its count released, unless its
\* job is at a standstill.
Stuck == hpc \in {"send", "eof", "unwind"} /\ Wedged
RequestEnds == <>[](hpc \in {"done", "refused"} \/ Stuck \/ EofLost)

\* The guards of what FairHttpSpec makes happen.
RequestCanMove ==
  \/ hpc \in {"acquire", "headers", "body", "pump", "write", "finish"}
  \/ hpc \in {"send", "eof"} /\ (Over \/ Room)
  \/ hpc = "flush" /\ (output # <<>> \/ Over)
  \/ hpc = "unwind" /\ (handle = "live" \/ Over \/ Room)
  \/ hpc \notin {"acquire", "refused"} /\ BackendCanMove

\* A request in which nothing can go on is through with handler and job, or its job is
\* at one of the three standstills: the loops of router.rs:109-174, Drop (pool.rs:244)
\* and process_job wait for one another in no other way.
RequestRestsWhenDone ==
  ~RequestCanMove =>
    \/ hpc = "refused"
    \/ hpc = "done" /\ Over
    \/ Stuck \/ EofLost
    \/ FeedBlocked /\ Burst > PipeOutCap

\* What is left of a request whose input has ended: the steps of its job, and those of
\* the handler between them.
PlaceEffort(p) == CASE p = "write" -> 4 [] p = "flush" -> 3 [] p = "finish" -> 2
                    [] p = "unwind" -> 1 [] OTHER -> 0
RequestEffort == 2 * Effort + PlaceEffort(hpc)

\* From the end of the input on every step uses up some of it: the flush loop and the
\* dropping of the decoder come to rest under any scheduling (router.rs:159-177).
RequestEffortFalls == [][InputEnded => RequestEffort' < RequestEffort]_httpVars
=============================================================================
