-------------------------- MODULE HttpDecode_proof --------------------------
(***************************************************************************)
(* Proofs about the /decode handler, for all capacities, bursts and        *)
(* lengths of the body and any set of decode errors: it uses its job as    *)
(* PooledDecoder allows, and it keeps the promise of Transcoder.           *)
(***************************************************************************)
EXTENDS HttpDecode, PooledDecoder_proof

----------------------------------------------------------------------------
(* The handler is a client of its job.                                     *)

LEMMA HttpJobNext == [HttpNext]_httpVars => [JobNext]_jobVars
<1> SUFFICES ASSUME [HttpNext]_httpVars PROVE JobNext \/ UNCHANGED jobVars
  OBVIOUS
<1>1. CASE Handler
  BY <1>1 DEF Handler, Acquire, SendHeaders, NextChunk, FeedDecoder, SendFails, TryRecvSome, PumpDry,
     WriteOk, SignalEof, FlushClosed, Finish, Unwind, JobNext, Client
<1>2. CASE Cancelled
  BY <1>2 DEF Cancelled
<1>3. CASE BehindHandle(Backend)
  BY <1>3 DEF BehindHandle, JobNext
<1>4. CASE UNCHANGED httpVars
  BY <1>4 DEF httpVars
<1> QED BY <1>1, <1>2, <1>3, <1>4 DEF HttpNext

\* Whatever path the handler takes, it uses the handle as PooledDecoder expects of a
\* client, so that all that is proved of a job holds of a request's (router.rs:109-177).
THEOREM HttpIsClient == HttpSpec => JobSpec
<1>1. HttpInit => JobInit
  BY DEF HttpInit
<1> QED BY <1>1, HttpJobNext, PTL DEF HttpSpec, JobSpec

----------------------------------------------------------------------------
(* The invariant.                                                          *)

\* The handle and the outcome agree with where the handler is.
PlaceOK ==
  /\ hpc \in HttpPc /\ outcome \in {"none", "ok", "failed"}
  /\ outcome = "none" <=> hpc \notin {"unwind", "done", "refused"}
  /\ hpc \notin {"unwind", "done"} => handle = "live"
  /\ handle = "dropped" <=> hpc = "done"
  /\ hpc \in {"acquire", "headers", "body", "send", "pump", "eof", "refused"} => ~eofSent
  /\ hpc \in {"flush", "finish"} => eofSent
  /\ hpc = "finish" => Closed
  /\ outcome = "ok" => Over

\* All results taken are dealt with, but one that is to be written.
Dealt ==
  /\ written \in Seq(Nat)
  /\ hpc = "write" => delivered >= 1 /\ delivered \notin Bad
  /\ outcome # "failed" => Streamed + (IF hpc = "write" THEN 1 ELSE 0) = delivered

HttpInv == JobInv /\ Fresh /\ PlaceOK /\ Dealt /\ ResponseIsTheAudio

LEMMA StreamedIs ==
  /\ Streamed = Len(written) + Cardinality(UpTo(Bad, delivered))
  /\ Streamed' = Len(written') + Cardinality(UpTo(Bad, delivered'))
  BY DEF Streamed, UpTo

LEMMA BadCount ==
  /\ Cardinality(UpTo(Bad, 0)) = 0
  /\ \A n \in Nat :
       /\ Cardinality(UpTo(Bad, n)) \in Nat
       /\ n + 1 \in Bad => Cardinality(UpTo(Bad, n + 1)) = Cardinality(UpTo(Bad, n)) + 1
       /\ n + 1 \notin Bad => Cardinality(UpTo(Bad, n + 1)) = Cardinality(UpTo(Bad, n))
<1>1. IsFiniteSet(Bad) /\ \A i \in Bad : i \in Nat /\ i > 0
  BY BadAssumption
<1> QED BY <1>1, CountUpTo, Zenon

LEMMA HttpInitInv == HttpInit => HttpInv
<1> SUFFICES ASSUME HttpInit PROVE HttpInv
  OBVIOUS
<1>1. JobInv /\ Fresh
  BY InvInit, FreshInit DEF HttpInit
<1>2. PlaceOK
  BY DEF HttpInit, JobInit, PlaceOK, HttpPc
<1>3. Len(written) = 0 /\ delivered = 0 /\ written \in Seq(Nat) /\ hpc = "acquire"
  BY DEF HttpInit, JobInit
<1>4. Streamed = 0
  BY <1>3, StreamedIs, BadCount
<1>5. ResponseIsTheAudio
  <2>1. Range(written) = {} /\ 1..Streamed = {}
    BY <1>4 DEF HttpInit, Range
  <2> QED BY <1>3, <2>1 DEF ResponseIsTheAudio
<1> QED BY <1>1, <1>2, <1>3, <1>4, <1>5 DEF HttpInv, Dealt

\* Steps behind the handle do not touch what the handler sees of itself, and what has
\* ended stays so.
LEMMA BehindPlace ==
  ASSUME HttpInv, BehindHandle(Backend)
  PROVE  PlaceOK'
<1>1. UNCHANGED <<hpc, written, outcome, clientVars>>
  BY BackendSteps DEF HttpInv, BehindHandle
<1>2. Over => Over' /\ (Closed => Closed')
  BY DEF BehindHandle, Over, Closed, Backend, Worker, Pipeline, TakeJob, ReadChunk, FeedPipeline,
     ReadNothing, ReadEof, TakeResult, PushResult, Abort, NextTurn, EndJob, Discard, PipeTake,
     PipeEmit, PipeFinish, workerVars
<1> QED BY <1>1, <1>2 DEF HttpInv, PlaceOK, Closed, clientVars

LEMMA PlaceNext == HttpInv /\ [HttpNext]_httpVars => PlaceOK'
<1> SUFFICES ASSUME HttpInv, [HttpNext]_httpVars PROVE PlaceOK'
  OBVIOUS
<1> USE DEF PlaceOK, HttpPc, Over, Closed
<1>0. PlaceOK
  BY DEF HttpInv
<1>1. CASE Acquire \/ SendHeaders \/ NextChunk \/ PumpDry \/ WriteOk \/ FlushClosed \/ Finish \/ Cancelled
  BY <1>0, <1>1 DEF Acquire, SendHeaders, NextChunk, PumpDry, WriteOk, FlushClosed, Finish, Cancelled,
     jobVars, clientVars, workerVars
<1>2. CASE FeedDecoder
  BY <1>0, <1>2 DEF FeedDecoder, SendChunk, SendFails, jobVars, clientVars, workerVars
<1>3. CASE TryRecvSome
  BY <1>0, <1>3 DEF TryRecvSome, Recv, workerVars
<1>4. CASE SignalEof
  BY <1>0, <1>4 DEF SignalEof, SendEof, workerVars
<1>5. CASE Unwind
  BY <1>0, <1>5 DEF Unwind, DropBegin, DropEnd, workerVars
<1>6. CASE BehindHandle(Backend)
  BY <1>6, BehindPlace
<1>7. CASE UNCHANGED httpVars
  BY <1>0, <1>7 DEF httpVars, jobVars, clientVars, workerVars
<1> QED BY <1>1, <1>2, <1>3, <1>4, <1>5, <1>6, <1>7 DEF HttpNext, Handler

\* What a step does to the results that have been dealt with.
LEMMA StreamedNext ==
  ASSUME HttpInv, [HttpNext]_httpVars
  PROVE  /\ Streamed \in Nat /\ written' \in Seq(Nat)
         /\ TryRecvSome => /\ delivered' = delivered + 1
                           /\ hpc' = "write" <=> delivered' \notin Bad
                           /\ Streamed' = IF hpc' = "write" THEN Streamed ELSE Streamed + 1
         /\ WriteOk => Streamed' = Streamed + 1 /\ delivered' = delivered
         /\ ~TryRecvSome /\ ~WriteOk => Streamed' = Streamed /\ delivered' = delivered
<1>0. /\ delivered \in Nat /\ written \in Seq(Nat) /\ JobInv /\ Fresh /\ PlaceOK
      /\ Len(written) \in Nat
  BY DEF HttpInv, JobInv, TypeOK, Dealt
<1>b. /\ Cardinality(UpTo(Bad, delivered)) \in Nat
      /\ delivered + 1 \in Bad => Cardinality(UpTo(Bad, delivered + 1)) = Cardinality(UpTo(Bad, delivered)) + 1
      /\ delivered + 1 \notin Bad => Cardinality(UpTo(Bad, delivered + 1)) = Cardinality(UpTo(Bad, delivered))
  BY <1>0, BadCount, Zenon
<1>1. Streamed \in Nat
  BY <1>0, <1>b, StreamedIs
<1>2. CASE TryRecvSome
  <2>1. delivered' = delivered + 1 /\ written' = written
    BY <1>0, <1>2, Received DEF TryRecvSome
  <2>2. hpc' = "write" <=> delivered + 1 \notin Bad
    BY <1>2, <2>1 DEF TryRecvSome
  <2>3. Streamed' = IF hpc' = "write" THEN Streamed ELSE Streamed + 1
    BY <1>0, <1>b, <2>1, <2>2, StreamedIs
  <2>4. ~WriteOk
    BY <1>2 DEF TryRecvSome, WriteOk
  <2> QED BY <1>0, <1>1, <1>2, <2>1, <2>2, <2>3, <2>4
<1>3. CASE WriteOk
  <2>1. delivered' = delivered /\ written' = Append(written, delivered) /\ ~TryRecvSome
    BY <1>3 DEF WriteOk, TryRecvSome, jobVars, clientVars
  <2>2. Len(written') = Len(written) + 1 /\ written' \in Seq(Nat)
    BY <1>0, <2>1
  <2>3. Streamed' = Streamed + 1
    BY <1>0, <1>b, <2>1, <2>2, StreamedIs
  <2> QED BY <1>1, <1>3, <2>1, <2>2, <2>3
<1>4. CASE ~TryRecvSome /\ ~WriteOk
  <2>1. written' = written /\ delivered' = delivered
    <3>1. BehindHandle(Backend) => written' = written /\ delivered' = delivered
      BY <1>0, BackendSteps DEF BehindHandle, clientVars
    <3>2. ~BehindHandle(Backend) => written' = written /\ delivered' = delivered
      BY <1>4 DEF HttpNext, Handler, Acquire, SendHeaders, NextChunk, FeedDecoder, PumpDry,
         SignalEof, FlushClosed, Finish, Unwind, Cancelled, SendChunk, SendFails, SendEof, DropBegin,
         DropEnd, httpVars, jobVars, clientVars
    <3> QED BY <3>1, <3>2
  <2> QED BY <1>0, <1>1, <1>4, <2>1, StreamedIs
<1> QED BY <1>2, <1>3, <1>4

LEMMA DealtNext == HttpInv /\ [HttpNext]_httpVars => Dealt'
<1> SUFFICES ASSUME HttpInv, [HttpNext]_httpVars PROVE Dealt'
  OBVIOUS
<1>0. PlaceOK /\ Dealt /\ delivered \in Nat /\ Streamed \in Nat
  BY StreamedNext DEF HttpInv, JobInv, TypeOK
<1>1. CASE TryRecvSome
  <2>1. hpc # "write" /\ outcome' = outcome
    BY <1>1 DEF TryRecvSome
  <2> QED BY <1>0, <1>1, <2>1, StreamedNext DEF Dealt
<1>2. CASE WriteOk
  <2>1. hpc = "write" /\ hpc' # "write" /\ outcome' = outcome
    BY <1>2 DEF WriteOk
  <2> QED BY <1>0, <1>2, <2>1, StreamedNext DEF Dealt
<1>3. CASE ~TryRecvSome /\ ~WriteOk
  <2>1. outcome' = "failed" \/ (hpc' = "write" <=> hpc = "write")
    BY <1>3 DEF HttpNext, Handler, Acquire, SendHeaders, NextChunk, FeedDecoder, PumpDry,
       SignalEof, FlushClosed, Finish, Unwind, Cancelled, BehindHandle, httpVars
  <2>2. outcome' # "failed" => outcome # "failed"
    BY <1>0, <1>3 DEF HttpNext, Handler, Acquire, SendHeaders, NextChunk, FeedDecoder, PumpDry,
       SignalEof, FlushClosed, Finish, Unwind, Cancelled, BehindHandle, httpVars, PlaceOK
  <2>3. hpc' = "write" => hpc = "write"
    BY <1>3 DEF HttpNext, Handler, Acquire, SendHeaders, NextChunk, FeedDecoder, PumpDry,
       SignalEof, FlushClosed, Finish, Unwind, Cancelled, BehindHandle, httpVars
  <2> QED BY <1>0, <1>3, <2>1, <2>2, <2>3, StreamedNext DEF Dealt
<1> QED BY <1>1, <1>2, <1>3

\* The response grows by the audio that has been received, and by nothing else.
LEMMA AudioNext == HttpInv /\ [HttpNext]_httpVars => ResponseIsTheAudio'
<1> SUFFICES ASSUME HttpInv, [HttpNext]_httpVars, outcome' # "failed"
             PROVE  /\ Range(written') = (1..Streamed') \ Bad
                    /\ \A i, j \in 1..Len(written') : i < j => written'[i] < written'[j]
  BY DEF ResponseIsTheAudio
<1>0. /\ outcome # "failed" /\ Dealt /\ written \in Seq(Nat) /\ Len(written) \in Nat
      /\ delivered \in Nat /\ Streamed \in Nat
  <2>1. PlaceOK /\ Dealt /\ delivered \in Nat
    BY DEF HttpInv, JobInv, TypeOK
  <2>2. outcome # "failed"
    BY <2>1 DEF HttpNext, Handler, Acquire, SendHeaders, NextChunk, FeedDecoder, TryRecvSome, PumpDry,
       WriteOk, SignalEof, FlushClosed, Finish, Unwind, Cancelled, BehindHandle, httpVars, PlaceOK
  <2> QED BY <2>1, <2>2, StreamedNext DEF Dealt
<1>1. /\ Range(written) = (1..Streamed) \ Bad
      /\ \A i, j \in 1..Len(written) : i < j => written[i] < written[j]
  BY <1>0 DEF HttpInv, ResponseIsTheAudio
<1>2. CASE WriteOk
  <2>1. delivered = Streamed + 1 /\ delivered \notin Bad /\ written' = Append(written, delivered)
    BY <1>0, <1>2 DEF Dealt, WriteOk
  <2>2. Streamed' = Streamed + 1
    BY <1>2, StreamedNext
  <2>3. /\ DOMAIN written = 1..Len(written) /\ DOMAIN written' = 1..(Len(written) + 1)
        /\ Len(written') = Len(written) + 1
        /\ \A i \in 1..Len(written) : written'[i] = written[i] /\ written[i] \in Range(written)
        /\ written'[Len(written) + 1] = delivered
    BY <1>0, <2>1 DEF Range
  <2>4. Range(written') = Range(written) \cup {delivered}
    BY <1>0, <2>3 DEF Range
  <2>5. 1..Streamed' = (1..Streamed) \cup {delivered}
    BY <1>0, <2>1, <2>2
  <2>6. \A i \in 1..Len(written) : written[i] < delivered
    BY <1>0, <1>1, <2>1, <2>3
  <2>7. \A i, j \in 1..Len(written') : i < j => written'[i] < written'[j]
    BY <1>0, <1>1, <2>3, <2>6
  <2> QED BY <1>1, <2>1, <2>4, <2>5, <2>7
<1>3. CASE TryRecvSome
  <2>1. written' = written /\ Streamed = delivered /\ delivered' = delivered + 1
    BY <1>0, <1>3, StreamedNext DEF TryRecvSome, Dealt
  <2>2. CASE hpc' = "write"
    BY <1>1, <1>3, <2>1, <2>2, StreamedNext
  <2>3. CASE hpc' # "write"
    <3>1. Streamed' = Streamed + 1 /\ Streamed + 1 \in Bad
      BY <1>3, <2>1, <2>3, StreamedNext
    <3>2. 1..Streamed' = (1..Streamed) \cup {Streamed + 1}
      BY <1>0, <3>1
    <3> QED BY <1>1, <2>1, <3>1, <3>2
  <2> QED BY <2>2, <2>3
<1>4. CASE ~WriteOk /\ ~TryRecvSome
  <2>1. written' = written
    BY <1>4 DEF HttpNext, Handler, Acquire, SendHeaders, NextChunk, FeedDecoder, PumpDry, SignalEof,
       FlushClosed, Finish, Unwind, Cancelled, BehindHandle, httpVars
  <2> QED BY <1>1, <1>4, <2>1, StreamedNext
<1> QED BY <1>2, <1>3, <1>4

\* HttpInv holds in every state.
THEOREM HttpInvariant == HttpSpec => []HttpInv
<1>1. HttpInv /\ [HttpNext]_httpVars => HttpInv'
  BY HttpJobNext, InvNext, FreshNext, PlaceNext, DealtNext, AudioNext DEF HttpInv
<1> QED BY HttpInitInv, <1>1, PTL DEF HttpSpec

\* Types: for all capacities, no channel of a request exceeds its bound.
THEOREM HttpTypes == HttpSpec => []HttpTypeOK
<1>1. HttpInv => HttpTypeOK
  BY DEF HttpInv, JobInv, PlaceOK, Dealt, HttpTypeOK
<1> QED BY <1>1, HttpInvariant, PTL

\* For all capacities, bodies and decoders, the response holds the audio in order, each
\* piece once, with the decode errors left out (router.rs:136-147, 160-174).
THEOREM HttpResponse == HttpSpec => []ResponseIsTheAudio
<1>1. HttpInv => ResponseIsTheAudio
  BY DEF HttpInv
<1> QED BY <1>1, HttpInvariant, PTL

----------------------------------------------------------------------------
(* The promise.                                                            *)

\* How far the request is, as Transcoder sees it.
Phase == IF wpc = "lost" THEN "failed"
         ELSE IF outcome # "none" THEN outcome
         ELSE IF eofSent THEN "ended" ELSE "open"

\* The decoder's side of the job stays as it is.
JobRests == UNCHANGED <<sent, decoded, produced, pend, pipe, wpc, eofSent>>

\* A step that only moves the handler on, or ends the request in failure.
LEMMA PromiseRests ==
  ASSUME HttpInv, JobRests, Streamed' = Streamed,
         outcome' = outcome \/ (outcome = "none" /\ outcome' = "failed")
  PROVE  [Promise!Next]_Promise!vars
<1>1. CASE outcome' = outcome \/ wpc = "lost"
  <2>1. Phase' = Phase
    BY <1>1 DEF Phase, JobRests
  <2> QED BY <2>1 DEF Promise!vars, Phase, JobRests
<1>2. CASE outcome' # outcome /\ wpc # "lost"
  <2>1. Phase \in {"open", "ended"} /\ Phase' = "failed"
    BY <1>2 DEF Phase, JobRests
  <2>2. Promise!Fail
    BY <2>1 DEF Promise!Fail, Phase, JobRests
  <2> QED BY <2>2 DEF Promise!Next
<1> QED BY <1>1, <1>2

\* A result is dealt with.
LEMMA PromiseStreams ==
  ASSUME HttpInv, JobRests, Streamed' = Streamed + 1, outcome = "none", outcome' = "none",
         wpc # "lost", Streamed \in Nat, Streamed < produced
  PROVE  Promise!Next
<1>1. Phase \in {"open", "ended"} /\ Phase' = Phase
  BY DEF Phase, JobRests
<1>2. Streamed < produced + pend
  BY DEF HttpInv, JobInv, TypeOK
<1>3. Promise!Stream
  BY <1>1, <1>2 DEF Promise!Stream, Phase, JobRests
<1> QED BY <1>3 DEF Promise!Next

LEMMA PromiseBehind ==
  ASSUME HttpInv, BehindHandle(Backend)
  PROVE  [Promise!Next]_Promise!vars
<1>0. /\ JobInv /\ Fresh /\ PlaceOK /\ Backend
      /\ UNCHANGED <<written, outcome, sent, eofSent, delivered, handle, hpc>>
  BY BackendSteps DEF HttpInv, BehindHandle, clientVars
<1>1. Streamed' = Streamed
  BY <1>0, StreamedIs
<1>2. CASE (Decodes \/ Flushes) /\ wpc' = wpc /\ wpc # "lost"
  <2>1. Phase' = Phase
    BY <1>0, <1>2 DEF Phase
  <2>2. CASE Decodes
    <3>1. Promise!Consume
      BY <1>0, <1>1, <2>1, <2>2 DEF Promise!Consume, Decodes, Phase
    <3> QED BY <3>1 DEF Promise!Next
  <2>3. CASE Flushes
    <3>1. Phase # "open"
      BY <1>0, <1>2, <2>3 DEF Flushes, Phase, PlaceOK
    <3>2. Promise!Flush
      BY <1>0, <1>1, <2>1, <2>3, <3>1 DEF Promise!Flush, Flushes, Phase
    <3> QED BY <3>2 DEF Promise!Next
  <2> QED BY <1>2, <2>2, <2>3
<1>3. CASE DecodesNothing
  <2>1. decoded' = decoded /\ produced' + pend' = produced + pend /\ (pipe' # "running") = (pipe # "running")
    BY <1>3 DEF DecodesNothing
  <2>2. CASE wpc' = "lost" /\ wpc # "lost" /\ outcome = "none"
    <3>1. Phase \in {"open", "ended"} /\ Phase' = "failed"
      BY <1>0, <2>2 DEF Phase
    <3>2. Promise!Fail
      BY <1>0, <1>1, <2>1, <3>1 DEF Promise!Fail, Phase
    <3> QED BY <3>2 DEF Promise!Next
  <2>3. CASE ~(wpc' = "lost" /\ wpc # "lost" /\ outcome = "none")
    <3>1. wpc = "lost" => wpc' = "lost"
      BY <1>0, BackendSteps
    <3>2. wpc' = "lost" /\ wpc # "lost" => outcome = "failed"
      BY <1>0, <2>3, BackendSteps DEF PlaceOK, Over
    <3>3. Phase' = Phase
      BY <1>0, <3>1, <3>2 DEF Phase
    <3> QED BY <1>0, <1>1, <2>1, <3>3 DEF Promise!vars, Phase
  <2> QED BY <2>2, <2>3
<1> QED BY <1>0, <1>2, <1>3, BackendSteps

LEMMA PromiseNext == HttpInv /\ [HttpNext]_httpVars => [Promise!Next]_Promise!vars
<1> SUFFICES ASSUME HttpInv, [HttpNext]_httpVars PROVE [Promise!Next]_Promise!vars
  OBVIOUS
<1>0. /\ JobInv /\ Fresh /\ PlaceOK /\ Dealt
      /\ delivered \in Nat /\ produced \in Nat /\ pend \in Nat /\ Streamed \in Nat
  BY StreamedNext DEF HttpInv, JobInv, TypeOK
<1>1. CASE \/ Acquire \/ SendHeaders \/ NextChunk \/ PumpDry \/ FlushClosed \/ Cancelled \/ Unwind
           \/ (FeedDecoder /\ SendFails) \/ UNCHANGED httpVars
  <2>1. (~TryRecvSome /\ ~WriteOk) \/ UNCHANGED httpVars
    BY <1>1 DEF Acquire, SendHeaders, NextChunk, PumpDry, FlushClosed, Cancelled, Unwind, FeedDecoder,
       TryRecvSome, WriteOk
  <2>2. Streamed' = Streamed
    <3>1. UNCHANGED httpVars => Streamed' = Streamed
      BY StreamedIs DEF httpVars, jobVars, clientVars
    <3> QED BY <2>1, <3>1, StreamedNext
  <2>3. JobRests
    BY <1>1 DEF Acquire, SendHeaders, NextChunk, PumpDry, FlushClosed, Cancelled, Unwind, SendFails,
       DropBegin, DropEnd, JobRests, httpVars, jobVars, clientVars, workerVars, pipeVars
  <2>4. outcome' = outcome \/ (outcome = "none" /\ outcome' = "failed")
    BY <1>0, <1>1 DEF Acquire, SendHeaders, NextChunk, PumpDry, FlushClosed, Cancelled, Unwind,
       FeedDecoder, httpVars, PlaceOK
  <2> QED BY <2>2, <2>3, <2>4, PromiseRests
<1>2. CASE FeedDecoder /\ SendChunk
  <2>1. Streamed' = Streamed /\ outcome' = outcome
    BY <1>2, StreamedNext DEF FeedDecoder, TryRecvSome, WriteOk
  <2>2. /\ sent' = sent + 1 /\ wpc # "lost" /\ outcome = "none" /\ ~eofSent
        /\ UNCHANGED <<decoded, produced, pend, pipe, wpc, eofSent>>
    BY <1>0, <1>2 DEF FeedDecoder, SendChunk, PlaceOK, Over, workerVars, pipeVars
  <2>3. Phase = "open" /\ Phase' = Phase
    BY <2>1, <2>2 DEF Phase
  <2>4. Promise!Accept
    BY <2>1, <2>2, <2>3 DEF Promise!Accept, Phase
  <2> QED BY <2>4 DEF Promise!Next
<1>3. CASE TryRecvSome
  <2>1. JobRests /\ outcome' = outcome /\ outcome = "none" /\ hpc # "write" /\ handle # "dropped"
    BY <1>0, <1>3 DEF TryRecvSome, Recv, JobRests, PlaceOK, workerVars, pipeVars
  <2>2. wpc # "lost" /\ delivered + 1 <= produced
    BY <1>0, <1>3, Received DEF TryRecvSome
  <2>3. Streamed = delivered
    BY <1>0, <2>1 DEF Dealt
  <2>4. Streamed' = Streamed \/ Streamed' = Streamed + 1
    BY <1>3, StreamedNext
  <2>5. Streamed < produced
    BY <1>0, <2>2, <2>3
  <2> QED BY <1>0, <2>1, <2>2, <2>4, <2>5, PromiseRests, PromiseStreams
<1>4. CASE WriteOk
  <2>1. JobRests /\ outcome' = outcome /\ outcome = "none" /\ hpc = "write" /\ handle # "dropped"
    BY <1>0, <1>4 DEF WriteOk, JobRests, PlaceOK, jobVars, clientVars, workerVars, pipeVars
  <2>2. delivered <= produced /\ delivered >= 1 /\ Streamed + 1 = delivered
    BY <1>0, <2>1, DeliveredBound DEF Dealt
  <2>3. wpc # "lost" /\ Streamed < produced
    BY <1>0, <2>2 DEF Fresh
  <2> QED BY <1>0, <1>4, <2>1, <2>3, StreamedNext, PromiseStreams
<1>5. CASE SignalEof
  <2>1. Streamed' = Streamed /\ outcome' = outcome
    BY <1>5, StreamedNext DEF SignalEof, TryRecvSome, WriteOk
  <2>2. /\ eofSent' /\ ~eofSent /\ outcome = "none"
        /\ UNCHANGED <<sent, decoded, produced, pend, pipe, wpc>>
    BY <1>0, <1>5 DEF SignalEof, SendEof, PlaceOK, workerVars, pipeVars
  <2>3. CASE wpc = "lost"
    <3>1. Phase' = Phase
      BY <2>2, <2>3 DEF Phase
    <3> QED BY <2>1, <2>2, <3>1 DEF Promise!vars, Phase
  <2>4. CASE wpc # "lost"
    <3>1. Phase = "open" /\ Phase' = "ended"
      BY <2>1, <2>2, <2>4 DEF Phase
    <3>2. Promise!CloseInput
      BY <2>1, <2>2, <3>1 DEF Promise!CloseInput, Phase
    <3> QED BY <3>2 DEF Promise!Next
  <2> QED BY <2>3, <2>4
<1>6. CASE Finish
  <2>1. Streamed' = Streamed /\ JobRests /\ outcome = "none" /\ hpc = "finish" /\ outcome' \in {"ok", "failed"}
    <3>1. ~TryRecvSome /\ ~WriteOk
      BY <1>6 DEF Finish, TryRecvSome, WriteOk
    <3> QED BY <1>0, <1>6, <3>1, StreamedNext
            DEF Finish, JobRests, PlaceOK, jobVars, clientVars, workerVars, pipeVars
  <2>2. CASE outcome' = "failed"
    BY <2>1, <2>2, PromiseRests
  <2>3. CASE outcome' = "ok" /\ wpc = "lost"
    <3>1. Phase' = Phase
      BY <2>1, <2>3 DEF Phase, JobRests
    <3> QED BY <2>1, <3>1 DEF Promise!vars, Phase, JobRests
  <2>4. CASE outcome' = "ok" /\ wpc # "lost"
    <3>1. handle = "live" /\ Closed /\ eofSent /\ Streamed = delivered
      BY <1>0, <2>1 DEF PlaceOK, Dealt
    <3>2. pipe # "running" /\ Streamed = produced + pend
      BY <1>0, <2>4, <3>1, ClosedIsAll
    <3>3. Phase = "ended" /\ Phase' = "ok"
      BY <2>1, <2>4, <3>1 DEF Phase, JobRests
    <3>4. Promise!Complete
      BY <2>1, <3>2, <3>3 DEF Promise!Complete, Phase, JobRests
    <3> QED BY <3>4 DEF Promise!Next
  <2> QED BY <2>1, <2>2, <2>3, <2>4
<1>7. CASE BehindHandle(Backend)
  BY <1>7, PromiseBehind
<1> QED BY <1>1, <1>2, <1>3, <1>4, <1>5, <1>6, <1>7 DEF HttpNext, Handler, FeedDecoder

\* For all capacities, bodies and decoders, the handler keeps the promise of a decode
\* request: it deals with each result in order, and finishes the response only when all
\* chunks have been decoded and all their results dealt with (router.rs:124-177).
THEOREM HttpKeepsPromise == HttpSpec => KeepsPromise
<1>1. HttpInit => Promise!Init
  <2> SUFFICES ASSUME HttpInit PROVE Promise!Init
    OBVIOUS
  <2>1. Streamed = 0
    <3>1. Len(written) = 0 /\ delivered = 0
      BY DEF HttpInit, JobInit
    <3> QED BY <3>1, StreamedIs, BadCount
  <2> QED BY <2>1 DEF HttpInit, JobInit, Promise!Init
<1> QED BY <1>1, PromiseNext, HttpInvariant, PTL DEF HttpSpec, KeepsPromise, Promise!Spec

----------------------------------------------------------------------------
(* Where a request rests, and that it comes there.                         *)

LEMMA HttpRests ==
  ASSUME JobInv, MotionInv, PlaceOK
  PROVE  RequestRestsWhenDone
<1> SUFFICES ASSUME ~RequestCanMove, hpc # "refused"
             PROVE  \/ hpc = "done" /\ Over
                    \/ Stuck \/ EofLost
                    \/ FeedBlocked /\ Burst > PipeOutCap
  BY DEF RequestRestsWhenDone
<1>1. hpc \in {"send", "eof", "flush", "unwind", "done"} /\ ~BackendCanMove
  BY DEF PlaceOK, HttpPc, RequestCanMove
<1>2. CASE hpc \in {"send", "eof"}
  BY <1>1, <1>2, BlockedSend DEF RequestCanMove, PlaceOK, Stuck
<1>3. CASE hpc \in {"flush", "unwind", "done"}
  <2>1. eofSent \/ handle # "live"
    BY <1>3 DEF PlaceOK, RequestCanMove
  <2>2. ~CanMove
    BY <1>1, <1>3 DEF PlaceOK, RequestCanMove, CanMove
  <2>3. hpc # "done" => ~Over
    BY <1>3 DEF RequestCanMove
  <2>4. CASE Over
    BY <1>3, <2>3, <2>4
  <2>5. CASE ~Over
    <3>1. EofLost \/ (handle = "closing" /\ Wedged) \/ FeedBlocked
      BY <2>1, <2>2, <2>5, RestIsKnown
    <3>2. handle = "closing" => hpc = "unwind"
      BY DEF PlaceOK
    <3> QED BY <3>1, <3>2, FeedBlockedBursts DEF Stuck
  <2> QED BY <2>4, <2>5
<1> QED BY <1>1, <1>2, <1>3

\* For all capacities, bursts and bodies, a request in which neither handler nor worker
\* nor pipeline can go on is over, or its job is at one of the known standstills; with
\* room for the results of a chunk there are two of them.
THEOREM HttpRestsWhenDone == HttpSpec => []RequestRestsWhenDone
<1>1. HttpInv /\ MotionInv => RequestRestsWhenDone
  BY HttpRests DEF HttpInv
<1> QED BY <1>1, HttpInvariant, HttpIsClient, MotionInvariant, PTL

LEMMA RequestEffortNext ==
  ASSUME HttpInv, [HttpNext]_httpVars, httpVars' # httpVars, InputEnded
  PROVE  RequestEffort' < RequestEffort
<1>0. JobInv /\ PlaceOK /\ [JobNext]_jobVars /\ JobInv'
  BY HttpJobNext, InvNext DEF HttpInv
<1>1. /\ Effort \in Nat /\ Effort' \in Nat
      /\ Effort' < Effort \/ (Effort' = Effort /\ UNCHANGED jobVars)
  BY <1>0, EffortStep
<1>2. PlaceEffort(hpc) \in 0..4 /\ PlaceEffort(hpc') \in 0..4
  BY DEF PlaceEffort
<1>3. hpc \in {"write", "flush", "finish", "unwind", "done"}
  BY <1>0 DEF PlaceOK, HttpPc, InputEnded
<1>4. CASE WriteOk \/ FlushClosed \/ Finish \/ Cancelled
  <2>1. UNCHANGED jobVars
    BY <1>4 DEF WriteOk, FlushClosed, Finish, Cancelled
  <2>2. Effort' = Effort
    BY <2>1 DEF jobVars, clientVars, workerVars, pipeVars, Effort
  <2>3. PlaceEffort(hpc') < PlaceEffort(hpc)
    BY <1>0, <1>3, <1>4 DEF PlaceEffort, WriteOk, FlushClosed, Finish, Cancelled, PlaceOK, InputEnded
  <2> QED BY <1>1, <1>2, <2>2, <2>3 DEF RequestEffort
<1>5. CASE TryRecvSome \/ Unwind \/ BehindHandle(Backend)
  <2>1. JobNext
    BY <1>5 DEF TryRecvSome, Unwind, BehindHandle, JobNext, Client
  <2>2. Effort' < Effort
    BY <1>0, <2>1, EffortNext
  <2>3. PlaceEffort(hpc') <= PlaceEffort(hpc) + 1
    BY <1>3, <1>5 DEF PlaceEffort, TryRecvSome, Unwind, BehindHandle
  <2> QED BY <1>1, <1>2, <2>2, <2>3 DEF RequestEffort
<1>6. ~(Acquire \/ SendHeaders \/ NextChunk \/ FeedDecoder \/ PumpDry \/ SignalEof)
  BY <1>3 DEF Acquire, SendHeaders, NextChunk, FeedDecoder, PumpDry, SignalEof
<1> QED BY <1>4, <1>5, <1>6 DEF HttpNext, Handler

\* For all capacities, bursts and bodies, a request whose input has ended takes at most
\* RequestEffort steps more: the flush loop ends, and so does the request, unless it
\* rests at a standstill (router.rs:159-177).
THEOREM HttpEffortFalls == HttpSpec => RequestEffortFalls
<1>1. HttpInv /\ [HttpNext]_httpVars => [InputEnded => RequestEffort' < RequestEffort]_httpVars
  BY RequestEffortNext
<1> QED BY <1>1, HttpInvariant, PTL DEF HttpSpec, RequestEffortFalls
=============================================================================
