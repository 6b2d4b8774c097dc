--------------------------- MODULE TcpDecode_proof --------------------------
(***************************************************************************)
(* Proofs about a connection of the framed TCP protocol, for all           *)
(* capacities, bursts, numbers of sessions and any set of decode errors:   *)
(* each session keeps the promise of Transcoder, and is answered in the    *)
(* order the protocol demands.                                             *)
(***************************************************************************)
EXTENDS TcpDecode, PooledDecoder_proof

----------------------------------------------------------------------------
(* The job of a session.                                                   *)

LEMMA TcpJobNext == [TcpNext]_tcpVars => [JobNext]_jobVars \/ NewJob
<1> SUFFICES ASSUME [TcpNext]_tcpVars PROVE JobNext \/ NewJob \/ UNCHANGED jobVars
  OBVIOUS
<1>1. CASE Handler
  BY <1>1 DEF Handler, FeedDecoder, SendFails, TakeOutput, PumpDry, WriteMeta, WritePcm,
     SignalEof, FlushClosed, WriteDone, Unwind, JobNext, Client
<1>2. CASE Peer
  BY <1>2 DEF Peer, FirstFrame, PeerGone, NextFrame, Fails
<1>3. CASE BehindHandle(Backend)
  BY <1>3 DEF BehindHandle, JobNext
<1>4. CASE UNCHANGED tcpVars
  BY <1>4 DEF tcpVars
<1> QED BY <1>1, <1>2, <1>3, <1>4 DEF TcpNext

LEMMA TcpJobInvNext == JobInv /\ Fresh /\ [TcpNext]_tcpVars => JobInv' /\ Fresh'
  BY TcpJobNext, InvNext, FreshNext, NewJobInv

----------------------------------------------------------------------------
(* Frames, and the audio among them.                                       *)

Frames(n) == {META, DONE} \cup {PCMS(i) : i \in 1..n}

LEMMA FrameFacts ==
  /\ META # DONE
  /\ \A i \in Nat : PCMS(i) # META /\ PCMS(i) # DONE /\ PCMS(i)[2] = i
  /\ \A n \in Nat : \A f \in Frames(n) : f \in {META, DONE} \/ (f[2] \in Nat /\ f = PCMS(f[2]))
<1>1. /\ META # DONE
      /\ \A i \in Nat : PCMS(i) # META /\ PCMS(i) # DONE /\ PCMS(i)[2] = i
  BY DEF META, DONE, PCMS
<1>2. ASSUME NEW n \in Nat, NEW f \in Frames(n)
      PROVE  f \in {META, DONE} \/ (f[2] \in Nat /\ f = PCMS(f[2]))
  <2>1. CASE f \in {META, DONE}
    BY <2>1, Zenon
  <2>2. CASE f \notin {META, DONE}
    <3>1. PICK i \in 1..n : f = PCMS(i)
      BY <2>2, Zenon DEF Frames
    <3> QED BY <1>1, <3>1
  <2> QED BY <2>1, <2>2
<1> QED BY <1>1, <1>2, Zenon

AudioOf(w) == {k \in 1..Len(w) : w[k] \notin {META, DONE}}

\* One more frame.
LEMMA FrameAppended ==
  ASSUME NEW n \in Nat, NEW w \in Seq(Frames(n)), NEW f \in Frames(n)
  PROVE  /\ Append(w, f) \in Seq(Frames(n)) /\ Len(Append(w, f)) = Len(w) + 1
         /\ \A k \in 1..Len(w) : Append(w, f)[k] = w[k]
         /\ Append(w, f)[Len(w) + 1] = f
         /\ f \in {META, DONE} => AudioOf(Append(w, f)) = AudioOf(w)
         /\ f \notin {META, DONE} => AudioOf(Append(w, f)) = AudioOf(w) \cup {Len(w) + 1}
<1>1. /\ Append(w, f) \in Seq(Frames(n)) /\ Len(Append(w, f)) = Len(w) + 1
      /\ \A k \in 1..Len(w) : Append(w, f)[k] = w[k]
      /\ Append(w, f)[Len(w) + 1] = f /\ Len(w) \in Nat
  OBVIOUS
<1>2. 1..(Len(w) + 1) = 1..Len(w) \cup {Len(w) + 1}
  BY <1>1
<1> QED BY <1>1, <1>2 DEF AudioOf

LEMMA AudioCount ==
  ASSUME NEW n \in Nat, NEW w \in Seq(Frames(n))
  PROVE  /\ IsFiniteSet(AudioOf(w)) /\ Cardinality(AudioOf(w)) \in Nat
         /\ Cardinality(AudioOf(w) \cup {Len(w) + 1}) = Cardinality(AudioOf(w)) + 1
<1>1. AudioOf(w) \in SUBSET (1..Len(w)) /\ Len(w) \in Nat
  BY DEF AudioOf
<1>2. IsFiniteSet(AudioOf(w))
  <2>1. IsFiniteSet(1..Len(w))
    BY <1>1, FS_Interval
  <2> QED BY <1>1, <2>1, FS_Subset, Zenon
<1>3. Len(w) + 1 \notin AudioOf(w)
  BY <1>1
<1> QED BY <1>2, <1>3, FS_AddElement, FS_CardinalityType

LEMMA MoreFrames ==
  ASSUME NEW n \in Nat, NEW w \in Seq(Frames(n))
  PROVE  w \in Seq(Frames(n + 1))
<1>1. Frames(n) \subseteq Frames(n + 1)
  BY DEF Frames
<1> QED BY <1>1

LEMMA BadCount ==
  /\ Cardinality(UpTo(Bad, 0)) = 0
  /\ \A n \in Nat :
       /\ Cardinality(UpTo(Bad, n)) \in Nat
       /\ n + 1 \in Bad => Cardinality(UpTo(Bad, n + 1)) = Cardinality(UpTo(Bad, n)) + 1
       /\ n + 1 \notin Bad => Cardinality(UpTo(Bad, n + 1)) = Cardinality(UpTo(Bad, n))
<1>1. IsFiniteSet(Bad) /\ \A i \in Bad : i \in Nat /\ i > 0
  BY TcpAssumption
<1> QED BY <1>1, CountUpTo, Zenon

LEMMA StreamedIs ==
  /\ Audio = AudioOf(wire) /\ Audio' = AudioOf(wire')
  /\ Streamed = Cardinality(AudioOf(wire)) + Cardinality(UpTo(Bad, delivered))
  /\ Streamed' = Cardinality(AudioOf(wire')) + Cardinality(UpTo(Bad, delivered'))
  BY DEF Streamed, UpTo, Audio, AudioOf

----------------------------------------------------------------------------
(* The invariant.                                                          *)

InSession == {"send", "pump", "frame", "meta", "write", "eof", "flush", "done"}

\* Handle, outcome and first_meta_sent agree with where the handler is.
PlaceOK ==
  /\ tpc \in TcpPc /\ session \in 0..MaxSessions /\ metaSent \in BOOLEAN
  /\ outcome \in {"none", "ok", "failed"}
  /\ tpc \in InSession => handle = "live" /\ session > 0 /\ outcome = "none"
  /\ handle = "dropped" => tpc \in {"first", "closed"}
  /\ session > 0 /\ tpc \in {"first", "closed"} => handle = "dropped"
  /\ session > 0 /\ tpc \notin InSession => outcome # "none"
  /\ session > 0 /\ tpc = "first" => outcome = "ok"
  /\ session = 0 => tpc \in {"first", "closed"} /\ outcome = "none"
  /\ tpc \in {"send", "pump", "frame", "eof"} => ~eofSent
  /\ tpc = "flush" => eofSent \/ Over
  /\ tpc = "done" => Closed
  /\ outcome = "ok" => Over
  /\ tpc = "write" => metaSent
  /\ tpc = "meta" => ~metaSent

\* Before the first session.
Pristine ==
  session = 0 =>
    /\ sent = 0 /\ delivered = 0 /\ decoded = 0 /\ produced = 0 /\ pend = 0
    /\ pipe = "running" /\ ~eofSent /\ wpc = "queued" /\ wire = <<>> /\ ~metaSent

\* All results taken are dealt with, but one that is to be written.
Dealt ==
  /\ wire \in Seq(Frames(delivered)) /\ (metaSent => Len(wire) > 0)
  /\ tpc \in {"meta", "write"} => delivered >= 1 /\ delivered \notin Bad
  /\ outcome # "failed" => Streamed + (IF tpc \in {"meta", "write"} THEN 1 ELSE 0) = delivered

TcpInv == JobInv /\ Fresh /\ PlaceOK /\ Pristine /\ Dealt /\ SessionReply

LEMMA NoFrames == <<>> \in Seq(Frames(0)) /\ Len(<<>>) = 0 /\ AudioOf(<<>>) = {}
                  /\ Cardinality(AudioOf(<<>>)) = 0
<1>1. <<>> \in Seq(Frames(0)) /\ Len(<<>>) = 0 /\ AudioOf(<<>>) = {}
  BY DEF AudioOf
<1> QED BY <1>1, FS_EmptySet

LEMMA TcpInitInv == TcpInit => TcpInv
<1> SUFFICES ASSUME TcpInit PROVE TcpInv
  OBVIOUS
<1>1. JobInv /\ Fresh
  BY InvInit, FreshInit DEF TcpInit
<1>2. PlaceOK
  <2>1. tpc = "first" /\ session = 0 /\ outcome = "none" /\ handle = "live"
        /\ 0 \in 0..MaxSessions
    BY TcpAssumption DEF TcpInit, JobInit
  <2>2. metaSent \in BOOLEAN
    BY Zenon DEF TcpInit
  <2> QED BY <2>1, <2>2 DEF PlaceOK, TcpPc, InSession
<1>p. Pristine
  BY DEF TcpInit, JobInit, Pristine
<1>3. wire = <<>> /\ delivered = 0 /\ tpc = "first"
  BY DEF TcpInit, JobInit
<1>4. Streamed = 0 /\ Audio = {}
  BY <1>3, StreamedIs, BadCount, NoFrames
<1>5. Dealt
  BY <1>3, <1>4, NoFrames DEF Dealt, TcpInit
<1>6. SessionReply
  <2>1. 1..Streamed = {} /\ 1..Len(wire) = {}
    BY <1>3, <1>4, NoFrames
  <2> QED BY <1>4, <2>1 DEF SessionReply
<1> QED BY <1>1, <1>2, <1>p, <1>5, <1>6 DEF TcpInv

LEMMA BehindPlace ==
  ASSUME TcpInv, BehindHandle(Backend)
  PROVE  PlaceOK' /\ Pristine'
<1>1. UNCHANGED <<tpc, session, metaSent, wire, outcome, clientVars>> /\ session > 0
  BY BackendSteps DEF TcpInv, BehindHandle
<1>2. Over => Over' /\ (Closed => Closed')
  BY DEF BehindHandle, Over, Closed, Backend, Worker, Pipeline, TakeJob, ReadChunk, FeedPipeline,
     ReadNothing, ReadEof, TakeResult, PushResult, Abort, NextTurn, EndJob, Discard, PipeTake,
     PipeEmit, PipeFinish, workerVars
<1>3. PlaceOK'
  BY <1>1, <1>2 DEF TcpInv, PlaceOK, Closed, clientVars
<1>4. session' > 0 /\ session' # 0
  BY <1>1
<1> QED BY <1>3, <1>4 DEF Pristine

LEMMA PlaceNext == TcpInv /\ [TcpNext]_tcpVars => PlaceOK' /\ Pristine'
<1> SUFFICES ASSUME TcpInv, [TcpNext]_tcpVars PROVE PlaceOK' /\ Pristine'
  OBVIOUS
<1>0. PlaceOK /\ Pristine /\ session \in Nat /\ MaxSessions \in Nat
  BY TcpAssumption DEF TcpInv, PlaceOK
<1> USE DEF TcpPc, Over, Closed, InSession
<1>1. CASE PumpDry \/ WritePcm \/ FlushClosed \/ WriteDone \/ PeerGone \/ NextFrame \/ Fails
  <2>1. session' = session /\ metaSent' = metaSent /\ UNCHANGED jobVars
    BY <1>1 DEF PumpDry, WritePcm, FlushClosed, WriteDone, PeerGone, NextFrame, Fails
  <2>2. UNCHANGED <<handle, eofSent, wpc, output, sent, delivered, decoded, produced, pend, pipe>>
    BY <2>1 DEF jobVars, clientVars, workerVars, pipeVars
  <2>3. PlaceOK'
    <3>1. CASE PumpDry \/ WritePcm \/ FlushClosed
      BY <1>0, <2>1, <2>2, <3>1 DEF PumpDry, WritePcm, FlushClosed, PlaceOK
    <3>2. CASE WriteDone \/ PeerGone \/ NextFrame \/ Fails
      BY <1>0, <2>1, <2>2, <3>2 DEF WriteDone, PeerGone, NextFrame, Fails, PlaceOK
    <3> QED BY <1>1, <3>1, <3>2
  <2>4. Pristine'
    <3>1. session = 0 => wire' = wire
      BY <1>0, <1>1 DEF PumpDry, WritePcm, FlushClosed, WriteDone, PeerGone, NextFrame, Fails, PlaceOK
    <3> QED BY <1>0, <2>1, <2>2, <3>1 DEF Pristine
  <2> QED BY <2>3, <2>4
<1>7. CASE WriteMeta
  <2>1. session' = session /\ session > 0 /\ metaSent' \in BOOLEAN
        /\ UNCHANGED <<handle, eofSent, wpc, output, outcome>>
    BY <1>0, <1>7 DEF WriteMeta, PlaceOK, jobVars, clientVars, workerVars
  <2> QED BY <1>0, <1>7, <2>1 DEF WriteMeta, PlaceOK, Pristine
<1>2. CASE FeedDecoder \/ TakeOutput \/ SignalEof
  <2>1. session' = session /\ session > 0
    BY <1>0, <1>2 DEF FeedDecoder, TakeOutput, SignalEof, PlaceOK
  <2>2. PlaceOK'
    BY <1>0, <1>2 DEF FeedDecoder, SendChunk, SendFails, TakeOutput, Recv, SignalEof, SendEof,
       jobVars, clientVars, workerVars, PlaceOK
  <2> QED BY <2>1, <2>2 DEF Pristine
<1>3. CASE Unwind
  <2>1. session' = session /\ session > 0
    BY <1>0, <1>3 DEF Unwind, PlaceOK
  <2>2. PlaceOK'
    BY <1>0, <1>3 DEF Unwind, DropBegin, DropEnd, workerVars, PlaceOK
  <2> QED BY <2>1, <2>2 DEF Pristine
<1>4. CASE FirstFrame
  <2>1. session' = session + 1 /\ session' \in 0..MaxSessions /\ session' > 0
    BY <1>0, <1>4 DEF FirstFrame, PlaceOK
  <2>2. /\ metaSent' \in BOOLEAN /\ outcome' = "none" /\ handle' = "live" /\ tpc' \in {"send", "eof"}
        /\ ~eofSent'
    BY <1>4, Zenon DEF FirstFrame, NewJob
  <2>3. PlaceOK'
    BY <2>1, <2>2 DEF PlaceOK
  <2> QED BY <1>0, <2>1, <2>3 DEF Pristine
<1>5. CASE BehindHandle(Backend)
  BY <1>5, BehindPlace
<1>6. CASE UNCHANGED tcpVars
  BY <1>0, <1>6 DEF tcpVars, jobVars, clientVars, workerVars, pipeVars, PlaceOK, Pristine
<1> QED BY <1>1, <1>2, <1>3, <1>4, <1>5, <1>6, <1>7 DEF TcpNext, Handler, Peer

LEMMA TcpFacts ==
  ASSUME TcpInv
  PROVE  /\ JobInv /\ Fresh /\ PlaceOK /\ Pristine /\ Dealt /\ SessionReply
         /\ delivered \in Nat /\ Streamed \in Nat /\ produced \in Nat /\ pend \in Nat
         /\ wire \in Seq(Frames(delivered)) /\ Len(wire) \in Nat
         /\ Cardinality(AudioOf(wire)) \in Nat /\ Cardinality(UpTo(Bad, delivered)) \in Nat
<1>1. /\ JobInv /\ Fresh /\ PlaceOK /\ Pristine /\ Dealt /\ SessionReply
      /\ delivered \in Nat /\ produced \in Nat /\ pend \in Nat
      /\ wire \in Seq(Frames(delivered))
  BY DEF TcpInv, JobInv, TypeOK, Dealt
<1>2. Cardinality(AudioOf(wire)) \in Nat /\ Cardinality(UpTo(Bad, delivered)) \in Nat
  BY <1>1, AudioCount, BadCount
<1> QED BY <1>1, <1>2, StreamedIs

\* Steps that neither take a result nor write a frame.
Quiet ==
  /\ UNCHANGED <<wire, delivered, metaSent>>
  /\ outcome' = outcome \/ outcome' = "failed"
  /\ tpc' \in {"meta", "write"} => tpc \in {"meta", "write"}
  /\ outcome' = "failed" \/ (tpc' \in {"meta", "write"} <=> tpc \in {"meta", "write"})

LEMMA Steps ==
  ASSUME TcpInv, [TcpNext]_tcpVars
  PROVE  FirstFrame \/ TakeOutput \/ WriteMeta \/ WritePcm \/ WriteDone \/ Quiet
<1>1. CASE BehindHandle(Backend)
  <2>1. delivered' = delivered
    BY <1>1, BackendSteps DEF TcpInv, BehindHandle, clientVars
  <2> QED BY <1>1, <2>1 DEF BehindHandle, Quiet
<1>2. CASE FeedDecoder \/ PumpDry \/ SignalEof \/ FlushClosed \/ Unwind
  BY <1>2 DEF FeedDecoder, SendChunk, SendFails, PumpDry, SignalEof, SendEof, FlushClosed, Unwind,
     DropBegin, DropEnd, jobVars, clientVars, Quiet
<1>3. CASE PeerGone \/ NextFrame \/ Fails \/ UNCHANGED tcpVars
  BY <1>3 DEF PeerGone, NextFrame, Fails, tcpVars, jobVars, clientVars, Quiet
<1> QED BY <1>1, <1>2, <1>3 DEF TcpNext, Handler, Peer

\* What each of them does to the frames and to the results that have been dealt with.
LEMMA TakeFacts ==
  ASSUME TcpInv, TakeOutput
  PROVE  /\ delivered' = delivered + 1 /\ wire' = wire /\ wire' \in Seq(Frames(delivered'))
         /\ outcome' = outcome /\ metaSent' = metaSent /\ tpc \notin {"meta", "write"}
         /\ tpc' \in {"meta", "write"} <=> delivered' \notin Bad
         /\ Streamed' = IF delivered' \in Bad THEN Streamed + 1 ELSE Streamed
<1>1. /\ delivered' = delivered + 1 /\ wire' = wire /\ outcome' = outcome /\ metaSent' = metaSent
      /\ tpc \notin {"meta", "write"}
  BY TcpFacts, Received DEF TakeOutput
<1>2. wire' \in Seq(Frames(delivered'))
  BY <1>1, TcpFacts, MoreFrames
<1>3. tpc' \in {"meta", "write"} <=> delivered' \notin Bad
  BY DEF TakeOutput
<1>4. Streamed' = Cardinality(AudioOf(wire)) + Cardinality(UpTo(Bad, delivered + 1))
  BY <1>1, StreamedIs
<1>5. Streamed' = IF delivered' \in Bad THEN Streamed + 1 ELSE Streamed
  <2>1. /\ delivered + 1 \in Bad => Cardinality(UpTo(Bad, delivered + 1)) = Cardinality(UpTo(Bad, delivered)) + 1
        /\ delivered + 1 \notin Bad => Cardinality(UpTo(Bad, delivered + 1)) = Cardinality(UpTo(Bad, delivered))
    BY TcpFacts, BadCount, Zenon
  <2> QED BY <1>1, <1>4, <2>1, TcpFacts, StreamedIs
<1> QED BY <1>1, <1>2, <1>3, <1>5

LEMMA WriteFacts ==
  ASSUME TcpInv, NEW f \in Frames(delivered), wire' = Append(wire, f), delivered' = delivered
  PROVE  /\ wire' \in Seq(Frames(delivered')) /\ Len(wire') = Len(wire) + 1
         /\ \A k \in 1..Len(wire) : wire'[k] = wire[k]
         /\ wire'[Len(wire) + 1] = f
         /\ f \in {META, DONE} => Audio' = Audio /\ Streamed' = Streamed
         /\ f \notin {META, DONE} => Audio' = Audio \cup {Len(wire) + 1} /\ Streamed' = Streamed + 1
<1>1. /\ wire' \in Seq(Frames(delivered)) /\ Len(wire') = Len(wire) + 1
      /\ \A k \in 1..Len(wire) : wire'[k] = wire[k]
      /\ wire'[Len(wire) + 1] = f
      /\ f \in {META, DONE} => AudioOf(wire') = AudioOf(wire)
      /\ f \notin {META, DONE} => AudioOf(wire') = AudioOf(wire) \cup {Len(wire) + 1}
  BY TcpFacts, FrameAppended
<1>2. Cardinality(AudioOf(wire) \cup {Len(wire) + 1}) = Cardinality(AudioOf(wire)) + 1
  BY TcpFacts, AudioCount
<1>3. f \in {META, DONE} => Streamed' = Streamed
  BY <1>1, StreamedIs
<1>4. ASSUME f \notin {META, DONE} PROVE Streamed' = Streamed + 1
  <2>1. Cardinality(AudioOf(wire')) = Cardinality(AudioOf(wire)) + 1
    BY <1>1, <1>2, <1>4
  <2>2. Streamed' = Cardinality(AudioOf(wire')) + Cardinality(UpTo(Bad, delivered))
    BY StreamedIs
  <2>3. Streamed = Cardinality(AudioOf(wire)) + Cardinality(UpTo(Bad, delivered))
    BY StreamedIs
  <2> QED BY <2>1, <2>2, <2>3, TcpFacts
<1> QED BY <1>1, <1>3, <1>4, StreamedIs

\* The frames that are written.
LEMMA Writes ==
  ASSUME TcpInv
  PROVE  /\ WriteMeta \/ WritePcm \/ WriteDone => delivered' = delivered /\ outcome = "none"
         /\ WriteMeta => META \in Frames(delivered)
         /\ WriteDone => DONE \in Frames(delivered)
         /\ WritePcm => /\ PCMS(delivered) \in Frames(delivered)
                        /\ delivered = Streamed + 1 /\ delivered \notin Bad
<1>1. WriteMeta \/ WritePcm \/ WriteDone => delivered' = delivered /\ outcome = "none"
  BY TcpFacts DEF WriteMeta, WritePcm, WriteDone, PlaceOK, InSession, jobVars, clientVars
<1>2. META \in Frames(delivered) /\ DONE \in Frames(delivered)
  BY DEF Frames
<1>3. ASSUME WritePcm
      PROVE  PCMS(delivered) \in Frames(delivered) /\ delivered = Streamed + 1 /\ delivered \notin Bad
  <2>1. delivered >= 1 /\ delivered \notin Bad /\ Streamed + 1 = delivered
    BY <1>1, <1>3, TcpFacts DEF WritePcm, Dealt
  <2>2. delivered \in 1..delivered
    BY <2>1, TcpFacts
  <2> QED BY <2>1, <2>2 DEF Frames
<1> QED BY <1>1, <1>2, <1>3

\* A session that begins.
LEMMA FirstFacts ==
  ASSUME FirstFrame
  PROVE  wire' = <<>> /\ delivered' = 0 /\ Streamed' = 0 /\ ~metaSent' /\ outcome' = "none" /\ Audio' = {}
         /\ tpc' \notin {"meta", "write"}
<1>1. wire' = <<>> /\ delivered' = 0 /\ ~metaSent' /\ outcome' = "none" /\ tpc' \notin {"meta", "write"}
  BY DEF FirstFrame, NewJob
<1> QED BY <1>1, StreamedIs, BadCount, NoFrames

LEMMA QuietFacts ==
  ASSUME TcpInv, Quiet
  PROVE  Audio' = Audio /\ Streamed' = Streamed
  BY StreamedIs DEF Quiet

LEMMA DealtNext == TcpInv /\ [TcpNext]_tcpVars => Dealt'
<1> SUFFICES ASSUME TcpInv, [TcpNext]_tcpVars PROVE Dealt'
  OBVIOUS
<1>1. CASE FirstFrame
  BY <1>1, FirstFacts, NoFrames DEF Dealt
<1>2. CASE TakeOutput
  BY <1>2, TakeFacts, TcpFacts DEF Dealt
<1>3. CASE WriteMeta
  BY <1>3, Writes, WriteFacts, TcpFacts DEF WriteMeta, Dealt
<1>4. CASE WritePcm
  <2>1. PCMS(delivered) \notin {META, DONE}
    BY FrameFacts, TcpFacts
  <2> QED BY <1>4, <2>1, Writes, WriteFacts, TcpFacts DEF WritePcm, Dealt
<1>5. CASE WriteDone
  BY <1>5, Writes, WriteFacts, TcpFacts DEF WriteDone, Dealt
<1>6. CASE Quiet
  BY <1>6, QuietFacts, TcpFacts DEF Quiet, Dealt
<1> QED BY <1>1, <1>2, <1>3, <1>4, <1>5, <1>6, Steps

\* The outcome of a session that has failed stays.
LEMMA FailedStays ==
  ASSUME TcpInv, [TcpNext]_tcpVars, outcome' # "failed"
  PROVE  FirstFrame \/ outcome # "failed"
<1>1. CASE TakeOutput
  BY <1>1, TakeFacts
<1>2. CASE WriteMeta \/ WritePcm \/ WriteDone
  BY <1>2, Writes
<1>3. CASE Quiet
  BY <1>3 DEF Quiet
<1> QED BY <1>1, <1>2, <1>3, Steps

\* A reply remains one.
LEMMA ReplyNext == TcpInv /\ [TcpNext]_tcpVars => SessionReply'
<1> SUFFICES ASSUME TcpInv, [TcpNext]_tcpVars, outcome' # "failed"
             PROVE  /\ \A k \in 1..Len(wire') : /\ wire'[k] = META <=> k = 1 /\ metaSent'
                                                /\ wire'[k] = DONE <=> k = Len(wire') /\ outcome' = "ok"
                    /\ {wire'[k] : k \in Audio'} = {PCMS(i) : i \in (1..Streamed') \ Bad}
                    /\ \A j, k \in Audio' : j < k => wire'[j][2] < wire'[k][2]
                    /\ Audio' # {} => metaSent'
  BY DEF SessionReply
<1>1. CASE FirstFrame
  <2>1. Len(wire') = 0 /\ 1..Len(wire') = {} /\ 1..Streamed' = {} /\ Audio' = {}
    BY <1>1, FirstFacts, NoFrames
  <2> QED BY <2>1
<1>2. CASE ~FirstFrame
  <2>0. /\ \A k \in 1..Len(wire) : /\ wire[k] = META <=> k = 1 /\ metaSent
                                   /\ wire[k] = DONE <=> k = Len(wire) /\ outcome = "ok"
        /\ {wire[k] : k \in Audio} = {PCMS(i) : i \in (1..Streamed) \ Bad}
        /\ \A j, k \in Audio : j < k => wire[j][2] < wire[k][2]
        /\ Audio # {} => metaSent
    <3>1. outcome # "failed" /\ SessionReply
      BY <1>2, FailedStays, TcpFacts
    <3> QED BY <3>1 DEF SessionReply
  <2>a. Audio \subseteq 1..Len(wire) /\ Len(wire) \in Nat /\ Streamed \in Nat /\ delivered \in Nat
    BY TcpFacts DEF Audio
  <2>1. CASE Quiet
    <3>1. /\ wire' = wire /\ metaSent' = metaSent /\ Audio' = Audio /\ Streamed' = Streamed
          /\ outcome' = outcome
      BY <2>1, QuietFacts DEF Quiet
    <3> QED BY <2>0, <3>1
  <2>2. CASE TakeOutput
    <3>1. wire' = wire /\ metaSent' = metaSent /\ outcome' = outcome /\ Audio' = Audio
      BY <2>2, TakeFacts, StreamedIs
    <3>2. (1..Streamed') \ Bad = (1..Streamed) \ Bad
      <4>1. CASE delivered' \notin Bad
        BY <2>2, <4>1, TakeFacts
      <4>2. CASE delivered' \in Bad
        <5>1. Streamed = delivered /\ Streamed' = Streamed + 1 /\ Streamed + 1 \in Bad
          <6>1. Streamed = delivered
            BY <1>2, <2>2, TakeFacts, TcpFacts, FailedStays DEF Dealt
          <6> QED BY <2>2, <4>2, <6>1, TakeFacts
        <5>2. 1..Streamed' = (1..Streamed) \cup {Streamed + 1}
          BY <2>a, <5>1
        <5> QED BY <5>1, <5>2
      <4> QED BY <4>1, <4>2
    <3> QED BY <2>0, <3>1, <3>2
  <2>3. CASE WriteMeta
    <3>1. ~metaSent /\ metaSent' /\ outcome = "none" /\ outcome' = "none" /\ wire' = Append(wire, META)
          /\ META \in Frames(delivered) /\ delivered' = delivered
      BY <2>3, Writes, TcpFacts DEF WriteMeta, PlaceOK
    <3>2. Audio = {}
      BY <2>0, <3>1
    <3>3. 1..Len(wire) = {}
      BY <2>0, <3>1, <3>2 DEF Audio
    <3>4. Len(wire) = 0
      BY <2>a, <3>3
    <3>5. Len(wire') = 1 /\ wire'[1] = META /\ Audio' = {} /\ Streamed' = Streamed
      BY <3>1, <3>2, <3>4, WriteFacts
    <3>6. META # DONE
      BY FrameFacts
    <3>7. {PCMS(i) : i \in (1..Streamed) \ Bad} = {}
      BY <2>0, <3>2
    <3> QED BY <3>1, <3>5, <3>6, <3>7
  <2>4. CASE WriteDone
    <3>1. outcome = "none" /\ outcome' = "ok" /\ wire' = Append(wire, DONE) /\ metaSent' = metaSent
          /\ DONE \in Frames(delivered) /\ delivered' = delivered
      BY <2>4, Writes DEF WriteDone
    <3>2. /\ Len(wire') = Len(wire) + 1 /\ wire'[Len(wire) + 1] = DONE /\ Audio' = Audio
          /\ Streamed' = Streamed /\ \A k \in 1..Len(wire) : wire'[k] = wire[k]
      BY <3>1, WriteFacts
    <3>3. DONE # META /\ (metaSent => Len(wire) > 0)
      BY FrameFacts, TcpFacts DEF Dealt
    <3>4. \A k \in 1..Len(wire') : /\ wire'[k] = META <=> k = 1 /\ metaSent'
                                   /\ wire'[k] = DONE <=> k = Len(wire') /\ outcome' = "ok"
      BY <2>0, <2>a, <3>1, <3>2, <3>3
    <3>5. \A k \in Audio : wire'[k] = wire[k]
      BY <2>a, <3>2
    <3>6. {wire'[k] : k \in Audio'} = {wire[k] : k \in Audio}
      BY <3>2, <3>5
    <3> QED BY <2>0, <3>1, <3>2, <3>4, <3>5, <3>6
  <2>5. CASE WritePcm
    <3>1. /\ outcome = "none" /\ outcome' = "none" /\ wire' = Append(wire, PCMS(delivered))
          /\ metaSent' = metaSent /\ metaSent /\ delivered' = delivered
          /\ PCMS(delivered) \in Frames(delivered)
          /\ delivered = Streamed + 1 /\ delivered \notin Bad
      BY <2>5, Writes, TcpFacts DEF WritePcm, PlaceOK
    <3>2. PCMS(delivered) # META /\ PCMS(delivered) # DONE /\ PCMS(delivered)[2] = delivered
      BY <2>a, FrameFacts
    <3>3. /\ Len(wire') = Len(wire) + 1 /\ wire'[Len(wire) + 1] = PCMS(delivered)
          /\ Audio' = Audio \cup {Len(wire) + 1}
          /\ Streamed' = Streamed + 1 /\ \A k \in 1..Len(wire) : wire'[k] = wire[k]
      BY <3>1, <3>2, WriteFacts
    <3>4. Len(wire) > 0
      BY <3>1, TcpFacts DEF Dealt
    <3>5. \A k \in 1..Len(wire') : /\ wire'[k] = META <=> k = 1 /\ metaSent'
                                   /\ wire'[k] = DONE <=> k = Len(wire') /\ outcome' = "ok"
      BY <2>0, <2>a, <3>1, <3>2, <3>3, <3>4
    <3>6. \A k \in Audio : wire'[k] = wire[k] /\ k < Len(wire) + 1
      BY <2>a, <3>3
    <3>7. {wire'[k] : k \in Audio'} = {wire[k] : k \in Audio} \cup {PCMS(delivered)}
      BY <3>3, <3>6
    <3>8. (1..Streamed') \ Bad = ((1..Streamed) \ Bad) \cup {delivered}
      BY <2>a, <3>1, <3>3
    <3>9. {PCMS(i) : i \in (1..Streamed') \ Bad} = {PCMS(i) : i \in (1..Streamed) \ Bad} \cup {PCMS(delivered)}
      BY <3>8
    <3>10. \A k \in Audio : wire[k][2] < delivered
      <4> SUFFICES ASSUME NEW k \in Audio PROVE wire[k][2] < delivered
        OBVIOUS
      <4>1. PICK i \in (1..Streamed) \ Bad : wire[k] = PCMS(i)
        BY <2>0
      <4>2. wire[k][2] = i
        BY <4>1, FrameFacts
      <4> QED BY <2>a, <3>1, <4>2
    <3>11. \A j, k \in Audio' : j < k => wire'[j][2] < wire'[k][2]
      <4>1. wire'[Len(wire) + 1][2] = delivered
        BY <3>2, <3>3
      <4>2. ASSUME NEW j \in Audio', NEW k \in Audio', j < k
            PROVE  wire'[j][2] < wire'[k][2]
        <5>1. j \in Audio
          BY <2>a, <3>3, <3>6, <4>2
        <5>2. CASE k = Len(wire) + 1
          BY <3>6, <3>10, <4>1, <5>1, <5>2
        <5>3. CASE k \in Audio
          BY <2>0, <3>6, <4>2, <5>1, <5>3
        <5> QED BY <3>3, <5>2, <5>3
      <4> QED BY <4>2
    <3> QED BY <2>0, <3>1, <3>5, <3>7, <3>9, <3>11
  <2> QED BY <1>2, <2>1, <2>2, <2>3, <2>4, <2>5, Steps
<1> QED BY <1>1, <1>2

\* TcpInv holds in every state.
THEOREM TcpInvariant == TcpSpec => []TcpInv
<1>1. TcpInv /\ [TcpNext]_tcpVars => TcpInv'
  BY TcpJobInvNext, PlaceNext, DealtNext, ReplyNext DEF TcpInv
<1> QED BY TcpInitInv, <1>1, PTL DEF TcpSpec

\* Types: in no session does a channel exceed its bound, and only frames of the
\* protocol are written.
THEOREM TcpTypes == TcpSpec => []TcpTypeOK
<1>1. TcpInv => TcpTypeOK
  <2> SUFFICES ASSUME TcpInv PROVE TcpTypeOK
    OBVIOUS
  <2>1. Frames(delivered) = {META, DONE} \cup {PCMS(i) : i \in 1..delivered}
    BY DEF Frames
  <2> QED BY <2>1, TcpFacts DEF TcpTypeOK, JobInv, PlaceOK
<1> QED BY <1>1, TcpInvariant, PTL

\* For all capacities, numbers of sessions and decoders, the frames of a session are
\* the protocol's reply: META, the audio in order, each piece once and without the
\* decode errors, and DONE (tcp_handler.rs:129-151, 192-220).
THEOREM TcpReply == TcpSpec => []SessionReply
<1>1. TcpInv => SessionReply
  BY DEF TcpInv
<1> QED BY <1>1, TcpInvariant, PTL

----------------------------------------------------------------------------
(* The promise.                                                            *)

\* How far the session is, as Transcoder sees it.
Phase == IF wpc = "lost" THEN "failed"
         ELSE IF outcome # "none" THEN outcome
         ELSE IF eofSent THEN "ended" ELSE "open"

\* The decoder's side of the job stays as it is.
JobRests == UNCHANGED <<sent, decoded, produced, pend, pipe, wpc, eofSent>>

\* A step that only moves the handler on, or ends the session in failure.
LEMMA PromiseRests ==
  ASSUME TcpInv, JobRests, Streamed' = Streamed,
         outcome' = outcome \/ (outcome = "none" /\ outcome' = "failed")
  PROVE  [Promise!Next]_Promise!vars
<1>1. CASE outcome' = outcome \/ wpc = "lost"
  <2>1. Phase' = Phase
    BY <1>1 DEF Phase, JobRests
  <2> QED BY <2>1 DEF Promise!vars, Phase, JobRests
<1>2. CASE outcome' # outcome /\ wpc # "lost"
  <2>1. Phase \in {"open", "ended"} /\ Phase' = "failed"
    BY <1>2 DEF Phase, JobRests
  <2>2. Promise!Fail
    BY <2>1 DEF Promise!Fail, Phase, JobRests
  <2> QED BY <2>2 DEF Promise!Next
<1> QED BY <1>1, <1>2

\* A result is dealt with.
LEMMA PromiseStreams ==
  ASSUME TcpInv, JobRests, Streamed' = Streamed + 1, outcome = "none", outcome' = "none",
         wpc # "lost", Streamed \in Nat, Streamed < produced
  PROVE  Promise!Next
<1>1. Phase \in {"open", "ended"} /\ Phase' = Phase
  BY DEF Phase, JobRests
<1>2. Streamed < produced + pend
  BY TcpFacts
<1>3. Promise!Stream
  BY <1>1, <1>2 DEF Promise!Stream, Phase, JobRests
<1> QED BY <1>3 DEF Promise!Next

LEMMA PromiseBehind ==
  ASSUME TcpInv, BehindHandle(Backend)
  PROVE  [Promise!Next]_Promise!vars
<1>0. /\ JobInv /\ Fresh /\ PlaceOK /\ Backend
      /\ UNCHANGED <<wire, outcome, sent, eofSent, delivered, handle, tpc, session>> /\ session > 0
  BY BackendSteps DEF TcpInv, BehindHandle, clientVars
<1>1. Streamed' = Streamed
  BY <1>0, StreamedIs
<1>2. CASE (Decodes \/ Flushes) /\ wpc' = wpc /\ wpc # "lost"
  <2>1. Phase' = Phase
    BY <1>0, <1>2 DEF Phase
  <2>2. CASE Decodes
    <3>1. Promise!Consume
      BY <1>0, <1>1, <2>1, <2>2 DEF Promise!Consume, Decodes, Phase
    <3> QED BY <3>1 DEF Promise!Next
  <2>3. CASE Flushes
    <3>1. Phase # "open"
      BY <1>0, <1>2, <2>3 DEF Flushes, Phase, PlaceOK, InSession, TcpPc
    <3>2. Promise!Flush
      BY <1>0, <1>1, <2>1, <2>3, <3>1 DEF Promise!Flush, Flushes, Phase
    <3> QED BY <3>2 DEF Promise!Next
  <2> QED BY <1>2, <2>2, <2>3
<1>3. CASE DecodesNothing
  <2>1. decoded' = decoded /\ produced' + pend' = produced + pend /\ (pipe' # "running") = (pipe # "running")
    BY <1>3 DEF DecodesNothing
  <2>2. CASE wpc' = "lost" /\ wpc # "lost" /\ outcome = "none"
    <3>1. Phase \in {"open", "ended"} /\ Phase' = "failed"
      BY <1>0, <2>2 DEF Phase
    <3>2. Promise!Fail
      BY <1>0, <1>1, <2>1, <3>1 DEF Promise!Fail, Phase
    <3> QED BY <3>2 DEF Promise!Next
  <2>3. CASE ~(wpc' = "lost" /\ wpc # "lost" /\ outcome = "none")
    <3>1. wpc = "lost" => wpc' = "lost"
      BY <1>0, BackendSteps
    <3>2. wpc' = "lost" /\ wpc # "lost" => outcome = "failed"
      BY <1>0, <2>3, BackendSteps DEF PlaceOK, Over
    <3>3. Phase' = Phase
      BY <1>0, <3>1, <3>2 DEF Phase
    <3> QED BY <1>0, <1>1, <2>1, <3>3 DEF Promise!vars, Phase
  <2> QED BY <2>2, <2>3
<1> QED BY <1>0, <1>2, <1>3, BackendSteps

\* The next session: a promise of its own, or the first.
LEMMA PromiseRenewed ==
  ASSUME TcpInv, FirstFrame
  PROVE  [Promise!Next]_Promise!vars
<1>0. /\ sent' = 0 /\ decoded' = 0 /\ produced' = 0 /\ pend' = 0 /\ Streamed' = 0
      /\ pipe' = "running" /\ wpc' = "queued" /\ ~eofSent' /\ outcome' = "none" /\ tpc = "first"
  BY FirstFacts DEF FirstFrame, NewJob
<1>1. Phase' = "open"
  BY <1>0 DEF Phase
<1>2. CASE session > 0
  <2>1. Phase \in {"ok", "failed"}
    BY <1>0, <1>2, TcpFacts DEF PlaceOK, Phase
  <2>2. Promise!Renew
    BY <1>0, <1>1, <2>1 DEF Promise!Renew, Phase
  <2> QED BY <2>2 DEF Promise!Next
<1>3. CASE session = 0
  <2>1. /\ sent = 0 /\ delivered = 0 /\ decoded = 0 /\ produced = 0 /\ pend = 0
        /\ pipe = "running" /\ ~eofSent /\ wpc = "queued" /\ wire = <<>> /\ outcome = "none"
    BY <1>3, TcpFacts DEF Pristine, PlaceOK
  <2>2. Streamed = 0 /\ Phase = "open"
    BY <2>1, StreamedIs, NoFrames, BadCount DEF Phase
  <2> QED BY <1>0, <1>1, <2>1, <2>2 DEF Promise!vars, Phase
<1> QED BY <1>2, <1>3, TcpFacts DEF PlaceOK

LEMMA PromiseNext == TcpInv /\ [TcpNext]_tcpVars => [Promise!Next]_Promise!vars
<1> SUFFICES ASSUME TcpInv, [TcpNext]_tcpVars PROVE [Promise!Next]_Promise!vars
  OBVIOUS
<1>0. /\ JobInv /\ Fresh /\ PlaceOK /\ Dealt
      /\ delivered \in Nat /\ produced \in Nat /\ pend \in Nat /\ Streamed \in Nat
  BY TcpFacts
<1>1. CASE \/ PumpDry \/ FlushClosed \/ Unwind \/ PeerGone \/ NextFrame \/ Fails
           \/ (FeedDecoder /\ SendFails) \/ UNCHANGED tcpVars
  <2>1. delivered' = delivered /\ wire' = wire
    BY <1>1 DEF PumpDry, FlushClosed, Unwind, PeerGone, NextFrame, Fails, FeedDecoder, SendFails,
       DropBegin, DropEnd, tcpVars, jobVars, clientVars
  <2>2. Streamed' = Streamed
    BY <2>1, StreamedIs
  <2>3. JobRests
    BY <1>1 DEF PumpDry, FlushClosed, Unwind, PeerGone, NextFrame, Fails, SendFails,
       DropBegin, DropEnd, JobRests, tcpVars, jobVars, clientVars, workerVars, pipeVars
  <2>4. outcome' = outcome \/ (outcome = "none" /\ outcome' = "failed")
    BY <1>0, <1>1 DEF PumpDry, FlushClosed, Unwind, PeerGone, NextFrame, Fails, FeedDecoder, tcpVars,
       PlaceOK, InSession
  <2> QED BY <2>2, <2>3, <2>4, PromiseRests
<1>2. CASE FeedDecoder /\ SendChunk
  <2>1. Streamed' = Streamed /\ outcome' = outcome
    BY <1>2, StreamedIs DEF FeedDecoder, SendChunk
  <2>2. /\ sent' = sent + 1 /\ wpc # "lost" /\ outcome = "none" /\ ~eofSent
        /\ UNCHANGED <<decoded, produced, pend, pipe, wpc, eofSent>>
    BY <1>0, <1>2 DEF FeedDecoder, SendChunk, PlaceOK, InSession, Over, workerVars, pipeVars
  <2>3. Phase = "open" /\ Phase' = Phase
    BY <2>1, <2>2 DEF Phase
  <2>4. Promise!Accept
    BY <2>1, <2>2, <2>3 DEF Promise!Accept, Phase
  <2> QED BY <2>4 DEF Promise!Next
<1>3. CASE TakeOutput
  <2>1. JobRests /\ outcome' = outcome /\ outcome = "none" /\ handle # "dropped"
        /\ tpc \notin {"meta", "write"}
    BY <1>0, <1>3 DEF TakeOutput, Recv, JobRests, PlaceOK, InSession, workerVars, pipeVars
  <2>2. wpc # "lost" /\ delivered + 1 <= produced
    BY <1>0, <1>3, Received DEF TakeOutput
  <2>3. Streamed = delivered
    BY <1>0, <2>1 DEF Dealt
  <2>4. Streamed' = Streamed \/ Streamed' = Streamed + 1
    BY <1>3, TakeFacts
  <2>5. Streamed < produced
    BY <1>0, <2>2, <2>3
  <2> QED BY <1>0, <2>1, <2>2, <2>4, <2>5, PromiseRests, PromiseStreams
<1>4. CASE WriteMeta
  <2>1. JobRests /\ outcome' = outcome
    BY <1>4 DEF WriteMeta, JobRests, jobVars, clientVars, workerVars, pipeVars
  <2>2. Streamed' = Streamed
    BY <1>4, Writes, WriteFacts DEF WriteMeta
  <2> QED BY <2>1, <2>2, PromiseRests
<1>5. CASE WritePcm
  <2>1. JobRests /\ outcome' = outcome /\ outcome = "none" /\ handle # "dropped"
    BY <1>0, <1>5, Writes
       DEF WritePcm, JobRests, PlaceOK, InSession, jobVars, clientVars, workerVars, pipeVars
  <2>2. delivered <= produced /\ delivered = Streamed + 1
    BY <1>0, <1>5, <2>1, DeliveredBound, Writes
  <2>3. wpc # "lost" /\ Streamed < produced
    BY <1>0, <2>2 DEF Fresh
  <2>4. Streamed' = Streamed + 1
    <3>1. PCMS(delivered) \notin {META, DONE}
      BY <1>0, FrameFacts
    <3> QED BY <1>5, <3>1, Writes, WriteFacts DEF WritePcm
  <2> QED BY <1>0, <2>1, <2>3, <2>4, PromiseStreams
<1>6. CASE SignalEof
  <2>1. Streamed' = Streamed /\ outcome' = outcome
    BY <1>6, StreamedIs DEF SignalEof, SendEof
  <2>2. /\ eofSent' /\ ~eofSent /\ outcome = "none"
        /\ UNCHANGED <<sent, decoded, produced, pend, pipe, wpc>>
    BY <1>0, <1>6 DEF SignalEof, SendEof, PlaceOK, InSession, workerVars, pipeVars
  <2>3. CASE wpc = "lost"
    <3>1. Phase' = Phase
      BY <2>2, <2>3 DEF Phase
    <3> QED BY <2>1, <2>2, <3>1 DEF Promise!vars, Phase
  <2>4. CASE wpc # "lost"
    <3>1. Phase = "open" /\ Phase' = "ended"
      BY <2>1, <2>2, <2>4 DEF Phase
    <3>2. Promise!CloseInput
      BY <2>1, <2>2, <3>1 DEF Promise!CloseInput, Phase
    <3> QED BY <3>2 DEF Promise!Next
  <2> QED BY <2>3, <2>4
<1>7. CASE WriteDone
  <2>1. JobRests /\ outcome = "none" /\ outcome' = "ok" /\ tpc = "done"
    BY <1>7, Writes DEF WriteDone, JobRests, jobVars, clientVars, workerVars, pipeVars
  <2>2. Streamed' = Streamed
    BY <1>7, Writes, WriteFacts DEF WriteDone
  <2>3. CASE wpc = "lost"
    <3>1. Phase' = Phase
      BY <2>1, <2>3 DEF Phase, JobRests
    <3> QED BY <2>1, <2>2, <3>1 DEF Promise!vars, Phase, JobRests
  <2>4. CASE wpc # "lost"
    <3>1. handle = "live" /\ Closed /\ Streamed = delivered
      BY <1>0, <2>1 DEF PlaceOK, InSession, Dealt
    <3>2. pipe # "running" /\ Streamed = produced + pend
      BY <1>0, <2>4, <3>1, ClosedIsAll
    <3>3. eofSent
      BY <1>0, <3>1, <3>2 DEF JobInv, EofAccounted
    <3>4. Phase = "ended" /\ Phase' = "ok"
      BY <2>1, <2>4, <3>3 DEF Phase, JobRests
    <3>5. Promise!Complete
      BY <2>1, <2>2, <3>2, <3>4 DEF Promise!Complete, Phase, JobRests
    <3> QED BY <3>5 DEF Promise!Next
  <2> QED BY <2>3, <2>4
<1>8. CASE FirstFrame
  BY <1>8, PromiseRenewed
<1>9. CASE BehindHandle(Backend)
  BY <1>9, PromiseBehind
<1> QED BY <1>1, <1>2, <1>3, <1>4, <1>5, <1>6, <1>7, <1>8, <1>9 DEF TcpNext, Handler, Peer, FeedDecoder

\* For all capacities, numbers of sessions and decoders, each session keeps the promise
\* of a decode request: DONE is written only when all its chunks have been decoded and
\* all their results written or left out as errors (tcp_handler.rs:129-151, 192-220).
THEOREM TcpKeepsPromise == TcpSpec => KeepsPromise
<1>1. TcpInit => Promise!Init
  <2> SUFFICES ASSUME TcpInit PROVE Promise!Init
    OBVIOUS
  <2>1. Streamed = 0
    <3>1. wire = <<>> /\ delivered = 0
      BY DEF TcpInit, JobInit
    <3> QED BY <3>1, StreamedIs, NoFrames, BadCount
  <2> QED BY <2>1 DEF TcpInit, JobInit, Promise!Init
<1> QED BY <1>1, PromiseNext, TcpInvariant, PTL DEF TcpSpec, KeepsPromise, Promise!Spec

----------------------------------------------------------------------------
(* Where a connection rests, and that its sessions come there.             *)

LEMMA TcpMotion == TcpSpec => []MotionInv
<1>1. TcpInit => MotionInv
  BY MotionInit DEF TcpInit
<1>2. TcpInv /\ MotionInv /\ [TcpNext]_tcpVars => MotionInv'
  BY TcpJobNext, MotionNext, NewJobMotion DEF TcpInv
<1> QED BY <1>1, <1>2, TcpInvariant, PTL DEF TcpSpec

LEMMA TcpRests ==
  ASSUME JobInv, MotionInv, PlaceOK
  PROVE  SessionRestsWhenDone
<1> SUFFICES ASSUME ~SessionCanMove
             PROVE  \/ tpc \in {"first", "closed"} /\ (session = 0 \/ Over)
                    \/ tpc = "frame" /\ (Over \/ (wpc = "push" /\ Len(output) = OutCap))
                    \/ Stuck \/ EofLost
                    \/ FeedBlocked /\ Burst > PipeOutCap
  BY DEF SessionRestsWhenDone
<1>1. /\ tpc \in {"first", "closed", "frame", "send", "eof", "flush", "unwind"}
      /\ session = 0 => tpc \in {"first", "closed"}
      /\ session # 0 => session > 0 /\ ~BackendCanMove
  BY DEF PlaceOK, TcpPc, SessionCanMove
<1>2. CASE session = 0
  BY <1>1, <1>2
<1>3. CASE session # 0 /\ tpc \in {"send", "eof"}
  BY <1>1, <1>3, BlockedSend DEF SessionCanMove, PlaceOK, InSession, Stuck
<1>4. CASE session # 0 /\ tpc = "frame"
  BY <1>1, <1>4, RestsAmidInput DEF PlaceOK, InSession
<1>5. CASE session # 0 /\ tpc \in {"first", "closed", "flush", "unwind"}
  <2>1. tpc \in {"flush", "unwind"} => ~Over
    BY <1>5 DEF SessionCanMove
  <2>2. (eofSent \/ handle # "live") /\ ~CanMove
    BY <1>1, <1>5, <2>1 DEF PlaceOK, InSession, SessionCanMove, CanMove
  <2>3. CASE Over
    BY <1>5, <2>1, <2>3
  <2>4. CASE ~Over
    <3>1. EofLost \/ (handle = "closing" /\ Wedged) \/ FeedBlocked
      BY <2>2, <2>4, RestIsKnown
    <3>2. handle = "closing" => tpc = "unwind"
      BY <1>1, <1>5 DEF PlaceOK, InSession
    <3> QED BY <3>1, <3>2, FeedBlockedBursts DEF Stuck
  <2> QED BY <2>3, <2>4
<1> QED BY <1>1, <1>2, <1>3, <1>4, <1>5

\* For all capacities, bursts and numbers of sessions, a connection in which nothing can
\* go on waits for its peer, is closed, or has its job at a known standstill.
THEOREM TcpRestsWhenDone == TcpSpec => []SessionRestsWhenDone
<1>1. TcpInv /\ MotionInv => SessionRestsWhenDone
  BY TcpRests DEF TcpInv
<1> QED BY <1>1, TcpInvariant, TcpMotion, PTL

LEMMA SessionEffortNext ==
  ASSUME TcpInv, [TcpNext]_tcpVars, tcpVars' # tcpVars, InputEnded, session' = session
  PROVE  SessionEffort' < SessionEffort
<1>0. JobInv /\ PlaceOK /\ JobInv'
  BY TcpJobInvNext DEF TcpInv
<1>1. Effort \in Nat /\ Effort' \in Nat
  BY <1>0, EffortTypes
<1>2. PlaceEffort(tpc) \in 0..6 /\ PlaceEffort(tpc') \in 0..6
  BY DEF PlaceEffort
<1>3. tpc \in {"meta", "write", "flush", "done", "unwind", "first", "closed"}
  BY <1>0 DEF PlaceOK, TcpPc, InSession, InputEnded
<1>4. CASE WriteMeta \/ WritePcm \/ FlushClosed \/ WriteDone \/ Fails \/ PeerGone
  <2>1. UNCHANGED jobVars
    BY <1>4 DEF WriteMeta, WritePcm, FlushClosed, WriteDone, Fails, PeerGone
  <2>2. Effort' = Effort
    BY <2>1 DEF jobVars, clientVars, workerVars, pipeVars, Effort
  <2>3. PlaceEffort(tpc') < PlaceEffort(tpc)
    BY <1>0, <1>3, <1>4 DEF PlaceEffort, WriteMeta, WritePcm, FlushClosed, WriteDone, Fails, PeerGone,
       PlaceOK, InSession, InputEnded
  <2> QED BY <1>1, <1>2, <2>2, <2>3 DEF SessionEffort
<1>5. CASE TakeOutput \/ Unwind \/ BehindHandle(Backend)
  <2>1. JobNext
    BY <1>5 DEF TakeOutput, Unwind, BehindHandle, JobNext, Client
  <2>2. Effort' < Effort
    BY <1>0, <2>1, EffortNext
  <2>3. PlaceEffort(tpc') <= PlaceEffort(tpc) + 2
    BY <1>3, <1>5 DEF PlaceEffort, TakeOutput, Unwind, BehindHandle
  <2> QED BY <1>1, <1>2, <2>2, <2>3 DEF SessionEffort
<1>6. ~(FeedDecoder \/ PumpDry \/ SignalEof \/ NextFrame)
  BY <1>3 DEF FeedDecoder, PumpDry, SignalEof, NextFrame
<1>7. ~FirstFrame
  BY <1>0 DEF FirstFrame, PlaceOK
<1> QED BY <1>4, <1>5, <1>6, <1>7 DEF TcpNext, Handler, Peer

\* For all capacities, bursts and numbers of sessions, a session whose input has ended
\* takes at most SessionEffort steps more (tcp_handler.rs:192-228).
THEOREM TcpEffortFalls == TcpSpec => SessionEffortFalls
<1>1. TcpInv /\ [TcpNext]_tcpVars =>
        [InputEnded /\ session' = session => SessionEffort' < SessionEffort]_tcpVars
  BY SessionEffortNext
<1> QED BY <1>1, TcpInvariant, PTL DEF TcpSpec, SessionEffortFalls
=============================================================================
