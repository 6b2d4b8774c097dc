----------------------------- MODULE TcpDecode ------------------------------
(***************************************************************************)
(* One connection of the framed TCP protocol, TcpDecodeServer::            *)
(* handle_decode_stream (src/src/tcp_handler.rs lines 91-224): sessions    *)
(* one after another, each with a decode job of its own.                   *)
(*                                                                         *)
(* Frames come from the peer through tcp_changes' read_frame, which also   *)
(* reports the end of the connection or an error; write_frame succeeds or  *)
(* fails.  The variables of PooledDecoder are those of the session's job;  *)
(* a job whose handle is gone goes on by itself and is not followed.       *)
(***************************************************************************)
EXTENDS PooledDecoder, FiniteSets

CONSTANTS
  Bad,         \* the numbers of the results that are decode errors
  MaxSessions  \* bound on the sessions of a connection

ASSUME TcpAssumption ==
  Bad \subseteq Nat \ {0} /\ IsFiniteSet(Bad) /\ MaxSessions \in Nat

VARIABLES
  tpc,      \* where the handler is
  session,  \* sessions begun
  metaSent, \* first_meta_sent
  wire,     \* frames written in this session
  outcome   \* of this session: "none", "ok" (DONE written) or "failed"

tcpVars == <<jobVars, tpc, session, metaSent, wire, outcome>>

TcpPc == {"first", "send", "pump", "frame", "meta", "write", "eof",
          "flush", "done", "unwind", "closed"}

\* frames the server writes; a PCMS frame carries the number of its result
META == <<"META", 0>>
PCMS(i) == <<"PCMS", i>>
DONE == <<"DONE", 0>>

\* Before the first session there is no handle: nothing is left to drop.
TcpInit ==
  /\ JobInit /\ tpc = "first" /\ session = 0 /\ metaSent = FALSE /\ wire = <<>>
  /\ outcome = "none"

----------------------------------------------------------------------------
(* Faults.                                                                 *)

\* first_meta_sent outlives its session
AcquireKeepsMeta ==
  /\ tpc = "first" /\ session < MaxSessions
  /\ session' = session + 1
  /\ NewJob /\ wire' = <<>> /\ outcome' = "none"
  /\ tpc' \in {"send", "eof"} /\ UNCHANGED metaSent

\* the flush loop uses try_recv and takes an empty channel for the end
FlushEndsAtNone ==
  /\ tpc = "flush" /\ output = <<>>
  /\ tpc' = "done"
  /\ UNCHANGED <<jobVars, session, metaSent, wire, outcome>>

\* the end of a session is not passed on to the decoder
SignalEofMissing ==
  /\ tpc = "eof"
  /\ tpc' = "flush"
  /\ UNCHANGED <<jobVars, session, metaSent, wire, outcome>>

----------------------------------------------------------------------------

\* The first frame of a session.  DCOD acquires a decoder, with data to feed or,
\* empty, with the end of input; any other tag is skipped.
FirstFrame ==
  /\ tpc = "first" /\ session < MaxSessions
  /\ session' = session + 1
  /\ NewJob /\ metaSent' = FALSE /\ wire' = <<>> /\ outcome' = "none"
  /\ tpc' \in {"send", "eof"}

\* No frame, as the peer has closed the connection or reading it fails; or no
\* decoder, as the pool is shut down.
PeerGone ==
  /\ tpc = "first"
  /\ tpc' = "closed"
  /\ UNCHANGED <<jobVars, session, metaSent, wire, outcome>>

\* decoder.send(frame.data), blocking; an error ends the session's input
FeedDecoder ==
  /\ tpc = "send"
  /\ \/ SendChunk /\ tpc' = "pump"
     \/ SendFails /\ tpc' = "flush"
  /\ UNCHANGED <<session, metaSent, wire, outcome>>

\* A result from try_recv, or from the blocking recv of the flush loop: audio
\* is written, with the metadata ahead of the first; an error is only logged.
TakeOutput ==
  /\ tpc \in {"pump", "flush"} /\ Recv
  /\ tpc' = IF delivered' \in Bad THEN tpc ELSE IF metaSent THEN "write" ELSE "meta"
  /\ UNCHANGED <<session, metaSent, wire, outcome>>

PumpDry ==
  /\ tpc = "pump" /\ output = <<>>
  /\ tpc' = "frame"
  /\ UNCHANGED <<jobVars, session, metaSent, wire, outcome>>

WriteMeta ==
  /\ tpc = "meta"
  /\ wire' = Append(wire, META) /\ metaSent' = TRUE
  /\ tpc' = "write"
  /\ UNCHANGED <<jobVars, session, outcome>>

WritePcm ==
  /\ tpc = "write"
  /\ wire' = Append(wire, PCMS(delivered))
  /\ tpc' = IF eofSent THEN "flush" ELSE "pump"
  /\ UNCHANGED <<jobVars, session, metaSent, outcome>>

\* The next frame of the session: DCOD with data; a tag the server does not
\* know; or the end of input, which an empty DCOD, DONE and the end of the
\* connection signal alike.
NextFrame ==
  /\ tpc = "frame"
  /\ \/ tpc' = "send" /\ sent < MaxChunks
     \/ tpc' = "pump"
     \/ tpc' = "eof"
  /\ UNCHANGED <<jobVars, session, metaSent, wire, outcome>>

\* let _ = decoder.send(Bytes::new())
SignalEof ==
  /\ tpc = "eof" /\ SendEof
  /\ tpc' = "flush"
  /\ UNCHANGED <<session, metaSent, wire, outcome>>

\* recv gives None: the decoder has finished
FlushClosed ==
  /\ tpc = "flush" /\ Closed
  /\ tpc' = "done"
  /\ UNCHANGED <<jobVars, session, metaSent, wire, outcome>>

WriteDone ==
  /\ tpc = "done"
  /\ wire' = Append(wire, DONE) /\ outcome' = "ok"
  /\ tpc' = "unwind"
  /\ UNCHANGED <<jobVars, session, metaSent>>

\* read_frame or write_frame fails: the `?` leaves the handler
Fails ==
  /\ tpc \in {"frame", "meta", "write", "done"}
  /\ outcome' = "failed"
  /\ tpc' = "unwind"
  /\ UNCHANGED <<jobVars, session, metaSent, wire>>

\* The decoder goes out of scope at the end of its session.
Unwind ==
  /\ tpc = "unwind"
  /\ \/ DropBegin /\ UNCHANGED tpc
     \/ DropEnd /\ tpc' = IF outcome = "ok" THEN "first" ELSE "closed"
  /\ UNCHANGED <<session, metaSent, wire, outcome>>

Handler ==
  \/ FeedDecoder \/ TakeOutput \/ PumpDry \/ WriteMeta \/ WritePcm
  \/ SignalEof \/ FlushClosed \/ WriteDone \/ Unwind

Peer == FirstFrame \/ PeerGone \/ NextFrame \/ Fails

\* what goes on behind the handle, once there is one
BehindHandle(step) ==
  session > 0 /\ step /\ UNCHANGED <<tpc, session, metaSent, wire, outcome>>

TcpNext == Handler \/ Peer \/ BehindHandle(Backend)

TcpSpec == TcpInit /\ [][TcpNext]_tcpVars

\* The threads are scheduled and the handler's task is polled; the peer reads
\* what is written.  It need not ever send another frame.
FairTcpSpec ==
  /\ TcpSpec /\ WF_tcpVars(Handler)
  /\ WF_tcpVars(BehindHandle(Worker)) /\ WF_tcpVars(BehindHandle(Pipeline))

----------------------------------------------------------------------------
(* Properties.                                                             *)

TcpTypeOK ==
  /\ TypeOK /\ tpc \in TcpPc /\ session \in 0..MaxSessions /\ metaSent \in BOOLEAN
  /\ wire \in Seq({META, DONE} \cup {PCMS(i) : i \in 1..delivered})
  /\ outcome \in {"none", "ok", "failed"}

\* Where the audio is among the frames of the session, and the results the handler is
\* through with.
Audio == {k \in 1..Len(wire) : wire[k] \notin {META, DONE}}
Streamed == Cardinality(Audio) + Cardinality({i \in Bad : i <= delivered})

\* The protocol's answer to a session (tcp_handler.rs:14-18, 129-151): one META
\* ahead of the first PCMS and never another, then the session's audio in order
\* with the decode errors left out, then DONE; nothing of an earlier session.
SessionReply ==
  outcome # "failed" =>
    /\ \A k \in 1..Len(wire) : /\ wire[k] = META <=> k = 1 /\ metaSent
                               /\ wire[k] = DONE <=> k = Len(wire) /\ outcome = "ok"
    /\ {wire[k] : k \in Audio} = {PCMS(i) : i \in (1..Streamed) \ Bad}
    /\ \A j, k \in Audio : j < k => wire[j][2] < wire[k][2]
    /\ Audio # {} => metaSent

\* Each session whose job a worker takes up keeps the promise of Transcoder: DONE
\* means that all its chunks were decoded and all its results written
\* (tcp_handler.rs:192-220).
Promise == INSTANCE Transcoder WITH
  accepted <- sent, consumed <- decoded, results <- produced + pend,
  streamed <- Streamed, flushed <- pipe # "running",
  phase <- IF wpc = "lost" THEN "failed"
           ELSE IF outcome # "none" THEN outcome
           ELSE IF eofSent THEN "ended" ELSE "open"
KeepsPromise == Promise!Spec

\* A session whose end the peer has signalled, by an empty DCOD, DONE or closing
\* the connection, is answered or the connection given up (tcp_handler.rs:192-220),
\* unless its job is at a standstill.
Stuck == tpc \in {"send", "eof", "unwind"} /\ Wedged
SessionAnswered == tpc = "eof" ~> tpc \in {"first", "closed"} \/ Stuck \/ EofLost

\* The guards of what FairTcpSpec makes happen.
SessionCanMove ==
  \/ tpc \in {"pump", "meta", "write", "done"}
  \/ tpc \in {"send", "eof"} /\ (Over \/ Room)
  \/ tpc = "flush" /\ (output # <<>> \/ Over)
  \/ tpc = "unwind" /\ (handle = "live" \/ Over \/ Room)
  \/ session > 0 /\ BackendCanMove

\* When nothing can go on the connection waits for its peer, with the job over, or in
\* mid-session with as many results unread as the channel holds; or it is closed; or
\* its job is at a standstill (tcp_handler.rs:84-228, pool.rs:84-157).
SessionRestsWhenDone ==
  ~SessionCanMove =>
    \/ tpc \in {"first", "closed"} /\ (session = 0 \/ Over)
    \/ tpc = "frame" /\ (Over \/ (wpc = "push" /\ Len(output) = OutCap))
    \/ Stuck \/ EofLost
    \/ FeedBlocked /\ Burst > PipeOutCap

\* What is left of a session whose input has ended: the steps of its job, and those of
\* the handler between them, which are two for a result.
PlaceEffort(p) == CASE p = "meta" -> 6 [] p = "write" -> 5 [] p = "flush" -> 4 [] p = "done" -> 3
                    [] p = "unwind" -> 2 [] p = "first" -> 1 [] OTHER -> 0
SessionEffort == 3 * Effort + PlaceEffort(tpc)

\* From the end of its input on every step of a session uses up some of it
\* (tcp_handler.rs:192-228).
SessionEffortFalls ==
  [][InputEnded /\ session' = session => SessionEffort' < SessionEffort]_tcpVars
=============================================================================
