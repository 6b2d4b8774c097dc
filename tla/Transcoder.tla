----------------------------- MODULE Transcoder -----------------------------
(***************************************************************************)
(* What a decode request promises its client, whichever protocol carries   *)
(* it: every chunk accepted is decoded, in order; every result is handed   *)
(* on, in order and once; and a request that ends well ends after the last *)
(* result of the last chunk.  A request may fail, but then it says so.     *)
(* HttpDecode and TcpDecode implement it.  GrpcDecode does not, as its     *)
(* drains may give up (GrpcDecode!DrainIsComplete).                        *)
(***************************************************************************)
EXTENDS Naturals

CONSTANTS Burst  \* most results one chunk, or the final flush, can yield

VARIABLES
  accepted,  \* chunks accepted from the client
  consumed,  \* chunks decoded
  results,   \* results those chunks yield
  streamed,  \* results dealt with: handed to the client, or skipped as errors
  flushed,   \* the decoder has taken the end of the input
  phase      \* "open", "ended" (no more input), "ok" or "failed"

vars == <<accepted, consumed, results, streamed, flushed, phase>>

Init ==
  /\ accepted = 0 /\ consumed = 0 /\ results = 0 /\ streamed = 0
  /\ flushed = FALSE /\ phase = "open"

Accept ==
  /\ phase = "open"
  /\ accepted' = accepted + 1
  /\ UNCHANGED <<consumed, results, streamed, flushed, phase>>

CloseInput ==
  /\ phase = "open"
  /\ phase' = "ended"
  /\ UNCHANGED <<accepted, consumed, results, streamed, flushed>>

Consume ==
  /\ ~flushed /\ consumed < accepted
  /\ consumed' = consumed + 1
  /\ \E n \in 0..Burst : results' = results + n
  /\ UNCHANGED <<accepted, streamed, flushed, phase>>

Flush ==
  /\ ~flushed /\ phase # "open" /\ consumed = accepted
  /\ flushed' = TRUE
  /\ \E n \in 0..Burst : results' = results + n
  /\ UNCHANGED <<accepted, consumed, streamed, phase>>

Stream ==
  /\ phase \in {"open", "ended"} /\ streamed < results
  /\ streamed' = streamed + 1
  /\ UNCHANGED <<accepted, consumed, results, flushed, phase>>

Complete ==
  /\ phase = "ended" /\ flushed /\ streamed = results
  /\ phase' = "ok"
  /\ UNCHANGED <<accepted, consumed, results, streamed, flushed>>

Fail ==
  /\ phase \in {"open", "ended"}
  /\ phase' = "failed"
  /\ UNCHANGED <<accepted, consumed, results, streamed, flushed>>

\* A request that is over may be followed by another on the same connection.
Renew ==
  /\ phase \in {"ok", "failed"}
  /\ accepted' = 0 /\ consumed' = 0 /\ results' = 0 /\ streamed' = 0
  /\ flushed' = FALSE /\ phase' = "open"

Next == Accept \/ CloseInput \/ Consume \/ Flush \/ Stream \/ Complete \/ Fail
        \/ Renew

Spec == Init /\ [][Next]_vars
=============================================================================
