------------------------------ MODULE Options -------------------------------
(***************************************************************************)
(* How the three protocols arrive at the options of a decode job, and the  *)
(* arithmetic that later depends on them: parse_decode_options (src/src/   *)
(* decode.rs lines 5-40), merge_options (src/src/router.rs lines 40-52),   *)
(* the options of a gRPC segment (src/src/grpc.rs lines 124-145), the      *)
(* metrics of process_job (src/src/pool.rs lines 163-171) and the META     *)
(* frame (src/src/tcp_handler.rs lines 236-260).                           *)
(*                                                                         *)
(* Options are a record of the three targets; None is an absent one.       *)
(***************************************************************************)
EXTENDS Integers, Sequences

CONSTANT U32Size      \* 2^32 in the code; lower for TLC, whose integers end before it

None == -1            \* Option::None
NotANumber == -2      \* a value that is no unsigned number, of whatever width

Fields == {"rate", "bits", "channels"}
NoOptions == [f \in Fields |-> None]

U8 == 0..255
U32 == 0..(U32Size - 1)

----------------------------------------------------------------------------
(* Faults.                                                                 *)

\* a rate of any size, as if it were parsed into a wider integer
AcceptableUnbounded(field, value) ==
  CASE field = "rate"     -> value >= 0
    [] field = "bits"     -> value \in U8 /\ value \in {16, 24, 32}
    [] field = "channels" -> value \in U8 /\ value > 0 /\ value <= 16
    [] OTHER              -> FALSE

\* a target of 0 keeps what the segment before had
SegmentOptionsMerge(current, targets, default) ==
  [f \in Fields |-> IF targets[f] <= 0 THEN current[f]
                    ELSE IF f = "rate" THEN targets[f] ELSE targets[f] % 256]

\* the sample rate in the machine's own, little-endian order
RateBytesLittle(rate) == [k \in 1..4 |-> (rate \div 256^(k - 1)) % 256]

----------------------------------------------------------------------------
(* HTTP: query parameters.  A pair has one of the three keys, whatever its  *)
(* spelling, or another one, which is ignored.                             *)

\* The arm of a key: its value must parse as the type of the field, u32 or u8, and pass
\* the check on it.
Acceptable(field, value) ==
  CASE field = "rate"     -> value \in U32
    [] field = "bits"     -> value \in U8 /\ value \in {16, 24, 32}
    [] field = "channels" -> value \in U8 /\ value > 0 /\ value <= 16
    [] OTHER              -> FALSE

TakePair(options, pair) ==
  IF Acceptable(pair.key, pair.value) THEN [options EXCEPT ![pair.key] = pair.value]
                                      ELSE options

ParseDecodeOptions(query) ==
  LET parsed[n \in 0..Len(query)] ==
        IF n = 0 THEN NoOptions ELSE TakePair(parsed[n - 1], query[n])
  IN  parsed[Len(query)]

\* query_options.x.or(self.config.default_x)
MergeOptions(query, default) ==
  [f \in Fields |-> IF query[f] # None THEN query[f] ELSE default[f]]

----------------------------------------------------------------------------
(* gRPC: three uint32 targets, of which two are narrowed to u8.            *)

Narrow(field, value) == IF field = "rate" THEN value ELSE value % 256

GrpcOptions(targets, default) ==
  [f \in Fields |-> IF targets[f] > 0 THEN Narrow(f, targets[f]) ELSE default[f]]

\* current_options after a message that starts a segment; targets is None for a
\* message without options
SegmentOptions(current, targets, default) ==
  IF targets = NoOptions THEN current ELSE GrpcOptions(targets, default)

----------------------------------------------------------------------------
(* The metrics at the end of a job.                                        *)

BytesPerSample(options) == (IF options.bits = None THEN 16 ELSE options.bits) \div 8

\* whether audio_ms is defined for a job that has produced audio
MetricsDefined(options) == BytesPerSample(options) # 0

----------------------------------------------------------------------------
(* META: sample rate in four bytes, big-endian, then channels, bits and    *)
(* encoding in one each.                                                   *)

RateBytes(rate) == [k \in 1..4 |-> (rate \div 256^(4 - k)) % 256]

EncodeMeta(rate, channels, bits, float) ==
  RateBytes(rate) \o <<channels, bits, IF float THEN 1 ELSE 0>>

\* NoOptions stands for decode_meta's None
DecodeMeta(data) ==
  IF Len(data) < 7 THEN NoOptions
  ELSE [rate |-> ((data[1] * 256 + data[2]) * 256 + data[3]) * 256 + data[4],
        channels |-> data[5], bits |-> data[6], float |-> data[7] = 1]
=============================================================================
