--------------------------- MODULE OptionRequests ---------------------------
(***************************************************************************)
(* The three ways the operators of Options are used: a query that grows by *)
(* a pair at a time, a gRPC call that goes on to its next segment, and a   *)
(* META frame for the audio format at hand.                                *)
(***************************************************************************)
EXTENDS Options

CONSTANTS
  Default,      \* the configured defaults
  Pairs,        \* the pairs a query is made of, whatever their key and value
  Targets,      \* the options a gRPC message may bring, three uint32
  Formats,      \* the formats of decoded audio
  MaxPairs,     \* bound on the pairs of a query
  MaxSegments   \* bound on the segments of a call

\* pairs with a key of the three or another; targets that are uint32; formats with
\* a rate of four bytes, channels and bits of one
ASSUME OptionsAssumption ==
  /\ U32Size \in Nat \ {0}
  /\ Default \in [Fields -> Int]
  /\ Pairs \subseteq [key : Fields \cup {"other"}, value : Int]
  /\ Targets \subseteq [Fields -> U32]
  /\ Formats \subseteq [rate : Nat, channels : U8, bits : U8, float : BOOLEAN]
  /\ \A f \in Formats : f.rate \div 256 < 256 * 256 * 256

VARIABLES query, call, given, format
vars == <<query, call, given, format>>

NoFormat == [rate |-> 0, channels |-> 0, bits |-> 16, float |-> FALSE]

Init == query = <<>> /\ call = Default /\ given = <<>> /\ format = NoFormat

AddPair ==
  /\ given = <<>> /\ format = NoFormat /\ Len(query) < MaxPairs
  /\ \E p \in Pairs : query' = Append(query, p)
  /\ UNCHANGED <<call, given, format>>

NextSegment ==
  /\ query = <<>> /\ format = NoFormat /\ Len(given) < MaxSegments
  /\ \E t \in Targets \cup {NoOptions} :
       given' = Append(given, t) /\ call' = SegmentOptions(call, t, Default)
  /\ UNCHANGED <<query, format>>

OtherFormat ==
  /\ query = <<>> /\ given = <<>>
  /\ \E f \in Formats : format' = f
  /\ UNCHANGED <<query, call, given>>

Next == AddPair \/ NextSegment \/ OtherFormat
Spec == Init /\ [][Next]_vars

Http == MergeOptions(ParseDecodeOptions(query), Default)

\* What a client may ask for, as the API documents it (README.md:38-40): bits are 16, 24
\* or 32, channels 1 to 16, and a rate is what 32 bits hold.
Legal == [rate |-> U32, bits |-> {16, 24, 32}, channels |-> 1..16]

\* Each target is the last legal value the query gives for it, and failing that the
\* configured default: a malformed value, or one out of the range of its field, neither
\* counts nor cancels an earlier one (decode.rs:13-35, router.rs:40-52).
LastAcceptableWins ==
  \A f \in Fields :
    LET fits == {i \in 1..Len(query) : query[i].key = f /\ query[i].value \in Legal[f]}
    IN  IF fits = {} THEN Http[f] = Default[f]
        ELSE \E i \in fits : Http[f] = query[i].value /\ \A j \in fits : j <= i

\* The metrics of a job that came over HTTP never divide by zero, whatever the
\* query, as long as the configured default allows it (pool.rs:165-168).
HttpMetricsDefined == MetricsDefined(Default) => MetricsDefined(Http)

\* What TcpDecode writes as META a client reads back (tcp_handler.rs:236-260).
MetaRoundTrip ==
  DecodeMeta(EncodeMeta(format.rate, format.channels, format.bits, format.float)) = format

\* A gRPC segment is decoded with the options last given, by whichever message;
\* a target they leave at 0 is the default's, never an earlier segment's, and one
\* they set is set but cut to the width of its field (grpc.rs:123-145).
Givers == {i \in 1..Len(given) : given[i] # NoOptions}
LastOptionsCount ==
  \A f \in Fields :
    IF Givers = {} THEN call[f] = Default[f]
    ELSE \E i \in Givers :
           /\ \A j \in Givers : j <= i
           /\ call[f] = IF given[i][f] = 0 THEN Default[f]
                        ELSE IF f = "rate" THEN given[i][f] ELSE given[i][f] % 256
=============================================================================
