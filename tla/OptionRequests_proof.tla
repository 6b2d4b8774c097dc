------------------------ MODULE OptionRequests_proof ------------------------
(***************************************************************************)
(* Proofs about the options of a decode job: queries and gRPC calls of any *)
(* length, and META frames of every format.                                *)
(***************************************************************************)
EXTENDS OptionRequests, FiniteSetTheorems, SequenceTheorems, WellFoundedInduction, TLAPS

----------------------------------------------------------------------------
(* Induction on the naturals in a form the provers can instantiate, from   *)
(* the well-foundedness of the subset relation.                            *)

LEMMA LeastElement ==
  ASSUME NEW T \in SUBSET Nat, T # {}
  PROVE  \E x \in T : \A y \in T : x <= y
<1> DEFINE U == {1..n : n \in T}
<1>1. \A n \in T : IsFiniteSet(1..n) /\ 1..n \in SUBSET Nat
  BY FS_Interval
<1>2. U \subseteq FiniteSubsetsOf(Nat) /\ U # {}
  BY <1>1 DEF FiniteSubsetsOf
<1>3. \E X \in U : \A Y \in U : ~(<<Y, X>> \in StrictSubsetOrdering(Nat))
  <2>1. IsWellFoundedOn(StrictSubsetOrdering(Nat), FiniteSubsetsOf(Nat))
    BY FS_StrictSubsetOrderingWellFounded
  <2> HIDE DEF U
  <2> QED BY <1>2, <2>1, WFMin
<1>4. PICK x \in T : \A y \in T : ~(<<1..y, 1..x>> \in StrictSubsetOrdering(Nat))
  BY <1>3
<1>5. ASSUME NEW y \in T, y < x  PROVE FALSE
  <2>1. 1..y \subseteq 1..x /\ x \in 1..x /\ x \notin 1..y
    BY <1>5
  <2>2. 1..y # 1..x /\ 1..y \in SUBSET Nat /\ 1..x \in SUBSET Nat
    BY <2>1
  <2> QED BY <2>1, <2>2, <1>4 DEF StrictSubsetOrdering
<1> QED BY <1>5

LEMMA Induction ==
  ASSUME NEW S, 0 \in S, \A n \in Nat : n \in S => n + 1 \in S
  PROVE  Nat \subseteq S
<1> DEFINE T == Nat \ S
<1> SUFFICES ASSUME T # {} PROVE FALSE
  OBVIOUS
<1>1. PICK x \in T : \A y \in T : x <= y
  BY LeastElement
<1>2. x - 1 \in Nat /\ x - 1 \notin T
  BY <1>1
<1> QED BY <1>2

\* A function on 0..N may be defined by its first value and a step F[n] to each next.
LEMMA RecursiveFunction ==
  ASSUME NEW D, NEW c \in D, NEW N \in Nat, NEW F \in [1..N -> [D -> D]]
  PROVE  \E g \in [0..N -> D] : g[0] = c /\ \A n \in 1..N : g[n] = F[n][g[n - 1]]
<1> DEFINE UpTo(m, g) == g[0] = c /\ \A n \in 1..m : g[n] = F[n][g[n - 1]]
<1> DEFINE S == {m \in Nat : m <= N => \E g \in [0..m -> D] : UpTo(m, g)}
<1>1. 0 \in S
  <2> DEFINE g == [n \in 0..0 |-> c]
  <2>1. g \in [0..0 -> D] /\ UpTo(0, g)
    OBVIOUS
  <2> QED BY <2>1
<1>2. ASSUME NEW m \in Nat, m \in S, m + 1 <= N
      PROVE  \E g \in [0..(m + 1) -> D] : UpTo(m + 1, g)
  <2>1. PICK g \in [0..m -> D] : UpTo(m, g)
    BY <1>2
  <2> DEFINE h == [n \in 0..(m + 1) |-> IF n <= m THEN g[n] ELSE F[m + 1][g[m]]]
  <2>2. F[m + 1][g[m]] \in D
    BY <1>2
  <2>3. h \in [0..(m + 1) -> D]
    BY <2>2
  <2>4. ASSUME NEW n \in 1..(m + 1)  PROVE h[n] = F[n][h[n - 1]]
    <3>1. CASE n \in 1..m
      <4>1. h[n] = g[n] /\ h[n - 1] = g[n - 1]
        BY <3>1
      <4>2. g[n] = F[n][g[n - 1]]
        BY <3>1, <2>1
      <4> QED BY <4>1, <4>2
    <3>2. CASE n = m + 1
      BY <3>2
    <3> QED BY <3>1, <3>2
  <2>5. h[0] = c
    BY <2>1
  <2>6. UpTo(m + 1, h)
    <3> HIDE DEF h
    <3> QED BY <2>4, <2>5
  <2> QED BY <2>3, <2>6
<1>3. Nat \subseteq S
  <2> HIDE DEF UpTo
  <2>1. \A m \in Nat : m \in S => m + 1 \in S
    BY <1>2
  <2> HIDE DEF S
  <2> QED BY <1>1, <2>1, Induction
<1> QED BY <1>3

----------------------------------------------------------------------------
(* Queries of any length, whatever their keys and values.                  *)

KeyValues == [key : Fields \cup {"other"}, value : Int]
Options3 == [Fields -> Int]

\* The options after the first n pairs of a query.
Parsed(q) ==
  CHOOSE parsed :
    parsed = [n \in 0..Len(q) |-> IF n = 0 THEN NoOptions ELSE TakePair(parsed[n - 1], q[n])]

LEMMA TakePairType ==
  ASSUME NEW o \in Options3, NEW p \in KeyValues
  PROVE  TakePair(o, p) \in Options3
BY DEF TakePair, Options3, KeyValues

LEMMA ParsedUnfolds ==
  ASSUME NEW q \in Seq(KeyValues)
  PROVE  /\ Parsed(q) \in [0..Len(q) -> Options3]
         /\ Parsed(q)[0] = NoOptions
         /\ \A n \in 1..Len(q) : Parsed(q)[n] = TakePair(Parsed(q)[n - 1], q[n])
         /\ ParseDecodeOptions(q) = Parsed(q)[Len(q)]
<1> DEFINE N == Len(q)
           Body(g) == [n \in 0..N |-> IF n = 0 THEN NoOptions ELSE TakePair(g[n - 1], q[n])]
           F == [n \in 1..N |-> [o \in Options3 |-> TakePair(o, q[n])]]
<1>1. N \in Nat /\ \A n \in 1..N : q[n] \in KeyValues
  OBVIOUS
<1>2. NoOptions \in Options3
  BY DEF NoOptions, Options3, None
<1>3. F \in [1..N -> [Options3 -> Options3]]
  BY <1>1, TakePairType
<1>4. PICK g \in [0..N -> Options3] : g[0] = NoOptions /\ \A n \in 1..N : g[n] = F[n][g[n - 1]]
  <2> HIDE DEF F, N
  <2>1. N \in Nat
    BY <1>1
  <2> QED BY <2>1, <1>2, <1>3, RecursiveFunction
<1>5. \A n \in 1..N : F[n][g[n - 1]] = TakePair(g[n - 1], q[n])
  <2> SUFFICES ASSUME NEW n \in 1..N  PROVE F[n][g[n - 1]] = TakePair(g[n - 1], q[n])
    OBVIOUS
  <2>1. g[n - 1] \in Options3
    BY <1>1
  <2> QED BY <2>1
<1>6. g = Body(g)
  <2> HIDE DEF F
  <2>1. \A n \in 0..N : g[n] = Body(g)[n]
    BY <1>1, <1>4, <1>5
  <2> QED BY <2>1
<1>7. Parsed(q) = Body(Parsed(q))
  <2>1. \E h : h = Body(h)
    BY <1>6
  <2> QED BY <2>1 DEF Parsed
<1>8. /\ Parsed(q)[0] = NoOptions
      /\ \A n \in 1..N : Parsed(q)[n] = TakePair(Parsed(q)[n - 1], q[n])
  BY <1>1, <1>7
<1>9. \A n \in Nat : n <= N => Parsed(q)[n] \in Options3
  <2> DEFINE S == {n \in Nat : n <= N => Parsed(q)[n] \in Options3}
  <2>1. 0 \in S
    BY <1>2, <1>8
  <2>2. \A n \in Nat : n \in S => n + 1 \in S
    <3> SUFFICES ASSUME NEW n \in Nat, n \in S, n + 1 <= N  PROVE Parsed(q)[n + 1] \in Options3
      OBVIOUS
    <3>1. n + 1 \in 1..N /\ Parsed(q)[n] \in Options3
      BY <1>1
    <3>2. Parsed(q)[n + 1] = TakePair(Parsed(q)[n], q[n + 1])
      BY <3>1, <1>8
    <3> QED BY <3>1, <3>2, <1>1, TakePairType
  <2>3. Nat \subseteq S
    <3> HIDE DEF S
    <3> QED BY <2>1, <2>2, Induction
  <2> QED BY <2>3
<1>10. Parsed(q) \in [0..N -> Options3]
  BY <1>1, <1>7, <1>9
<1>11. ParseDecodeOptions(q) = Parsed(q)[N]
  BY DEF ParseDecodeOptions, Parsed
<1> QED BY <1>8, <1>10, <1>11

\* The arm of a key, parsing and check together, takes what is legal for its field.
LEMMA AcceptableIsLegal ==
  ASSUME NEW f \in Fields, NEW v \in Int
  PROVE  Acceptable(f, v) <=> v \in Legal[f]
<1>1. CASE f = "rate"
  BY <1>1 DEF Acceptable, Legal
<1>2. CASE f = "bits"
  BY <1>2 DEF Acceptable, Legal, U8
<1>3. CASE f = "channels"
  BY <1>3 DEF Acceptable, Legal, U8
<1> QED BY <1>1, <1>2, <1>3 DEF Fields

\* No legal value stands for an absent one.
LEMMA LegalIsSome ==
  ASSUME NEW f \in Fields, NEW v \in Legal[f]
  PROVE  v # None
<1>1. CASE f = "rate"
  BY <1>1, OptionsAssumption DEF Legal, U32, None
<1>2. CASE f = "bits"
  BY <1>2 DEF Legal, None
<1>3. CASE f = "channels"
  BY <1>3 DEF Legal, None
<1> QED BY <1>1, <1>2, <1>3 DEF Fields

\* What the parser has for a target after n pairs: nothing, or the last value it took.
Fits(q, n, f) == {i \in 1..n : q[i].key = f /\ q[i].value \in Legal[f]}
LastFit(q, n) ==
  \A f \in Fields :
    IF Fits(q, n, f) = {} THEN Parsed(q)[n][f] = None
    ELSE \E i \in Fits(q, n, f) : /\ Parsed(q)[n][f] = q[i].value
                                       /\ \A j \in Fits(q, n, f) : j <= i

LEMMA FitsGrow ==
  ASSUME NEW q \in Seq(KeyValues), NEW n \in Nat, n + 1 <= Len(q), NEW f \in Fields
  PROVE  Fits(q, n + 1, f) = IF q[n + 1].key = f /\ q[n + 1].value \in Legal[f]
                             THEN Fits(q, n, f) \cup {n + 1} ELSE Fits(q, n, f)
BY DEF Fits

LEMMA LastFitStep ==
  ASSUME NEW q \in Seq(KeyValues), NEW n \in Nat, n + 1 <= Len(q), LastFit(q, n)
  PROVE  LastFit(q, n + 1)
<1> DEFINE p == q[n + 1]
           o == Parsed(q)[n]
<1>1. p \in KeyValues /\ o \in Options3 /\ Parsed(q)[n + 1] = TakePair(o, p)
  BY ParsedUnfolds
<1> SUFFICES ASSUME NEW f \in Fields
             PROVE  IF Fits(q, n + 1, f) = {} THEN Parsed(q)[n + 1][f] = None
                    ELSE \E i \in Fits(q, n + 1, f) :
                           /\ Parsed(q)[n + 1][f] = q[i].value
                           /\ \A j \in Fits(q, n + 1, f) : j <= i
  BY DEF LastFit
<1>2. CASE p.key = f /\ p.value \in Legal[f]
  <2>1. Parsed(q)[n + 1][f] = p.value
    <3>1. Acceptable(p.key, p.value)
      BY <1>1, <1>2, AcceptableIsLegal DEF KeyValues
    <3> QED BY <1>1, <1>2, <3>1 DEF TakePair, Options3
  <2>2. Fits(q, n + 1, f) = Fits(q, n, f) \cup {n + 1}
    BY <1>2, FitsGrow
  <2>3. \A j \in Fits(q, n, f) : j <= n + 1
    BY DEF Fits
  <2> QED BY <2>1, <2>2, <2>3
<1>3. CASE ~(p.key = f /\ p.value \in Legal[f])
  <2>1. Parsed(q)[n + 1][f] = o[f]
    <3>1. p.key = f => ~Acceptable(p.key, p.value)
      BY <1>1, <1>3, AcceptableIsLegal DEF KeyValues
    <3> QED BY <1>1, <3>1 DEF TakePair, Options3
  <2>2. Fits(q, n + 1, f) = Fits(q, n, f)
    BY <1>3, FitsGrow
  <2> QED BY <2>1, <2>2 DEF LastFit
<1> QED BY <1>2, <1>3

LEMMA LastFitAll ==
  ASSUME NEW q \in Seq(KeyValues)
  PROVE  LastFit(q, Len(q))
<1> DEFINE S == {n \in Nat : n <= Len(q) => LastFit(q, n)}
<1>1. 0 \in S
  <2>1. \A f \in Fields : Fits(q, 0, f) = {} /\ Parsed(q)[0][f] = None
    BY ParsedUnfolds DEF Fits, NoOptions
  <2> QED BY <2>1 DEF LastFit
<1>2. \A n \in Nat : n \in S => n + 1 \in S
  BY LastFitStep
<1>3. Nat \subseteq S
  <2> HIDE DEF S
  <2> QED BY <1>1, <1>2, Induction
<1> QED BY <1>3

\* parse_decode_options and merge_options for every query and all defaults: a target is
\* the last value given for it that is legal (bits 16, 24 or 32, channels 1 to 16, a rate
\* below 2^32), or else the default (decode.rs:4-40, router.rs:40-52).
THEOREM LastGivenOrDefault ==
  ASSUME NEW q \in Seq(KeyValues), NEW default, NEW f \in Fields
  PROVE  LET http == MergeOptions(ParseDecodeOptions(q), default)
             fits == {i \in 1..Len(q) : q[i].key = f /\ q[i].value \in Legal[f]}
         IN  IF fits = {} THEN http[f] = default[f]
             ELSE \E i \in fits : http[f] = q[i].value /\ \A j \in fits : j <= i
<1> DEFINE o == Parsed(q)[Len(q)]
<1>1. ParseDecodeOptions(q) = o
  BY ParsedUnfolds
<1>2. MergeOptions(o, default)[f] = IF o[f] # None THEN o[f] ELSE default[f]
  BY DEF MergeOptions
<1>3. \A i \in Fits(q, Len(q), f) : q[i].value # None
  BY LegalIsSome DEF Fits
<1>4. CASE Fits(q, Len(q), f) = {}
  BY <1>1, <1>2, <1>4, LastFitAll DEF LastFit, Fits
<1>5. CASE Fits(q, Len(q), f) # {}
  <2>1. PICK i \in Fits(q, Len(q), f) : o[f] = q[i].value /\ \A j \in Fits(q, Len(q), f) : j <= i
    BY <1>5, LastFitAll DEF LastFit
  <2> HIDE DEF o
  <2>2. MergeOptions(ParseDecodeOptions(q), default)[f] = q[i].value
    BY <1>1, <1>2, <1>3, <2>1
  <2> QED BY <2>1, <2>2, <1>5 DEF Fits
<1> QED BY <1>4, <1>5

----------------------------------------------------------------------------
(* META.                                                                   *)

\* A number below 2^32 is put together again from its four bytes, highest first.
LEMMA FourBytes ==
  ASSUME NEW x \in Nat, x \div 256 < 256 * 256 * 256
  PROVE  LET b(k) == (x \div 256^(4 - k)) % 256
         IN  ((b(1) * 256 + b(2)) * 256 + b(3)) * 256 + b(4) = x
OBVIOUS

\* decode_meta takes apart what encode_meta writes, for every sample rate of 32 bits,
\* all channels and bits of a byte, integer or float (tcp_handler.rs:236-260).
THEOREM MetaReadsBack ==
  ASSUME NEW f \in [rate : Nat, channels : U8, bits : U8, float : BOOLEAN],
         f.rate \div 256 < 256 * 256 * 256
  PROVE  DecodeMeta(EncodeMeta(f.rate, f.channels, f.bits, f.float)) = f
<1> DEFINE data == EncodeMeta(f.rate, f.channels, f.bits, f.float)
           r == RateBytes(f.rate)
           b(k) == (f.rate \div 256^(4 - k)) % 256
<1>1. r \in Seq(Int) /\ Len(r) = 4 /\ ((r[1] * 256 + r[2]) * 256 + r[3]) * 256 + r[4] = f.rate
  <2>1. r = [k \in 1..4 |-> b(k)]
    BY DEF RateBytes
  <2>2. ((b(1) * 256 + b(2)) * 256 + b(3)) * 256 + b(4) = f.rate
    BY FourBytes
  <2>3. b(1) \in Int /\ b(2) \in Int /\ b(3) \in Int /\ b(4) \in Int
    OBVIOUS
  <2> HIDE DEF b, r
  <2>4. r[1] = b(1) /\ r[2] = b(2) /\ r[3] = b(3) /\ r[4] = b(4)
    BY <2>1
  <2>5. r \in [1..4 -> Int]
    <3>1. \A k \in 1..4 : b(k) \in Int
      BY <2>3
    <3> QED BY <3>1, <2>1
  <2>6. r \in Seq(Int)
    <3>1. [1..4 -> Int] \in {[1..n -> Int] : n \in Nat}
      OBVIOUS
    <3> QED BY <2>5, <3>1, SeqDef
  <2>7. Len(r) = 4
    <3>1. Len(r) \in Nat /\ r \in [1..Len(r) -> Int]
      BY <2>6, LenProperties
    <3>2. PICK n \in Nat : n = Len(r)
      BY <3>1
    <3>3. 1..n = 1..4
      BY <2>5, <3>1, <3>2
    <3>4. 4 \in 1..n /\ 5 \notin 1..n
      BY <3>3
    <3>5. n = 4
      BY <3>4
    <3> QED BY <3>2, <3>5
  <2> QED BY <2>2, <2>4, <2>6, <2>7
<1>2. /\ Len(data) = 7
      /\ \A k \in 1..4 : data[k] = r[k]
      /\ data[5] = f.channels /\ data[6] = f.bits /\ data[7] = IF f.float THEN 1 ELSE 0
  <2> DEFINE rest == <<f.channels, f.bits, IF f.float THEN 1 ELSE 0>>
  <2>1. rest \in Seq(Int) /\ Len(rest) = 3
    BY DEF U8
  <2>2. data = r \o rest
    BY DEF EncodeMeta
  <2>3. rest[1] = f.channels /\ rest[2] = f.bits /\ rest[3] = IF f.float THEN 1 ELSE 0
    OBVIOUS
  <2> HIDE DEF r, rest, data
  <2>4. /\ Len(r \o rest) = Len(r) + Len(rest)
        /\ \A k \in 1..(Len(r) + Len(rest)) :
             (r \o rest)[k] = IF k <= Len(r) THEN r[k] ELSE rest[k - Len(r)]
    <3>1. r \in Seq(Int) /\ rest \in Seq(Int)
      BY <1>1, <2>1
    <3> QED BY <3>1, ConcatProperties
  <2>5. Len(data) = 7 /\ \A k \in 1..7 : data[k] = IF k <= 4 THEN r[k] ELSE rest[k - 4]
    <3>1. Len(r) = 4 /\ Len(rest) = 3
      BY <1>1, <2>1
    <3> QED BY <2>2, <2>4, <3>1
  <2> QED BY <2>3, <2>5
<1> QED BY <1>1, <1>2 DEF DecodeMeta

----------------------------------------------------------------------------
(* The properties of the runs.                                             *)

RequestsInv ==
  /\ query \in Seq(Pairs)
  /\ given \in Seq([Fields -> Int])
  /\ format \in Formats \cup {NoFormat}
  /\ call \in [Fields -> Int]
  /\ LastOptionsCount

LEMMA TargetsType == Targets \subseteq [Fields -> Nat]
<1>1. U32 \subseteq Nat
  BY OptionsAssumption DEF U32
<1> QED BY <1>1, OptionsAssumption

LEMMA SegmentOptionsType ==
  ASSUME NEW current \in [Fields -> Int], NEW t \in [Fields -> Int], NEW d \in [Fields -> Int]
  PROVE  SegmentOptions(current, t, d) \in [Fields -> Int]
BY DEF SegmentOptions, GrpcOptions, Narrow

LEMMA RequestsInitInv == Init => RequestsInv
BY OptionsAssumption DEF Init, RequestsInv, LastOptionsCount, Givers

LEMMA LastOptionsNext ==
  ASSUME RequestsInv, NextSegment
  PROVE  LastOptionsCount'
<1> DEFINE n == Len(given) + 1
<1>1. PICK t \in Targets \cup {NoOptions} :
        given' = Append(given, t) /\ call' = SegmentOptions(call, t, Default)
  BY DEF NextSegment
<1>2. Len(given') = n /\ given'[n] = t /\ \A i \in 1..Len(given) : given'[i] = given[i]
  BY <1>1 DEF RequestsInv
<1>3. Len(given) \in Nat
  BY DEF RequestsInv
<1>4. CASE t = NoOptions
  <2>1. call' = call
    BY <1>1, <1>4 DEF SegmentOptions
  <2>2. Givers' = Givers
    BY <1>2, <1>3, <1>4 DEF Givers
  <2>3. \A i \in Givers : given'[i] = given[i]
    BY <1>2 DEF Givers
  <2> SUFFICES ASSUME NEW f \in Fields
               PROVE  IF Givers = {} THEN call[f] = Default[f]
                      ELSE \E i \in Givers :
                             /\ \A j \in Givers : j <= i
                             /\ call[f] = IF given'[i][f] = 0 THEN Default[f]
                                          ELSE IF f = "rate" THEN given'[i][f] ELSE given'[i][f] % 256
    BY <2>1, <2>2 DEF LastOptionsCount
  <2>4. CASE Givers = {}
    BY <2>4 DEF LastOptionsCount, RequestsInv
  <2>5. CASE Givers # {}
    <3>1. PICK i \in Givers : /\ \A j \in Givers : j <= i
                              /\ call[f] = IF given[i][f] = 0 THEN Default[f]
                                           ELSE IF f = "rate" THEN given[i][f] ELSE given[i][f] % 256
      BY <2>5 DEF LastOptionsCount, RequestsInv
    <3>2. given'[i] = given[i]
      BY <2>3
    <3> QED BY <2>5, <3>1, <3>2
  <2> QED BY <2>4, <2>5
<1>5. CASE t # NoOptions
  <2>1. n \in Givers' /\ \A j \in Givers' : j <= n
    BY <1>2, <1>3, <1>5 DEF Givers
  <2>2. t \in [Fields -> Nat] /\ call' = GrpcOptions(t, Default)
    BY <1>1, <1>5, TargetsType DEF SegmentOptions
  <2>3. \A f \in Fields : call'[f] = IF t[f] = 0 THEN Default[f]
                                     ELSE IF f = "rate" THEN t[f] ELSE t[f] % 256
    BY <2>2 DEF GrpcOptions, Narrow
  <2> HIDE DEF n
  <2> QED BY <2>1, <2>3, <1>2 DEF LastOptionsCount
<1> QED BY <1>4, <1>5

LEMMA RequestsNextInv == RequestsInv /\ [Next]_vars => RequestsInv'
<1> SUFFICES ASSUME RequestsInv, [Next]_vars  PROVE RequestsInv'
  OBVIOUS
<1>1. CASE AddPair
  <2>1. query' \in Seq(Pairs)
    BY <1>1 DEF AddPair, RequestsInv
  <2> QED BY <1>1, <2>1 DEF AddPair, RequestsInv, LastOptionsCount, Givers
<1>2. CASE NextSegment
  <2>1. PICK t \in Targets \cup {NoOptions} :
          given' = Append(given, t) /\ call' = SegmentOptions(call, t, Default)
    BY <1>2 DEF NextSegment
  <2>2. t \in [Fields -> Int] /\ Default \in [Fields -> Int]
    BY TargetsType, OptionsAssumption DEF NoOptions, None
  <2>3. given' \in Seq([Fields -> Int])
    BY <2>1, <2>2, AppendProperties DEF RequestsInv
  <2>4. call' \in [Fields -> Int]
    BY <2>1, <2>2, SegmentOptionsType DEF RequestsInv
  <2>5. LastOptionsCount'
    BY <1>2, LastOptionsNext
  <2> QED BY <1>2, <2>3, <2>4, <2>5 DEF NextSegment, RequestsInv
<1>3. CASE OtherFormat
  BY <1>3 DEF OtherFormat, RequestsInv, LastOptionsCount, Givers
<1>4. CASE UNCHANGED vars
  <2>1. LastOptionsCount' <=> LastOptionsCount
    BY <1>4 DEF vars, LastOptionsCount, Givers
  <2> QED BY <1>4, <2>1 DEF vars, RequestsInv
<1> QED BY <1>1, <1>2, <1>3, <1>4 DEF Next

LEMMA QueriesAreKeyValues == RequestsInv => query \in Seq(KeyValues)
BY OptionsAssumption, SeqMonotonic DEF RequestsInv, KeyValues

THEOREM RequestsInvariant == Spec => []RequestsInv
BY RequestsInitInv, RequestsNextInv, PTL DEF Spec

\* Each target of an HTTP request is the last legal value its query gives, or else the
\* default: none out of its field's range gets through (decode.rs:13-35, router.rs:40-52).
THEOREM HttpTakesTheLast == Spec => []LastAcceptableWins
<1>1. RequestsInv => LastAcceptableWins
  BY QueriesAreKeyValues, LastGivenOrDefault DEF LastAcceptableWins, Http
<1> QED BY <1>1, RequestsInvariant, PTL

\* No query makes the metrics of its job divide by zero (pool.rs:165-168).
THEOREM HttpNeverDividesByZero == Spec => []HttpMetricsDefined
<1>1. RequestsInv => HttpMetricsDefined
  <2> SUFFICES ASSUME RequestsInv, MetricsDefined(Default)  PROVE MetricsDefined(Http)
    BY DEF HttpMetricsDefined
  <2>1. Http["bits"] = Default["bits"] \/ Http["bits"] \in {16, 24, 32}
    <3>1. "bits" \in Fields
      BY DEF Fields
    <3>2. Legal["bits"] = {16, 24, 32}
      BY DEF Legal
    <3> QED BY <3>1, <3>2, QueriesAreKeyValues, LastGivenOrDefault DEF Http
  <2> QED BY <2>1, OptionsAssumption DEF MetricsDefined, BytesPerSample, None
<1> QED BY <1>1, RequestsInvariant, PTL

\* A gRPC segment has the options last given and the defaults for the rest
\* (grpc.rs:123-145).
THEOREM GrpcTakesTheLast == Spec => []LastOptionsCount
<1>1. RequestsInv => LastOptionsCount
  BY DEF RequestsInv
<1> QED BY <1>1, RequestsInvariant, PTL

\* A client reads back the format that META was written for (tcp_handler.rs:236-260).
THEOREM MetaIsFaithful == Spec => []MetaRoundTrip
<1>1. RequestsInv => MetaRoundTrip
  <2> SUFFICES ASSUME RequestsInv  PROVE MetaRoundTrip
    OBVIOUS
  <2>1. NoFormat \in [rate : Nat, channels : U8, bits : U8, float : BOOLEAN]
        /\ NoFormat.rate \div 256 < 256 * 256 * 256
    BY DEF NoFormat, U8
  <2>2. format \in [rate : Nat, channels : U8, bits : U8, float : BOOLEAN]
        /\ format.rate \div 256 < 256 * 256 * 256
    BY <2>1, OptionsAssumption DEF RequestsInv
  <2> QED BY <2>2, MetaReadsBack DEF MetaRoundTrip
<1> QED BY <1>1, RequestsInvariant, PTL
=============================================================================
