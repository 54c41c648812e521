------------------------- MODULE LinuxTCPInfoProofs --------------------------
(***************************************************************************)
(* The adaptation to the kernel version is exact and the query's buffer    *)
(* fits, for every set of kernel versions and any number of adaptations.   *)
(*                                                                         *)
(* The loop of adaptToKernelVersion goes from the newest row down and      *)
(* stops at the first match, so its result is exact only because the rows  *)
(* are sorted and the comparison is an order: the lemmas say so, and the   *)
(* loop invariant says what the rows passed so far have in common.         *)
(***************************************************************************)
EXTENDS LinuxTCPInfo, TLAPS

-----------------------------------------------------------------------------
(* CompareKernelVersion is a total order.                                  *)

\* CompareKernelVersion(a, b) = -CompareKernelVersion(b, a).
THEOREM CompareAntisymmetric ==
  ASSUME NEW a \in VersionInfo, NEW b \in VersionInfo
  PROVE  /\ CompareKernelVersion(a, b) = -CompareKernelVersion(b, a)
         /\ CompareKernelVersion(a, b) = 0 <=> a = b
BY DEF CompareKernelVersion, Sign, VersionInfo

\* A version that is at least one that is at least a third is at least that.
THEOREM AtLeastTransitive ==
  ASSUME NEW a \in VersionInfo, NEW b \in VersionInfo, NEW c \in VersionInfo,
         AtLeast(a, b), AtLeast(b, c)
  PROVE  AtLeast(a, c)
BY DEF AtLeast, CompareKernelVersion, Sign, VersionInfo

-----------------------------------------------------------------------------
(* The table.                                                              *)

\* The rows are versions with sizes between the base fields and the Go struct.
LEMMA RowTypes ==
  ASSUME NEW r \in Rows
  PROVE  /\ tcpInfoSizes[r].Version \in VersionInfo
         /\ tcpInfoSizes[r].Size \in BaseSize..StructSize
BY SMTT(30) DEF Rows, tcpInfoSizes, Row, Version, VersionInfo, BaseSize, StructSize

\* The table is sorted.
LEMMA RowsSorted ==
  ASSUME NEW r \in Rows, NEW s \in Rows, r <= s
  PROVE  AtLeast(tcpInfoSizes[s].Version, tcpInfoSizes[r].Version)
BY SMTT(30) DEF Rows, tcpInfoSizes, Row, Version, AtLeast, CompareKernelVersion, Sign

-----------------------------------------------------------------------------
(* The adaptation.                                                         *)

\* What adaptToKernelVersion relies on: the flags are Booleans, the rows passed
\* by the loop are newer than the kernel and unset, and when it is done the
\* flags are exact and a supported kernel has the size of its newest row.
AdaptInv ==
  /\ pc \in {"start", "loop", "ready", "raw", "alg", "cc", "returned"}
  /\ i \in 0..13 /\ flag \in [Rows -> BOOLEAN]
  /\ kernel \in VersionInfo /\ detected \in VersionInfo
  /\ sizeOfRawTCPInfo \in {0} \cup BaseSize..StructSize
  /\ pc = "loop" =>
       \A r \in Rows : r > i => ~flag[r] /\ ~AtLeast(detected, tcpInfoSizes[r].Version)
  /\ FlagsExact
  /\ pc \notin {"start", "loop"} /\ flag[1] =>
       /\ i \in Rows /\ flag[i] /\ sizeOfRawTCPInfo = tcpInfoSizes[i].Size
       /\ \A r \in Rows : r > i => ~flag[r]

\* The start-up state satisfies it, and every step of the adaptation and of the
\* query keeps it.
THEOREM AdaptCorrect == Spec => []AdaptInv
<1>1. Init => AdaptInv
  BY VersionsAssumption
  DEF Init, AdaptInv, FlagsExact, NoVersion, Version, VersionInfo, Rows
<1>2. AdaptInv /\ [Next]_vars => AdaptInv'
  <2> SUFFICES ASSUME AdaptInv, [Next]_vars PROVE AdaptInv'
    OBVIOUS
  <2> USE DEF environment, adaptation, call
  <2>1. CASE GetKernelVersion
    BY <2>1 DEF GetKernelVersion, AdaptInv, FlagsExact, Fallback, Version, VersionInfo, Rows
  <2>2. CASE AdaptFound
    <3>1. /\ i \in Rows /\ AtLeast(detected, tcpInfoSizes[i].Version)
          /\ UNCHANGED <<i, detected, kernel>> /\ pc' = "ready" /\ i \in 0..13
          /\ flag' = [r \in Rows |-> r <= i \/ flag[r]]
          /\ sizeOfRawTCPInfo' = tcpInfoSizes[i].Size
      BY <2>2 DEF AdaptFound, AdaptInv
    <3>2. sizeOfRawTCPInfo' \in BaseSize..StructSize
      BY <3>1, RowTypes
    <3>3. ASSUME NEW r \in Rows
          PROVE  flag'[r] <=> AtLeast(detected, tcpInfoSizes[r].Version)
      <4>1. CASE r <= i
        <5>1. AtLeast(tcpInfoSizes[i].Version, tcpInfoSizes[r].Version)
          BY <3>1, <4>1, RowsSorted
        <5>2. detected \in VersionInfo
          BY DEF AdaptInv
        <5>3. AtLeast(detected, tcpInfoSizes[r].Version)
          BY <3>1, <5>1, <5>2, RowTypes, AtLeastTransitive
        <5> QED
          BY <3>1, <4>1, <5>3
      <4>2. CASE r > i
        <5>1. flag'[r] = flag[r]
          BY <3>1, <4>2 DEF Rows, AdaptInv
        <5> QED
          BY <2>2, <4>2, <5>1 DEF AdaptFound, AdaptInv
      <4> QED
        BY <4>1, <4>2, <3>1 DEF Rows
    <3>4. flag' \in [Rows -> BOOLEAN]
      BY <3>1 DEF AdaptInv
    <3>5. flag'[i] /\ \A r \in Rows : r > i => ~flag'[r]
      BY <2>2, <3>1, <3>3 DEF AdaptFound, AdaptInv
    <3> QED
      BY <3>1, <3>2, <3>3, <3>4, <3>5 DEF AdaptInv, FlagsExact, BaseSize, StructSize
  <2>3. CASE AdaptNewer
    <3>1. /\ i \in Rows /\ ~AtLeast(detected, tcpInfoSizes[i].Version) /\ pc = "loop"
          /\ UNCHANGED <<detected, kernel, pc, sizeOfRawTCPInfo>> /\ i' = i - 1
          /\ flag' = [flag EXCEPT ![i] = FALSE]
      BY <2>3 DEF AdaptNewer
    <3>2. \A r \in Rows : r > i' => ~flag'[r] /\ ~AtLeast(detected, tcpInfoSizes[r].Version)
      BY <3>1 DEF AdaptInv, Rows
    <3> QED
      BY <3>1, <3>2 DEF AdaptInv, FlagsExact, Rows
  <2>4. CASE AdaptNone
    <3>1. \A r \in Rows : ~flag[r] /\ ~AtLeast(detected, tcpInfoSizes[r].Version)
      BY <2>4 DEF AdaptNone, AdaptInv, Rows
    <3> QED
      BY <2>4, <3>1 DEF AdaptNone, AdaptInv, FlagsExact, Rows
  <2>5. CASE Override
    BY <2>5 DEF Override, AdaptInv, FlagsExact
  <2>6. CASE Start
    BY <2>6 DEF Start, ReturnNil, Unchanged, AdaptInv, FlagsExact
  <2>7. CASE GetRawTCPInfo
    BY <2>7 DEF GetRawTCPInfo, ReturnNil, Unchanged, AdaptInv, FlagsExact
  <2>8. CASE GetTCPCongestionAlgorithm
    BY <2>8 DEF GetTCPCongestionAlgorithm, Return, Unchanged, AdaptInv, FlagsExact
  <2>9. CASE GetCCInfo
    BY <2>9 DEF GetCCInfo, Return, Unchanged, AdaptInv, FlagsExact
  <2>10. CASE Consume
    BY <2>10 DEF Consume, Unchanged, AdaptInv, FlagsExact
  <2>11. CASE UNCHANGED vars
    BY <2>11 DEF vars, AdaptInv, FlagsExact
  <2> QED
    BY <2>1, <2>2, <2>3, <2>4, <2>5, <2>6, <2>7, <2>8, <2>9, <2>10, <2>11
    DEF Next, Adapt, GetTCPInfo
<1> QED
  BY <1>1, <1>2, PTL DEF Spec

\* After every adaptation the flags say exactly which versions of the table the
\* detected kernel has reached.
THEOREM FlagsCorrect == Spec => []FlagsExact
BY AdaptCorrect, PTL DEF AdaptInv

-----------------------------------------------------------------------------
(* The query.                                                              *)

\* The places and rows in the table of fields.
LEMMA FieldTable ==
  ASSUME NEW f \in Fields
  PROVE  RawTCPInfo[f] \in
    {Field(112, 2), Field(120, 2), Field(128, 3), Field(136, 3), Field(140, 4),
     Field(144, 4), Field(148, 5), Field(152, 5), Field(156, 5), Field(160, 5),
     Field(8, 6), Field(168, 6), Field(176, 7), Field(184, 7), Field(192, 7),
     Field(196, 8), Field(200, 8), Field(208, 9), Field(216, 9), Field(220, 9),
     Field(224, 9), Field(228, 10), Field(232, 10), Field(8, 11), Field(236, 12),
     Field(240, 12), Field(242, 13), Field(244, 13), Field(248, 13)}
BY SMTT(30) DEF Fields, RawTCPInfo

\* Every nullable field was added, and is guarded, by a row of the table, and
\* the guard is not newer than the field.
LEMMA FieldRows ==
  ASSUME NEW f \in Fields
  PROVE  /\ RawTCPInfo[f].row \in Rows
         /\ Guard(f) \in Rows /\ 2 <= Guard(f) /\ Guard(f) <= RawTCPInfo[f].row
BY FieldTable DEF Field, Rows, Guard

\* From the row that added a counter on, the buffer has room for it.
LEMMA CounterRoom ==
  ASSUME NEW f \in Counters \ BaseCounters, NEW r \in Rows, r >= RawTCPInfo[f].row
  PROVE  f \in Fields /\ RawTCPInfo[f].end <= tcpInfoSizes[r].Size
<1>1. f \in {"bytes_retrans", "rcv_ooopack", "sndbuf_limited", "rwnd_limited"}
  BY DEF Counters, BaseCounters
<1>2. /\ f \in Fields /\ RawTCPInfo[f].end \in {184, 192, 216, 228}
      /\ RawTCPInfo[f].end <= 192 => RawTCPInfo[f].row = 7
      /\ RawTCPInfo[f].end = 216 => RawTCPInfo[f].row = 9
      /\ RawTCPInfo[f].end = 228 => RawTCPInfo[f].row = 10
  BY <1>1, SMTT(30) DEF Fields, RawTCPInfo, Field
<1> QED
  BY <1>2 DEF tcpInfoSizes, Row, Rows

\* The counters a query finds in the struct.
WrittenCounters ==
  {f \in counters : f \in BaseCounters \/ RawTCPInfo[f].end <= sizeOfRawTCPInfo}

\* What GetTCPInfo has established at each of its steps.
QueryInv ==
  /\ counters \subseteq {f \in Counters : HasCounter(f)}
  /\ pc \in {"raw", "alg", "cc"} => flag[1]
  /\ pc \in {"alg", "cc"} =>
       raw.room = sizeOfRawTCPInfo /\ raw.nonzero = WrittenCounters
  /\ pc = "cc" => ccAlg = alg
  /\ result.nil = FALSE =>
       /\ pc = "returned" /\ flag[1]
       /\ result.info.valid = {f \in Fields : flag[Guard(f)]}
       /\ result.info.nonzero = WrittenCounters
  /\ pc = "returned" /\ result.err = FALSE =>
       /\ result.nil = FALSE /\ result.info.alg = alg
       /\ alg \in Special => result.info.cc = alg
  /\ result.nil \in BOOLEAN /\ result.err \in BOOLEAN

\* Every step of the adaptation and of the query keeps it.
THEOREM QueryCorrect == Spec => []QueryInv
<1>1. Init => QueryInv
  BY DEF Init, QueryInv, NoResult
<1>2. AdaptInv /\ QueryInv /\ [Next]_vars => QueryInv'
  <2> SUFFICES ASSUME AdaptInv, QueryInv, [Next]_vars PROVE QueryInv'
    OBVIOUS
  <2> USE DEF environment, adaptation, call
  <2>0. ASSUME UNCHANGED <<kernel, counters>>
        PROVE  (counters \subseteq {f \in Counters : HasCounter(f)})'
    BY <2>0 DEF QueryInv, HasCounter, Has
  <2>1. ASSUME UNCHANGED <<kernel, counters, alg, call>>,
               pc' \in {"start", "loop", "ready"}, pc # "returned"
        PROVE  QueryInv'
    BY <2>0, <2>1 DEF QueryInv
  <2>2. CASE Adapt
    <3>1. UNCHANGED <<kernel, counters, alg, call>>
      BY <2>2 DEF Adapt, GetKernelVersion, AdaptFound, AdaptNewer, AdaptNone, Override
    <3>2. pc' \in {"start", "loop", "ready"} /\ pc # "returned"
      BY <2>2 DEF Adapt, GetKernelVersion, AdaptFound, AdaptNewer, AdaptNone, Override
    <3> QED
      BY <2>1, <3>1, <3>2
  <2>3. CASE Start
    <3>1. CASE flag[1]
      BY <2>0, <2>3, <3>1 DEF Start, Unchanged, QueryInv
    <3>2. CASE ~flag[1]
      <4>1. ReturnNil /\ Unchanged
        BY <2>3, <3>2 DEF Start
      <4> QED
        BY <2>0, <4>1 DEF ReturnNil, Unchanged, QueryInv
    <3> QED
      BY <3>1, <3>2
  <2>4. CASE GetRawTCPInfo
    <3>1. CASE ReturnNil
      BY <2>0, <2>4, <3>1 DEF GetRawTCPInfo, ReturnNil, Unchanged, QueryInv
    <3>2. CASE ~ReturnNil
      <4>1. raw' = [room |-> sizeOfRawTCPInfo, nonzero |-> WrittenCounters]
        BY <2>4, <3>2 DEF GetRawTCPInfo, WrittenCounters
      <4>2. WrittenCounters' = WrittenCounters
        BY <2>4 DEF GetRawTCPInfo, Unchanged, WrittenCounters
      <4> QED
        BY <2>0, <2>4, <3>2, <4>1, <4>2 DEF GetRawTCPInfo, Unchanged, QueryInv
    <3> QED
      BY <3>1, <3>2
  <2>5. ASSUME Unchanged, NEW a, NEW cc, NEW err \in BOOLEAN,
               pc \in {"alg", "cc"}, Return(Unpack(raw, a, cc), err),
               ~err => a = alg /\ (alg \in Special => cc = alg)
        PROVE  QueryInv'
    <3>1. /\ Unpack(raw, a, cc).valid = {f \in Fields : flag[Guard(f)]}
          /\ Unpack(raw, a, cc).nonzero = WrittenCounters
          /\ Unpack(raw, a, cc).alg = a /\ Unpack(raw, a, cc).cc = cc
      BY <2>5 DEF Unpack, QueryInv
    <3>2. /\ result'.info = Unpack(raw, a, cc) /\ result'.nil = FALSE
          /\ result'.err = err /\ pc' = "returned"
      BY <2>5 DEF Return
    <3>3. /\ WrittenCounters' = WrittenCounters
          /\ flag' = flag /\ alg' = alg /\ kernel' = kernel /\ counters' = counters
      BY <2>5 DEF Unchanged, WrittenCounters
    <3>4. flag[1]
      BY <2>5 DEF QueryInv
    <3> QED
      BY <2>0, <2>5, <3>1, <3>2, <3>3, <3>4 DEF QueryInv
  <2>6. CASE GetTCPCongestionAlgorithm
    <3>1. CASE Return(Unpack(raw, NoAlg, NoAlg), TRUE)
      BY <2>5, <2>6, <3>1 DEF GetTCPCongestionAlgorithm
    <3>2. CASE alg \notin Special /\ Return(Unpack(raw, alg, NoAlg), FALSE)
      BY <2>5, <2>6, <3>2 DEF GetTCPCongestionAlgorithm
    <3>3. CASE ccAlg' = alg /\ pc' = "cc" /\ UNCHANGED <<raw, result>>
      <4>1. WrittenCounters' = WrittenCounters
        BY <2>6 DEF GetTCPCongestionAlgorithm, Unchanged, WrittenCounters
      <4> QED
        BY <2>0, <2>6, <3>3, <4>1 DEF GetTCPCongestionAlgorithm, Unchanged, QueryInv
    <3> QED
      BY <2>6, <3>1, <3>2, <3>3 DEF GetTCPCongestionAlgorithm
  <2>7. CASE GetCCInfo
    <3>1. PICK answer \in CCInfoAnswers(CCInfoOption) :
            Return(Unpack(raw, ccAlg, IF answer = "info" THEN ccAlg ELSE NoAlg),
                   answer = "error")
      BY <2>7 DEF GetCCInfo
    <3>2. answer \in {"info", "error"} /\ ccAlg = alg /\ pc = "cc" /\ Unchanged
      BY <2>7 DEF CCInfoAnswers, GetCCInfo, QueryInv
    <3> QED
      BY <2>5, <3>1, <3>2
  <2>8. CASE Consume
    BY <2>0, <2>8 DEF Consume, Unchanged, QueryInv, NoResult
  <2>9. CASE UNCHANGED vars
    <3>1. WrittenCounters' = WrittenCounters
      BY <2>9 DEF vars, WrittenCounters
    <3> QED
      BY <2>0, <2>9, <3>1 DEF vars, QueryInv
  <2> QED
    BY <2>2, <2>3, <2>4, <2>6, <2>7, <2>8, <2>9 DEF Next, GetTCPInfo
<1> QED
  BY <1>1, <1>2, AdaptCorrect, PTL DEF Spec

\* A query offers room for all base fields and for no more than RawTCPInfo has.
THEOREM BufferCorrect == Spec => []BaseFieldsFilled
<1>1. AdaptInv /\ QueryInv => BaseFieldsFilled
  BY RowTypes DEF AdaptInv, QueryInv, BaseFieldsFilled, BaseSize, StructSize
<1> QED
  BY <1>1, AdaptCorrect, QueryCorrect, PTL

\* On a kernel whose version was recognised, every field it has is Valid.
THEOREM SupportedCorrect == Spec => []SupportedIsValid
<1>1. AdaptInv /\ QueryInv => SupportedIsValid
  <2> SUFFICES ASSUME AdaptInv, QueryInv, ~result.nil, Detected,
                      NEW f \in Fields, Has(f)
               PROVE  f \in result.info.valid
    BY DEF SupportedIsValid
  <2>1. AtLeast(detected, tcpInfoSizes[Guard(f)].Version)
    BY FieldRows, RowsSorted, RowTypes, AtLeastTransitive DEF Has, Detected, AdaptInv
  <2>2. flag[Guard(f)]
    BY <2>1, FieldRows DEF AdaptInv, FlagsExact, QueryInv
  <2> QED
    BY <2>2 DEF QueryInv
<1> QED
  BY <1>1, AdaptCorrect, QueryCorrect, PTL

\* On such a kernel the warnings are exactly its counters that are not zero.
THEOREM WarningsCorrect == Spec => []WarningsExact
<1>1. AdaptInv /\ QueryInv => WarningsExact
  <2> SUFFICES ASSUME AdaptInv, QueryInv, ~result.nil, Detected
               PROVE  Warnings(result.info) = counters
    BY DEF WarningsExact
  <2>1. counters \subseteq {f \in Counters : HasCounter(f)} /\ result.nil = FALSE
    BY DEF QueryInv
  <2>2. /\ pc = "returned" /\ flag[1] /\ result.info.nonzero = WrittenCounters
        /\ result.info.valid = {f \in Fields : flag[Guard(f)]}
    BY <2>1 DEF QueryInv
  <2>3. ASSUME NEW f \in counters, f \notin BaseCounters
        PROVE  f \in result.info.valid /\ f \in WrittenCounters
    <3>1. f \in Counters \ BaseCounters /\ Has(f)
      BY <2>1, <2>3 DEF HasCounter
    <3>2. f \in Fields
      BY <3>1 DEF Counters, BaseCounters, Fields, RawTCPInfo
    <3>3. flag[RawTCPInfo[f].row] /\ flag[Guard(f)]
      <4>1. AtLeast(detected, tcpInfoSizes[RawTCPInfo[f].row].Version)
        BY <3>1 DEF Has, Detected
      <4>2. AtLeast(detected, tcpInfoSizes[Guard(f)].Version)
        BY <3>2, <4>1, FieldRows, RowsSorted, RowTypes, AtLeastTransitive DEF AdaptInv
      <4> QED
        BY <2>2, <3>2, <4>1, <4>2, FieldRows DEF AdaptInv, FlagsExact
    <3>4. i \in Rows /\ i >= RawTCPInfo[f].row /\ sizeOfRawTCPInfo = tcpInfoSizes[i].Size
      BY <2>2, <3>2, <3>3, FieldRows DEF AdaptInv, Rows
    <3>5. RawTCPInfo[f].end <= sizeOfRawTCPInfo
      BY <3>1, <3>4, CounterRoom
    <3> QED
      BY <2>2, <3>2, <3>3, <3>5 DEF WrittenCounters
  <2> QED
    BY <2>1, <2>2, <2>3 DEF Warnings, WrittenCounters
<1> QED
  BY <1>1, AdaptCorrect, QueryCorrect, PTL

\* An info without an error is complete.
THEOREM CompleteCorrect == Spec => []NoErrorMeansComplete
<1>1. QueryInv => NoErrorMeansComplete
  BY DEF QueryInv, NoErrorMeansComplete
<1> QED
  BY <1>1, QueryCorrect, PTL

-----------------------------------------------------------------------------
(* The map.                                                                *)

\* From the row that added a field on, the buffer has room for it, except at the row
\* of 4.9, whose size is too small.
LEMMA FieldRoom ==
  ASSUME NEW f \in Fields, NEW r \in Rows, r # 6, r >= RawTCPInfo[f].row
  PROVE  RawTCPInfo[f].end <= tcpInfoSizes[r].Size
<1> DEFINE row == RawTCPInfo[f].row
           end == RawTCPInfo[f].end
<1>1. /\ row \in 2..13 /\ end \in Nat /\ end <= 248
      /\ (row <= 12 => end <= 240) /\ (row <= 11 => end <= 232) /\ (row <= 9 => end <= 224)
      /\ (row <= 8 => end <= 200) /\ (row <= 7 => end <= 192) /\ (row <= 5 => end <= 160)
      /\ (row <= 4 => end <= 144) /\ (row <= 3 => end <= 136) /\ (row <= 2 => end <= 120)
  BY FieldTable DEF Field
<1>2. /\ tcpInfoSizes[2].Size = 120 /\ tcpInfoSizes[3].Size = 136 /\ tcpInfoSizes[4].Size = 144
      /\ tcpInfoSizes[5].Size = 160 /\ tcpInfoSizes[7].Size = 192 /\ tcpInfoSizes[8].Size = 200
      /\ tcpInfoSizes[9].Size = 224 /\ tcpInfoSizes[10].Size = 232 /\ tcpInfoSizes[11].Size = 232
      /\ tcpInfoSizes[12].Size = 240 /\ tcpInfoSizes[13].Size = 248
  BY DEF tcpInfoSizes, Row
<1>3. r \in {1, 2, 3, 4, 5, 7, 8, 9, 10, 11, 12, 13} /\ row <= r
  BY <1>1 DEF Rows
<1> HIDE DEF row, end
<1>4. CASE r \in {1, 2, 3}
  BY <1>1, <1>2, <1>3, <1>4 DEF end
<1>5. CASE r \in {4, 5, 7}
  BY <1>1, <1>2, <1>3, <1>5 DEF end
<1>6. CASE r \in {8, 9, 10}
  BY <1>1, <1>2, <1>3, <1>6 DEF end
<1>7. CASE r \in {11, 12, 13}
  BY <1>1, <1>2, <1>3, <1>7 DEF end
<1> QED
  BY <1>3, <1>4, <1>5, <1>6, <1>7

\* The kernel is recognised or taken for the oldest one.
DetectInv == pc # "start" => detected \in {kernel, Fallback}

\* What the adaptation goes by is the running kernel or the fallback.
LEMMA DetectCorrect == Spec => []DetectInv
<1>1. Init => DetectInv
  BY DEF Init, DetectInv
<1>2. DetectInv /\ [Next]_vars => DetectInv'
  BY DEF DetectInv, Next, Adapt, GetTCPInfo, GetKernelVersion, AdaptFound, AdaptNewer, AdaptNone,
         Override, Start, GetRawTCPInfo, GetTCPCongestionAlgorithm, GetCCInfo, Consume, Return,
         ReturnNil, Unchanged, environment, adaptation, vars
<1> QED
  BY <1>1, <1>2, PTL DEF Spec

\* On every kernel outside 4.9.x and 6.2 to 6.6, recognised or not, the map has an entry
\* only for a field the kernel wrote.
THEOREM MapCorrect == Spec => []ValidIsWrittenMostly
<1>1. AdaptInv /\ QueryInv /\ DetectInv => ValidIsWrittenMostly
  <2> SUFFICES ASSUME AdaptInv, QueryInv, DetectInv, WellCovered, ~result.nil,
                      NEW f \in result.info.valid
               PROVE  Written(f)
    BY DEF ValidIsWrittenMostly, ValidIsWritten, ToMap
  <2>1. /\ pc = "returned" /\ flag[1] /\ f \in Fields /\ flag[Guard(f)]
    BY DEF QueryInv
  <2>2. AtLeast(detected, tcpInfoSizes[Guard(f)].Version)
    BY <2>1, FieldRows DEF AdaptInv, FlagsExact
  <2>3. detected = kernel
    <3>1. Guard(f) \in Rows /\ 2 <= Guard(f)
      BY <2>1, FieldRows
    <3>2. ~AtLeast(Fallback, tcpInfoSizes[2].Version)
      <4>1. tcpInfoSizes[2].Version = Version(3, 15, 0)
        BY DEF tcpInfoSizes, Row
      <4> QED
        BY <4>1 DEF AtLeast, CompareKernelVersion, Sign, Fallback, Version
    <3>3. AtLeast(tcpInfoSizes[Guard(f)].Version, tcpInfoSizes[2].Version)
      <4>1. 2 \in Rows /\ Guard(f) \in Rows /\ 2 <= Guard(f)
        BY <3>1 DEF Rows
      <4> QED
        BY <4>1, RowsSorted
    <3>4. ~AtLeast(Fallback, tcpInfoSizes[Guard(f)].Version)
      <4>1. Fallback \in VersionInfo /\ 2 \in Rows /\ Guard(f) \in Rows
        BY <3>1 DEF Fallback, Version, VersionInfo, Rows
      <4> QED
        BY <3>2, <3>3, <4>1, RowTypes, AtLeastTransitive
    <3> QED
      BY <2>1, <2>2, <3>4 DEF DetectInv
  <2>4. /\ tcpInfoSizes[12].Version = Version(6, 2, 0) /\ tcpInfoSizes[13].Version = Version(6, 7, 0)
        /\ tcpInfoSizes[6].Version = Version(4, 9, 0) /\ tcpInfoSizes[7].Version = Version(4, 10, 0)
    BY DEF tcpInfoSizes, Row
  <2>5. Has(f)
    <3>1. CASE RawTCPInfo[f].row = 13
      <4>1. Guard(f) = 12
        BY <3>1 DEF Guard
      <4> QED
        BY <2>2, <2>3, <2>4, <3>1, <4>1 DEF WellCovered, Has
    <3>2. CASE RawTCPInfo[f].row # 13
      BY <2>2, <2>3, <3>2 DEF Guard, Has
    <3> QED
      BY <3>1, <3>2
  <2>6. /\ i \in Rows /\ sizeOfRawTCPInfo = tcpInfoSizes[i].Size
        /\ \A r \in Rows : r > i => ~flag[r]
    BY <2>1 DEF AdaptInv
  <2>7. \A r \in Rows : flag[r] <=> AtLeast(kernel, tcpInfoSizes[r].Version)
    BY <2>1, <2>3 DEF AdaptInv, FlagsExact
  <2>8. i >= RawTCPInfo[f].row
    BY <2>1, <2>5, <2>6, <2>7, FieldRows DEF Has, Rows
  <2>9. i # 6
    <3> SUFFICES ASSUME i = 6 PROVE FALSE
      OBVIOUS
    <3>1. AtLeast(kernel, tcpInfoSizes[6].Version)
      BY <2>1, <2>7 DEF AdaptInv, Rows
    <3>2. ~AtLeast(kernel, tcpInfoSizes[7].Version)
      BY <2>6, <2>7 DEF Rows
    <3> QED
      BY <2>4, <3>1, <3>2 DEF WellCovered
  <2> QED
    BY <2>1, <2>5, <2>6, <2>8, <2>9, FieldRoom DEF Written
<1> QED
  BY <1>1, AdaptCorrect, QueryCorrect, DetectCorrect, PTL

\* The package variables and the locals keep their types, however often it adapts.
THEOREM LinuxTypeCorrect == Spec => []TypeOK
<1>1. AdaptInv /\ Init => TypeOK
  <2> SUFFICES ASSUME AdaptInv, Init PROVE TypeOK
    OBVIOUS
  <2>1. linuxKernelVersion \in VersionInfo
    BY DEF Init, NoVersion, Version, VersionInfo
  <2>2. /\ raw.room \in Nat /\ raw.nonzero \subseteq Counters
        /\ result.info.valid \subseteq Fields /\ result.info.nonzero \subseteq Counters
        /\ result.nil \in BOOLEAN /\ result.err \in BOOLEAN
    BY DEF Init, NoRaw, NoResult, NoInfo
  <2>3. sizeOfRawTCPInfo \in Nat /\ adapts \in Nat
    BY DEF Init
  <2> QED
    BY <2>1, <2>2, <2>3 DEF AdaptInv, Init, TypeOK
<1>2. AdaptInv' /\ QueryInv /\ TypeOK /\ [Next]_vars => TypeOK'
  <2> SUFFICES ASSUME AdaptInv', QueryInv, TypeOK, [Next]_vars PROVE TypeOK'
    OBVIOUS
  <2>1. (/\ detected \in VersionInfo /\ i \in 0..13 /\ flag \in [Rows -> BOOLEAN]
         /\ sizeOfRawTCPInfo \in Nat
         /\ pc \in {"start", "loop", "ready", "raw", "alg", "cc", "returned"})'
    BY DEF AdaptInv, BaseSize, StructSize
  <2> USE DEF environment, adaptation, call
  <2>2. CASE Override
    BY <2>1, <2>2, VersionsAssumption DEF Override, TypeOK
  <2>3. CASE GetKernelVersion \/ AdaptFound \/ AdaptNewer \/ AdaptNone
    BY <2>1, <2>3 DEF GetKernelVersion, AdaptFound, AdaptNewer, AdaptNone, TypeOK
  <2>4. ASSUME ReturnNil, Unchanged PROVE TypeOK'
    BY <2>1, <2>4 DEF ReturnNil, Unchanged, NoInfo, TypeOK
  <2>5. CASE Start
    BY <2>1, <2>4, <2>5 DEF Start, Unchanged, TypeOK
  <2>6. CASE GetRawTCPInfo
    <3>1. CASE ReturnNil
      BY <2>4, <2>6, <3>1 DEF GetRawTCPInfo
    <3>2. CASE ~ReturnNil
      <4>1. /\ raw'.room = sizeOfRawTCPInfo /\ raw'.nonzero \subseteq Counters
            /\ UNCHANGED <<ccAlg, result>> /\ Unchanged
        BY <2>6, <3>2 DEF GetRawTCPInfo, QueryInv
      <4> QED
        BY <2>1, <4>1 DEF Unchanged, TypeOK
    <3> QED
      BY <3>1, <3>2
  <2>7. ASSUME NEW a, NEW cc, NEW err \in BOOLEAN, Return(Unpack(raw, a, cc), err), Unchanged
        PROVE  TypeOK'
    <3>1. /\ Unpack(raw, a, cc).valid \subseteq Fields /\ Unpack(raw, a, cc).nonzero \subseteq Counters
      BY DEF Unpack, TypeOK
    <3>2. /\ result'.info = Unpack(raw, a, cc) /\ result'.nil = FALSE /\ result'.err = err
          /\ raw' = NoRaw /\ ccAlg' = NoAlg
      BY <2>7 DEF Return
    <3> QED
      BY <2>1, <2>7, <3>1, <3>2 DEF Unchanged, NoRaw, TypeOK
  <2>8. CASE GetTCPCongestionAlgorithm
    <3>1. CASE Return(Unpack(raw, NoAlg, NoAlg), TRUE)
      BY <2>7, <2>8, <3>1 DEF GetTCPCongestionAlgorithm
    <3>2. CASE Return(Unpack(raw, alg, NoAlg), FALSE)
      BY <2>7, <2>8, <3>2 DEF GetTCPCongestionAlgorithm
    <3>3. CASE alg \in Special /\ ccAlg' = alg /\ UNCHANGED <<raw, result>>
      BY <2>1, <2>8, <3>3 DEF GetTCPCongestionAlgorithm, Unchanged, TypeOK
    <3> QED
      BY <2>8, <3>1, <3>2, <3>3 DEF GetTCPCongestionAlgorithm
  <2>9. CASE GetCCInfo
    BY <2>7, <2>9 DEF GetCCInfo
  <2>10. CASE Consume
    BY <2>1, <2>10 DEF Consume, Unchanged, NoResult, NoInfo, TypeOK
  <2>11. CASE UNCHANGED vars
    BY <2>1, <2>11 DEF vars, TypeOK
  <2> QED
    BY <2>2, <2>3, <2>5, <2>6, <2>8, <2>9, <2>10, <2>11 DEF Next, Adapt, GetTCPInfo
<1> QED
  BY <1>1, <1>2, AdaptCorrect, QueryCorrect, PTL DEF Spec

=============================================================================
