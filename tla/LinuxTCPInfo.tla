---------------------------- MODULE LinuxTCPInfo -----------------------------
(***************************************************************************)
(* TCP_INFO on Linux: the start-up adaptation to the running kernel        *)
(* (pkg/tcpinfo/init_linux.go) and the query GetTCPInfo with Unpack, ToMap *)
(* and Warnings (tcpinfo_linux.go).                                        *)
(*                                                                         *)
(* The kernel writes a prefix of its struct tcp_info, as long as the       *)
(* buffer the query offers; a field was written when its last byte is in   *)
(* that prefix.  A value is abstracted to whether it is zero, and only for *)
(* the counters that Warnings reads.  Table rows are numbered from 1.      *)
(***************************************************************************)
EXTENDS KernelVersion, Sequences

CONSTANTS
  Versions,     \* the versions the running kernel may have
  Overrides,    \* the versions unit tests assign to linuxKernelVersion
  MaxAdapts     \* bound: how often adaptToKernelVersion runs

ASSUME VersionsAssumption ==
  Versions \subseteq VersionInfo /\ Overrides \subseteq VersionInfo

Row(version, size) == [Version |-> version, Size |-> size]

tcpInfoSizes == <<
  Row(Version(2, 6, 2), 104), Row(Version(3, 15, 0), 120), Row(Version(4, 1, 0), 136),
  Row(Version(4, 2, 0), 144), Row(Version(4, 6, 0), 160), Row(Version(4, 9, 0), 148),
  Row(Version(4, 10, 0), 192), Row(Version(4, 18, 0), 200), Row(Version(4, 19, 0), 224),
  Row(Version(5, 4, 0), 232), Row(Version(5, 5, 0), 232), Row(Version(6, 2, 0), 240),
  Row(Version(6, 7, 0), 248) >>

Rows == 1..13
BaseSize == 104     \* the fields that are not nullable end here
StructSize == 248   \* sizeof(RawTCPInfo)

Fallback == Version(2, 6, 2)
NoVersion == Version(0, 0, 0)     \* a nil *kernel.VersionInfo

\* The nullable fields of RawTCPInfo: where each ends, and the row of the
\* version that added it.  The last two are bits of byte 8.
Field(end, row) == [end |-> end, row |-> row]

RawTCPInfo ==
  [pacing_rate    |-> Field(112, 2),   max_pacing_rate |-> Field(120, 2),
   bytes_acked    |-> Field(128, 3),   bytes_received  |-> Field(136, 3),
   segs_out       |-> Field(140, 4),   segs_in         |-> Field(144, 4),
   notsent_bytes  |-> Field(148, 5),   min_rtt         |-> Field(152, 5),
   data_segs_in   |-> Field(156, 5),   data_segs_out   |-> Field(160, 5),
   delivery_rate  |-> Field(168, 6),   busy_time       |-> Field(176, 7),
   rwnd_limited   |-> Field(184, 7),   sndbuf_limited  |-> Field(192, 7),
   delivered      |-> Field(196, 8),   delivered_ce    |-> Field(200, 8),
   bytes_sent     |-> Field(208, 9),   bytes_retrans   |-> Field(216, 9),
   dsack_dups     |-> Field(220, 9),   reord_seen      |-> Field(224, 9),
   rcv_ooopack    |-> Field(228, 10),  snd_wnd         |-> Field(232, 10),
   rcv_wnd        |-> Field(236, 12),  rehash          |-> Field(240, 12),
   total_rto      |-> Field(242, 13),  total_rto_recoveries |-> Field(244, 13),
   total_rto_time |-> Field(248, 13),
   app_limited    |-> Field(8, 6),     fastopen_fail   |-> Field(8, 11)]

Fields == DOMAIN RawTCPInfo

\* The counters that Warnings reads; the last two are not nullable.
BaseCounters == {"total_retrans", "backoff"}
Counters == {"bytes_retrans", "rcv_ooopack", "sndbuf_limited", "rwnd_limited"}
              \cup BaseCounters

Special == {"vegas", "bbr", "dctcp"}   \* algorithms with an info of their own
NoAlg == "none"

VARIABLES
  kernel,               \* the version of the running kernel
  alg,                  \* the congestion control algorithm of the socket
  counters,             \* the kernel's counters that are not zero
  linuxKernelVersion,   \* the package variable that unit tests assign
  adapts, pc,
  detected, i,          \* the locals of adaptToKernelVersion
  sizeOfRawTCPInfo, flag,
  raw,                  \* local: what getsockopt wrote
  ccAlg,                \* local: TCPInfoPlusCC.CCAlg
  result                \* what GetTCPInfo returned

environment == <<kernel, alg, counters, linuxKernelVersion, adapts>>
adaptation  == <<detected, i, sizeOfRawTCPInfo, flag>>
call        == <<raw, ccAlg, result>>
vars        == <<environment, pc, adaptation, call>>

NoRaw    == [room |-> 0, nonzero |-> {}]
NoInfo   == [valid |-> {}, nonzero |-> {}, alg |-> NoAlg, cc |-> NoAlg]
NoResult == [info |-> NoInfo, nil |-> TRUE, err |-> FALSE]

\* The fields of the struct tcp_info of the running kernel.
Has(f) == AtLeast(kernel, tcpInfoSizes[RawTCPInfo[f].row].Version)
HasCounter(f) == f \in BaseCounters \/ Has(f)

Init ==
  /\ kernel \in Versions /\ alg \in Special \cup {"cubic"}
  /\ counters \in SUBSET {f \in Counters : HasCounter(f)}
  /\ linuxKernelVersion = NoVersion /\ adapts = 1 /\ pc = "start"
  /\ detected = NoVersion /\ i = 0
  /\ sizeOfRawTCPInfo = 0 /\ flag = [r \in Rows |-> FALSE]
  /\ raw = NoRaw /\ ccAlg = NoAlg /\ result = NoResult

-----------------------------------------------------------------------------
(* adaptToKernelVersion.                                                   *)

\* kernel.GetKernelVersion succeeds or fails.  The := declares a local that
\* hides the package variable linuxKernelVersion, which is never read.
GetKernelVersion ==
  /\ pc = "start"
  /\ detected' \in {kernel, Fallback}
  /\ i' = 13 /\ pc' = "loop"
  /\ UNCHANGED <<environment, sizeOfRawTCPInfo, flag, call>>

\* Mutant: only the flag of the row that was found is set.
AdaptFoundOne ==
  /\ pc = "loop" /\ i \in Rows
  /\ AtLeast(detected, tcpInfoSizes[i].Version)
  /\ sizeOfRawTCPInfo' = tcpInfoSizes[i].Size
  /\ flag' = [flag EXCEPT ![i] = TRUE]
  /\ pc' = "ready"
  /\ UNCHANGED <<environment, detected, i, call>>

\* The newest row that is not newer than the kernel gives the size, and it and
\* all older rows get their flags set.
AdaptFound ==
  /\ pc = "loop" /\ i \in Rows
  /\ AtLeast(detected, tcpInfoSizes[i].Version)
  /\ sizeOfRawTCPInfo' = tcpInfoSizes[i].Size
  /\ flag' = [r \in Rows |-> r <= i \/ flag[r]]
  /\ pc' = "ready"
  /\ UNCHANGED <<environment, detected, i, call>>

\* Mutant: the flag of a newer row keeps its value.
AdaptNewerKeep ==
  /\ pc = "loop" /\ i \in Rows
  /\ ~AtLeast(detected, tcpInfoSizes[i].Version)
  /\ i' = i - 1
  /\ UNCHANGED <<environment, pc, detected, sizeOfRawTCPInfo, flag, call>>

AdaptNewer ==
  /\ pc = "loop" /\ i \in Rows
  /\ ~AtLeast(detected, tcpInfoSizes[i].Version)
  /\ flag' = [flag EXCEPT ![i] = FALSE]
  /\ i' = i - 1
  /\ UNCHANGED <<environment, pc, detected, sizeOfRawTCPInfo, call>>

\* Mutant: the loop runs past the last row.
AdaptNonePast ==
  /\ pc = "loop" /\ i = 0
  /\ i' = i - 1 /\ pc' = "ready"
  /\ UNCHANGED <<environment, detected, sizeOfRawTCPInfo, flag, call>>

\* Every row is newer: the loop ends and the size keeps its value.
AdaptNone ==
  /\ pc = "loop" /\ i = 0
  /\ pc' = "ready"
  /\ UNCHANGED <<environment, adaptation, call>>

\* A unit test assigns linuxKernelVersion and adapts again.
Override ==
  /\ pc = "ready" /\ adapts < MaxAdapts
  /\ linuxKernelVersion' \in Overrides
  /\ adapts' = adapts + 1
  /\ pc' = "start"
  /\ UNCHANGED <<kernel, alg, counters, adaptation, call>>

Adapt == \/ GetKernelVersion \/ AdaptFound \/ AdaptNewer \/ AdaptNone \/ Override

-----------------------------------------------------------------------------
(* GetTCPInfo.                                                             *)

\* Mutant: the fields of 4.19 are taken from the row of 4.18 on.
GuardEarly(f) ==
  LET row == RawTCPInfo[f].row IN IF row = 13 THEN 12 ELSE IF row = 9 THEN 8 ELSE row

\* The row whose flag makes Unpack take a field: the one that added it, but 6.2
\* for the fields added in 6.7.
Guard(f) == LET row == RawTCPInfo[f].row IN IF row = 13 THEN 12 ELSE row

\* TCPInfoPlusCC.Unpack of the raw struct, with the algorithm and its info.
Unpack(rawInfo, a, cc) ==
  [valid |-> {f \in Fields : flag[Guard(f)]},
   nonzero |-> rawInfo.nonzero, alg |-> a, cc |-> cc]

Return(info, err) ==
  /\ result' = [info |-> info, nil |-> FALSE, err |-> err]
  /\ raw' = NoRaw /\ ccAlg' = NoAlg
  /\ pc' = "returned"

ReturnNil ==
  /\ result' = [info |-> NoInfo, nil |-> TRUE, err |-> TRUE]
  /\ UNCHANGED <<raw, ccAlg>>
  /\ pc' = "returned"

Unchanged == UNCHANGED <<environment, adaptation>>

\* Mutant: an old kernel is queried too.
StartAlways ==
  /\ pc = "ready"
  /\ pc' = "raw" /\ UNCHANGED call
  /\ Unchanged

\* Supported() is the same flag.
Start ==
  /\ pc = "ready"
  /\ IF flag[1] THEN pc' = "raw" /\ UNCHANGED call ELSE ReturnNil
  /\ Unchanged

\* getsockopt(TCP_INFO) fails, or writes the fields that end in the room it is
\* given; the others keep the zero of a Go variable.
GetRawTCPInfo ==
  /\ pc = "raw"
  /\ \/ ReturnNil
     \/ /\ raw' = [room |-> sizeOfRawTCPInfo,
                   nonzero |-> {f \in counters : \/ f \in BaseCounters
                                                 \/ RawTCPInfo[f].end <= sizeOfRawTCPInfo}]
        /\ pc' = "alg" /\ UNCHANGED <<ccAlg, result>>
  /\ Unchanged

\* getsockopt(TCP_CONGESTION); only some algorithms have an info of their own.
GetTCPCongestionAlgorithm ==
  /\ pc = "alg"
  /\ \/ Return(Unpack(raw, NoAlg, NoAlg), TRUE)
     \/ alg \notin Special /\ Return(Unpack(raw, alg, NoAlg), FALSE)
     \/ alg \in Special /\ ccAlg' = alg /\ pc' = "cc" /\ UNCHANGED <<raw, result>>
  /\ Unchanged

\* The option number the code passes, and what a kernel answers: TCP options
\* are numbered from TCP_NODELAY = 1, and TCP_CC_INFO is 26.
CCInfoOption == 0
CCInfoAnswers(option) == IF option = 26 THEN {"info", "error"} ELSE {"error"}

\* Mutant: the error of the second query is dropped.
GetCCInfoSilent ==
  /\ pc = "cc"
  /\ \E answer \in CCInfoAnswers(CCInfoOption) :
       Return(Unpack(raw, ccAlg, IF answer = "info" THEN ccAlg ELSE NoAlg), FALSE)
  /\ Unchanged

\* GetsockoptTCPCCVegasInfo, ...BBRInfo or ...DCTCPInfo.
GetCCInfo ==
  /\ pc = "cc"
  /\ \E answer \in CCInfoAnswers(CCInfoOption) :
       Return(Unpack(raw, ccAlg, IF answer = "info" THEN ccAlg ELSE NoAlg),
              answer = "error")
  /\ Unchanged

\* The caller has used the result.
Consume ==
  /\ pc = "returned"
  /\ result' = NoResult /\ UNCHANGED <<raw, ccAlg>>
  /\ pc' = "ready"
  /\ Unchanged

GetTCPInfo == \/ Start \/ GetRawTCPInfo \/ GetTCPCongestionAlgorithm
              \/ GetCCInfo \/ Consume

Next == Adapt \/ GetTCPInfo

Spec == Init /\ [][Next]_vars

\* SysInfo.ToMap: a nullable field has an entry when it is Valid.
ToMap(info) == [f \in info.valid |-> f \in info.nonzero]

\* SysInfo.Warnings: the counters that are there and not zero.
Warnings(info) ==
  {f \in Counters : (f \in BaseCounters \/ f \in info.valid) /\ f \in info.nonzero}

-----------------------------------------------------------------------------
(* Properties.                                                             *)

\* The type invariant of the package variables and of the query's locals.
TypeOK ==
  /\ kernel \in Versions /\ linuxKernelVersion \in VersionInfo
  /\ detected \in VersionInfo /\ adapts \in Nat
  /\ pc \in {"start", "loop", "ready", "raw", "alg", "cc", "returned"}
  /\ i \in 0..13 /\ sizeOfRawTCPInfo \in Nat /\ flag \in [Rows -> BOOLEAN]
  /\ ccAlg \in Special \cup {NoAlg} /\ alg \in Special \cup {"cubic"}
  /\ raw.room \in Nat /\ raw.nonzero \subseteq Counters
  /\ result.info.valid \subseteq Fields /\ result.info.nonzero \subseteq Counters
  /\ result.nil \in BOOLEAN /\ result.err \in BOOLEAN

\* Once adaptToKernelVersion is done, the flags say exactly which versions of
\* the table the detected kernel has reached, whatever an earlier adaptation
\* left in them.
FlagsExact ==
  pc \notin {"start", "loop"} =>
    \A r \in Rows : flag[r] <=> AtLeast(detected, tcpInfoSizes[r].Version)

\* A query never offers the kernel more room than RawTCPInfo has, and never so
\* little that a field without a Valid mark is left unwritten.
BaseFieldsFilled ==
  /\ sizeOfRawTCPInfo <= StructSize
  /\ pc \in {"alg", "cc"} => raw.room >= BaseSize

\* The kernel was recognised.
Detected == detected = kernel

\* No data is missed: every field that the running kernel has is Valid.
SupportedIsValid ==
  ~result.nil /\ Detected => \A f \in Fields : Has(f) => f \in result.info.valid

\* The warnings are those of the kernel's own counters: none is missed because a
\* field was not asked for or not taken, none is made up from an unwritten one.
WarningsExact ==
  ~result.nil /\ Detected => Warnings(result.info) = counters

\* An info that comes without an error is complete: the algorithm is named, and
\* if it has an info of its own, that is there (today the call for that fails for
\* every algorithm, and comes with an error).  gatherAndReport relies on it, and on
\* a result that is nil coming with an error.
NoErrorMeansComplete ==
  pc = "returned" /\ ~result.err =>
    /\ ~result.nil /\ result.info.alg = alg
    /\ alg \in Special => result.info.cc = alg

Written(f) == Has(f) /\ RawTCPInfo[f].end <= sizeOfRawTCPInfo

\* A field in the map is one the running kernel wrote ("populates only the
\* fields that are genuinely supported by the running kernel").
ValidIsWritten == ~result.nil => \A f \in DOMAIN ToMap(result.info) : Written(f)

\* The kernels for which it holds: those before 4.9, and from 4.10 on, but not
\* from 6.2 to 6.6.
WellCovered ==
  /\ AtLeast(kernel, Version(4, 9, 0)) => AtLeast(kernel, Version(4, 10, 0))
  /\ AtLeast(kernel, Version(6, 2, 0)) => AtLeast(kernel, Version(6, 7, 0))

\* On those kernels an entry of the map is never a zero that means "unknown",
\* even after a failed version lookup.
ValidIsWrittenMostly == WellCovered => ValidIsWritten

\* A socket with an algorithm that has an info of its own can be queried
\* without an error (GetTCPInfo retrieves the struct "along with the congestion
\* control algorithm and algorithm-specific info").
AlgorithmInfoObtainable == pc = "cc" => ENABLED (GetCCInfo /\ ~result'.err)

=============================================================================
