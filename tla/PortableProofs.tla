---------------------------- MODULE PortableProofs ---------------------------
(***************************************************************************)
(* The queries of Windows and Darwin, for every bound on the values.       *)
(***************************************************************************)
EXTENDS PortableTCPInfo, TLAPS

Values == 0..MaxValue

\* Results come in order, and the values at the last answer are past values.
AskedInv ==
  /\ goos \in {"windows", "darwin", "other"} /\ versions \subseteq {0, 1}
  /\ options \subseteq tcpOptions /\ (goos # "darwin" => options = {})
  /\ socket \in [Fields(goos) -> Values] /\ asked \in [Fields(goos) -> Values]
  /\ \A f \in Fields(goos) : asked[f] <= socket[f]
  /\ query \in {"idle", "first", "v0"}
  /\ query # "idle" => closed = NotAsked /\ opened # NoInfo /\ goos # "other"
  /\ query = "v0" => goos = "windows"
  /\ opened = NotAsked => closed = NotAsked

\* What a call that was answered with these values has returned.
Answer(info) ==
  \/ goos = "windows" /\ info \in {UnpackV0(asked), UnpackV1(asked)}
  \/ goos = "darwin" /\ info = DarwinUnpack(asked)

\* The last result is of the values at the last answer, an earlier one is below them.
ResultInv ==
  /\ closed = NotAsked \/ closed = NoInfo \/ Answer(closed)
  /\ opened = NotAsked \/ opened = NoInfo \/ opened.status = "info"
  /\ Got(opened) =>
       /\ opened.counters \in [Counters(goos) -> Values]
       /\ \A c \in Counters(goos) : opened.counters[c] <= asked[c]
  /\ closed = NotAsked /\ Got(opened) => Answer(opened)

\* The counters are fields of the system.
LEMMA CounterFields ==
  ASSUME goos \in {"windows", "darwin"}
  PROVE  Counters(goos) \subseteq Fields(goos)
BY DEF Fields, Counters, V1Fields, V0Fields, DarwinFields

\* What is in an answer.
LEMMA AnswerParts ==
  ASSUME AskedInv, NEW info, Answer(info)
  PROVE  /\ info.status = "info" /\ goos \in {"windows", "darwin"}
         /\ info.counters \in [Counters(goos) -> Values]
         /\ \A c \in Counters(goos) : info.counters[c] = asked[c]
<1>1. CASE goos = "windows"
  BY <1>1 DEF Answer, UnpackV0, UnpackV1, WinInfo, AskedInv, Fields, Counters, V1Fields, V0Fields
<1>2. CASE goos = "darwin"
  BY <1>2 DEF Answer, DarwinUnpack, AskedInv, Fields, Counters, DarwinFields
<1> QED
  BY <1>1, <1>2 DEF Answer

\* A step that leaves the answered values and the results alone keeps ResultInv.
LEMMA ResultSame ==
  ASSUME ResultInv, UNCHANGED <<goos, options, wscale, asked, opened, closed>>
  PROVE  ResultInv'
<1>1. UnpackV0(asked)' = UnpackV0(asked) /\ UnpackV1(asked)' = UnpackV1(asked)
  BY Zenon DEF UnpackV0, UnpackV1, WinInfo
<1>2. DarwinUnpack(asked)' = DarwinUnpack(asked)
  BY Zenon DEF DarwinUnpack, OptionList
<1>3. (Answer(opened)' <=> Answer(opened)) /\ (Answer(closed)' <=> Answer(closed))
  BY <1>1, <1>2, Zenon DEF Answer
<1>4. (Got(opened)' <=> Got(opened)) /\ Counters(goos)' = Counters(goos)
  BY Zenon DEF Got, Counters
<1> QED
  BY <1>3, <1>4, Zenon DEF ResultInv

\* Before the first query nothing has been answered.
LEMMA PortableStart == Init => AskedInv /\ ResultInv
<1> SUFFICES ASSUME Init PROVE AskedInv /\ ResultInv
  OBVIOUS
<1>1. 0 \in Values /\ 0 <= 0
  BY MaxValueAssumption DEF Values
<1>2. goos \in {"windows", "darwin", "other"} /\ versions \subseteq {0, 1}
  BY DEF Init
<1>3. options \subseteq tcpOptions /\ (goos # "darwin" => options = {})
  BY DEF Init
<1>4. socket \in [Fields(goos) -> Values] /\ asked = socket /\ \A f \in Fields(goos) : socket[f] = 0
  BY <1>1 DEF Init
<1>5. query = "idle" /\ opened = NotAsked /\ closed = NotAsked
  BY DEF Init
<1>6. AskedInv
  BY <1>1, <1>2, <1>3, <1>4, <1>5 DEF AskedInv
<1>7. ResultInv
  BY <1>5 DEF ResultInv, Got, NotAsked
<1> QED
  BY <1>6, <1>7

\* A call that returns an answer or an error keeps both invariants.
LEMMA ReturnKeeps ==
  ASSUME AskedInv, ResultInv, NEW result, Return(result), query # "idle",
         \/ result = NoInfo
         \/ goos = "windows" /\ result \in {UnpackV0(socket), UnpackV1(socket)}
         \/ goos = "darwin" /\ result = DarwinUnpack(socket)
  PROVE  AskedInv' /\ ResultInv'
<1>1. /\ UNCHANGED <<goos, versions, options, wscale, socket>> /\ asked' = socket
      /\ query' = "idle" /\ closed = NotAsked /\ goos \in {"windows", "darwin"}
      /\ \/ opened = NotAsked /\ opened' = result /\ closed' = NotAsked
         \/ opened # NotAsked /\ opened' = opened /\ closed' = result
  BY DEF Return, AskedInv, system
<1>2. AskedInv'
  <2>1. \A f \in Fields(goos) : socket[f] <= socket[f]
    BY MaxValueAssumption DEF AskedInv, Values
  <2>2. result.status \in {"info", "error"} /\ NotAsked.status = "not asked"
    BY DEF NotAsked, NoInfo, UnpackV0, UnpackV1, WinInfo, DarwinUnpack
  <2>3. result # NotAsked
    BY <2>2
  <2> QED
    BY <1>1, <2>1, <2>3 DEF AskedInv
<1>3. result = NoInfo \/ Answer(result)'
  BY <1>1 DEF Answer, UnpackV0, UnpackV1, WinInfo, DarwinUnpack, OptionList
<1>4. Answer(result)' => /\ result.status = "info"
                         /\ result.counters \in [Counters(goos) -> Values]
                         /\ \A c \in Counters(goos) : result.counters[c] = socket[c]
  <2>1. CASE goos = "windows"
    BY <1>1, <2>1 DEF Answer, UnpackV0, UnpackV1, WinInfo, AskedInv, Fields, Counters, V1Fields, V0Fields
  <2>2. CASE goos = "darwin"
    BY <1>1, <2>2 DEF Answer, DarwinUnpack, AskedInv, Fields, Counters, DarwinFields
  <2> QED
    BY <1>1, <2>1, <2>2
<1>5. \A c \in Counters(goos) : asked[c] \in Nat /\ socket[c] \in Nat /\ asked[c] <= socket[c]
  BY <1>1, CounterFields, MaxValueAssumption DEF AskedInv, Values
<1>6. NoInfo.status = "error" /\ NotAsked.status = "not asked"
  BY DEF NoInfo, NotAsked
<1>7. CASE opened = NotAsked /\ opened' = result /\ closed' = NotAsked
  <2>1. CASE result = NoInfo
    <3>1. opened'.status # "info"
      BY <1>6, <1>7, <2>1
    <3>2. ~Got(opened')
      BY <3>1 DEF Got
    <3> QED
      BY <1>2, <1>7, <2>1, <3>2 DEF ResultInv
  <2>2. CASE Answer(result)'
    <3>1. \A c \in Counters(goos) : result.counters[c] <= socket[c]
      BY <1>4, <1>5, <2>2
    <3> QED
      BY <1>1, <1>2, <1>4, <1>7, <2>2, <3>1 DEF ResultInv
  <2> QED
    BY <1>3, <2>1, <2>2
<1>8. CASE opened # NotAsked /\ opened' = opened /\ closed' = result
  <2>1. ASSUME Got(opened)
        PROVE  /\ opened.counters \in [Counters(goos) -> Values]
               /\ \A c \in Counters(goos) : opened.counters[c] <= socket[c]
    <3>1. \A c \in Counters(goos) : opened.counters[c] \in Nat /\ opened.counters[c] <= asked[c]
      BY <2>1, MaxValueAssumption DEF ResultInv, Values
    <3> QED
      BY <1>5, <2>1, <3>1 DEF ResultInv
  <2>2. result.status # NotAsked.status
    BY <1>3, <1>4, <1>6
  <2>3. closed' # NotAsked
    BY <1>8, <2>2
  <2>4. opened = NoInfo \/ opened.status = "info"
    BY <1>8 DEF ResultInv
  <2>5. closed' = NoInfo \/ Answer(closed)'
    <3>1. CASE result = NoInfo
      BY <1>8, <3>1
    <3>2. CASE Answer(result)'
      BY <1>8, <3>2 DEF Answer
    <3> QED
      BY <1>3, <3>1, <3>2
  <2> QED
    BY <1>1, <1>2, <1>8, <2>1, <2>3, <2>4, <2>5 DEF ResultInv
<1> QED
  BY <1>1, <1>7, <1>8


\* Every step keeps both invariants.
LEMMA PortableStep ==
  ASSUME AskedInv, ResultInv, [Next]_vars
  PROVE  AskedInv' /\ ResultInv'
<1>1. CASE Traffic
  <2>1. /\ UNCHANGED <<goos, versions, options, wscale, query, asked, opened, closed>>
        /\ socket' \in [Fields(goos) -> Values]
        /\ \A f \in Fields(goos) : asked[f] <= socket'[f]
    <3>1. UNCHANGED <<goos, versions, options, wscale, query, asked, opened, closed>>
      BY <1>1 DEF Traffic, system, results
    <3>2. PICK f \in Fields(goos) :
            socket[f] < MaxValue /\ socket' = [socket EXCEPT ![f] = @ + 1]
      BY <1>1 DEF Traffic
    <3>3. socket[f] + 1 \in Values
      BY <3>2, MaxValueAssumption DEF AskedInv, Values
    <3>4. socket' \in [Fields(goos) -> Values]
      BY <3>2, <3>3 DEF AskedInv
    <3>5. ASSUME NEW g \in Fields(goos) PROVE asked[g] <= socket'[g]
      <4>1. asked[g] \in Nat /\ socket[g] \in Nat /\ asked[g] <= socket[g]
        BY MaxValueAssumption DEF AskedInv, Values
      <4>2. socket'[g] = IF g = f THEN socket[g] + 1 ELSE socket[g]
        BY <3>2 DEF AskedInv
      <4> QED
        BY <4>1, <4>2
    <3> QED
      BY <3>1, <3>4, <3>5
  <2>2. AskedInv'
    BY <2>1 DEF AskedInv
  <2>3. ResultInv'
    BY <2>1, ResultSame
  <2> QED
    BY <2>2, <2>3
<1>2. ASSUME UNCHANGED <<goos, versions, options, wscale, socket, asked, opened, closed>>,
             query' \in {"idle", "first", "v0"},
             query' # "idle" => closed = NotAsked /\ opened # NoInfo /\ goos # "other",
             query' = "v0" => goos = "windows"
      PROVE  AskedInv' /\ ResultInv'
  <2>1. AskedInv'
    BY <1>2 DEF AskedInv
  <2>2. ResultInv'
    BY <1>2, ResultSame
  <2> QED
    BY <2>1, <2>2
<1>3. CASE Start
  BY <1>2, <1>3 DEF Start, Supported, system, results, AskedInv
<1>4. CASE TryV1
  <2>1. CASE Return(UnpackV1(socket))
    BY <1>4, <2>1, ReturnKeeps DEF TryV1
  <2>2. CASE query' = "v0" /\ UNCHANGED <<system, socket, results>>
    BY <1>2, <1>4, <2>2 DEF TryV1, system, results, AskedInv
  <2> QED
    BY <1>4, <2>1, <2>2 DEF TryV1
<1>5. CASE TryV0
  <2>1. query = "v0" /\ goos = "windows"
    BY <1>5 DEF TryV0, AskedInv
  <2> QED
    BY <1>5, <2>1, ReturnKeeps DEF TryV0
<1>6. CASE Getsockopt
  BY <1>6, ReturnKeeps DEF Getsockopt
<1>7. CASE UNCHANGED vars
  BY <1>2, <1>7 DEF vars, system, results, AskedInv
<1> QED
  BY <1>1, <1>3, <1>4, <1>5, <1>6, <1>7 DEF Next, GetTCPInfo

\* The inductive invariant of the two queries holds in every reachable state.
LEMMA PortableInv == Spec => [](AskedInv /\ ResultInv)
BY PortableStart, PortableStep, PTL DEF Spec

\* A Closed result is of the values at the last answer, and so is the last result.
LEMMA LastAnswer ==
  ASSUME ResultInv
  PROVE  (Got(closed) => Answer(closed)) /\ (Got(Last) => Answer(Last))
<1>1. NotAsked.status = "not asked" /\ NoInfo.status = "error"
  BY DEF NotAsked, NoInfo
<1>2. Got(closed) => Answer(closed)
  BY <1>1 DEF ResultInv, Got
<1>3. CASE closed # NotAsked
  BY <1>2, <1>3 DEF Last
<1>4. CASE closed = NotAsked
  BY <1>2, <1>4 DEF Last, ResultInv
<1> QED
  BY <1>2, <1>3, <1>4

\* The queries keep their types on every system, whatever the values are bounded by.
THEOREM PortableTypeCorrect == Spec => []TypeOK
<1>1. AskedInv /\ ResultInv => TypeOK
  <2> SUFFICES ASSUME AskedInv, ResultInv PROVE TypeOK
    OBVIOUS
  <2>1. Got(closed) => closed.counters \in [Counters(goos) -> Values]
    BY LastAnswer, AnswerParts
  <2>2. Got(opened) => opened.counters \in [Counters(goos) -> Values]
    BY DEF ResultInv
  <2> QED
    BY <2>1, <2>2 DEF TypeOK, AskedInv, Values
<1> QED
  BY <1>1, PortableInv, PTL

\* The counters of the Closed result are at least those of the Opened one, also when
\* one was read from the v1 and the other from the v0 structure.
THEOREM GrowCorrect == Spec => []CountersGrow
<1>1. AskedInv /\ ResultInv => CountersGrow
  <2> SUFFICES ASSUME AskedInv, ResultInv, Got(opened), Got(closed), NEW c \in Counters(goos)
               PROVE  opened.counters[c] <= closed.counters[c]
    BY DEF CountersGrow
  <2>1. closed.counters[c] = asked[c]
    BY LastAnswer, AnswerParts
  <2> QED
    BY <2>1 DEF ResultInv
<1> QED
  BY <1>1, PortableInv, PTL

\* A result has the warnings, the RTT and the options of the moment the system
\* answered, however the connection went on between the calls.
THEOREM ResultCorrect == Spec => []ResultExact
<1>1. AskedInv /\ ResultInv => ResultExact
  <2> SUFFICES ASSUME AskedInv, Answer(Last) PROVE ResultExact
    BY LastAnswer DEF ResultExact
  <2>1. CASE goos = "windows"
    <3>1. /\ Last.TxOptions = {} /\ Last.RxOptions = {} /\ options = {}
          /\ Last.RTT = asked["MinRttUs"] * Microsecond
          /\ Last.Retransmits = asked["SynRetrans"]
          /\ Last.counters = [c \in WinCounters |-> asked[c]]
      BY <2>1 DEF Answer, UnpackV0, UnpackV1, WinInfo, AskedInv
    <3>2. Warnings(Last) = {c \in Counters(goos) : asked[c] > 0} \union
            (IF asked[Retransmissions(goos)] > 0 THEN {"retransmits"} ELSE {})
      BY <2>1, <3>1 DEF Warnings, Counters, Retransmissions
    <3> QED
      BY <2>1, <3>1, <3>2 DEF ResultExact
  <2>2. CASE goos = "darwin"
    <3>1. /\ Last.TxOptions = OptionList(wscale.snd) /\ Last.RxOptions = OptionList(wscale.rcv)
          /\ Last.RTT = asked["SRTT"] * Millisecond
          /\ Last.Retransmits = asked["TxRetransmitPackets"]
          /\ Last.counters = [c \in DarwinCounters |-> asked[c]]
      BY <2>2 DEF Answer, DarwinUnpack
    <3>2. Warnings(Last) = {c \in Counters(goos) : asked[c] > 0} \union
            (IF asked[Retransmissions(goos)] > 0 THEN {"retransmits"} ELSE {})
      BY <2>2, <3>1 DEF Warnings, Counters, Retransmissions
    <3>3. options \subseteq tcpOptions
      BY DEF AskedInv
    <3>4. ASSUME NEW scale
          PROVE  /\ {o.Kind : o \in OptionList(scale)} = options
                 /\ \A o1, o2 \in OptionList(scale) : o1.Kind = o2.Kind => o1 = o2
                 /\ \A o \in OptionList(scale) : o.Kind = "WindowScale" => o.Value = scale
      <4>1. \A o \in OptionList(scale) :
              /\ o.Kind \in options
              /\ o = Option(o.Kind, IF o.Kind = "WindowScale" THEN scale ELSE 0)
        BY <3>3 DEF OptionList, Option
      <4>2. ASSUME NEW k \in options PROVE \E o \in OptionList(scale) : o.Kind = k
        <5>1. Option(k, IF k = "WindowScale" THEN scale ELSE 0) \in OptionList(scale)
          BY <3>3 DEF OptionList
        <5> QED
          BY <5>1 DEF Option
      <4>3. {o.Kind : o \in OptionList(scale)} = options
        BY <4>1, <4>2
      <4>4. ASSUME NEW o1 \in OptionList(scale), NEW o2 \in OptionList(scale), o1.Kind = o2.Kind
            PROVE  o1 = o2
        BY <4>1, <4>4
      <4>5. ASSUME NEW o \in OptionList(scale), o.Kind = "WindowScale" PROVE o.Value = scale
        <5>1. PICK k \in options :
                o = Option(k, IF k = "WindowScale" THEN scale ELSE 0)
          BY <4>1
        <5> QED
          BY <4>5, <5>1 DEF Option
      <4> QED
        BY <4>3, <4>4, <4>5
    <3> QED
      BY <2>2, <3>1, <3>2, <3>4 DEF ResultExact
  <2> QED
    BY <2>1, <2>2 DEF Answer
<1> QED
  BY <1>1, PortableInv, PTL

=============================================================================
