--------------------------- MODULE PortableTCPInfo ---------------------------
(***************************************************************************)
(* The queries of pkg/tcpinfo on the systems other than Linux, with the    *)
(* warnings that conniver.Conn makes of the infos.                         *)
(***************************************************************************)
EXTENDS WindowsTCPInfo, DarwinTCPInfo

Fields(os) == IF os = "windows" THEN V1Fields ELSE IF os = "darwin" THEN DarwinFields ELSE {}
Counters(os) == IF os = "windows" THEN WinCounters ELSE DarwinCounters
Retransmissions(os) == IF os = "windows" THEN "SynRetrans" ELSE "TxRetransmitPackets"

\* The fields whose value is set once: the smallest RTT of Windows only falls after
\* it was first measured, and is left at what it was measured to be.
SetOnce == {"MinRttUs"}

Init ==
  /\ goos \in {"windows", "darwin", "other"}
  /\ versions \in IF goos = "windows" THEN {{}, {0}, {0, 1}} ELSE {{}}
  /\ options \in IF goos = "darwin" THEN SUBSET tcpOptions ELSE {{}}
  /\ wscale \in [snd : 0..MaxValue, rcv : 0..MaxValue]
  /\ (goos = "darwin" /\ "WindowScale" \in options) \/ wscale = [snd |-> 0, rcv |-> 0]
  /\ socket = [f \in Fields(goos) |-> 0] /\ asked = socket
  /\ query = "idle" /\ opened = NotAsked /\ closed = NotAsked

\* The connection works: a value grows.
Traffic ==
  /\ \E f \in Fields(goos) :
       /\ socket[f] < MaxValue /\ (f \in SetOnce => socket[f] = 0)
       /\ socket' = [socket EXCEPT ![f] = @ + 1]
  /\ UNCHANGED <<system, query, results>>

GetTCPInfo == Start \/ TryV1 \/ TryV0 \/ Getsockopt
Next == Traffic \/ GetTCPInfo
Spec == Init /\ [][Next]_vars

\* Conn.warnings, of one info: its retransmissions and SysInfo.Warnings, which names
\* the counters that are not zero.
Warnings(info) ==
  {c \in DOMAIN info.counters : info.counters[c] > 0}
    \union (IF info.Retransmits > 0 THEN {"retransmits"} ELSE {})

-----------------------------------------------------------------------------
Got(info) == info.status = "info"
Last == IF closed # NotAsked THEN closed ELSE opened

\* What the variables hold; nothing is asked after the Closed result, after an error,
\* or on a system without TCP_INFO.
TypeOK ==
  /\ goos \in {"windows", "darwin", "other"} /\ versions \subseteq {0, 1}
  /\ options \subseteq tcpOptions
  /\ socket \in [Fields(goos) -> 0..MaxValue] /\ asked \in [Fields(goos) -> 0..MaxValue]
  /\ query \in {"idle", "first", "v0"}
  /\ query # "idle" => closed = NotAsked /\ opened # NoInfo /\ goos # "other"
  /\ \A info \in {opened, closed} : Got(info) =>
       info.counters \in [Counters(goos) -> 0..MaxValue]

\* A result carries the values the connection had when the call was answered: no
\* warning is missed or invented and the RTT is the measured one, also when v1 failed
\* and the connection went on before v0.  The options are those agreed on, each
\* direction with its own window scale.
ResultExact ==
  Got(Last) /\ query = "idle" =>
    /\ Warnings(Last) = {c \in Counters(goos) : asked[c] > 0} \union
         (IF asked[Retransmissions(goos)] > 0 THEN {"retransmits"} ELSE {})
    /\ Last.RTT = IF goos = "windows" THEN asked["MinRttUs"] * Microsecond
                                      ELSE asked["SRTT"] * Millisecond
    /\ \A side \in {Last.TxOptions, Last.RxOptions} :
         /\ {o.Kind : o \in side} = options
         /\ \A o1, o2 \in side : o1.Kind = o2.Kind => o1 = o2
    /\ \A o \in Last.TxOptions : o.Kind = "WindowScale" => o.Value = wscale.snd
    /\ \A o \in Last.RxOptions : o.Kind = "WindowScale" => o.Value = wscale.rcv

\* From the Opened to the Closed result no counter falls, although the two may have
\* been read from different structures.
CountersGrow ==
  Got(opened) /\ Got(closed) =>
    \A c \in Counters(goos) : opened.counters[c] <= closed.counters[c]

\* tcpinfo_windows.go:146: "timeFieldMultiplier is used to convert fields
\* representing time in milliseconds to time.Duration (nanoseconds)".  The reported
\* connection time is the system's, which is in milliseconds.
ConnectedTimeExact ==
  Got(Last) /\ query = "idle" /\ goos = "windows" =>
    Last.ConnectedTimeNS = asked["ConnectionTimeMs"] * Millisecond
=============================================================================
