--------------------------- MODULE WindowsTCPInfo ----------------------------
(***************************************************************************)
(* GetTCPInfo on Windows asks for the v1 structure, falls back to v0, and  *)
(* unpacks what it got.                                                    *)
(***************************************************************************)
EXTENDS TCPInfoQuery

\* The fields of both structures, and one of those v1 adds.
WinCounters == {"BytesRetrans", "SynRetrans", "BytesReordered",
                "TimeoutEpisodes", "DupAcksIn", "FastRetrans"}
V0Fields == WinCounters \union {"ConnectionTimeMs", "MinRttUs"}
V1Fields == V0Fields \union {"SndLimTimeRwin"}

timeFieldMultiplier == Microsecond

\* SysInfo.ToInfo and what is kept of the SysInfo itself.
WinInfo(packed, connected, limited) ==
  [status |-> "info", TxOptions |-> {}, RxOptions |-> {},
   RTT |-> packed["MinRttUs"] * Microsecond,
   Retransmits |-> packed["SynRetrans"],
   counters |-> [c \in WinCounters |-> packed[c]],
   ConnectedTimeNS |-> connected, SndLimTransTimeRwin |-> limited]

\* Mutant: the retransmitted bytes are not copied.
UnpackV0Forgets(packed) ==
  WinInfo([packed EXCEPT !["BytesRetrans"] = 0], packed["ConnectionTimeMs"] * Millisecond, 0)

UnpackV0(packed) == WinInfo(packed, packed["ConnectionTimeMs"] * Millisecond, 0)

UnpackV1(packed) ==
  WinInfo(packed, packed["ConnectionTimeMs"] * timeFieldMultiplier,
          packed["SndLimTimeRwin"] * Millisecond)

\* The first WSAIoctl: it may fail for more reasons than an unknown version.
TryV1 ==
  /\ query = "first" /\ goos = "windows"
  /\ \/ 1 \in versions /\ Return(UnpackV1(socket))
     \/ query' = "v0" /\ UNCHANGED <<system, socket, results>>

\* The second WSAIoctl; its error is returned.
TryV0 ==
  /\ query = "v0"
  /\ \/ 0 \in versions /\ Return(UnpackV0(socket))
     \/ Return(NoInfo)

=============================================================================
