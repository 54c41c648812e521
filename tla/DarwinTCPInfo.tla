---------------------------- MODULE DarwinTCPInfo ----------------------------
(***************************************************************************)
(* GetTCPInfo on Darwin: one getsockopt, and the options that the peers    *)
(* have agreed on, with the window scale of each direction.                *)
(***************************************************************************)
EXTENDS TCPInfoQuery

DarwinCounters == {"TxRetransmitBytes", "TxRetransmitPackets", "RxOutOfOrderBytes"}
DarwinFields == DarwinCounters \union {"SRTT"}

tcpOptions == {"Timestamps", "SACK", "WindowScale", "ECN"}

\* The loop over tcpOptions for one direction: only WindowScale has a value.
OptionList(scale) ==
  {Option(o, IF o = "WindowScale" THEN scale ELSE 0) : o \in options \intersect tcpOptions}

\* Mutant: both directions get the scale of the send window.
DarwinUnpackOneScale(packed) ==
  [status |-> "info", TxOptions |-> OptionList(wscale.snd), RxOptions |-> OptionList(wscale.snd),
   RTT |-> packed["SRTT"] * Millisecond,
   Retransmits |-> packed["TxRetransmitPackets"],
   counters |-> [c \in DarwinCounters |-> packed[c]]]

\* RawInfo.Unpack and SysInfo.ToInfo.
DarwinUnpack(packed) ==
  [status |-> "info", TxOptions |-> OptionList(wscale.snd), RxOptions |-> OptionList(wscale.rcv),
   RTT |-> packed["SRTT"] * Millisecond,
   Retransmits |-> packed["TxRetransmitPackets"],
   counters |-> [c \in DarwinCounters |-> packed[c]]]

\* getsockopt(TCP_CONNECTION_INFO); its error is returned.
Getsockopt ==
  /\ query = "first" /\ goos = "darwin"
  /\ \/ Return(DarwinUnpack(socket))
     \/ Return(NoInfo)

=============================================================================
