---------------------------- MODULE TCPInfoQuery -----------------------------
(***************************************************************************)
(* What the queries of pkg/tcpinfo on Windows, Darwin and the systems      *)
(* without one have in common.  GetTCPInfo is called twice for a           *)
(* connection, at Opened and at Closed, while the connection works; its    *)
(* result becomes a tcpinfo.Info.  The system's values are counted up to   *)
(* MaxValue; durations are nanoseconds.  Of the fields that are copied     *)
(* unchanged the counters that Warnings reads are kept, of the durations   *)
(* one of each conversion.                                                 *)
(***************************************************************************)
EXTENDS Naturals

CONSTANT MaxValue   \* bound on every value of the system

ASSUME MaxValueAssumption == MaxValue \in Nat \ {0}

Microsecond == 1000
Millisecond == 1000000

Option(kind, value) == [Kind |-> kind, Value |-> value]

VARIABLES
  goos,       \* "windows", "darwin" or "other"
  versions,   \* Windows: the structures the system's SIO_TCP_INFO knows
  options,    \* Darwin: what the handshake has agreed on, and ...
  wscale,     \* ... the window scales of the two directions
  socket,     \* the system's values for the connection
  query,      \* "idle", or the call GetTCPInfo makes next
  asked,      \* the values when the last call was answered
  opened, closed   \* the results of the two calls

system == <<goos, versions, options, wscale>>
results == <<asked, opened, closed>>
vars == <<system, socket, query, results>>

NoInfo == [status |-> "error"]
NotAsked == [status |-> "not asked"]

Supported == goos # "other"

\* Mutant: a connection is asked for its info again after Closed.
StartAgain ==
  /\ query = "idle" /\ Supported
  /\ query' = "first"
  /\ UNCHANGED <<system, socket, results>>

\* Called at Opened and, if that has not failed, at Closed.
Start ==
  /\ query = "idle" /\ Supported /\ closed = NotAsked /\ opened # NoInfo
  /\ query' = "first"
  /\ UNCHANGED <<system, socket, results>>

\* The result is that of the first of Opened and Closed that has none.
Return(result) ==
  /\ query' = "idle"
  /\ asked' = socket
  /\ IF opened = NotAsked THEN opened' = result /\ UNCHANGED closed
                          ELSE closed' = result /\ UNCHANGED opened
  /\ UNCHANGED <<system, socket>>

=============================================================================
