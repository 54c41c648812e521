------------------------------ MODULE ConnLinux ------------------------------
(***************************************************************************)
(* conniver.Conn on Linux: ConnWrap, with the kernel query of              *)
(* gatherAndReport made of the socket calls of LinuxTCPInfo.  The kernel   *)
(* counts on between and during the queries.  The package's adaptation to  *)
(* the kernel is over before a connection is wrapped; the flags and the    *)
(* size are those it ends with.  One goroutine closes, so there is one     *)
(* query at a time.                                                        *)
(***************************************************************************)
EXTENDS ConnWrap

CONSTANTS
  Versions,   \* the versions the running kernel may have
  Algorithms, \* the congestion control algorithms a socket may use
  Moving,     \* bound: the counters that the kernel moves
  OtherCalls  \* bound: the calls of a goroutine that does not close

ASSUME OneCloserAssumption == \A p, q \in Closers : p = q

VARIABLES
  kernel, detected,     \* the running kernel, and what the adaptation took it for
  sizeOfRawTCPInfo, flag,
  alg, counters,        \* the kernel's state of the connection
  qpc, raw, ccAlg,      \* GetTCPInfo's progress and locals
  result,               \* sysInfo and tcpErr of gatherAndReport
  infos,                \* what OpenedInfo and ClosedInfo point to
  before                \* history: the counters when a gathering began

adapted   == <<kernel, detected, sizeOfRawTCPInfo, flag, alg>>
sysInfo   == <<qpc, raw, ccAlg, result>>
recorded  == <<infos, before>>
linux     == <<adapted, counters, sysInfo, recorded>>
linuxVars == <<vars, linux>>

L == INSTANCE LinuxTCPInfo
       WITH pc <- qpc, i <- 0, adapts <- 1, MaxAdapts <- 1, Overrides <- {},
            linuxKernelVersion <- [Kernel |-> 0, Major |-> 0, Minor |-> 0]

\* The counters that are only ever added to; the backoff is reset by an acknowledgement.
Cumulative == L!Counters \ {"backoff"}

ASSUME MovingAssumption == Moving \subseteq Cumulative

\* The rows of the size table that the adaptation has found reached.
Reached == {r \in L!Rows : L!AtLeast(detected, L!tcpInfoSizes[r].Version)}

\* The package is initialised, and WrapConn is called: supportsTCPInfo is the flag of
\* the first row.  The handshake may have counted already.
LinuxInit ==
  /\ Init
  /\ kernel \in Versions /\ detected \in {kernel, L!Fallback}
  /\ flag = [r \in L!Rows |-> r \in Reached]
  /\ \/ Reached = {} /\ sizeOfRawTCPInfo = 0
     \/ \E newest \in Reached : /\ \A r \in Reached : r <= newest
                                /\ sizeOfRawTCPInfo = L!tcpInfoSizes[newest].Size
  /\ env.supports = flag[1]
  /\ alg \in Algorithms
  /\ counters \in SUBSET {c \in Moving : L!HasCounter(c)}
  /\ qpc = "ready" /\ raw = L!NoRaw /\ ccAlg = L!NoAlg /\ result = L!NoResult
  /\ infos = [s \in State |-> L!NoInfo]
  /\ before = [s \in State |-> IF s = "Opened" THEN counters ELSE {}]

\* The methods that do not touch the query or its results.
Elsewhere(p) ==
  /\ \/ Read(p) \/ Write(p) \/ SetReconnects(p) \/ ToMap(p) \/ GatherCheck(p)
     \/ GatherEligible(p) \/ Callback(p) \/ WrapReturns(p) \/ CloseSock(p)
  /\ UNCHANGED linux

\* Close begins; a Close after one that has recorded the info gathers nothing.
CloseBegins(p) ==
  /\ CloseStamp(p)
  /\ before' = [before EXCEPT !["Closed"] = IF Info["Closed"] = NoInfo THEN counters ELSE @]
  /\ UNCHANGED <<adapted, counters, sysInfo, infos>>

\* GetTCPInfo runs inside rawConn.Control, one socket call at a time.
Control(p) ==
  /\ pc[p] = "query"
  /\ L!Start \/ L!GetRawTCPInfo \/ L!GetTCPCongestionAlgorithm \/ L!GetCCInfo
  /\ UNCHANGED <<vars, recorded>>

\* Mutant: the error of GetTCPInfo is not looked at when there is a sysInfo.
ControlReturnsIgnoring(p) ==
  /\ qpc = "returned" /\ GatherQuery(p)
  /\ (query'[p] = NoInfo) = result.nil
  /\ UNCHANGED linux

\* Control returns to gatherAndReport.
ControlReturns(p) ==
  /\ qpc = "returned" /\ GatherQuery(p)
  /\ (query'[p] = NoInfo) = result.err
  /\ UNCHANGED linux

\* Mutant: the info is always OpenedInfo.
StoreInfoOpened(p) ==
  /\ GatherStore(p)
  /\ infos' = IF query[p] = NoInfo THEN infos ELSE [infos EXCEPT !["Opened"] = result.info]
  /\ L!Consume
  /\ UNCHANGED before

\* Mutant: at close the info of the open event is used again.
StoreInfoAgain(p) ==
  /\ GatherStore(p)
  /\ infos' = IF query[p] = NoInfo THEN infos
              ELSE [infos EXCEPT ![Reporting] = IF returned THEN infos["Opened"] ELSE result.info]
  /\ L!Consume
  /\ UNCHANGED before

\* The info is recorded for the event, or the error is.
StoreInfo(p) ==
  /\ GatherStore(p)
  /\ infos' = IF query[p] = NoInfo THEN infos ELSE [infos EXCEPT ![Reporting] = result.info]
  /\ L!Consume
  /\ UNCHANGED before

\* The kernel works on the connection.
KernelCounts ==
  /\ sock = "open"
  /\ \E c \in Moving \ counters : L!HasCounter(c) /\ counters' = counters \cup {c}
  /\ UNCHANGED <<vars, adapted, sysInfo, recorded>>

CallBound(p) == IF p \in Closers THEN MaxCalls ELSE OtherCalls

LinuxStep(p) ==
  /\ \/ Elsewhere(p) \/ CloseBegins(p) \/ Control(p) \/ ControlReturns(p) \/ StoreInfo(p)
  /\ calls'[p] <= CallBound(p)

LinuxTick == Tick /\ UNCHANGED linux

\* Everyone has made their calls.
LinuxDone ==
  /\ returned /\ \A p \in Procs : pc[p] = "idle" /\ calls[p] = CallBound(p)
  /\ UNCHANGED linuxVars

LinuxNext == (\E p \in Procs : LinuxStep(p)) \/ KernelCounts \/ LinuxTick \/ LinuxDone

LinuxSpec == LinuxInit /\ [][LinuxNext]_linuxVars

-----------------------------------------------------------------------------
Warned(s) == L!Warnings(infos[s]) \intersect Cumulative

\* The infos of one connection can be compared: they hold the same fields, name the
\* algorithm, and no warning at open is missing at close.
InfosComparable ==
  /\ \A s \in State : Info[s] # NoInfo => infos[s].alg = alg
  /\ Info["Closed"] # NoInfo => /\ infos["Closed"].valid = infos["Opened"].valid
                                /\ Warned("Opened") \subseteq Warned("Closed")

\* A warning is of its own event: what had been counted when WrapConn or Close was
\* called is in it (on a kernel that was recognised), and nothing that has not been
\* counted by now, although the query takes three socket calls.
WarningsOfEvent ==
  \A s \in State : Info[s] # NoInfo =>
    /\ detected = kernel => before[s] \intersect Cumulative \subseteq Warned(s)
    /\ Warned(s) \subseteq counters

-----------------------------------------------------------------------------
(* The refinement mapping to ConnEvents.                                   *)

\* The fields the package takes, and the counters the kernel writes for it.
GuardRow == [f \in L!Fields |-> L!Guard(f)]
RawEnd == [c \in Cumulative \ L!BaseCounters |-> L!RawTCPInfo[c].end]
Flagged == {f \in L!Fields : flag[GuardRow[f]]}
Wr == {c \in Cumulative : c \in L!BaseCounters \/ RawEnd[c] <= sizeOfRawTCPInfo}

eventForm == [valid |-> Flagged, room |-> Wr, alg |-> alg]

\* An event goes on from the call of gatherAndReport to its unlock.
eventNow == IF \E p \in Procs : pc[p] \in {"check", "eligible", "query", "store"}
            THEN Reporting ELSE "none"

eventReading == IF qpc \in {"alg", "cc"} THEN {raw.nonzero}
                ELSE IF qpc = "returned" /\ ~result.nil THEN {result.info.nonzero}
                ELSE {}

eventRecorded ==
  [s \in State |->
     IF Info[s] = NoInfo THEN {}
     ELSE {[valid |-> infos[s].valid, alg |-> infos[s].alg, nonzero |-> infos[s].nonzero]}]

Events == INSTANCE ConnEvents
            WITH form <- eventForm, event <- eventNow, reading <- eventReading,
                 recorded <- eventRecorded, failed <- InfoErr

\* Although a query takes three socket calls, any of which may fail after the kernel
\* was read, and the kernel counts on between them: an info is what the kernel had
\* counted at one instant of its own event, whole, and never comes from a query that
\* ended with an error; no query follows an error.
ImplementsEvents == Events!Spec

=============================================================================
