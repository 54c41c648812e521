--------------------------- MODULE ConnLinuxProofs ---------------------------
(***************************************************************************)
(* The connection on Linux, for any kernels, algorithms and goroutines of  *)
(* which one closes.                                                       *)
(***************************************************************************)
EXTENDS ConnLinux, ConnRefinementProofs

\* By construction a behaviour of the composition is one of ConnWrap; this carries what
\* is proved of ConnWrap over to it.
LEMMA LinuxIsConn == LinuxSpec => Spec
<1>1. LinuxInit => Init
  BY DEF LinuxInit
<1>2. [LinuxNext]_linuxVars => [Next]_vars
  <2> SUFFICES ASSUME [LinuxNext]_linuxVars PROVE [Next]_vars
    OBVIOUS
  <2>1. ASSUME NEW p \in Procs, LinuxStep(p) PROVE Next \/ UNCHANGED vars
    <3>1. CASE Elsewhere(p)
      BY <3>1 DEF Elsewhere, Next, Step, GatherAndReport, Close
    <3>2. CASE CloseBegins(p)
      BY <3>2 DEF CloseBegins, Next, Step, Close
    <3>3. CASE Control(p)
      BY <3>3 DEF Control
    <3>4. CASE ControlReturns(p)
      BY <3>4 DEF ControlReturns, Next, Step, GatherAndReport
    <3>5. CASE StoreInfo(p)
      BY <3>5 DEF StoreInfo, Next, Step, GatherAndReport
    <3> QED
      BY <2>1, <3>1, <3>2, <3>3, <3>4, <3>5 DEF LinuxStep
  <2>2. CASE KernelCounts
    BY <2>2 DEF KernelCounts
  <2>3. CASE LinuxTick
    BY <2>3 DEF LinuxTick, Next
  <2>4. CASE LinuxDone \/ UNCHANGED linuxVars
    BY <2>4 DEF LinuxDone, linuxVars
  <2> QED
    BY <2>1, <2>2, <2>3, <2>4 DEF LinuxNext
<1> QED
  BY <1>1, <1>2, PTL DEF LinuxSpec, Spec

\* On Linux the close callback precedes the close and is made once, and a recorded
\* info stays, whatever socket calls fail.
THEOREM LinuxReports ==
  LinuxSpec => []ReportBeforeClose /\ []ReportedOnce /\ InfoWriteOnce
<1>1. OneCloser
  BY OneCloserAssumption DEF OneCloser
<1>2. Spec => []ReportBeforeClose /\ []ReportedOnce /\ InfoWriteOnce
  BY <1>1, ReportPrecedesClose, ReportOnce, InfoKept
<1> QED
  BY <1>2, LinuxIsConn

\* On Linux the statistics act like the atomic object and the returned maps are
\* coherent, and the reports keep what ConnWrap promises of them: the socket calls that
\* the kernel query is made of disturb neither.
THEOREM LinuxStatistics ==
  LinuxSpec => /\ ImplementsStats /\ FieldsNeverRegress
               /\ []BytesExact /\ []StampsCoherent /\ []SnapshotCoherent
BY LinuxIsConn, Refinement, NeverRegress, BytesCorrect, StampsCorrect,
   SnapshotsCorrect

\* On Linux a close report comes with a closed info when no query failed on an open
\* socket, and a closed info with the opened one it is compared with.
THEOREM LinuxCloses ==
  LinuxSpec => []ClosedReportHasInfo /\ []ClosedInfoNeedsOpenedInfo
BY LinuxIsConn, ClosedReportCorrect, InfosCorrect

-----------------------------------------------------------------------------
(* What the infos hold.                                                    *)

\* The fields of an info and its room for counters, in terms of the tables.
LEMMA FormIs ==
  /\ Flagged = {f \in L!Fields : flag[L!Guard(f)]}
  /\ Wr = {c \in Cumulative : c \in L!BaseCounters \/ L!RawTCPInfo[c].end <= sizeOfRawTCPInfo}
BY DEF Flagged, Wr, GuardRow, RawEnd

\* On a kernel that was recognised these are all the counters it has.
AdaptInv ==
  detected = kernel =>
    \A c \in Cumulative : L!HasCounter(c) => c \in Wr /\ (c \in L!BaseCounters \/ c \in Flagged)

\* The counters only grow, from what was there when a gathering began.
CountersInv ==
  /\ counters \subseteq {c \in Cumulative : L!HasCounter(c)}
  /\ \A s \in State : before[s] \subseteq counters
  /\ before = [s \in State |-> before[s]] /\ infos = [s \in State |-> infos[s]]

Complete(info) == info.valid = Flagged /\ info.alg = alg

\* Read after the gathering of s began, and not in the future.
ReadFor(nonzero, s) == nonzero \subseteq counters \intersect Wr /\ before[s] \intersect Wr \subseteq nonzero

\* Read by the gathering that is going on, and after what was read at open.
Fresh(nonzero) ==
  /\ ReadFor(nonzero, Reporting)
  /\ returned => infos["Opened"].nonzero \subseteq nonzero

\* A query belongs to a goroutine that gathers, and its locals are fresh.
QueryInv ==
  /\ qpc \in {"ready", "raw", "alg", "cc", "returned"}
  /\ \A p \in Procs : pc[p] = "store" => qpc = "returned" /\ ((query[p] = NoInfo) = result.err)
  /\ qpc # "ready" => \E p \in Procs : pc[p] \in {"query", "store"}
  /\ qpc \in {"alg", "cc"} => Fresh(raw.nonzero)
  /\ qpc = "cc" => ccAlg = alg
  /\ qpc = "returned" /\ ~result.err => Complete(result.info) /\ Fresh(result.info.nonzero)

\* The recorded infos are complete, and read in the order of their events.
RecordInv ==
  /\ \A s \in State : Info[s] # NoInfo => Complete(infos[s]) /\ ReadFor(infos[s].nonzero, s)
  /\ Info["Closed"] # NoInfo => infos["Opened"].nonzero \subseteq infos["Closed"].nonzero

\* The size table, up to the newest row that is reached, has room for the counters.
LEMMA AdaptStart == LinuxInit => AdaptInv
<1> SUFFICES ASSUME LinuxInit, detected = kernel, NEW c \in Cumulative, L!HasCounter(c)
             PROVE  c \in Wr /\ (c \in L!BaseCounters \/ c \in Flagged)
  BY DEF AdaptInv
<1>1. CASE c \in L!BaseCounters
  BY <1>1 DEF Wr
<1>2. CASE c \notin L!BaseCounters
  <2>1. c \in {"bytes_retrans", "rcv_ooopack", "sndbuf_limited", "rwnd_limited"}
    BY <1>2 DEF Cumulative, L!Counters
  <2> DEFINE row == L!RawTCPInfo[c].row
  <2>2. /\ row \in {7, 9, 10} /\ c \in L!Fields /\ L!Guard(c) = row
        /\ L!RawTCPInfo[c].end \in Nat
        /\ row = 7 => L!RawTCPInfo[c].end <= 192
        /\ row = 9 => L!RawTCPInfo[c].end <= 224
        /\ row = 10 => L!RawTCPInfo[c].end <= 232
    <3>1. /\ L!RawTCPInfo["bytes_retrans"] = L!Field(216, 9)
          /\ L!RawTCPInfo["rcv_ooopack"] = L!Field(228, 10)
          /\ L!RawTCPInfo["sndbuf_limited"] = L!Field(192, 7)
          /\ L!RawTCPInfo["rwnd_limited"] = L!Field(184, 7)
      BY DEF L!RawTCPInfo
    <3>2. c \in L!Fields
      BY <2>1 DEF L!RawTCPInfo, L!Fields
    <3> QED
      BY <2>1, <3>1, <3>2 DEF L!Field, L!Guard
  <2>3. row \in Reached
    BY <1>2, <2>2 DEF L!HasCounter, L!Has, Reached, L!Rows
  <2>4. c \in Flagged
    BY <2>2, <2>3, FormIs DEF LinuxInit, Reached
  <2>5. PICK n \in Reached : n >= row /\ sizeOfRawTCPInfo = L!tcpInfoSizes[n].Size
    <3>1. PICK n \in Reached : /\ \A r \in Reached : r <= n
                               /\ sizeOfRawTCPInfo = L!tcpInfoSizes[n].Size
      BY <2>3 DEF LinuxInit
    <3>2. n >= row
      BY <2>2, <2>3, <3>1 DEF Reached, L!Rows
    <3> QED
      BY <3>1, <3>2
  <2>6. n \in {7, 8, 9, 10, 11, 12, 13}
    BY <2>2, <2>5 DEF Reached, L!Rows
  <2>7. /\ L!tcpInfoSizes[n].Size \in Nat /\ L!tcpInfoSizes[n].Size >= 192
        /\ n >= 9 => L!tcpInfoSizes[n].Size >= 224
        /\ n >= 10 => L!tcpInfoSizes[n].Size >= 232
    <3>1. /\ L!tcpInfoSizes[7].Size = 192 /\ L!tcpInfoSizes[8].Size = 200
          /\ L!tcpInfoSizes[9].Size = 224 /\ L!tcpInfoSizes[10].Size = 232
          /\ L!tcpInfoSizes[11].Size = 232 /\ L!tcpInfoSizes[12].Size = 240
          /\ L!tcpInfoSizes[13].Size = 248
      BY DEF L!tcpInfoSizes, L!Row
    <3> QED
      BY <2>6, <3>1
  <2>8. L!RawTCPInfo[c].end <= sizeOfRawTCPInfo
    <3> HIDE DEF row
    <3> QED
      BY <2>2, <2>5, <2>6, <2>7
  <2> QED
    BY <2>4, <2>8, FormIs
<1> QED
  BY <1>1, <1>2

ConnInv == TypeOK /\ WrapInv /\ OpenedInv

\* The facts of ConnWrap that the composition's invariant rests on hold on Linux.
LEMMA ConnFacts == LinuxSpec => []ConnInv
BY LinuxIsConn, TypeCorrect, WrapCorrect, OpenedCorrect, PTL DEF ConnInv

\* A wrapped connection starts with no info and no query under way.
LEMMA LinuxStart == LinuxInit => CountersInv /\ QueryInv /\ RecordInv
<1> SUFFICES ASSUME LinuxInit PROVE CountersInv /\ QueryInv /\ RecordInv
  OBVIOUS
<1>1. CountersInv
  BY MovingAssumption DEF LinuxInit, CountersInv, State
<1>2. QueryInv
  BY ProcsAssumption DEF LinuxInit, Init, QueryInv
<1>3. RecordInv
  BY DEF LinuxInit, Init, RecordInv, State
<1> QED
  BY <1>1, <1>2, <1>3

\* There is one query at a time.
LEMMA Alone ==
  ASSUME ConnInv, NEW p \in Procs, NEW q \in Procs,
         pc[p] \in {"query", "store"}, returned \/ pc[q] # "idle",
         returned => q \in Closers
  PROVE  p = q
BY OneCloserAssumption DEF ConnInv, WrapInv, Gathering

\* Nothing of the adaptation changes.
LEMMA AdaptationKept ==
  ASSUME UNCHANGED adapted
  PROVE  /\ Flagged' = Flagged /\ Wr' = Wr /\ alg' = alg
         /\ AdaptInv' = AdaptInv
         /\ \A c \in Cumulative : L!HasCounter(c)' = L!HasCounter(c)
BY DEF adapted, Flagged, Wr, GuardRow, RawEnd, AdaptInv, L!HasCounter, L!Has

\* The other methods touch neither a query nor an info; WrapConn returns after its query.
LEMMA ElsewhereKeeps ==
  ASSUME ConnInv, CountersInv, QueryInv, RecordInv, NEW p \in Procs, Elsewhere(p)
  PROVE  CountersInv' /\ QueryInv' /\ RecordInv'
<1>1. UNCHANGED <<qpc, raw, ccAlg, result, infos, before, counters>> /\ UNCHANGED adapted
  BY DEF Elsewhere, linux, sysInfo, recorded
<1>2. /\ Info' = Info /\ query' = query
      /\ \A q \in Procs : /\ pc'[q] = "store" <=> pc[q] = "store"
                          /\ pc[q] = "query" => pc'[q] = "query"
  <2> USE DEF ConnInv, TypeOK, locals, meta, hist, gatherUnchanged
  <2>1. CASE Read(p) \/ Write(p)
    BY <2>1 DEF Read, Write, IOReturns, IOLock, ReadUnlock, WriteUnlock, IOUnlock, Goto, Call, Ret, Crit
  <2>2. CASE SetReconnects(p)
    BY <2>2 DEF SetReconnects
  <2>3. CASE ToMap(p)
    BY <2>3 DEF ToMap, ToMapLock, ToMapUnlock, ToMapReturn, Goto, Call
  <2>4. CASE GatherCheck(p) \/ GatherEligible(p) \/ Callback(p)
    BY <2>4 DEF GatherCheck, GatherEligible, Callback, Goto
  <2>5. CASE WrapReturns(p) \/ CloseSock(p)
    BY <2>5 DEF WrapReturns, CloseSock, Goto
  <2> QED
    BY <2>1, <2>2, <2>3, <2>4, <2>5 DEF Elsewhere
<1>3. returned' = returned \/ qpc = "ready"
  <2>1. CASE WrapReturns(p)
    <3>1. pc[p] = "gathered" /\ ~returned
      BY <2>1 DEF WrapReturns
    <3>2. \A q \in Procs : pc[q] \notin {"query", "store"}
      BY <3>1, SMTT(20) DEF ConnInv, WrapInv
    <3> QED
      BY <3>2 DEF QueryInv
  <2>2. CASE ~WrapReturns(p)
    BY <2>2 DEF Elsewhere, Read, Write, IOReturns, IOLock, ReadUnlock, WriteUnlock, IOUnlock, Call,
                SetReconnects, ToMap, ToMapLock, ToMapUnlock, ToMapReturn, GatherCheck,
                GatherEligible, Callback, CloseSock, gatherUnchanged
  <2> QED
    BY <2>1, <2>2
<1>4. CountersInv'
  BY <1>1, AdaptationKept DEF CountersInv
<1>5. RecordInv'
  BY <1>1, <1>2, AdaptationKept, Zenon DEF RecordInv, Complete, ReadFor
<1>6. QueryInv'
  <2>1. CASE qpc = "ready"
    BY <1>1, <1>2, <2>1, Zenon DEF QueryInv
  <2>2. CASE qpc # "ready"
    <3>1. returned' = returned
      BY <1>3, <2>2
    <3>2. /\ Fresh(raw.nonzero)' <=> Fresh(raw.nonzero)
          /\ Fresh(result.info.nonzero)' <=> Fresh(result.info.nonzero)
      BY <1>1, <3>1, AdaptationKept DEF Fresh, ReadFor, Reporting
    <3>3. (Complete(result.info)' <=> Complete(result.info)) /\ alg' = alg
      BY <1>1, AdaptationKept DEF Complete
    <3> QED
      BY <1>1, <1>2, <3>2, <3>3, Zenon DEF QueryInv
  <2> QED
    BY <2>1, <2>2
<1> QED
  BY <1>4, <1>5, <1>6

\* When Close begins no query is going on.
LEMMA CloseKeeps ==
  ASSUME ConnInv, CountersInv, QueryInv, RecordInv, NEW p \in Procs, CloseBegins(p)
  PROVE  CountersInv' /\ QueryInv' /\ RecordInv'
<1>1. /\ UNCHANGED <<qpc, raw, ccAlg, result, infos, counters>> /\ UNCHANGED adapted
      /\ before' = [before EXCEPT !["Closed"] = IF Info["Closed"] = NoInfo THEN counters ELSE @]
  BY DEF CloseBegins, sysInfo
<1>2. /\ p \in Closers /\ returned /\ pc[p] = "idle" /\ Info' = Info
      /\ pc' = [pc EXCEPT ![p] = "check"]
  BY DEF CloseBegins, CloseStamp, Call, Goto
<1>3. \A q \in Procs : pc[q] \notin {"query", "store"}
  BY <1>2, Alone
<1>4. qpc = "ready"
  BY <1>3 DEF QueryInv
<1>5. CountersInv'
  BY <1>1, AdaptationKept DEF CountersInv, State
<1>6. RecordInv'
  <2>1. \A s \in State : Info[s] # NoInfo => before'[s] = before[s]
    BY <1>1 DEF CountersInv, State
  <2> QED
    BY <1>1, <1>2, <2>1, AdaptationKept DEF RecordInv, Complete, ReadFor
<1>7. QueryInv'
  BY <1>1, <1>2, <1>3, <1>4, Zenon DEF QueryInv, ConnInv, TypeOK
<1> QED
  BY <1>5, <1>6, <1>7

\* The socket calls read fresh counters and take the fields of the adaptation.
LEMMA ControlKeeps ==
  ASSUME ConnInv, CountersInv, QueryInv, RecordInv, NEW p \in Procs, Control(p)
  PROVE  CountersInv' /\ QueryInv' /\ RecordInv'
<1>1. pc[p] = "query" /\ UNCHANGED <<pc, query, returned, Info, infos, before>>
  BY DEF Control, vars, sched, locals, meta, recorded
<1>2. UNCHANGED counters /\ UNCHANGED adapted
  BY Zenon DEF Control, L!Start, L!GetRawTCPInfo, L!GetTCPCongestionAlgorithm, L!GetCCInfo,
         L!Unchanged, L!environment, L!adaptation, adapted
<1>3. \A q \in Procs : pc[q] # "store"
  <2> SUFFICES ASSUME NEW q \in Procs, pc[q] = "store" PROVE FALSE
    OBVIOUS
  <2>1. q = p
    <3>1. returned => p \in Closers
      BY <1>1 DEF ConnInv, WrapInv, Gathering
    <3> QED
      BY <1>1, <3>1, Alone
  <2> QED
    BY <1>1, <2>1
<1>4. CountersInv' /\ RecordInv'
  BY <1>1, <1>2, AdaptationKept DEF CountersInv, RecordInv, Complete, ReadFor
<1>5. \A nonzero : Fresh(nonzero)' = Fresh(nonzero)
  BY <1>1, <1>2, AdaptationKept DEF Fresh, ReadFor, Reporting
<1>6. \A info : Complete(info)' = Complete(info)
  BY <1>2, AdaptationKept DEF Complete
<1>7. CASE L!Start
  <2>1. qpc' = "raw" \/ (qpc' = "returned" /\ result'.err)
    BY <1>7 DEF L!Start, L!ReturnNil
  <2> QED
    BY <1>1, <1>3, <1>4, <2>1 DEF QueryInv
<1>8. CASE L!GetRawTCPInfo
  <2>1. CASE L!ReturnNil
    <3>1. qpc' = "returned" /\ result'.err
      BY <2>1 DEF L!ReturnNil
    <3> QED
      BY <1>1, <1>3, <1>4, <3>1, Zenon DEF QueryInv
  <2>2. CASE ~L!ReturnNil
    <3>1. qpc' = "alg" /\ raw'.nonzero = counters \intersect Wr
      BY <1>8, <2>2, FormIs DEF L!GetRawTCPInfo, CountersInv
    <3>2. Fresh(raw'.nonzero)
      <4>1. returned => infos["Opened"].nonzero \subseteq counters \intersect Wr
        BY <1>1 DEF ConnInv, OpenedInv, RecordInv, ReadFor, State
      <4>2. Reporting \in State
        BY DEF Reporting, State
      <4> QED
        BY <3>1, <4>1, <4>2 DEF Fresh, ReadFor, CountersInv
    <3>3. Fresh(raw.nonzero)'
      BY <3>2, <1>1, <1>2, AdaptationKept DEF Fresh, ReadFor, Reporting
    <3> QED
      BY <1>1, <1>3, <1>4, <3>1, <3>3 DEF QueryInv
  <2> QED
    BY <2>1, <2>2
<1>9. ASSUME qpc' = "returned",
             ~result'.err => Complete(result'.info) /\ result'.info.nonzero = raw.nonzero,
             Fresh(raw.nonzero)
      PROVE  QueryInv'
  <2>1. ~result'.err => Complete(result.info)' /\ Fresh(result.info.nonzero)'
    BY <1>1, <1>2, <1>9, AdaptationKept DEF Complete, Fresh, ReadFor, Reporting
  <2> QED
    BY <1>1, <1>3, <1>9, <2>1 DEF QueryInv
<1>10. CASE L!GetTCPCongestionAlgorithm
  <2>1. qpc = "alg" /\ Fresh(raw.nonzero)
    BY <1>10 DEF L!GetTCPCongestionAlgorithm, QueryInv
  <2>2. CASE ccAlg' = alg /\ qpc' = "cc" /\ UNCHANGED <<raw, result>>
    BY <1>1, <1>2, <1>3, <1>4, <1>5, <2>1, <2>2, Zenon DEF QueryInv, adapted
  <2>3. CASE L!Return(L!Unpack(raw, L!NoAlg, L!NoAlg), TRUE)
    <3>1. qpc' = "returned" /\ result'.err
      BY <2>3 DEF L!Return
    <3> QED
      BY <1>4, <1>9, <2>1, <3>1
  <2>4. CASE L!Return(L!Unpack(raw, alg, L!NoAlg), FALSE)
    <3>1. qpc' = "returned" /\ Complete(result'.info) /\ result'.info.nonzero = raw.nonzero
      BY <2>4, FormIs DEF L!Return, L!Unpack, Complete
    <3> QED
      BY <1>4, <1>9, <2>1, <3>1
  <2> QED
    BY <1>10, <2>2, <2>3, <2>4, Zenon DEF L!GetTCPCongestionAlgorithm
<1>11. CASE L!GetCCInfo
  <2>1. qpc = "cc" /\ Fresh(raw.nonzero) /\ ccAlg = alg
    BY <1>11 DEF L!GetCCInfo, QueryInv
  <2>2. PICK cc, err : L!Return(L!Unpack(raw, ccAlg, cc), err)
    BY <1>11, SMTT(20) DEF L!GetCCInfo
  <2>3. qpc' = "returned" /\ Complete(result'.info) /\ result'.info.nonzero = raw.nonzero
    BY <2>1, <2>2, FormIs DEF L!Return, L!Unpack, Complete
  <2> QED
    BY <1>4, <1>9, <2>1, <2>3
<1> QED
  BY <1>7, <1>8, <1>10, <1>11 DEF Control

\* Control's return keeps the error apart from the info.
LEMMA ReturnKeeps ==
  ASSUME ConnInv, CountersInv, QueryInv, RecordInv, NEW p \in Procs, ControlReturns(p)
  PROVE  CountersInv' /\ QueryInv' /\ RecordInv'
<1>1. /\ UNCHANGED <<qpc, raw, ccAlg, result, infos, before, counters>> /\ UNCHANGED adapted
      /\ qpc = "returned" /\ ((query'[p] = NoInfo) = result.err)
  BY DEF ControlReturns, linux, sysInfo, recorded
<1>2. /\ pc[p] = "query" /\ pc' = [pc EXCEPT ![p] = "store"] /\ Info' = Info /\ returned' = returned
      /\ \A q \in Procs : q # p => query'[q] = query[q]
  <2>1. query \in [Procs -> Nat]
    BY DEF ConnInv, TypeOK
  <2> QED
    BY <2>1 DEF ControlReturns, GatherQuery, Goto, gatherUnchanged, meta
<1>3. CountersInv' /\ RecordInv'
  BY <1>1, <1>2, AdaptationKept DEF CountersInv, RecordInv, Complete, ReadFor
<1>4. \A q \in Procs : pc'[q] = "store" => ((query'[q] = NoInfo) = result.err)
  <2>1. pc \in [Procs -> PCs]
    BY DEF ConnInv, TypeOK
  <2>2. ASSUME NEW q \in Procs, q # p, pc[q] = "store"
        PROVE  (query[q] = NoInfo) = result.err
    BY <2>2 DEF QueryInv
  <2> SUFFICES ASSUME NEW q \in Procs, pc'[q] = "store"
               PROVE  (query'[q] = NoInfo) = result.err
    OBVIOUS
  <2>3. CASE q = p
    BY <1>1, <2>3
  <2>4. CASE q # p
    <3>1. pc[q] = "store" /\ query'[q] = query[q]
      BY <1>2, <2>1, <2>4
    <3> QED
      BY <2>2, <2>4, <3>1
  <2> QED
    BY <2>3, <2>4
<1>5. pc'[p] = "store"
  <2>1. pc \in [Procs -> PCs]
    BY DEF ConnInv, TypeOK
  <2> QED
    BY <1>2, <2>1
<1>6. QueryInv'
  BY <1>1, <1>2, <1>4, <1>5, AdaptationKept DEF QueryInv, Complete, Fresh, ReadFor, Reporting
<1> QED
  BY <1>3, <1>6

\* What is stored for an event is what its own query has read.
LEMMA StoreKeeps ==
  ASSUME ConnInv, CountersInv, QueryInv, RecordInv, NEW p \in Procs, StoreInfo(p)
  PROVE  CountersInv' /\ QueryInv' /\ RecordInv'
<1>1. /\ UNCHANGED counters /\ UNCHANGED adapted /\ before' = before /\ qpc' = "ready"
      /\ infos' = IF query[p] = NoInfo THEN infos ELSE [infos EXCEPT ![Reporting] = result.info]
  BY DEF StoreInfo, L!Consume, L!Unchanged, L!environment, L!adaptation, adapted
<1>2. /\ pc[p] = "store" /\ pc' = [pc EXCEPT ![p] = "callback"] /\ returned' = returned
      /\ Info' = IF query[p] = NoInfo THEN Info ELSE [Info EXCEPT ![Reporting] = query[p]]
  BY DEF StoreInfo, GatherStore, Goto, gatherUnchanged
<1>3. \A q \in Procs : pc'[q] # "store"
  <2> SUFFICES ASSUME NEW q \in Procs, pc'[q] = "store" PROVE FALSE
    OBVIOUS
  <2>1. q # p /\ pc[q] = "store"
    BY <1>2 DEF ConnInv, TypeOK
  <2>2. returned => p \in Closers
    BY <1>2 DEF ConnInv, WrapInv, Gathering
  <2> QED
    BY <1>2, <2>1, <2>2, Alone
<1>4. Reporting \in State /\ Reporting' = Reporting
  BY <1>2 DEF Reporting, State
<1>5. CountersInv'
  BY <1>1, <1>4, AdaptationKept DEF CountersInv
<1>6. QueryInv'
  BY <1>1, <1>3, SMTT(20) DEF QueryInv
<1>7. CASE query[p] = NoInfo
  BY <1>1, <1>2, <1>5, <1>6, <1>7, AdaptationKept DEF RecordInv, Complete, ReadFor
<1>8. CASE query[p] # NoInfo
  <2>1. Complete(result.info) /\ Fresh(result.info.nonzero)
    BY <1>2, <1>8, Zenon DEF QueryInv
  <2>2. \A s \in State : /\ infos'[s] = IF s = Reporting THEN result.info ELSE infos[s]
                         /\ s # Reporting => Info'[s] = Info[s]
    BY <1>1, <1>2, <1>8 DEF CountersInv, ConnInv, TypeOK
  <2>3. \A s \in State : Info'[s] # NoInfo => Complete(infos'[s]) /\ ReadFor(infos'[s].nonzero, s)
    BY <1>4, <2>1, <2>2 DEF RecordInv, Fresh
  <2>4. Info'["Closed"] # NoInfo => infos'["Opened"].nonzero \subseteq infos'["Closed"].nonzero
    <3>1. CASE returned
      <4>1. Reporting = "Closed"
        BY <3>1 DEF Reporting
      <4> QED
        BY <2>1, <2>2, <3>1, <4>1 DEF Fresh, State
    <3>2. CASE ~returned
      <4>1. Info["Closed"] = NoInfo /\ Reporting = "Opened"
        BY <3>2 DEF ConnInv, WrapInv, Reporting
      <4> QED
        BY <2>2, <4>1 DEF State
    <3> QED
      BY <3>1, <3>2
  <2>5. RecordInv'
    BY <1>1, <2>3, <2>4, AdaptationKept, Zenon DEF RecordInv, Complete, ReadFor
  <2> QED
    BY <1>5, <1>6, <2>5
<1> QED
  BY <1>7, <1>8

\* The kernel only adds to the counters.
LEMMA CountKeeps ==
  ASSUME CountersInv, QueryInv, RecordInv, KernelCounts
  PROVE  CountersInv' /\ QueryInv' /\ RecordInv'
<1>1. /\ UNCHANGED <<pc, query, returned, Info, qpc, raw, ccAlg, result, infos, before>>
      /\ UNCHANGED adapted
  BY DEF KernelCounts, vars, sched, locals, meta, sysInfo, recorded
<1>2. PICK c \in Cumulative : L!HasCounter(c) /\ counters' = counters \cup {c}
  BY MovingAssumption DEF KernelCounts
<1>3. CountersInv'
  BY <1>1, <1>2, AdaptationKept DEF CountersInv
<1>4. RecordInv'
  BY <1>1, <1>2, AdaptationKept, SMTT(20) DEF RecordInv, Complete, ReadFor
<1>5. QueryInv'
  BY <1>1, <1>2, AdaptationKept DEF QueryInv, Complete, Fresh, ReadFor, Reporting
<1> QED
  BY <1>3, <1>4, <1>5

\* A step that touches neither the query nor the infos keeps the invariant.
LEMMA StutterKeeps ==
  ASSUME CountersInv, QueryInv, RecordInv, UNCHANGED <<pc, query, returned, Info>>, UNCHANGED linux
  PROVE  CountersInv' /\ QueryInv' /\ RecordInv'
<1>1. UNCHANGED <<qpc, raw, ccAlg, result, infos, before, counters>> /\ UNCHANGED adapted
  BY DEF linux, sysInfo, recorded
<1>2. CountersInv' /\ RecordInv'
  BY <1>1, AdaptationKept DEF CountersInv, RecordInv, Complete, ReadFor
<1>3. QueryInv'
  BY <1>1, AdaptationKept DEF QueryInv, Complete, Fresh, ReadFor, Reporting
<1> QED
  BY <1>2, <1>3

\* The inductive invariant of the composition holds in every reachable state.
LEMMA LinuxInv == LinuxSpec => [](AdaptInv /\ CountersInv /\ QueryInv /\ RecordInv)
<1>1. LinuxInit => AdaptInv /\ CountersInv /\ QueryInv /\ RecordInv
  BY AdaptStart, LinuxStart
<1>2. AdaptInv /\ [LinuxNext]_linuxVars => AdaptInv'
  <2>1. [LinuxNext]_linuxVars => UNCHANGED adapted
    BY Zenon DEF LinuxNext, LinuxStep, Elsewhere, CloseBegins, Control, ControlReturns, StoreInfo,
           KernelCounts, LinuxTick, LinuxDone, linuxVars, linux, adapted, L!Start, L!GetRawTCPInfo,
           L!GetTCPCongestionAlgorithm, L!GetCCInfo, L!Consume, L!Unchanged, L!environment,
           L!adaptation
  <2> QED
    BY <2>1, AdaptationKept
<1>3. ConnInv /\ CountersInv /\ QueryInv /\ RecordInv /\ [LinuxNext]_linuxVars
        => CountersInv' /\ QueryInv' /\ RecordInv'
  <2>1. LinuxTick \/ LinuxDone \/ UNCHANGED linuxVars =>
          UNCHANGED <<pc, query, returned, Info>> /\ UNCHANGED linux
    BY Zenon DEF LinuxTick, LinuxDone, Tick, linuxVars, vars, sched, locals, meta
  <2> QED
    BY <2>1, ElsewhereKeeps, CloseKeeps, ControlKeeps, ReturnKeeps, StoreKeeps, CountKeeps,
       StutterKeeps DEF LinuxNext, LinuxStep
<1> QED
  BY <1>1, <1>2, <1>3, ConnFacts, PTL DEF LinuxSpec

\* For any kernel and any failures of the socket calls, two infos of a connection have
\* the same fields, and no warning of the first is missing in the second.
THEOREM ComparableCorrect == LinuxSpec => []InfosComparable
<1>1. ConnInv /\ RecordInv => InfosComparable
  <2> SUFFICES ASSUME ConnInv, RecordInv PROVE InfosComparable
    OBVIOUS
  <2>1. \A s \in State : Info[s] # NoInfo => infos[s].alg = alg /\ infos[s].valid = Flagged
    BY DEF RecordInv, Complete
  <2>2. Info["Closed"] # NoInfo =>
          Info["Opened"] # NoInfo /\ infos["Opened"].nonzero \subseteq infos["Closed"].nonzero
    BY DEF ConnInv, OpenedInv, ClosedInfoNeedsOpenedInfo, RecordInv
  <2> QED
    BY <2>1, <2>2 DEF InfosComparable, Warned, L!Warnings, State
<1> QED
  BY <1>1, ConnFacts, LinuxInv, PTL

\* For any kernel, a warning is of its own event, on a recognised kernel completely so.
THEOREM EventCorrect == LinuxSpec => []WarningsOfEvent
<1>1. AdaptInv /\ CountersInv /\ RecordInv => WarningsOfEvent
  <2> SUFFICES ASSUME AdaptInv, CountersInv, RecordInv, NEW s \in State, Info[s] # NoInfo
               PROVE  /\ detected = kernel => before[s] \intersect Cumulative \subseteq Warned(s)
                      /\ Warned(s) \subseteq counters
    BY DEF WarningsOfEvent
  <2>1. /\ infos[s].valid = Flagged /\ infos[s].nonzero \subseteq counters
        /\ before[s] \intersect Wr \subseteq infos[s].nonzero
    BY DEF RecordInv, Complete, ReadFor
  <2>2. Warned(s) \subseteq counters
    BY <2>1 DEF Warned, L!Warnings
  <2>3. ASSUME detected = kernel, NEW c \in before[s], c \in Cumulative PROVE c \in Warned(s)
    <3>1. c \in Wr /\ (c \in L!BaseCounters \/ c \in Flagged)
      BY <2>3 DEF AdaptInv, CountersInv
    <3> QED
      BY <2>1, <2>3, <3>1 DEF Warned, L!Warnings, Cumulative
  <2> QED
    BY <2>2, <2>3
<1> QED
  BY <1>1, LinuxInv, PTL

-----------------------------------------------------------------------------
(* The refinement of ConnEvents.                                           *)

InEvent == {"check", "eligible", "query", "store"}

\* A query is made only while no error is recorded, and a result without an error is
\* not nil.
EventInv ==
  /\ \A p \in Procs : pc[p] \in {"query", "store"} => ~InfoErr
  /\ qpc = "returned" /\ ~result.err => ~result.nil

\* GetTCPInfo returns nil with an error, or an info with or without one.
LEMMA NilAnswer ==
  ASSUME L!ReturnNil
  PROVE  qpc' = "returned" /\ result'.err /\ result'.nil
BY DEF L!ReturnNil

LEMMA InfoAnswer ==
  ASSUME NEW i, NEW e, L!Return(i, e)
  PROVE  qpc' = "returned" /\ ~result'.nil /\ result'.info = i
BY DEF L!Return

\* Unpack copies the counters of the buffer.
LEMMA UnpackCounters ==
  ASSUME NEW r, NEW a, NEW cc
  PROVE  L!Unpack(r, a, cc).nonzero = r.nonzero
BY DEF L!Unpack

\* One goroutine at a time gathers.
LEMMA OneEvent ==
  ASSUME ConnInv, NEW p \in Procs, NEW q \in Procs, pc[p] \in InEvent, pc[q] \in InEvent
  PROVE  p = q
BY OneCloserAssumption DEF ConnInv, WrapInv, Gathering, InEvent

\* Leaving the gathering ends the event.
LEMMA EventEnds ==
  ASSUME ConnInv, NEW p \in Procs, pc[p] \in InEvent,
         NEW label, label \notin InEvent, pc' = [pc EXCEPT ![p] = label]
  PROVE  /\ eventNow = Reporting /\ eventNow' = "none"
         /\ \A q \in Procs : pc'[q] \notin InEvent
<1>1. pc \in [Procs -> PCs]
  BY DEF ConnInv, TypeOK
<1>2. \A q \in Procs : pc'[q] \notin InEvent
  BY <1>1, OneEvent
<1> QED
  BY <1>2 DEF eventNow, InEvent

\* A step that keeps the goroutines that gather keeps the event.
LEMMA EventGoesOn ==
  ASSUME \A q \in Procs : pc'[q] \in InEvent <=> pc[q] \in InEvent,
         returned' = returned \/ \A q \in Procs : pc[q] \notin InEvent
  PROVE  eventNow' = eventNow
BY DEF eventNow, InEvent, Reporting

\* No query is under way unless a goroutine is in it.
LEMMA NothingRead ==
  ASSUME ConnInv, QueryInv, NEW p \in Procs, pc[p] \in {"check", "eligible"}
  PROVE  eventReading = {}
<1>1. qpc = "ready"
  BY OneEvent DEF QueryInv, InEvent
<1> QED
  BY <1>1 DEF eventReading

\* The abstract infos and their form depend on nothing else.
LEMMA FormKept == ASSUME UNCHANGED adapted PROVE eventForm' = eventForm
BY AdaptationKept DEF eventForm

\* Whoever stores leaves no one at a query.
LEMMA EventAlways == LinuxSpec => []EventInv
<1>1. LinuxInit => EventInv
  BY ProcsAssumption DEF LinuxInit, Init, EventInv
<1>2. ConnInv /\ EventInv /\ [LinuxNext]_linuxVars => EventInv'
  <2> SUFFICES ASSUME ConnInv, EventInv, [LinuxNext]_linuxVars PROVE EventInv'
    OBVIOUS
  <2>t. pc \in [Procs -> PCs]
    BY DEF ConnInv, TypeOK
  <2>1. ASSUME NEW p \in Procs, Elsewhere(p) PROVE EventInv'
    <3>1. UNCHANGED <<qpc, result>>
      BY <2>1 DEF Elsewhere, linux, sysInfo
    <3>2. /\ InfoErr' = InfoErr
          /\ \A q \in Procs : pc'[q] \in {"query", "store"} =>
               pc[q] \in {"query", "store"} \/ ~InfoErr
      <4> USE <2>t DEF locals, meta, hist, gatherUnchanged
      <4>1. CASE Read(p) \/ Write(p)
        BY <4>1, Zenon DEF Read, Write, IOReturns, IOLock, ReadUnlock, WriteUnlock, IOUnlock, Goto, Ret, Crit
      <4>2. CASE SetReconnects(p) \/ ToMap(p)
        BY <4>2 DEF SetReconnects, ToMap, ToMapLock, ToMapUnlock, ToMapReturn, Goto
      <4>3. CASE GatherCheck(p) \/ GatherEligible(p) \/ Callback(p)
        BY <4>3 DEF GatherCheck, GatherEligible, Callback, Goto
      <4>4. CASE WrapReturns(p) \/ CloseSock(p)
        BY <4>4 DEF WrapReturns, CloseSock, Goto
      <4> QED
        BY <2>1, <4>1, <4>2, <4>3, <4>4 DEF Elsewhere
    <3> QED
      BY <3>1, <3>2, Zenon DEF EventInv
  <2>2. ASSUME NEW p \in Procs, CloseBegins(p) PROVE EventInv'
    BY <2>2, <2>t DEF CloseBegins, CloseStamp, Goto, sysInfo, EventInv
  <2>3. ASSUME NEW p \in Procs, Control(p) PROVE EventInv'
    <3>1. UNCHANGED <<pc, InfoErr>>
      BY <2>3 DEF Control, vars, sched, meta
    <3>2. qpc' = "returned" => result'.err \/ ~result'.nil
      <4>1. CASE L!Start
        BY <4>1, NilAnswer DEF L!Start
      <4>2. CASE L!GetRawTCPInfo
        BY <4>2, NilAnswer DEF L!GetRawTCPInfo
      <4>3. CASE L!GetTCPCongestionAlgorithm
        BY <4>3, InfoAnswer, Zenon DEF L!GetTCPCongestionAlgorithm
      <4>4. CASE L!GetCCInfo
        BY <4>4, InfoAnswer DEF L!GetCCInfo
      <4> QED
        BY <2>3, <4>1, <4>2, <4>3, <4>4 DEF Control
    <3> QED
      BY <3>1, <3>2 DEF EventInv
  <2>4. ASSUME NEW p \in Procs, ControlReturns(p) PROVE EventInv'
    BY <2>4, <2>t DEF ControlReturns, GatherQuery, Goto, meta, linux, sysInfo, EventInv
  <2>5. ASSUME NEW p \in Procs, StoreInfo(p) PROVE EventInv'
    <3>1. pc[p] = "store" /\ pc' = [pc EXCEPT ![p] = "callback"] /\ qpc' = "ready"
      BY <2>5 DEF StoreInfo, GatherStore, Goto, L!Consume
    <3>2. \A q \in Procs : pc'[q] \notin InEvent
      BY <3>1, EventEnds DEF InEvent
    <3> QED
      BY <3>1, <3>2 DEF EventInv, InEvent
  <2>6. CASE KernelCounts \/ LinuxTick \/ LinuxDone \/ UNCHANGED linuxVars
    <3>1. UNCHANGED <<pc, InfoErr, qpc, result>>
      BY <2>6, Zenon DEF KernelCounts, LinuxTick, LinuxDone, Tick, linuxVars, linux, sysInfo, vars, sched, meta
    <3> QED
      BY <3>1 DEF EventInv
  <2> QED
    BY <2>1, <2>2, <2>3, <2>4, <2>5, <2>6 DEF LinuxNext, LinuxStep
<1> QED
  BY <1>1, <1>2, ConnFacts, PTL DEF LinuxSpec

\* Steps that touch neither the query nor the infos end an event that read nothing, or
\* are invisible.
LEMMA ElsewhereEvent ==
  ASSUME ConnInv, QueryInv, NEW p \in Procs, Elsewhere(p)
  PROVE  Events!Next \/ UNCHANGED Events!vars
<1>t. pc \in [Procs -> PCs]
  BY DEF ConnInv, TypeOK
<1>1. UNCHANGED <<qpc, raw, result, infos, counters>> /\ UNCHANGED adapted
  BY DEF Elsewhere, linux, sysInfo, recorded
<1>2. InfoErr' = InfoErr /\ Info' = Info
  BY Zenon DEF Elsewhere, Read, Write, IOReturns, IOLock, ReadUnlock, WriteUnlock, IOUnlock, SetReconnects,
         ToMap, ToMapLock, ToMapUnlock, ToMapReturn, GatherCheck, GatherEligible, Callback,
         WrapReturns, CloseSock, meta, gatherUnchanged
<1>3. /\ eventForm' = eventForm /\ eventReading' = eventReading
      /\ eventRecorded' = eventRecorded
  BY <1>1, <1>2, FormKept, Zenon DEF eventReading, eventRecorded
<1>4. CASE /\ \A q \in Procs : pc'[q] \in InEvent <=> pc[q] \in InEvent
           /\ returned' = returned \/ \A q \in Procs : pc[q] \notin InEvent
  BY <1>1, <1>2, <1>3, <1>4, EventGoesOn, Zenon DEF Events!vars
<1>5. ASSUME NEW label, label \notin InEvent, pc[p] \in {"check", "eligible"},
             pc' = [pc EXCEPT ![p] = label]
      PROVE  Events!Next
  <2>1. eventNow = Reporting /\ eventNow' = "none"
    BY <1>5, EventEnds, Zenon DEF InEvent
  <2>2. eventReading = {} /\ Reporting # "none"
    BY <1>5, NothingRead DEF Reporting
  <2> QED
    BY <1>1, <1>2, <1>3, <2>1, <2>2 DEF Events!Next, Events!Skip, Events!End
<1>6. CASE Read(p) \/ Write(p)
  BY <1>4, <1>6, <1>t, Zenon DEF Read, Write, IOReturns, IOLock, ReadUnlock, WriteUnlock, IOUnlock, Goto,
                          Call, Ret, Crit, InEvent
<1>7. CASE SetReconnects(p) \/ ToMap(p)
  BY <1>4, <1>7, <1>t DEF SetReconnects, ToMap, ToMapLock, ToMapUnlock, ToMapReturn, Goto, Call, InEvent
<1>8. CASE GatherCheck(p)
  <2>1. PICK label \in {"gathered", "eligible"} : pc[p] = "check" /\ pc' = [pc EXCEPT ![p] = label]
    BY <1>8, Zenon DEF GatherCheck, Goto
  <2>2. CASE label = "gathered"
    BY <1>5, <2>1, <2>2, Zenon DEF InEvent
  <2>3. CASE label = "eligible"
    BY <1>4, <1>8, <1>t, <2>1, <2>3 DEF GatherCheck, gatherUnchanged, InEvent
  <2> QED
    BY <2>1, <2>2, <2>3
<1>9. CASE GatherEligible(p)
  <2>1. PICK label \in {"callback", "query"} : pc[p] = "eligible" /\ pc' = [pc EXCEPT ![p] = label]
    BY <1>9, Zenon DEF GatherEligible, Goto
  <2>2. CASE label = "callback"
    BY <1>5, <2>1, <2>2, Zenon DEF InEvent
  <2>3. CASE label = "query"
    BY <1>4, <1>9, <1>t, <2>1, <2>3 DEF GatherEligible, gatherUnchanged, InEvent
  <2> QED
    BY <2>1, <2>2, <2>3
<1>10. CASE Callback(p) \/ CloseSock(p)
  BY <1>4, <1>10, <1>t DEF Callback, CloseSock, Goto, gatherUnchanged, InEvent
<1>11. CASE WrapReturns(p)
  <2>1. \A q \in Procs : pc[q] \notin InEvent
    BY <1>11 DEF WrapReturns, ConnInv, WrapInv, InEvent
  <2>2. \A q \in Procs : pc'[q] \notin InEvent
    BY <1>11, <1>t, <2>1 DEF WrapReturns, Goto, InEvent
  <2> QED
    BY <1>4, <2>1, <2>2
<1> QED
  BY <1>6, <1>7, <1>8, <1>9, <1>10, <1>11 DEF Elsewhere

\* Close begins an event: no other goes on.
LEMMA CloseEvent ==
  ASSUME ConnInv, NEW p \in Procs, CloseBegins(p)
  PROVE  Events!Next
<1>t. pc \in [Procs -> PCs]
  BY DEF ConnInv, TypeOK
<1>1. /\ UNCHANGED <<qpc, raw, result, infos, counters>> /\ UNCHANGED adapted
      /\ InfoErr' = InfoErr /\ Info' = Info
  BY DEF CloseBegins, sysInfo, CloseStamp
<1>2. /\ p \in Closers /\ returned /\ returned' /\ pc[p] = "idle"
      /\ pc' = [pc EXCEPT ![p] = "check"]
  BY DEF CloseBegins, CloseStamp, Call, Goto
<1>3. \A q \in Procs : pc[q] \notin InEvent
  BY <1>2, OneCloserAssumption DEF ConnInv, WrapInv, Gathering, InEvent
<1>4. eventNow = "none" /\ eventNow' = "Closed"
  BY <1>2, <1>3, <1>t, SMTT(20) DEF eventNow, InEvent, Reporting
<1>5. /\ eventForm' = eventForm /\ eventReading' = eventReading
      /\ eventRecorded' = eventRecorded
  BY <1>1, FormKept DEF eventReading, eventRecorded
<1> QED
  BY <1>1, <1>4, <1>5 DEF Events!Next, Events!Begin

\* Of the socket calls the first is the reading; the others carry it on.
LEMMA ControlEvent ==
  ASSUME ConnInv, OneCloserInv, CountersInv, QueryInv, EventInv, NEW p \in Procs, Control(p)
  PROVE  Events!Next \/ UNCHANGED Events!vars
<1>1. pc[p] = "query" /\ UNCHANGED <<pc, returned, Info, InfoErr, infos>>
  BY Zenon DEF Control, vars, sched, meta, recorded
<1>2. UNCHANGED counters /\ UNCHANGED adapted
  BY Zenon DEF Control, L!Start, L!GetRawTCPInfo, L!GetTCPCongestionAlgorithm, L!GetCCInfo,
         L!Unchanged, L!environment, L!adaptation, adapted
<1>3. eventForm' = eventForm /\ eventNow' = eventNow /\ eventRecorded' = eventRecorded
  BY <1>1, <1>2, FormKept, EventGoesOn, Zenon DEF eventRecorded
<1>4. ASSUME eventReading' = eventReading PROVE UNCHANGED Events!vars
  BY <1>1, <1>2, <1>3, <1>4 DEF Events!vars
<1>5. CASE L!Start
  <2>1. qpc = "ready" /\ (qpc' = "raw" \/ L!ReturnNil)
    BY <1>5 DEF L!Start
  <2>2. eventReading = {}
    BY <2>1 DEF eventReading
  <2>3. eventReading' = {}
    BY <2>1, NilAnswer DEF eventReading
  <2> QED
    BY <1>4, <2>2, <2>3
<1>6. CASE L!GetRawTCPInfo
  <2>1. CASE L!ReturnNil
    <3>1. eventReading = {}
      BY <1>6 DEF L!GetRawTCPInfo, eventReading
    <3>2. eventReading' = {}
      BY <2>1, NilAnswer DEF eventReading
    <3> QED
      BY <1>4, <3>1, <3>2
  <2>2. CASE ~L!ReturnNil
    <3>1. qpc = "raw" /\ qpc' = "alg" /\ raw'.nonzero = counters \intersect Wr
      BY <1>6, <2>2, FormIs DEF L!GetRawTCPInfo, CountersInv
    <3>2. eventReading = {} /\ eventReading' = {counters \intersect Wr}
      BY <3>1 DEF eventReading
    <3>3. eventNow = Reporting /\ Reporting \in State /\ Reporting # "none"
      BY <1>1 DEF eventNow, Reporting, State
    <3>4. Info[Reporting] = NoInfo /\ (Reporting = "Closed" => Info["Opened"] # NoInfo) /\ ~InfoErr
      <4>1. CASE returned
        BY <1>1, <4>1 DEF Reporting, ConnInv, OpenedInv, OneCloserInv, CloserInv, EventInv
      <4>2. CASE ~returned
        BY <1>1, <4>2 DEF Reporting, ConnInv, WrapInv, EventInv
      <4> QED
        BY <4>1, <4>2
    <3>5. eventRecorded[eventNow] = {} /\ (eventNow = "Closed" => eventRecorded["Opened"] # {})
      BY <3>3, <3>4, Zenon DEF eventRecorded, State
    <3> QED
      BY <1>1, <1>2, <1>3, <3>2, <3>3, <3>4, <3>5, Zenon DEF Events!Next, Events!Read, eventForm
  <2> QED
    BY <2>1, <2>2
<1>7. CASE L!GetTCPCongestionAlgorithm
  <2>1. qpc = "alg"
    BY <1>7 DEF L!GetTCPCongestionAlgorithm
  <2>2. \/ qpc' = "cc" /\ raw' = raw
        \/ qpc' = "returned" /\ ~result'.nil /\ result'.info.nonzero = raw.nonzero
    <3>1. \/ qpc' = "cc" /\ raw' = raw
          \/ \E a, e : L!Return(L!Unpack(raw, a, L!NoAlg), e)
      BY <1>7, Zenon DEF L!GetTCPCongestionAlgorithm
    <3>2. ASSUME NEW a, NEW e, L!Return(L!Unpack(raw, a, L!NoAlg), e)
          PROVE  qpc' = "returned" /\ ~result'.nil /\ result'.info.nonzero = raw.nonzero
      <4>1. qpc' = "returned" /\ ~result'.nil /\ result'.info = L!Unpack(raw, a, L!NoAlg)
        BY <3>2, InfoAnswer
      <4> QED
        BY <4>1, UnpackCounters
    <3> QED
      BY <3>1, <3>2
  <2> QED
    BY <1>4, <2>1, <2>2 DEF eventReading
<1>8. CASE L!GetCCInfo
  <2>1. qpc = "cc"
    BY <1>8 DEF L!GetCCInfo
  <2>2. qpc' = "returned" /\ ~result'.nil /\ result'.info.nonzero = raw.nonzero
    <3>1. PICK cc, e : L!Return(L!Unpack(raw, ccAlg, cc), e)
      BY <1>8 DEF L!GetCCInfo
    <3>2. qpc' = "returned" /\ ~result'.nil /\ result'.info = L!Unpack(raw, ccAlg, cc)
      BY <3>1, InfoAnswer
    <3> QED
      BY <3>2, UnpackCounters
  <2> QED
    BY <1>4, <2>1, <2>2 DEF eventReading
<1> QED
  BY <1>5, <1>6, <1>7, <1>8 DEF Control

\* A store ends the event with the info, whole, or with the first error.
LEMMA StoreEvent ==
  ASSUME ConnInv, CountersInv, QueryInv, EventInv, NEW p \in Procs, StoreInfo(p)
  PROVE  Events!Next
<1>1. /\ UNCHANGED counters /\ UNCHANGED adapted /\ qpc' = "ready"
      /\ infos' = IF query[p] = NoInfo THEN infos ELSE [infos EXCEPT ![Reporting] = result.info]
  BY DEF StoreInfo, L!Consume, L!Unchanged, L!environment, L!adaptation, adapted
<1>2. /\ pc[p] = "store" /\ pc' = [pc EXCEPT ![p] = "callback"]
      /\ IF query[p] = NoInfo THEN InfoErr' = TRUE /\ UNCHANGED Info
         ELSE Info' = [Info EXCEPT ![Reporting] = query[p]] /\ UNCHANGED InfoErr
  BY DEF StoreInfo, GatherStore, Goto
<1>3. Events!End /\ eventForm' = eventForm /\ eventNow = Reporting
  <2>1. eventNow = Reporting /\ eventNow' = "none" /\ Reporting # "none"
    BY <1>2, EventEnds DEF InEvent, Reporting
  <2>2. eventReading' = {}
    BY <1>1, Zenon DEF eventReading
  <2> QED
    BY <1>1, <2>1, <2>2, FormKept DEF Events!End
<1>4. CASE query[p] = NoInfo
  <2>1. InfoErr' = TRUE /\ ~InfoErr /\ eventRecorded' = eventRecorded
    BY <1>1, <1>2, <1>4, Zenon DEF EventInv, eventRecorded
  <2> QED
    BY <1>1, <1>3, <2>1 DEF Events!Next, Events!Fail
<1>5. CASE query[p] # NoInfo
  <2>1. eventReading = {result.info.nonzero} /\ Complete(result.info)
    BY <1>2, <1>5, Zenon DEF QueryInv, EventInv, eventReading
  <2> DEFINE whole == [valid |-> Flagged, alg |-> alg, nonzero |-> result.info.nonzero]
  <2>2. whole = [valid |-> result.info.valid, alg |-> result.info.alg,
                 nonzero |-> result.info.nonzero]
    BY <2>1 DEF Complete
  <2>3. /\ Reporting \in State /\ Info'[Reporting] # NoInfo /\ infos'[Reporting] = result.info
        /\ \A s \in State : s # Reporting => Info'[s] = Info[s] /\ infos'[s] = infos[s]
    BY <1>1, <1>2, <1>5 DEF CountersInv, ConnInv, TypeOK, Reporting, State
  <2>4. eventRecorded' = [eventRecorded EXCEPT ![eventNow] = {whole}]
    <3> HIDE DEF whole
    <3> QED
      BY <1>3, <2>2, <2>3, Zenon DEF eventRecorded
  <2>5. {Events!InfoOf(r) : r \in eventReading} = {whole}
    <3>1. Events!InfoOf(result.info.nonzero) = whole
      BY DEF Events!InfoOf, eventForm
    <3> HIDE DEF whole
    <3> QED
      BY <2>1, <3>1, Zenon
  <2> HIDE DEF whole
  <2> QED
    BY <1>1, <1>2, <1>3, <1>5, <2>1, <2>4, <2>5, Zenon DEF Events!Next, Events!Record
<1> QED
  BY <1>4, <1>5

\* For any kernel, any failures of the socket calls and any counting between them, an
\* info is one reading of the kernel made during its own event, whole, and never that
\* of a query that ended with an error.
THEOREM LinuxRefinesEvents == LinuxSpec => ImplementsEvents
<1>1. LinuxInit => Events!Init
  <2> SUFFICES ASSUME LinuxInit PROVE Events!Init
    OBVIOUS
  <2>1. eventNow = "Opened"
    BY ProcsAssumption, Zenon DEF LinuxInit, Init, eventNow, Reporting
  <2>2. eventReading = {} /\ ~InfoErr
    BY Zenon DEF LinuxInit, Init, eventReading
  <2>3. eventRecorded = [s \in State |-> {}]
    BY Zenon DEF LinuxInit, Init, eventRecorded
  <2> QED
    BY <2>1, <2>2, <2>3 DEF Events!Init, State
<1>2. ConnInv /\ OneCloserInv /\ CountersInv /\ QueryInv /\ EventInv /\ [LinuxNext]_linuxVars
        => [Events!Next]_(Events!vars)
  <2> SUFFICES ASSUME ConnInv, OneCloserInv, CountersInv, QueryInv, EventInv,
                      [LinuxNext]_linuxVars
               PROVE  Events!Next \/ UNCHANGED Events!vars
    OBVIOUS
  <2>1. ASSUME NEW p \in Procs, LinuxStep(p) PROVE Events!Next \/ UNCHANGED Events!vars
    <3>1. CASE ControlReturns(p)
      <4>1. /\ UNCHANGED <<qpc, raw, result, infos, counters, InfoErr, Info, returned>>
            /\ UNCHANGED adapted /\ pc[p] = "query" /\ pc' = [pc EXCEPT ![p] = "store"]
        BY <3>1 DEF ControlReturns, GatherQuery, Goto, gatherUnchanged, meta, linux, sysInfo, recorded
      <4>2. eventNow' = eventNow
        BY <4>1, EventGoesOn DEF ConnInv, TypeOK, InEvent
      <4> QED
        BY <4>1, <4>2, FormKept, Zenon DEF Events!vars, eventReading, eventRecorded
    <3> QED
      BY <2>1, <3>1, ElsewhereEvent, CloseEvent, ControlEvent, StoreEvent DEF LinuxStep
  <2>2. CASE KernelCounts
    <3>1. /\ UNCHANGED <<pc, returned, InfoErr, Info, qpc, raw, result, infos>>
          /\ UNCHANGED adapted /\ counters \subseteq counters'
      BY <2>2 DEF KernelCounts, vars, sched, meta, sysInfo, recorded
    <3>2. eventNow' = eventNow
      BY <3>1, EventGoesOn
    <3>3. eventReading' = eventReading /\ eventRecorded' = eventRecorded
      BY <3>1, Zenon DEF eventReading, eventRecorded
    <3> QED
      BY <3>1, <3>2, <3>3, FormKept DEF Events!Next, Events!Count
  <2>3. CASE LinuxTick \/ LinuxDone \/ UNCHANGED linuxVars
    <3>1. /\ UNCHANGED <<pc, returned, InfoErr, Info, qpc, raw, result, infos, counters>>
          /\ UNCHANGED adapted
      BY <2>3, Zenon DEF LinuxTick, LinuxDone, Tick, linuxVars, linux, sysInfo, recorded, vars, sched, meta
    <3>2. eventNow' = eventNow
      BY <3>1, EventGoesOn
    <3> QED
      BY <3>1, <3>2, FormKept, Zenon DEF Events!vars, eventReading, eventRecorded
  <2> QED
    BY <2>1, <2>2, <2>3 DEF LinuxNext
<1>3. LinuxSpec => []OneCloserInv
  <2>1. OneCloser
    BY OneCloserAssumption DEF OneCloser
  <2>2. Spec => []OneCloserInv
    BY <2>1, OneCloserCorrect
  <2> QED
    BY <2>2, LinuxIsConn
<1> QED
  BY <1>1, <1>2, <1>3, ConnFacts, LinuxInv, EventAlways, PTL
  DEF LinuxSpec, ImplementsEvents, Events!Spec

=============================================================================
