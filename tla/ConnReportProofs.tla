-------------------------- MODULE ConnReportProofs ---------------------------
(***************************************************************************)
(* The infos and the callbacks of ConnWrap: when each of them is recorded, *)
(* made and missing, for any number of goroutines.                         *)
(***************************************************************************)
EXTENDS ConnProofs

\* A time stamp taken from the clock is not 0, which means "not yet".
LEMMA ClockPositive == TypeOK => clock > 0
BY DEF TypeOK

-----------------------------------------------------------------------------
(* The steps that the invariants of this module are about.                 *)

\* The steps of gatherAndReport, of WrapConn's return and of Close.
GatherStep == \E p \in Procs :
  \/ GatherCheck(p) \/ GatherEligible(p) \/ GatherQuery(p) \/ GatherStore(p)
  \/ Callback(p) \/ WrapReturns(p) \/ CloseStamp(p) \/ CloseSock(p)

\* Every other step leaves the infos, the callbacks and who gathers alone, and
\* starts a call only once WrapConn has returned.
OtherStep ==
  /\ UNCHANGED <<env, sock, returned, query, InfoErr, Info, ClosedAt, reports, sysFailed>>
  /\ \A p \in Procs : \/ pc'[p] = pc[p]
                      \/ /\ pc[p] \notin Gathering /\ pc'[p] \notin Gathering
                         /\ pc[p] = "idle" => returned

\* A step of any method is one or the other.
LEMMA GatherOrOther ==
  ASSUME TypeOK, [Next]_vars PROVE GatherStep \/ OtherStep
<1>t. pc \in [Procs -> PCs]
  BY DEF TypeOK
<1> USE <1>t DEF world, sched, locals, io, meta, hist, OtherStep, Gathering
<1>1. ASSUME NEW p \in Procs, NEW d \in Dir, IOReturns(p, d) PROVE OtherStep
  BY <1>1 DEF Call, Goto, IOReturns, Ret
<1>2. ASSUME NEW p \in Procs, NEW d \in Dir, IOLock(p, d) PROVE OtherStep
  BY <1>2 DEF Goto, Acquire, IOLock, Ret, Crit
<1>3. ASSUME NEW p \in Procs, ReadUnlock(p) PROVE OtherStep
  BY <1>3 DEF Goto, Release, ReadUnlock, IOUnlock, Crit
<1>4. ASSUME NEW p \in Procs, WriteUnlock(p) PROVE OtherStep
  BY <1>4 DEF Goto, Release, WriteUnlock, IOUnlock, Crit
<1>5. ASSUME NEW p \in Procs, SetReconnects(p) PROVE OtherStep
  BY <1>5 DEF Call, Locked, SetReconnects
<1>6. ASSUME NEW p \in Procs, ToMapLock(p) PROVE OtherStep
  BY <1>6 DEF Call, Goto, Acquire, ToMapLock
<1>7. ASSUME NEW p \in Procs, ToMapUnlock(p) \/ ToMapReturn(p) PROVE OtherStep
  BY <1>7 DEF Goto, Release, ToMapUnlock, ToMapReturn
<1>8. ASSUME Tick \/ UNCHANGED vars PROVE OtherStep
  BY <1>8 DEF Tick, vars
<1> HIDE DEF OtherStep
<1> QED
  BY <1>1, <1>2, <1>3, <1>4, <1>5, <1>6, <1>7, <1>8
  DEF Dir, GatherStep, Next, Step, Read, Write, ToMap, GatherAndReport, Close, Done

-----------------------------------------------------------------------------
(* WrapConn, then Close: when infos and callbacks come.                    *)

\* WrapConn runs alone, records nothing before its own query and makes its one
\* callback before it returns; afterwards only Close gathers.
THEOREM WrapCorrect == Spec => []WrapInv
<1> USE ProcsAssumption DEF State, NoInfo, Gathering, Reporting, world, sched, locals, io, meta, hist, gatherUnchanged
<1>1. Init => WrapInv
  BY DEF Init, WrapInv
<1>2. TypeOK /\ WrapInv /\ [Next]_vars => WrapInv'
  <2> SUFFICES ASSUME TypeOK, WrapInv, [Next]_vars PROVE WrapInv'
    OBVIOUS
  <2>t. /\ env \in [reporter : BOOLEAN, supports : BOOLEAN, tcp : BOOLEAN]
        /\ pc \in [Procs -> PCs] /\ query \in [Procs -> Nat]
        /\ returned \in BOOLEAN /\ InfoErr \in BOOLEAN
        /\ Info \in [State -> Nat] /\ reports \in [State -> Nat]
        /\ clock \in Nat /\ ClosedAt \in Nat
    BY DEF TypeOK
  <2> USE <2>t DEF WrapInv
  <2>1. ASSUME OtherStep PROVE WrapInv'
    BY <2>1 DEF OtherStep
  <2>2. ASSUME NEW p \in Procs, GatherCheck(p) PROVE WrapInv'
    BY <2>2 DEF Goto, GatherCheck
  <2>3. ASSUME NEW p \in Procs, GatherEligible(p) PROVE WrapInv'
    BY <2>3 DEF Goto, GatherEligible
  <2>4. ASSUME NEW p \in Procs, GatherQuery(p) PROVE WrapInv'
    BY <2>4 DEF Goto, GatherQuery
  <2>5. ASSUME NEW p \in Procs, GatherStore(p) PROVE WrapInv'
    BY <2>5 DEF Goto, Locked, GatherStore
  <2>6. ASSUME NEW p \in Procs, Callback(p) PROVE WrapInv'
    <3>1. /\ pc[p] = "callback" /\ pc' = [pc EXCEPT ![p] = "gathered"]
          /\ reports' = [reports EXCEPT ![Reporting] = @ + 1]
          /\ UNCHANGED <<env, sock, returned, query, Info, InfoErr, ClosedAt>>
      BY <2>6 DEF Goto, Locked, Callback
    <3>2. CASE returned
      <4>1. reports'["Opened"] = reports["Opened"]
        BY <3>1, <3>2
      <4> QED
        BY <3>1, <3>2, <4>1
    <3>3. CASE ~returned
      <4>1. p = Opener /\ reports'["Opened"] = 1 /\ reports'["Closed"] = 0
        BY <3>1, <3>3
      <4> QED
        BY <3>1, <3>3, <4>1
    <3> QED
      BY <3>2, <3>3
  <2>7. ASSUME NEW p \in Procs, WrapReturns(p) PROVE WrapInv'
    BY <2>7 DEF Goto, WrapReturns
  <2>8. ASSUME NEW p \in Procs, CloseStamp(p) PROVE WrapInv'
    <3>1. /\ p \in Closers /\ returned /\ pc[p] = "idle"
          /\ pc' = [pc EXCEPT ![p] = "check"]
          /\ ClosedAt' = clock /\ UNCHANGED <<env, sock, returned, query, Info, InfoErr, reports>>
      BY <2>8 DEF Call, Goto, Locked, CloseStamp
    <3>2. clock > 0
      BY ClockPositive
    <3> QED
      BY <3>1, <3>2
  <2>9. ASSUME NEW p \in Procs, CloseSock(p) PROVE WrapInv'
    BY <2>9 DEF Goto, CloseSock
  <2> HIDE <2>t DEF WrapInv
  <2> QED
    BY <2>1, <2>2, <2>3, <2>4, <2>5, <2>6, <2>7, <2>8, <2>9, GatherOrOther DEF GatherStep
<1> QED
  BY <1>1, <1>2, TypeCorrect, PTL DEF Spec

\* A close-time query is made only when the open-time one succeeded.
THEOREM OpenedCorrect == Spec => []OpenedInv
<1> USE ProcsAssumption DEF State, NoInfo, Gathering, Reporting, ClosedInfoNeedsOpenedInfo, world, sched, locals, io, meta, hist, gatherUnchanged
<1>1. Init => OpenedInv
  BY DEF Init, OpenedInv
<1>2. TypeOK /\ WrapInv /\ OpenedInv /\ [Next]_vars => OpenedInv'
  <2> SUFFICES ASSUME TypeOK, WrapInv, OpenedInv, [Next]_vars PROVE OpenedInv'
    OBVIOUS
  <2>t. /\ env \in [reporter : BOOLEAN, supports : BOOLEAN, tcp : BOOLEAN]
        /\ pc \in [Procs -> PCs] /\ query \in [Procs -> Nat]
        /\ returned \in BOOLEAN /\ InfoErr \in BOOLEAN
        /\ Info \in [State -> Nat] /\ reports \in [State -> Nat]
    BY DEF TypeOK
  <2> USE <2>t DEF WrapInv, OpenedInv
  <2>1. ASSUME OtherStep PROVE OpenedInv'
    BY <2>1 DEF OtherStep
  <2>2. ASSUME NEW p \in Procs, GatherCheck(p) PROVE OpenedInv'
    BY <2>2 DEF Goto, GatherCheck
  <2>3. ASSUME NEW p \in Procs, GatherEligible(p) PROVE OpenedInv'
    BY <2>3 DEF Goto, GatherEligible
  <2>4. ASSUME NEW p \in Procs, GatherQuery(p) PROVE OpenedInv'
    BY <2>4 DEF Goto, GatherQuery
  <2>5. ASSUME NEW p \in Procs, GatherStore(p) PROVE OpenedInv'
    BY <2>5 DEF Goto, Locked, GatherStore
  <2>6. ASSUME NEW p \in Procs, Callback(p) PROVE OpenedInv'
    BY <2>6 DEF Goto, Locked, Callback
  <2>7. ASSUME NEW p \in Procs, WrapReturns(p) PROVE OpenedInv'
    BY <2>7 DEF Goto, WrapReturns
  <2>8. ASSUME NEW p \in Procs, CloseStamp(p) PROVE OpenedInv'
    <3>1. /\ p \in Closers /\ returned /\ pc[p] = "idle"
          /\ pc' = [pc EXCEPT ![p] = "check"]
          /\ ClosedAt' = clock /\ UNCHANGED <<env, sock, returned, query, Info, InfoErr, reports>>
      BY <2>8 DEF Call, Goto, Locked, CloseStamp
    <3>2. clock > 0
      BY ClockPositive
    <3> QED
      BY <3>1, <3>2
  <2>9. ASSUME NEW p \in Procs, CloseSock(p) PROVE OpenedInv'
    BY <2>9 DEF Goto, CloseSock
  <2> HIDE <2>t DEF WrapInv, OpenedInv
  <2> QED
    BY <2>1, <2>2, <2>3, <2>4, <2>5, <2>6, <2>7, <2>8, <2>9, GatherOrOther DEF GatherStep
<1> QED
  BY <1>1, <1>2, TypeCorrect, WrapCorrect, PTL DEF Spec

\* However many goroutines call Close at once, the first to finish gathering has
\* recorded ClosedInfo if the kernel answered every query on the open socket.
THEOREM ClosedCorrect == Spec => []ClosedInv
<1> USE ProcsAssumption DEF State, NoInfo, Gathering, Reporting, QueriesSucceed, world, sched, locals, io, meta, hist, gatherUnchanged
<1>1. Init => ClosedInv
  BY DEF Init, ClosedInv
<1>2. TypeOK /\ WrapInv /\ ClosedInv /\ [Next]_vars => ClosedInv'
  <2> SUFFICES ASSUME TypeOK, WrapInv, ClosedInv, [Next]_vars PROVE ClosedInv'
    OBVIOUS
  <2> USE DEF TypeOK, WrapInv, ClosedInv
  <2>1. ASSUME OtherStep PROVE ClosedInv'
    BY <2>1 DEF OtherStep
  <2>2. ASSUME NEW p \in Procs, GatherCheck(p) PROVE ClosedInv'
    BY <2>2 DEF Goto, GatherCheck
  <2>3. ASSUME NEW p \in Procs, GatherEligible(p) PROVE ClosedInv'
    BY <2>3 DEF Goto, GatherEligible
  <2>4. ASSUME NEW p \in Procs, GatherQuery(p) PROVE ClosedInv'
    BY <2>4 DEF Goto, GatherQuery
  <2>5. ASSUME NEW p \in Procs, GatherStore(p) PROVE ClosedInv'
    BY <2>5 DEF Goto, Locked, GatherStore
  <2>6. ASSUME NEW p \in Procs, Callback(p) PROVE ClosedInv'
    BY <2>6 DEF Goto, Locked, Callback
  <2>7. ASSUME NEW p \in Procs, WrapReturns(p) PROVE ClosedInv'
    BY <2>7 DEF Goto, WrapReturns
  <2>8. ASSUME NEW p \in Procs, CloseStamp(p) PROVE ClosedInv'
    BY <2>8 DEF Call, Goto, Locked, CloseStamp
  <2>9. ASSUME NEW p \in Procs, CloseSock(p) PROVE ClosedInv'
    BY <2>9 DEF Goto, CloseSock
  <2> HIDE DEF TypeOK, WrapInv, ClosedInv
  <2> QED
    BY <2>1, <2>2, <2>3, <2>4, <2>5, <2>6, <2>7, <2>8, <2>9, GatherOrOther DEF GatherStep
<1> QED
  BY <1>1, <1>2, TypeCorrect, WrapCorrect, PTL DEF Spec

\* However many goroutines call Close at once, none of them gets past its gathering
\* before a callback was made or is the next step of one of them.
THEOREM OwedCorrect == Spec => []OwedInv
<1> USE ProcsAssumption DEF State, NoInfo, Reporting, CallbackDue, gatherUnchanged, world, sched, locals, io, meta, hist
<1>1. Init => OwedInv
  BY DEF Init, OwedInv
<1>2. TypeOK /\ WrapInv /\ OwedInv /\ [Next]_vars => OwedInv'
  <2> SUFFICES ASSUME TypeOK, WrapInv, OwedInv, [Next]_vars PROVE OwedInv'
    OBVIOUS
  <2>t. /\ pc \in [Procs -> PCs] /\ returned \in BOOLEAN
        /\ Info \in [State -> Nat] /\ reports \in [State -> Nat]
    BY DEF TypeOK
  <2>w. /\ ~returned => /\ sock = "open" /\ Info["Closed"] = NoInfo
                        /\ \A p \in Procs : p # Opener => pc[p] = "idle"
        /\ returned => \A p \in Procs : pc[p] \in Gathering => p \in Closers
    BY DEF WrapInv
  <2> USE <2>t, <2>w DEF OwedInv, Gathering
  <2>1. ASSUME OtherStep PROVE OwedInv'
    BY <2>1 DEF OtherStep
  <2>2. ASSUME NEW p \in Procs, GatherCheck(p) PROVE OwedInv'
    BY <2>2 DEF Goto, GatherCheck
  <2>3. ASSUME NEW p \in Procs, GatherEligible(p) PROVE OwedInv'
    BY <2>3 DEF Goto, GatherEligible
  <2>4. ASSUME NEW p \in Procs, GatherQuery(p) PROVE OwedInv'
    BY <2>4 DEF Goto, GatherQuery
  <2>5. ASSUME NEW p \in Procs, GatherStore(p) PROVE OwedInv'
    BY <2>5 DEF Goto, Locked, GatherStore
  <2>6. ASSUME NEW p \in Procs, Callback(p) PROVE OwedInv'
    BY <2>6 DEF Goto, Locked, Callback
  <2>7. ASSUME NEW p \in Procs, WrapReturns(p) PROVE OwedInv'
    BY <2>7 DEF Goto, WrapReturns
  <2>8. ASSUME NEW p \in Procs, CloseStamp(p) PROVE OwedInv'
    BY <2>8 DEF Call, Goto, Locked, CloseStamp
  <2>9. ASSUME NEW p \in Procs, CloseSock(p) PROVE OwedInv'
    BY <2>9 DEF Goto, CloseSock
  <2> HIDE <2>t, <2>w DEF OwedInv
  <2> QED
    BY <2>1, <2>2, <2>3, <2>4, <2>5, <2>6, <2>7, <2>8, <2>9, GatherOrOther DEF GatherStep
<1> QED
  BY <1>1, <1>2, TypeCorrect, WrapCorrect, PTL DEF Spec

\* When only one goroutine ever calls Close, any number of times: gathering is
\* not repeated once it succeeded, and the report precedes the close.
THEOREM OneCloserCorrect ==
  ASSUME OneCloser PROVE Spec => []OneCloserInv
<1> USE ProcsAssumption DEF OneCloser, State, NoInfo, Gathering, Reporting, ReportBeforeClose, world, sched, locals, io, meta, hist, gatherUnchanged
<1>1. Init => OneCloserInv
  BY DEF Init, OneCloserInv, CloserInv, ReportedInv
<1>2. TypeOK /\ WrapInv /\ OneCloserInv /\ [Next]_vars => OneCloserInv'
  <2> SUFFICES ASSUME TypeOK, WrapInv, OneCloserInv, [Next]_vars PROVE OneCloserInv'
    OBVIOUS
  <2>t. /\ env \in [reporter : BOOLEAN, supports : BOOLEAN, tcp : BOOLEAN]
        /\ pc \in [Procs -> PCs] /\ query \in [Procs -> Nat]
        /\ returned \in BOOLEAN /\ InfoErr \in BOOLEAN
        /\ Info \in [State -> Nat] /\ reports \in [State -> Nat]
    BY DEF TypeOK
  <2> USE <2>t DEF WrapInv, OneCloserInv, CloserInv, ReportedInv
  <2>a. ASSUME NEW p \in Procs, returned, pc[p] \in Gathering
        PROVE  \A q \in Procs : q # p => pc[q] \notin Gathering
    BY <2>a
  <2>1. ASSUME OtherStep PROVE OneCloserInv'
    BY <2>1 DEF OtherStep
  <2>2. ASSUME NEW p \in Procs, GatherCheck(p) PROVE OneCloserInv'
    <3>1. CASE ~returned
      BY <2>2, <3>1 DEF Goto, GatherCheck
    <3>2. CASE returned
      <4>1. pc[p] = "check" /\ \A q \in Procs : q # p => pc'[q] = pc[q]
        BY <2>2 DEF Goto, GatherCheck
      <4>2. \A q \in Procs : q # p => pc[q] \notin Gathering
        BY <2>a, <3>2, <4>1
      <4>3. /\ p \in Closers
            /\ pc[p] \in {"eligible", "query", "store", "callback"} => env.reporter
            /\ pc[p] \in {"query", "store"} => env.supports /\ env.tcp
        BY <3>2, <4>1
      <4>4. /\ pc'[p] = (IF ~env.reporter \/ Info["Closed"] # NoInfo
                         THEN "gathered" ELSE "eligible")
            /\ UNCHANGED <<env, sock, returned, InfoErr, Info, reports>>
        BY <2>2, <3>2 DEF Goto, GatherCheck
      <4>5. /\ \A q \in Closers : q # p => pc[q] # "callback"
            /\ reports["Closed"] \in Nat /\ InfoErr \in BOOLEAN
            /\ env.reporter \in BOOLEAN /\ env.supports \in BOOLEAN /\ env.tcp \in BOOLEAN
            /\ ReportedInv /\ ReportBeforeClose
        BY <4>2
      <4> HIDE <2>t, ProcsAssumption DEF WrapInv, OneCloser, OneCloserInv, CloserInv, ReportedInv, ReportBeforeClose, Gathering
      <4>6. /\ reports["Closed"] = 0 => Info["Closed"] = NoInfo
            /\ reports["Closed"] > 0 /\ Info["Closed"] = NoInfo =>
                 (env.supports /\ env.tcp => InfoErr)
            /\ Info["Closed"] # NoInfo => reports["Closed"] = 1
        BY <4>1, <4>5 DEF ReportedInv
      <4>7. CloserInv(p)'
        BY <4>3, <4>4, <4>5, <4>6 DEF CloserInv
      <4>8. \A q \in Procs : q # p => CloserInv(q)'
        BY <4>1, <4>2 DEF CloserInv, Gathering
      <4>9. ReportedInv'
        BY <4>1, <4>3, <4>4, <4>5, <4>6 DEF ReportedInv
      <4>10. ReportBeforeClose'
        BY <4>1, <4>3, <4>4, <4>5, <4>6 DEF ReportBeforeClose
      <4> QED
        BY <4>7, <4>8, <4>9, <4>10 DEF OneCloserInv
    <3> QED
      BY <3>1, <3>2
  <2>3. ASSUME NEW p \in Procs, GatherEligible(p) PROVE OneCloserInv'
    <3>1. CASE ~returned
      BY <2>3, <3>1 DEF Goto, GatherEligible
    <3>2. CASE returned
      <4>1. pc[p] = "eligible" /\ \A q \in Procs : q # p => pc'[q] = pc[q]
        BY <2>3 DEF Goto, GatherEligible
      <4>k. Info["Closed"] = NoInfo
        BY <3>2, <4>1
      <4>2. \A q \in Procs : q # p => pc[q] \notin Gathering
        BY <2>a, <3>2, <4>1
      <4>3. /\ p \in Closers
            /\ pc[p] \in {"eligible", "query", "store", "callback"} => env.reporter
            /\ pc[p] \in {"query", "store"} => env.supports /\ env.tcp
        BY <3>2, <4>1
      <4>4. /\ pc'[p] = (IF ~env.supports \/ InfoErr \/ ~env.tcp THEN "callback" ELSE "query")
            /\ UNCHANGED <<env, sock, returned, InfoErr, Info, reports>>
        BY <2>3, <3>2 DEF Goto, GatherEligible
      <4>5. /\ \A q \in Closers : q # p => pc[q] # "callback"
            /\ reports["Closed"] \in Nat /\ InfoErr \in BOOLEAN
            /\ env.reporter \in BOOLEAN /\ env.supports \in BOOLEAN /\ env.tcp \in BOOLEAN
            /\ ReportedInv /\ ReportBeforeClose
        BY <4>2
      <4> HIDE <2>t, ProcsAssumption DEF WrapInv, OneCloser, OneCloserInv, CloserInv, ReportedInv, ReportBeforeClose, Gathering
      <4>6. /\ reports["Closed"] = 0 => Info["Closed"] = NoInfo
            /\ reports["Closed"] > 0 /\ Info["Closed"] = NoInfo =>
                 (env.supports /\ env.tcp => InfoErr)
            /\ Info["Closed"] # NoInfo => reports["Closed"] = 1
        BY <4>1, <4>5, SMTT(30) DEF ReportedInv
      <4>7. CloserInv(p)'
        BY <4>3, <4>4, <4>5, <4>6, <4>k DEF CloserInv
      <4>8. \A q \in Procs : q # p => CloserInv(q)'
        BY <4>1, <4>2 DEF CloserInv, Gathering
      <4>9. ReportedInv'
        BY <4>1, <4>3, <4>4, <4>5, <4>6, <4>k DEF ReportedInv
      <4>10. ReportBeforeClose'
        BY <4>1, <4>3, <4>4, <4>5, <4>6, <4>k DEF ReportBeforeClose
      <4> QED
        BY <4>7, <4>8, <4>9, <4>10 DEF OneCloserInv
    <3> QED
      BY <3>1, <3>2
  <2>4. ASSUME NEW p \in Procs, GatherQuery(p) PROVE OneCloserInv'
    BY <2>4 DEF Goto, GatherQuery
  <2>5. ASSUME NEW p \in Procs, GatherStore(p) PROVE OneCloserInv'
    <3>1. CASE ~returned
      BY <2>5, <3>1 DEF Goto, Locked, GatherStore
    <3>2. CASE returned
      <4>1. pc[p] = "store" /\ \A q \in Procs : q # p => pc'[q] = pc[q]
        BY <2>5 DEF Goto, Locked, GatherStore
      <4>k. Info["Closed"] = NoInfo /\ reports["Closed"] = 0
        BY <3>2, <4>1
      <4>2. \A q \in Procs : q # p => pc[q] \notin Gathering
        BY <2>a, <3>2, <4>1
      <4>3. /\ p \in Closers
            /\ pc[p] \in {"eligible", "query", "store", "callback"} => env.reporter
            /\ pc[p] \in {"query", "store"} => env.supports /\ env.tcp
        BY <3>2, <4>1
      <4>4. /\ pc'[p] = "callback"
            /\ \/ InfoErr' /\ Info'["Closed"] = Info["Closed"]
               \/ InfoErr' = InfoErr /\ Info'["Closed"] # NoInfo
            /\ UNCHANGED <<env, sock, returned, reports>>
        BY <2>5, <3>2 DEF Goto, Locked, GatherStore
      <4>5. /\ \A q \in Closers : q # p => pc[q] # "callback"
            /\ reports["Closed"] \in Nat /\ InfoErr \in BOOLEAN
            /\ env.reporter \in BOOLEAN /\ env.supports \in BOOLEAN /\ env.tcp \in BOOLEAN
            /\ ReportedInv /\ ReportBeforeClose
        BY <4>2
      <4> HIDE <2>t, ProcsAssumption DEF WrapInv, OneCloser, OneCloserInv, CloserInv, ReportedInv, ReportBeforeClose, Gathering
      <4>7. CloserInv(p)'
        BY <4>3, <4>4, <4>5, <4>k DEF CloserInv
      <4>8. \A q \in Procs : q # p => CloserInv(q)'
        BY <4>1, <4>2 DEF CloserInv, Gathering
      <4>9. ReportedInv'
        BY <4>1, <4>3, <4>4, <4>5, <4>k DEF ReportedInv
      <4>10. ReportBeforeClose'
        BY <4>1, <4>3, <4>4, <4>5, <4>k DEF ReportBeforeClose
      <4> QED
        BY <4>7, <4>8, <4>9, <4>10 DEF OneCloserInv
    <3> QED
      BY <3>1, <3>2
  <2>6. ASSUME NEW p \in Procs, Callback(p) PROVE OneCloserInv'
    <3>1. CASE ~returned
      BY <2>6, <3>1 DEF Goto, Locked, Callback
    <3>2. CASE returned
      <4>1. pc[p] = "callback" /\ \A q \in Procs : q # p => pc'[q] = pc[q]
        BY <2>6 DEF Goto, Locked, Callback
      <4>2. \A q \in Procs : q # p => pc[q] \notin Gathering
        BY <2>a, <3>2, <4>1
      <4>3. /\ p \in Closers
            /\ pc[p] \in {"eligible", "query", "store", "callback"} => env.reporter
            /\ pc[p] \in {"query", "store"} => env.supports /\ env.tcp
        BY <3>2, <4>1
      <4>4. /\ pc'[p] = "gathered" /\ reports'["Closed"] = reports["Closed"] + 1
            /\ UNCHANGED <<env, sock, returned, InfoErr, Info>>
        BY <2>6, <3>2 DEF Goto, Locked, Callback
      <4>5. /\ \A q \in Closers : q # p => pc[q] # "callback"
            /\ reports["Closed"] \in Nat /\ InfoErr \in BOOLEAN
            /\ env.reporter \in BOOLEAN /\ env.supports \in BOOLEAN /\ env.tcp \in BOOLEAN
            /\ ReportedInv /\ ReportBeforeClose
        BY <4>2
      <4>6. IF Info["Closed"] # NoInfo THEN reports["Closed"] = 0
            ELSE env.supports /\ env.tcp => InfoErr
        BY <3>2, <4>1
      <4> HIDE <2>t, ProcsAssumption DEF WrapInv, OneCloser, OneCloserInv, CloserInv, ReportedInv, ReportBeforeClose, Gathering
      <4>7. CloserInv(p)'
        BY <4>3, <4>4, <4>5, <4>6 DEF CloserInv
      <4>8. \A q \in Procs : q # p => CloserInv(q)'
        BY <4>1, <4>2 DEF CloserInv, Gathering
      <4>9. ReportedInv'
        BY <4>1, <4>3, <4>4, <4>5, <4>6 DEF ReportedInv
      <4>10. ReportBeforeClose'
        BY <4>1, <4>3, <4>4, <4>5, <4>6 DEF ReportBeforeClose
      <4> QED
        BY <4>7, <4>8, <4>9, <4>10 DEF OneCloserInv
    <3> QED
      BY <3>1, <3>2
  <2>7. ASSUME NEW p \in Procs, WrapReturns(p) PROVE OneCloserInv'
    BY <2>7 DEF Goto, WrapReturns
  <2>8. ASSUME NEW p \in Procs, CloseStamp(p) PROVE OneCloserInv'
    BY <2>8 DEF Call, Goto, Locked, CloseStamp
  <2>9. ASSUME NEW p \in Procs, CloseSock(p) PROVE OneCloserInv'
    BY <2>9 DEF Goto, CloseSock
  <2> HIDE <2>t DEF WrapInv, OneCloserInv, CloserInv, ReportedInv
  <2> QED
    BY <2>1, <2>2, <2>3, <2>4, <2>5, <2>6, <2>7, <2>8, <2>9, GatherOrOther DEF GatherStep
<1> QED
  BY <1>1, <1>2, TypeCorrect, WrapCorrect, PTL DEF Spec

-----------------------------------------------------------------------------
(* The properties of ConnWrap.                                             *)

\* There is never a ClosedInfo without an OpenedInfo.
THEOREM InfosCorrect == Spec => []ClosedInfoNeedsOpenedInfo
BY OpenedCorrect, PTL DEF OpenedInv

\* Every close callback finds ClosedInfo when no query failed on an open socket,
\* for any number of goroutines that call Close at once.
THEOREM ClosedReportCorrect == Spec => []ClosedReportHasInfo
<1>1. WrapInv /\ ClosedInv => ClosedReportHasInfo
  BY DEF WrapInv, ClosedInv, QueriesSucceed, ClosedReportHasInfo
<1> QED
  BY <1>1, WrapCorrect, ClosedCorrect, PTL

\* For any number of goroutines that close, the connection is not closed before a
\* close callback was made or is the next step of the one that recorded the info.
THEOREM CloseReportedCorrect == Spec => []CloseReported
<1>1. WrapInv /\ OwedInv => CloseReported
  BY DEF WrapInv, OwedInv, CallbackDue, CloseReported
<1> QED
  BY <1>1, WrapCorrect, OwedCorrect, PTL

\* An info is stored by one kind of step only.
LEMMA InfoStep ==
  ASSUME [Next]_vars PROVE UNCHANGED Info \/ \E p \in Procs : GatherStore(p)
BY DEF Next, Step, Read, Write, IOReturns, IOLock, ReadUnlock, WriteUnlock,
       IOUnlock, SetReconnects, ToMap, ToMapLock, ToMapUnlock, ToMapReturn,
       GatherAndReport, GatherCheck, GatherEligible, GatherQuery, Callback,
       WrapReturns, Close, CloseStamp, CloseSock, Tick, Done, vars,
       world, sched, locals, io, meta, hist, gatherUnchanged

\* For any number of goroutines that close, the info of the open event is kept.
LEMMA OpenedKept ==
  ASSUME TypeOK, WrapInv, [Next]_vars, Info["Opened"] # NoInfo
  PROVE  Info'["Opened"] = Info["Opened"]
<1>1. ASSUME NEW p \in Procs, GatherStore(p) PROVE Info'["Opened"] = Info["Opened"]
  <2>1. returned
    <3> SUFFICES ASSUME ~returned PROVE FALSE
      OBVIOUS
    <3>1. pc[p] = "store" /\ (p # Opener => pc[p] = "idle")
      BY <1>1 DEF GatherStore, WrapInv
    <3> QED
      BY <3>1 DEF WrapInv
  <2>2. "Opened" # Reporting
    BY <2>1 DEF Reporting
  <2> QED
    BY <1>1, <2>2 DEF GatherStore, TypeOK, State
<1> QED
  BY <1>1, InfoStep

\* With one closing goroutine the callback precedes the close.
THEOREM ReportPrecedesClose ==
  ASSUME OneCloser PROVE Spec => []ReportBeforeClose
<1>1. Spec => []OneCloserInv
  BY OneCloserCorrect
<1> QED
  BY <1>1, PTL DEF OneCloserInv

\* With one closing goroutine a state whose info was recorded is reported once.
THEOREM ReportOnce ==
  ASSUME OneCloser PROVE Spec => []ReportedOnce
<1>1. Spec => []OneCloserInv
  BY OneCloserCorrect
<1>2. WrapInv /\ OneCloserInv => ReportedOnce
  BY DEF WrapInv, OneCloserInv, CloserInv, ReportedInv, ReportedOnce
<1> QED
  BY <1>1, <1>2, WrapCorrect, PTL

\* With one closing goroutine no recorded info is ever replaced: a second Close
\* stops at the unlocked check of ClosedInfo.
THEOREM InfoKept ==
  ASSUME OneCloser PROVE Spec => InfoWriteOnce
<1>1. Spec => []OneCloserInv
  BY OneCloserCorrect
<1>2. TypeOK /\ WrapInv /\ OneCloserInv /\ [Next]_vars =>
        [\A s \in State : Info[s] # NoInfo => Info'[s] = Info[s]]_vars
  <2> SUFFICES ASSUME TypeOK, WrapInv, OneCloserInv, [Next]_vars, NEW s \in State,
                      Info[s] # NoInfo
               PROVE  Info'[s] = Info[s]
    OBVIOUS
  <2> USE DEF world, sched, locals, io, meta, hist, gatherUnchanged
  <2>1. ASSUME NEW p \in Procs, GatherStore(p) PROVE Info'[s] = Info[s]
    <3>1. s # Reporting
      BY <2>1 DEF GatherStore, Reporting, WrapInv, OneCloserInv, CloserInv, State
    <3> QED
      BY <2>1, <3>1 DEF GatherStore, TypeOK
  <2> QED
    BY <2>1, InfoStep
<1> QED
  BY <1>1, <1>2, TypeCorrect, WrapCorrect, PTL DEF Spec, InfoWriteOnce

=============================================================================
