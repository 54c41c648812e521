------------------------ MODULE ConnRefinementProofs -------------------------
(***************************************************************************)
(* ConnWrap implements ConnStats, for every set of goroutines: the initial *)
(* states correspond, and every step of a method is a step of the atomic   *)
(* object or leaves it unchanged.  Also the properties of ConnWrap that    *)
(* speak about steps and about returned maps.                              *)
(***************************************************************************)
EXTENDS ConnReportProofs

\* What the steps of ConnWrap preserve, from ConnProofs and ConnReportProofs.
Known == /\ TypeOK /\ LockInv /\ CountInv /\ StampInv
         /\ MapInv /\ WrapInv /\ OpenedInv

\* These facts hold in every reachable state.
LEMMA KnownCorrect == Spec => []Known
BY TypeCorrect, MutualExclusion, CountCorrect, StampCorrect, MapCorrect,
   WrapCorrect, OpenedCorrect, PTL DEF Known

\* The steps that touch a field the abstract object has, or a map.
FieldStep == \E p \in Procs :
  \/ \E d \in Dir : IOLock(p, d)
  \/ ReadUnlock(p) \/ WriteUnlock(p) \/ SetReconnects(p)
  \/ ToMapLock(p) \/ ToMapUnlock(p) \/ ToMapReturn(p)
  \/ GatherStore(p) \/ CloseStamp(p)

\* Every other step moves one goroutine, outside the critical sections, or none.
QuietStep ==
  /\ UNCHANGED <<io, meta, view, mu, tmp>>
  /\ \A p \in Procs : /\ pc'[p] \in {"readCrit", "writeCrit", "toMap"} => pc'[p] = pc[p]
                      /\ pc[p] \in {"readCrit", "writeCrit", "toMap"} =>
                           pc'[p] = pc[p] /\ res'[p] = res[p]
                      /\ pc'[p] = "mapped" => pc[p] = "mapped"

\* A step of any method is a FieldStep or a QuietStep.
LEMMA StepKinds ==
  ASSUME TypeOK, [Next]_vars PROVE FieldStep \/ QuietStep
<1> USE DEF world, sched, locals, io, meta, hist, gatherUnchanged, QuietStep, TypeOK
<1>1. ASSUME NEW p \in Procs, NEW d \in Dir, IOReturns(p, d) PROVE QuietStep
  BY <1>1 DEF IOReturns, Call, Goto, Ret
<1>2. ASSUME NEW p \in Procs, GatherCheck(p) \/ GatherEligible(p) PROVE QuietStep
  BY <1>2 DEF GatherCheck, GatherEligible, Goto
<1>3. ASSUME NEW p \in Procs, GatherQuery(p) PROVE QuietStep
  BY <1>3 DEF GatherQuery, Goto
<1>4. ASSUME NEW p \in Procs, Callback(p) PROVE QuietStep
  BY <1>4 DEF Callback, Goto, Locked
<1>5. ASSUME NEW p \in Procs, WrapReturns(p) \/ CloseSock(p) PROVE QuietStep
  BY <1>5 DEF WrapReturns, CloseSock, Goto
<1>6. ASSUME Tick \/ UNCHANGED vars PROVE QuietStep
  BY <1>6 DEF Tick, vars
<1> HIDE DEF QuietStep, TypeOK
<1> QED
  BY <1>1, <1>2, <1>3, <1>4, <1>5, <1>6
  DEF Dir, FieldStep, Next, Step, Read, Write, ToMap, GatherAndReport, Close, Done

-----------------------------------------------------------------------------
(* Action property and returned maps.                                      *)

\* No step of any method undoes a first transfer time, lets a time or counter
\* go back, clears RxErr or InfoErr, or replaces the info of the open event.
THEOREM NeverRegress == Spec => FieldsNeverRegress
<1> DEFINE T(d) == /\ FirstAt[d] # 0 => FirstAt'[d] = FirstAt[d]
                   /\ LastAt'[d] >= LastAt[d]
                   /\ Bytes'[d] >= Bytes[d]
           C == ClosedAt' >= ClosedAt
           E == Err["rx"] # "nil" => Err'["rx"] # "nil"
           I == InfoErr => InfoErr'
           A == (\A d \in Dir : T(d)) /\ C /\ E /\ I
           B == Info["Opened"] # NoInfo => Info'["Opened"] = Info["Opened"]
<1>1. Known /\ [Next]_vars => A
  <2> SUFFICES ASSUME Known, [Next]_vars PROVE A
    OBVIOUS
  <2> USE DEF world, sched, locals, io, meta, hist, gatherUnchanged
  <2>1. ASSUME NEW p \in Procs, NEW d \in Dir, IOLock(p, d) PROVE A
    BY <2>1 DEF Known, TypeOK, StampInv, IOLock
  <2>2. ASSUME NEW p \in Procs, ReadUnlock(p) PROVE A
    BY <2>2 DEF Known, TypeOK, CountInv, ReadUnlock, IOUnlock, Total, Dir, Crit
  <2>3. ASSUME NEW p \in Procs, WriteUnlock(p) PROVE A
    BY <2>3 DEF Known, TypeOK, CountInv, WriteUnlock, IOUnlock, Total, Dir, Crit
  <2>4. ASSUME NEW p \in Procs, SetReconnects(p) \/ ToMapReturn(p) PROVE A
    BY <2>4 DEF Known, TypeOK, SetReconnects, ToMapReturn
  <2>5. ASSUME NEW p \in Procs, ToMapLock(p) \/ ToMapUnlock(p) PROVE A
    BY <2>5 DEF Known, TypeOK, ToMapLock, ToMapUnlock
  <2>6. ASSUME NEW p \in Procs, GatherStore(p) PROVE A
    BY <2>6 DEF Known, TypeOK, GatherStore
  <2>7. ASSUME NEW p \in Procs, CloseStamp(p) PROVE A
    BY <2>7 DEF Known, TypeOK, StampInv, CloseStamp
  <2>8. ASSUME QuietStep PROVE A
    BY <2>8 DEF Known, TypeOK, QuietStep
  <2> QED
    BY <2>1, <2>2, <2>3, <2>4, <2>5, <2>6, <2>7, <2>8, StepKinds DEF Known, FieldStep
<1>2. Known /\ [Next]_vars => B
  BY OpenedKept DEF Known
<1>3. Known /\ [Next]_vars => [(\A d \in Dir : T(d)) /\ C /\ E /\ I /\ B]_vars
  BY <1>1, <1>2
<1> QED
  BY <1>3, KnownCorrect, PTL DEF Spec, FieldsNeverRegress

\* A map returned by ToMap is coherent: the lock kept its two halves together.
THEOREM SnapshotsCorrect == Spec => []SnapshotCoherent
<1>1. Init => SnapshotCoherent
  BY DEF Init, SnapshotCoherent
<1>2. Known /\ SnapshotCoherent /\ [Next]_vars => SnapshotCoherent'
  <2> SUFFICES ASSUME Known, SnapshotCoherent, [Next]_vars PROVE SnapshotCoherent'
    OBVIOUS
  <2> USE DEF world, sched, locals, io, meta, hist, gatherUnchanged
  <2>1. ASSUME NEW p \in Procs, NEW l, l # "mapped", pc' = [pc EXCEPT ![p] = l],
               \A q \in Procs : q # p => view'[q] = view[q]
        PROVE  SnapshotCoherent'
    BY <2>1 DEF Known, TypeOK, SnapshotCoherent
  <2>2. ASSUME NEW p \in Procs, NEW d \in Dir, IOLock(p, d) PROVE SnapshotCoherent'
    <3>1. Crit(d) # "mapped" /\ pc' = [pc EXCEPT ![p] = Crit(d)]
      BY <2>2 DEF IOLock, Goto, Crit
    <3> QED
      BY <2>1, <2>2, <3>1 DEF IOLock
  <2>3. ASSUME NEW p \in Procs, ReadUnlock(p) \/ WriteUnlock(p) PROVE SnapshotCoherent'
    BY <2>1, <2>3 DEF ReadUnlock, WriteUnlock, IOUnlock, Goto
  <2>4. ASSUME NEW p \in Procs, SetReconnects(p) PROVE SnapshotCoherent'
    BY <2>4 DEF SetReconnects, SnapshotCoherent
  <2>5. ASSUME NEW p \in Procs, ToMapLock(p) \/ ToMapReturn(p) PROVE SnapshotCoherent'
    BY <2>1, <2>5 DEF ToMapLock, ToMapReturn, Goto, Known, TypeOK
  <2>6. ASSUME NEW p \in Procs, ToMapUnlock(p) PROVE SnapshotCoherent'
    <3>1. mu = p /\ pc[p] = "toMap"
      BY <2>6 DEF ToMapUnlock, Known, LockInv
    <3>2. /\ view[p].literal = mapLiteral
          /\ view' = [view EXCEPT ![p] = [literal |-> mapLiteral, added |-> mapAdded]]
      BY <2>6, <3>1 DEF ToMapUnlock, Known, MapInv
    <3>3. /\ view'[p].literal.FirstAt = FirstAt /\ view'[p].literal.Bytes = Bytes
          /\ view'[p].literal.ClosedAt = ClosedAt
          /\ view'[p].literal.warned = warnings /\ view'[p].added.Info = Info
          /\ \A q \in Procs : q # p => view'[q] = view[q]
      BY <3>2 DEF mapLiteral, mapAdded, Known, TypeOK
    <3>4. \A d \in Dir : FirstAt[d] # 0 => Bytes[d] > 0
      BY <3>1, ProcsAssumption DEF Known, StampInv, Crit
    <3>5. \A s \in State : s \in warnings <=> Info[s] # NoInfo
      BY DEF warnings, WarningsOf, State
    <3>6. Info["Closed"] # NoInfo => ClosedAt # 0
      BY DEF Known, OpenedInv
    <3>7. \A q \in Procs : q # p => pc'[q] = pc[q]
      BY <2>6 DEF ToMapUnlock, Goto, Known, TypeOK
    <3> QED
      BY <3>3, <3>4, <3>5, <3>6, <3>7, SMTT(30) DEF SnapshotCoherent
  <2>7. ASSUME NEW p \in Procs, GatherStore(p) \/ CloseStamp(p) PROVE SnapshotCoherent'
    BY <2>1, <2>7 DEF GatherStore, CloseStamp, Goto
  <2>8. ASSUME QuietStep PROVE SnapshotCoherent'
    BY <2>8 DEF QuietStep, SnapshotCoherent
  <2> QED
    BY <2>2, <2>3, <2>4, <2>5, <2>6, <2>7, <2>8, StepKinds DEF Known, FieldStep
<1> QED
  BY <1>1, <1>2, KnownCorrect, PTL DEF Spec

-----------------------------------------------------------------------------
(* The refinement.                                                         *)

\* Outside the critical sections of Read and Write, the abstract counters and
\* errors are the fields of Conn.
LEMMA OutsideCrit ==
  ASSUME TypeOK, \A d \in Dir : ~InCrit(d)
  PROVE  statsBytes = Bytes /\ statsErr = Err
BY DEF TypeOK, statsBytes, statsErr

\* In particular while the mutex is free.
LEMMA UnlockedOutsideCrit ==
  ASSUME TypeOK, mu = NoProc PROVE statsBytes = Bytes /\ statsErr = Err
BY OutsideCrit DEF InCrit

\* What a transfer adds takes effect when its goroutine gets the lock.
LEMMA TransferStep ==
  ASSUME Known, NEW p \in Procs, NEW d \in Dir, IOLock(p, d)
  PROVE  Stats!Transfer(d)
<1> USE DEF world, sched, locals, io, meta, hist
<1>1. mu = NoProc /\ mu' = p /\ res' = res /\ pc' = [pc EXCEPT ![p] = Crit(d)]
  BY DEF IOLock, Acquire, Goto
<1>2. statsBytes = Bytes /\ statsErr = Err
  BY <1>1, UnlockedOutsideCrit DEF Known
<1>3. /\ res[p].n \in Nat /\ res[p].err \in ErrKind /\ Bytes \in [Dir -> Nat]
      /\ Err \in [Dir -> ErrKind] /\ clock > 0 /\ clock \in Nat
      /\ LastAt \in [Dir -> Nat] /\ FirstAt \in [Dir -> Nat]
  BY DEF Known, TypeOK
<1>4. pc'[p] = Crit(d) /\ p # NoProc
  BY <1>1, ProcsAssumption DEF Known, TypeOK
<1>5. \A e \in Dir : InCrit(e)' <=> e = d
  BY <1>1, <1>4 DEF InCrit, Crit, Dir
<1>6. statsBytes' = [Bytes EXCEPT ![d] = @ + res[p].n]
  <2>1. Total(p)' = Bytes[d] + res[p].n /\ Bytes' = Bytes
    BY DEF IOLock, Total, Known, TypeOK
  <2> QED
    BY <1>1, <1>3, <1>5, <2>1 DEF statsBytes
<1>7. statsErr' = [Err EXCEPT ![d] = IF d = "tx" \/ res[p].err = "net"
                                     THEN res[p].err ELSE @]
  <2>1. Err' = Err
    BY DEF IOLock
  <2> QED
    BY <1>1, <1>3, <1>5, <2>1 DEF statsErr
<1>8. statsView' = statsView
  BY <1>1 DEF IOLock, statsView, Crit, Ret, Known, TypeOK
<1>9. UNCHANGED <<ClosedAt, Reconnects, InfoErr, Info>>
  BY DEF IOLock
<1>10. /\ statsBytes' = [statsBytes EXCEPT ![d] = statsBytes'[d]]
       /\ statsBytes'[d] >= statsBytes[d]
       /\ statsBytes'[d] > statsBytes[d] <=> res[p].n > 0
  BY <1>2, <1>3, <1>6
<1>11. statsErr' = [statsErr EXCEPT ![d] = IF d = "tx" \/ res[p].err = "net"
                                          THEN res[p].err ELSE @]
  BY <1>2, <1>7
<1>12. CASE Transferred(p)
  <2>1. /\ FirstAt' = [FirstAt EXCEPT ![d] = IF @ = 0 THEN clock ELSE @]
        /\ LastAt' = [LastAt EXCEPT ![d] = clock]
    BY <1>12 DEF IOLock
  <2>2. LastAt[d] <= clock
    BY DEF Known, StampInv
  <2>3. LastAt' = [LastAt EXCEPT ![d] = LastAt'[d]] /\ LastAt'[d] = clock
    BY <1>3, <2>1
  <2> QED
    BY <1>3, <1>8, <1>9, <1>10, <1>11, <1>12, <2>1, <2>2, <2>3
    DEF Stats!Transfer, Stats!infos, Transferred, ErrKind, Stats!ErrKind
<1>13. CASE ~Transferred(p)
  <2>1. FirstAt' = FirstAt /\ LastAt' = LastAt
    BY <1>13 DEF IOLock, Known, TypeOK
  <2> QED
    BY <1>3, <1>8, <1>9, <1>10, <1>11, <1>13, <2>1
    DEF Stats!Transfer, Stats!infos, Transferred, ErrKind, Stats!ErrKind
<1> QED
  BY <1>12, <1>13

\* The unlock that stores the counter and the error changes nothing abstractly.
LEMMA UnlockStep ==
  ASSUME Known, NEW p \in Procs, ReadUnlock(p) \/ WriteUnlock(p)
  PROVE  UNCHANGED Stats!vars
<1> USE DEF world, sched, locals, io, meta, hist
<1>1. PICK d \in Dir : /\ pc[p] = Crit(d) /\ mu' = NoProc
                       /\ Bytes' = [Bytes EXCEPT ![d] = Total(p)]
                       /\ Err' = [Err EXCEPT ![d] = IF d = "tx" \/ res[p].err = "net"
                                                    THEN res[p].err ELSE @]
                       /\ pc' = [pc EXCEPT ![p] = "idle"]
                       /\ UNCHANGED <<FirstAt, LastAt, meta, view>>
  BY DEF ReadUnlock, WriteUnlock, IOUnlock, Release, Goto, Dir, Known, TypeOK
<1>2. mu = p /\ p # NoProc
  BY <1>1, ProcsAssumption DEF Known, LockInv, Crit
<1>3. \A e \in Dir : InCrit(e) <=> e = d
  BY <1>1, <1>2 DEF InCrit, Crit, Dir
<1>4. \A e \in Dir : ~InCrit(e)'
  BY <1>1 DEF InCrit
<1>5. Bytes \in [Dir -> Nat] /\ Err \in [Dir -> ErrKind] /\ view \in [Procs -> View]
  BY DEF Known, TypeOK
<1>6. statsBytes' = statsBytes
  BY <1>1, <1>2, <1>3, <1>4, <1>5 DEF statsBytes
<1>7. statsErr' = statsErr
  BY <1>1, <1>2, <1>3, <1>4, <1>5 DEF statsErr
<1>8. statsView' = statsView
  BY <1>1 DEF statsView, Crit, Known, TypeOK
<1> QED
  BY <1>1, <1>6, <1>7, <1>8 DEF Stats!vars, Stats!transfers, Stats!infos

\* The unlock that completes a map takes the abstract snapshot.
LEMMA SnapshotStep ==
  ASSUME Known, NEW p \in Procs, ToMapUnlock(p) PROVE Stats!ToMap(p)
<1> USE DEF world, sched, locals, io, meta, hist
<1>1. mu = p /\ pc[p] = "toMap" /\ mu' = NoProc /\ p # NoProc
  BY ProcsAssumption DEF ToMapUnlock, Release, Known, LockInv
<1>2. statsBytes = Bytes /\ statsErr = Err
  BY <1>1, OutsideCrit DEF InCrit, Crit, Known
<1>3. TypeOK' /\ Bytes' = Bytes /\ Err' = Err
  BY <1>1, ViewUnlockType DEF ToMapUnlock, Goto, Release, Known, TypeOK, PCs
<1>4. statsBytes' = Bytes /\ statsErr' = Err
  BY <1>1, <1>3 DEF InCrit, statsBytes, statsErr, TypeOK
<1>5. view' = [view EXCEPT ![p] = [literal |-> mapLiteral, added |-> mapAdded]]
  BY <1>1 DEF ToMapUnlock, Known, MapInv
<1>6. [literal |-> mapLiteral, added |-> mapAdded] = Stats!Snapshot
  <2>1. Stats!WarningsOf(Reconnects, Info) = warnings
    BY DEF warnings, WarningsOf, Stats!WarningsOf, State, Stats!State, NoInfo,
           Stats!NoInfo
  <2> QED
    BY <1>2, <2>1 DEF mapLiteral, mapAdded, Stats!Snapshot
<1>7. statsView' = [statsView EXCEPT ![p] = Stats!Snapshot]
  BY <1>1, <1>5, <1>6 DEF statsView, ToMapUnlock, Goto, Known, TypeOK
<1> QED
  BY <1>2, <1>4, <1>7 DEF ToMapUnlock, Stats!ToMap, Stats!transfers, Stats!infos

\* The remaining steps keep the abstract counters and errors.
LEMMA SameTransfers ==
  ASSUME Known, mu = NoProc, UNCHANGED <<mu, Bytes, Err>>
  PROVE  statsBytes' = statsBytes /\ statsErr' = statsErr
<1>1. Bytes \in [Dir -> Nat] /\ Err \in [Dir -> ErrKind]
  BY DEF Known, TypeOK
<1>2. \A d \in Dir : ~InCrit(d) /\ ~InCrit(d)'
  BY DEF InCrit
<1> QED
  BY <1>1, <1>2 DEF statsBytes, statsErr

\* Storing an info or a failure is RecordInfo or RecordFailure.
LEMMA StoreStep ==
  ASSUME Known, NEW p \in Procs, GatherStore(p)
  PROVE  Stats!RecordFailure \/ \E s \in State : Stats!RecordInfo(s)
<1> USE DEF world, sched, locals, io, meta, hist, gatherUnchanged
<1>1. statsBytes' = statsBytes /\ statsErr' = statsErr
  BY SameTransfers DEF GatherStore, Locked
<1>2. statsView' = statsView
  BY DEF GatherStore, Goto, statsView, Known, TypeOK
<1>3. UNCHANGED <<FirstAt, LastAt, ClosedAt, Reconnects>>
  BY DEF GatherStore
<1>4. CASE query[p] = NoInfo
  BY <1>1, <1>2, <1>3, <1>4
  DEF GatherStore, Stats!RecordFailure, Stats!transfers
<1>5. CASE query[p] # NoInfo
  <2>1. /\ Reporting \in State /\ UNCHANGED InfoErr
        /\ Info' = [Info EXCEPT ![Reporting] = query[p]]
        /\ Info' = [Info EXCEPT ![Reporting] = Info'[Reporting]]
        /\ Info'[Reporting] # NoInfo
    BY <1>5 DEF GatherStore, Reporting, State, Known, TypeOK
  <2>2. Reporting = "Closed" => ClosedAt > 0 /\ Info["Opened"] # NoInfo
    BY DEF GatherStore, Reporting, Known, WrapInv, OpenedInv, Gathering
  <2> QED
    BY <1>1, <1>2, <1>3, <2>1, <2>2
    DEF Stats!RecordInfo, Stats!transfers, NoInfo, Stats!NoInfo
<1> QED
  BY <1>4, <1>5

\* Every execution of the methods of Conn is an execution of the atomic object
\* ConnStats: each Read, Write, Close, SetReconnects and ToMap acts on the
\* statistics at a single instant, for any number of goroutines.
THEOREM Refinement == Spec => ImplementsStats
<1>1. Init => Stats!Init
  <2> SUFFICES ASSUME Init PROVE Stats!Init
    OBVIOUS
  <2>1. \A d \in Dir : ~InCrit(d)
    BY DEF Init, InCrit
  <2>2. statsBytes = [d \in Dir |-> 0] /\ statsErr = [d \in Dir |-> "nil"]
    BY <2>1 DEF Init, statsBytes, statsErr
  <2>3. statsView = [p \in Procs |-> NoView]
    BY DEF Init, statsView
  <2> QED
    BY <2>2, <2>3
    DEF Init, Stats!Init, NoView, Stats!NoView, Dir, Stats!Dir, State, Stats!State,
        NoInfo, Stats!NoInfo
<1>2. Known /\ [Next]_vars => [Stats!Next]_(Stats!vars)
  <2> SUFFICES ASSUME Known, [Next]_vars PROVE Stats!Next \/ UNCHANGED Stats!vars
    OBVIOUS
  <2> USE DEF world, sched, locals, io, meta, hist, gatherUnchanged
  <2>0. Stats!Dir = Dir /\ Stats!State = State /\ Stats!NoView = NoView
    BY DEF Dir, Stats!Dir, State, Stats!State, NoView, Stats!NoView, NoInfo, Stats!NoInfo
  <2>1. ASSUME NEW p \in Procs, NEW d \in Dir, IOLock(p, d) PROVE Stats!Next
    BY <2>0, <2>1, TransferStep DEF Stats!Next
  <2>2. ASSUME NEW p \in Procs, ReadUnlock(p) \/ WriteUnlock(p)
        PROVE  UNCHANGED Stats!vars
    BY <2>2, UnlockStep
  <2>3. ASSUME NEW p \in Procs, SetReconnects(p) PROVE Stats!Next
    <3>1. statsBytes' = statsBytes /\ statsErr' = statsErr
      BY <2>3, SameTransfers DEF SetReconnects, Locked
    <3>2. statsView' = statsView
      BY <2>3 DEF SetReconnects, statsView
    <3>3. Reconnects' \in Nat /\ UNCHANGED <<FirstAt, LastAt, ClosedAt, InfoErr, Info>>
      BY <2>3, BoundsAssumption DEF SetReconnects
    <3>4. Stats!SetReconnects
      BY <3>1, <3>2, <3>3 DEF Stats!SetReconnects, Stats!transfers, Stats!infos
    <3> QED
      BY <3>4 DEF Stats!Next
  <2>4. ASSUME NEW p \in Procs, ToMapLock(p) PROVE Stats!Next
    <3>1. mu = NoProc /\ mu' = p /\ pc'[p] = "toMap" /\ UNCHANGED <<io, meta>>
      BY <2>4 DEF ToMapLock, Acquire, Goto, Known, TypeOK
    <3>2. \A d \in Dir : ~InCrit(d) /\ ~InCrit(d)'
      BY <3>1 DEF InCrit, Crit
    <3>3. statsBytes' = statsBytes /\ statsErr' = statsErr
      BY <3>1, <3>2 DEF statsBytes, statsErr
    <3>4. statsView' = [statsView EXCEPT ![p] = NoView]
      BY <2>4 DEF statsView, ToMapLock, Goto, Known, TypeOK
    <3>5. Stats!Forget(p)
      BY <2>0, <3>1, <3>3, <3>4 DEF Stats!Forget, Stats!transfers, Stats!infos
    <3> QED
      BY <3>5 DEF Stats!Next
  <2>5. ASSUME NEW p \in Procs, ToMapUnlock(p) PROVE Stats!Next
    BY <2>5, SnapshotStep DEF Stats!Next
  <2>6. ASSUME NEW p \in Procs, ToMapReturn(p) PROVE Stats!Next
    <3>1. /\ UNCHANGED <<io, meta, mu, res, tmp>>
          /\ pc[p] = "mapped" /\ pc' = [pc EXCEPT ![p] = "idle"]
      BY <2>6 DEF ToMapReturn, Goto
    <3>2. \A d \in Dir : InCrit(d)' <=> InCrit(d)
      BY <3>1, ProcsAssumption DEF InCrit, Crit, Known, TypeOK
    <3>3. statsBytes' = statsBytes /\ statsErr' = statsErr
      BY <3>1, <3>2 DEF statsBytes, statsErr, Total
    <3>4. statsView' = [statsView EXCEPT ![p] = NoView]
      BY <2>6 DEF statsView, ToMapReturn, Goto, Known, TypeOK
    <3>5. Stats!Forget(p)
      BY <2>0, <3>1, <3>3, <3>4 DEF Stats!Forget, Stats!transfers, Stats!infos
    <3> QED
      BY <3>5 DEF Stats!Next
  <2>7. ASSUME NEW p \in Procs, GatherStore(p) PROVE Stats!Next
    BY <2>0, <2>7, StoreStep DEF Stats!Next
  <2>8. ASSUME NEW p \in Procs, CloseStamp(p) PROVE Stats!Next
    <3>1. statsBytes' = statsBytes /\ statsErr' = statsErr
      BY <2>8, SameTransfers DEF CloseStamp, Locked
    <3>2. statsView' = statsView
      <4>1. pc \in [Procs -> PCs]
        BY DEF Known, TypeOK
      <4>2. pc[p] = "idle" /\ pc' = [pc EXCEPT ![p] = "check"] /\ view' = view
        BY <2>8 DEF CloseStamp, Call, Goto, locals
      <4>3. \A q \in Procs : pc'[q] = "toMap" <=> pc[q] = "toMap"
        BY <4>1, <4>2
      <4> QED
        BY <4>2, <4>3 DEF statsView
    <3>3. /\ ClosedAt' \in Nat /\ ClosedAt' >= ClosedAt /\ ClosedAt' > 0
          /\ UNCHANGED <<FirstAt, LastAt, Reconnects, InfoErr, Info>>
      <4>1. clock \in Nat \ {0} /\ ClosedAt \in Nat /\ ClosedAt <= clock
        BY DEF Known, TypeOK, StampInv
      <4>2. ClosedAt' = clock /\ UNCHANGED <<FirstAt, LastAt, Reconnects, InfoErr, Info>>
        BY <2>8 DEF CloseStamp
      <4> QED
        BY <4>1, <4>2
    <3>4. Stats!MarkClosed
      BY <3>1, <3>2, <3>3 DEF Stats!MarkClosed, Stats!transfers, Stats!infos
    <3> QED
      BY <3>4 DEF Stats!Next
  <2>9. ASSUME QuietStep PROVE UNCHANGED Stats!vars
    <3>1. mu \in Procs \cup {NoProc} /\ mu' = mu
      BY <2>9 DEF QuietStep, Known, TypeOK
    <3>2. \A d \in Dir : /\ InCrit(d)' <=> InCrit(d)
                         /\ InCrit(d) => res'[mu] = res[mu]
      BY <2>9, <3>1 DEF QuietStep, InCrit, Crit
    <3>3. statsBytes' = statsBytes /\ statsErr' = statsErr
      BY <2>9, <3>1, <3>2 DEF QuietStep, statsBytes, statsErr, Total
    <3>4. statsView' = statsView
      BY <2>9 DEF QuietStep, statsView
    <3> QED
      BY <2>9, <3>3, <3>4 DEF QuietStep, Stats!vars, Stats!transfers, Stats!infos
  <2> QED
    BY <2>1, <2>2, <2>3, <2>4, <2>5, <2>6, <2>7, <2>8, <2>9, StepKinds
    DEF Known, FieldStep
<1> QED
  BY <1>1, <1>2, KnownCorrect, PTL DEF Spec, ImplementsStats, Stats!Spec

=============================================================================
