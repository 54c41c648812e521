----------------------------- MODULE ConnProofs ------------------------------
(***************************************************************************)
(* Theorems about ConnWrap, for every set of goroutines and every bound:   *)
(* types, the mutex, the counters, the time stamps and the map.            *)
(***************************************************************************)
EXTENDS ConnInvariants, TLAPS

-----------------------------------------------------------------------------
(* Type correctness.                                                       *)

\* The zero map is a map.
LEMMA NoViewType == NoView \in View /\ NoView.added \in Added
BY DEF NoView, View, Literal, Added, Dir, State, ErrKind, NoInfo

\* Both steps of ToMap keep the maps in their type.
LEMMA ViewLockType ==
  ASSUME TypeOK, NEW p \in Procs, ToMapLock(p) PROVE view' \in [Procs -> View]
<1>1. warnings \in SUBSET (State \cup {"reconnects"})
  BY DEF warnings, WarningsOf
<1>2. mapLiteral \in Literal
  BY <1>1 DEF TypeOK, mapLiteral, Literal
<1>3. [literal |-> mapLiteral, added |-> NoView.added] \in View
  BY <1>2, NoViewType DEF View
<1> QED
  BY <1>3 DEF ToMapLock, TypeOK

\* The map ToMap returns is a map.
LEMMA ViewUnlockType ==
  ASSUME TypeOK, NEW p \in Procs, ToMapUnlock(p) PROVE view' \in [Procs -> View]
<1>1. view[p].literal \in Literal
  BY DEF TypeOK, View
<1>2. mapAdded \in Added
  BY DEF TypeOK, mapAdded, Added
<1>3. [literal |-> view[p].literal, added |-> mapAdded] \in View
  BY <1>1, <1>2 DEF View
<1> QED
  BY <1>3 DEF ToMapUnlock, TypeOK

\* The methods of Conn keep every field, the mutex and every local in its type.
THEOREM TypeCorrect == Spec => []TypeOK
<1> USE ProcsAssumption, BoundsAssumption
    DEF Dir, State, ErrKind, NoInfo, NoResult, PCs,
        world, sched, locals, io, meta, hist, gatherUnchanged,
        Call, Goto, Acquire, Release, Locked
<1>1. Init => TypeOK
  <2> SUFFICES ASSUME Init PROVE TypeOK
    OBVIOUS
  <2>1. res \in [Procs -> [n : Nat, err : ErrKind]]
    BY DEF Init
  <2>2. view \in [Procs -> View]
    BY NoViewType DEF Init
  <2>3. pc \in [Procs -> PCs]
    BY DEF Init
  <2>4. env \in [reporter : BOOLEAN, supports : BOOLEAN, tcp : BOOLEAN]
    BY DEF Init
  <2>5. returned \in BOOLEAN /\ InfoErr \in BOOLEAN /\ sysFailed \in BOOLEAN
    BY DEF Init
  <2>6. /\ FirstAt \in [Dir -> Nat] /\ LastAt \in [Dir -> Nat]
        /\ Bytes \in [Dir -> Nat] /\ Err \in [Dir -> ErrKind]
        /\ delivered \in [Dir -> Nat]
        /\ Info \in [State -> Nat] /\ reports \in [State -> Nat]
    BY DEF Init
  <2>7. calls \in [Procs -> Nat] /\ tmp \in [Procs -> Nat] /\ query \in [Procs -> Nat]
    BY DEF Init
  <2>8. /\ sock = "open" /\ clock = 1 /\ mu = NoProc /\ OpenedAt = 1
        /\ ClosedAt = 0 /\ Reconnects = 0
    BY DEF Init
  <2> QED
    BY <2>1, <2>2, <2>3, <2>4, <2>5, <2>6, <2>7, <2>8 DEF TypeOK
<1>2. TypeOK /\ [Next]_vars => TypeOK'
  <2> SUFFICES ASSUME TypeOK, [Next]_vars PROVE TypeOK'
    OBVIOUS
  <2>1. ASSUME NEW p \in Procs, NEW d \in Dir, IOReturns(p, d) PROVE TypeOK'
    BY <2>1 DEF TypeOK, IOReturns, Results, Ret
  <2>2. ASSUME NEW p \in Procs, NEW d \in Dir, IOLock(p, d) PROVE TypeOK'
    BY <2>2 DEF TypeOK, IOLock, Crit
  <2>3. ASSUME NEW p \in Procs, ReadUnlock(p) PROVE TypeOK'
    BY <2>3 DEF TypeOK, ReadUnlock, IOUnlock, Total
  <2>4. ASSUME NEW p \in Procs, WriteUnlock(p) PROVE TypeOK'
    BY <2>4 DEF TypeOK, WriteUnlock, IOUnlock, Total
  <2>5. ASSUME NEW p \in Procs, SetReconnects(p) PROVE TypeOK'
    BY <2>5 DEF TypeOK, SetReconnects
  <2>6. ASSUME NEW p \in Procs, ToMapLock(p) PROVE TypeOK'
    <3>1. view' \in [Procs -> View]
      BY <2>6, ViewLockType
    <3>2. /\ mu' = p /\ calls' = [calls EXCEPT ![p] = @ + 1]
          /\ pc' = [pc EXCEPT ![p] = "toMap"]
          /\ UNCHANGED <<world, returned, res, tmp, query, io, meta, hist>>
      BY <2>6 DEF ToMapLock
    <3> QED
      BY <3>1, <3>2 DEF TypeOK
  <2>7. ASSUME NEW p \in Procs, ToMapUnlock(p) PROVE TypeOK'
    <3>1. view' \in [Procs -> View]
      BY <2>7, ViewUnlockType
    <3>2. /\ mu' = NoProc /\ pc' = [pc EXCEPT ![p] = "mapped"]
          /\ UNCHANGED <<world, calls, returned, res, tmp, query, io, meta, hist>>
      BY <2>7 DEF ToMapUnlock
    <3> QED
      BY <3>1, <3>2 DEF TypeOK
  <2>8. ASSUME NEW p \in Procs, ToMapReturn(p) PROVE TypeOK'
    BY <2>8, NoViewType DEF TypeOK, ToMapReturn
  <2>9. ASSUME NEW p \in Procs, GatherCheck(p) PROVE TypeOK'
    BY <2>9 DEF TypeOK, GatherCheck
  <2>10. ASSUME NEW p \in Procs, GatherEligible(p) PROVE TypeOK'
    BY <2>10 DEF TypeOK, GatherEligible
  <2>11. ASSUME NEW p \in Procs, GatherQuery(p) PROVE TypeOK'
    <3>1. sysFailed' \in BOOLEAN
      BY <2>11 DEF GatherQuery
    <3>2. query' \in [Procs -> Nat]
      BY <2>11 DEF TypeOK, GatherQuery
    <3> QED
      BY <2>11, <3>1, <3>2 DEF TypeOK, GatherQuery
  <2>12. ASSUME NEW p \in Procs, GatherStore(p) PROVE TypeOK'
    <3>1. InfoErr' \in BOOLEAN /\ Info' \in [State -> Nat]
      <4>1. CASE query[p] = NoInfo
        BY <2>12, <4>1 DEF TypeOK, GatherStore
      <4>2. CASE query[p] # NoInfo
        <5>1. Reporting \in State /\ query[p] \in Nat
          BY DEF TypeOK, Reporting
        <5>2. Info' = [Info EXCEPT ![Reporting] = query[p]] /\ UNCHANGED InfoErr
          BY <2>12, <4>2 DEF GatherStore
        <5> QED
          BY <5>1, <5>2 DEF TypeOK
      <4> QED
        BY <4>1, <4>2
    <3>2. query' \in [Procs -> Nat] /\ pc' \in [Procs -> PCs]
      BY <2>12 DEF TypeOK, GatherStore
    <3>3. mu' = NoProc /\ UNCHANGED <<gatherUnchanged, OpenedAt, ClosedAt, Reconnects, hist>>
      BY <2>12 DEF GatherStore
    <3> QED
      BY <3>1, <3>2, <3>3 DEF TypeOK
  <2>13. ASSUME NEW p \in Procs, Callback(p) PROVE TypeOK'
    BY <2>13 DEF TypeOK, Callback, Reporting
  <2>14. ASSUME NEW p \in Procs, WrapReturns(p) PROVE TypeOK'
    BY <2>14 DEF TypeOK, WrapReturns
  <2>15. ASSUME NEW p \in Procs, CloseStamp(p) PROVE TypeOK'
    BY <2>15 DEF TypeOK, CloseStamp
  <2>16. ASSUME NEW p \in Procs, CloseSock(p) PROVE TypeOK'
    BY <2>16 DEF TypeOK, CloseSock
  <2>17. ASSUME Tick PROVE TypeOK'
    BY <2>17 DEF TypeOK, Tick
  <2>18. ASSUME UNCHANGED vars PROVE TypeOK'
    BY <2>18 DEF TypeOK, vars
  <2> QED
    BY <2>1, <2>2, <2>3, <2>4, <2>5, <2>6, <2>7, <2>8, <2>9, <2>10, <2>11,
       <2>12, <2>13, <2>14, <2>15, <2>16, <2>17, <2>18
    DEF Next, Step, Read, Write, ToMap, GatherAndReport, Close, Done
<1> QED
  BY <1>1, <1>2, PTL DEF Spec

\* The mutex is held exactly while a method is between its Lock and Unlock, so
\* no two goroutines are in the critical sections of Read, Write or ToMap.
THEOREM MutualExclusion == Spec => []LockInv
<1> USE ProcsAssumption DEF world, sched, locals, io, meta, hist, gatherUnchanged
<1>1. Init => LockInv
  BY DEF Init, LockInv
<1>2. TypeOK /\ LockInv /\ [Next]_vars => LockInv'
  <2> SUFFICES ASSUME TypeOK, LockInv, [Next]_vars PROVE LockInv'
    OBVIOUS
  <2> USE DEF TypeOK, LockInv
  <2>1. ASSUME NEW p \in Procs, NEW d \in Dir, IOReturns(p, d) PROVE LockInv'
    BY <2>1 DEF Call, Goto, IOReturns, Ret
  <2>2. ASSUME NEW p \in Procs, NEW d \in Dir, IOLock(p, d) PROVE LockInv'
    BY <2>2 DEF Goto, Acquire, IOLock, Ret, Crit
  <2>3. ASSUME NEW p \in Procs, ReadUnlock(p) PROVE LockInv'
    BY <2>3 DEF Goto, Release, ReadUnlock, IOUnlock, Crit
  <2>4. ASSUME NEW p \in Procs, WriteUnlock(p) PROVE LockInv'
    BY <2>4 DEF Goto, Release, WriteUnlock, IOUnlock, Crit
  <2>5. ASSUME NEW p \in Procs, SetReconnects(p) PROVE LockInv'
    BY <2>5 DEF Call, Locked, SetReconnects
  <2>6. ASSUME NEW p \in Procs, ToMapLock(p) PROVE LockInv'
    BY <2>6 DEF Call, Goto, Acquire, ToMapLock
  <2>7. ASSUME NEW p \in Procs, ToMapUnlock(p) PROVE LockInv'
    BY <2>7 DEF Goto, Release, ToMapUnlock
  <2>8. ASSUME NEW p \in Procs, ToMapReturn(p) PROVE LockInv'
    BY <2>8 DEF Goto, ToMapReturn
  <2>9. ASSUME NEW p \in Procs, GatherCheck(p) PROVE LockInv'
    BY <2>9 DEF Goto, GatherCheck
  <2>10. ASSUME NEW p \in Procs, GatherEligible(p) PROVE LockInv'
    BY <2>10 DEF Goto, GatherEligible
  <2>11. ASSUME NEW p \in Procs, GatherQuery(p) PROVE LockInv'
    BY <2>11 DEF Goto, GatherQuery
  <2>12. ASSUME NEW p \in Procs, GatherStore(p) PROVE LockInv'
    BY <2>12 DEF Goto, Locked, GatherStore
  <2>13. ASSUME NEW p \in Procs, Callback(p) PROVE LockInv'
    BY <2>13 DEF Goto, Locked, Callback
  <2>14. ASSUME NEW p \in Procs, WrapReturns(p) PROVE LockInv'
    BY <2>14 DEF Goto, WrapReturns
  <2>15. ASSUME NEW p \in Procs, CloseStamp(p) PROVE LockInv'
    BY <2>15 DEF Call, Goto, Locked, CloseStamp
  <2>16. ASSUME NEW p \in Procs, CloseSock(p) PROVE LockInv'
    BY <2>16 DEF Goto, CloseSock
  <2>17. ASSUME Tick PROVE LockInv'
    BY <2>17 DEF Tick
  <2>18. ASSUME UNCHANGED vars PROVE LockInv'
    BY <2>18 DEF vars
  <2> HIDE DEF TypeOK, LockInv
  <2> QED
    BY <2>1, <2>2, <2>3, <2>4, <2>5, <2>6, <2>7, <2>8, <2>9, <2>10, <2>11,
       <2>12, <2>13, <2>14, <2>15, <2>16, <2>17, <2>18
    DEF Dir, Next, Step, Read, Write, ToMap, GatherAndReport, Close, Done
<1> QED
  BY <1>1, <1>2, TypeCorrect, PTL DEF Spec

\* A goroutine that has loaded a byte counter under the lock finds it unchanged
\* when it stores it, so the counters are exactly what the callers were told.
THEOREM CountCorrect == Spec => []CountInv
<1> USE ProcsAssumption DEF Dir, Crit, world, sched, locals, io, meta, hist, gatherUnchanged, BytesExact
<1>1. Init => CountInv
  BY DEF Init, CountInv
<1>2. TypeOK /\ LockInv /\ CountInv /\ [Next]_vars => CountInv'
  <2> SUFFICES ASSUME TypeOK, LockInv, CountInv, [Next]_vars PROVE CountInv'
    OBVIOUS
  <2>t. /\ pc \in [Procs -> PCs] /\ mu \in Procs \cup {NoProc}
        /\ res \in [Procs -> [n : Nat, err : ErrKind]] /\ tmp \in [Procs -> Nat]
        /\ Bytes \in [Dir -> Nat] /\ delivered \in [Dir -> Nat]
    BY DEF TypeOK
  <2> USE <2>t DEF LockInv, CountInv
  <2>1. ASSUME NEW p \in Procs, NEW d \in Dir, IOReturns(p, d) PROVE CountInv'
    BY <2>1 DEF Call, Goto, IOReturns, Ret
  <2>2. ASSUME NEW p \in Procs, NEW d \in Dir, IOLock(p, d) PROVE CountInv'
    BY <2>2 DEF Goto, Acquire, IOLock, Ret, Crit
  <2>3. ASSUME NEW p \in Procs, ReadUnlock(p) PROVE CountInv'
    BY <2>3 DEF Goto, Release, ReadUnlock, IOUnlock, Crit, Total
  <2>4. ASSUME NEW p \in Procs, WriteUnlock(p) PROVE CountInv'
    BY <2>4 DEF Goto, Release, WriteUnlock, IOUnlock, Crit, Total
  <2>5. ASSUME NEW p \in Procs, SetReconnects(p) PROVE CountInv'
    BY <2>5 DEF Call, Locked, SetReconnects
  <2>6. ASSUME NEW p \in Procs, ToMapLock(p) PROVE CountInv'
    BY <2>6 DEF Call, Goto, Acquire, ToMapLock
  <2>7. ASSUME NEW p \in Procs, ToMapUnlock(p) PROVE CountInv'
    BY <2>7 DEF Goto, Release, ToMapUnlock
  <2>8. ASSUME NEW p \in Procs, ToMapReturn(p) PROVE CountInv'
    BY <2>8 DEF Goto, ToMapReturn
  <2>9. ASSUME NEW p \in Procs, GatherCheck(p) PROVE CountInv'
    BY <2>9 DEF Goto, GatherCheck
  <2>10. ASSUME NEW p \in Procs, GatherEligible(p) PROVE CountInv'
    BY <2>10 DEF Goto, GatherEligible
  <2>11. ASSUME NEW p \in Procs, GatherQuery(p) PROVE CountInv'
    BY <2>11 DEF Goto, GatherQuery
  <2>12. ASSUME NEW p \in Procs, GatherStore(p) PROVE CountInv'
    BY <2>12 DEF Goto, Locked, GatherStore
  <2>13. ASSUME NEW p \in Procs, Callback(p) PROVE CountInv'
    BY <2>13 DEF Goto, Locked, Callback
  <2>14. ASSUME NEW p \in Procs, WrapReturns(p) PROVE CountInv'
    BY <2>14 DEF Goto, WrapReturns
  <2>15. ASSUME NEW p \in Procs, CloseStamp(p) PROVE CountInv'
    BY <2>15 DEF Call, Goto, Locked, CloseStamp
  <2>16. ASSUME NEW p \in Procs, CloseSock(p) PROVE CountInv'
    BY <2>16 DEF Goto, CloseSock
  <2>17. ASSUME Tick PROVE CountInv'
    BY <2>17 DEF Tick
  <2>18. ASSUME UNCHANGED vars PROVE CountInv'
    BY <2>18 DEF vars
  <2> HIDE <2>t DEF LockInv, CountInv
  <2> QED
    BY <2>1, <2>2, <2>3, <2>4, <2>5, <2>6, <2>7, <2>8, <2>9, <2>10, <2>11,
       <2>12, <2>13, <2>14, <2>15, <2>16, <2>17, <2>18
    DEF Dir, Next, Step, Read, Write, ToMap, GatherAndReport, Close, Done
<1> QED
  BY <1>1, <1>2, TypeCorrect, MutualExclusion, PTL DEF Spec

\* The times of Read, Write and Close are ordered and belong to real transfers.
THEOREM StampCorrect == Spec => []StampInv
<1> USE ProcsAssumption DEF Dir, Crit, world, sched, locals, io, meta, hist, gatherUnchanged
<1>1. Init => StampInv
  BY DEF Init, StampInv
<1>2. TypeOK /\ LockInv /\ CountInv /\ StampInv /\ [Next]_vars => StampInv'
  <2> SUFFICES ASSUME TypeOK, LockInv, CountInv, StampInv, [Next]_vars PROVE StampInv'
    OBVIOUS
  <2>t. /\ pc \in [Procs -> PCs] /\ mu \in Procs \cup {NoProc}
        /\ res \in [Procs -> [n : Nat, err : ErrKind]] /\ tmp \in [Procs -> Nat]
        /\ Bytes \in [Dir -> Nat]
        /\ clock \in Nat \ {0} /\ OpenedAt \in Nat \ {0} /\ ClosedAt \in Nat
        /\ FirstAt \in [Dir -> Nat] /\ LastAt \in [Dir -> Nat]
    BY DEF TypeOK
  <2> USE <2>t DEF LockInv, CountInv, StampInv
  <2>1. ASSUME NEW p \in Procs, NEW d \in Dir, IOReturns(p, d) PROVE StampInv'
    BY <2>1 DEF Call, Goto, IOReturns, Ret
  <2>2. ASSUME NEW p \in Procs, NEW d \in Dir, IOLock(p, d) PROVE StampInv'
    BY <2>2, SMTT(30) DEF Goto, Acquire, IOLock, Ret, Crit, Transferred
  <2>3. ASSUME NEW p \in Procs, ReadUnlock(p) PROVE StampInv'
    BY <2>3, SMTT(30) DEF Goto, Release, ReadUnlock, IOUnlock, Crit, Total
  <2>4. ASSUME NEW p \in Procs, WriteUnlock(p) PROVE StampInv'
    BY <2>4, SMTT(30) DEF Goto, Release, WriteUnlock, IOUnlock, Crit, Total
  <2>5. ASSUME NEW p \in Procs, SetReconnects(p) PROVE StampInv'
    BY <2>5 DEF Call, Locked, SetReconnects
  <2>6. ASSUME NEW p \in Procs, ToMapLock(p) PROVE StampInv'
    BY <2>6 DEF Call, Goto, Acquire, ToMapLock
  <2>7. ASSUME NEW p \in Procs, ToMapUnlock(p) PROVE StampInv'
    BY <2>7 DEF Goto, Release, ToMapUnlock
  <2>8. ASSUME NEW p \in Procs, ToMapReturn(p) PROVE StampInv'
    BY <2>8 DEF Goto, ToMapReturn
  <2>9. ASSUME NEW p \in Procs, GatherCheck(p) PROVE StampInv'
    BY <2>9 DEF Goto, GatherCheck
  <2>10. ASSUME NEW p \in Procs, GatherEligible(p) PROVE StampInv'
    BY <2>10 DEF Goto, GatherEligible
  <2>11. ASSUME NEW p \in Procs, GatherQuery(p) PROVE StampInv'
    BY <2>11 DEF Goto, GatherQuery
  <2>12. ASSUME NEW p \in Procs, GatherStore(p) PROVE StampInv'
    BY <2>12 DEF Goto, Locked, GatherStore
  <2>13. ASSUME NEW p \in Procs, Callback(p) PROVE StampInv'
    BY <2>13 DEF Goto, Locked, Callback
  <2>14. ASSUME NEW p \in Procs, WrapReturns(p) PROVE StampInv'
    BY <2>14 DEF Goto, WrapReturns
  <2>15. ASSUME NEW p \in Procs, CloseStamp(p) PROVE StampInv'
    BY <2>15 DEF Call, Goto, Locked, CloseStamp
  <2>16. ASSUME NEW p \in Procs, CloseSock(p) PROVE StampInv'
    BY <2>16 DEF Goto, CloseSock
  <2>17. ASSUME Tick PROVE StampInv'
    BY <2>17 DEF Tick
  <2>18. ASSUME UNCHANGED vars PROVE StampInv'
    BY <2>18 DEF vars
  <2> HIDE <2>t DEF LockInv, CountInv, StampInv
  <2> QED
    BY <2>1, <2>2, <2>3, <2>4, <2>5, <2>6, <2>7, <2>8, <2>9, <2>10, <2>11,
       <2>12, <2>13, <2>14, <2>15, <2>16, <2>17, <2>18
    DEF Dir, Next, Step, Read, Write, ToMap, GatherAndReport, Close, Done
<1> QED
  BY <1>1, <1>2, TypeCorrect, MutualExclusion, CountCorrect, PTL DEF Spec

\* A map that ToMap is building agrees with the fields until it is complete:
\* no other goroutine can change a field it has already copied.
THEOREM MapCorrect == Spec => []MapInv
<1> DEFINE shown == <<ClosedAt, FirstAt, LastAt, Bytes, Reconnects, Info>>
<1> USE ProcsAssumption DEF world, sched, locals, io, meta, hist, gatherUnchanged
<1>1. Init => MapInv
  BY DEF Init, MapInv
<1>2. TypeOK /\ LockInv /\ MapInv /\ [Next]_vars => MapInv'
  <2> SUFFICES ASSUME TypeOK, LockInv, MapInv, [Next]_vars PROVE MapInv'
    OBVIOUS
  <2>0. UNCHANGED shown => mapLiteral' = mapLiteral
    BY DEF mapLiteral, warnings
  <2>1. ASSUME mu = NoProc, NEW p \in Procs, NEW l, l # "toMap",
               pc' = [pc EXCEPT ![p] = l], UNCHANGED view
        PROVE  MapInv'
    BY <2>1 DEF TypeOK, LockInv, MapInv
  <2>2. ASSUME NEW p \in Procs, NEW l, l # "toMap", pc' = [pc EXCEPT ![p] = l],
               \A q \in Procs : q # p => view'[q] = view[q], UNCHANGED shown
        PROVE  MapInv'
    BY <2>0, <2>2 DEF TypeOK, MapInv
  <2>3. ASSUME NEW p \in Procs, NEW d \in Dir, IOReturns(p, d) PROVE MapInv'
    <3>1. Ret(d) # "toMap" /\ pc' = [pc EXCEPT ![p] = Ret(d)]
      BY <2>3 DEF Goto, IOReturns, Ret
    <3> QED
      BY <2>2, <2>3, <3>1 DEF IOReturns
  <2>4. ASSUME NEW p \in Procs, NEW d \in Dir, IOLock(p, d) PROVE MapInv'
    <3>1. Crit(d) # "toMap" /\ pc' = [pc EXCEPT ![p] = Crit(d)]
      BY <2>4 DEF Goto, IOLock, Crit
    <3> QED
      BY <2>1, <2>4, <3>1 DEF Acquire, IOLock
  <2>5. ASSUME NEW p \in Procs, ReadUnlock(p) \/ WriteUnlock(p) PROVE MapInv'
    <3>1. mu = p
      BY <2>5 DEF LockInv, ReadUnlock, WriteUnlock, IOUnlock, Crit
    <3>2. \A q \in Procs : q # p => pc[q] # "toMap"
      BY <3>1 DEF LockInv
    <3> QED
      BY <2>5, <3>2 DEF TypeOK, MapInv, Goto, ReadUnlock, WriteUnlock, IOUnlock
  <2>6. ASSUME NEW p \in Procs, SetReconnects(p) PROVE MapInv'
    BY <2>6 DEF TypeOK, LockInv, MapInv, Call, Locked, SetReconnects
  <2>7. ASSUME NEW p \in Procs, ToMapLock(p) PROVE MapInv'
    <3>1. \A q \in Procs : pc[q] # "toMap"
      BY <2>7 DEF LockInv, Acquire, ToMapLock
    <3>2. mapLiteral' = mapLiteral
      BY <2>0, <2>7 DEF ToMapLock
    <3> QED
      BY <2>7, <3>1, <3>2 DEF TypeOK, MapInv, Goto, ToMapLock
  <2>8. ASSUME NEW p \in Procs, ToMapUnlock(p) \/ ToMapReturn(p) PROVE MapInv'
    BY <2>2, <2>8 DEF TypeOK, Goto, ToMapUnlock, ToMapReturn
  <2>9. ASSUME NEW p \in Procs, GatherCheck(p) \/ GatherEligible(p) \/ GatherQuery(p)
        PROVE  MapInv'
    BY <2>2, <2>9 DEF Goto, GatherCheck, GatherEligible, GatherQuery
  <2>10. ASSUME NEW p \in Procs, GatherStore(p) \/ Callback(p) \/ CloseStamp(p)
         PROVE  MapInv'
    BY <2>1, <2>10 DEF Goto, Locked, GatherStore, Callback, CloseStamp
  <2>11. ASSUME NEW p \in Procs, WrapReturns(p) \/ CloseSock(p) PROVE MapInv'
    BY <2>2, <2>11 DEF Goto, WrapReturns, CloseSock
  <2>12. ASSUME Tick \/ UNCHANGED vars PROVE MapInv'
    BY <2>0, <2>12 DEF MapInv, Tick, vars
  <2> QED
    BY <2>3, <2>4, <2>5, <2>6, <2>7, <2>8, <2>9, <2>10, <2>11, <2>12
    DEF Dir, Next, Step, Read, Write, ToMap, GatherAndReport, Close, Done
<1> QED
  BY <1>1, <1>2, TypeCorrect, MutualExclusion, PTL DEF Spec

\* RxBytes and TxBytes are exactly the bytes all calls returned (wrap.go's
\* w.RxBytes += int64(n)), for any number of concurrent readers and writers.
THEOREM BytesCorrect == Spec => []BytesExact
BY CountCorrect, PTL DEF CountInv

\* Transfer times are set together, ordered, and visible only with their bytes.
THEOREM StampsCorrect == Spec => []StampsCoherent
<1>1. TypeOK /\ LockInv /\ StampInv => StampsCoherent
  BY ProcsAssumption DEF TypeOK, LockInv, StampInv, StampsCoherent, Dir
<1> QED
  BY <1>1, TypeCorrect, MutualExclusion, StampCorrect, PTL

-----------------------------------------------------------------------------
(* Progress: what liveness rests on.                                       *)

\* Whenever calls are under way one of them can go on, for any number of
\* goroutines: the holder of the mutex never waits for it.
THEOREM NoDeadlock == Spec => []NeverAllWaiting
<1>1. TypeOK /\ LockInv => NeverAllWaiting
  <2> SUFFICES ASSUME TypeOK, LockInv, NEW p \in Procs, pc[p] # "idle"
               PROVE  \E q \in Procs : pc[q] # "idle" /\
                        (pc[q] \in {"readReturned", "writeReturned", "store", "callback"}
                           => mu = NoProc)
    BY DEF NeverAllWaiting
  <2>1. CASE mu = NoProc
    BY <2>1
  <2>2. CASE mu # NoProc
    <3>1. mu \in Procs /\ pc[mu] \in {"readCrit", "writeCrit", "toMap"}
      BY <2>2 DEF TypeOK, LockInv
    <3> QED
      BY <3>1
  <2> QED
    BY <2>1, <2>2
<1> QED
  BY <1>1, TypeCorrect, MutualExclusion, PTL

\* A goroutine that takes one of these steps has fewer left.
Nearer(p) ==
  /\ StepsLeft[pc'[p]] < StepsLeft[pc[p]]
  /\ \A q \in Procs \ {p} : pc'[q] = pc[q]

\* The steps left at each label.
LEMMA StepsCount ==
  /\ StepsLeft["idle"] = 0
  /\ \A l \in {"readCrit", "writeCrit", "mapped", "gathered"} : StepsLeft[l] = 1
  /\ \A l \in {"readReturned", "writeReturned", "toMap", "callback"} : StepsLeft[l] = 2
  /\ StepsLeft["store"] = 3 /\ StepsLeft["query"] = 4
  /\ StepsLeft["eligible"] = 5 /\ StepsLeft["check"] = 6
BY DEF StepsLeft, PCs

\* No method loops or goes back, for any number of goroutines and calls, so every
\* call has at most seven steps.
THEOREM AdvanceCorrect == Spec => CallsAdvance
<1>1. TypeOK /\ [Next]_vars =>
        [\/ calls' # calls
         \/ UNCHANGED <<sched, locals, io, meta, hist>>
         \/ \E p \in Procs : Nearer(p)]_vars
  <2> SUFFICES ASSUME TypeOK, Next
               PROVE  \/ calls' # calls
                      \/ UNCHANGED <<sched, locals, io, meta, hist>>
                      \/ \E p \in Procs : Nearer(p)
    OBVIOUS
  <2>t. pc \in [Procs -> PCs] /\ calls \in [Procs -> Nat]
    BY DEF TypeOK
  <2>1. ASSUME NEW p \in Procs, Call(p) PROVE calls' # calls
    <3>1. calls'[p] = calls[p] + 1
      BY <2>t, <2>1 DEF Call
    <3> QED
      BY <2>t, <3>1
  <2>2. ASSUME NEW p \in Procs, NEW d \in Dir, IOReturns(p, d) PROVE Call(p)
    BY <2>2 DEF IOReturns
  <2>3. ASSUME NEW p \in Procs, SetReconnects(p) \/ ToMapLock(p) \/ CloseStamp(p) PROVE Call(p)
    BY <2>3 DEF SetReconnects, ToMapLock, CloseStamp
  <2>4. ASSUME NEW p \in Procs, NEW d \in Dir, IOLock(p, d) PROVE Nearer(p)
    BY <2>t, <2>4, StepsCount DEF IOLock, Ret, Crit, Goto, Nearer
  <2>5. ASSUME NEW p \in Procs, ReadUnlock(p) \/ WriteUnlock(p) PROVE Nearer(p)
    BY <2>t, <2>5, StepsCount DEF ReadUnlock, WriteUnlock, IOUnlock, Crit, Goto, Nearer
  <2>6. ASSUME NEW p \in Procs, ToMapUnlock(p) \/ ToMapReturn(p) PROVE Nearer(p)
    BY <2>t, <2>6, StepsCount DEF ToMapUnlock, ToMapReturn, Goto, Nearer
  <2>7. ASSUME NEW p \in Procs, GatherCheck(p) PROVE Nearer(p)
    BY <2>t, <2>7, StepsCount DEF GatherCheck, Goto, Nearer
  <2>8. ASSUME NEW p \in Procs, GatherEligible(p) PROVE Nearer(p)
    BY <2>t, <2>8, StepsCount DEF GatherEligible, Goto, Nearer
  <2>9. ASSUME NEW p \in Procs, GatherQuery(p) PROVE Nearer(p)
    BY <2>t, <2>9, StepsCount DEF GatherQuery, Goto, Nearer
  <2>10. ASSUME NEW p \in Procs, GatherStore(p) \/ Callback(p) PROVE Nearer(p)
    BY <2>t, <2>10, StepsCount DEF GatherStore, Callback, Goto, Nearer
  <2>11. ASSUME NEW p \in Procs, WrapReturns(p) \/ CloseSock(p) PROVE Nearer(p)
    BY <2>t, <2>11, StepsCount DEF WrapReturns, CloseSock, Goto, Nearer
  <2>12. ASSUME Tick \/ Done PROVE UNCHANGED <<sched, locals, io, meta, hist>>
    BY <2>12 DEF Tick, Done, vars
  <2> QED
    BY <2>1, <2>2, <2>3, <2>4, <2>5, <2>6, <2>7, <2>8, <2>9, <2>10, <2>11, <2>12
    DEF Dir, Next, Step, Read, Write, ToMap, GatherAndReport, Close
<1> QED
  BY <1>1, TypeCorrect, PTL DEF Spec, CallsAdvance, Nearer

=============================================================================
