------------------------------ MODULE ConnWrap ------------------------------
(***************************************************************************)
(* The connection wrapper of wrap.go: type Conn and its methods, called by *)
(* any number of goroutines.  A method is split where another goroutine    *)
(* can run: around the blocking call on the wrapped connection, between    *)
(* the unlocked reads of gatherAndReport, around the kernel query, around  *)
(* the callback, and inside the critical sections that read a field and    *)
(* write it back, so that it is the mutex, not the model, that makes them  *)
(* atomic.                                                                 *)
(*                                                                         *)
(* The fields FirstRxAt/FirstTxAt, LastRxAt/LastTxAt, RxBytes/TxBytes and  *)
(* RxErr/TxErr are functions of the direction "rx" or "tx"; OpenedInfo and *)
(* ClosedInfo are a function of the reported state.                        *)
(***************************************************************************)
EXTENDS Naturals, ConnTypes

CONSTANTS
  Procs,          \* the goroutines that share the connection
  Opener,         \* the goroutine that calls WrapConn
  Closers,        \* the goroutines that may call Close
  NoProc,         \* "nobody": the value of an unlocked mutex
  MaxCalls,       \* bound: calls each goroutine makes on the connection
  MaxChunk,       \* bound: bytes moved by one Read or Write
  MaxClock,       \* bound: number of distinct clock readings
  MaxReconnects   \* bound: argument of SetReconnects

ASSUME ProcsAssumption ==
  /\ Opener \in Procs
  /\ Closers \subseteq Procs
  /\ NoProc \notin Procs

ASSUME BoundsAssumption ==
  /\ MaxCalls \in Nat
  /\ MaxChunk \in Nat
  /\ MaxClock \in Nat \ {0}
  /\ MaxReconnects \in Nat

VARIABLES
  env,          \* reporter: reportStats # nil; supports: supportsTCPInfo;
                \* tcp: the wrapped connection is a *net.TCPConn
  sock,         \* the wrapped connection: "open" or "closed"
  clock,        \* time.Now().UnixNano()
  mu,           \* the holder of the embedded sync.Mutex
  pc,           \* where each goroutine is
  calls,        \* calls each goroutine has made
  returned,     \* WrapConn has returned the wrapped connection
  res,          \* local: result of the wrapped Read or Write
  tmp,          \* local: byte counter loaded by +=
  query,        \* local: result of the kernel query, 0 for an error
  view,         \* local: the map ToMap is building
  OpenedAt, ClosedAt, FirstAt, LastAt, Bytes, Err, InfoErr, Reconnects, Info,
  delivered,    \* history: bytes the callers were told of, by direction
  reports,      \* history: callbacks made, by state
  sysFailed     \* history: a query on an open socket failed

world  == <<env, sock, clock>>
sched  == <<mu, pc, calls, returned>>
locals == <<res, tmp, query, view>>
io     == <<FirstAt, LastAt, Bytes, Err>>
meta   == <<OpenedAt, ClosedAt, InfoErr, Reconnects, Info>>
hist   == <<delivered, reports, sysFailed>>
vars   == <<world, sched, locals, io, meta, hist>>

Ret(d)  == IF d = "rx" THEN "readReturned" ELSE "writeReturned"
Crit(d) == IF d = "rx" THEN "readCrit" ELSE "writeCrit"

PCs == {"idle", "readReturned", "readCrit", "writeReturned", "writeCrit",
        "toMap", "mapped", "check", "eligible", "query", "store", "callback",
        "gathered"}

NoResult == [n |-> 0, err |-> "nil"]

\* The state gatherAndReport was called with: WrapConn calls it before anyone
\* else has the connection, Close afterwards.
Reporting == IF returned THEN "Closed" ELSE "Opened"

-----------------------------------------------------------------------------
(* WrapConnWithContext up to the call of gatherAndReport.                  *)

Init ==
  /\ env \in [reporter : BOOLEAN, supports : BOOLEAN, tcp : BOOLEAN]
  /\ sock = "open" /\ clock = 1
  /\ mu = NoProc
  /\ pc = [p \in Procs |-> IF p = Opener THEN "check" ELSE "idle"]
  /\ calls = [p \in Procs |-> 0] /\ returned = FALSE
  /\ res = [p \in Procs |-> NoResult] /\ tmp = [p \in Procs |-> 0]
  /\ query = [p \in Procs |-> NoInfo] /\ view = [p \in Procs |-> NoView]
  /\ OpenedAt = clock /\ ClosedAt = 0
  /\ FirstAt = [d \in Dir |-> 0] /\ LastAt = [d \in Dir |-> 0]
  /\ Bytes = [d \in Dir |-> 0] /\ Err = [d \in Dir |-> "nil"]
  /\ InfoErr = FALSE /\ Reconnects = 0 /\ Info = [s \in State |-> NoInfo]
  /\ delivered = [d \in Dir |-> 0]
  /\ reports = [s \in State |-> 0] /\ sysFailed = FALSE

\* A goroutine that has the connection starts one more call on it.
Call(p) ==
  /\ returned /\ pc[p] = "idle" /\ calls[p] < MaxCalls
  /\ calls' = [calls EXCEPT ![p] = @ + 1]
  /\ UNCHANGED returned

Goto(p, label) == pc' = [pc EXCEPT ![p] = label]

\* Mutant: the lock is not taken.
AcquireNothing(p) == p \in Procs /\ UNCHANGED mu

Acquire(p) == mu = NoProc /\ mu' = p
Release == mu' = NoProc
Locked == mu = NoProc /\ mu' = NoProc   \* lock, one access, unlock: one step

-----------------------------------------------------------------------------
(* Read and Write.                                                         *)

\* What the wrapped connection may answer.  A TCP read never returns bytes
\* with an error; a TCP write may (a partial write), as may any call on a
\* connection of another type.  After Close every call fails.
Results(d) ==
  {r \in [n : 0..MaxChunk, err : ErrKind] :
     IF sock = "closed"
     THEN r.n = 0 /\ r.err \in (IF env.tcp THEN {"net"} ELSE {"net", "plain"})
     ELSE r.err = "nil" \/ r.n = 0 \/ d = "tx" \/ ~env.tcp}

\* w.Conn.Read(b) or w.Conn.Write(b) returns, with the mutex not held.
IOReturns(p, d) ==
  /\ Call(p)
  /\ \E r \in Results(d) : res' = [res EXCEPT ![p] = r]
  /\ Goto(p, Ret(d))
  /\ UNCHANGED <<world, mu, tmp, query, view, io, meta, hist>>

\* Mutant: an empty read is stamped.
TransferredEmpty(p) == res[p].err = "nil"

\* A successful transfer, the only kind that is stamped.
Transferred(p) == res[p].err = "nil" /\ res[p].n > 0

\* The byte counter after the call; n counts even with an error.
Total(p) == tmp[p] + res[p].n

\* Lock, stamp a successful transfer, and load the byte counter.
IOLock(p, d) ==
  /\ pc[p] = Ret(d)
  /\ Acquire(p)
  /\ FirstAt' = [FirstAt EXCEPT ![d] = IF Transferred(p) /\ @ = 0 THEN clock ELSE @]
  /\ LastAt' = [LastAt EXCEPT ![d] = IF Transferred(p) THEN clock ELSE @]
  /\ tmp' = [tmp EXCEPT ![p] = Bytes[d]]
  /\ Goto(p, Crit(d))
  /\ UNCHANGED <<world, calls, returned, res, query, view, Bytes, Err, meta, hist>>

\* Store the byte counter and the error, unlock and return to the caller.
IOUnlock(p, d, err) ==
  /\ pc[p] = Crit(d)
  /\ Release
  /\ Bytes' = [Bytes EXCEPT ![d] = Total(p)]
  /\ Err' = [Err EXCEPT ![d] = err]
  /\ delivered' = [delivered EXCEPT ![d] = @ + res[p].n]
  /\ res' = [res EXCEPT ![p] = NoResult]
  /\ tmp' = [tmp EXCEPT ![p] = 0]
  /\ Goto(p, "idle")
  /\ UNCHANGED <<world, calls, returned, query, view, FirstAt, LastAt, meta,
                 reports, sysFailed>>

\* Mutant: a later success clears the error.
ReadUnlockClearing(p) == IOUnlock(p, "rx", res[p].err)

\* RxErr keeps the last net.Error that is not a timeout.
ReadUnlock(p) ==
  IOUnlock(p, "rx", IF res[p].err = "net" THEN "net" ELSE Err["rx"])

\* TxErr is the error of the last Write, nil included.
WriteUnlock(p) == IOUnlock(p, "tx", res[p].err)

Read(p)  == IOReturns(p, "rx") \/ IOLock(p, "rx") \/ ReadUnlock(p)
Write(p) == IOReturns(p, "tx") \/ IOLock(p, "tx") \/ WriteUnlock(p)

-----------------------------------------------------------------------------
(* SetReconnects, and ToMap with the warnings it includes.                 *)

SetReconnects(p) ==
  /\ Call(p)
  /\ Locked
  /\ \E r \in 0..MaxReconnects : Reconnects' = r
  /\ UNCHANGED <<world, pc, locals, io, OpenedAt, ClosedAt, InfoErr, Info, hist>>

warnings == WarningsOf(Reconnects, Info)

mapLiteral ==
  [ClosedAt |-> ClosedAt, FirstAt |-> FirstAt, LastAt |-> LastAt, Bytes |-> Bytes,
   Reconnects |-> Reconnects, warned |-> warnings]

\* Lock and build the map literal.
ToMapLock(p) ==
  /\ Call(p)
  /\ Acquire(p)
  /\ view' = [view EXCEPT ![p] = [literal |-> mapLiteral, added |-> NoView.added]]
  /\ Goto(p, "toMap")
  /\ UNCHANGED <<world, res, tmp, query, io, meta, hist>>

\* Add the errors and the infos that are not nil, and unlock.
mapAdded == [Err |-> Err, InfoErr |-> InfoErr, Info |-> Info]

ToMapUnlock(p) ==
  /\ pc[p] = "toMap"
  /\ Release
  /\ view' = [view EXCEPT ![p] = [literal |-> @.literal, added |-> mapAdded]]
  /\ Goto(p, "mapped")
  /\ UNCHANGED <<world, calls, returned, res, tmp, query, io, meta, hist>>

\* The caller is done with the map.
ToMapReturn(p) ==
  /\ pc[p] = "mapped"
  /\ view' = [view EXCEPT ![p] = NoView]
  /\ Goto(p, "idle")
  /\ UNCHANGED <<world, mu, calls, returned, res, tmp, query, io, meta, hist>>

ToMap(p) == ToMapLock(p) \/ ToMapUnlock(p) \/ ToMapReturn(p)

-----------------------------------------------------------------------------
(* gatherAndReport, called by WrapConn and by Close.                       *)

gatherUnchanged == <<world, calls, returned, res, tmp, view, io>>

\* Mutant: a recorded info does not stop the gathering.
GatherCheckAgain(p) ==
  /\ pc[p] = "check"
  /\ Goto(p, IF ~env.reporter THEN "gathered" ELSE "eligible")
  /\ UNCHANGED <<gatherUnchanged, mu, query, meta, hist>>

\* The early returns: no reporter, or the info is there already (unlocked).
GatherCheck(p) ==
  /\ pc[p] = "check"
  /\ Goto(p, IF ~env.reporter \/ Info[Reporting] # NoInfo
             THEN "gathered" ELSE "eligible")
  /\ UNCHANGED <<gatherUnchanged, mu, query, meta, hist>>

\* Mutant: an earlier failure does not stop the query.
GatherEligibleRetry(p) ==
  /\ pc[p] = "eligible"
  /\ Goto(p, IF ~env.supports \/ ~env.tcp THEN "callback" ELSE "query")
  /\ UNCHANGED <<gatherUnchanged, mu, query, meta, hist>>

\* Mutant: the callback is deferred after these returns, not before.
GatherEligibleSilent(p) ==
  /\ pc[p] = "eligible"
  /\ Goto(p, IF ~env.supports \/ InfoErr \/ ~env.tcp THEN "gathered" ELSE "query")
  /\ UNCHANGED <<gatherUnchanged, mu, query, meta, hist>>

\* The returns that leave only the deferred callback (unlocked).  A failing
\* SyscallConn has the effect of a connection that is not a *net.TCPConn.
GatherEligible(p) ==
  /\ pc[p] = "eligible"
  /\ Goto(p, IF ~env.supports \/ InfoErr \/ ~env.tcp THEN "callback" ELSE "query")
  /\ UNCHANGED <<gatherUnchanged, mu, query, meta, hist>>

\* Mutant: a failed query is tried again.
GatherQueryRetry(p) ==
  /\ pc[p] = "query"
  /\ \E r \in {NoInfo} \cup (IF sock = "open" THEN {clock} ELSE {}) :
       /\ query' = [query EXCEPT ![p] = r]
       /\ sysFailed' = (sysFailed \/ (sock = "open" /\ r = NoInfo))
       /\ Goto(p, IF r = NoInfo THEN "query" ELSE "store")
  /\ UNCHANGED <<gatherUnchanged, mu, meta, delivered, reports>>

\* rawConn.Control(GetTCPInfo): fails on a closed socket, and may fail on an
\* open one.  No GetTCPInfo returns neither an info nor an error.
GatherQuery(p) ==
  /\ pc[p] = "query"
  /\ \E r \in {NoInfo} \cup (IF sock = "open" THEN {clock} ELSE {}) :
       /\ query' = [query EXCEPT ![p] = r]
       /\ sysFailed' = (sysFailed \/ (sock = "open" /\ r = NoInfo))
  /\ Goto(p, "store")
  /\ UNCHANGED <<gatherUnchanged, mu, meta, delivered, reports>>

\* Mutant: the info always goes to OpenedInfo.
GatherStoreOpened(p) ==
  /\ pc[p] = "store"
  /\ Locked
  /\ IF query[p] = NoInfo
     THEN InfoErr' = TRUE /\ UNCHANGED Info
     ELSE Info' = [Info EXCEPT !["Opened"] = query[p]] /\ UNCHANGED InfoErr
  /\ query' = [query EXCEPT ![p] = NoInfo]
  /\ Goto(p, "callback")
  /\ UNCHANGED <<gatherUnchanged, OpenedAt, ClosedAt, Reconnects, hist>>

\* Mutant: the lock is not released when there is nothing to store.
GatherStoreHolding(p) ==
  /\ pc[p] = "store"
  /\ IF query[p] = NoInfo
     THEN Acquire(p) /\ InfoErr' = TRUE /\ UNCHANGED Info
     ELSE Locked /\ Info' = [Info EXCEPT ![Reporting] = query[p]] /\ UNCHANGED InfoErr
  /\ query' = [query EXCEPT ![p] = NoInfo]
  /\ Goto(p, "callback")
  /\ UNCHANGED <<gatherUnchanged, OpenedAt, ClosedAt, Reconnects, hist>>

\* Lock, store the info or the error, unlock.
GatherStore(p) ==
  /\ pc[p] = "store"
  /\ Locked
  /\ IF query[p] = NoInfo
     THEN InfoErr' = TRUE /\ UNCHANGED Info
     ELSE Info' = [Info EXCEPT ![Reporting] = query[p]] /\ UNCHANGED InfoErr
  /\ query' = [query EXCEPT ![p] = NoInfo]
  /\ Goto(p, "callback")
  /\ UNCHANGED <<gatherUnchanged, OpenedAt, ClosedAt, Reconnects, hist>>

\* The deferred reportStats(w, state) runs after the deferred Unlock.  It is
\* the user's code; like the repository's own callbacks it may call Warnings
\* or ToMap, so it needs the mutex to be free.
Callback(p) ==
  /\ pc[p] = "callback"
  /\ Locked
  /\ reports' = [reports EXCEPT ![Reporting] = @ + 1]
  /\ Goto(p, "gathered")
  /\ UNCHANGED <<gatherUnchanged, query, meta, delivered, sysFailed>>

GatherAndReport(p) == \/ GatherCheck(p) \/ GatherEligible(p) \/ GatherQuery(p)
                      \/ GatherStore(p) \/ Callback(p)

-----------------------------------------------------------------------------
(* The end of WrapConn, and Close.                                         *)

WrapReturns(p) ==
  /\ pc[p] = "gathered" /\ ~returned
  /\ returned' = TRUE
  /\ Goto(p, "idle")
  /\ UNCHANGED <<world, mu, calls, locals, io, meta, hist>>

\* Mutant: the connection is closed first.
CloseStampClosing(p) ==
  /\ p \in Closers
  /\ Call(p)
  /\ Locked
  /\ ClosedAt' = clock /\ sock' = "closed"
  /\ Goto(p, "check")
  /\ UNCHANGED <<env, clock, locals, io, OpenedAt, InfoErr, Reconnects, Info, hist>>

\* Close up to the call of gatherAndReport(Closed).
CloseStamp(p) ==
  /\ p \in Closers
  /\ Call(p)
  /\ Locked
  /\ ClosedAt' = clock
  /\ Goto(p, "check")
  /\ UNCHANGED <<world, locals, io, OpenedAt, InfoErr, Reconnects, Info, hist>>

\* Mutant: a query error is returned instead of closing.
CloseSockUnlessError(p) ==
  /\ pc[p] = "gathered" /\ returned
  /\ sock' = IF InfoErr THEN sock ELSE "closed"
  /\ Goto(p, "idle")
  /\ UNCHANGED <<env, clock, mu, calls, returned, locals, io, meta, hist>>

\* return w.Conn.Close(): an error on a second call, which changes nothing.
CloseSock(p) ==
  /\ pc[p] = "gathered" /\ returned
  /\ sock' = "closed"
  /\ Goto(p, "idle")
  /\ UNCHANGED <<env, clock, mu, calls, returned, locals, io, meta, hist>>

Close(p) == CloseStamp(p) \/ CloseSock(p)

-----------------------------------------------------------------------------
Tick ==
  /\ clock < MaxClock
  /\ clock' = clock + 1
  /\ UNCHANGED <<env, sock, sched, locals, io, meta, hist>>

\* Everyone has made their calls: nothing is left to do.
Done ==
  /\ returned /\ \A p \in Procs : pc[p] = "idle" /\ calls[p] = MaxCalls
  /\ UNCHANGED vars

Step(p) == \/ Read(p) \/ Write(p) \/ SetReconnects(p) \/ ToMap(p)
           \/ GatherAndReport(p) \/ WrapReturns(p) \/ Close(p)

Next == (\E p \in Procs : Step(p)) \/ Tick \/ Done

Spec == Init /\ [][Next]_vars

-----------------------------------------------------------------------------
(* Properties.                                                             *)

\* The type invariant of Conn's fields, the mutex and the goroutines' locals.
TypeOK ==
  /\ env \in [reporter : BOOLEAN, supports : BOOLEAN, tcp : BOOLEAN]
  /\ sock \in {"open", "closed"} /\ clock \in Nat \ {0}
  /\ mu \in Procs \cup {NoProc}
  /\ pc \in [Procs -> PCs] /\ calls \in [Procs -> Nat] /\ returned \in BOOLEAN
  /\ res \in [Procs -> [n : Nat, err : ErrKind]]
  /\ tmp \in [Procs -> Nat] /\ query \in [Procs -> Nat]
  /\ view \in [Procs -> View]
  /\ OpenedAt \in Nat \ {0} /\ ClosedAt \in Nat
  /\ FirstAt \in [Dir -> Nat] /\ LastAt \in [Dir -> Nat]
  /\ Bytes \in [Dir -> Nat] /\ Err \in [Dir -> ErrKind]
  /\ InfoErr \in BOOLEAN /\ Reconnects \in Nat /\ Info \in [State -> Nat]
  /\ delivered \in [Dir -> Nat] /\ reports \in [State -> Nat]
  /\ sysFailed \in BOOLEAN

\* No transfer is lost or counted twice: RxBytes and TxBytes are exactly the
\* bytes that all Read and Write calls together have returned to their
\* callers, however the calls overlap (w.RxBytes += int64(n) under the lock).
BytesExact == Bytes = delivered

\* The first and last transfer times are set together, lie after OpenedAt, in
\* order and not in the future, and whoever takes the lock and sees one of
\* them also sees the bytes of the transfer it stamps.
StampsCoherent ==
  \A d \in Dir :
    /\ FirstAt[d] = 0 <=> LastAt[d] = 0
    /\ FirstAt[d] # 0 => /\ OpenedAt <= FirstAt[d]
                         /\ FirstAt[d] <= LastAt[d]
                         /\ LastAt[d] <= clock
                         /\ mu = NoProc => Bytes[d] > 0

\* A map returned by ToMap is a state the connection was in, not a mixture of
\* two: the times agree with the byte counts, and the warnings, taken early,
\* with the infos, taken late.
SnapshotCoherent ==
  \A p \in Procs :
    pc[p] = "mapped" =>
      LET lit == view[p].literal
          add == view[p].added
      IN /\ \A d \in Dir : lit.FirstAt[d] # 0 => lit.Bytes[d] > 0
         /\ \A s \in State : s \in lit.warned <=> add.Info[s] # NoInfo
         /\ add.Info["Closed"] # NoInfo => lit.ClosedAt # 0

\* What no step of any method may undo: the first transfer time is written
\* once, the other times and the counters only grow, RxErr, once set, and
\* InfoErr, once set, stay set.  The info recorded at open time, which every later
\* comparison and warning is relative to, is never replaced, however many
\* goroutines close.
FieldsNeverRegress ==
  [][/\ \A d \in Dir : /\ FirstAt[d] # 0 => FirstAt'[d] = FirstAt[d]
                       /\ LastAt'[d] >= LastAt[d]
                       /\ Bytes'[d] >= Bytes[d]
     /\ ClosedAt' >= ClosedAt
     /\ Err["rx"] # "nil" => Err'["rx"] # "nil"
     /\ InfoErr => InfoErr'
     /\ Info["Opened"] # NoInfo => Info'["Opened"] = Info["Opened"]]_vars

\* A query that failed at open time is not repeated at close time ("previously
\* errored"), so there is never a ClosedInfo without an OpenedInfo for a
\* consumer to compare it with.
ClosedInfoNeedsOpenedInfo == Info["Closed"] # NoInfo => Info["Opened"] # NoInfo

\* On a supported TCP connection whose kernel queries never failed while it was
\* open, every close callback finds ClosedInfo recorded, even when several
\* goroutines call Close at once and the query of one of them meets a socket
\* another has closed.
ClosedReportHasInfo ==
  \A p \in Procs :
    (/\ pc[p] = "callback" /\ returned
     /\ env.supports /\ env.tcp /\ ~sysFailed) => Info["Closed"] # NoInfo

\* What is left of the sentence above Close ("invokes the reportWrapper with a
\* close event before closing") when several goroutines close: whoever closes the
\* connection, a close callback has been made or is the next step of some goroutine
\* that closes, so that no close goes unreported.
CloseReported ==
  sock = "closed" /\ env.reporter =>
    reports["Closed"] > 0 \/ \E p \in Closers : pc[p] = "callback"

\* The connection is closed only after a close callback has been made ("Close
\* invokes the reportWrapper with a close event before closing").
ReportBeforeClose == sock = "closed" /\ env.reporter => reports["Closed"] > 0

\* Each info is recorded once ("Only gather TCP info on open and close events
\* once"): gatherAndReport never replaces one.
InfoWriteOnce ==
  [][\A s \in State : Info[s] # NoInfo => Info'[s] = Info[s]]_vars

\* The open callback is made exactly once, before WrapConn returns, and the
\* close callback is not repeated once ClosedInfo is recorded.
ReportedOnce ==
  /\ returned /\ env.reporter => reports["Opened"] = 1
  /\ Info["Closed"] # NoInfo => reports["Closed"] <= 1

-----------------------------------------------------------------------------
(* Fairness: the Go scheduler runs every runnable goroutine, and a mutex in *)
(* starvation mode is handed to the goroutine that has waited longest.      *)
(* Nothing obliges a goroutine to start a call.                             *)

Unblocked(p) == \/ ReadUnlock(p) \/ WriteUnlock(p) \/ ToMapUnlock(p)
                \/ ToMapReturn(p) \/ GatherCheck(p) \/ GatherEligible(p)
                \/ GatherQuery(p) \/ WrapReturns(p) \/ CloseSock(p)

AwaitsLock(p) == \/ IOLock(p, "rx") \/ IOLock(p, "tx")
                 \/ GatherStore(p) \/ Callback(p)

\* Whenever calls are under way one of them can go on: not all of them wait for
\* the mutex, unless it is free.  In particular no callback, which may call Warnings
\* or ToMap, is made with the lock held.
NeverAllWaiting ==
  (\E p \in Procs : pc[p] # "idle") =>
    \E p \in Procs :
      pc[p] # "idle" /\ (pc[p] \in {"readReturned", "writeReturned", "store", "callback"}
                           => mu = NoProc)

\* The steps that are left of a call.
StepsLeft ==
  [l \in PCs |-> IF l = "idle" THEN 0
                 ELSE IF l \in {"readCrit", "writeCrit", "mapped", "gathered"} THEN 1
                 ELSE IF l \in {"readReturned", "writeReturned", "toMap", "callback"} THEN 2
                 ELSE IF l = "store" THEN 3
                 ELSE IF l = "query" THEN 4
                 ELSE IF l = "eligible" THEN 5 ELSE 6]

\* No method loops or goes back, whatever the others do: every step starts a call or
\* brings exactly one goroutine nearer to its return (a failed query is not tried
\* again), unless only the clock moves.
CallsAdvance ==
  [][\/ calls' # calls
     \/ UNCHANGED <<sched, locals, io, meta, hist>>
     \/ \E p \in Procs :
          /\ StepsLeft[pc'[p]] < StepsLeft[pc[p]]
          /\ \A q \in Procs \ {p} : pc'[q] = pc[q]]_vars

FairSpec == /\ Spec
            /\ \A p \in Procs : WF_vars(Unblocked(p)) /\ SF_vars(AwaitsLock(p))

\* Every call returns: no method waits for a lock that its own goroutine, or a
\* goroutine waiting for it, holds.
CallsReturn == \A p \in Procs : pc[p] # "idle" ~> pc[p] = "idle"

\* Whatever the early returns and errors of gatherAndReport, a Close that was
\* started closes the wrapped connection.
CloseCloses == \A p \in Procs : (returned /\ pc[p] = "check") ~> sock = "closed"

=============================================================================
