--------------------------- MODULE ConnInvariants ----------------------------
(***************************************************************************)
(* The inductive strengthenings of ConnWrap's invariants, on which the     *)
(* proofs in ConnProofs and ConnReportProofs rest.                         *)
(***************************************************************************)
EXTENDS ConnRefinement

\* The mutex is held exactly by a goroutine inside a critical section.
LockInv ==
  \A p \in Procs : mu = p <=> pc[p] \in {"readCrit", "writeCrit", "toMap"}

\* The counter a goroutine in a critical section has loaded is current.
CountInv ==
  /\ BytesExact
  /\ \A p \in Procs, d \in Dir : pc[p] = Crit(d) => tmp[p] = Bytes[d]

\* No time lies in the future; first and last transfer times go together; a
\* stamp without bytes belongs to a transfer whose bytes are about to be stored.
StampInv ==
  /\ OpenedAt = 1 /\ ClosedAt <= clock
  /\ \A d \in Dir :
       /\ FirstAt[d] = 0 <=> LastAt[d] = 0
       /\ FirstAt[d] <= LastAt[d] /\ LastAt[d] <= clock
       /\ FirstAt[d] # 0 => \/ Bytes[d] > 0
                            \/ mu # NoProc /\ pc[mu] = Crit(d) /\ res[mu].n > 0

\* A map under construction agrees with the fields.
MapInv == \A p \in Procs : pc[p] = "toMap" => view[p].literal = mapLiteral

Gathering == {"check", "eligible", "query", "store", "callback", "gathered"}

\* Until WrapConn returns only the opener runs, and nothing has been recorded
\* before its query; afterwards only a goroutine that closes gathers.
WrapInv ==
  /\ ~returned => /\ \A p \in Procs : p # Opener => pc[p] = "idle"
                  /\ pc[Opener] \in Gathering
                  /\ sock = "open" /\ Info["Closed"] = NoInfo
                  /\ reports["Closed"] = 0
                  /\ pc[Opener] \notin {"callback", "gathered"} =>
                       Info["Opened"] = NoInfo /\ ~InfoErr
                  /\ pc[Opener] # "gathered" => reports["Opened"] = 0
                  /\ pc[Opener] = "gathered" /\ env.reporter => reports["Opened"] = 1
  /\ returned => \A p \in Procs : pc[p] \in Gathering => p \in Closers /\ ClosedAt > 0
  /\ returned /\ env.reporter => reports["Opened"] = 1
  /\ \A p \in Procs :
       /\ pc[p] \in {"eligible", "query", "store", "callback"} => env.reporter
       /\ pc[p] \in {"query", "store"} => env.supports /\ env.tcp

\* Once the open-time query is over, a connection that can be queried has an
\* OpenedInfo or an InfoErr; a close-time query is made only with the former.
OpenedInv ==
  /\ (/\ env.reporter /\ env.supports /\ env.tcp
      /\ returned \/ pc[Opener] \in {"callback", "gathered"}) =>
        InfoErr \/ Info["Opened"] # NoInfo
  /\ returned => \A p \in Procs : pc[p] \in {"query", "store"} =>
                                    Info["Opened"] # NoInfo
  /\ ClosedInfoNeedsOpenedInfo
  /\ Info["Closed"] # NoInfo => ClosedAt > 0

\* When no query fails on an open socket, whoever has finished a close-time
\* gathering, or met a closed socket, knows that ClosedInfo is recorded.
QueriesSucceed == env.reporter /\ env.supports /\ env.tcp /\ ~sysFailed

ClosedInv ==
  QueriesSucceed =>
    /\ sock = "closed" \/ InfoErr => Info["Closed"] # NoInfo
    /\ \A p \in Procs :
         /\ returned /\ pc[p] \in {"callback", "gathered"} => Info["Closed"] # NoInfo
         /\ pc[p] = "store" /\ query[p] = NoInfo => Info["Closed"] # NoInfo

\* With any number of closers: once one of them has recorded ClosedInfo, or is past
\* its callback, or has closed the connection, a callback was made or is next.
CallbackDue == reports["Closed"] > 0 \/ \E p \in Closers : pc[p] = "callback"

OwedInv ==
  /\ returned /\ env.reporter =>
       /\ sock = "closed" \/ Info["Closed"] # NoInfo => CallbackDue
       /\ \A p \in Procs : pc[p] = "gathered" => CallbackDue

\* With one closer: a gathering that goes on has nothing recorded yet, and makes
\* a query only when nothing was reported either; a recorded ClosedInfo was
\* reported once or is about to be; a report without one means an InfoErr.
OneCloser == \A p, q \in Closers : p = q

CloserInv(p) ==
  /\ pc[p] \in {"eligible", "query", "store"} => Info["Closed"] = NoInfo
  /\ pc[p] \in {"query", "store"} => reports["Closed"] = 0
  /\ pc[p] = "callback" =>
       IF Info["Closed"] # NoInfo THEN reports["Closed"] = 0
       ELSE env.supports /\ env.tcp => InfoErr
  /\ pc[p] = "gathered" /\ env.reporter => reports["Closed"] > 0

ReportedInv ==
  /\ reports["Closed"] > 0 /\ Info["Closed"] = NoInfo =>
       (env.supports /\ env.tcp => InfoErr)
  /\ Info["Closed"] # NoInfo =>
       reports["Closed"] <= 1 /\ (reports["Closed"] = 0 =>
                                    \E p \in Closers : pc[p] = "callback")

OneCloserInv ==
  /\ returned => \A p \in Procs : CloserInv(p)
  /\ ReportedInv
  /\ ReportBeforeClose

=============================================================================
