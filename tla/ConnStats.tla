------------------------------ MODULE ConnStats ------------------------------
(***************************************************************************)
(* What a wrapped connection promises about its statistics: an object on   *)
(* which every operation takes effect at one instant.  There are no locks, *)
(* no steps inside an operation and no unlocked reads here; ConnWrap,      *)
(* which has all of them, is shown to implement it (ConnRefinement).       *)
(***************************************************************************)
EXTENDS Naturals, ConnTypes

CONSTANT Procs

VARIABLES ClosedAt, FirstAt, LastAt, Bytes, Err, InfoErr, Reconnects, Info, view

transfers == <<FirstAt, LastAt, Bytes, Err>>
infos     == <<InfoErr, Info>>
vars      == <<ClosedAt, Reconnects, transfers, infos, view>>

Init ==
  /\ ClosedAt = 0 /\ FirstAt = NoView.literal.FirstAt /\ LastAt = NoView.literal.LastAt
  /\ Bytes = NoView.literal.Bytes /\ Err = NoView.added.Err /\ InfoErr = FALSE
  /\ Reconnects = 0 /\ Info = NoView.added.Info
  /\ view = [p \in Procs |-> NoView]

\* A Read or Write that ended with err takes effect: its bytes, its times and its
\* error at once.  The call is stamped if and only if it moved bytes without an error;
\* of a Write every outcome is kept as the error, of a Read only a net.Error that is
\* no timeout.
Transfer(d) ==
  \E err \in ErrKind :
    /\ Bytes' = [Bytes EXCEPT ![d] = Bytes'[d]] /\ Bytes'[d] >= Bytes[d]
    /\ Err' = [Err EXCEPT ![d] = IF d = "tx" \/ err = "net" THEN err ELSE @]
    /\ IF Bytes'[d] > Bytes[d] /\ err = "nil"
       THEN /\ LastAt' = [LastAt EXCEPT ![d] = LastAt'[d]]
            /\ LastAt'[d] > 0 /\ LastAt'[d] >= LastAt[d]
            /\ FirstAt' = [FirstAt EXCEPT ![d] = IF @ = 0 THEN LastAt'[d] ELSE @]
       ELSE UNCHANGED <<FirstAt, LastAt>>
    /\ UNCHANGED <<ClosedAt, Reconnects, infos, view>>

SetReconnects ==
  /\ Reconnects' \in Nat
  /\ UNCHANGED <<ClosedAt, transfers, infos, view>>

MarkClosed ==
  /\ ClosedAt' \in Nat /\ ClosedAt' >= ClosedAt /\ ClosedAt' > 0
  /\ UNCHANGED <<Reconnects, transfers, infos, view>>

\* An info is recorded: the one of the close only after a Close was started
\* and when the one of the open is there.
RecordInfo(s) ==
  /\ \E at \in {Info'[s]} : at # NoInfo /\ Info' = [Info EXCEPT ![s] = at]
  /\ s = "Closed" => ClosedAt > 0 /\ Info["Opened"] # NoInfo
  /\ UNCHANGED <<ClosedAt, Reconnects, transfers, InfoErr, view>>

RecordFailure ==
  /\ InfoErr' = TRUE
  /\ UNCHANGED <<ClosedAt, Reconnects, transfers, Info, view>>

\* The map a caller gets is the whole state at one instant.
Snapshot ==
  [literal |->
     [ClosedAt |-> ClosedAt, FirstAt |-> FirstAt, LastAt |-> LastAt, Bytes |-> Bytes,
      Reconnects |-> Reconnects, warned |-> WarningsOf(Reconnects, Info)],
   added |-> [Err |-> Err, InfoErr |-> InfoErr, Info |-> Info]]

ToMap(p) ==
  /\ view' = [view EXCEPT ![p] = Snapshot]
  /\ UNCHANGED <<ClosedAt, Reconnects, transfers, infos>>

Forget(p) ==
  /\ view' = [view EXCEPT ![p] = NoView]
  /\ UNCHANGED <<ClosedAt, Reconnects, transfers, infos>>

Next ==
  \/ \E d \in Dir : Transfer(d)
  \/ SetReconnects \/ MarkClosed \/ RecordFailure
  \/ \E s \in State : RecordInfo(s)
  \/ \E p \in Procs : ToMap(p) \/ Forget(p)

Spec == Init /\ [][Next]_vars

=============================================================================
