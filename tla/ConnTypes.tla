----------------------------- MODULE ConnTypes ------------------------------
(***************************************************************************)
(* The values of the fields of wrap.go's type Conn, shared by the detailed *)
(* model of its methods (ConnWrap) and by the abstract object (ConnStats). *)
(***************************************************************************)
EXTENDS Naturals

Dir == {"rx", "tx"}
State == {"Opened", "Closed"}

\* What the code tells apart in an error: nil; not a net.Error (io.EOF); a
\* net.Error that timed out; any other net.Error.
ErrKind == {"nil", "plain", "timeout", "net"}

NoInfo == 0     \* a nil *tcpinfo.Info; another value is the time of the query

\* What a map returned by ToMap holds: the entries of the map literal, and those
\* added to it afterwards.
NoView == [literal |-> [ClosedAt |-> 0, FirstAt |-> [d \in Dir |-> 0],
                        LastAt |-> [d \in Dir |-> 0], Bytes |-> [d \in Dir |-> 0],
                        Reconnects |-> 0, warned |-> {}],
           added   |-> [Err |-> [d \in Dir |-> "nil"], InfoErr |-> FALSE,
                        Info |-> [s \in State |-> NoInfo]]]

Literal == [ClosedAt : Nat, FirstAt : [Dir -> Nat], LastAt : [Dir -> Nat],
            Bytes : [Dir -> Nat], Reconnects : Nat,
            warned : SUBSET (State \cup {"reconnects"})]

Added == [Err : [Dir -> ErrKind], InfoErr : BOOLEAN, Info : [State -> Nat]]

View == [literal : Literal, added : Added]

\* What the warnings are drawn from: the reconnect count when it is positive
\* and each recorded Info (its own counters are not modelled here).
WarningsOf(reconnects, info) ==
  {x \in State \cup {"reconnects"} :
     IF x = "reconnects" THEN reconnects > 0 ELSE info[x] # NoInfo}

=============================================================================
