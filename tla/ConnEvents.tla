----------------------------- MODULE ConnEvents ------------------------------
(***************************************************************************)
(* What a wrapped connection promises about its two infos.  Each of the    *)
(* events Opened and Closed reads the kernel's counters at one instant     *)
(* while it goes on; the reading is recorded whole, for that event, or it  *)
(* is dropped and an error recorded in its place.  There are no socket     *)
(* calls, goroutines or locks here; ConnLinux, which has all of them, is   *)
(* shown to implement it.  An optional value is a set of at most one.      *)
(***************************************************************************)
VARIABLES
  form,       \* of every info: its valid fields, its room for counters, its alg
  counters,   \* the kernel's counters that are not zero
  event,      \* the event that goes on, or "none"
  reading,    \* the counters read for it
  recorded,   \* the info of each event
  failed      \* an error was recorded

vars == <<form, counters, event, reading, recorded, failed>>

InfoOf(nonzero) == [valid |-> form.valid, alg |-> form.alg, nonzero |-> nonzero]

Init ==
  /\ event = "Opened" /\ reading = {} /\ ~failed
  /\ recorded = [s \in {"Opened", "Closed"} |-> {}]

\* The kernel counts on, during an event or not.
Count ==
  /\ counters \subseteq counters'
  /\ UNCHANGED <<event, reading, recorded, failed>>

\* Close is called.
Begin ==
  /\ event = "none" /\ event' = "Closed"
  /\ UNCHANGED <<counters, reading, recorded, failed>>

\* The counters are read once in an event, for an info it lacks, never after an
\* error, and at close only for comparison with the info of the open.
Read ==
  /\ event # "none" /\ reading = {} /\ ~failed
  /\ recorded[event] = {}
  /\ event = "Closed" => recorded["Opened"] # {}
  /\ reading' = {counters \intersect form.room}
  /\ UNCHANGED <<counters, event, recorded, failed>>

\* The event ends ...
End == event # "none" /\ event' = "none" /\ reading' = {}

\* ... with its info,
Record ==
  /\ reading # {} /\ End
  /\ recorded' = [recorded EXCEPT ![event] = {InfoOf(r) : r \in reading}]
  /\ UNCHANGED <<counters, failed>>

\* ... with the first error,
Fail ==
  /\ ~failed /\ End
  /\ failed' = TRUE
  /\ UNCHANGED <<counters, recorded>>

\* ... or without having read anything.
Skip ==
  /\ reading = {} /\ End
  /\ UNCHANGED <<counters, recorded, failed>>

Next == (Count \/ Begin \/ Read \/ Record \/ Fail \/ Skip) /\ UNCHANGED form

Spec == Init /\ [][Next]_vars

=============================================================================
