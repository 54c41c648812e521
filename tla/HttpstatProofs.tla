--------------------------- MODULE HttpstatProofs ----------------------------
(***************************************************************************)
(* The properties of cmd/httpstat: of Httpstat for every limit on          *)
(* redirects, of HeaderSort for all names.                                 *)
(***************************************************************************)
EXTENDS Httpstat, HeaderSort, FiniteSetTheorems, TLAPS

\* The limit on redirects: visit and the counter go together until the step that
\* passes the limit ends the program.
BoundInv ==
  /\ redirectsFollowed \in Nat /\ visit \in Nat
  /\ exit \in {"running", "done", "fatal"}
  /\ RedirectBound

\* The strengthened bound is inductive.
LEMMA BoundAlways == Spec => []BoundInv
<1> USE MaxRedirectsAssumption DEF place, times, tcp, output
<1>1. Init => BoundInv
  BY DEF Init, BoundInv, RedirectBound
<1>2. BoundInv /\ [Next]_vars => BoundInv'
  <2> SUFFICES ASSUME BoundInv, [Next]_vars PROVE BoundInv'
    OBVIOUS
  <2>1. CASE Main
    BY <2>1 DEF Main, At, Goto, Fatal, Exit, BoundInv, RedirectBound
  <2>2. CASE \/ NewRequest \/ DNSStart \/ DNSDone \/ TLSHandshakeStart
             \/ TLSHandshakeDone \/ GotConn \/ GotFirstResponseByte
    BY <2>2 DEF NewRequest, DNSStart, DNSDone, TLSHandshakeStart, TLSHandshakeDone,
                GotConn, GotFirstResponseByte, At, Goto, Fatal, BoundInv, RedirectBound
  <2>3. CASE \E a \in Attempts : ConnectStart(a) \/ ConnectDone(a)
    BY <2>3 DEF ConnectStart, ConnectDone, At, Goto, Fatal, BoundInv, RedirectBound
  <2>4. CASE Body
    BY <2>4 DEF Body, readResponseBody, At, Goto, Fatal, BoundInv, RedirectBound
  <2>5. CASE CloseIdleConnections \/ Report
    BY <2>5 DEF CloseIdleConnections, Report, At, Goto, BoundInv, RedirectBound
  <2>6. CASE \E v \in Visits : GatherClosed(v) \/ setConniver(v) \/ TransportClose(v)
    BY <2>6 DEF GatherClosed, setConniver, TransportClose, BoundInv, RedirectBound
  <2>7. CASE Redirect
    <3>1. exit = "running" /\ redirectsFollowed <= maxRedirects /\ visit = redirectsFollowed + 1
      BY <2>7 DEF Redirect, At, BoundInv, RedirectBound
    <3> QED
      BY <2>7, <3>1 DEF Redirect, NextVisit, Goto, Fatal, Exit, BoundInv, RedirectBound
  <2>8. CASE Done \/ UNCHANGED vars
    BY <2>8 DEF Done, vars, BoundInv, RedirectBound
  <2> QED
    BY <2>1, <2>2, <2>3, <2>4, <2>5, <2>6, <2>7, <2>8 DEF Next
<1> QED
  BY <1>1, <1>2, PTL DEF Spec

\* However long the chain of redirects, visit is called once more than redirects
\* were counted, and never more than maxRedirects + 1 times.
THEOREM BoundCorrect == Spec => []RedirectBound
<1>1. BoundInv => RedirectBound
  BY DEF BoundInv
<1> QED
  BY <1>1, BoundAlways, PTL

-----------------------------------------------------------------------------
\* The output file: a running visit that has not read its body has written none.
FileInv ==
  /\ written \in Nat /\ resp \in {"ok", "redirect", "noLocation"}
  /\ exit = "running" /\ phase = "body" => written = 0
  /\ OutputOnce

\* The output file is created once, for a response that is no redirect.
THEOREM OutputCorrect == Spec => []OutputOnce
<1> USE DEF place, times, tcp, output
<1>1. Init => FileInv
  BY DEF Init, FileInv, OutputOnce
<1>2. FileInv /\ [Next]_vars => FileInv'
  <2> SUFFICES ASSUME FileInv, [Next]_vars PROVE FileInv'
    OBVIOUS
  <2>1. CASE Main
    BY <2>1 DEF Main, At, Goto, Fatal, Exit, FileInv, OutputOnce
  <2>2. CASE \/ NewRequest \/ DNSStart \/ DNSDone \/ TLSHandshakeStart
             \/ TLSHandshakeDone \/ GotConn \/ GotFirstResponseByte
    BY <2>2 DEF NewRequest, DNSStart, DNSDone, TLSHandshakeStart, TLSHandshakeDone,
                GotConn, GotFirstResponseByte, At, Goto, Fatal, FileInv, OutputOnce
  <2>3. CASE \E a \in Attempts : ConnectStart(a) \/ ConnectDone(a)
    BY <2>3 DEF ConnectStart, ConnectDone, At, Goto, Fatal, FileInv, OutputOnce
  <2>4. CASE Body
    <3>1. written = 0 /\ phase = "body" /\ resp' = resp
      BY <2>4 DEF Body, At, FileInv
    <3>2. written' \in {0, 1} /\ (written' = 1 => ~isRedirect)
      BY <2>4, <3>1 DEF Body, readResponseBody
    <3>3. /\ phase' \in {"body", "idle"}
          /\ phase' = "body" => exit' = "fatal"
      BY <2>4, <3>1 DEF Body, readResponseBody, Goto, Fatal
    <3>4. resp \in {"ok", "redirect", "noLocation"} => (~isRedirect => resp = "ok")
      BY DEF isRedirect
    <3> QED
      BY <3>1, <3>2, <3>3, <3>4 DEF FileInv, OutputOnce
  <2>5. CASE CloseIdleConnections \/ Report
    BY <2>5 DEF CloseIdleConnections, Report, At, Goto, FileInv, OutputOnce
  <2>6. CASE \E v \in Visits : GatherClosed(v) \/ setConniver(v) \/ TransportClose(v)
    BY <2>6 DEF GatherClosed, setConniver, TransportClose, FileInv, OutputOnce
  <2>7. CASE Redirect
    BY <2>7 DEF Redirect, NextVisit, At, Goto, Fatal, Exit, FileInv, OutputOnce
  <2>8. CASE Done \/ UNCHANGED vars
    BY <2>8 DEF Done, vars, FileInv, OutputOnce
  <2> QED
    BY <2>1, <2>2, <2>3, <2>4, <2>5, <2>6, <2>7, <2>8 DEF Next
<1>3. FileInv => OutputOnce
  BY DEF FileInv
<1> QED
  BY <1>1, <1>2, <1>3, PTL DEF Spec

-----------------------------------------------------------------------------
\* The phases from which the connection, the response and t7 are there.
Connected == {"tls", "send", "response", "body", "idle", "report", "redirect"}
Requested == Connected \ {"tls", "send"}
Answered == Requested \ {"response"}
Finished == Answered \ {"body"}

\* The trace's times, hook by hook: none lies in the future, each is set when its
\* phase is over and after the ones of the phases before it.  Only a race leaves a
\* connection attempt that can end, and set t2, once the connection is there.
TimeInv ==
  /\ now \in Nat /\ t \in [0..7 -> Nat] /\ \A k \in 0..7 : t[k] <= now
  /\ phase \in Phases /\ attempt \in [Attempts -> {"none", "started", "done"}]
  /\ phase \in {"main", "request"} =>
       /\ \A k \in 0..7 : t[k] = 0
       /\ attempt["primary"] = "none" /\ attempt["fallback"] = "none"
  /\ phase = "dns" /\ exit = "running" => t[1] = 0
  /\ phase = "dns" => attempt["primary"] = "none" /\ attempt["fallback"] = "none"
  /\ phase \in {"dns", "dial"} => t[5] = 0
  /\ phase = "dial" =>
       /\ t[0] <= t[1]
       /\ attempt["primary"] # "none" => 0 < t[1]
       /\ attempt["primary"] = "none" => attempt["fallback"] = "none"
       /\ attempt["fallback"] = "started" => Racing
  /\ phase \in Connected =>
       /\ 0 < t[1] /\ t[0] <= t[1] /\ t[1] < t[2]
       /\ ~Racing => attempt["primary"] # "started" /\ attempt["fallback"] # "started"
       /\ t[5] # 0 => t[1] < t[5] /\ (~Racing => t[2] < t[5])
       /\ phase # "tls" /\ host.https => t[5] # 0 /\ t[5] < t[6]
  /\ phase \in Requested =>
       /\ t[1] < t[3] /\ (~Racing => t[2] < t[3])
       /\ host.https => t[6] < t[3]
  /\ phase \in Answered => t[3] < t[4]
  /\ phase \in Finished => 0 < t[0] /\ t[4] < t[7]

\* The timeline visit prints is complete and ordered, whichever hooks ran and
\* however the connection attempts raced.
THEOREM TimelineCorrect == Spec => []TimelineOrdered
<1> USE DEF place, times, tcp, output, Connected, Requested, Answered, Finished
<1>1. Init => TimeInv
  BY DEF Init, NoTimes, NoAttempts, Phases, Attempts, TimeInv
<1>2. TimeInv /\ [Next]_vars => TimeInv'
  <2> SUFFICES ASSUME TimeInv, [Next]_vars PROVE TimeInv'
    OBVIOUS
  <2> USE DEF At, Goto, Fatal, Exit, Stamp, Racing, Phases, Attempts, TimeInv
  <2>1. CASE Main
    BY <2>1 DEF Main
  <2>2. CASE NewRequest
    BY <2>2 DEF NewRequest
  <2>3. CASE DNSStart
    BY <2>3 DEF DNSStart
  <2>4. CASE DNSDone
    BY <2>4 DEF DNSDone
  <2>5. ASSUME NEW a \in Attempts, ConnectStart(a) PROVE TimeInv'
    BY <2>5 DEF ConnectStart
  <2>6. ASSUME NEW a \in Attempts, ConnectDone(a) PROVE TimeInv'
    BY <2>6 DEF ConnectDone
  <2>7. CASE TLSHandshakeStart
    BY <2>7 DEF TLSHandshakeStart
  <2>8. CASE TLSHandshakeDone
    BY <2>8 DEF TLSHandshakeDone
  <2>9. CASE GotConn
    BY <2>9 DEF GotConn
  <2>10. CASE GotFirstResponseByte
    BY <2>10 DEF GotFirstResponseByte
  <2>11. CASE Body
    BY <2>11 DEF Body, readResponseBody
  <2>12. CASE CloseIdleConnections \/ Report
    BY <2>12 DEF CloseIdleConnections, Report
  <2>13. CASE \E v \in Visits : GatherClosed(v) \/ setConniver(v) \/ TransportClose(v)
    BY <2>13 DEF GatherClosed, setConniver, TransportClose
  <2>14. CASE Redirect
    BY <2>14 DEF Redirect, NextVisit, NoTimes, NoAttempts
  <2>15. CASE Done \/ UNCHANGED vars
    BY <2>15 DEF Done, vars
  <2> QED
    BY <2>1, <2>2, <2>3, <2>4, <2>5, <2>6, <2>7, <2>8, <2>9, <2>10, <2>11, <2>12,
       <2>13, <2>14, <2>15 DEF Next
<1>3. TimeInv => TimelineOrdered
  BY DEF TimeInv, TimelineOrdered
<1> QED
  BY <1>1, <1>2, <1>3, PTL DEF Spec

-----------------------------------------------------------------------------
\* Attempts with -4 or -6: there is one at a time, and it ends in the dialling
\* phase of the visit that has no connection yet.
LoneInv ==
  /\ attempt \in [Attempts -> {"none", "started", "done"}]
  /\ visit \in Visits /\ conn \in [Visits -> {"none", "open", "closing", "gathered", "reported", "closed"}]
  /\ \A v \in Visits : v > visit => conn[v] = "none"
  /\ phase \in {"main", "request", "dns", "dial"} => conn[visit] = "none"
  /\ phase \in {"main", "request", "dns"} =>
       attempt["primary"] = "none" /\ attempt["fallback"] = "none"
  /\ opts.oneFamily =>
       /\ attempt["fallback"] = "none" /\ attempt["earlier"] = "none"
       /\ attempt["primary"] = "started" => phase = "dial"
  /\ RedirectBound /\ redirectsFollowed \in Nat

\* With one address family no connection attempt can fail a visit that has its
\* connection, however many redirects are followed.
THEOREM NoLateFailureCorrect == Spec => NoLateFailure
<1> USE MaxRedirectsAssumption DEF place, times, tcp, output, Visits, Attempts
<1>1. Init => LoneInv
  BY DEF Init, NoAttempts, LoneInv, RedirectBound
<1>2. LoneInv /\ [Next]_vars => LoneInv'
  <2> SUFFICES ASSUME LoneInv, [Next]_vars PROVE LoneInv'
    OBVIOUS
  <2> USE DEF At, Goto, Fatal, Exit, Racing, RedirectBound, LoneInv
  <2>1. CASE Main
    BY <2>1 DEF Main
  <2>2. CASE NewRequest \/ DNSStart \/ DNSDone
    BY <2>2 DEF NewRequest, DNSStart, DNSDone
  <2>3. ASSUME NEW a \in Attempts, ConnectStart(a) PROVE LoneInv'
    BY <2>3 DEF ConnectStart
  <2>4. ASSUME NEW a \in Attempts, ConnectDone(a) PROVE LoneInv'
    BY <2>4 DEF ConnectDone
  <2>5. CASE TLSHandshakeStart \/ TLSHandshakeDone \/ GotConn \/ GotFirstResponseByte
    BY <2>5 DEF TLSHandshakeStart, TLSHandshakeDone, GotConn, GotFirstResponseByte
  <2>6. CASE Body
    BY <2>6 DEF Body, readResponseBody
  <2>7. CASE CloseIdleConnections \/ Report
    BY <2>7 DEF CloseIdleConnections, Report
  <2>8. ASSUME NEW v \in Visits, GatherClosed(v) \/ setConniver(v) \/ TransportClose(v) PROVE LoneInv'
    BY <2>8 DEF GatherClosed, setConniver, TransportClose
  <2>9. CASE Redirect
    BY <2>9 DEF Redirect, NextVisit, NoAttempts
  <2>10. CASE Done \/ UNCHANGED vars
    BY <2>10 DEF Done, vars
  <2> QED
    BY <2>1, <2>2, <2>3, <2>4, <2>5, <2>6, <2>7, <2>8, <2>9, <2>10 DEF Next
<1>3. LoneInv /\ [Next]_vars =>
        [opts.oneFamily /\ exit' = "fatal" /\ attempt' # attempt =>
           phase = "dial" /\ conn[visit] = "none"]_vars
  <2> SUFFICES ASSUME LoneInv, Next, opts.oneFamily, exit' = "fatal", attempt' # attempt
               PROVE  phase = "dial" /\ conn[visit] = "none"
    OBVIOUS
  <2>1. ASSUME NEW a \in Attempts, ConnectDone(a)
        PROVE  phase = "dial" /\ conn[visit] = "none"
    BY <2>1 DEF ConnectDone, LoneInv
  <2>2. ASSUME NEW a \in Attempts, ConnectStart(a) PROVE FALSE
    BY <2>2 DEF ConnectStart, At
  <2>3. CASE Redirect
    BY <2>3 DEF Redirect, NextVisit, At, Goto, Fatal, Exit
  <2>4. ASSUME NEW v \in Visits, GatherClosed(v) \/ setConniver(v) \/ TransportClose(v) PROVE FALSE
    BY <2>4 DEF GatherClosed, setConniver, TransportClose
  <2>5. CASE \/ Main \/ NewRequest \/ DNSStart \/ DNSDone \/ TLSHandshakeStart
             \/ TLSHandshakeDone \/ GotConn \/ GotFirstResponseByte \/ Body
             \/ CloseIdleConnections \/ Report \/ Done
    BY <2>5 DEF Main, NewRequest, DNSStart, DNSDone, TLSHandshakeStart, TLSHandshakeDone,
                GotConn, GotFirstResponseByte, Body, CloseIdleConnections, Report, Done, vars
  <2> QED
    BY <2>1, <2>2, <2>3, <2>4, <2>5 DEF Next
<1> QED
  BY <1>1, <1>2, <1>3, PTL DEF Spec, NoLateFailure

-----------------------------------------------------------------------------
\* The variables keep their types; that visit stays within its bound needs the
\* counter of redirects.
THEOREM TypeCorrect == Spec => []TypeOK
<1> USE MaxRedirectsAssumption DEF place, times, tcp, output, Attempts, Phases
<1>1. Init => TypeOK /\ BoundInv
  <2>1. Init => host \in Hosts
    BY DEF Init, Hosts
  <2> QED
    BY <2>1 DEF Init, NoTimes, NoAttempts, TypeOK, BoundInv, RedirectBound, Visits
<1>2. TypeOK /\ BoundInv /\ [Next]_vars => TypeOK'
  <2> SUFFICES ASSUME TypeOK, BoundInv, [Next]_vars PROVE TypeOK'
    OBVIOUS
  <2> USE DEF At, Goto, Fatal, Exit, Stamp, TypeOK
  <2>1. CASE Main
    BY <2>1 DEF Main
  <2>2. CASE NewRequest \/ DNSStart \/ DNSDone
    BY <2>2 DEF NewRequest, DNSStart, DNSDone
  <2>3. ASSUME NEW a \in Attempts, ConnectStart(a) PROVE TypeOK'
    BY <2>3 DEF ConnectStart
  <2>4. ASSUME NEW a \in Attempts, ConnectDone(a) PROVE TypeOK'
    BY <2>4 DEF ConnectDone
  <2>5. CASE TLSHandshakeStart \/ TLSHandshakeDone \/ GotConn
    BY <2>5 DEF TLSHandshakeStart, TLSHandshakeDone, GotConn
  <2>6. CASE GotFirstResponseByte
    BY <2>6 DEF GotFirstResponseByte
  <2>7. CASE Body
    BY <2>7 DEF Body, readResponseBody
  <2>8. CASE CloseIdleConnections \/ Report
    BY <2>8 DEF CloseIdleConnections, Report
  <2>9. ASSUME NEW v \in Visits, GatherClosed(v) \/ setConniver(v) \/ TransportClose(v) PROVE TypeOK'
    BY <2>9 DEF GatherClosed, setConniver, TransportClose
  <2>10. CASE Redirect
    <3>1. redirectsFollowed <= maxRedirects /\ visit = redirectsFollowed + 1
      BY <2>10 DEF Redirect, BoundInv, RedirectBound
    <3>2. /\ visit + 1 \in Visits \/ redirectsFollowed + 1 > maxRedirects
          /\ redirectsFollowed + 1 \in 0..(maxRedirects + 1)
      BY <3>1 DEF Visits
    <3> HIDE DEF Stamp
    <3> QED
      BY <2>10, <3>2 DEF Redirect, NextVisit, NoTimes, NoAttempts
  <2>11. CASE Done \/ UNCHANGED vars
    BY <2>11 DEF Done, vars
  <2> QED
    BY <2>1, <2>2, <2>3, <2>4, <2>5, <2>6, <2>7, <2>8, <2>9, <2>10, <2>11 DEF Next
<1> QED
  BY <1>1, <1>2, BoundAlways, PTL DEF Spec
-----------------------------------------------------------------------------
\* The connections: those of earlier visits are closed or on the way, the current
\* one is in use from the dialling to the body, later visits have none; an info was
\* gathered, and what is published, or was shown, is past its callback.
Used == {"closing", "gathered", "reported", "closed"}
UseInv ==
  /\ visit \in Visits /\ conn \in [Visits -> {"none", "open", "closing", "gathered", "reported", "closed"}]
  /\ phase \in Phases /\ (exit = "done" => phase \in {"main", "redirect"})
  /\ \A v \in Visits : /\ v < visit => conn[v] \in Used
                       /\ v > visit => conn[v] = "none"
  /\ phase \in {"main", "request", "dns", "dial"} => conn[visit] = "none"
  /\ phase \in {"tls", "send", "response", "body"} /\ exit = "running" => conn[visit] = "open"
  /\ phase \in {"idle", "report", "redirect"} => conn[visit] \in Used
  /\ info \subseteq {v \in Visits : conn[v] \in {"gathered", "reported", "closed"}}
  /\ connConn # 0 => connConn \in Reported
  /\ shown # 0 => shown \in info /\ shown \in Reported
  /\ RedirectBound /\ redirectsFollowed \in Nat

\* Every step treats the connections so.
LEMMA UseAlways == Spec => []UseInv
<1> USE MaxRedirectsAssumption DEF place, times, tcp, output, Visits, Phases, Used, Reported
<1>1. Init => UseInv
  BY DEF Init, UseInv, RedirectBound
<1>2. UseInv /\ [Next]_vars => UseInv'
  <2> SUFFICES ASSUME UseInv, [Next]_vars PROVE UseInv'
    OBVIOUS
  <2> USE DEF At, Goto, Fatal, Exit, RedirectBound, UseInv
  <2>1. CASE Main
    BY <2>1 DEF Main
  <2>2. CASE NewRequest \/ DNSStart \/ DNSDone
    BY <2>2 DEF NewRequest, DNSStart, DNSDone
  <2>3. ASSUME NEW a \in Attempts, ConnectStart(a) \/ ConnectDone(a) PROVE UseInv'
    <3>1. CASE ConnectStart(a)
      BY <3>1 DEF ConnectStart
    <3>2. CASE ConnectDone(a)
      BY <3>2 DEF ConnectDone
    <3> QED
      BY <2>3, <3>1, <3>2
  <2>4. CASE TLSHandshakeStart \/ TLSHandshakeDone \/ GotConn \/ GotFirstResponseByte
    BY <2>4 DEF TLSHandshakeStart, TLSHandshakeDone, GotConn, GotFirstResponseByte
  <2>5. CASE Body
    BY <2>5 DEF Body, readResponseBody
  <2>6. CASE CloseIdleConnections \/ Report
    BY <2>6 DEF CloseIdleConnections, Report
  <2>7. ASSUME NEW v \in Visits, GatherClosed(v) \/ setConniver(v) \/ TransportClose(v) PROVE UseInv'
    <3>1. CASE GatherClosed(v)
      BY <3>1 DEF GatherClosed
    <3>2. CASE setConniver(v)
      BY <3>2 DEF setConniver
    <3>3. CASE TransportClose(v)
      BY <3>3 DEF TransportClose
    <3> QED
      BY <2>7, <3>1, <3>2, <3>3
  <2>8. CASE Redirect
    BY <2>8 DEF Redirect, NextVisit
  <2>9. CASE Done \/ UNCHANGED vars
    BY <2>9 DEF Done, vars
  <2> QED
    BY <2>1, <2>2, <2>3, <2>4, <2>5, <2>6, <2>7, <2>8, <2>9 DEF Next
<1> QED
  BY <1>1, <1>2, PTL DEF Spec

\* However many redirects are followed, one connection is in use at a time and a
\* normal exit leaves none whose close was not asked for.
THEOREM NoConnectionLeftCorrect == Spec => []NoConnectionLeft
<1>1. UseInv => NoConnectionLeft
  <2> SUFFICES ASSUME UseInv, NEW v \in Visits
               PROVE  /\ conn[v] = "open" => v = visit /\ exit # "done"
                      /\ v < visit => conn[v] \notin {"none", "open"}
    BY DEF NoConnectionLeft
  <2>1. v < visit \/ v = visit \/ v > visit
    BY MaxRedirectsAssumption DEF UseInv, Visits
  <2> QED
    BY <2>1 DEF UseInv, Used
<1> QED
  BY <1>1, UseAlways, PTL

\* Whenever the transport closes the connections, a published one has recorded what
\* its Close gathered, and the statistics a report shows are final.
THEOREM ShownIsFinalCorrect == Spec => []ShownIsFinal
<1>1. UseInv => ShownIsFinal
  <2> SUFFICES ASSUME UseInv, shown # 0 PROVE shown <= visit
    BY DEF ShownIsFinal, UseInv
  <2>1. shown \in Visits /\ conn[shown] # "none"
    BY DEF UseInv, Reported
  <2>2. ~(shown > visit)
    BY <2>1 DEF UseInv
  <2> QED
    BY <2>1, <2>2, MaxRedirectsAssumption DEF UseInv, Visits
<1> QED
  BY <1>1, UseAlways, PTL

-----------------------------------------------------------------------------
(* HeaderSort.  Less, with Server less than itself, is no strict order, but *)
(* it is one on distinct names, and the keys of a map are distinct.         *)

\* Of two names one is less.
LEMMA LessTotal ==
  ASSUME NEW a \in Names, NEW b \in Names, a # b
  PROVE  Less(a, b) \/ Less(b, a)
BY PositionAssumption DEF Less, endtoend

\* Less is transitive on distinct names.
LEMMA LessTransitive ==
  ASSUME NEW a \in Names, NEW b \in Names, NEW c \in Names,
         b # c, Less(a, b), Less(b, c)
  PROVE  Less(a, c)
BY PositionAssumption DEF Less, endtoend

\* The names stay distinct; those before place i are in order but for the one at
\* place j, which is less than all of them that have come to lie behind it.
SortInv ==
  /\ h \in Seq(Names)
  /\ \A m, n \in 1..Len(h) : m # n => h[m] # h[n]
  /\ i \in Nat /\ j \in Nat /\ 1 <= j /\ j <= i /\ (i > Len(h) => j = i)
  /\ \A m, n \in 1..Len(h) : m < n /\ n <= i /\ n # j => Less(h[m], h[n])

\* The sort keeps to its invariant.
LEMMA SortAlways == SortSpec => []SortInv
<1>1. SortInit => SortInv
  <2> SUFFICES ASSUME NEW S \in SUBSET Names, h \in Orders(S), i = 2, j = 2
               PROVE  SortInv
    BY DEF SortInit
  <2>1. Cardinality(S) \in Nat
    BY PositionAssumption, FS_Subset, FS_CardinalityType
  <2>2. h \in Seq(Names) /\ Len(h) = Cardinality(S)
    BY <2>1 DEF Orders
  <2> QED
    BY <2>2 DEF SortInv, Orders
<1>2. SortInv /\ [SortNext]_sortVars => SortInv'
  <2> SUFFICES ASSUME SortInv, [SortNext]_sortVars PROVE SortInv'
    OBVIOUS
  <2>1. CASE Inner
    <3>1. /\ j \in 1..Len(h) /\ j - 1 \in 1..Len(h) /\ i' = i /\ j' = j - 1
          /\ h' = [h EXCEPT ![j] = h[j - 1], ![j - 1] = h[j]]
          /\ Less(h[j], h[j - 1])
      BY <2>1 DEF Inner, Swap, SortInv
    <3>2. h' \in Seq(Names) /\ Len(h') = Len(h)
      BY <3>1 DEF SortInv
    <3>3. \A m \in 1..Len(h) : h'[m] = IF m = j THEN h[j - 1] ELSE IF m = j - 1 THEN h[j] ELSE h[m]
      BY <3>1 DEF SortInv
    <3>4. ASSUME NEW m \in 1..Len(h), NEW n \in 1..Len(h), m # n PROVE h'[m] # h'[n]
      BY <3>1, <3>3, <3>4, SMTT(30) DEF SortInv
    <3>5. ASSUME NEW m \in 1..Len(h), NEW n \in 1..Len(h), m < n, n <= i, n # j - 1
          PROVE  Less(h'[m], h'[n])
      BY <3>1, <3>3, <3>5 DEF SortInv
    <3> QED
      BY <3>1, <3>2, <3>4, <3>5, SMTT(30) DEF SortInv
  <2>2. CASE Outer
    <3>1. ASSUME NEW m \in 1..Len(h), m < j PROVE Less(h[m], h[j])
      <4>1. j \in 1..Len(h) /\ j - 1 \in 1..Len(h) /\ h[j] \in Names /\ h[j - 1] \in Names
            /\ h[m] \in Names /\ h[j] # h[j - 1] /\ ~Less(h[j], h[j - 1])
        BY <2>2, <3>1 DEF Outer, SortInv
      <4>2. Less(h[j - 1], h[j])
        BY <4>1, LessTotal
      <4>3. m < j - 1 => Less(h[m], h[j - 1])
        BY <2>2, <3>1, <4>1 DEF Outer, SortInv
      <4> QED
        BY <3>1, <4>1, <4>2, <4>3, LessTransitive DEF SortInv
    <3> QED
      BY <2>2, <3>1 DEF Outer, SortInv
  <2>3. CASE SortDone \/ UNCHANGED sortVars
    BY <2>3 DEF SortDone, sortVars, SortInv
  <2> QED
    BY <2>1, <2>2, <2>3 DEF SortNext, Sort
<1> QED
  BY <1>1, <1>2, PTL DEF SortSpec

\* The insertion sort with headers.Less puts any set of header names, met in any
\* order, into the order the comments promise.
THEOREM SortCorrect == SortSpec => []Sorted
<1>1. SortInv => Sorted
  <2> SUFFICES ASSUME SortInv, i > Len(h),
                      NEW m \in 1..Len(h), NEW n \in 1..Len(h), m < n
               PROVE  /\ h[m] # h[n]
                      /\ h[n] # "Server"
                      /\ h[m] # "Server" =>
                           /\ endtoend(h[n]) => endtoend(h[m])
                           /\ endtoend(h[n]) = endtoend(h[m]) => Position[h[m]] < Position[h[n]]
    BY DEF Sorted
  <2>1. h[m] \in Names /\ h[n] \in Names /\ h[m] # h[n]
    BY DEF SortInv
  <2>2. Less(h[m], h[n])
    BY DEF SortInv
  <2> QED
    BY <2>1, <2>2, PositionAssumption DEF Less, endtoend
<1> QED
  BY <1>1, SortAlways, PTL

\* Every turn of the sort keeps the names: none is lost, none comes twice.
THEOREM SortKeepsNames == SortSpec => NamesKept
<1>1. ASSUME SortInv, SortNext
      PROVE  NamesOf(h') = NamesOf(h) /\ Len(h') = Len(h)
  <2>1. CASE Inner
    <3>1. /\ j \in 1..Len(h) /\ j - 1 \in 1..Len(h)
          /\ h' = [h EXCEPT ![j] = h[j - 1], ![j - 1] = h[j]]
      BY <1>1, <2>1 DEF Inner, Swap, SortInv
    <3>2. Len(h') = Len(h)
      BY <1>1, <3>1 DEF SortInv
    <3>3. \A m \in 1..Len(h) : h'[m] = IF m = j THEN h[j - 1] ELSE IF m = j - 1 THEN h[j] ELSE h[m]
      BY <1>1, <3>1 DEF SortInv
    <3>4. \A m \in 1..Len(h) : \E n \in 1..Len(h) : h'[m] = h[n]
      BY <3>1, <3>3
    <3>5. \A n \in 1..Len(h) : \E m \in 1..Len(h) : h'[m] = h[n]
      <4> SUFFICES ASSUME NEW n \in 1..Len(h) PROVE \E m \in 1..Len(h) : h'[m] = h[n]
        OBVIOUS
      <4>1. CASE n = j
        BY <3>1, <3>3, <4>1
      <4>2. CASE n = j - 1
        BY <3>1, <3>3, <4>2
      <4> QED
        BY <3>3, <4>1, <4>2
    <3>6. NamesOf(h') = {h'[m] : m \in 1..Len(h)}
      BY <3>2 DEF NamesOf
    <3>7. {h'[m] : m \in 1..Len(h)} \subseteq {h[m] : m \in 1..Len(h)}
      BY <3>4, Zenon
    <3>8. {h[m] : m \in 1..Len(h)} \subseteq {h'[m] : m \in 1..Len(h)}
      BY <3>5, Zenon
    <3> QED
      BY <3>2, <3>6, <3>7, <3>8 DEF NamesOf
  <2>2. CASE Outer \/ SortDone
    BY <2>2 DEF Outer, SortDone, sortVars
  <2> QED
    BY <1>1, <2>1, <2>2 DEF SortNext, Sort
<1> QED
  BY <1>1, SortAlways, PTL DEF SortSpec, NamesKept

=============================================================================
