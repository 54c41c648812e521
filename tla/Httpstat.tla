------------------------------ MODULE Httpstat -------------------------------
(***************************************************************************)
(* cmd/httpstat: main and visit, with the hooks and the dialler that       *)
(* net/http calls on goroutines of its own.  The connection of a visit is  *)
(* named by the visit's number.  Times are counted in events of the visit, *)
(* since only their order matters; 0 is the zero time.Time.                *)
(*                                                                         *)
(* net/http and net are external.  Two facts about them are used: with     *)
(* DisableKeepAlives a goroutine of the transport calls the connection's   *)
(* Close some time after the body was closed, and for a host with          *)
(* addresses of both families net.Dialer races two connection attempts     *)
(* (Dialer.DualStack is ignored since Go 1.12), reporting the end of both  *)
(* of them, in any order, to ConnectDone.                                  *)
(***************************************************************************)
EXTENDS Naturals

CONSTANT maxRedirects   \* 10 in the code

ASSUME MaxRedirectsAssumption == maxRedirects \in Nat

Visits == 1..(maxRedirects + 1)
Attempts == {"primary", "fallback", "earlier"}
Phases == {"main", "request", "dns", "dial", "tls", "send", "response", "body",
           "idle", "report", "redirect"}

VARIABLES
  opts,       \* follow: -L; head: -I; save: -o or -O; oneFamily: -4 or -6
  exit,       \* "running", "done" (exit 0) or "fatal"
  visit,      \* the current visit
  redirectsFollowed,
  phase,      \* where visit is
  host,       \* https: the scheme; name: it is not an IP; dual: two families
  resp,       \* "ok", "redirect", or "noLocation": a 30x without a Location
  now, t,     \* the locals t0 ... t7
  attempt,    \* the dialler's connection attempts; earlier: one that lost the
              \* race of an earlier visit and has not ended
  conn,       \* the wrapped connection of each visit: "open" while it is used, then
              \* the steps of its Close; the socket stays open until the last
  info,       \* the visits whose connection has a ClosedInfo
  connConn,   \* the global of that name, 0 for nil
  shown,      \* the connection whose statistics this visit printed, 0 for none
  written     \* files created for a response body

place  == <<visit, redirectsFollowed, host>>
times  == <<now, t>>
tcp    == <<conn, info, connConn>>
output == <<shown, written>>
vars   == <<opts, exit, phase, place, resp, times, attempt, tcp, output>>

Options == [follow : BOOLEAN, head : BOOLEAN, save : BOOLEAN, oneFamily : BOOLEAN]
Hosts == [https : BOOLEAN, name : BOOLEAN, dual : BOOLEAN]
NoTimes == [k \in 0..7 |-> 0]
NoAttempts == [a \in Attempts |-> "none"]

Init ==
  /\ opts \in Options
  /\ exit = "running" /\ visit = 1 /\ redirectsFollowed = 0 /\ phase = "main"
  /\ host = [https |-> FALSE, name |-> FALSE, dual |-> FALSE] /\ resp = "ok"
  /\ now = 0 /\ t = NoTimes /\ attempt = NoAttempts
  /\ conn = [v \in Visits |-> "none"] /\ info = {} /\ connConn = 0
  /\ shown = 0 /\ written = 0

At(p) == exit = "running" /\ phase = p
Goto(p) == phase' = p /\ UNCHANGED exit
Fatal == exit' = "fatal" /\ UNCHANGED phase
Exit == exit' = "done" /\ UNCHANGED phase

\* time.Now() is stored in t[k].
Stamp(k) == now' = now + 1 /\ t' = [t EXCEPT ![k] = now + 1]

-----------------------------------------------------------------------------
(* main, up to the dialling of the connection.                             *)

\* A URL without a scheme gets http when its port is 80, else https.
parseURL(scheme, port80) == IF scheme = "" THEN (IF port80 THEN "http" ELSE "https")
                            ELSE scheme

\* The version is shown, the options are refused, or the first URL is visited.
Main ==
  /\ At("main")
  /\ \/ (Exit \/ Fatal) /\ UNCHANGED host
     \/ /\ Goto("request")
        /\ \E scheme \in {"", "http", "https"}, port80 \in BOOLEAN, h \in Hosts :
             /\ h.https = (parseURL(scheme, port80) = "https")
             /\ host' = h
  /\ UNCHANGED <<opts, visit, redirectsFollowed, resp, times, attempt, tcp, output>>

\* newRequest and readClientCert; a header, a file or the URL may be invalid.
NewRequest ==
  /\ At("request")
  /\ \/ Fatal
     \/ Goto(IF host.name THEN "dns" ELSE "dial")
  /\ UNCHANGED <<opts, place, resp, times, attempt, tcp, output>>

DNSStart ==
  /\ At("dns") /\ t[0] = 0
  /\ Stamp(0)
  /\ UNCHANGED <<opts, exit, phase, place, resp, attempt, tcp, output>>

\* A failed lookup makes client.Do return an error.
DNSDone ==
  /\ At("dns") /\ t[0] # 0
  /\ Stamp(1)
  /\ Goto("dial") \/ Fatal
  /\ UNCHANGED <<opts, place, resp, attempt, tcp, output>>

\* Mutant: the option -4 or -6 is not passed to the dialler.
RacingAnyway == host.dual

\* The dialler is given "tcp", or "tcp4" or "tcp6": only with the first has it two
\* families to race.
Racing == host.dual /\ ~opts.oneFamily

\* Mutant: an IP host leaves t1 unset.
ConnectStartUnset(a) ==
  /\ At("dial") /\ attempt[a] = "none" /\ a # "earlier"
  /\ a = "fallback" => Racing /\ attempt["primary"] = "started"
  /\ attempt' = [attempt EXCEPT ![a] = "started"]
  /\ UNCHANGED times
  /\ UNCHANGED <<opts, exit, phase, place, resp, tcp, output>>

\* The first connection attempt to an IP sets t1.
ConnectStart(a) ==
  /\ At("dial") /\ attempt[a] = "none" /\ a # "earlier"
  /\ a = "fallback" => Racing /\ attempt["primary"] = "started"
  /\ attempt' = [attempt EXCEPT ![a] = "started"]
  /\ IF t[1] = 0 THEN Stamp(1) ELSE UNCHANGED times
  /\ UNCHANGED <<opts, exit, phase, place, resp, tcp, output>>

\* Mutant: dialContext's wrapper publishes the connection when it is opened, too.
ConnectDonePublishing(a) ==
  /\ exit = "running" /\ attempt[a] = "started"
  /\ attempt' = [attempt EXCEPT ![a] = "done"]
  /\ \/ Fatal /\ UNCHANGED <<times, conn, connConn>>
     \/ /\ a = "earlier"
        /\ UNCHANGED <<times, conn, connConn, exit, phase>>
     \/ /\ a # "earlier" /\ Stamp(2)
        /\ IF phase = "dial"
           THEN /\ conn' = [conn EXCEPT ![visit] = "open"] /\ connConn' = visit
                /\ Goto(IF host.https THEN "tls" ELSE "send")
           ELSE UNCHANGED <<conn, connConn, exit, phase>>
  /\ UNCHANGED <<opts, place, resp, info, output>>

\* An attempt ends.  Any that fails is fatal, the loser of a race included.  The
\* first that succeeds is the connection, which dialContext wraps.  The t2 that
\* the loser of an earlier race sets is no longer read.
ConnectDone(a) ==
  /\ exit = "running" /\ attempt[a] = "started"
  /\ attempt' = [attempt EXCEPT ![a] = "done"]
  /\ \/ Fatal /\ UNCHANGED <<times, conn>>
     \/ /\ a = "earlier"
        /\ UNCHANGED <<times, conn, exit, phase>>
     \/ /\ a # "earlier" /\ Stamp(2)
        /\ IF phase = "dial"
           THEN /\ conn' = [conn EXCEPT ![visit] = "open"]
                /\ Goto(IF host.https THEN "tls" ELSE "send")
           ELSE UNCHANGED <<conn, exit, phase>>
  /\ UNCHANGED <<opts, place, resp, info, connConn, output>>

TLSHandshakeStart ==
  /\ At("tls") /\ t[5] = 0
  /\ Stamp(5)
  /\ UNCHANGED <<opts, exit, phase, place, resp, attempt, tcp, output>>

\* A failed handshake makes client.Do return an error.
TLSHandshakeDone ==
  /\ At("tls") /\ t[5] # 0
  /\ Stamp(6)
  /\ Goto("send") \/ Fatal
  /\ UNCHANGED <<opts, place, resp, attempt, tcp, output>>

GotConn ==
  /\ At("send")
  /\ Stamp(3)
  /\ Goto("response")
  /\ UNCHANGED <<opts, place, resp, attempt, tcp, output>>

\* The response's first byte arrives and client.Do returns, or it fails.
GotFirstResponseByte ==
  /\ At("response")
  /\ \/ Fatal /\ UNCHANGED <<times, resp>>
     \/ /\ Stamp(4)
        /\ resp' \in {"ok", "redirect", "noLocation"}
        /\ Goto("body")
  /\ UNCHANGED <<opts, place, attempt, tcp, output>>

-----------------------------------------------------------------------------
(* visit, from the response on.                                            *)

isRedirect == resp \in {"redirect", "noLocation"}

\* Mutant: the body of a redirect is saved as well.
readResponseBodyAlways ==
  \/ opts.save /\ ~opts.head /\ (Fatal \/ Goto("idle")) /\ written' = written + 1
  \/ opts.save /\ ~opts.head /\ Fatal /\ UNCHANGED written
  \/ (~opts.save \/ opts.head) /\ Goto("idle") /\ UNCHANGED written

\* The body of a redirect and the answer to HEAD are not read.  With -o or -O
\* creating the file and copying the body may each fail; without, a failure of
\* copying to io.Discard is ignored.
readResponseBody ==
  LET skipped == isRedirect \/ opts.head IN
  \/ opts.save /\ ~skipped /\ (Fatal \/ Goto("idle")) /\ written' = written + 1
  \/ opts.save /\ ~skipped /\ Fatal /\ UNCHANGED written
  \/ (~opts.save \/ skipped) /\ Goto("idle") /\ UNCHANGED written

\* Mutant: the body is not closed.
BodyLeaking ==
  /\ At("body")
  /\ readResponseBody
  /\ now' = now + 1
  /\ t' = [t EXCEPT ![7] = now + 1, ![0] = IF t[0] = 0 THEN t[1] ELSE t[0]]
  /\ UNCHANGED <<opts, place, resp, attempt, tcp, shown>>

\* The body is read and closed, which lets the transport close the connection;
\* t7 is set, and t0 when no name was looked up.
Body ==
  /\ At("body")
  /\ readResponseBody
  /\ now' = now + 1
  /\ t' = [t EXCEPT ![7] = now + 1, ![0] = IF t[0] = 0 THEN t[1] ELSE t[0]]
  /\ conn' = [conn EXCEPT ![visit] = "closing"]
  /\ UNCHANGED <<opts, place, resp, attempt, info, connConn, shown>>

\* tr.CloseIdleConnections: with DisableKeepAlives no connection is ever idle.
CloseIdleConnections ==
  /\ At("idle")
  /\ Goto("report")
  /\ UNCHANGED <<opts, place, resp, times, attempt, tcp, output>>

\* The transport's goroutine calls Close on the connection of visit v: its
\* gatherAndReport records a ClosedInfo, or none.
GatherClosed(v) ==
  /\ exit = "running" /\ conn[v] = "closing"
  /\ conn' = [conn EXCEPT ![v] = "gathered"]
  /\ info' \in {info, info \union {v}}
  /\ UNCHANGED <<opts, exit, phase, place, resp, times, attempt, connConn, output>>

\* Its deferred callback, the report wrapper of dialContext, publishes the connection.
setConniver(v) ==
  /\ exit = "running" /\ conn[v] = "gathered"
  /\ conn' = [conn EXCEPT ![v] = "reported"]
  /\ connConn' = v
  /\ UNCHANGED <<opts, exit, phase, place, resp, times, attempt, info, output>>

\* Only then is the socket closed.
TransportClose(v) ==
  /\ exit = "running" /\ conn[v] = "reported"
  /\ conn' = [conn EXCEPT ![v] = "closed"]
  /\ UNCHANGED <<opts, exit, phase, place, resp, times, attempt, info, connConn, output>>

\* The timings and the statistics of getConniver() are printed.
Report ==
  /\ At("report")
  /\ shown' = IF connConn \in info THEN connConn ELSE 0
  /\ Goto("redirect")
  /\ UNCHANGED <<opts, place, resp, times, attempt, tcp, written>>

\* The recursive call of visit, with new locals.
NextVisit ==
  /\ Goto("request")
  /\ visit' = visit + 1
  /\ host' \in Hosts
  /\ now' = 0 /\ t' = NoTimes
  /\ attempt' = [NoAttempts EXCEPT !["earlier"] =
                   IF \E a \in Attempts : attempt[a] = "started" THEN "started" ELSE "none"]
  /\ resp' = "ok" /\ shown' = 0

\* Mutant: a redirect is followed without being counted.
RedirectUncounted ==
  /\ At("redirect")
  /\ IF opts.follow /\ resp = "redirect" /\ visit <= maxRedirects
     THEN NextVisit
     ELSE Exit /\ UNCHANGED <<visit, host, times, attempt, resp, shown>>
  /\ UNCHANGED <<opts, redirectsFollowed, tcp, written>>

\* A redirect is followed, up to the limit; an invalid Location is fatal.
Redirect ==
  /\ At("redirect")
  /\ IF opts.follow /\ resp = "redirect"
     THEN \/ Fatal /\ UNCHANGED <<place, times, attempt, resp, shown>>
          \/ /\ redirectsFollowed' = redirectsFollowed + 1
             /\ IF redirectsFollowed + 1 > maxRedirects
                THEN Fatal /\ UNCHANGED <<visit, host, times, attempt, resp, shown>>
                ELSE NextVisit
     ELSE Exit /\ UNCHANGED <<place, times, attempt, resp, shown>>
  /\ UNCHANGED <<opts, tcp, written>>

Done == exit # "running" /\ UNCHANGED vars

Next ==
  \/ Main \/ NewRequest \/ DNSStart \/ DNSDone
  \/ \E a \in Attempts : ConnectStart(a) \/ ConnectDone(a)
  \/ TLSHandshakeStart \/ TLSHandshakeDone \/ GotConn \/ GotFirstResponseByte
  \/ Body \/ CloseIdleConnections \/ Report \/ Redirect
  \/ \E v \in Visits : GatherClosed(v) \/ setConniver(v) \/ TransportClose(v)
  \/ Done

Spec == Init /\ [][Next]_vars

-----------------------------------------------------------------------------
(* Properties.                                                             *)

\* The values the variables of main and visit take; in particular the limit on
\* redirects bounds the number of visits.
TypeOK ==
  /\ opts \in Options
  /\ exit \in {"running", "done", "fatal"}
  /\ visit \in Visits /\ redirectsFollowed \in 0..(maxRedirects + 1)
  /\ phase \in Phases /\ host \in Hosts
  /\ resp \in {"ok", "redirect", "noLocation"}
  /\ now \in Nat /\ t \in [0..7 -> Nat]
  /\ attempt \in [Attempts -> {"none", "started", "done"}]
  /\ conn \in [Visits -> {"none", "open", "closing", "gathered", "reported", "closed"}]
  /\ info \subseteq Visits /\ connConn \in Visits \union {0}
  /\ shown \in Visits \union {0} /\ written \in Nat

\* When visit prints its timings every one it uses has been set by the hook that
\* sets it, and none of the differences it prints is negative: not for an IP, whose
\* t0 and t1 come from elsewhere, nor when two connection attempts race.  Without a
\* race the connection time also lies before the handshake and before GotConn.
TimelineOrdered ==
  phase = "report" =>
    /\ 0 < t[0] /\ t[0] <= t[1] /\ t[1] < t[2]
    /\ t[1] < t[3] /\ t[3] < t[4] /\ t[4] < t[7]
    /\ host.https => t[1] < t[5] /\ t[5] < t[6] /\ t[6] < t[3]
    /\ ~Racing => /\ t[2] < t[3]
                  /\ host.https => t[2] < t[5]

\* The output file of -o and -O is created at most once however many redirects
\* are followed, and only for a response that ends the program: the body of a
\* redirect never replaces the body the user asked for.
OutputOnce ==
  written <= 1 /\ (written = 1 => resp = "ok" /\ phase \in {"body", "idle", "report", "redirect"})

\* visit calls itself exactly as often as it counted a redirect, and the count
\* passes the limit only on the way out.
RedirectBound ==
  IF redirectsFollowed > maxRedirects THEN exit = "fatal" /\ visit = maxRedirects + 1
  ELSE visit = redirectsFollowed + 1

\* With -4 or -6 a failed connection attempt ends the program only while its visit
\* has no connection: no attempt outlives the one that was used, in its own visit
\* or in the next ones.  Without them the loser of a race may end it later, since
\* the ConnectDone hook takes every failure for fatal.
NoLateFailure ==
  [][opts.oneFamily /\ exit' = "fatal" /\ attempt' # attempt =>
       phase = "dial" /\ conn[visit] = "none"]_vars

\* One connection is in use at a time, that of the current visit: a redirect is
\* followed only after the body was closed, and a normal exit leaves none whose
\* close was not asked for (the transport need not have come to it).
NoConnectionLeft ==
  \A v \in Visits :
    /\ conn[v] = "open" => v = visit /\ exit # "done"
    /\ v < visit => conn[v] \notin {"none", "open"}

\* Close has recorded all it will of these connections.
Reported == {v \in Visits : conn[v] \in {"reported", "closed"}}

\* visit reads ClosedInfo without the connection's lock.  It never reads one that is
\* still to be written: a connection is published only after Close has recorded what
\* it gathered.  So whosever statistics a report shows (ReportIsOwn), they are final:
\* of a connection of this or an earlier visit that has its ClosedInfo and whose
\* body is over, though its socket may still be open.
ShownIsFinal ==
  /\ connConn # 0 => connConn \in Reported
  /\ shown # 0 => shown <= visit /\ shown \in Reported /\ shown \in info

\* cmd/httpstat/main.go:372: "Trigger connection close to gather final tcpinfo".
\* Whenever visit has printed its report, the final statistics of its own
\* connection were gathered and nothing else was printed.
ReportIsOwn == At("redirect") => visit \in Reported /\ shown \in {0, visit}
=============================================================================
