---------------------------- MODULE MCAlgorithms -----------------------------
(***************************************************************************)
(* The algorithms that run on their own, each on its small inputs.  A      *)
(* behaviour is of one job; the variables of the others rest.              *)
(***************************************************************************)
EXTENDS HeaderSort, KernelRelease, OSVersion, OperatingSystem

\* Names on both sides of Server in the order of strings, of both classes.
MCNames == {"Connection", "Date", "Server", "TE", "Vary"}
MCPosition == [m \in MCNames |-> CASE m = "Connection" -> 1 [] m = "Date" -> 2
                 [] m = "Server" -> 3 [] m = "TE" -> 4 [] m = "Vary" -> 5]

\* All strings of up to six runs; the numbers around those that are wanted.
MCRuns == {Number(0), Number(3), Number(4), Dot, [kind |-> "text", val |-> 1]}
MCReleases ==
  {s \in UNION {[1..m -> MCRuns] : m \in 0..6} :
     \A m \in 2..Len(s) : ~(s[m - 1].kind = "number" /\ s[m].kind = "number")}
MCWanted == {Version(3, 3, 3), Version(3, 4, 0), Version(4, 0, 3)}

\* Builds before, at, between and after the LTSC builds of the package.
MCLTSC == <<20348, 26100>>
MCSystem(major, minor, build) ==
  [MajorVersion |-> major, MinorVersion |-> minor, Build |-> build]
MCBuilds == {17763, 20348, 25398, 26100, 28000}
MCRtlVersions == {MCSystem(10, 0, b) : b \in MCBuilds} \cup {MCSystem(6, 3, 9600)}
MCContainers == MCRtlVersions

\* Files of up to three lines, cut anywhere.
MCLines == 3
MCFile(lines, cut) == [state |-> "there", lines |-> lines, cut |-> cut]
MCNoFiles == {NoFile("missing"), NoFile("denied")}
MCEtcFiles ==
  MCNoFiles \cup UNION {{MCFile(s, c) : s \in [1..m -> Line], c \in 1..(m + 1)} : m \in 0..MCLines}
MCAltFiles ==
  MCNoFiles \cup {MCFile(<<[key |-> "PRETTY_NAME", text |-> " 'b'"]>>, 2)}

VARIABLE job

\* The resting values of a job's variables.
SortRests == h = << >> /\ i = 1 /\ j = 1
ReleaseRests == /\ release = << >> /\ wanted = Version(3, 4, 0)
                /\ version = NoVersionYet /\ check = "asked"
CompatRests ==
  /\ rtl = MCSystem(10, 0, 20348) /\ osv = Zero /\ once = "new"
  /\ vpc = [p \in Callers |-> "get"] /\ host = [p \in Callers |-> Zero]
  /\ ctr = [p \in Callers |-> MCSystem(10, 0, 20348)]
  /\ k = [p \in Callers |-> 0] /\ supported = [p \in Callers |-> 0]
  /\ answer = [p \in Callers |-> FALSE]
NameRests == /\ etc = NoFile("missing") /\ alt = etc
             /\ key = NoKey /\ at = 1 /\ value = ""
             /\ osName = NotAsked /\ osVersion = NotAsked

Init ==
  \/ job = "sort" /\ SortInit /\ ReleaseRests /\ CompatRests /\ NameRests
  \/ job = "release" /\ SortRests /\ ReleaseInit /\ CompatRests /\ NameRests
  \/ job = "compat" /\ SortRests /\ ReleaseRests /\ OsInit /\ NameRests
  \/ job = "name" /\ SortRests /\ ReleaseRests /\ CompatRests /\ OsReleaseInit

Next ==
  /\ \/ job = "sort" /\ SortNext /\ UNCHANGED <<releaseVars, osVars, osReleaseVars>>
     \/ job = "release" /\ ReleaseNext /\ UNCHANGED <<sortVars, osVars, osReleaseVars>>
     \/ job = "compat" /\ OsNext /\ UNCHANGED <<sortVars, releaseVars, osReleaseVars>>
     \/ job = "name" /\ OsReleaseNext /\ UNCHANGED <<sortVars, releaseVars, osVars>>
  /\ UNCHANGED job

Spec == Init /\ [][Next]_<<job, sortVars, releaseVars, osVars, osReleaseVars>>
=============================================================================
