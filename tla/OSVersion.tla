------------------------------ MODULE OSVersion ------------------------------
(***************************************************************************)
(* The Windows version (pkg/osversion): Get, which asks the system once    *)
(* and shares the answer between goroutines, and the check whether a host  *)
(* can run a container, CheckHostAndContainerCompat.                       *)
(*                                                                         *)
(* A uint32 is kept as its two 16-bit halves.  The host's major and minor  *)
(* version fit a byte.                                                     *)
(***************************************************************************)
EXTENDS Naturals, Sequences

CONSTANTS
  Callers,               \* goroutines that check a container each
  RtlVersions,           \* what windows.RtlGetVersion may return
  Containers,            \* the versions of containers
  compatLTSCReleases     \* the package's list of LTSC builds

LTSC2022 == 20348        \* windowsbuilds.go

Byte == {n \in Nat : n < 256}
Word == {n \in Nat : n < 65536}
Numbers == [MajorVersion : Byte, MinorVersion : Byte, Build : Nat]

\* "Note: List must be sorted in ascending order"; the first is LTSC2022, which
\* the code relies on where it falls back to that build.
ASSUME ReleasesAssumption ==
  /\ compatLTSCReleases \in Seq(Word) /\ Len(compatLTSCReleases) > 0
  /\ compatLTSCReleases[1] = LTSC2022
  /\ \A m, n \in 1..Len(compatLTSCReleases) :
       m < n => compatLTSCReleases[m] < compatLTSCReleases[n]
  /\ RtlVersions \subseteq Numbers /\ Containers \subseteq Numbers

Zero == [MajorVersion |-> 0, MinorVersion |-> 0, Build |-> 0, high |-> 0, low |-> 0]

\* What the function given to once.Do computes: first the fields, ...
Fields(v) == [Zero EXCEPT !.MajorVersion = v.MajorVersion % 256,
                          !.MinorVersion = v.MinorVersion % 256,
                          !.Build = v.Build % 65536]

\* ... then Version = Build << 16 | Minor << 8 | Major.
Pack(o, v) ==
  [o EXCEPT !.high = v.Build % 65536, !.low = v.MinorVersion * 256 + v.MajorVersion]

VARIABLES
  rtl,         \* the version of the running system
  osv, once,   \* the package variables
  vpc, host, ctr, k, supported, answer   \* of each caller: its arguments and locals

osVars == <<rtl, osv, once, vpc, host, ctr, k, supported, answer>>
locals == <<host, ctr, k, supported, answer>>

OsInit ==
  /\ rtl \in RtlVersions /\ osv = Zero /\ once = "new"
  /\ vpc = [p \in Callers |-> "get"] /\ host = [p \in Callers |-> Zero]
  /\ ctr \in [Callers -> Containers]
  /\ k = [p \in Callers |-> 0] /\ supported = [p \in Callers |-> 0]
  /\ answer = [p \in Callers |-> FALSE]

GoTo(p, at) == vpc' = [vpc EXCEPT ![p] = at]

-----------------------------------------------------------------------------
(* Get.                                                                    *)

\* Mutant: a caller does not wait for the one that runs the function.
DoNoWait(p) ==
  /\ vpc[p] = "get"
  /\ IF once = "new" THEN once' = "running" /\ GoTo(p, "fields")
     ELSE GoTo(p, "read") /\ UNCHANGED once
  /\ UNCHANGED <<rtl, osv, locals>>

\* once.Do: the first caller runs the function, the others wait until it has.
Do(p) ==
  /\ vpc[p] = "get"
  /\ \/ once = "new" /\ once' = "running" /\ GoTo(p, "fields")
     \/ once = "done" /\ GoTo(p, "read") /\ UNCHANGED once
  /\ UNCHANGED <<rtl, osv, locals>>

GetFields(p) ==
  /\ vpc[p] = "fields"
  /\ osv' = Fields(rtl) /\ GoTo(p, "pack")
  /\ UNCHANGED <<rtl, once, locals>>

GetVersion(p) ==
  /\ vpc[p] = "pack"
  /\ osv' = Pack(osv, rtl) /\ once' = "done" /\ GoTo(p, "read")
  /\ UNCHANGED <<rtl, locals>>

\* Get returns a copy of osv.
GetReturn(p) ==
  /\ vpc[p] = "read"
  /\ host' = [host EXCEPT ![p] = osv] /\ GoTo(p, "check")
  /\ UNCHANGED <<rtl, osv, once, ctr, k, supported, answer>>

-----------------------------------------------------------------------------
(* CheckHostAndContainerCompat.                                            *)

SameRelease(a, b) == a.MajorVersion = b.MajorVersion /\ a.MinorVersion = b.MinorVersion

\* The early returns.
CheckExactMatch(p) ==
  /\ vpc[p] = "check"
  /\ ~SameRelease(host[p], ctr[p]) \/ host[p].Build < LTSC2022
  /\ answer' = [answer EXCEPT ![p] = SameRelease(host[p], ctr[p])
                                       /\ host[p].Build = ctr[p].Build]
  /\ GoTo(p, "done")
  /\ UNCHANGED <<rtl, osv, once, host, ctr, k, supported>>

CheckStart(p) ==
  /\ vpc[p] = "check"
  /\ SameRelease(host[p], ctr[p]) /\ host[p].Build >= LTSC2022
  /\ supported' = [supported EXCEPT ![p] = LTSC2022]
  /\ k' = [k EXCEPT ![p] = Len(compatLTSCReleases)]
  /\ GoTo(p, "loop")
  /\ UNCHANGED <<rtl, osv, once, host, ctr, answer>>

\* Mutant: a host that is an LTSC takes its own entry.
FoundSelf(p) == k[p] > 0 /\ host[p].Build >= compatLTSCReleases[k[p]]

\* The loop has met the latest release that is earlier than the host.
Found(p) == k[p] > 0 /\ host[p].Build > compatLTSCReleases[k[p]]

CheckLater(p) ==
  /\ vpc[p] = "loop" /\ k[p] > 0 /\ ~Found(p)
  /\ k' = [k EXCEPT ![p] = @ - 1]
  /\ UNCHANGED <<rtl, osv, once, vpc, host, ctr, supported, answer>>

CheckBreak(p) ==
  /\ vpc[p] = "loop" /\ Found(p)
  /\ supported' = [supported EXCEPT ![p] = compatLTSCReleases[k[p]]]
  /\ GoTo(p, "range")
  /\ UNCHANGED <<rtl, osv, once, host, ctr, k, answer>>

CheckNone(p) ==
  /\ vpc[p] = "loop" /\ k[p] = 0
  /\ GoTo(p, "range")
  /\ UNCHANGED <<rtl, osv, once, locals>>

CheckReturn(p) ==
  /\ vpc[p] = "range"
  /\ answer' = [answer EXCEPT ![p] = supported[p] <= ctr[p].Build
                                       /\ ctr[p].Build <= host[p].Build]
  /\ GoTo(p, "done")
  /\ UNCHANGED <<rtl, osv, once, host, ctr, k, supported>>

OsDone == (\A p \in Callers : vpc[p] = "done") /\ UNCHANGED osVars

OsNext ==
  \/ \E p \in Callers :
       \/ Do(p) \/ GetFields(p) \/ GetVersion(p) \/ GetReturn(p)
       \/ CheckExactMatch(p) \/ CheckStart(p) \/ CheckLater(p)
       \/ CheckBreak(p) \/ CheckNone(p) \/ CheckReturn(p)
  \/ OsDone

OsSpec == OsInit /\ [][OsNext]_osVars

-----------------------------------------------------------------------------
(* Properties.                                                             *)

\* What Get returned, to any caller however the calls interleave, is the system's
\* version, complete; and its Version, "so that existing clients don't break",
\* taken apart as pkg/kernel takes apart the one of windows.GetVersion, holds the
\* same numbers as the fields.
GetComplete ==
  \A p \in Callers : vpc[p] \in {"check", "loop", "range", "done"} =>
    /\ host[p].MajorVersion = rtl.MajorVersion /\ host[p].MinorVersion = rtl.MinorVersion
    /\ host[p].Build = rtl.Build % 65536
    /\ host[p].low % 256 = host[p].MajorVersion
    /\ host[p].low \div 256 = host[p].MinorVersion
    /\ host[p].high = host[p].Build

\* What the comments of the check promise: before LTSC2022 only the host's own
\* build runs; from then on "everything from the previous LTSC up to itself", so
\* a container that is no newer than the host, and no LTSC lies between the two.
Compatible(hostV, c) ==
  /\ SameRelease(hostV, c)
  /\ \/ hostV.Build = c.Build
     \/ /\ LTSC2022 <= c.Build /\ c.Build <= hostV.Build
        /\ ~\E n \in 1..Len(compatLTSCReleases) :
             c.Build < compatLTSCReleases[n] /\ compatLTSCReleases[n] < hostV.Build

CompatExact ==
  \A p \in Callers : vpc[p] = "done" => (answer[p] <=> Compatible(host[p], ctr[p]))
=============================================================================
