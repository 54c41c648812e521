---------------------------- MODULE KernelRelease ----------------------------
(***************************************************************************)
(* The release string of uname(2), as pkg/kernel reads, prints and         *)
(* compares it.  A string is the sequence of its runs: a number (a run of  *)
(* digits), a dot, or any other text without blanks and signs before       *)
(* digits, identified by a number.  Two numbers never follow each other.   *)
(***************************************************************************)
EXTENDS KernelVersion, Sequences

CONSTANTS Releases,     \* the strings uname may return
          Wanted        \* the versions asked for, without a flavor

Run == [kind : {"number", "dot", "text"}, val : Nat]
Number(n) == [kind |-> "number", val |-> n]
Dot == [kind |-> "dot", val |-> 0]

ASSUME ReleaseAssumption ==
  /\ Releases \subseteq Seq(Run) /\ Wanted \subseteq VersionInfo
  /\ \A s \in Releases : \A n \in 1..Len(s) :
       /\ s[n].kind = "dot" => s[n] = Dot
       /\ n > 1 => ~(s[n - 1].kind = "number" /\ s[n].kind = "number")

IsNumber(s, n) == n <= Len(s) /\ s[n].kind = "number"
IsDot(s, n) == n <= Len(s) /\ s[n].kind = "dot"
From(s, n) == SubSeq(s, n, Len(s))

Info(k, major, minor, flavor) ==
  [Kernel |-> k, Major |-> major, Minor |-> minor, Flavor |-> flavor]

\* Sscanf(release, "%d.%d%s") gets both numbers, or ParseRelease fails.
Parses(s) == IsNumber(s, 1) /\ IsDot(s, 2) /\ IsNumber(s, 3)

\* Mutant: a flavor without a minor number before it is lost.
ParseReleaseLosing(s) ==
  IF IsDot(s, 4) /\ IsNumber(s, 5)
  THEN Info(s[1].val, s[3].val, s[5].val, From(s, 6))
  ELSE Info(s[1].val, s[3].val, 0, << >>)

\* The version in a string that parses.  Sscanf(partial, ".%d%s") gets the minor
\* number, or it stays 0 and all that is left is the flavor.
ParseRelease(s) ==
  IF IsDot(s, 4) /\ IsNumber(s, 5)
  THEN Info(s[1].val, s[3].val, s[5].val, From(s, 6))
  ELSE Info(s[1].val, s[3].val, 0, From(s, 4))

\* VersionInfo.String.
String(v) ==
  <<Number(v.Kernel), Dot, Number(v.Major), Dot, Number(v.Minor)>> \o v.Flavor

VARIABLES release,    \* what uname says
          wanted,     \* the arguments of CheckKernelVersion
          version,    \* what GetKernelVersion returned
          check       \* what CheckKernelVersion returned

releaseVars == <<release, wanted, version, check>>

NoVersionYet == Info(0, 0, 0, << >>)

ReleaseInit ==
  /\ release \in Releases /\ wanted \in Wanted
  /\ version = NoVersionYet /\ check = "asked"

\* GetKernelVersion: uname or the parser fails, and CheckKernelVersion with it.
GetKernelVersionFails ==
  /\ check = "asked"
  /\ check' = "error"
  /\ UNCHANGED <<release, wanted, version>>

GetKernelVersionParses ==
  /\ check = "asked" /\ Parses(release)
  /\ version' = ParseRelease(release) /\ check' = "compare"
  /\ UNCHANGED <<release, wanted>>

\* Mutant: a version that is equal is not enough.
CheckStrictly ==
  /\ check = "compare"
  /\ check' = IF CompareKernelVersion(version, wanted) <= 0 THEN "no" ELSE "yes"
  /\ UNCHANGED <<release, wanted, version>>

CheckKernelVersion ==
  /\ check = "compare"
  /\ check' = IF CompareKernelVersion(version, wanted) < 0 THEN "no" ELSE "yes"
  /\ UNCHANGED <<release, wanted, version>>

ReleaseDone == check \in {"error", "no", "yes"} /\ UNCHANGED releaseVars

ReleaseNext == \/ GetKernelVersionFails \/ GetKernelVersionParses
               \/ CheckKernelVersion \/ ReleaseDone
ReleaseSpec == ReleaseInit /\ [][ReleaseNext]_releaseVars

-----------------------------------------------------------------------------
\* Nothing of the release string is lost or moved: printed again, a parsed
\* version is that string, but for a missing minor number, which is printed as 0
\* right after the major one; and what is printed parses to the same version.
ReleaseKept ==
  check \in {"compare", "no", "yes"} =>
    /\ String(version) \in
         {release, SubSeq(release, 1, 3) \o <<Dot, Number(0)>> \o From(release, 4)}
    /\ Parses(String(version)) /\ ParseRelease(String(version)) = version

\* CheckKernelVersion compares the numbers written in the string, one place after
\* the other: the first place where they differ decides, and equal ones suffice.
CheckExact ==
  check \in {"no", "yes"} =>
    LET place == [n \in 1..3 |-> IF n = 3 /\ ~(IsDot(release, 4) /\ IsNumber(release, 5))
                                 THEN 0 ELSE release[2 * n - 1].val]
        want == <<wanted.Kernel, wanted.Major, wanted.Minor>>
    IN  check = "no" <=> \E n \in 1..3 : /\ place[n] < want[n]
                                         /\ \A m \in 1..(n - 1) : place[m] = want[m]
=============================================================================
