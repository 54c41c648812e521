--------------------------- MODULE AlgorithmProofs ---------------------------
(***************************************************************************)
(* Kernel releases, Windows versions and the names of operating systems,   *)
(* for every string, every number of callers, every ascending list of LTSC *)
(* builds and every file.                                                  *)
(***************************************************************************)
EXTENDS KernelRelease, OSVersion, OperatingSystem, FiniteSetTheorems, SequenceTheorems, TLAPS

-----------------------------------------------------------------------------
(* OSVersion.                                                              *)

\* What Get is to return on a system of version v.
Complete(v) == Pack(Fields(v), v)

Past == {"check", "loop", "range", "done"}

\* What the loop knows: it has passed only releases that are not earlier than the
\* host ...
Looping(hostV, c, release0, n) ==
  /\ SameRelease(hostV, c) /\ hostV.Build >= LTSC2022
  /\ release0 = LTSC2022
  /\ \A m \in 1..Len(compatLTSCReleases) : m > n => hostV.Build <= compatLTSCReleases[m]

\* ... and what it has found: no release lies between this one and the host.
Ranging(hostV, c, release0) ==
  /\ SameRelease(hostV, c) /\ hostV.Build >= LTSC2022 /\ release0 >= LTSC2022
  /\ release0 = LTSC2022 \/ release0 < hostV.Build
  /\ \E n \in 1..Len(compatLTSCReleases) : release0 = compatLTSCReleases[n]
  /\ \A m \in 1..Len(compatLTSCReleases) :
       compatLTSCReleases[m] <= release0 \/ hostV.Build <= compatLTSCReleases[m]

\* While the function runs there is one caller that runs it; once it is done the
\* shared version is complete, and every caller past Get has a copy of it.
OsTypes ==
  /\ rtl \in Numbers /\ ctr \in [Callers -> Numbers]
  /\ once \in {"new", "running", "done"}
  /\ vpc \in [Callers -> {"get", "fields", "pack", "read"} \cup Past]
  /\ DOMAIN host = Callers /\ answer \in [Callers -> BOOLEAN]
  /\ k \in [Callers -> 0..Len(compatLTSCReleases)] /\ supported \in [Callers -> Nat]

GetInv ==
  /\ once = "done" => osv = Complete(rtl)
  /\ \A p, q \in Callers : vpc[p] \in {"fields", "pack"} /\ vpc[q] \in {"fields", "pack"} => p = q
  /\ \A p \in Callers :
       /\ vpc[p] \in {"fields", "pack"} => once = "running"
       /\ vpc[p] = "pack" => osv = Fields(rtl)
       /\ vpc[p] = "read" => once = "done"
       /\ vpc[p] \in Past => host[p] = Complete(rtl)

CheckInv ==
  \A p \in Callers :
    /\ vpc[p] = "loop" => Looping(host[p], ctr[p], supported[p], k[p])
    /\ vpc[p] = "range" => Ranging(host[p], ctr[p], supported[p])
    /\ vpc[p] = "done" => (answer[p] <=> Compatible(host[p], ctr[p]))

\* The parts of a complete version.
LEMMA CompleteParts ==
  ASSUME NEW v \in Numbers
  PROVE  /\ Complete(v).MajorVersion = v.MajorVersion
         /\ Complete(v).MinorVersion = v.MinorVersion
         /\ Complete(v).Build = v.Build % 65536 /\ Complete(v).Build \in Nat
         /\ Complete(v).high = v.Build % 65536
         /\ Complete(v).low = v.MinorVersion * 256 + v.MajorVersion
<1>1. v.MajorVersion \in Byte /\ v.MinorVersion \in Byte /\ v.Build \in Nat
  BY DEF Numbers
<1>2. v.MajorVersion % 256 = v.MajorVersion /\ v.MinorVersion % 256 = v.MinorVersion
      /\ v.Build % 65536 \in Nat
  BY <1>1 DEF Byte
<1> QED
  BY <1>2 DEF Complete, Pack, Fields, Zero

\* The list of releases, as facts about numbers.
LEMMA ReleasesAscend ==
  /\ Len(compatLTSCReleases) \in Nat \ {0} /\ compatLTSCReleases[1] = 20348
  /\ \A n \in 1..Len(compatLTSCReleases) : compatLTSCReleases[n] \in Nat
  /\ \A m, n \in 1..Len(compatLTSCReleases) :
       m < n => compatLTSCReleases[m] < compatLTSCReleases[n]
<1>1. \A n \in 1..Len(compatLTSCReleases) : compatLTSCReleases[n] \in Word
  BY ReleasesAssumption
<1>2. \A w \in Word : w \in Nat
  BY DEF Word
<1> QED
  BY <1>1, <1>2, ReleasesAssumption DEF LTSC2022

\* A host before LTSC2022, or of another release, runs its own build only.
LEMMA ExactMatch ==
  ASSUME NEW H, NEW c, H.Build \in Nat, c.Build \in Nat,
         ~SameRelease(H, c) \/ H.Build < LTSC2022
  PROVE  (SameRelease(H, c) /\ H.Build = c.Build) <=> Compatible(H, c)
BY DEF Compatible, LTSC2022, SameRelease

\* A round of the loop that goes on.
LEMMA LoopingLater ==
  ASSUME NEW H, NEW c, NEW r, NEW n \in 1..Len(compatLTSCReleases), H.Build \in Nat,
         Looping(H, c, r, n), ~(H.Build > compatLTSCReleases[n])
  PROVE  Looping(H, c, r, n - 1)
<1>1. \A m \in 1..Len(compatLTSCReleases) : m > n - 1 => m = n \/ m > n
  BY ReleasesAscend
<1> QED
  BY <1>1, ReleasesAscend DEF Looping

\* The round that finds a release.
LEMMA RangingFound ==
  ASSUME NEW H, NEW c, NEW r, NEW n \in 1..Len(compatLTSCReleases), H.Build \in Nat,
         Looping(H, c, r, n), H.Build > compatLTSCReleases[n]
  PROVE  Ranging(H, c, compatLTSCReleases[n])
<1>1. \A m \in 1..Len(compatLTSCReleases) :
        compatLTSCReleases[m] <= compatLTSCReleases[n] \/ H.Build <= compatLTSCReleases[m]
  BY ReleasesAscend DEF Looping
<1>2. compatLTSCReleases[n] >= 20348
  BY ReleasesAscend
<1> QED
  BY <1>1, <1>2, ReleasesAscend DEF Looping, Ranging, LTSC2022

\* No round finds one.
LEMMA RangingNone ==
  ASSUME NEW H, NEW c, NEW r, H.Build \in Nat, Looping(H, c, r, 0)
  PROVE  Ranging(H, c, r)
BY ReleasesAscend DEF Looping, Ranging, LTSC2022

\* The range that the check returns.
LEMMA RangeReturned ==
  ASSUME NEW H, NEW c, NEW r \in Nat, H.Build \in Nat, c.Build \in Nat, Ranging(H, c, r)
  PROVE  (r <= c.Build /\ c.Build <= H.Build) <=> Compatible(H, c)
<1>1. CASE r <= c.Build /\ c.Build <= H.Build
  BY <1>1, ReleasesAscend, SMTT(30) DEF Ranging, Compatible, LTSC2022
<1>2. CASE ~(r <= c.Build /\ c.Build <= H.Build)
  BY <1>2, ReleasesAscend DEF Ranging, Compatible, LTSC2022
<1> QED
  BY <1>1, <1>2

\* The callers start well typed.
LEMMA OsTypesStart == OsInit => OsTypes
BY ReleasesAssumption DEF OsInit, OsTypes, Past

\* Every step of a caller keeps the types; one step of the proof per action.
LEMMA OsTypesStep == OsTypes /\ [OsNext]_osVars => OsTypes'
<1> SUFFICES ASSUME OsTypes, [OsNext]_osVars PROVE OsTypes'
  OBVIOUS
<1> USE DEF OsTypes, Past, GoTo, locals
<1>0. CASE OsDone \/ UNCHANGED osVars
  BY <1>0 DEF OsDone, osVars
<1>1. ASSUME NEW p \in Callers, Do(p) PROVE OsTypes'
  BY <1>1 DEF Do
<1>2. ASSUME NEW p \in Callers, GetFields(p) \/ GetVersion(p) \/ GetReturn(p) PROVE OsTypes'
  BY <1>2 DEF GetFields, GetVersion, GetReturn
<1>3. ASSUME NEW p \in Callers, CheckExactMatch(p) PROVE OsTypes'
  BY <1>3 DEF CheckExactMatch, SameRelease
<1>4. ASSUME NEW p \in Callers, CheckStart(p) PROVE OsTypes'
  BY <1>4, ReleasesAssumption DEF CheckStart, LTSC2022
<1>5. ASSUME NEW p \in Callers, CheckLater(p) PROVE OsTypes'
  BY <1>5, ReleasesAssumption DEF CheckLater
<1>6. ASSUME NEW p \in Callers, CheckBreak(p) PROVE OsTypes'
  <2>1. compatLTSCReleases[k[p]] \in Nat
    BY <1>6, ReleasesAscend DEF CheckBreak, Found
  <2> QED
    BY <1>6, <2>1 DEF CheckBreak
<1>7. ASSUME NEW p \in Callers, CheckNone(p) PROVE OsTypes'
  BY <1>7 DEF CheckNone
<1>8. ASSUME NEW p \in Callers, CheckReturn(p) PROVE OsTypes'
  BY <1>8 DEF CheckReturn
<1> QED
  BY <1>0, <1>1, <1>2, <1>3, <1>4, <1>5, <1>6, <1>7, <1>8 DEF OsNext

\* Every step keeps what the once has computed: the host is the version RtlGetVersion gave.
LEMMA GetStep == OsTypes /\ GetInv /\ [OsNext]_osVars => GetInv'
<1> SUFFICES ASSUME OsTypes, GetInv, [OsNext]_osVars PROVE GetInv'
  OBVIOUS
<1> USE DEF OsTypes, GetInv, Past, GoTo, locals
<1>0. CASE OsDone \/ UNCHANGED osVars
  BY <1>0 DEF OsDone, osVars
<1>1. ASSUME NEW p \in Callers, Do(p) PROVE GetInv'
  BY <1>1 DEF Do
<1>2. ASSUME NEW p \in Callers, GetFields(p) PROVE GetInv'
  BY <1>2 DEF GetFields
<1>3. ASSUME NEW p \in Callers, GetVersion(p) PROVE GetInv'
  <2>1. osv' = Complete(rtl)
    BY <1>3 DEF GetVersion, Complete
  <2> QED
    BY <1>3, <2>1 DEF GetVersion
<1>4. ASSUME NEW p \in Callers, GetReturn(p) PROVE GetInv'
  BY <1>4 DEF GetReturn
<1>5. ASSUME NEW p \in Callers, CheckExactMatch(p) \/ CheckStart(p) \/ CheckReturn(p)
      PROVE  GetInv'
  <2>1. /\ UNCHANGED <<rtl, osv, once, host>> /\ vpc[p] \in Past
        /\ \E l \in Past : vpc' = [vpc EXCEPT ![p] = l]
    BY <1>5 DEF CheckExactMatch, CheckStart, CheckReturn
  <2> QED
    BY <2>1
<1>6. ASSUME NEW p \in Callers, CheckLater(p) \/ CheckBreak(p) \/ CheckNone(p)
      PROVE  GetInv'
  <2>1. /\ UNCHANGED <<rtl, osv, once, host>> /\ vpc[p] \in Past
        /\ vpc' = vpc \/ vpc' = [vpc EXCEPT ![p] = "range"]
    BY <1>6 DEF CheckLater, CheckBreak, CheckNone
  <2> QED
    BY <2>1
<1> QED
  BY <1>0, <1>1, <1>2, <1>3, <1>4, <1>5, <1>6 DEF OsNext

\* Every step keeps the scan of the releases where the loop variable says it is.
LEMMA CheckStep == OsTypes /\ GetInv /\ CheckInv /\ [OsNext]_osVars => CheckInv'
<1> SUFFICES ASSUME OsTypes, GetInv, CheckInv, [OsNext]_osVars PROVE CheckInv'
  OBVIOUS
<1> USE DEF OsTypes, CheckInv, Past, GoTo, locals
<1>h. ASSUME NEW p \in Callers, vpc[p] \in Past PROVE host[p].Build \in Nat
  BY <1>h, CompleteParts, SMTT(30) DEF GetInv
<1>0. CASE OsDone \/ UNCHANGED osVars
  BY <1>0 DEF OsDone, osVars
<1>1. ASSUME NEW p \in Callers, Do(p) PROVE CheckInv'
  BY <1>1 DEF Do
<1>2. ASSUME NEW p \in Callers, GetFields(p) \/ GetVersion(p) \/ GetReturn(p) PROVE CheckInv'
  BY <1>2 DEF GetFields, GetVersion, GetReturn
<1>3. ASSUME NEW p \in Callers, CheckExactMatch(p) PROVE CheckInv'
  <2>1. host[p].Build \in Nat /\ ctr[p].Build \in Nat
    BY <1>3, <1>h DEF CheckExactMatch, Numbers
  <2>2. answer'[p] <=> Compatible(host[p], ctr[p])
    BY <1>3, <2>1, ExactMatch DEF CheckExactMatch
  <2> QED
    BY <1>3, <2>2 DEF CheckExactMatch
<1>4. ASSUME NEW p \in Callers, CheckStart(p) PROVE CheckInv'
  <2>1. Looping(host[p], ctr[p], LTSC2022, Len(compatLTSCReleases))
    BY <1>4, ReleasesAssumption DEF CheckStart, Looping
  <2> QED
    BY <1>4, <2>1, ReleasesAssumption DEF CheckStart
<1>5. ASSUME NEW p \in Callers, CheckLater(p) PROVE CheckInv'
  <2>1. host[p].Build \in Nat /\ k[p] \in 1..Len(compatLTSCReleases)
    BY <1>5, <1>h, ReleasesAscend DEF CheckLater
  <2>2. Looping(host[p], ctr[p], supported[p], k[p] - 1)
    BY <1>5, <2>1, LoopingLater DEF CheckLater, Found
  <2> QED
    BY <1>5, <2>2 DEF CheckLater
<1>6. ASSUME NEW p \in Callers, CheckBreak(p) PROVE CheckInv'
  <2>1. host[p].Build \in Nat /\ k[p] \in 1..Len(compatLTSCReleases)
    <3>1. vpc[p] = "loop" /\ k[p] > 0 /\ k[p] \in 0..Len(compatLTSCReleases)
      BY <1>6 DEF CheckBreak, Found
    <3>2. host[p].Build \in Nat
      BY <1>h, <3>1
    <3> QED
      BY <3>1, <3>2, ReleasesAscend
  <2>2. Ranging(host[p], ctr[p], compatLTSCReleases[k[p]])
    BY <1>6, <2>1, RangingFound DEF CheckBreak, Found
  <2> QED
    BY <1>6, <2>2 DEF CheckBreak
<1>7. ASSUME NEW p \in Callers, CheckNone(p) PROVE CheckInv'
  <2>1. host[p].Build \in Nat /\ Looping(host[p], ctr[p], supported[p], 0)
    BY <1>7, <1>h DEF CheckNone
  <2>2. Ranging(host[p], ctr[p], supported[p])
    BY <2>1, RangingNone
  <2> QED
    BY <1>7, <2>2 DEF CheckNone
<1>8. ASSUME NEW p \in Callers, CheckReturn(p) PROVE CheckInv'
  <2>1. /\ host[p].Build \in Nat /\ ctr[p].Build \in Nat /\ supported[p] \in Nat
        /\ Ranging(host[p], ctr[p], supported[p])
    BY <1>8, <1>h DEF CheckReturn, Numbers
  <2>2. (supported[p] <= ctr[p].Build /\ ctr[p].Build <= host[p].Build)
          <=> Compatible(host[p], ctr[p])
    BY <2>1, RangeReturned
  <2> QED
    BY <1>8, <2>2 DEF CheckReturn
<1> QED
  BY <1>0, <1>1, <1>2, <1>3, <1>4, <1>5, <1>6, <1>7, <1>8 DEF OsNext

\* The three parts of the inductive invariant hold in every reachable state.
LEMMA OsAlways == OsSpec => [](OsTypes /\ GetInv /\ CheckInv)
<1>1. OsInit => GetInv /\ CheckInv
  BY DEF OsInit, GetInv, CheckInv, Past
<1> QED
  BY <1>1, OsTypesStart, OsTypesStep, GetStep, CheckStep, PTL DEF OsSpec

\* Every caller of Get, first or not, gets the whole version of the system, and its
\* packed form holds the same numbers.
THEOREM GetCorrect == OsSpec => []GetComplete
<1>1. OsTypes /\ GetInv => GetComplete
  <2> SUFFICES ASSUME OsTypes, GetInv, NEW p \in Callers, vpc[p] \in Past
               PROVE  /\ host[p].MajorVersion = rtl.MajorVersion
                      /\ host[p].MinorVersion = rtl.MinorVersion
                      /\ host[p].Build = rtl.Build % 65536
                      /\ host[p].low % 256 = host[p].MajorVersion
                      /\ host[p].low \div 256 = host[p].MinorVersion
                      /\ host[p].high = host[p].Build
    BY DEF GetComplete, Past
  <2>1. host[p] = Complete(rtl) /\ rtl \in Numbers
    BY DEF GetInv, OsTypes
  <2>2. \A a, b \in Nat : b < 256 => (a * 256 + b) % 256 = b /\ (a * 256 + b) \div 256 = a
    OBVIOUS
  <2>3. /\ (rtl.MinorVersion * 256 + rtl.MajorVersion) % 256 = rtl.MajorVersion
        /\ (rtl.MinorVersion * 256 + rtl.MajorVersion) \div 256 = rtl.MinorVersion
    BY <2>1, <2>2 DEF Numbers, Byte
  <2> QED
    BY <2>1, <2>3, CompleteParts
<1> QED
  BY <1>1, OsAlways, PTL

\* For any ascending list of LTSC builds that starts with LTSC2022, the check
\* allows what its comments promise.
THEOREM CompatCorrect == OsSpec => []CompatExact
<1>1. CheckInv => CompatExact
  BY DEF CheckInv, CompatExact
<1> QED
  BY <1>1, OsAlways, PTL

-----------------------------------------------------------------------------
(* KernelRelease.                                                          *)

Dotted(s) == \A n \in 1..Len(s) : s[n].kind = "dot" => s[n] = Dot
Printed(a, b, c) == <<Number(a), Dot, Number(b), Dot, Number(c)>>

\* A number or a dot of a string, spelt out.
LEMMA Spelt ==
  ASSUME NEW s \in Seq(Run), Dotted(s), NEW n \in 1..Len(s)
  PROVE  /\ s[n].val \in Nat
         /\ s[n].kind = "number" => s[n] = Number(s[n].val)
         /\ s[n].kind = "dot" => s[n] = Dot
<1>1. s[n] \in Run
  OBVIOUS
<1> QED
  BY <1>1 DEF Run, Number, Dotted

\* A dot and a number are runs of characters.
LEMMA RunParts == Dot \in Run /\ \A n \in Nat : Number(n) \in Run
BY DEF Run, Number, Dot

\* A sequence is the concatenation of its two parts.
LEMMA Rejoined ==
  ASSUME NEW s \in Seq(Run), NEW P \in Seq(Run), NEW F \in Seq(Run),
         Len(s) = Len(P) + Len(F),
         \A n \in 1..Len(P) : P[n] = s[n],
         \A n \in 1..Len(F) : F[n] = s[Len(P) + n]
  PROVE  P \o F = s
<1>1. P \o F \in Seq(Run) /\ Len(P \o F) = Len(s)
  BY ConcatProperties
<1>2. ASSUME NEW n \in 1..Len(s) PROVE (P \o F)[n] = s[n]
  <2>1. (P \o F)[n] = IF n <= Len(P) THEN P[n] ELSE F[n - Len(P)]
    BY ConcatProperties
  <2>2. CASE n <= Len(P)
    BY <2>1, <2>2
  <2>3. CASE ~(n <= Len(P))
    <3>1. n - Len(P) \in 1..Len(F) /\ Len(P) + (n - Len(P)) = n
      BY <2>3
    <3> QED
      BY <2>1, <2>3, <3>1
  <2> QED
    BY <2>2, <2>3
<1> QED
  BY <1>1, <1>2, SeqEqual

\* What is left of a string from some place on.
LEMMA FromParts ==
  ASSUME NEW s \in Seq(Run), NEW m \in Nat \ {0}, m <= Len(s) + 1
  PROVE  /\ From(s, m) \in Seq(Run) /\ Len(From(s, m)) = Len(s) - m + 1
         /\ \A n \in 1..(Len(s) - m + 1) : From(s, m)[n] = s[m - 1 + n]
<1>1. \A n \in m..Len(s) : s[n] \in Run
  OBVIOUS
<1>2. /\ SubSeq(s, m, Len(s)) \in Seq(Run)
      /\ Len(SubSeq(s, m, Len(s))) = IF m <= Len(s) THEN Len(s) - m + 1 ELSE 0
      /\ \A n \in 1..(Len(s) - m + 1) : SubSeq(s, m, Len(s))[n] = s[m + n - 1]
  BY <1>1, SubSeqProperties
<1> QED
  BY <1>2 DEF From

\* A string that spells its minor number prints as itself.
LEMMA PrintsItself ==
  ASSUME NEW s \in Seq(Run), NEW a \in Nat, NEW b \in Nat, NEW c \in Nat, Len(s) >= 5,
         s[1] = Number(a), s[2] = Dot, s[3] = Number(b), s[4] = Dot, s[5] = Number(c)
  PROVE  Printed(a, b, c) \o From(s, 6) = s
<1> DEFINE P == Printed(a, b, c)
           F == From(s, 6)
<1>1. /\ P \in Seq(Run) /\ Len(P) = 5
      /\ P[1] = s[1] /\ P[2] = s[2] /\ P[3] = s[3] /\ P[4] = s[4] /\ P[5] = s[5]
  BY RunParts DEF Printed
<1>2. F \in Seq(Run) /\ Len(F) = Len(s) - 5 /\ \A n \in 1..(Len(s) - 5) : F[n] = s[5 + n]
  <2>1. 6 \in Nat \ {0} /\ 6 <= Len(s) + 1
    OBVIOUS
  <2>2. /\ F \in Seq(Run) /\ Len(F) = Len(s) - 6 + 1
        /\ \A n \in 1..(Len(s) - 6 + 1) : F[n] = s[6 - 1 + n]
    BY <2>1, FromParts
  <2> HIDE DEF F
  <2>3. Len(s) - 6 + 1 = Len(s) - 5 /\ \A n \in Nat : 6 - 1 + n = 5 + n
    OBVIOUS
  <2> QED
    BY <2>2, <2>3
<1> HIDE DEF P, F
<1>3. Len(s) = Len(P) + Len(F) /\ \A n \in 1..Len(P) : P[n] = s[n]
  BY <1>1, <1>2
<1>4. \A n \in 1..Len(F) : F[n] = s[Len(P) + n]
  BY <1>1, <1>2
<1>5. P \o F = s
  BY <1>1, <1>2, <1>3, <1>4, Rejoined
<1> QED
  BY <1>5 DEF P, F

\* One that does not prints with a 0 for it.
LEMMA PrintsZero ==
  ASSUME NEW s \in Seq(Run), NEW a \in Nat, NEW b \in Nat, Len(s) >= 3,
         s[1] = Number(a), s[2] = Dot, s[3] = Number(b)
  PROVE  Printed(a, b, 0) = SubSeq(s, 1, 3) \o <<Dot, Number(0)>>
<1> DEFINE P == SubSeq(s, 1, 3)
           F == <<Dot, Number(0)>>
           t == Printed(a, b, 0)
<1>1. /\ t \in Seq(Run) /\ Len(t) = 5
      /\ t[1] = Number(a) /\ t[2] = Dot /\ t[3] = Number(b) /\ t[4] = Dot /\ t[5] = Number(0)
  BY RunParts DEF Printed
<1>2. P \in Seq(Run) /\ Len(P) = 3 /\ P[1] = s[1] /\ P[2] = s[2] /\ P[3] = s[3]
  OBVIOUS
<1>4. F \in Seq(Run) /\ Len(F) = 2 /\ F[1] = Dot /\ F[2] = Number(0)
  BY RunParts
<1> HIDE DEF P, F, t
<1>5. Len(t) = Len(P) + Len(F) /\ \A n \in 1..Len(P) : P[n] = t[n]
  BY <1>1, <1>2, <1>4
<1>6. ASSUME NEW n \in 1..Len(F) PROVE F[n] = t[Len(P) + n]
  <2>1. (n = 1 /\ Len(P) + n = 4) \/ (n = 2 /\ Len(P) + n = 5)
    BY <1>2, <1>4
  <2> QED
    BY <1>1, <1>4, <2>1
<1>7. P \o F = t
  BY <1>1, <1>2, <1>4, <1>5, <1>6, Rejoined
<1> QED
  BY <1>7 DEF P, F, t

\* What is printed parses to what was printed.
LEMMA Reparsed ==
  ASSUME NEW a \in Nat, NEW b \in Nat, NEW c \in Nat, NEW F \in Seq(Run)
  PROVE  /\ Parses(String(Info(a, b, c, F)))
         /\ ParseRelease(String(Info(a, b, c, F))) = Info(a, b, c, F)
<1> DEFINE P == Printed(a, b, c)
           t == P \o F
<1>1. /\ P \in Seq(Run) /\ Len(P) = 5
      /\ P[1] = Number(a) /\ P[2] = Dot /\ P[3] = Number(b) /\ P[4] = Dot /\ P[5] = Number(c)
  BY RunParts DEF Printed
<1>2. String(Info(a, b, c, F)) = t
  BY DEF String, Info, Printed
<1> HIDE DEF P
<1>a. /\ t \in Seq(Run) /\ Len(t) = Len(P) + Len(F)
      /\ \A n \in 1..(Len(P) + Len(F)) :
           t[n] = IF n <= Len(P) THEN P[n] ELSE F[n - Len(P)]
  BY <1>1, ConcatProperties
<1>3. /\ t \in Seq(Run) /\ Len(t) = 5 + Len(F) /\ Len(F) \in Nat
      /\ \A n \in 1..(5 + Len(F)) : t[n] = IF n <= 5 THEN P[n] ELSE F[n - 5]
  BY <1>1, <1>a
<1> HIDE DEF t
<1>4. t[1] = Number(a) /\ t[2] = Dot /\ t[3] = Number(b) /\ t[4] = Dot /\ t[5] = Number(c)
  BY <1>1, <1>3
<1>b. /\ From(t, 6) \in Seq(Run) /\ Len(From(t, 6)) = Len(t) - 6 + 1
      /\ \A n \in 1..(Len(t) - 6 + 1) : From(t, 6)[n] = t[6 - 1 + n]
  <2>1. t \in Seq(Run) /\ 6 \in Nat \ {0} /\ 6 <= Len(t) + 1
    BY <1>3
  <2> QED
    BY <2>1, FromParts
<1>5. From(t, 6) \in Seq(Run) /\ Len(From(t, 6)) = Len(F)
      /\ \A n \in 1..Len(F) : From(t, 6)[n] = t[5 + n]
  BY <1>3, <1>b
<1>6. ASSUME NEW n \in 1..Len(F) PROVE From(t, 6)[n] = F[n]
  <2>1. 5 + n \in 1..(5 + Len(F)) /\ ~(5 + n <= 5) /\ (5 + n) - 5 = n
    BY <1>3
  <2>2. t[5 + n] = F[(5 + n) - 5]
    BY <1>3, <2>1
  <2> QED
    BY <1>5, <2>1, <2>2
<1>7. From(t, 6) = F
  BY <1>5, <1>6, SeqEqual
<1>8. Parses(t) /\ IsDot(t, 4) /\ IsNumber(t, 5)
  BY <1>3, <1>4 DEF Parses, IsDot, IsNumber, Number, Dot
<1>9. ParseRelease(t) = Info(a, b, c, F)
  BY <1>4, <1>7, <1>8 DEF ParseRelease, Number
<1> QED
  BY <1>2, <1>8, <1>9

\* A version in hand is the one in the release string.
ReleaseInv ==
  /\ release \in Seq(Run) /\ Dotted(release)
  /\ check \in {"asked", "error", "compare", "no", "yes"}
  /\ check \in {"compare", "no", "yes"} => Parses(release) /\ version = ParseRelease(release)
  /\ check \in {"no", "yes"} =>
       (check = "no" <=> CompareKernelVersion(version, wanted) < 0)
  /\ wanted \in VersionInfo

\* The inductive invariant of the version check holds in every reachable state.
LEMMA ReleaseAlways == ReleaseSpec => []ReleaseInv
<1>1. ReleaseInit => ReleaseInv
  BY ReleaseAssumption DEF ReleaseInit, ReleaseInv, Dotted
<1>2. ReleaseInv /\ [ReleaseNext]_releaseVars => ReleaseInv'
  BY DEF ReleaseInv, ReleaseNext, releaseVars, GetKernelVersionFails, GetKernelVersionParses,
         CheckKernelVersion, ReleaseDone
<1> QED
  BY <1>1, <1>2, PTL DEF ReleaseSpec

\* What a string that parses holds.
LEMMA ParsedParts ==
  ASSUME NEW s \in Seq(Run), Dotted(s), Parses(s)
  PROVE  \E a, b, c \in Nat, F \in Seq(Run) :
           /\ ParseRelease(s) = Info(a, b, c, F)
           /\ Len(s) >= 3 /\ s[1] = Number(a) /\ s[2] = Dot /\ s[3] = Number(b)
           /\ \/ /\ Len(s) >= 5 /\ s[4] = Dot /\ s[5] = Number(c) /\ F = From(s, 6)
                 /\ IsDot(s, 4) /\ IsNumber(s, 5)
              \/ c = 0 /\ F = From(s, 4) /\ ~(IsDot(s, 4) /\ IsNumber(s, 5))
<1>1. Len(s) \in Nat /\ Len(s) >= 3
  BY DEF Parses, IsNumber
<1>2. PICK a \in Nat : s[1] = Number(a) /\ s[1].val = a
  BY <1>1, Spelt DEF Parses, IsNumber
<1>3. PICK b \in Nat : s[3] = Number(b) /\ s[3].val = b
  BY <1>1, Spelt DEF Parses, IsNumber
<1>4. s[2] = Dot
  BY <1>1, Spelt DEF Parses, IsDot
<1>5. CASE IsDot(s, 4) /\ IsNumber(s, 5)
  <2>1. Len(s) >= 5 /\ s[4] = Dot
    BY <1>1, <1>5, Spelt DEF IsDot, IsNumber
  <2>2. PICK c \in Nat : s[5] = Number(c) /\ s[5].val = c
    BY <1>1, <1>5, <2>1, Spelt DEF IsNumber
  <2>3. From(s, 6) \in Seq(Run) /\ ParseRelease(s) = Info(a, b, c, From(s, 6))
    <3>1. 6 \in Nat \ {0} /\ 6 <= Len(s) + 1
      BY <1>1, <2>1
    <3>2. From(s, 6) \in Seq(Run)
      BY <1>1, <3>1, FromParts
    <3> QED
      BY <1>2, <1>3, <1>5, <2>2, <3>2 DEF ParseRelease
  <2> QED
    BY <1>1, <1>2, <1>3, <1>4, <1>5, <2>1, <2>2, <2>3
<1>6. CASE ~(IsDot(s, 4) /\ IsNumber(s, 5))
  <2>1. From(s, 4) \in Seq(Run) /\ ParseRelease(s) = Info(a, b, 0, From(s, 4))
    <3>1. 4 \in Nat \ {0} /\ 4 <= Len(s) + 1
      BY <1>1 DEF Parses, IsNumber
    <3>2. From(s, 4) \in Seq(Run)
      BY <1>1, <3>1, FromParts
    <3> QED
      BY <1>2, <1>3, <1>6, <3>2 DEF ParseRelease
  <2> QED
    BY <1>1, <1>2, <1>3, <1>4, <1>6, <2>1
<1> QED
  BY <1>5, <1>6

\* Reading a kernel release and printing it again loses nothing, whatever the
\* string of the distribution is.
THEOREM ReleaseCorrect == ReleaseSpec => []ReleaseKept
<1>1. ReleaseInv => ReleaseKept
  <2> SUFFICES ASSUME ReleaseInv, check \in {"compare", "no", "yes"}
               PROVE  /\ \/ String(version) = release
                         \/ String(version) =
                              SubSeq(release, 1, 3) \o <<Dot, Number(0)>> \o From(release, 4)
                      /\ Parses(String(version)) /\ ParseRelease(String(version)) = version
    BY DEF ReleaseKept
  <2>1. release \in Seq(Run) /\ Dotted(release) /\ Parses(release) /\ version = ParseRelease(release)
    BY DEF ReleaseInv
  <2>2. PICK a \in Nat, b \in Nat, c \in Nat, F \in Seq(Run) :
          /\ version = Info(a, b, c, F)
          /\ Len(release) >= 3
          /\ release[1] = Number(a) /\ release[2] = Dot /\ release[3] = Number(b)
          /\ \/ Len(release) >= 5 /\ release[4] = Dot /\ release[5] = Number(c)
                  /\ F = From(release, 6)
             \/ c = 0 /\ F = From(release, 4)
    BY <2>1, ParsedParts
  <2>3. Parses(String(version)) /\ ParseRelease(String(version)) = version
    BY <2>2, Reparsed
  <2>4. String(version) = Printed(a, b, c) \o F
    BY <2>2 DEF String, Info, Printed
  <2>5. CASE Len(release) >= 5 /\ release[4] = Dot /\ release[5] = Number(c)
               /\ F = From(release, 6)
    BY <2>1, <2>2, <2>3, <2>4, <2>5, PrintsItself
  <2>6. CASE c = 0 /\ F = From(release, 4)
    BY <2>1, <2>2, <2>3, <2>4, <2>6, PrintsZero
  <2> QED
    BY <2>2, <2>5, <2>6
<1> QED
  BY <1>1, ReleaseAlways, PTL

\* The answer of CheckKernelVersion is that of the numbers in the string.
THEOREM CheckCorrect == ReleaseSpec => []CheckExact
<1>1. ReleaseInv => CheckExact
  <2> SUFFICES ASSUME ReleaseInv, check \in {"no", "yes"} PROVE CheckExact
    BY DEF CheckExact
  <2> DEFINE minor == IF IsDot(release, 4) /\ IsNumber(release, 5) THEN release[5].val ELSE 0
             place == [n \in 1..3 |-> IF n = 3 /\ ~(IsDot(release, 4) /\ IsNumber(release, 5))
                                      THEN 0 ELSE release[2 * n - 1].val]
             want == <<wanted.Kernel, wanted.Major, wanted.Minor>>
  <2>1. PICK a \in Nat, b \in Nat, c \in Nat, F \in Seq(Run) :
          /\ version = Info(a, b, c, F)
          /\ release[1] = Number(a) /\ release[3] = Number(b)
          /\ \/ release[5] = Number(c) /\ IsDot(release, 4) /\ IsNumber(release, 5)
             \/ c = 0 /\ ~(IsDot(release, 4) /\ IsNumber(release, 5))
    BY ParsedParts DEF ReleaseInv
  <2>2. place[1] = a /\ place[2] = b /\ place[3] = c
    BY <2>1 DEF Number
  <2>3. /\ want[1] = wanted.Kernel /\ want[2] = wanted.Major /\ want[3] = wanted.Minor
        /\ wanted.Kernel \in Int /\ wanted.Major \in Int /\ wanted.Minor \in Int
    BY DEF ReleaseInv, VersionInfo
  <2>4. CompareKernelVersion(version, wanted) < 0 <=>
          \/ a < wanted.Kernel
          \/ a = wanted.Kernel /\ b < wanted.Major
          \/ a = wanted.Kernel /\ b = wanted.Major /\ c < wanted.Minor
    BY <2>1, <2>3 DEF CompareKernelVersion, Sign, Info
  <2>5. check = "no" <=> CompareKernelVersion(version, wanted) < 0
    BY DEF ReleaseInv
  <2> HIDE DEF place, want
  <2>6. (\E n \in 1..3 : place[n] < want[n] /\ \A m \in 1..(n - 1) : place[m] = want[m]) <=>
          \/ place[1] < want[1]
          \/ place[1] = want[1] /\ place[2] < want[2]
          \/ place[1] = want[1] /\ place[2] = want[2] /\ place[3] < want[3]
    OBVIOUS
  <2>7. check = "no" <=>
          \E n \in 1..3 : place[n] < want[n] /\ \A m \in 1..(n - 1) : place[m] = want[m]
    BY <2>2, <2>3, <2>4, <2>5, <2>6
  <2> QED
    BY <2>7 DEF CheckExact, place, want
<1> QED
  BY <1>1, ReleaseAlways, PTL

-----------------------------------------------------------------------------
(* OperatingSystem.                                                        *)

\* The lines before line n that have key kk.
Hits(kk, n) == {m \in 1..(n - 1) : Opened.lines[m].key = kk}

\* What the loop has found for kk when it is at line n.
FoundValue(v, kk, n) ==
  \/ \E m \in Hits(kk, n) : /\ \A m2 \in Hits(kk, n) : m2 <= m
                            /\ v = Trim[Opened.lines[m].text]
  \/ Hits(kk, n) = {} /\ v = ""

\* A file that can be opened, as the scanner sees it.
FileTypes == /\ Opened \in File
             /\ Opened.cut <= Len(Opened.lines) + 1

\* While a call scans, the file is open and the value is that of the last line
\* passed that has the key.
ScanInv ==
  /\ FileTypes
  /\ key \in {NoKey, "PRETTY_NAME", "VERSION_ID"}
  /\ key # NoKey => /\ Opened.state = "there"
                    /\ at \in Nat \ {0} /\ at <= Opened.cut
                    /\ FoundValue(value, key, at)
  /\ OsReleaseExact

\* Trimming gives nothing just for a text of nothing, or of quotes only.
LEMMA TrimEmpty ==
  \A t \in DOMAIN Trim : Trim[t] = "" <=> t \in {"", "\"\""}
  BY DEF Trim

\* What the scan has found at the end of the delivered lines is what the
\* property asks for.
LEMMA ScanAnswers ==
  ASSUME FileTypes, Opened.state = "there",
         NEW kk, NEW v, NEW default, FoundValue(v, kk, Opened.cut)
  PROVE  AnswerIs(Result(IF v = "" THEN default ELSE v, FALSE), kk, default)
<1> DEFINE H == Hits(kk, Opened.cut)
           ans == Result(IF v = "" THEN default ELSE v, FALSE)
<1>1. \A m \in H : Opened.lines[m].text \in DOMAIN Trim
  <2>1. Opened.lines \in Seq(Line) /\ Opened.cut \in Nat /\ Opened.cut <= Len(Opened.lines) + 1
    BY DEF FileTypes, File
  <2>2. \A m \in H : m \in 1..Len(Opened.lines)
    BY <2>1 DEF Hits
  <2>3. \A m \in H : Opened.lines[m] \in Line
    BY <2>1, <2>2
  <2> QED
    BY <2>3 DEF Line
<1>2. ans.err = FALSE /\ ans.value = IF v = "" THEN default ELSE v
  BY DEF Result
<1>3. CASE H = {}
  BY <1>2, <1>3 DEF AnswerIs, FoundValue, Hits, Opened
<1>4. CASE \E m \in H : (\A m2 \in H : m2 <= m) /\ v = Trim[Opened.lines[m].text]
  <2>1. PICK m \in H : (\A m2 \in H : m2 <= m) /\ v = Trim[Opened.lines[m].text]
    BY <1>4
  <2>2. ans.value = IF Opened.lines[m].text \in {"", "\"\""} THEN default
                    ELSE Trim[Opened.lines[m].text]
    BY <1>1, <1>2, <2>1, TrimEmpty
  <2> QED
    BY <1>2, <2>1, <2>2 DEF AnswerIs, Hits, Opened
<1> QED
  BY <1>3, <1>4 DEF FoundValue

\* One turn of the loop keeps the value that of the last line with the key.
LEMMA ScanOne ==
  ASSUME FileTypes, NEW n \in Nat \ {0}, n < Opened.cut, NEW kk, NEW v,
         FoundValue(v, kk, n)
  PROVE  FoundValue(IF Opened.lines[n].key = kk THEN Trim[Opened.lines[n].text] ELSE v,
                    kk, n + 1)
<1>1. CASE Opened.lines[n].key = kk
  <2>1. n \in Hits(kk, n + 1) /\ \A m \in Hits(kk, n + 1) : m <= n
    BY <1>1 DEF Hits
  <2> QED
    BY <1>1, <2>1 DEF FoundValue
<1>2. CASE Opened.lines[n].key # kk
  <2>1. Hits(kk, n + 1) = Hits(kk, n)
    BY <1>2 DEF Hits
  <2> QED
    BY <1>2, <2>1 DEF FoundValue
<1> QED
  BY <1>1, <1>2

\* Before the first call nothing has been asked or found.
LEMMA ScanStart == OsReleaseInit => ScanInv
  BY FilesAssumption DEF OsReleaseInit, ScanInv, FileTypes, Opened, OsReleaseExact, NoKey

\* A call that returns an error did not open a file.
LEMMA OpenFailsAnswers ==
  ASSUME Opened.state # "there", NEW kk, NEW default
  PROVE  AnswerIs(Result("", TRUE), kk, default)
  BY DEF AnswerIs, Opened, Result

\* Every step keeps the scan right.
LEMMA ScanStep == ScanInv /\ [OsReleaseNext]_osReleaseVars => ScanInv'
<1> SUFFICES ASSUME ScanInv, [OsReleaseNext]_osReleaseVars
             PROVE  ScanInv'
  OBVIOUS
<1>f. etc' = etc /\ alt' = alt
  BY DEF OsReleaseNext, OpenFails, OpenSucceeds, ScanLine, ScanEnds, OsReleaseDone,
         osReleaseVars, files
<1>o. Opened' = Opened /\ FileTypes'
  BY <1>f DEF Opened, ScanInv, FileTypes
<1>s. /\ AnswerIs(osName', "PRETTY_NAME", "Linux") => AnswerIs(osName, "PRETTY_NAME", "Linux")'
      /\ AnswerIs(osVersion', "VERSION_ID", "") => AnswerIs(osVersion, "VERSION_ID", "")'
  BY <1>f DEF AnswerIs
<1>1. ASSUME NEW kk \in {"PRETTY_NAME", "VERSION_ID"}, OpenFails(kk)
      PROVE  ScanInv'
  <2>1. AnswerIs(Result("", TRUE), "PRETTY_NAME", "Linux")
        /\ AnswerIs(Result("", TRUE), "VERSION_ID", "")
    BY <1>1, OpenFailsAnswers DEF OpenFails
  <2>2. key' = key /\ key = NoKey
    BY <1>1 DEF OpenFails, Asks
  <2>3. OsReleaseExact'
    BY <1>1, <1>f, <2>1 DEF OpenFails, Returns, Result, ScanInv, OsReleaseExact, AnswerIs
  <2> QED
    BY <1>o, <2>2, <2>3 DEF ScanInv
<1>2. ASSUME NEW kk \in {"PRETTY_NAME", "VERSION_ID"}, OpenSucceeds(kk)
      PROVE  ScanInv'
  <2>1. key' = kk /\ at' = 1 /\ value' = "" /\ Opened'.state = "there"
    BY <1>2, <1>o DEF OpenSucceeds
  <2>h. Hits(kk, 1) = {}
    BY DEF Hits
  <2>2. FoundValue(value, key, at)'
    BY <1>o, <2>1, <2>h DEF FoundValue, Hits
  <2>3. OsReleaseExact'
    BY <1>2, <1>f DEF OpenSucceeds, ScanInv, OsReleaseExact, AnswerIs
  <2>4. Opened.cut \in Nat /\ Opened.cut # 0
    BY DEF ScanInv, FileTypes, File
  <2>a. at' = 1
    BY <2>1
  <2>b. 1 <= Opened.cut
    BY <2>4
  <2>5. at' \in Nat \ {0} /\ at' <= Opened'.cut
    BY <1>o, <2>a, <2>b
  <2>6. key' \in {NoKey, "PRETTY_NAME", "VERSION_ID"}
    BY <2>1
  <2> QED
    BY <1>o, <2>1, <2>2, <2>3, <2>5, <2>6 DEF ScanInv
<1>3. CASE ScanLine
  <2>1. FoundValue(IF Opened.lines[at].key = key THEN Trim[Opened.lines[at].text] ELSE value,
                   key, at + 1)
    BY <1>3, ScanOne DEF ScanLine, ScanInv
  <2>2. FoundValue(value, key, at)'
    BY <1>3, <1>o, <2>1 DEF ScanLine, FoundValue, Hits
  <2>3. OsReleaseExact'
    BY <1>3, <1>f DEF ScanLine, ScanInv, OsReleaseExact, AnswerIs
  <2>4. at' \in Nat \ {0} /\ at' <= Opened.cut /\ key' = key /\ key # NoKey
    BY <1>3 DEF ScanLine, ScanInv, FileTypes, File
  <2> QED
    BY <1>o, <2>2, <2>3, <2>4 DEF ScanInv
<1>4. CASE ScanEnds
  <2>0. key # NoKey /\ at >= Opened.cut /\ at <= Opened.cut /\ at \in Nat
    BY <1>4 DEF ScanEnds, ScanInv
  <2>c. Opened.cut \in Nat
    BY DEF ScanInv, FileTypes, File
  <2>1. at = Opened.cut /\ key # NoKey
    BY <2>0, <2>c
  <2>2. FoundValue(value, key, Opened.cut) /\ Opened.state = "there"
    BY <2>1 DEF ScanInv
  <2>3. \A d : AnswerIs(Result(IF value = "" THEN d ELSE value, FALSE), key, d)
    BY <2>2, ScanAnswers DEF ScanInv
  <2>4. AnswerIs(Result(value, FALSE), key, "")
    BY <2>3
  <2>5. OsReleaseExact'
    <3>1. CASE key = "PRETTY_NAME"
      <4>1. /\ osName' = Result(IF value = "" THEN "Linux" ELSE value, FALSE)
            /\ osVersion' = osVersion
        BY <1>4, <3>1 DEF ScanEnds, Returns
      <4>2. AnswerIs(osName', "PRETTY_NAME", "Linux")
        BY <2>3, <3>1, <4>1
      <4>3. osVersion # NotAsked => AnswerIs(osVersion, "VERSION_ID", "")
        BY DEF ScanInv, OsReleaseExact
      <4> QED
        BY <1>s, <4>1, <4>2, <4>3 DEF OsReleaseExact
    <3>2. CASE key = "VERSION_ID"
      <4>1. osVersion' = Result(value, FALSE) /\ osName' = osName
        BY <1>4, <3>2 DEF ScanEnds, Returns
      <4>2. AnswerIs(osVersion', "VERSION_ID", "")
        BY <2>4, <3>2, <4>1
      <4>3. osName # NotAsked => AnswerIs(osName, "PRETTY_NAME", "Linux")
        BY DEF ScanInv, OsReleaseExact
      <4> QED
        BY <1>s, <4>1, <4>2, <4>3 DEF OsReleaseExact
    <3> QED
      BY <2>1, <3>1, <3>2 DEF ScanInv
  <2> QED
    BY <1>4, <1>o, <2>5 DEF ScanEnds, ScanInv
<1>5. CASE UNCHANGED osReleaseVars
  BY <1>5, <1>f, <1>o DEF osReleaseVars, ScanInv, OsReleaseExact, AnswerIs, FoundValue, Hits
<1> QED
  BY <1>1, <1>2, <1>3, <1>4, <1>5 DEF OsReleaseNext, OsReleaseDone

\* The name and the version are those of the last line of the right file that
\* gives them, for any files (getValueFromOsRelease).
THEOREM OsReleaseCorrect == OsReleaseSpec => []OsReleaseExact
<1>1. ScanInv => OsReleaseExact
  BY DEF ScanInv
<1> QED
  BY <1>1, ScanStart, ScanStep, PTL DEF OsReleaseSpec

=============================================================================
