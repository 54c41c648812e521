--------------------------- MODULE OperatingSystem ---------------------------
(***************************************************************************)
(* The name and version of the operating system on Linux (pkg/os), from    *)
(* the file os-release.                                                    *)
(*                                                                         *)
(* A line of os-release is its key and its text.  The bufio.Scanner stops  *)
(* before line cut: at the end of the file, or where a read fails or a     *)
(* line is too long for its buffer; its Err is never asked for.            *)
(***************************************************************************)
EXTENDS Naturals, Sequences

CONSTANTS EtcFiles, AltFiles   \* what /etc/os-release and /usr/lib/os-release may be

\* strings.Trim with quotes and blanks.
Trim == [t \in {"", "\"\"", "a", "\"a\"", " 'b'"} |->
           IF t \in {"", "\"\""} THEN "" ELSE IF t = " 'b'" THEN "b" ELSE "a"]

Line == [key : {"PRETTY_NAME", "VERSION_ID", "OTHER"}, text : DOMAIN Trim]

\* A file: it may not exist or not be readable.
File == [state : {"there", "missing", "denied"}, lines : Seq(Line), cut : Nat \ {0}]
NoFile(state) == [state |-> state, lines |-> << >>, cut |-> 1]

ASSUME FilesAssumption ==
  \A f \in EtcFiles \cup AltFiles : f \in File /\ f.cut <= Len(f.lines) + 1

VARIABLES etc, alt,     \* the two files
          key,          \* the argument of the call in progress, or NoKey
          at, value,    \* local: the scanner's next line, the value so far
          osName, osVersion   \* what the two functions returned

files == <<etc, alt>>
osReleaseVars == <<files, key, at, value, osName, osVersion>>

NoKey == "none"
Result(v, err) == [value |-> v, err |-> err]
NotAsked == Result("not asked", FALSE)

OsReleaseInit ==
  /\ etc \in EtcFiles /\ alt \in AltFiles
  /\ key = NoKey /\ at = 1 /\ value = ""
  /\ osName = NotAsked /\ osVersion = NotAsked

\* Mutant: any failure to open the first file leads to the second.
OpenedAnyway == IF etc.state = "there" THEN etc ELSE alt

\* The file that is opened: the second if the first does not exist.
Opened == IF etc.state = "missing" THEN alt ELSE etc

\* GetOperatingSystem puts "Linux" in place of an empty name;
\* GetOperatingSystemVersion returns what getValueFromOsRelease does.
Returns(k, v, err) ==
  IF k = "PRETTY_NAME"
  THEN /\ osName' = Result(IF ~err /\ v = "" THEN "Linux" ELSE v, err)
       /\ UNCHANGED osVersion
  ELSE osVersion' = Result(v, err) /\ UNCHANGED osName

\* GetOperatingSystem or GetOperatingSystemVersion is called.
Asks(k) ==
  /\ key = NoKey
  /\ \/ k = "PRETTY_NAME" /\ osName = NotAsked
     \/ k = "VERSION_ID" /\ osVersion = NotAsked

OpenFails(k) ==
  /\ Asks(k)
  /\ Opened.state # "there"
  /\ Returns(k, "", TRUE)
  /\ UNCHANGED <<files, key, at, value>>

OpenSucceeds(k) ==
  /\ Asks(k)
  /\ Opened.state = "there"
  /\ key' = k /\ at' = 1 /\ value' = ""
  /\ UNCHANGED <<files, osName, osVersion>>

\* One turn of the loop over the lines.
ScanLine ==
  /\ key # NoKey /\ at < Opened.cut
  /\ value' = LET line == Opened.lines[at] IN
              IF line.key = key THEN Trim[line.text] ELSE value
  /\ at' = at + 1
  /\ UNCHANGED <<files, key, osName, osVersion>>

ScanEnds ==
  /\ key # NoKey /\ at >= Opened.cut
  /\ Returns(key, value, FALSE)
  /\ key' = NoKey /\ at' = 1 /\ value' = ""
  /\ UNCHANGED files

OsReleaseDone == /\ key = NoKey /\ NotAsked \notin {osName, osVersion}
                 /\ UNCHANGED osReleaseVars

OsReleaseNext == \/ \E k \in {"PRETTY_NAME", "VERSION_ID"} : OpenFails(k) \/ OpenSucceeds(k)
                 \/ ScanLine \/ ScanEnds \/ OsReleaseDone
OsReleaseSpec == OsReleaseInit /\ [][OsReleaseNext]_osReleaseVars

-----------------------------------------------------------------------------
\* An answer for a key: of the lines the scanner delivers the last one with the
\* key counts; the second file is read just when the first does not exist; a
\* file that cannot be opened is an error, and the only one.
AnswerIs(ans, k, default) ==
  LET f == IF etc.state = "missing" THEN alt ELSE etc
      hits == {m \in 1..(f.cut - 1) : f.lines[m].key = k}
  IN  /\ ans.err <=> f.state # "there"
      /\ ~ans.err =>
           \/ \E m \in hits : /\ \A m2 \in hits : m2 <= m
                              /\ ans.value = IF f.lines[m].text \in {"", "\"\""} THEN default
                                                ELSE Trim[f.lines[m].text]
           \/ hits = {} /\ ans.value = default

\* The name and the version are those of the last line of the right file that
\* gives them; "If not set, defaults to PRETTY_NAME="Linux"".
OsReleaseExact ==
  /\ osName # NotAsked => AnswerIs(osName, "PRETTY_NAME", "Linux")
  /\ osVersion # NotAsked => AnswerIs(osVersion, "VERSION_ID", "")
=============================================================================
