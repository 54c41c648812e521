# A verification of conniver

`conniver` wraps a `net.Conn`, counts what passes through it and records the
kernel's TCP information when the connection is opened and when it is closed.
These TLA+ modules model the parts of it that have state or control worth
checking. TLC explores small instances; TLAPS proves the most important
properties for every value of the constants.

## The system

| Part | State | Operations | Who runs them |
|---|---|---|---|
| `wrap.go`: `Conn` | byte counters, first/last transfer times, open/close times, errors, reconnects, `OpenedInfo`, `ClosedInfo`, a mutex | `WrapConn`, `Read`, `Write`, `SetReconnects`, `Warnings`, `ToMap`, `Close`, `gatherAndReport` | any goroutines of the caller, concurrently |
| `pkg/tcpinfo`, Linux | thirteen version flags and the size of `tcp_info`, both package variables | `adaptToKernelVersion` (at `init`, again in tests), `GetTCPInfo`, `Warnings`, `ToMap` | `gatherAndReport` |
| `pkg/tcpinfo`, Windows | none of its own | `GetTCPInfo`: `SIO_TCP_INFO` v1, then v0; `Unpack`; `Warnings` | `gatherAndReport` |
| `pkg/tcpinfo`, Darwin and others | none | one `getsockopt`; or `Supported() == false` | `gatherAndReport` |
| `pkg/kernel` | none | `ParseRelease`, `String`, `CompareKernelVersion`, `GetKernelVersion`, `CheckKernelVersion` | the Linux adaptation |
| `cmd/httpstat` | `connConn` (under its own mutex), `redirectsFollowed`, the eight times of a visit | `main`, `visit`, the trace hooks, the dialler, `readResponseBody`, `headers.Less` | the main goroutine and goroutines of net/http |
| `cmd/get`, `examples/tcpdial` | none | one request, one dial | – |
| `pkg/os`, `pkg/osversion` | a `sync.Once` | names and versions of operating systems | nothing else in the repository |

`httpstat` and `get` dial, wrap the connection and read it in the close callback;
`Conn` asks `tcpinfo` for the kernel's information; `tcpinfo` on Linux asks
`kernel` for the version and adapts to it.

What is hard here: `gatherAndReport` reads `ClosedInfo` and `InfoErr` without the
lock, runs the kernel query without it, stores with it and calls back without it
(deferred calls run last in, first out); the size and the flags of the Linux
structure come from one table, the fields' ages from another place; `httpstat`
reads a global that a goroutine of the transport sets. The `hazards` of
`PROJECT.json` list these places by line with the properties that watch them.

## Modules

| Module | Models |
|---|---|
| `ConnTypes` | directions, states, errors, the shape of `ToMap`'s result |
| `ConnWrap` | `wrap.go`, one action per step between synchronisation points |
| `ConnStats` | the abstract object: what `Read`, `Write`, `ToMap` promise, each acting at one instant |
| `ConnRefinement` | the refinement mapping from `ConnWrap` to `ConnStats` |
| `ConnInvariants`, `ConnProofs`, `ConnReportProofs`, `ConnRefinementProofs` | inductive invariants and proofs |
| `MCConnWrap` | instances for TLC |
| `ConnLinux`, `ConnLinuxProofs`, `MCConnLinux` | the composition of `ConnWrap` with the Linux query, proofs, two kernels for TLC |
| `ConnEvents` | what the composition promises of the two infos: each event reads the kernel once, and records that reading or an error |
| `KernelVersion` | `VersionInfo`, `CompareKernelVersion` |
| `KernelRelease` | `ParseRelease`, `String`, `GetKernelVersion`, `CheckKernelVersion` |
| `LinuxTCPInfo` | `init_linux.go` and the query of `tcpinfo_linux.go` |
| `LinuxTCPInfoProofs`, `MCLinuxTCPInfo` | proofs; the kernel versions for TLC |
| `TCPInfoQuery` | what the queries of the other systems share: Opened, then Closed; `tcpinfo_other.go` |
| `WindowsTCPInfo`, `DarwinTCPInfo` | `tcpinfo_windows.go`, `tcpinfo_darwin.go` |
| `PortableTCPInfo`, `PortableProofs` | the three systems with the traffic and the warnings; proofs |
| `Httpstat` | `main` and `visit` of `cmd/httpstat` |
| `HeaderSort` | `headers.Less` and `Swap` under `sort.Sort` |
| `HttpstatProofs` | proofs about `Httpstat` and `HeaderSort` |
| `OSVersion` | `osversion.Get` and `CheckHostAndContainerCompat` |
| `OperatingSystem` | the os-release scan of `pkg/os` |
| `AlgorithmProofs` | proofs about `KernelRelease`, `OSVersion` and `OperatingSystem` |
| `MCAlgorithms` | the four algorithms (sorting, release, compatibility, os-release) on small inputs, one per behaviour |

Operators whose comment starts with "Mutant" are wrong variants of the definition
that follows them. They are used by no specification; substituting one for the
definition shows that the property it is paired with in `PROJECT.json` can fail.

### ConnWrap

Fields keep their names; the pairs `FirstRxAt`/`FirstTxAt`, `LastRxAt`/`LastTxAt`,
`RxBytes`/`TxBytes`, `RxErr`/`TxErr`, `OpenedInfo`/`ClosedInfo` are functions of the
direction or the state. A goroutine's position is `pc[p]`.

* `Read`, `Write`: the wrapped call returns a result (`IOReturns`), the lock is
  taken and the counter loaded (`IOLock`), the results are stored and the lock
  released (`ReadUnlock`, `WriteUnlock`). A result is a number of bytes with no
  error, a timeout, a network error, or an error that is not a `net.Error`.
  `Read` keeps the last lasting network error, `Write` the last error of all; `ConnStats`
  states the same rule for an operation at one instant.
* `gatherAndReport`: `GatherCheck` (early returns, unlocked), `GatherEligible`
  (support, `InfoErr`, the type of the connection), `GatherQuery` (the kernel's
  answer; a query of a closed socket fails), `GatherStore` (with the lock),
  `Callback`. A callback is user code that takes the lock once, as `Warnings` and
  `ToMap` do; it does not call `Close`.
* `Close`: `CloseStamp`, then `gatherAndReport(Closed)`, then `CloseSock`.
* `ToMap`: the literal is built under the lock, the optional entries are added
  and the lock is released, the map is returned.

Environment: whether there is a callback, whether the platform is supported and
whether the connection is a `*net.TCPConn` are chosen in `Init`. A failure of
`SyscallConn` has the effect of a connection that is not TCP. An unlocked read of
one word returns the old or the new value; the separate steps cover both. The
clock never goes back, which the wall clock behind `UnixNano` does not promise.

### LinuxTCPInfo

`adaptToKernelVersion` is `GetKernelVersion` (which may fail at every call: the
fallback is 2.6.2) and one action per turn of the loop: `AdaptFound`, `AdaptNewer`,
`AdaptNone`. `Override` is what unit tests do: assign the package variable and adapt
again. The assignment has no effect, because line 64 declares a variable of the
same name. `GetTCPInfo` is `Start`, `GetRawTCPInfo`, `GetTCPCongestionAlgorithm`,
`GetCCInfo`; `Consume` is the caller taking the result. The kernel, which is
external, writes the prefix of its own structure that fits in the buffer; the
version each field appeared in is the one given in the comments of `RawTCPInfo`.
A field is Valid or not, written or not; a counter is zero or not.

### ConnLinux

`ConnWrap`'s `GatherQuery` is any answer. `ConnLinux` makes it the answer of
`LinuxTCPInfo`: inside `Control` the socket calls of `GetTCPInfo` run one at a time
(`Control`), other goroutines and the kernel (`KernelCounts`) go on between them,
and when the call is back (`ControlReturns`) `StoreInfo` records the info or the
error. An error of the third call thus loses the info of the first. The flags and
the size are those the adaptation ends with; `LinuxTCPInfo` and its proofs say which
these are. One goroutine closes, so there is one query at a time. `before` is a
history variable: the counters when `WrapConn` or `Close` was called.

`ConnEvents` is what this adds up to, without calls, goroutines or locks. An event (from
the call of `gatherAndReport` to its unlock) reads the counters at one instant, at most
once, and ends with that reading recorded whole, with an error, or with nothing. The
mapping takes the reading from the buffer of the first socket call and then from the
result that `GetTCPInfo` returns, so an info kept in spite of `tcpErr`, one read twice,
or one stored for the other event has no counterpart there.

### WindowsTCPInfo, DarwinTCPInfo, PortableTCPInfo

On Windows the two calls (v1, then v0) are two steps, and the connection works
between them. On Darwin there is one call; the option loop gives each direction its
list. Durations are numbers of nanoseconds, so a wrong unit shows. Of the fields
copied unchanged only the counters that `Warnings` reads are kept, and one duration
per conversion.

### KernelRelease, OSVersion, OperatingSystem

A release string is the sequence of its runs (a number, a dot, other text), which is
what `Sscanf` tells apart. `Get` is split inside the function of `once.Do`, between
the fields and the packed `Version`, and called by several goroutines;
`sync.Once` itself is external: others wait until the first has returned. The loop of
the compatibility check is one action per turn. So is the scan of os-release: a call
asks for its key, opens a file (`OpenFails`, `OpenSucceeds`; the second path is tried only
when the first does not exist) and takes the lines one by one (`ScanLine`, `ScanEnds`). A
file is a sequence of lines and the place `cut` at which the scanner stops, which is
anywhere, since a read may fail there; which files there can be is a constant.

### Httpstat

One action per trace hook, then one per stage of `visit`; the connection of a visit
is named by the visit. `main` goes on to the first visit, ends with an error, or
exits at once (`-v`). External facts: net/http calls the hooks in the order of the
phases; with `DisableKeepAlives` the connection is closed by a goroutine of the
transport after the body is closed, so `CloseIdleConnections` finds nothing to close.
That close is three steps, as in `Conn.Close`: the info is recorded (`GatherClosed`),
the callback publishes the connection (`setConniver`), the socket is closed
(`TransportClose`); the main goroutine may report between any two of them. Also external: for a host with addresses of both families `net.Dialer`
races two attempts, `DualStack: false` notwithstanding, and `ConnectDone` is called
for both, at any time. Times are counted in events: only their order is modelled.
A proxy is not modelled.

### HeaderSort

The names of a map in any order, sorted by the insertion sort that `sort.Sort` uses
for up to twelve elements. The order of strings is a constant.

## Runs

| Run | Instance | Shows |
|---|---|---|
| `conn_shared` | two goroutines, both may close, two calls each, transfers of 0 or 1 byte, clock 1..2, reconnects 0..1 | counters, times, maps and infos are coherent in every interleaving (`BytesExact`, `StampsCoherent`, `SnapshotCoherent`, `ClosedInfoNeedsOpenedInfo`, `ClosedReportHasInfo`), no close goes unreported (`CloseReported`), fields never go back and the opened info stays (`FieldsNeverRegress`), and the wrapper implements `ConnStats` (`ImplementsStats`) |
| `conn_linux` | one closer with two calls and another goroutine with one, a kernel with and one without `TCP_INFO`, recognised or not, `cubic` and `bbr`, one moving counter | each info is one whole reading of its own event and never of a failed query (`ImplementsEvents`); report before close, once, infos written once; the two infos can be compared (`InfosComparable`) and warn of their own event (`WarningsOfEvent`) |
| `conn_live` | two closers, one call each, with fairness | every call returns (`CallsReturn`); a Close closes the connection (`CloseCloses`); what both rest on: some call can always go on (`NeverAllWaiting`), and every step brings a call nearer to its return (`CallsAdvance`) |
| `conn_close_race` | two closers | *violated*: `ReportBeforeClose` |
| `linux_query` | 24 kernel versions at and around every row, two adaptations, one override | flags exact, base fields filled, no supported field or warning missed, no incomplete result without an error, Valid means written on the kernels of `WellCovered` |
| `linux_valid` | the same | *violated*: `ValidIsWritten` (4.9.x; 6.2 to 6.6) |
| `linux_cc_info` | the same | *violated*: `AlgorithmInfoObtainable` |
| `portable_query` | Windows with v1, v0 or neither, Darwin with any options, other systems; values 0..1 | results exact with their options, counters grow from Opened to Closed |
| `windows_connected` | values 0..1 | *violated*: `ConnectedTimeExact` |
| `httpstat_visits` | limit of two redirects | timeline ordered, output file created once, redirects bounded, one connection in use at a time and none left (`NoConnectionLeft`), a connection published only once its info is recorded, so that only final statistics are shown (`ShownIsFinal`), no late failure of an attempt with one address family |
| `httpstat_report` | the same | *violated*: `ReportIsOwn` |
| `algorithms` | five header names around `Server`; all release strings of up to six runs; two callers, builds before, at, between and after the LTSC builds; os-release files of up to three lines | every order is sorted as the comments of `Less` say (`Sorted`); nothing of a release is lost and it compares as written (`ReleaseKept`, `CheckExact`); `Get` is complete for every caller and the check decides as its comments say (`GetComplete`, `CompatExact`); the last entry of the right file counts (`OsReleaseExact`) |

The violated properties are sentences of the repository's comments or READMEs; the
`findings` quote them and say what the code does instead.

Bounds. Two goroutines and two calls each are the least in which one finishes a call
while another is between its check and its use, and then makes another call; clock
and chunk only need "equal" and "later", "none" and "some". The kernel versions
include each row's version, one below it but not below the row before, and one older
and one newer than all rows, so every flag pattern occurs; two adaptations are the least that can leave a stale flag. Values 0..1 tell
a counter from no counter, and a unit from another since the units differ. A limit of
two redirects has a first, a middle and a last visit; the proof covers the code's 10.
`conn_linux` needs one closing goroutine and one that runs beside it; one counter
tells counted from not counted before, during and after a query, and the proof covers
all counters, kernels and algorithms. Two callers of `Get` are the least that can
overlap; six runs are a release with all its parts and one more.
`portable_query` and `windows_connected` do not check deadlock: after the Closed
result, with all values at their bound, nothing is left to do. The other runs do.

Fairness, in `conn_live` only: weak fairness of the steps of a goroutine that can go
on (the Go scheduler is preemptive), strong fairness of taking the lock (a starving
`sync.Mutex` waiter is handed the lock). Nothing makes a goroutine start a call, and
nothing makes a blocked wrapped `Read` return. The callback is assumed to return.

## Proofs

From the assumptions on the constants only (`ProcsAssumption`, `BoundsAssumption`
and so on: any set of goroutines, any bounds, any kernel versions, any limit).

* `ConnProofs`. `BytesExact` is not inductive: a goroutine in the critical section
  has loaded the counter. `CountInv` adds that the loaded value is current, which
  needs `LockInv` (the mutex is held exactly by a goroutine in a critical section).
  `StampInv` and `MapInv` are strengthened the same way.
  Two theorems are the safety half of the liveness properties: `NoDeadlock` (from
  `LockInv`: the holder of the mutex is in a critical section, where it waits for
  nothing) and `AdvanceCorrect` (`StepsLeft` counts the steps a call has left, and each
  step of a goroutine lowers its own count and no other's). What stays with TLC is that
  fairness then makes every call return.
* `ConnReportProofs`. `WrapInv` says that until `WrapConn` returns only the opener
  runs; `OpenedInv` that after the open-time query a connection that can be queried
  has an `OpenedInfo` or an `InfoErr`; `ClosedInv` that whoever finished a gathering,
  or met a closed socket, did so after `ClosedInfo` was recorded. `OwedInv` says that
  once `ClosedInfo` is recorded or a goroutine is past its gathering, a close callback
  has been made or some closer is about to make it; it gives `CloseReported`, which is
  what remains of `ReportBeforeClose` for any number of closers. The lemma `OpenedKept`,
  used for `FieldsNeverRegress`, is what remains of `InfoWriteOnce`. The proofs of these invariants share `GatherOrOther`: a
  step is one of `gatherAndReport`, `Close` or `WrapConn`, or touches nothing they speak
  of. `OneCloserInv`,
  under the assumption `OneCloser`, gives `ReportBeforeClose`, `ReportedOnce` and
  `InfoWriteOnce`; without the assumption they are false.
* `ConnRefinementProofs`. `Refinement`: an operation takes effect when it gets the
  lock (a transfer) or releases it (a map); every other step is a stutter.
* `LinuxTCPInfoProofs`. The table is sorted by version; `AdaptInv` says that the rows
  passed by the loop are newer than the kernel and unset, so at the end the flags are
  exact and the size is that of the newest row not newer than the kernel. `QueryInv`
  follows what the buffer holds through the three calls. The results: `FlagsExact`,
  `BaseFieldsFilled`, `SupportedIsValid`, `WarningsExact`, `NoErrorMeansComplete`.
  `DetectInv` (the kernel is recognised or taken for 2.6.2) with the place of every
  field gives `ValidIsWrittenMostly`; `TypeOK` follows as well.
* `ConnLinuxProofs`. The lemma `LinuxIsConn` maps every step of the composition to a step of
  `ConnWrap` or a stutter, so that the theorems about `ConnWrap` hold of it
  (`LinuxReports`, `LinuxStatistics` and `LinuxCloses` state them: the reports, the
  refinement of `ConnStats` with the coherence of maps, and the infos). For the infos themselves: `CountersInv` (a cumulative
  counter never leaves the set), `QueryInv` (what the running query has read contains
  what was counted before its event, and at close what was read at open) and
  `RecordInv` (the same of what was recorded) give `ComparableCorrect` and
  `EventCorrect`. `LinuxRefinesEvents` proves `ImplementsEvents`: `EventInv` says that
  a query is made only while no error is recorded and that a result without an error is
  not nil; with one closer, one goroutine at a time is in an event (`OneEvent`), and
  each step maps to one of `ConnEvents` or a stutter.
* `PortableProofs`. `AskedInv` (the values at the last answer are past values) and
  `ResultInv` (the last result is unpacked from them, an earlier one lies below)
  give `ResultExact` and `CountersGrow` for any bound on the values.
* `HttpstatProofs`. `BoundInv`, `FileInv` (before the body is read nothing was
  written), `TimeInv` (hook by hook, which times are set and after which; only a
  race leaves an attempt that can still set t2) and `LoneInv` (with `-4` or `-6` there
  is one attempt at a time, and it ends in the dialling phase). `UseInv` (a visit has its
  connection open from the handshake to the end of the body, and earlier visits have
  theirs at some step of the close; `connConn` and what was shown are past the callback)
  gives `NoConnectionLeft` and `ShownIsFinal`.
  `SortInv` for `HeaderSort`: the names before the outer index are in order but for
  the one being carried down, which is less than all it has passed. `Less` is true of
  `Server` and itself, which is harmless because names of a map are distinct.
  `SortKeepsNames` (no turn loses a name) follows from the two assignments of `Swap`.
* `AlgorithmProofs`. `GetInv` (while the function of `once.Do` runs, one goroutine runs it
  and none has read) and `CheckInv` (the entries the loop has passed are not earlier
  than the host) for `OSVersion`, with the list of LTSC builds any ascending one that
  starts with LTSC2022; `ReleaseInv` for `KernelRelease`, for every set of strings;
  `ScanInv` for `OperatingSystem`: the value in hand is that of the last line with the
  key among those the scan has passed, for any files.

Only model-checked: the liveness properties (`CallsReturn`, `CloseCloses`), and the
violated properties, among them `AlgorithmInfoObtainable` (it uses `ENABLED`). Every other
property of a passing run is a theorem. The other way round, the type invariants of
`ConnWrap` and `Httpstat` and `NamesKept` of `HeaderSort` are proved and in no run.

## Seen while modelling, without a run

* `README.md:127` says the closed callback fires right before the connection is
  closed. A second `Close` makes it again, on a closed connection, whenever no
  `ClosedInfo` was recorded (`wrap.go:84`).
* `wrap.go:77` says infos are gathered "once"; two concurrent `Close` calls can both
  pass the check, and the second replaces the first's `ClosedInfo`.
* `README.md:87` calls `TxErr` "the last send error"; a successful `Write` clears it
  (`wrap.go:192`), as a successful `Read` does not clear `RxErr`.
* `init_linux.go:79` speaks of overriding `linuxKernelVersion` in unit tests; line 64
  shadows it, so the override at `tcpinfo_linux_test.go:196` changes nothing.
* `httpstat` exits when any connection attempt fails, the cancelled loser of a race
  of two included (`main.go:260`); with `-4` or `-6` no
  attempt is left over (`NoLateFailure`).
* `tcpinfo.go:27` marks `TxWindowSegs` "[Linux and NetBSD]"; Darwin and Windows fill it,
  with a window in bytes.
* On Linux the `WindowScale` option carries `snd_wnd` and `rcv_wnd`
  (`tcpinfo_linux.go:546`), windows; on Darwin it carries the scales.
* `kernel.go:17` gives `generic` as the flavor of `4.1.2-generic`; the parser keeps the
  dash.
* The field comments of `kernel_windows.go` name the parts of a version one place away
  from what `GetKernelVersion` stores.
* `operatingsystem_unix.go` says `IsContainerized` "always returns false"; it returns an
  error too.
* The os-release scan does not ask for `scanner.Err()`: a read error or an overlong line
  hides the lines after it (`operatingsystem_linux.go:57`).
* `readClientCert` of `httpstat` keeps the last certificate of the file, so a chain loses
  its leaf (`main.go:170`).

## Not modelled

* The 32-bit x86 `GetRawTCPInfo`: the same outcomes as the modelled one.
* Conversions without control: `ToMap`, `String` and JSON of `tcpinfo.Info` and of the
  `SysInfo`s of Windows and Darwin, the names of TCP states, flags and options, and the
  `Option` list of Linux. They copy or format; a table is right or wrong by inspection.
* Registry and `uname` reads: `kernel_windows.go`, `operatingsystem_windows.go`,
  `operatingsystem_unix.go`, `BuildRevision`. Straight-line system calls that return
  their first error.
* `IsContainerized`: one file, and a suffix test of each line.
* `readClientCert`, `headerKeyValue`, `getFilenameFromHeaders`, usage and the printing of
  `httpstat`: option and string handling before or after the modelled control.
* `cmd/get` and `examples/tcpdial`: straight-line clients. What the callback of `get` may
  find is the subject of `ClosedReportHasInfo`; it does not test for nil.
* A composition of `Httpstat` with `ConnWrap`: `httpstat` makes one transfer at a time
  and reads the connection only after its close callback, so it meets `ConnWrap` at
  that callback alone; `Httpstat` has the three steps of `Close` around it.
