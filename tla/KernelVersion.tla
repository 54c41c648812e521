---------------------------- MODULE KernelVersion ----------------------------
(***************************************************************************)
(* Kernel versions and their order (pkg/kernel/kernel.go).  The flavour is *)
(* not compared and not modelled here.                                     *)
(***************************************************************************)
EXTENDS Integers

VersionInfo == [Kernel : Int, Major : Int, Minor : Int]

Version(kernel, major, minor) ==
  [Kernel |-> kernel, Major |-> major, Minor |-> minor]

Sign(x, y) == IF x < y THEN -1 ELSE IF x > y THEN 1 ELSE 0

CompareKernelVersion(a, b) ==
  IF a.Kernel # b.Kernel THEN Sign(a.Kernel, b.Kernel)
  ELSE IF a.Major # b.Major THEN Sign(a.Major, b.Major)
  ELSE Sign(a.Minor, b.Minor)

AtLeast(a, b) == CompareKernelVersion(a, b) >= 0

=============================================================================
