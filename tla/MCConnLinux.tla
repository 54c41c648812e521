----------------------------- MODULE MCConnLinux -----------------------------
(***************************************************************************)
(* ConnLinux on a kernel without TCP_INFO and on one with every counter.   *)
(***************************************************************************)
EXTENDS ConnLinux

MCVersions == {[Kernel |-> 2, Major |-> 4, Minor |-> 37],
               [Kernel |-> 5, Major |-> 4, Minor |-> 0]}

=============================================================================
