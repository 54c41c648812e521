--------------------------- MODULE MCLinuxTCPInfo ----------------------------
(***************************************************************************)
(* LinuxTCPInfo on a kernel at each row of tcpInfoSizes, on one just below *)
(* it, and on one older and one newer than all of them.                    *)
(***************************************************************************)
EXTENDS LinuxTCPInfo

MCVersions ==
  {Version(2, 4, 37), Version(2, 6, 2), Version(3, 14, 79), Version(3, 15, 0),
   Version(4, 0, 9), Version(4, 1, 0), Version(4, 2, 0), Version(4, 5, 7),
   Version(4, 6, 0), Version(4, 8, 17), Version(4, 9, 0), Version(4, 9, 337),
   Version(4, 10, 0), Version(4, 17, 19), Version(4, 18, 0), Version(4, 19, 0),
   Version(5, 3, 18), Version(5, 4, 0), Version(5, 5, 0), Version(6, 1, 0),
   Version(6, 2, 0), Version(6, 6, 0), Version(6, 7, 0), Version(7, 0, 1)}

MCOverrides == {Version(5, 5, 0)}

=============================================================================
