------------------------ MODULE MCDarkMedVpnService -------------------------
(* Two descriptor numbers: one for a running tunnel, and one that an earlier *)
(* tunnel has left open or that the rest of the process uses.                *)
EXTENDS DarkMedVpnService

CONSTANTS f1, f2

MCFds == {f1, f2}
=============================================================================
