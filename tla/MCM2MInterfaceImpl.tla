------------------------- MODULE MCM2MInterfaceImpl -------------------------
(***************************************************************************)
(* M2MInterfaceImpl for TLC: the security objects of the runs.             *)
(***************************************************************************)
EXTENDS M2MInterfaceImpl

CONSTANTS srvA, bs
=============================================================================
