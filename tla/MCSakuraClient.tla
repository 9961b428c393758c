--------------------------- MODULE MCSakuraClient ---------------------------
(***************************************************************************)
(* Instances of the two clients for TLC.                                    *)
(***************************************************************************)
EXTENDS SakuraClient
=============================================================================
