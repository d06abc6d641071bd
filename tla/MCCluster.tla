------------------------------ MODULE MCCluster ------------------------------
(***************************************************************************)
(* Four images: one used from flash, one whose file is missing.  Every     *)
(* library call and every thread creation may fail.                        *)
(***************************************************************************)
EXTENDS ClusterSystem

FourImages == <<"background", "needle", "on", "off">>
OnImage == {"on"}
SomeFiles == {"background", "needle", "on"}
AllCalls == Calls
AllThreads == Workers \cup {"osal", "mmngr", "main", "app"}
=============================================================================
