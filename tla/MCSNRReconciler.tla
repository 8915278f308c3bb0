--------------------------- MODULE MCSNRReconciler ---------------------------
(***************************************************************************)
(* Model-checking instance of SNRReconciler.  Time is counted in ticks:    *)
(* a reboot triggered at t lands at the latest at t + WatchdogTime, and    *)
(* TimeAssumedRebooted must fall strictly after it (spec 4.5), so          *)
(* SafeTime = DetectTime + WatchdogTime + 1 is the tightest budget with    *)
(* which a node that has lost the API still reboots in time: an off-by-one *)
(* in any timing guard shows.                                              *)
(***************************************************************************)
EXTENDS SNRReconciler

MC_SafeTime     == 4
MC_WatchdogTime == 1
MC_DetectTime   == 2
MC_OOSGrace     == 1
MC_MaxTime      == 7

\* a shorter horizon for the runs with transient write failures: TAR is
\* still reached (SafeTime < 5) and remediation can complete after it
MC_MaxTimeShort == 5

=============================================================================
