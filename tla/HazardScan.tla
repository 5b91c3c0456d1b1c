----------------------------- MODULE HazardScan -----------------------------
(***************************************************************************)
(* What scan (src/ms_queue_strong_hazard/hazard_ptr.h) owes to the hazard  *)
(* pointers whatever the queue does with them and whatever new memory      *)
(* holds: MSQueueHazard with a history of the pointers that have stood     *)
(* since a scan began.                                                     *)
(***************************************************************************)
EXTENDS MSQueueHazard

VARIABLE standing  \* HISTORY: standing[u]: the hazard pointers <<t, k>> that
                   \* have not changed since the scan began that u is in

scanVars == <<vars, standing>>

Record == Thread \X (0..1)

ScanInit == Init /\ standing = [u \in Thread |-> {}]

StandingNext ==
  standing' =
    [u \in Thread |->
       IF pc[u] = "d_retire" /\ pc'[u] = "s_load" THEN Record
       ELSE {s \in standing[u] : /\ pc'[u] \in {"s_load", "s_free"}
                                 /\ hp'[s[1]][s[2]] = hp[s[1]][s[2]]}]

ScanSpec == ScanInit /\ [][Next /\ StandingNext]_scanVars

-----------------------------------------------------------------------------
(* Properties                                                              *)

\* hazard_ptr.h:68, "Another thread still has a copy": no node that scan is
\* about to delete is named by a hazard pointer that has stood since the scan
\* began, although scan loads the records one by one while other threads
\* store to them.
ScanSparesNamed ==
  \A u \in Thread : pc[u] = "s_free" =>
    \A s \in standing[u] : hp[s[1]][s[2]] \notin ToSet(free_list[u]) \ ptr_list[u]
=============================================================================
