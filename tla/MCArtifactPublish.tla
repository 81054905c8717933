-------------------------- MODULE MCArtifactPublish --------------------------
(***************************************************************************)
(* Three writers, two of them threads of one process, and one reader.  In  *)
(* MCArtifactPublish.cfg the two processes have different pids; in         *)
(* MCSharedPid.cfg they run in two PID namespaces and have the same one.   *)
(***************************************************************************)
EXTENDS ArtifactPublish

MCProcessOf == <<1, 1, 2>>
DistinctPids == <<7, 8>>
SamePid == <<7, 7>>
=============================================================================
