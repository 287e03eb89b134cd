---------------------------- MODULE MCSelfUpdate ----------------------------
(* SelfUpdate with two programs and three versions, the second of which does *)
(* not start.                                                               *)
EXTENDS SelfUpdate

CONSTANTS agent, rclone

Programs == <<agent, rclone>>
Second == {2}

WhileClean == clean
=============================================================================
