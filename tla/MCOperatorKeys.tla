--------------------------- MODULE MCOperatorKeys ---------------------------
EXTENDS OperatorKeys, TLC

CONSTANTS s1, s2

(* One terminal for everything but what another does to people meanwhile.  *)
Alone == s1 :> {"create", "canary", "invite", "add", "rotate", "offboard", "export", "verify",
                "live", "recover"}
         @@ s2 :> {"remove", "revoke"}

=============================================================================
