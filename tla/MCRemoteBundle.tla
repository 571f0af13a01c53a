--------------------------- MODULE MCRemoteBundle ---------------------------
(***************************************************************************)
(* Two targets, of which t1 is the default.  The bundle defines both and   *)
(* gives t2 another host, or it defines t2 alone, on the session's host.   *)
(***************************************************************************)
EXTENDS RemoteBundle

CONSTANTS t1, t2

MCTargets == {t1, t2}
MCFiles ==
  {[t \in MCTargets |-> IF t = t1 THEN "session" ELSE "refused"],
   [t \in MCTargets |-> IF t = t1 THEN "absent" ELSE "session"]}

=============================================================================
