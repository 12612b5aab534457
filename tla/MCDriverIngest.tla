--------------------------- MODULE MCDriverIngest ---------------------------
(***************************************************************************)
(* A small chat driver and the management server for TLC.  They share       *)
(* nothing but the kernel that starts and stops them: a behaviour is of one  *)
(* or of the other.                                                         *)
(***************************************************************************)
EXTENDS DriverIngest, ManagementHttp, TLC

CONSTANTS p1, p2, a, b, c, d

MCScript == p1 :> <<<<a, b>>, <<c>>>> @@ p2 :> <<<<d>>>>
MCYields == a :> <<"event", "event">> @@ b :> <<>> @@ c :> <<"event">>
              @@ d :> <<"undecodable">>
MCPolls  == {<<>>, <<"event">>, MapFails}

VARIABLE scene

Chat == scene = "chat"
Http == scene = "management"

MCInit ==
  /\ IngestInit /\ HttpInit /\ scene \in {"chat", "management"}
  /\ Http => kind = "discord"
MCNext ==
  \/ Chat /\ IngestNext /\ UNCHANGED <<httpVars, scene>>
  \/ Http /\ HttpNext /\ UNCHANGED <<ingestVars, scene>>
MCSpec ==
  /\ MCInit /\ [][MCNext]_<<ingestVars, httpVars, scene>>
  /\ WF_ingestVars(Chat /\ Consume) /\ SF_ingestVars(Chat /\ SeesCancel)
  /\ \A p \in Producers : WF_ingestVars(Chat /\ Deliver(p))
  /\ WF_httpVars(Http /\ HttpStep)
=============================================================================
