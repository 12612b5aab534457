----------------------------- MODULE MCPlatforms -----------------------------
(***************************************************************************)
(* Small instances for TLC of three things between the modules and the      *)
(* platforms: messages that are sent and edited (Outbound), members that    *)
(* are restricted (Sleep), and Telegram's reactions (TelegramReactions).    *)
(* They share no state, so a behaviour is of one of them.  One of messages   *)
(* stops where a driver has ended, since nothing is promised from there on.  *)
(***************************************************************************)
EXTENDS Outbound, Sleep, TelegramReactions, TLC

CONSTANTS s1, s2, u1, h1, h2, c1, a1, e1, e2, t1, t2

\* s1's text is split in two and edited twice, s2 only sends.
Split == s1 :> 2 @@ s2 :> 1
Edits == s1 :> 2 @@ s2 :> 0

Alike == Permutations({h1, h2}) \cup Permutations({e1, e2})

VARIABLE scene

MCInit ==
  /\ OutInit /\ SleepInit /\ Init
  /\ scene \in {"messages", "sleep", "reactions"}
  /\ scene # "messages" => echo = FALSE
  /\ oneId => echo
  /\ scene # "sleep" => discord = FALSE
MCNext ==
  \/ scene = "messages" /\ ~ended /\ OutNext /\ UNCHANGED <<sleepVars, vars, scene>>
  \/ scene = "sleep" /\ SleepNext /\ UNCHANGED <<outVars, vars, scene>>
  \/ scene = "reactions" /\ Next /\ UNCHANGED <<outVars, sleepVars, scene>>
MCSpec == MCInit /\ [][MCNext]_<<outVars, sleepVars, vars, scene>>
=============================================================================
