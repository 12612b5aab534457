-------------------------------- MODULE Sleep --------------------------------
(***************************************************************************)
(* modules/sleep: a user takes their own permissions away for a while and   *)
(* gets a code that brings them back early, from any conversation.  The     *)
(* module keeps nothing: a code carries its target and its expiry, and a    *)
(* MAC (external) binds it to the user and to the configured key, so        *)
(* a restart changes nothing.                                               *)
(*                                                                         *)
(* Handlers run concurrently, two of one user too; time passes in parts of a  *)
(* minute.  The platform lifts a restriction when its time is over; but the *)
(* Discord dispatcher turns a date that has passed into one a second ahead,  *)
(* and Telegram (external) takes a date that is not half a minute ahead for  *)
(* no date at all: the restriction has no end.                              *)
(***************************************************************************)
EXTENDS Integers, FiniteSets

CONSTANTS
  Users, Chats,
  Handlers,   \* calls of the two handlers that may be under way
  Durations,  \* parts of a minute: what parseSleepDuration lets through
  Minute,     \* parts of a minute
  Second,     \* what discordTimeoutUntil adds to the present for a date that has passed
  Soon,       \* how far ahead a date must be for Telegram to keep it
  Clamp,      \* discordMaxTimeoutDuration
  Horizon,    \* bound on time
  Forever,    \* the end of a restriction that has none
  Nobody

ASSUME SleepAssumption ==
  /\ Minute \in Nat \ {0} /\ Horizon \in Nat /\ Clamp \in Nat \ {0}
  /\ Second \in Nat \ {0} /\ Soon \in Nat /\ Forever \notin Nat
  /\ Durations \subseteq Nat \ {0}
  /\ Nobody \notin Chats

VARIABLES
  clock,
  muted,    \* until when a user is restricted in a chat, 0 if not
  codes,    \* the wake codes that were posted: user, chat, expiry minute
  call,     \* each handler's call: Nobody, or its user, step and arguments
  discord   \* whether the sinks are Discord's

sleepVars == <<clock, muted, codes, call, discord>>

SleepInit ==
  /\ clock = 0 /\ codes = {} /\ discord \in BOOLEAN
  /\ muted = [u \in Users |-> [c \in Chats |-> 0]]
  /\ call = [h \in Handlers |-> Nobody]

ClockAdvances == clock < Horizon /\ clock' = clock + 1 /\ UNCHANGED <<muted, codes, call, discord>>

-----------------------------------------------------------------------------
\* ceilUnixMinute and currentUnixMinute
CeilMinute(t) == t \div Minute + IF t % Minute = 0 THEN 0 ELSE 1
CurrentMinute(t) == t \div Minute

\* Generate
Code(u, c, until) == [user |-> u, chat |-> c, expiry |-> CeilMinute(until)]

\* Validate: the MAC covers the user and every field of the code.
Works(code, u, t) == CurrentMinute(t) <= code.expiry /\ code.user = u

Least(S) == CHOOSE x \in S : \A y \in S : x <= y

\* mapMemberPermissionsToBannedRights keeps the date, Telegram may not;
\* discordTimeoutUntil allows 28 days, and gives a second more than the
\* present when the date has passed.
RestrictedUntil(until) ==
  IF discord THEN IF until < clock THEN clock + Second ELSE Least({until, clock + Clamp})
             ELSE IF until < clock + Soon THEN Forever ELSE until

Restricted(u, c) == muted[u][c] = Forever \/ muted[u][c] > clock

At(h, step) == call[h] # Nobody /\ call[h].step = step
Step(h, step) == call' = [call EXCEPT ![h].step = step]
Return(h) == call' = [call EXCEPT ![h] = Nobody]
Begin(h, u, c, step, until) ==
  /\ call[h] = Nobody
  /\ call' = [call EXCEPT ![h] = [user |-> u, chat |-> c, step |-> step, until |-> until]]

\* handleSleep: the date is fixed before anything is sent.  The platform
\* takes no command from a restricted user.
Sleep(h, u, c, d) ==
  /\ ~Restricted(u, c)
  /\ Begin(h, u, c, "text", clock + d)
  /\ UNCHANGED <<clock, muted, codes, discord>>

\* The announcement and the code are sent; either may fail, which ends it.
PostText(h) ==
  /\ At(h, "text")
  /\ Step(h, "code") \/ Return(h)
  /\ UNCHANGED <<clock, muted, codes, discord>>

PostCodeAnyway(h) ==
  /\ At(h, "code") /\ Step(h, "restrict")
  /\ codes' = codes \cup {Code(call[h].user, call[h].chat, call[h].until)} \/ UNCHANGED codes
  /\ UNCHANGED <<clock, muted, discord>>
PostCode(h) ==
  /\ At(h, "code")
  /\ \/ /\ codes' = codes \cup {Code(call[h].user, call[h].chat, call[h].until)}
        /\ Step(h, "restrict")
     \/ Return(h) /\ UNCHANGED codes
  /\ UNCHANGED <<clock, muted, discord>>

\* RestrictMember, refused or done; a refusal is answered with a message.
RestrictMember(h) ==
  /\ At(h, "restrict") /\ Return(h)
  /\ \/ muted' = [muted EXCEPT ![call[h].user][call[h].chat] = RestrictedUntil(call[h].until)]
     \/ UNCHANGED muted
  /\ UNCHANGED <<clock, codes, discord>>

\* handleWake, with any code that was posted, in any conversation.
Wake(h, u, code) ==
  /\ Works(code, u, clock)
  /\ Begin(h, u, code.chat, "lift", 0)
  /\ UNCHANGED <<clock, muted, codes, discord>>

Lift(h) ==
  /\ At(h, "lift") /\ Return(h)
  /\ muted' = [muted EXCEPT ![call[h].user][call[h].chat] = 0] \/ UNCHANGED muted
  /\ UNCHANGED <<clock, codes, discord>>

SleepNext ==
  \/ ClockAdvances
  \/ \E h \in Handlers :
       \/ \E u \in Users, c \in Chats, d \in Durations : Sleep(h, u, c, d)
       \/ \E u \in Users, code \in codes : Wake(h, u, code)
       \/ PostText(h) \/ PostCode(h) \/ RestrictMember(h) \/ Lift(h)

SleepSpec == SleepInit /\ [][SleepNext]_sleepVars

-----------------------------------------------------------------------------
\* Every variable keeps its type.
SleepTypeOK ==
  /\ clock \in 0..Horizon /\ muted \in [Users -> [Chats -> Nat \cup {Forever}]]
  /\ codes \subseteq [user : Users, chat : Chats, expiry : Nat]
  /\ \A h \in Handlers : call[h] # Nobody =>
       call[h] \in [user : Users, chat : Chats, step : {"text", "code", "restrict", "lift"}, until : Nat]

\* Whoever is restricted can end it at once, and to the end of it: one of the
\* codes that were posted works for them now, and it is for that chat.  The
\* exceptions are restrictions made late: on Discord after their date, where
\* they last a second, on Telegram so short before it that they never end.
AlwaysAWayBack ==
  \A u \in Users, c \in Chats : Restricted(u, c) =>
    \/ \E code \in codes : Works(code, u, clock) /\ code.chat = c
    \/ IF discord THEN muted[u][c] <= clock + Second ELSE muted[u][c] = Forever

\* Without the exceptions; not true of either platform.
EveryoneHasACode ==
  \A u \in Users, c \in Chats : Restricted(u, c) =>
    \E code \in codes : Works(code, u, clock) /\ code.chat = c
=============================================================================
