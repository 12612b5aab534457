------------------------------ MODULE MCKernel ------------------------------
(***************************************************************************)
(* A small kernel for TLC.  A behaviour either registers all three modules, *)
(* in any interleaving and with any failure; or it registers two of them    *)
(* without trouble and then runs, twice if it can; or it registers the two  *)
(* that want one name and one service, with any failure, while one Run goes *)
(* on.  That one has one driver that can fail; nobody cancels it, s3 gets no *)
(* event, and of its shutdown only the close of a subscription can fail.    *)
(***************************************************************************)
EXTENDS Kernel, TLC

CONSTANTS m1, m2, m3, nameA, nameB, c1, c2, s1, s2, s3, d1, d2, r1, r2

\* m2 needs m1's service and wants a command of m1, m3 has the name of m1.
MCNames    == m1 :> nameA @@ m2 :> nameB @@ m3 :> nameA
MCCommands == m1 :> {c1} @@ m2 :> {c2} @@ m3 :> {c2}
MCRequires == m1 :> {} @@ m2 :> {"cache"} @@ m3 :> {}
MCProvides == m1 :> {"cache"} @@ m2 :> {} @@ m3 :> {"cache"}
MCOwner    == s1 :> m1 @@ s2 :> m3 @@ s3 :> m3

VARIABLE scene

MCInit == Init /\ scene \in {"register", "run", "overlap"}

Untroubled == {"new", "claimed", "hook", "handlers", "registered"}

MCRun ==
  /\ Next
  /\ regPc'[m3] = "new"
  /\ \A m \in {m1, m2} : regPc'[m] \in Untroubled
  /\ \A r \in Runs : run'[r].pc # "idle" => \A m \in {m1, m2} : regPc[m] = "registered"

MCOverlap ==
  /\ Next
  /\ regPc'[m2] = "new"
  /\ run'[r2].pc = "idle"
  /\ ~ctxDone'
  /\ s3 \notin queued'
  /\ run'[r1].shutErr => late' # {}
  /\ run[r1].drv[d2] = "running" => DriverReturns(r1, d2)

MCNext ==
  /\ UNCHANGED scene
  /\ CASE scene = "register" -> \E m \in Mods : Register(m)
       [] scene = "run"      -> MCRun
       [] scene = "overlap"  -> MCOverlap
MCSpec ==
  /\ MCInit /\ [][MCNext]_<<vars, scene>>
  /\ \A r \in Runs : WF_vars(RunStep(r)) /\ WF_vars(AnnounceDone(r))
=============================================================================
