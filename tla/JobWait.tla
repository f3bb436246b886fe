------------------------------- MODULE JobWait -------------------------------
(***************************************************************************)
(* What the wait for a cleanup Job promises to the deletion that comes     *)
(* after it, without polls and caches: it is over when the Job has ended,  *)
(* when the time is up, or when the Job is out of sight, and it says which *)
(* of these it was.                                                        *)
(***************************************************************************)
EXTENDS Integers

VARIABLES
  phase,     \* "before", "waiting" or "over"
  answer,    \* what the wait found, "none" as long as it is not over
  result,    \* how the Job ended: "none" yet, "complete" or "failed"
  inSight,   \* whether the controller can read the Job
  time,
  until,     \* when the time is up
  errors     \* how many calls have failed

waitVars == <<phase, answer>>
jobWaitVars == <<phase, answer, result, inSight, time, until, errors>>

Init ==
  /\ phase = "before"
  /\ answer = "none"
  /\ result = "none"

\* A Job ends once; it may go, or come in sight, at any time; time passes.
World ==
  /\ result' = result \/ (result = "none" /\ result' \in {"complete", "failed"})
  /\ inSight' \in BOOLEAN
  /\ time' >= time
  /\ UNCHANGED <<waitVars, until, errors>>

Begin ==
  /\ phase = "before"
  /\ phase' = "waiting"
  /\ until' \in Int
  /\ UNCHANGED <<answer, result, time>>

\* Nothing to wait for.
Skip ==
  /\ phase = "before"
  /\ phase' = "over"
  /\ UNCHANGED <<answer, result, time, until>>

Found(what) ==
  /\ phase = "waiting"
  /\ phase' = "over"
  /\ answer' = what
  /\ UNCHANGED <<result, inSight, time, until>>

Ended     == result # "none" /\ Found(result) /\ UNCHANGED errors
TimeIsUp  == time >= until /\ Found("timeout") /\ UNCHANGED errors
OutOfSight == (~inSight \/ errors' > errors) /\ Found("unreadable")

Next == World \/ Begin \/ Skip \/ Ended \/ TimeIsUp \/ OutOfSight

Spec == Init /\ [][Next]_jobWaitVars
=============================================================================
