-------------------------- MODULE AbstractSemaphore --------------------------
(***************************************************************************)
(* What a BinarySemaphore of fsst.cpp promises its callers, with no mutex  *)
(* and no condition variable: post() makes the one permit available (and   *)
(* does nothing when it already is), wait() returns by taking the permit.  *)
(***************************************************************************)
CONSTANT Thread

VARIABLES
  permit,   \* is the permit available?
  waiting   \* the threads that have called wait() and not returned from it

avars == <<permit, waiting>>

AInit == permit = FALSE /\ waiting = {}

CallWait(t) ==
  /\ t \notin waiting
  /\ waiting' = waiting \cup {t}
  /\ UNCHANGED permit

ReturnFromWait(t) ==
  /\ t \in waiting
  /\ permit
  /\ permit' = FALSE
  /\ waiting' = waiting \ {t}

MakeAvailable ==
  /\ permit' = TRUE
  /\ UNCHANGED waiting

ANext == MakeAvailable \/ \E t \in Thread : CallWait(t) \/ ReturnFromWait(t)

(* Some waiter gets the permit whenever one waits and the permit is there;  *)
(* which one is up to the scheduler.                                       *)
ASpec ==
  /\ AInit
  /\ [][ANext]_avars
  /\ WF_avars(\E t \in Thread : ReturnFromWait(t))
=============================================================================
