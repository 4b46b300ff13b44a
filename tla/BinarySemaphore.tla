--------------------------- MODULE BinarySemaphore ---------------------------
(***************************************************************************)
(* class BinarySemaphore of fsst.cpp: a mutex m, a condition variable cv   *)
(* and a flag value.                                                       *)
(*                                                                         *)
(*   wait(): lock m; while (!value) cv.wait(lock); value = false; unlock   *)
(*   post(): lock m; value = true; unlock;  cv.notify_one()                *)
(*                                                                         *)
(* A step is one access to the mutex or to the condition variable.  A      *)
(* thread asleep in cv.wait may also be woken spuriously, as the C++       *)
(* standard allows.                                                        *)
(***************************************************************************)
CONSTANTS
  Thread,     \* the threads that use the semaphore
  NoThread    \* the owner of a free mutex

ASSUME NoThreadAssumption == NoThread \notin Thread

VARIABLES
  m,       \* the thread that holds the mutex, or NoThread
  value,   \* the flag the mutex guards
  asleep,  \* the threads blocked on cv
  pc       \* where each thread is

vars == <<m, value, asleep, pc>>

\* in wait(): lock -> test -> (sleep -> lock -> test)* -> unlock
\* in post(): plock -> set -> notify
Pcs == {"idle", "lock", "test", "sleep", "unlock", "plock", "set", "notify"}

Goto(t, l) == pc' = [pc EXCEPT ![t] = l]

Init ==
  /\ m = NoThread
  /\ value = FALSE
  /\ asleep = {}
  /\ pc = [t \in Thread |-> "idle"]

-----------------------------------------------------------------------------
(* wait()                                                                  *)

CallWait(t) ==
  /\ pc[t] = "idle"
  /\ Goto(t, "lock")
  /\ UNCHANGED <<m, value, asleep>>

\* unique_lock's constructor, and the re-lock at the end of cv.wait
Lock(t) ==
  /\ pc[t] = "lock"
  /\ m = NoThread
  /\ m' = t
  /\ Goto(t, "test")
  /\ UNCHANGED <<value, asleep>>

\* (mutant) blocks whatever value says: "if (!value)" read before the lock
SleepUnchecked(t) ==
  /\ pc[t] = "test"
  /\ m' = NoThread
  /\ asleep' = asleep \cup {t}
  /\ Goto(t, "sleep")
  /\ UNCHANGED value

\* value is false: cv.wait releases the mutex and blocks in one step
Sleep(t) ==
  /\ pc[t] = "test"
  /\ ~value
  /\ m' = NoThread
  /\ asleep' = asleep \cup {t}
  /\ Goto(t, "sleep")
  /\ UNCHANGED value

\* (mutant) "if" in place of "while": wait() returns after any wake-up
TakeAnyway(t) ==
  /\ pc[t] = "test"
  /\ value' = FALSE
  /\ Goto(t, "unlock")
  /\ UNCHANGED <<m, asleep>>

Take(t) ==
  /\ pc[t] = "test"
  /\ value
  /\ value' = FALSE
  /\ Goto(t, "unlock")
  /\ UNCHANGED <<m, asleep>>

Unlock(t) ==
  /\ pc[t] = "unlock"
  /\ m' = NoThread
  /\ Goto(t, "idle")
  /\ UNCHANGED <<value, asleep>>

-----------------------------------------------------------------------------
(* post()                                                                  *)

CallPost(t) ==
  /\ pc[t] = "idle"
  /\ Goto(t, "plock")
  /\ UNCHANGED <<m, value, asleep>>

PostLock(t) ==
  /\ pc[t] = "plock"
  /\ m = NoThread
  /\ m' = t
  /\ Goto(t, "set")
  /\ UNCHANGED <<value, asleep>>

\* value = true, and the unlock at the closing brace
PostSet(t) ==
  /\ pc[t] = "set"
  /\ value' = TRUE
  /\ m' = NoThread
  /\ Goto(t, "notify")
  /\ UNCHANGED asleep

\* cv.notify_one(), called without the mutex
NotifyNobody(t) ==
  /\ pc[t] = "notify"
  /\ asleep = {}
  /\ Goto(t, "idle")
  /\ UNCHANGED <<m, value, asleep>>

NotifyOne(t) ==
  /\ pc[t] = "notify"
  /\ \E s \in asleep :
       /\ asleep' = asleep \ {s}
       /\ pc' = [pc EXCEPT ![t] = "idle", ![s] = "lock"]
  /\ UNCHANGED <<m, value>>

\* cv.wait may return although nobody notified
SpuriousWakeup(t) ==
  /\ t \in asleep
  /\ asleep' = asleep \ {t}
  /\ Goto(t, "lock")
  /\ UNCHANGED <<m, value>>

-----------------------------------------------------------------------------
Proceed(t) ==
  \/ Lock(t) \/ Sleep(t) \/ Take(t) \/ Unlock(t)
  \/ PostLock(t) \/ PostSet(t) \/ NotifyNobody(t) \/ NotifyOne(t)

Next ==
  \E t \in Thread : CallWait(t) \/ CallPost(t) \/ Proceed(t) \/ SpuriousWakeup(t)

(* A thread that can go on eventually does, and a thread that wants the    *)
(* mutex is not passed over for ever.  Nothing makes a thread call wait()  *)
(* or post(), and nothing promises a spurious wake-up.                     *)
Fairness ==
  \A t \in Thread :
    /\ WF_vars(Proceed(t))
    /\ SF_vars(Lock(t) \/ PostLock(t))

Spec == Init /\ [][Next]_vars /\ Fairness

-----------------------------------------------------------------------------
(* The variables stay in their types, the mutex is held by exactly the     *)
(* thread whose program counter is inside a critical section, and the      *)
(* threads blocked on cv are those inside cv.wait.                         *)
TypeOK ==
  /\ m \in Thread \cup {NoThread}
  /\ value \in BOOLEAN
  /\ asleep = {t \in Thread : pc[t] = "sleep"}
  /\ pc \in [Thread -> Pcs]
  /\ \A t \in Thread : m = t <=> pc[t] \in {"test", "unlock", "set"}

(* post() notifies after it has released the mutex, so the flag may be     *)
(* taken, set again and notified again in between.  No wake-up is lost all *)
(* the same: while the flag is set and a thread sleeps on cv, a notify is  *)
(* still to come or another waiter is awake and will take the flag.        *)
NoLostWakeup ==
  value /\ asleep # {} => \E t \in Thread : pc[t] \in {"notify", "lock", "test"}

\* in a call of wait() that has not taken the flag
WaitPcs == {"lock", "test", "sleep"}
Waiting == {t \in Thread : pc[t] \in WaitPcs}

(* wait() and post() behave as the two operations on one permit: a waiter  *)
(* returns once per permit, and while the permit is there and some thread  *)
(* waits, one of them eventually returns.                                  *)
Abstract == INSTANCE AbstractSemaphore WITH
  permit  <- value,
  waiting <- Waiting

IsSemaphore == Abstract!ASpec

=============================================================================
