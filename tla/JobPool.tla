------------------------------- MODULE JobPool -------------------------------
(* What the pool of crypt threads promises to the thread that hands jobs to  *)
(* it, with no mutex, condition variable or program counter: a job waits in  *)
(* one lane, a lane works on one job at a time in the order of arrival, and  *)
(* a lane that is told to stop starts at most one more of its waiting jobs.  *)
(* CryptPool is shown to implement this specification.                       *)
EXTENDS Sequences

CONSTANTS
  Lanes,    \* the crypt threads
  Jobs,     \* the connections whose packets are to be processed
  NoJob     \* "this lane works on nothing", which is not a job

VARIABLES
  waiting,  \* per lane, the jobs handed over and not started
  active,   \* per lane, the job being worked on
  closed,   \* per lane, whether it was told to stop
  willing,  \* per lane, whether it may still start a job
  fate      \* per job: "new", "pool", "handled" or "dropped"

vars == <<waiting, active, closed, willing, fate>>

Init ==
  /\ waiting = [l \in Lanes |-> <<>>]
  /\ active = [l \in Lanes |-> NoJob]
  /\ closed = [l \in Lanes |-> FALSE]
  /\ willing = [l \in Lanes |-> TRUE]
  /\ fate = [j \in Jobs |-> "new"]

\* Jobs are handed over only while no lane has been told to stop.
Submit(l, j) ==
  /\ \A k \in Lanes: ~closed[k]
  /\ fate[j] = "new"
  /\ waiting' = [waiting EXCEPT ![l] = Append(@, j)]
  /\ fate' = [fate EXCEPT ![j] = "pool"]
  /\ UNCHANGED <<active, closed, willing>>

\* A closed lane that starts a job uses up its only chance.
Start(l) ==
  /\ willing[l]
  /\ active[l] = NoJob
  /\ waiting[l] # <<>>
  /\ active' = [active EXCEPT ![l] = Head(waiting[l])]
  /\ waiting' = [waiting EXCEPT ![l] = Tail(@)]
  /\ willing' = [willing EXCEPT ![l] = ~closed[l]]
  /\ UNCHANGED <<closed, fate>>

\* The job ends: processed, or passed over because the lane has no key.
Finish(l) ==
  /\ active[l] # NoJob
  /\ \E f \in {"handled", "dropped"}: fate' = [fate EXCEPT ![active[l]] = f]
  /\ active' = [active EXCEPT ![l] = NoJob]
  /\ UNCHANGED <<waiting, closed, willing>>

\* The lane is told to stop. It may or may not be past its last look at the
\* queue: if it is, what waits there is never started.
Close(l) ==
  /\ ~closed[l]
  /\ closed' = [closed EXCEPT ![l] = TRUE]
  /\ \E w \in BOOLEAN: willing' = [willing EXCEPT ![l] = w]
  /\ UNCHANGED <<waiting, active, fate>>

\* A closed lane with nothing left to do ends.
Leave(l) ==
  /\ closed[l]
  /\ active[l] = NoJob
  /\ waiting[l] = <<>>
  /\ willing' = [willing EXCEPT ![l] = FALSE]
  /\ UNCHANGED <<waiting, active, closed, fate>>

Next ==
  \E l \in Lanes:
    \/ \E j \in Jobs: Submit(l, j)
    \/ Start(l)
    \/ Finish(l)
    \/ Close(l)
    \/ Leave(l)

\* An open lane gets to every job that waits in it, and every job that was
\* started ends.
Fairness ==
  \A l \in Lanes:
    /\ WF_vars(~closed[l] /\ Start(l))
    /\ WF_vars(Finish(l))

Spec == Init /\ [][Next]_vars /\ Fairness
==============================================================================
