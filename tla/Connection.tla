----------------------------- MODULE Connection ------------------------------
(* The life of a network_client as the rest of the worker sees it: it is     *)
(* accepted and counted, it ends once, and then it is a job with at least    *)
(* one packet in it or it is gone. Worker is built from these lives, and     *)
(* NetworkClient is shown to implement one of them.                          *)
EXTENDS Naturals

VARIABLES
  life,     \* "new", "open", "job" or "gone"
  counted   \* what it contributes to network::connections

vars == <<life, counted>>

Init == life = "new" /\ counted = 0

Accept ==
  /\ life = "new"
  /\ life' = "open"
  /\ counted' = 1

\* The count goes down in the step that hands the packets over or deletes the
\* client: from then on network::stop() does not know of the job.
HandOver ==
  /\ life = "open"
  /\ life' = "job"
  /\ counted' = 0

Vanish ==
  /\ life = "open"
  /\ life' = "gone"
  /\ counted' = 0

\* Setting up the bufferevent failed: counted and discounted in one step.
Refuse ==
  /\ life = "new"
  /\ life' = "gone"
  /\ UNCHANGED counted

Next == Accept \/ HandOver \/ Vanish \/ Refuse

Spec == Init /\ [][Next]_vars
==============================================================================
