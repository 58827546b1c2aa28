-------------------------------- MODULE Pushes --------------------------------
(***************************************************************************)
(* What jellylab-push tells of its own accord: the events of Sonarr and    *)
(* Radarr (NotifyBatches) and the requests that are going nowhere          *)
(* (StaleRequests).  The two share the process and nothing of its state.   *)
(***************************************************************************)
EXTENDS NotifyBatches, Integers

CONSTANTS Requests, Films, KeyOf, Dates, Airs, Asked, Take, Days, LastDay, Full, Slow

VARIABLES now, listed, obtained, available, percent, notified, lastPercent, run, view,
          told, excused, ticked

Stale == INSTANCE StaleRequests

staleVars == <<now, listed, obtained, available, percent, notified, lastPercent, run, view,
               told, excused, ticked>>

-----------------------------------------------------------------------------
(* StaleRequests' properties, as stated and explained there.               *)

\* StaleRequests: nobody is told of a late request twice.
ToldOnce == Stale!ToldOnce

\* StaleRequests: a download that moves is not reported as stuck.
SlowIsNotDead == Stale!SlowIsNotDead

\* StaleRequests: what stays late is told.
LateIsTold == Stale!LateIsTold

=============================================================================
