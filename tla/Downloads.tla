------------------------------ MODULE Downloads ------------------------------
(***************************************************************************)
(* What index.mjs of jellylab-push does about downloads: the cancel and    *)
(* monitor routes (CancelDownload) and the background sweep (VerdictSweep) *)
(* side by side.  Each keeps variables of its own; what a cancel changes   *)
(* for a sweep, VerdictSweep has of itself.                                *)
(***************************************************************************)
EXTENDS CancelDownload

CONSTANTS Films, Series, TmdbId, Hopeless

VARIABLES wanted, queued, verdicts, file, sweep, forgetting, doubt

Sweep == INSTANCE VerdictSweep

sweepVars == <<wanted, queued, verdicts, file, sweep, forgetting, doubt>>

Both == Spec /\ Sweep!Spec

-----------------------------------------------------------------------------
(* VerdictSweep's properties, as stated and explained there.               *)

\* Both components keep the types of their variables, and no two answers of
\* the verdicts kept were given at the same time (stalest).
TypesOK == TypeOK /\ Sweep!TypeOK

\* VerdictSweep: a sweep forgets only titles that are gone or downloading.
OnlyGoneAreForgotten == Sweep!OnlyGoneAreForgotten

\* VerdictSweep: every title wanted is asked about over and over.
AskedInTurn == Sweep!AskedInTurn

\* VerdictSweep: the verdict of a title that stays unwanted goes for good.
UnwantedIsForgotten == Sweep!UnwantedIsForgotten

=============================================================================
