---------------------------- MODULE MCFilterSync ----------------------------
(* FilterSync on small instances: an administrator the library is read as   *)
(* and one other person, with either two titles and one keyword or one      *)
(* title that carries two.                                                  *)
EXTENDS FilterSync

CONSTANTS k1, k2

\* Every title carries every keyword of the instance.
MCKeywordsOf == [i \in Items |-> Keywords]

=============================================================================
