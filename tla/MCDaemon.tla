------------------------------ MODULE MCDaemon ------------------------------
(***************************************************************************)
(* Instances of Daemon for TLC.                                            *)
(***************************************************************************)
EXTENDS Daemon, TLC

\* Clients without auto-start are told apart from the others, so only the
\* remaining ones may be exchanged.
Symmetry == Permutations(Client \ NoAutoStart) \cup Permutations(Daemon)

=============================================================================
