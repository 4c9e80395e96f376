---------------------------- MODULE MCInboxSweep ----------------------------
(* InboxSweep for TLC: symmetry of the chains, and a platform that stores first. *)
EXTENDS InboxSweep, TLC

\* Both chains sweep alike.
PassSymmetry == Permutations(Passes)

\* The platform stores a copy before it tells the app of it: of the two orders the
\* code allows for, the one in which no copy is missing from the inbox.
PlatformFirst == \A m \in heard : inbox[m] > 0
=============================================================================
