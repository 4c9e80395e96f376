---------------------------- MODULE MCSyncEngine ----------------------------
(***************************************************************************)
(* SyncEngine for TLC: symmetry, and a bound on what the user does.        *)
(***************************************************************************)
EXTENDS SyncEngine, TLC

\* The two chains are interchangeable where no liveness is asked.
PassSymmetry == Permutations(Passes)

\* The administrator leaves this phone's codes and devices alone.
ServerSteady == ~Administer

\* The hold-back option is not touched once there is no pause left to resume.
OptionSettled == clock < MaxClock \/ settings'.excludePaused = settings.excludePaused
=============================================================================
