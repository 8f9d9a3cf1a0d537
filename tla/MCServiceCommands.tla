-------------------------- MODULE MCServiceCommands --------------------------
(* Two processes that run two commands between them.                        *)
EXTENDS ServiceCommands, TLC

MCSymmetry == Permutations(Commands) \cup Permutations(Profiles)
=============================================================================
