------------------------------- MODULE MCConsole -------------------------------
(* A small instance of Console for TLC.                                    *)
EXTENDS Console, TLC

CONSTANTS u1, u2, w1, w2, boot, mine, x, y

Symmetric == Permutations(User) \cup Permutations(Worker) \cup Permutations(Field \ Column)
=============================================================================
