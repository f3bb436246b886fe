----------------------------- MODULE MCCleanupJob -----------------------------
(* A small instance of CleanupJob for TLC. *)
EXTENDS CleanupJob

\* Passed already, below the period of the ticker, at it, and beyond it.
SomeTimeouts == {Absent, Invalid, -1, 1, 2, 5}

\* None, at once, soon, and one the API server refuses.
SomeNumbers == {Absent, Invalid, -1, 0, 1}
=============================================================================
