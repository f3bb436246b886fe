----------------------------- MODULE MCNamespace -----------------------------
(* Small instances of NamespaceController for TLC. *)
EXTENDS NamespaceController

CONSTANTS n1, n2

TwoNamespaces == {n1, n2}
OnlyWatcher   == {Watcher}
=============================================================================
