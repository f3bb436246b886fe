------------------------------ MODULE MCLease ------------------------------
(* Small instances of LeaseController for TLC. *)
EXTENDS LeaseController, TLC

CONSTANTS n1, ns, w

OneName   == {n1}
OneNS     == n1 :> ns

\* Two ticks to the second. Readings half way between two seconds miss the ends
\* of leases, which are whole seconds; the lease that starts at 0 ends at 2.
HalfSeconds == {1, 3, 5}
FarApart    == {1, 5}
OnTheEnd    == {1, 2, 5}

Leased(t, s, j) == [uid |-> 0, ttl |-> t, start |-> s, expireAt |-> Absent,
                    status |-> Absent, job |-> j]

WithJob == { Leased(2, 0, "wait") }
Some   == { Leased(2, Absent, "none"), Leased(2, 0, "wait"), Leased(2, Absent, "fire") }
Unstarted == { Leased(2, Invalid, "none") }

AllTTLs   == {Absent, Empty, Invalid, 2, -2}
BadTTLs   == {Absent, Invalid, 2}
FewTTLs   == {Absent, 2}
NoStart   == {Absent}
FewStarts == {Absent, 0}
LateStarts == {Absent, 2, 4}
GoodJobs  == {"none", "fire", "wait"}
NoJob     == {"none"}
BadJob    == {"bad"}
=============================================================================
