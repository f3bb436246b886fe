------------------------------ MODULE MCOptIn ------------------------------
(* Small instances of OptInLease for TLC. *)
EXTENDS OptInLease, TLC

CONSTANTS n1, ns, w, g

OneName      == {n1}
OneNS        == n1 :> ns
OneGoroutine == {g}

\* Two ticks to the second; no reading falls on the end of a lease.
TwoReadings == {1, 5}

Leased(t, s, j) == [uid |-> 0, ttl |-> t, start |-> s, expireAt |-> Absent,
                    status |-> Absent, job |-> j]

NotStarted == { Leased(2, Absent, "fire") }
InMidLease == { Leased(2, 0, "none") }

FewTTLs == {Absent, 2}
NoStart == {Absent}
NoJob   == {"none"}
=============================================================================
