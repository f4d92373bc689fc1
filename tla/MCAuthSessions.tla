---------------------------- MODULE MCAuthSessions ----------------------------
(* Small instances of AuthSessions for TLC. *)
EXTENDS AuthSessions, TLC

CONSTANTS laptop, phone, l1, l2, p1, c1, c2

MCDevices == {laptop, phone}
MCTabs == {l1, l2, p1}
MCDeviceOf == [t \in Tabs |-> IF t = p1 THEN phone ELSE laptop]
MCCalls == {c1, c2}

\* The laptop's tabs and the slots are interchangeable.
Twins == Permutations(Calls) \cup Permutations(Tabs \ {p1})

\* The phone signs in and refreshes; its page is not reloaded, its calls arrive.
MCPhoneSpec ==
    Init /\ [][Next /\ ~ Load(p1)
                    /\ \A c \in Calls : Busy(c) /\ call[c].tab = p1 =>
                          ~ Lose(c) /\ ~ MeFails(c) /\ ~ RefreshFails(c)]_vars
===============================================================================
