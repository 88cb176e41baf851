--------------------------- MODULE MCEntryPolling ---------------------------
(* The small instances of EntryPolling that TLC checks.                    *)
EXTENDS EntryPolling

CONSTANTS p1, p2, properties, reservations, calendar

InOrder == [ids \in SUBSET Properties |-> SelectSeq(<<p1, p2>>, LAMBDA p : p \in ids)]
AllThree == <<properties, reservations, calendar>>
All == {{}}
Either == {{}, {p1}}

=============================================================================
