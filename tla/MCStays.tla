------------------------------ MODULE MCStays ------------------------------
(***************************************************************************)
(* Days of three ticks, eight hours each.  The first reservation is known  *)
(* with both scheduled times, with either and with none; the second        *)
(* follows it on the day it ends, in another offset, and may turn out to   *)
(* be cancelled; the third is a declined one that overlaps, or a later     *)
(* request without times.                                                  *)
(***************************************************************************)
EXTENDS Stays

At(t, o) == [at |-> t, offset |-> o]

Res(id, category, arrival, departure, checkin, checkout) ==
    [id |-> id, category |-> category, arrival |-> arrival,
     departure |-> departure, checkin |-> checkin, checkout |-> checkout]

MCOffsets == {0, -1}

MCBookable ==
    {Res(2, "accepted", 1, 3, i, o) : i \in {At(5, 0), NoTime}, o \in {At(10, 0), NoTime}}
    \cup {Res(1, c, 3, 4, At(12, -1), At(14, -1)) : c \in {"accepted", "cancelled"}}
    \cup {Res(3, "not accepted", 0, 2, At(2, 0), At(7, 0)),
          Res(3, "request", 4, 5, NoTime, NoTime)}

=============================================================================
