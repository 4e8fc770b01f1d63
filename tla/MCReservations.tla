----------------------------- MODULE MCReservations ----------------------------
(***************************************************************************)
(* Small instances of Reservations for TLC.  Days are 1 and 2; a stay is   *)
(* one or two nights.                                                      *)
(***************************************************************************)
EXTENDS ReservationsInvariant, TLC

CONSTANTS std, suite, r1, r2

stay(t, from, to) == [type |-> t, arrival |-> from, departure |-> to]

(* One line over both nights; two lines in either order of types.          *)
LongStay == {<<stay(std, 1, 3)>>}
ShortAndLong == {<<stay(std, 1, 3)>>, <<stay(std, 2, 3)>>}
Crossing == {<<stay(std, 1, 2), stay(suite, 1, 2)>>, <<stay(suite, 1, 2), stay(std, 1, 2)>>}
Mixed == {<<stay(std, 1, 3)>>, <<stay(std, 2, 3), stay(std, 1, 2)>>}
OneNight == {<<stay(std, 1, 2)>>}

(* One room of each type; nothing blocked.                                 *)
OneOfEach ==
  [r \in Room |-> [type |-> IF r = r1 THEN std ELSE suite, active |-> TRUE, adjoining |-> None]]
AllStd == [r \in Room |-> [type |-> std, active |-> TRUE, adjoining |-> None]]
NoBlock == [b \in BlockId |-> None]
NoOverbooking == [t \in RoomType |-> 0]

Interchangeable == Permutations(Session) \cup Permutations(Reservation)

================================================================================
