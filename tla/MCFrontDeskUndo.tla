----------------------------- MODULE MCFrontDeskUndo ---------------------------
(***************************************************************************)
(* The front desk with a history variable that remembers the rows as they  *)
(* were before the last commit.                                            *)
(***************************************************************************)
EXTENDS MCFrontDesk

VARIABLE
  before           \* [event, state]: the event the last commit recorded, if it
                   \* recorded exactly one (else 0), and the rows until then

Remembered == <<status, assigned, housekeeping>>

HistoryStep ==
  IF \E s \in Session : tx[s] # None /\ tx'[s] = None
    THEN before' = [event |-> IF Len(log') = Len(log) + 1 THEN Len(log') ELSE 0,
                    state |-> Remembered]
    ELSE UNCHANGED before

HistoryInit == Init /\ before = [event |-> 0, state |-> Remembered]

HistorySpec == HistoryInit /\ [][Next /\ HistoryStep]_<<vars, before>>

(* An action undone at once, before anything else is committed, leaves     *)
(* statuses, rooms and housekeeping as they were before it.                *)
UndoAtOnceRestores ==
  [][\A e \in undone' \ undone : before.event = e => Remembered' = before.state]_<<vars, before>>

================================================================================
