------------------------------ MODULE ChatHistory ------------------------------
(* How a resumed conversation is read back from the turns table             *)
(* (services/orchestrator/database.py).  rows are the rows of one           *)
(* conversation in the order of their ids.                                  *)
EXTENDS Integers, Sequences

CONSTANTS
    HistoryTurns,  \* max_turns of build_chat_history_messages
    WindowFloor    \* the least number of rows it loads

ASSUME HistoryAssumption == HistoryTurns \in Nat \ {0} /\ WindowFloor \in Nat

\* SELECT ... ORDER BY id ASC LIMIT limit
ListTurns(rows, limit) == SubSeq(rows, 1, IF Len(rows) < limit THEN Len(rows) ELSE limit)

Window == IF WindowFloor > HistoryTurns * 10 THEN WindowFloor ELSE HistoryTurns * 10

\* turns[-max_turns:]
LastOf(rows) ==
    IF Len(rows) <= HistoryTurns THEN rows
    ELSE SubSeq(rows, Len(rows) - HistoryTurns + 1, Len(rows))

BuildHistory(rows) == LastOf(ListTurns(rows, Window))
=============================================================================
