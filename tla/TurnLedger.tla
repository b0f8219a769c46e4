------------------------------ MODULE TurnLedger ------------------------------
(***************************************************************************)
(* What the generation queue promises to a room, with no rows, leases,     *)
(* workers or processes: a turn is opened by the user, and is answered by  *)
(* one indivisible step, once, after the turns that were waiting before it *)
(* have been closed.                                                       *)
(***************************************************************************)
EXTENDS Naturals

CONSTANTS
    Turns,      \* turns, numbered in the order of their keys
    Room,
    RoomOf

VARIABLES
    turn,    \* "none", "open", "answered" or "abandoned"
    before   \* the turns of the room that were open when a turn was opened

LedgerInit ==
    /\ turn = [t \in Turns |-> "none"]
    /\ before = [t \in Turns |-> {}]

\* Turns may be opened in another order than their keys.
Open(t) ==
    /\ turn[t] = "none"
    /\ turn' = [turn EXCEPT ![t] = "open"]
    /\ \E waiting \in SUBSET {u \in Turns : u < t /\ RoomOf[u] = RoomOf[t]} :
          /\ \A u \in waiting : turn[u] # "none"
          /\ \A u \in Turns : u < t /\ RoomOf[u] = RoomOf[t] /\ turn[u] = "open" => u \in waiting
          /\ before' = [before EXCEPT ![t] = waiting]

\* In order: the turns ahead are answered or given up.
Answer(t) ==
    /\ turn[t] = "open"
    /\ \A u \in before[t] : turn[u] \in {"answered", "abandoned"}
    /\ turn' = [turn EXCEPT ![t] = "answered"]
    /\ UNCHANGED before

Abandon(t) ==
    /\ turn[t] = "open"
    /\ turn' = [turn EXCEPT ![t] = "abandoned"]
    /\ UNCHANGED before

\* The answer was on its way when its turn was given up, and still arrives.
AnswerLate(t) ==
    /\ turn[t] = "abandoned"
    /\ turn' = [turn EXCEPT ![t] = "answered"]
    /\ UNCHANGED before

\* A restart puts turns back that a worker of the former process had given up meanwhile.
Reopen(S) ==
    /\ S # {}
    /\ \A t \in S : turn[t] = "abandoned"
    /\ turn' = [t \in Turns |-> IF t \in S THEN "open" ELSE turn[t]]
    /\ UNCHANGED before

LedgerNext ==
    \/ \E t \in Turns : Open(t) \/ Answer(t) \/ Abandon(t) \/ AnswerLate(t)
    \/ \E S \in SUBSET Turns : Reopen(S)

LedgerSpec == LedgerInit /\ [][LedgerNext]_<<turn, before>>
=============================================================================
