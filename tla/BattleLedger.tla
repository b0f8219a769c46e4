----------------------------- MODULE BattleLedger -----------------------------
(***************************************************************************)
(* The matches of a battle room and its table of standings, as the         *)
(* controls change them that come with messages (apply_battle_control).    *)
(*                                                                         *)
(* A control is applied by the handler that has stored its message.  The   *)
(* handlers await nothing while they do it, and nothing else writes a      *)
(* match: validate_callback leaves the list of results of a compression    *)
(* empty, so upsert_match_result is never given one.  The rows a control   *)
(* reads are therefore those that its commit finds, and it is one step.    *)
(***************************************************************************)
EXTENDS Integers, FiniteSets, Sequences

CONSTANT
    Characters   \* the room's character participants, numbers in the order of their ids

Nobody == 0      \* no winner, no loser
Unordered == 9999
Statuses == {"in_progress", "completed", "cancelled"}

ASSUME LedgerAssumption == Characters \subseteq Nat \ {0}

VARIABLES
    matches,    \* BattleMatchRecord rows, oldest first
    standings   \* BattleStanding rows: character -> [wins, losses, rank]

ledger == <<matches, standings>>

Completed(ms) == {i \in DOMAIN ms : ms[i].status = "completed"}
Fighters(ms) == UNION {{ms[i].a, ms[i].b} : i \in Completed(ms)}
Tally(ms, c) == [wins   |-> Cardinality({i \in Completed(ms) : ms[i].winner = c}),
                 losses |-> Cardinality({i \in Completed(ms) : ms[i].loser = c})]

\* The order of the table: points, which are three a win, then fewer losses, then the id.
Ahead(x, c, y, d) ==
    \/ x.wins > y.wins
    \/ x.wins = y.wins /\ x.losses < y.losses
    \/ x.wins = y.wins /\ x.losses = y.losses /\ c < d

\* A variant: rows that are there are ranked again, but not counted again.
RebuiltRanksOnly(ms, table) ==
    LET rows == DOMAIN table \union Fighters(ms)
        score == [c \in rows |-> IF c \in DOMAIN table THEN [wins |-> table[c].wins, losses |-> table[c].losses]
                                 ELSE Tally(ms, c)]
    IN  [c \in rows |-> [wins |-> score[c].wins, losses |-> score[c].losses,
                         rank |-> 1 + Cardinality({d \in rows : Ahead(score[d], d, score[c], c)})]]
\* _rebuild_standings: who fights in no completed match keeps the row as it is, and is ranked with it.
Rebuilt(ms, table) ==
    LET rows == DOMAIN table \union Fighters(ms)
        score == [c \in rows |-> IF c \in Fighters(ms) THEN Tally(ms, c)
                                 ELSE [wins |-> table[c].wins, losses |-> table[c].losses]]
    IN  [c \in rows |-> [wins |-> score[c].wins, losses |-> score[c].losses,
                         rank |-> 1 + Cardinality({d \in rows : Ahead(score[d], d, score[c], c)})]]

-----------------------------------------------------------------------------
\* _active_match: the highest order, rows without one before all others.
ActiveMatch(ms) ==
    LET open == {i \in DOMAIN ms : ms[i].status = "in_progress"}
    IN  IF open = {} THEN 0
        ELSE CHOOSE i \in open : \A k \in open : ms[k].order < ms[i].order \/ (ms[k].order = ms[i].order /\ k <= i)

\* _next_match_order
NextOrder(ms) ==
    LET orders == {ms[i].order : i \in DOMAIN ms} \ {Unordered}
    IN  1 + (IF orders = {} THEN 0 ELSE CHOOSE n \in orders : \A k \in orders : k <= n)

\* The row a control is about: the match it names, or else the one in progress.
Named(ms, control) ==
    IF control.match = 0 THEN ActiveMatch(ms) ELSE IF control.match \in DOMAIN ms THEN control.match ELSE 0

MayStart(ms, control) ==
    /\ ActiveMatch(ms) = 0
    /\ control.a # control.b
    /\ {control.a, control.b} \subseteq Characters

\* A variant: any match that is found will do.
Found(ms, i) == i # 0
InProgress(ms, i) == i # 0 /\ ms[i].status = "in_progress"
IsFighter(ms, i, c) == c \in {ms[i].a, ms[i].b}

\* Controls that raise no ValueError
Legal(ms, control) ==
    LET i == Named(ms, control)
    IN  CASE control.action = "start" -> MayStart(ms, control)
          [] control.action = "progress" -> InProgress(ms, i) /\ (control.who # Nobody => IsFighter(ms, i, control.who))
          [] control.action = "end" -> InProgress(ms, i) /\ control.who # Nobody /\ IsFighter(ms, i, control.who)
          [] control.action = "cancel" -> InProgress(ms, i)

\* first, last: source_message_start_id, source_message_end_id
NewMatch(control, order, message) ==
    [a |-> control.a, b |-> control.b, status |-> "in_progress", winner |-> Nobody, loser |-> Nobody,
     order |-> order, first |-> message, last |-> message]

Ended(row, control, message) ==
    [row EXCEPT !.status = "completed", !.winner = control.who, !.last = message,
                !.loser = IF control.who = row.a THEN row.b ELSE row.a]

Controlled(row, control, message) ==
    CASE control.action = "progress" -> [row EXCEPT !.last = message]
      [] control.action = "end" -> Ended(row, control, message)
      [] control.action = "cancel" -> [row EXCEPT !.status = "cancelled", !.last = message]

\* apply_battle_control on a legal control, to its commit
CommitControl(control, message) ==
    IF control.action = "start"
    THEN /\ matches' = Append(matches, NewMatch(control, NextOrder(matches), message))
         /\ UNCHANGED standings
    ELSE /\ matches' = [matches EXCEPT ![Named(matches, control)] = Controlled(@, control, message)]
         /\ standings' = IF control.action = "end" THEN Rebuilt(matches', standings) ELSE standings

-----------------------------------------------------------------------------
LedgerInit == matches = <<>> /\ standings = <<>>

\* The ledger's part of the type invariant
LedgerTypeOK ==
    /\ matches \in Seq([a : Characters, b : Characters, status : Statuses,
                        winner : Characters \union {Nobody}, loser : Characters \union {Nobody},
                        order : 1 .. Unordered, first : Nat, last : Nat])
    /\ DOMAIN standings \subseteq Characters
    /\ \A c \in DOMAIN standings : standings[c].wins \in Nat /\ standings[c].losses \in Nat
                                   /\ standings[c].rank \in 1 .. Cardinality(DOMAIN standings)

\* The table of standings tells exactly what the completed matches say of everyone who fights in one,
\* and ranks everyone it lists once, although it is written only when a match ends
\* (_rebuild_standings) and matches are started, continued and cancelled in between.
StandingsTally ==
    /\ \A c \in Fighters(matches) :
          c \in DOMAIN standings
          /\ [wins |-> standings[c].wins, losses |-> standings[c].losses] = Tally(matches, c)
    /\ {standings[c].rank : c \in DOMAIN standings} = 1 .. Cardinality(DOMAIN standings)

\* Matches come one after the other (_active_match): one is over, and the last message that
\* concerned it is in, before the next one is started.  A second one in progress would hide the
\* first from the room, which shows and controls one.
OneMatchAtATime ==
    \A m, n \in DOMAIN matches :
        m < n => matches[m].status # "in_progress" /\ matches[m].last < matches[n].first

\* A result stands: once a match is completed or cancelled, no control changes it, whichever match
\* the control names and however often it is sent.
ResultStands ==
    [][\A i \in DOMAIN matches :
          matches[i].status # "in_progress" => i \in DOMAIN matches' /\ matches'[i] = matches[i]]_ledger
=============================================================================
