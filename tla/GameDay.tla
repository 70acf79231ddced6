------------------------------- MODULE GameDay -------------------------------
(***************************************************************************)
(* scripts/gameday.py: `start` breaks something and records the game in a  *)
(* state file, `hint` counts in it, `reveal` and `abort` put things back.  *)
(* One command at a time, killed at any step; docker commands may fail.    *)
(***************************************************************************)
EXTENDS Integers, Sequences, SequencesExt

CONSTANTS
    Scenarios,
    Services, \* what can have a fault
    Inject,   \* per scenario: the services its inject commands break, in order
    Restore,  \* per scenario: the services its restore commands mend, in order
    Override, \* the scenarios that come with an override file
    Hints     \* hints per scenario

ASSUME ScenariosAssumption ==
    /\ Override \subseteq Scenarios
    /\ Hints \in Nat
    /\ {Inject, Restore} \subseteq [Scenarios -> Seq(Services)]
    /\ \A s \in Scenarios : ToSet(Inject[s]) = ToSet(Restore[s])

VARIABLES
    broken,   \* the services with a fault
    state,    \* .gameday/state.json
    override, \* .gameday/override.yml exists
    played,   \* the games in .gameday/history.jsonl
    (* The running command: what it does next, and its local variables. *)
    cmd, pc, scenario, hints, step,
    (* History, read by the properties only. *)
    unmended, \* the services whose restore command failed in this command
    lost      \* an accident that gameday.py does not recover from has happened

stack == <<broken, override>>
local == <<cmd, scenario, hints>>
vars == <<stack, state, played, local, pc, step, unmended, lost>>

NoGame == [kind |-> "none"]
Empty == [kind |-> "empty"]  \* truncated by open("w"), not yet written
Game(s, n) == [kind |-> "game", sid |-> s, hints |-> n]

Records == {NoGame, Empty} \cup {Game(s, n) : s \in Scenarios, n \in 0 .. Hints}

TypeOK ==
    /\ broken \subseteq Services /\ unmended \subseteq Services
    /\ state \in Records
    /\ override \in BOOLEAN /\ lost \in BOOLEAN
    /\ played \subseteq Scenarios
    /\ cmd \in {"start", "hint", "reveal", "abort"}
    /\ pc \in {"idle", "inject", "open", "write", "restore", "remove", "log"}
    /\ scenario \in Scenarios /\ hints \in 0 .. Hints
    /\ step \in 1 .. Len(IF pc = "inject" THEN Inject[scenario] ELSE Restore[scenario]) + 1

Init ==
    /\ broken = {} /\ state = NoGame /\ override = FALSE /\ played = {}
    /\ cmd = "abort" /\ pc = "idle" /\ scenario \in Scenarios /\ hints = 0 /\ step = 1
    /\ unmended = {} /\ lost = FALSE

Run(command, s, n, first) ==
    /\ cmd' = command /\ scenario' = s /\ hints' = n
    /\ pc' = first /\ step' = 1 /\ unmended' = {}

Goto(next) == pc' = next /\ step' = 1

-----------------------------------------------------------------------------
(* start. --level, --id and the history only decide which scenario it is. *)
Start(s) ==
    /\ pc = "idle" /\ state = NoGame
    /\ Run("start", s, 0, "inject")
    /\ override' = (override \/ s \in Override)
    /\ UNCHANGED <<broken, state, played, lost>>

(* One inject command. *)
InjectNext ==
    /\ pc = "inject" /\ step <= Len(Inject[scenario])
    /\ broken' = broken \cup {Inject[scenario][step]}
    /\ step' = step + 1
    /\ UNCHANGED <<override, state, played, local, pc, unmended, lost>>

Injected ==
    /\ pc = "inject" /\ step > Len(Inject[scenario])
    /\ Goto("open")
    /\ UNCHANGED <<stack, state, played, local, unmended, lost>>

(* An inject command fails, maybe half way: what was changed is restored. *)
GiveUp == "idle"
Undo == "restore"

InjectFails ==
    /\ pc = "inject" /\ step <= Len(Inject[scenario])
    /\ broken' \in {broken, broken \cup {Inject[scenario][step]}}
    /\ Goto(Undo)
    /\ UNCHANGED <<override, state, played, local, unmended, lost>>

(* write_state(). *)
Open ==
    /\ pc = "open"
    /\ state' = Empty
    /\ Goto("write")
    /\ UNCHANGED <<stack, played, local, unmended, lost>>

Write ==
    /\ pc = "write"
    /\ state' = Game(scenario, hints)
    /\ Goto("idle")
    /\ UNCHANGED <<stack, played, local, unmended, lost>>

-----------------------------------------------------------------------------
(* The other commands read the state file first; json.load dies of an empty
   one, `start` included, and then nothing has changed. *)
Readable == pc = "idle" /\ state.kind = "game"

OneMore(n) == n <= Hints
HintsLeft(n) == n < Hints

Hint ==
    /\ Readable /\ HintsLeft(state.hints)
    /\ Run("hint", state.sid, state.hints + 1, "open")
    /\ UNCHANGED <<stack, state, played, lost>>

RevealOrAbort(command) ==
    /\ Readable
    /\ Run(command, state.sid, state.hints, "restore")
    /\ UNCHANGED <<stack, state, played, lost>>

(* restore(): one command, whose exit status nobody reads. *)
RestoreNext ==
    /\ pc = "restore" /\ step <= Len(Restore[scenario])
    /\ \/ broken' = broken \ {Restore[scenario][step]} /\ UNCHANGED <<unmended, lost>>
       \/ /\ Restore[scenario][step] \in broken
          /\ unmended' = unmended \cup {Restore[scenario][step]}
          /\ lost' = TRUE /\ UNCHANGED broken
    /\ step' = step + 1
    /\ UNCHANGED <<override, state, played, local, pc>>

(* The override file goes after the commands; `start` then ends. *)
HistoryFirst == IF cmd = "reveal" THEN "log" ELSE IF cmd = "abort" THEN "remove" ELSE "idle"
AfterRestore == IF cmd = "start" THEN "idle" ELSE "remove"

Tidy ==
    /\ pc = "restore" /\ step > Len(Restore[scenario])
    /\ override' = FALSE
    /\ Goto(AfterRestore)
    /\ UNCHANGED <<broken, state, played, local, unmended, lost>>

(* os.remove(STATE). *)
RemoveState ==
    /\ pc = "remove"
    /\ state' = NoGame
    /\ Goto(IF cmd = "reveal" THEN "log" ELSE "idle")
    /\ UNCHANGED <<stack, played, local, unmended, lost>>

Log ==
    /\ pc = "log"
    /\ played' = played \cup {scenario}
    /\ Goto("idle")
    /\ UNCHANGED <<stack, state, local, unmended, lost>>

-----------------------------------------------------------------------------
(* Ctrl-C, a closed terminal. Inside `start` and inside a write of the state
   file the game is not on record any more or not yet. *)
Kill ==
    /\ pc # "idle"
    /\ Goto("idle")
    /\ lost' = (lost \/ (cmd = "start" /\ (broken # {} \/ override)) \/ pc = "write")
    /\ UNCHANGED <<stack, state, played, local, unmended>>

(* The player finds the cause and mends it; with no readable record, .gameday
   is removed too. *)
FixedByHand ==
    /\ pc = "idle" /\ broken # {}
    /\ broken' = {}
    /\ UNCHANGED <<override, state, played, local, pc, step, unmended, lost>>

CleanedByHand ==
    /\ pc = "idle" /\ ~Readable /\ lost /\ broken = {}
    /\ state' = NoGame /\ override' = FALSE /\ lost' = FALSE
    /\ UNCHANGED <<broken, played, local, pc, step, unmended>>

Next ==
    \/ \E s \in Scenarios : Start(s)
    \/ InjectNext \/ Injected \/ InjectFails \/ Open \/ Write
    \/ Hint \/ \E command \in {"reveal", "abort"} : RevealOrAbort(command)
    \/ RestoreNext \/ Tidy \/ RemoveState \/ Log
    \/ Kill \/ FixedByHand \/ CleanedByHand

Spec == Init /\ [][Next]_vars

-----------------------------------------------------------------------------
(* "Every scenario is reversible, and `reveal` or `abort` puts things back"
   (gameday.py:26-27): between two commands, whatever is broken is on record
   and mended by the restore commands of the recorded scenario, and without a
   game nothing is left. It takes a kill inside `start`, a kill inside a write
   of the state file, or a restore command that fails, to lose a fault: kills
   anywhere else, and inject commands that fail half way, do not. *)
BrokenIsRecorded ==
    pc = "idle" /\ ~lost =>
        CASE state.kind = "game" -> broken \subseteq ToSet(Restore[state.sid])
          [] OTHER -> broken = {} /\ ~override

(* A game enters the history only after its faults are gone, other than those
   whose restore command failed in the same `reveal`, and after the record that
   would let it be revealed a second time. *)
ScoredMeansRestored ==
    [][pc = "log" /\ played' # played =>
        /\ ToSet(Restore[scenario]) \cap broken \subseteq unmended
        /\ state = NoGame]_vars
=============================================================================
