----------------------------- MODULE GameDayProofs -----------------------------
(* What holds of GameDay for any scenarios, however many services they break. *)
EXTENDS GameDay, TLAPS

(* What the restore commands have been run for so far. *)
Visited == {Restore[scenario][i] : i \in 1 .. step - 1}

OfScenario == ToSet(Restore[scenario])

(* Where each command is with the record of the game, while no accident has
   happened: `start` has none yet, and the others have the scenario that they
   restore. *)
OnRecord == state.kind = "game" /\ state.sid = scenario

RecordInv ==
    ~lost =>
        /\ pc = "idle" =>
              IF state.kind = "game" THEN broken \subseteq ToSet(Restore[state.sid])
              ELSE broken = {} /\ ~override
        /\ pc = "inject" => cmd = "start" /\ state = NoGame /\ broken \subseteq OfScenario
        /\ pc = "open" => /\ broken \subseteq OfScenario
                          /\ IF cmd = "start" THEN state = NoGame ELSE OnRecord
        /\ pc = "write" => broken \subseteq OfScenario
        /\ pc = "restore" => /\ broken \subseteq OfScenario \ Visited
                             /\ IF cmd = "start" THEN state = NoGame ELSE OnRecord
        /\ pc = "remove" => broken = {} /\ ~override /\ cmd # "start" /\ OnRecord
        /\ pc = "log" => broken = {} /\ ~override

(* Also after an accident: what is still broken is what the restore commands
   failed to mend, and the record goes before the game is written down. *)
ScoreInv ==
    /\ pc = "restore" => Visited \cap broken \subseteq unmended
    /\ pc \in {"remove", "log"} => OfScenario \cap broken \subseteq unmended
    /\ pc = "log" => state = NoGame /\ cmd = "reveal"

GameInv == TypeOK /\ RecordInv /\ ScoreInv

-----------------------------------------------------------------------------
LEMMA ScenarioFacts ==
    ASSUME NEW s \in Scenarios
    PROVE  /\ Inject[s] \in Seq(Services) /\ Restore[s] \in Seq(Services)
           /\ Len(Inject[s]) \in Nat /\ Len(Restore[s]) \in Nat
           /\ \A i \in 1 .. Len(Inject[s]) :
                 Inject[s][i] \in Services /\ Inject[s][i] \in ToSet(Restore[s])
           /\ \A i \in 1 .. Len(Restore[s]) : Restore[s][i] \in Services
           /\ ToSet(Restore[s]) = {Restore[s][i] : i \in 1 .. Len(Restore[s])}
           /\ ToSet(Restore[s]) \subseteq Services
<1>1. Inject[s] \in Seq(Services) /\ Restore[s] \in Seq(Services)
  BY ScenariosAssumption
<1>2. /\ Len(Inject[s]) \in Nat /\ DOMAIN Inject[s] = 1 .. Len(Inject[s])
      /\ Len(Restore[s]) \in Nat /\ DOMAIN Restore[s] = 1 .. Len(Restore[s])
      /\ \A i \in 1 .. Len(Inject[s]) : Inject[s][i] \in Services
      /\ \A i \in 1 .. Len(Restore[s]) : Restore[s][i] \in Services
  BY <1>1
<1>3. ToSet(Inject[s]) = ToSet(Restore[s])
  BY ScenariosAssumption
<1>4. /\ ToSet(Inject[s]) = {Inject[s][i] : i \in 1 .. Len(Inject[s])}
      /\ ToSet(Restore[s]) = {Restore[s][i] : i \in 1 .. Len(Restore[s])}
  BY <1>2 DEF ToSet
<1>5. \A i \in 1 .. Len(Inject[s]) : Inject[s][i] \in ToSet(Restore[s])
  BY <1>3, <1>4
<1>6. ToSet(Restore[s]) \subseteq Services
  BY <1>2, <1>4
<1> QED
  BY <1>1, <1>2, <1>4, <1>5, <1>6

LEMMA RecordFacts ==
    /\ NoGame.kind = "none" /\ Empty.kind = "empty"
    /\ NoGame \in Records /\ Empty \in Records
    /\ \A s \in Scenarios, n \in 0 .. Hints :
          /\ Game(s, n) \in Records /\ Game(s, n).kind = "game"
          /\ Game(s, n).sid = s /\ Game(s, n).hints = n
    /\ \A r \in Records :
          /\ r.kind = "game" => r.sid \in Scenarios /\ r.hints \in 0 .. Hints
          /\ r.kind = "none" <=> r = NoGame
<1>1. NoGame.kind = "none" /\ Empty.kind = "empty"
  BY DEF NoGame, Empty
<1>2. NoGame \in Records /\ Empty \in Records
  BY DEF Records
<1>3. ASSUME NEW s \in Scenarios, NEW n \in 0 .. Hints
      PROVE  /\ Game(s, n) \in Records /\ Game(s, n).kind = "game"
             /\ Game(s, n).sid = s /\ Game(s, n).hints = n
  BY DEF Records, Game
<1>4. ASSUME NEW r \in Records
      PROVE  /\ r.kind = "game" => r.sid \in Scenarios /\ r.hints \in 0 .. Hints
             /\ r.kind = "none" <=> r = NoGame
  <2>1. CASE r \in {NoGame, Empty}
    BY <2>1, <1>1
  <2>2. CASE \E s \in Scenarios, n \in 0 .. Hints : r = Game(s, n)
    BY <2>2, <1>1, <1>3
  <2> QED
    BY <2>1, <2>2 DEF Records
<1> QED
  BY <1>1, <1>2, <1>3, <1>4

LEMMA Typing ==
    ASSUME TypeOK
    PROVE  /\ state \in Records /\ scenario \in Scenarios /\ step \in Nat /\ step >= 1
           /\ pc = "inject" => step <= Len(Inject[scenario]) + 1
           /\ pc = "restore" => step <= Len(Restore[scenario]) + 1
BY ScenarioFacts DEF TypeOK

LEMMA GameInit == Init => GameInv
<1> SUFFICES ASSUME Init PROVE GameInv
  OBVIOUS
<1>1. NoGame \in Records /\ NoGame.kind = "none" /\ 0 \in 0 .. Hints
  BY RecordFacts, ScenariosAssumption
<1>2. 1 \in 1 .. Len(Restore[scenario]) + 1
  BY ScenarioFacts DEF Init
<1>3. TypeOK
  BY <1>1, <1>2 DEF Init, TypeOK
<1> QED
  BY <1>1, <1>3 DEF Init, GameInv, RecordInv, ScoreInv

-----------------------------------------------------------------------------
(* A command begins. *)
LEMMA BeginInv ==
    ASSUME GameInv,
           (\E s \in Scenarios : Start(s)) \/ Hint \/ \E c \in {"reveal", "abort"} : RevealOrAbort(c)
    PROVE  GameInv'
<1>t. TypeOK /\ state \in Records
  BY Typing DEF GameInv
<1>1. ASSUME NEW s \in Scenarios, Start(s) PROVE GameInv'
  <2>1. 1 \in 1 .. Len(Inject[s]) + 1 /\ 0 \in 0 .. Hints
    BY ScenarioFacts, ScenariosAssumption
  <2>2. TypeOK'
    BY <1>1, <1>t, <2>1 DEF Start, Run, TypeOK
  <2>3. ~lost => broken = {}
    BY <1>1, RecordFacts DEF Start, GameInv, RecordInv
  <2>4. RecordInv' /\ ScoreInv'
    BY <1>1, <2>3 DEF Start, Run, RecordInv, ScoreInv
  <2> QED
    BY <2>2, <2>4 DEF GameInv
<1>2. ASSUME Hint PROVE GameInv'
  <2>1. state.sid \in Scenarios /\ state.hints + 1 \in 0 .. Hints
    BY <1>2, <1>t, RecordFacts, ScenariosAssumption DEF Hint, Readable, HintsLeft
  <2>2. 1 \in 1 .. Len(Restore[state.sid]) + 1
    BY <2>1, ScenarioFacts
  <2>3. TypeOK'
    BY <1>2, <1>t, <2>1, <2>2 DEF Hint, Run, stack, TypeOK
  <2>4. RecordInv' /\ ScoreInv'
    BY <1>2 DEF Hint, Readable, Run, stack, GameInv, RecordInv, ScoreInv, OnRecord, OfScenario
  <2> QED
    BY <2>3, <2>4 DEF GameInv
<1>3. ASSUME NEW c \in {"reveal", "abort"}, RevealOrAbort(c) PROVE GameInv'
  <2>1. state.sid \in Scenarios /\ state.hints \in 0 .. Hints
    BY <1>3, <1>t, RecordFacts DEF RevealOrAbort, Readable
  <2>2. 1 \in 1 .. Len(Restore[state.sid]) + 1
    BY <2>1, ScenarioFacts
  <2>3. TypeOK'
    BY <1>3, <1>t, <2>1, <2>2 DEF RevealOrAbort, Run, stack, TypeOK
  <2>4. Visited' = {}
    BY <1>3 DEF RevealOrAbort, Run, Visited
  <2>5. RecordInv'
    BY <1>3, <2>4 DEF RevealOrAbort, Readable, Run, stack, GameInv, RecordInv, OnRecord, OfScenario
  <2>6. ScoreInv'
    BY <1>3, <2>4 DEF RevealOrAbort, Run, ScoreInv
  <2> QED
    BY <2>3, <2>5, <2>6 DEF GameInv
<1> QED
  BY <1>1, <1>2, <1>3

(* `start` breaks things, or undoes what it broke. *)
LEMMA InjectInv == ASSUME GameInv, InjectNext \/ Injected \/ InjectFails PROVE GameInv'
<1>t. TypeOK /\ scenario \in Scenarios /\ step \in Nat /\ step >= 1
  BY Typing DEF GameInv
<1>1. ASSUME InjectNext PROVE GameInv'
  <2>1. /\ Inject[scenario][step] \in Services /\ Inject[scenario][step] \in OfScenario
        /\ step + 1 \in 1 .. Len(Inject[scenario]) + 1
    BY <1>1, <1>t, ScenarioFacts DEF InjectNext, OfScenario
  <2>2. TypeOK'
    BY <1>1, <1>t, <2>1 DEF InjectNext, local, TypeOK
  <2>3. RecordInv' /\ ScoreInv'
    BY <1>1, <2>1 DEF InjectNext, local, GameInv, RecordInv, ScoreInv, OfScenario
  <2> QED
    BY <2>2, <2>3 DEF GameInv
<1>2. ASSUME Injected PROVE GameInv'
  <2>1. 1 \in 1 .. Len(Restore[scenario]) + 1
    BY <1>t, ScenarioFacts
  <2>2. TypeOK'
    BY <1>2, <1>t, <2>1 DEF Injected, Goto, stack, local, TypeOK
  <2>3. RecordInv' /\ ScoreInv'
    BY <1>2 DEF Injected, Goto, stack, local, GameInv, RecordInv, ScoreInv, OfScenario
  <2> QED
    BY <2>2, <2>3 DEF GameInv
<1>3. ASSUME InjectFails PROVE GameInv'
  <2>1. /\ Inject[scenario][step] \in Services /\ Inject[scenario][step] \in OfScenario
        /\ 1 \in 1 .. Len(Restore[scenario]) + 1
    BY <1>3, <1>t, ScenarioFacts DEF InjectFails, OfScenario
  <2>2. TypeOK'
    BY <1>3, <1>t, <2>1 DEF InjectFails, Goto, Undo, local, TypeOK
  <2>3. Visited' = {}
    BY <1>3 DEF InjectFails, Goto, Visited
  <2>4. RecordInv' /\ ScoreInv'
    BY <1>3, <2>1, <2>3
       DEF InjectFails, Goto, Undo, local, GameInv, RecordInv, ScoreInv, OfScenario
  <2> QED
    BY <2>2, <2>4 DEF GameInv
<1> QED
  BY <1>1, <1>2, <1>3

(* The state file is written. *)
LEMMA WriteStateInv == ASSUME GameInv, Open \/ Write PROVE GameInv'
<1>t. TypeOK /\ scenario \in Scenarios /\ hints \in 0 .. Hints
  BY Typing DEF GameInv, TypeOK
<1>0. 1 \in 1 .. Len(Restore[scenario]) + 1
  BY <1>t, ScenarioFacts
<1>1. ASSUME Open PROVE GameInv'
  <2>1. TypeOK'
    BY <1>1, <1>t, <1>0, RecordFacts DEF Open, Goto, stack, local, TypeOK
  <2>2. RecordInv' /\ ScoreInv'
    BY <1>1 DEF Open, Goto, stack, local, GameInv, RecordInv, ScoreInv, OfScenario
  <2> QED
    BY <2>1, <2>2 DEF GameInv
<1>2. ASSUME Write PROVE GameInv'
  <2>1. TypeOK'
    BY <1>2, <1>t, <1>0, RecordFacts DEF Write, Goto, stack, local, TypeOK
  <2>2. state'.kind = "game" /\ state'.sid = scenario
    BY <1>2, <1>t, RecordFacts DEF Write
  <2>3. RecordInv' /\ ScoreInv'
    BY <1>2, <2>2 DEF Write, Goto, stack, local, GameInv, RecordInv, ScoreInv, OfScenario
  <2> QED
    BY <2>1, <2>3 DEF GameInv
<1> QED
  BY <1>1, <1>2

(* Faults are mended one by one. *)
LEMMA RestoreInv == ASSUME GameInv, RestoreNext PROVE GameInv'
<1>t. TypeOK /\ scenario \in Scenarios /\ step \in Nat /\ step >= 1
  BY Typing DEF GameInv
<1>1. /\ Restore[scenario][step] \in Services
      /\ step + 1 \in 1 .. Len(Restore[scenario]) + 1
  BY <1>t, ScenarioFacts DEF RestoreNext
<1>2. TypeOK'
  BY <1>t, <1>1 DEF RestoreNext, local, TypeOK
<1>3. Visited' = Visited \cup {Restore[scenario][step]}
  <2>1. step' = step + 1 /\ scenario' = scenario
    BY DEF RestoreNext, local
  <2>2. 1 .. step' - 1 = (1 .. step - 1) \cup {step}
    BY <2>1, <1>t
  <2> QED
    BY <2>1, <2>2 DEF Visited
<1>4. RecordInv'
  BY <1>3 DEF RestoreNext, local, GameInv, RecordInv, OfScenario, OnRecord
<1>5. ScoreInv'
  BY <1>3 DEF RestoreNext, local, GameInv, ScoreInv
<1> QED
  BY <1>2, <1>4, <1>5 DEF GameInv

LEMMA AfterRestoreInv == ASSUME GameInv, Tidy \/ RemoveState \/ Log PROVE GameInv'
<1>t. TypeOK /\ scenario \in Scenarios /\ step \in Nat /\ step >= 1 /\ state \in Records
  BY Typing DEF GameInv
<1>0. 1 \in 1 .. Len(Restore[scenario]) + 1
  BY <1>t, ScenarioFacts
<1>1. ASSUME Tidy PROVE GameInv'
  <2>1. pc' \in {"idle", "remove"} /\ (pc' = "idle" <=> cmd = "start")
    BY <1>1 DEF Tidy, Goto, AfterRestore
  <2>2. TypeOK'
    BY <1>1, <1>t, <1>0, <2>1 DEF Tidy, Goto, local, TypeOK
  <2>3. Visited = OfScenario
    <3>1. step = Len(Restore[scenario]) + 1
      BY <1>1, <1>t, Typing, ScenarioFacts DEF Tidy
    <3>2. step - 1 = Len(Restore[scenario])
      BY <3>1, <1>t, ScenarioFacts
    <3>3. OfScenario = {Restore[scenario][i] : i \in 1 .. Len(Restore[scenario])}
      BY <1>t, ScenarioFacts DEF OfScenario
    <3> QED
      BY <3>2, <3>3 DEF Visited
  <2>4. RecordInv'
    BY <1>1, <1>t, <2>1, <2>3, RecordFacts
       DEF Tidy, Goto, local, GameInv, RecordInv, OnRecord
  <2>5. ScoreInv'
    BY <1>1, <2>1, <2>3 DEF Tidy, Goto, local, GameInv, ScoreInv, OfScenario
  <2> QED
    BY <2>2, <2>4, <2>5 DEF GameInv
<1>2. ASSUME RemoveState PROVE GameInv'
  <2>1. pc' \in {"idle", "log"} /\ (pc' = "log" <=> cmd = "reveal")
    BY <1>2 DEF RemoveState, Goto
  <2>2. TypeOK'
    BY <1>2, <1>t, <1>0, <2>1, RecordFacts DEF RemoveState, Goto, stack, local, TypeOK
  <2>3. RecordInv'
    BY <1>2, <2>1, RecordFacts DEF RemoveState, Goto, stack, local, GameInv, RecordInv
  <2>4. ScoreInv'
    BY <1>2, <2>1 DEF RemoveState, Goto, stack, local, GameInv, ScoreInv, OfScenario
  <2> QED
    BY <2>2, <2>3, <2>4 DEF GameInv
<1>3. ASSUME Log PROVE GameInv'
  <2>1. TypeOK'
    BY <1>3, <1>t, <1>0 DEF Log, Goto, stack, local, TypeOK
  <2>2. RecordInv' /\ ScoreInv'
    BY <1>3, RecordFacts DEF Log, Goto, stack, local, GameInv, RecordInv, ScoreInv
  <2> QED
    BY <2>1, <2>2 DEF GameInv
<1> QED
  BY <1>1, <1>2, <1>3

(* A kill, and repairs by hand. *)
LEMMA OutsideInv == ASSUME GameInv, Kill \/ FixedByHand \/ CleanedByHand PROVE GameInv'
<1>t. TypeOK /\ scenario \in Scenarios /\ state \in Records
  BY Typing DEF GameInv
<1>0. 1 \in 1 .. Len(Restore[scenario]) + 1
  BY <1>t, ScenarioFacts
<1>1. ASSUME Kill PROVE GameInv'
  <2>1. TypeOK'
    BY <1>1, <1>t, <1>0 DEF Kill, Goto, stack, local, TypeOK
  <2>2. ~lost' => ~lost /\ pc # "write" /\ (cmd = "start" => broken = {} /\ ~override)
    BY <1>1, <1>t DEF Kill, TypeOK
  <2>3. RecordInv'
    BY <1>1, <1>t, <2>2, RecordFacts
       DEF Kill, Goto, stack, local, GameInv, RecordInv, OnRecord, OfScenario, TypeOK
  <2>4. ScoreInv'
    BY <1>1 DEF Kill, Goto, ScoreInv
  <2> QED
    BY <2>1, <2>3, <2>4 DEF GameInv
<1>2. ASSUME FixedByHand PROVE GameInv'
  <2>1. TypeOK'
    BY <1>2, <1>t DEF FixedByHand, local, TypeOK
  <2>2. RecordInv' /\ ScoreInv'
    BY <1>2 DEF FixedByHand, local, GameInv, RecordInv, ScoreInv
  <2> QED
    BY <2>1, <2>2 DEF GameInv
<1>3. ASSUME CleanedByHand PROVE GameInv'
  <2>1. TypeOK'
    BY <1>3, <1>t, RecordFacts DEF CleanedByHand, local, TypeOK
  <2>2. RecordInv' /\ ScoreInv'
    BY <1>3, RecordFacts DEF CleanedByHand, local, GameInv, RecordInv, ScoreInv
  <2> QED
    BY <2>1, <2>2 DEF GameInv
<1> QED
  BY <1>1, <1>2, <1>3

LEMMA GameNext == GameInv /\ [Next]_vars => GameInv'
<1> SUFFICES ASSUME GameInv, [Next]_vars PROVE GameInv'
  OBVIOUS
<1>1. CASE UNCHANGED vars
  BY <1>1 DEF vars, stack, local, GameInv, TypeOK, RecordInv, ScoreInv, OnRecord, OfScenario, Visited
<1>2. CASE Next
  BY <1>2, BeginInv, InjectInv, WriteStateInv, RestoreInv, AfterRestoreInv, OutsideInv DEF Next
<1> QED
  BY <1>1, <1>2

-----------------------------------------------------------------------------
(* The script's variables and the record keep their types. *)
THEOREM GameTypeOK == Spec => []TypeOK
<1>1. GameInv => TypeOK
  BY DEF GameInv
<1> QED
  BY <1>1, GameInit, GameNext, PTL DEF Spec

(* Between commands a fault is on record, unless one of the three accidents
   happened. *)
THEOREM FaultsAreRecorded == Spec => []BrokenIsRecorded
<1>1. GameInv => BrokenIsRecorded
  BY DEF GameInv, RecordInv, BrokenIsRecorded
<1> QED
  BY <1>1, GameInit, GameNext, PTL DEF Spec

(* A game is scored once, and after its faults are gone. *)
THEOREM ScoresAreHonest == Spec => ScoredMeansRestored
<1>1. GameInv /\ [Next]_vars =>
        [pc = "log" /\ played' # played =>
            /\ ToSet(Restore[scenario]) \cap broken \subseteq unmended
            /\ state = NoGame]_vars
  BY DEF GameInv, ScoreInv, OfScenario
<1> QED
  BY <1>1, GameInit, GameNext, PTL DEF Spec, ScoredMeansRestored
=============================================================================
