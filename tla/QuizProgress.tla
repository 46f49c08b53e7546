---------------------------- MODULE QuizProgress ----------------------------
(***************************************************************************)
(* What the players of a game may rely on: the questions of the quiz it    *)
(* was started with come one by one, in order, none is skipped, and a      *)
(* process that starts anew goes on from a question that was already       *)
(* reached, or does not know the game any more.  A game that two callers   *)
(* have advanced at the same time is contested: it may go back to a        *)
(* question it has had, but it still skips none.                           *)
(*                                                                         *)
(* There is the game that is being played and a record of it that outlives *)
(* the process and may fall behind.  Neither answers nor faults appear     *)
(* here: QuizTracker, with both, is shown to implement this.               *)
(***************************************************************************)
EXTENDS Integers, Sequences, GoMap

CONSTANTS
    Sessions,  \* session codes
    Quizzes    \* sequences of questions

VARIABLES
    playing,   \* sessionId -> [idx, quiz], the games in progress
    opened,    \* sessionId -> the furthest question this process opened
    contested, \* games that two callers have advanced at the same time
    saved      \* the record: sessionId -> [idx, quiz]

vars == <<playing, opened, contested, saved>>

-----------------------------------------------------------------------------
Init ==
    /\ playing = EmptyMap
    /\ opened = EmptyMap
    /\ contested = {}
    /\ saved = EmptyMap

\* A game begins before its first question, never on top of another, and is
\* recorded, or its first record is lost.
Begin(s, quiz) ==
    /\ s \notin DOMAIN playing \cup DOMAIN saved
    /\ playing' = Put(playing, s, [idx |-> -1, quiz |-> quiz])
    /\ opened' = Put(opened, s, -1)
    /\ saved' \in {saved, Put(saved, s, playing'[s])}
    /\ UNCHANGED contested

\* A question opens: the next one, or in a contested game any up to it.
Open(s, i) ==
    /\ IF s \in contested THEN i <= opened[s] + 1 ELSE i = playing[s].idx + 1
    /\ playing' = [playing EXCEPT ![s].idx = i]
    /\ opened' = [opened EXCEPT ![s] = IF i > @ THEN i ELSE @]
    /\ UNCHANGED <<contested, saved>>

\* The record follows the game; that of a contested game may be of any
\* question that was opened.
Save(s, i) ==
    /\ IF s \in contested THEN i <= opened[s] ELSE i = playing[s].idx
    /\ saved' = Put(saved, s, [playing[s] EXCEPT !.idx = i])
    /\ UNCHANGED <<playing, opened, contested>>

\* A second caller advances the game.
Contend(s) ==
    /\ contested' = contested \cup {s}
    /\ UNCHANGED <<playing, opened, saved>>

\* A new process: some or all of the saved games go on.
Restart ==
    /\ \E known \in SUBSET DOMAIN saved : playing' = [s \in known |-> saved[s]]
    /\ opened' = [s \in DOMAIN playing' |-> playing'[s].idx]
    /\ contested' = {}
    /\ UNCHANGED saved

\* The record of a game is lost.
Forget(s) ==
    /\ saved' = Delete(saved, s)
    /\ UNCHANGED <<playing, opened, contested>>

Next ==
    \/ \E s \in Sessions, quiz \in Quizzes : Begin(s, quiz)
    \/ \E s \in DOMAIN playing :
          \/ Contend(s)
          \/ \E i \in 0 .. (Len(playing[s].quiz) - 1) : Open(s, i) \/ Save(s, i)
    \/ \E s \in DOMAIN saved : Forget(s)
    \/ Restart

Spec == Init /\ [][Next]_vars
=============================================================================
