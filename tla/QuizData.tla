------------------------------ MODULE QuizData ------------------------------
(***************************************************************************)
(* The quiz as the backend services see it (shared/quiz.go).  A question   *)
(* is the sequence of its options' is_correct flags: texts, types and      *)
(* images are only copied into messages.  A quiz is a sequence of          *)
(* questions.  The code's indexes are 0-based, TLA+ sequences 1-based.     *)
(***************************************************************************)
EXTENDS Integers, Sequences, FiniteSetsExt

Question == Seq(BOOLEAN)

\* The zero values Question{} and Quiz{}.
NoQuestion == <<>>
NoQuiz     == <<>>

\* Quiz.GetQuestion: the zero question when the index is out of range.
GetQuestion(quiz, idx) ==
    IF idx < 0 \/ idx >= Len(quiz) THEN NoQuestion ELSE quiz[idx + 1]

\* Question.GetCorrectOption: index of the first option flagged correct; 0
\* when there is none, and so for a question without options.
GetCorrectOption(question) ==
    LET correct == {i \in DOMAIN question : question[i]}
    IN  IF correct = {} THEN 0 ELSE Min(correct) - 1
=============================================================================
