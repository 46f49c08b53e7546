--------------------------- MODULE MCQuizTracker ---------------------------
(* A small instance of QuizTracker.                                        *)
EXTENDS QuizTracker

\* Two questions, enough for one caller to advance twice while the increment
\* of another is under way; and a single question without options.
MCQuizzes == { <<<<TRUE, FALSE>>, <<FALSE, TRUE>>>>, <<<<>>>> }
=============================================================================
