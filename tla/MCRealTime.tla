----------------------------- MODULE MCRealTime -----------------------------
(* Small instances of RealTime.                                            *)
EXTENDS RealTime

\* Two questions whose correct options, and numbers of options, differ.
MCQuiz == <<<<TRUE, FALSE>>, <<FALSE, TRUE, FALSE>>>>

MCQuizzes == { MCQuiz }

\* Three questions.
MCLongQuizzes == { <<<<TRUE, FALSE>>, <<FALSE, TRUE, FALSE>>, <<TRUE>>>> }
=============================================================================
