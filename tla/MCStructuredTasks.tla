------------------------- MODULE MCStructuredTasks -------------------------
(***************************************************************************)
(* Small programs for the model of structured tasks.                       *)
(***************************************************************************)
EXTENDS StructuredTasks

\* main calls a function that spawns a task, and spawns a task itself.
CallTree == {<<>>, <<1>>, <<1, 1>>, <<2>>}
CalledFirst == {<<1>>}
\* main spawns two tasks, the first of which calls a function.
TaskTree == {<<>>, <<1>>, <<1, 1>>, <<2>>}
CalledInTask == {<<1, 1>>}
FirstAndMain == {<<>>, <<1>>}
FirstOnly == {<<1>>}
=============================================================================
