------------------------------- MODULE MCProc -------------------------------
(***************************************************************************)
(* Small instances of Proc: two cores and up to four processes.  The       *)
(* configurations choose what the process bodies do (Ops).                 *)
(***************************************************************************)
EXTENDS Proc, TLC

\* Pids other than Root are interchangeable: they are only ever compared.
PidSymmetry == Permutations(Pids \ {Root})

\* recv() and receive of DOWN only.
AnyMessage == Kinds \cup {"DOWN"}
PredsAny == {AnyMessage}
PredsSelective == {AnyMessage, {"DOWN"}}
\* recv(), and the never-matching predicate of sleep_ms.
PredsSleep == {AnyMessage, {}}
PredsEach == {AnyMessage} \cup {{k} : k \in Kinds}
=============================================================================
