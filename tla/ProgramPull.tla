------------------------------ MODULE ProgramPull ------------------------------
(***************************************************************************)
(* What a download promises its caller: the program as it is on the box,   *)
(* whole and in one step, or an error and nothing at all.                  *)
(***************************************************************************)
CONSTANT NoFile     \* the local file before anything was pulled

VARIABLES
    program,        \* the content the caller is owed
    result,         \* "pending", then "ok" or "failed"
    local           \* the local file

vars == <<program, result, local>>

Init == result = "pending" /\ local = NoFile

Succeed ==
    /\ result = "pending"
    /\ result' = "ok"
    /\ local' = program
    /\ UNCHANGED program

Fail ==
    /\ result = "pending"
    /\ result' = "failed"
    /\ UNCHANGED <<program, local>>

Next == Succeed \/ Fail

Spec == Init /\ [][Next]_vars
=============================================================================
