-------------------------------- MODULE Rpc --------------------------------
(***************************************************************************)
(* What the console promises a program on the target, without the line: a  *)
(* call is carried out exactly once, as the call it is and with the        *)
(* arguments it was made with, and then returns what came of it.  exit is  *)
(* carried out too, but does not return; another session may follow.       *)
(***************************************************************************)
CONSTANTS Calls,      \* the calls a program can make
          Args(_),    \* the arguments a call may have
          Answers     \* the values a call may return

VARIABLES phase,      \* "idle", "called", "executed" or "over"
          call,       \* the latest call and its arguments
          executed,   \* the call and arguments the host has carried out since
          result,     \* what came of it
          answer      \* what the latest call returned to the program

vars == <<phase, call, executed, result, answer>>

Nothing == <<"none", <<>>>>

Init == /\ phase = "idle"
        /\ call = Nothing
        /\ executed = Nothing
        /\ result = 0
        /\ answer = 0

Call == /\ phase = "idle"
        /\ phase' = "called"
        /\ \E c \in Calls : \E a \in Args(c) : call' = <<c, a>>
        /\ executed' = Nothing
        /\ result' = 0
        /\ answer' = 0

Execute == /\ phase = "called"
           /\ phase' = IF call[1] = "exit" THEN "over" ELSE "executed"
           /\ executed' = call
           /\ result' \in Answers
           /\ UNCHANGED <<call, answer>>

Return == /\ phase = "executed"
          /\ phase' = "idle"
          /\ answer' = result
          /\ UNCHANGED <<call, executed, result>>

Restart == /\ phase = "over"
           /\ phase' = "idle"
           /\ UNCHANGED <<call, executed, result, answer>>

Next == Call \/ Execute \/ Return \/ Restart

Spec == Init /\ [][Next]_vars
=============================================================================
