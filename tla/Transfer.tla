------------------------------ MODULE Transfer ------------------------------
(***************************************************************************)
(* What a block transfer promises, in either direction and without the     *)
(* line: the receiver's memory fills from the front, in blocks of at most  *)
(* MaxBlock bytes, each byte from the source position it belongs to, and   *)
(* the transfer ends only when all of it has arrived.  Another transfer    *)
(* may then start.                                                         *)
(***************************************************************************)
EXTENDS Integers

CONSTANTS Sizes,     \* the sizes a transfer may have
          MaxBlock   \* the largest number of bytes one block delivers

VARIABLES count,     \* size of the current transfer
          got,       \* bytes delivered so far
          mem,       \* source position each byte of the target area came from
          busy       \* a transfer is in progress

vars == <<count, got, mem, busy>>

Init == /\ count = 0
        /\ got = 0
        /\ mem = <<>>
        /\ busy = FALSE

Deliver == /\ busy
           /\ \E n \in 1..MaxBlock :
                 /\ got + n <= count
                 /\ got' = got + n
                 /\ mem' = [i \in 1..count |->
                               IF got < i /\ i <= got + n THEN i ELSE mem[i]]
           /\ UNCHANGED <<count, busy>>

Finish == /\ busy
          /\ got = count
          /\ busy' = FALSE
          /\ UNCHANGED <<count, got, mem>>

Call == /\ ~busy
        /\ count' \in Sizes
        /\ got' = 0
        /\ mem' = [i \in 1..count' |-> 0]
        /\ busy' = (count' # 0)

Next == Deliver \/ Finish \/ Call

Spec == Init /\ [][Next]_vars
=============================================================================
