-------------------------------- MODULE Pipe --------------------------------
(***************************************************************************)
(* What one direction of a stream promises, without channels, flags,       *)
(* contexts or goroutines: what is accepted is delivered, nothing is       *)
(* accepted once the sender has shut its side, the good end comes after    *)
(* everything that was accepted, a failure may come before it, and either  *)
(* is final.                                                               *)
(***************************************************************************)
EXTENDS Naturals

CONSTANT Cap         \* how many messages may be under way

VARIABLES waiting,   \* messages that are accepted and not delivered
          shut,      \* the sender sends nothing more
          failed,    \* it ended with an error
          end        \* what the receiver was told: "none", "eof" or "error"

vars == <<waiting, shut, failed, end>>

Init == waiting = 0 /\ shut = FALSE /\ failed = FALSE /\ end = "none"

Accept == /\ ~shut /\ waiting < Cap
          /\ waiting' = waiting + 1
          /\ UNCHANGED <<shut, failed, end>>

Deliver == /\ end = "none" /\ waiting > 0
           /\ waiting' = waiting - 1
           /\ UNCHANGED <<shut, failed, end>>

Shut == /\ ~shut /\ shut' = TRUE
        /\ failed' \in BOOLEAN
        /\ UNCHANGED <<waiting, end>>

End == /\ shut /\ end = "none"
       /\ \/ ~failed /\ waiting = 0 /\ end' = "eof"
          \/ failed /\ end' = "error"
       /\ UNCHANGED <<waiting, shut, failed>>

Next == Accept \/ Deliver \/ Shut \/ End

Spec == Init /\ [][Next]_vars
=============================================================================
