------------------------------ MODULE DartCall ------------------------------
(***************************************************************************)
(* What a unary call from Go to Dart promises, without handlers, isolates  *)
(* or channels: every call ends once, either with the one answer that the  *)
(* Dart side gave it or with a timeout, and it does end.                   *)
(***************************************************************************)
EXTENDS Naturals

CONSTANTS Ids,       \* the calls that may be made
          Answers    \* what Dart can answer

VARIABLES begun,     \* the calls that have begun
          answer,    \* the answer given to each call, or "none"
          outcome    \* what each call returned, or "none"

vars == <<begun, answer, outcome>>

Init == /\ begun = {}
        /\ answer = [id \in Ids |-> "none"]
        /\ outcome = [id \in Ids |-> "none"]

Begin(id) == /\ id \notin begun
             /\ begun' = begun \cup {id}
             /\ UNCHANGED <<answer, outcome>>

(* One answer is given to each of some calls that have none yet; a call    *)
(* may have timed out before its answer arrives.                           *)
Answer(f) == /\ \A id \in Ids : \/ f[id] = answer[id]
                                \/ id \in begun /\ answer[id] = "none"
             /\ answer' = f
             /\ UNCHANGED <<begun, outcome>>

Return(id) == /\ id \in begun /\ outcome[id] = "none"
              /\ \E o \in ({answer[id]} \ {"none"}) \cup {"timeout"} :
                   outcome' = [outcome EXCEPT ![id] = o]
              /\ UNCHANGED <<begun, answer>>

Next == \/ \E id \in Ids : Begin(id) \/ Return(id)
        \/ \E f \in [Ids -> Answers \cup {"none"}] : Answer(f)

Spec == Init /\ [][Next]_vars
=============================================================================
