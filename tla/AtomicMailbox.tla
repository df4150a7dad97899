--------------------------- MODULE AtomicMailbox ----------------------------
(***************************************************************************)
(* What the command mailbox promises its users: every operation takes      *)
(* effect on the whole mailbox at one instant.  FileMailbox, which takes   *)
(* the advisory lock, reads and writes in separate steps, implements this. *)
(***************************************************************************)
EXTENDS CommandMailbox

CONSTANT Keys

VARIABLE file

Init == file = [k \in Keys |-> NoCommand]

Enqueue(k, payload) ==
    file' = [file EXCEPT ![k] = AfterEnqueue(@, payload)]

RemoveIfCurrent(k, expected) ==
    file' = [file EXCEPT ![k] = AfterRemoveIfCurrent(@, expected)]

ReplaceIfCurrent(k, expected, replacement) ==
    file' = [file EXCEPT ![k] = AfterReplaceIfCurrent(@, expected, replacement)]

Next == \E k \in Keys, c \in Command :
            \/ Enqueue(k, c)
            \/ RemoveIfCurrent(k, c)
            \/ \E v \in Values : ReplaceIfCurrent(k, c, [c EXCEPT !.val = v])

Spec == Init /\ [][Next]_file
=============================================================================
