---------------------------- MODULE FrameChannel ----------------------------
(***************************************************************************)
(* What the connection of a session promises its two ends, whatever the    *)
(* bytes on it look like: in each direction, the messages written are      *)
(* handed to the reader whole, once, and in the order they were written.   *)
(* A message that was not written in full is never handed over; a message  *)
(* written in full stays readable when the connection ends behind it.      *)
(***************************************************************************)
EXTENDS Naturals, Sequences

CONSTANTS
    Conns,      \* the directions of the connection
    Messages    \* what can be written to one

VARIABLES
    sent,       \* direction -> the messages written, in order
    received    \* direction -> the messages read, in order

vars == <<sent, received>>

Init ==
    /\ sent = [c \in Conns |-> << >>]
    /\ received = [c \in Conns |-> << >>]

Send(c, m) ==
    /\ sent' = [sent EXCEPT ![c] = Append(@, m)]
    /\ UNCHANGED received

\* The reader is handed the first message it has not read yet.
Recv(c) ==
    /\ Len(received[c]) < Len(sent[c])
    /\ received' = [received EXCEPT ![c] = Append(@, sent[c][Len(@) + 1])]
    /\ UNCHANGED sent

Next == \E c \in Conns : Recv(c) \/ \E m \in Messages : Send(c, m)

Spec == Init /\ [][Next]_vars

=============================================================================
