----------------------------- MODULE MessageStream -----------------------------
(***************************************************************************)
(* What the message manager protocol promises (message_manager.hh, "For    *)
(* any reliable, orderly connection ..."): the messages one side sends are *)
(* the messages the other side retrieves, each once, whole and in order.   *)
(***************************************************************************)
EXTENDS Naturals, Sequences

CONSTANT Message

VARIABLES sent, received

Init == sent = <<>> /\ received = <<>>

Send(m) == sent' = Append(sent, m) /\ UNCHANGED received

Receive ==
    /\ Len(received) < Len(sent)
    /\ received' = Append(received, sent[Len(received) + 1])
    /\ UNCHANGED sent

Next == (\E m \in Message : Send(m)) \/ Receive

Spec == Init /\ [][Next]_<<sent, received>>
================================================================================
