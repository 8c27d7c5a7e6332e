-------------------------- MODULE EnvelopeChannel --------------------------
(***************************************************************************)
(* What an envelope provider promises its user: a one-way channel of whole *)
(* messages.  Those delivered are, in order, the first of those sent, and  *)
(* none is delivered once the channel is closed.                           *)
(***************************************************************************)
EXTENDS Naturals, Sequences

CONSTANT Payloads

VARIABLES sent, delivered, open

Init == sent = <<>> /\ delivered = <<>> /\ open = TRUE

Send(p) ==
    /\ sent' = Append(sent, p)
    /\ UNCHANGED <<delivered, open>>

Deliver ==
    /\ open
    /\ Len(delivered) < Len(sent)
    /\ delivered' = Append(delivered, sent[Len(delivered) + 1])
    /\ UNCHANGED <<sent, open>>

Close ==
    /\ open
    /\ open' = FALSE
    /\ UNCHANGED <<sent, delivered>>

Next == Deliver \/ Close \/ \E p \in Payloads : Send(p)

Spec == Init /\ [][Next]_<<sent, delivered, open>>
===========================================================================
