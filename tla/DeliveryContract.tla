-------------------------- MODULE DeliveryContract --------------------------
(***************************************************************************)
(* What the event pipeline promises its producers and its operators: an    *)
(* append-only source of entries, the entries whose effect is published    *)
(* and the prefix of entries that is acknowledged to the broker.           *)
(* Publication is never undone, acknowledgement never moves back and never *)
(* passes an event that is not published.                                  *)
(***************************************************************************)
EXTENDS Integers, Sequences

CONSTANTS Messages,     \* what a producer may send
          EventKind     \* the kind of the messages that must be published

VARIABLES log,          \* entries in the order they were sent
          published,    \* positions of entries published at least once
          acked         \* entries 1..acked are acknowledged

vars == <<log, published, acked>>

Init == log = <<>> /\ published = {} /\ acked = 0

\* An entry arrives; the resend of an id already published needs nothing.
Produce(m) ==
    /\ log' = Append(log, m)
    /\ published' \in {published, published \cup {Len(log) + 1}}
    /\ UNCHANGED acked

Publish(S) ==
    /\ published' = published \cup S
    /\ UNCHANGED <<log, acked>>

Ack(n) ==
    /\ n >= acked
    /\ \A i \in 1..n : log[i].kind = EventKind => i \in published
    /\ acked' = n
    /\ UNCHANGED <<log, published>>

Next ==
    \/ \E m \in Messages : Produce(m)
    \/ \E S \in SUBSET (1..Len(log)) : Publish(S)
    \/ \E n \in 0..Len(log) : Ack(n)

Spec == Init /\ [][Next]_vars

=============================================================================
