---------------------------- MODULE AtLeastOnce ----------------------------
(***************************************************************************)
(* What both consumers of mlb.events.raw promise to the topic: the records *)
(* of a partition are dealt with in the order of its log and in any number *)
(* of attempts, what was dealt with stays so, and an offset is             *)
(* acknowledged only when every record below it was dealt with.  An        *)
(* acknowledgement may be taken back (a batch in hand across a rebalance), *)
(* a record's effect may not.                                              *)
(***************************************************************************)
EXTENDS Naturals, Sequences

CONSTANTS Partitions, Msgs,
          Id,       \* what the consumer tells records apart by
          Ignored   \* payloads that need nothing done

VARIABLES log,    \* the records of each partition
          acked,  \* the next offset the group reads, by partition
          done    \* <<partition, offset>> of the records dealt with

vars == <<log, acked, done>>

Init ==
    /\ log = [p \in Partitions |-> <<>>]
    /\ acked = [p \in Partitions |-> 0]
    /\ done = {}

Offsets(p) == 0 .. Len(log[p]) - 1
IdAt(p, o) == Id[log[p][o + 1]]

\* A record may need nothing more when it arrives: a copy of one dealt with.
Arrive(p, m) ==
    /\ log' = [log EXCEPT ![p] = Append(@, m)]
    /\ \/ done' = done
       \/ /\ m \in Ignored \/ \E o \in Offsets(p) : <<p, o>> \in done /\ IdAt(p, o) = Id[m]
          /\ done' = done \cup {<<p, Len(log[p])>>}
    /\ UNCHANGED acked

\* An effect deals with the next record of a partition, and perhaps with copies
\* that follow it.
Copies(p, o) == {q \in o .. Len(log[p]) - 1 : IdAt(p, q) = IdAt(p, o)}
Finish(p, o) ==
    /\ \A q \in 0 .. o - 1 : <<p, q>> \in done
    /\ \E c \in SUBSET Copies(p, o) : done' = done \cup ({p} \X ({o} \cup c))
    /\ UNCHANGED <<log, acked>>

Ack(p, n) ==
    /\ n <= Len(log[p])
    /\ \A o \in 0 .. n - 1 : <<p, o>> \in done
    /\ acked' = [acked EXCEPT ![p] = n]
    /\ UNCHANGED <<log, done>>

Next ==
    \/ \E p \in Partitions, m \in Msgs : Arrive(p, m)
    \/ \E p \in Partitions : \E o \in Offsets(p) : Finish(p, o)
    \/ \E p \in Partitions : \E n \in 0 .. Len(log[p]) : Ack(p, n)

Spec == Init /\ [][Next]_vars
=============================================================================
