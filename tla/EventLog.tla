------------------------------ MODULE EventLog ------------------------------
(***************************************************************************)
(* What lib/run-events promises its callers: one append-only log of        *)
(* events, each event_id recorded at most once, and a sequence number that *)
(* is the position in the log.                                             *)
(***************************************************************************)
EXTENDS Naturals, Sequences

CONSTANTS Ids, Bodies

VARIABLE log

Events == [id : Ids, body : Bodies, seq : Nat]

LogInit == log = <<>>

\* Record one new event at the end, numbered by its place.
Record(id, body) ==
    /\ \A k \in 1..Len(log) : log[k].id # id
    /\ log' = Append(log, [id |-> id, body |-> body, seq |-> Len(log) + 1])

LogNext == \E id \in Ids, body \in Bodies : Record(id, body)

LogSpec == LogInit /\ [][LogNext]_log

=============================================================================
