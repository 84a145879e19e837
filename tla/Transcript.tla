---------------------------- MODULE Transcript ----------------------------
(***************************************************************************)
(* One conversation thread of an agent (_threads.mjs): turns.jsonl, its    *)
(* archive of one generation, thread.json and digest.md.  The relay and    *)
(* the thread verb append turns and roll the file at its size cap; a wake  *)
(* writes digests; an operator closes and rebuilds; a reply reopens.       *)
(*                                                                         *)
(* Appends take no lock, and only the rotation does.  Every other writer   *)
(* of thread.json reads it, and replaces it by its copy with some fields   *)
(* of its own changed; the two are separate steps here.  A copy is         *)
(* forgotten once it is written.  Prune, which waits for thirty days, and  *)
(* turns without a message id are left out.                                *)
(***************************************************************************)
EXTENDS Integers, Sequences, SequencesExt

CONSTANTS
    Procs,      \* processes that touch the thread
    Appenders,  \* those that append turns: the relay, an `agent thread append`
    Mortal,     \* those that may die
    Nobody,     \* the owner of no lock
    Msgs,       \* mailbox messages, the idempotency keys of turns
    UserMsgs,   \* those whose turn is the user's; the others are the agent's
    Cap,        \* turns that make MAX_TURNS_BYTES
    MaxTurns    \* bound: turns appended

VARIABLES
    live, archive,   \* turns.jsonl and its rolled generation
    digest,          \* through_seq in the header of digest.md
    rec,             \* thread.json
    lock,            \* owner of turns.rotate.lock
    pc,              \* where a process is in its verb
    mem,             \* its copy of thread.json
    hand,            \* what else it has in hand: message, sequence, rows, plan
    appended         \* ghost: turns appended

files == <<live, archive, digest, lock>>
vars == <<files, rec, pc, mem, hand, appended>>

Records == [rolled : Nat, titled : BOOLEAN, noted : SUBSET Msgs, through : Nat, open : BOOLEAN]
Opened == [rolled |-> 0, titled |-> FALSE, noted |-> {}, through |-> 0, open |-> TRUE]
Nothing == [msg |-> Nobody, seq |-> 0, rows |-> 0, closing |-> FALSE]

Init ==
    /\ live = <<>> /\ archive = <<>> /\ digest = 0
    /\ rec = Opened
    /\ lock = Nobody
    /\ pc = [p \in Procs |-> "idle"]
    /\ mem = [p \in Procs |-> Opened]
    /\ hand = [p \in Procs |-> Nothing]
    /\ appended = 0

LastSeq == IF live = <<>> THEN rec.rolled ELSE Last(live).seq
Recorded(m) == \E i \in DOMAIN live : live[i].msg = m

Goes(p, from, to) == pc[p] = from /\ pc' = [pc EXCEPT ![p] = to]
Takes(p, what) == hand' = [hand EXCEPT ![p] = what]
Loads(p) == mem' = [mem EXCEPT ![p] = rec]

\* A read of thread.json for a later write of it.
ReadRecord(p, from, to) ==
    /\ Goes(p, from, to) /\ Loads(p)
    /\ UNCHANGED <<files, rec, hand, appended>>

\* writeThread: the whole file, as remembered, with the fields that changed.
WriteRecord(p, from, to, r) ==
    /\ Goes(p, from, to) /\ rec' = r
    /\ mem' = [mem EXCEPT ![p] = Opened]
    /\ IF to = "idle" THEN Takes(p, Nothing) ELSE UNCHANGED hand
    /\ UNCHANGED <<files, appended>>

-----------------------------------------------------------------------------
(* appendTurn *)

\* The live file is read for a repetition and for the last sequence number.
BeginTurn(p, m) ==
    /\ p \in Appenders
    /\ appended < MaxTurns
    /\ ~Recorded(m)
    /\ Goes(p, "idle", "turn")
    /\ Takes(p, [Nothing EXCEPT !.msg = m, !.seq = IF live = <<>> THEN 0 ELSE Last(live).seq])
    /\ appended' = appended + 1
    /\ UNCHANGED <<files, rec, mem>>

LoadForTurn(p) == ReadRecord(p, "turn", "append")

AppendRow(p) ==
    /\ Goes(p, "append", IF hand[p].msg \in UserMsgs /\ ~mem[p].titled THEN "title" ELSE "size")
    /\ live' = Append(live, [msg |-> hand[p].msg,
                             seq |-> 1 + (IF hand[p].seq > 0 THEN hand[p].seq ELSE mem[p].rolled)])
    /\ Takes(p, [hand[p] EXCEPT !.seq = 0])
    /\ IF pc'[p] = "title" THEN UNCHANGED mem ELSE mem' = [mem EXCEPT ![p] = Opened]
    /\ UNCHANGED <<archive, digest, lock, rec, appended>>

\* The first turn of the user names the thread.
NameThread(p) == WriteRecord(p, "title", "size", [mem[p] EXCEPT !.titled = TRUE])

-----------------------------------------------------------------------------
(* rollTurnsIfNeeded, withRotationLock *)

Gate(p, from, over, under) ==
    /\ Goes(p, from, IF Len(live) < Cap THEN under ELSE over)
    /\ UNCHANGED <<files, rec, mem, hand, appended>>

SizeGate(p) == Gate(p, "size", "lock", "sent")

TakeLock(p) ==
    /\ lock = Nobody /\ lock' = p
    /\ Goes(p, "lock", "again")
    /\ UNCHANGED <<live, archive, digest, rec, mem, hand, appended>>

\* Three retries, then the rotation is left to a later append.
Defer(p) ==
    /\ lock # Nobody
    /\ Goes(p, "lock", "sent")
    /\ UNCHANGED <<files, rec, mem, hand, appended>>

\* A lock older than 5 s: nobody who lives holds it that long.
FindStale(p) ==
    /\ lock # Nobody /\ pc[lock] = "dead"
    /\ Goes(p, "lock", "remove")
    /\ UNCHANGED <<files, rec, mem, hand, appended>>

DropLock(p, from, to) ==
    /\ Goes(p, from, to) /\ lock' = Nobody
    /\ UNCHANGED <<live, archive, digest, rec, mem, hand, appended>>

RemoveStale(p) == DropLock(p, "remove", "lock")

SizeAgain(p) == Gate(p, "again", "rename", "unlock")

Rename(p) ==
    /\ live # <<>>
    /\ Goes(p, "rename", "rows")
    /\ archive' = live /\ live' = <<>>
    /\ UNCHANGED <<digest, lock, rec, mem, hand, appended>>

\* A foreign handle on the file outlasts the retries, or the file is gone.
RenameFails(p) ==
    /\ Goes(p, "rename", "unlock")
    /\ UNCHANGED <<files, rec, mem, hand, appended>>

CountRows(p) ==
    /\ Goes(p, "rows", "count")
    /\ Takes(p, [hand[p] EXCEPT !.rows = Len(archive)])
    /\ UNCHANGED <<files, rec, mem, appended>>

LoadForCount(p) == ReadRecord(p, "count", "save")
SaveCount(p) == WriteRecord(p, "save", "unlock", [mem[p] EXCEPT !.rolled = @ + hand[p].rows])
Unlock(p) == DropLock(p, "unlock", "sent")

-----------------------------------------------------------------------------
(* noteMessageId, for the turns of the user; the agent's turns have none *)

LoadForNote(p) ==
    /\ hand[p].msg \in UserMsgs \ rec.noted
    /\ ReadRecord(p, "sent", "note")

NoNote(p) ==
    /\ hand[p].msg \notin UserMsgs \ rec.noted
    /\ Goes(p, "sent", "idle")
    /\ Takes(p, Nothing)
    /\ UNCHANGED <<files, rec, mem, appended>>

SaveNote(p) == WriteRecord(p, "note", "idle", [mem[p] EXCEPT !.noted = @ \cup {hand[p].msg}])

-----------------------------------------------------------------------------
(* writeAutoDigest, setDigest, closeThread *)

\* closeThread writes a digest first.  readThread is one read here.
BeginDigest(p) ==
    /\ \E closing \in BOOLEAN :
          /\ closing => rec.open
          /\ Takes(p, [Nothing EXCEPT !.seq = LastSeq, !.closing = closing])
    /\ Goes(p, "idle", "digest")
    /\ UNCHANGED <<files, rec, mem, appended>>

WriteDigest(p) ==
    /\ Goes(p, "digest", "digested") /\ digest' = hand[p].seq
    /\ UNCHANGED <<live, archive, lock, rec, mem, hand, appended>>

LoadForDigest(p) == ReadRecord(p, "digested", "through")
SaveDigest(p) == WriteRecord(p, "through", IF hand[p].closing THEN "fresh" ELSE "idle",
                             [mem[p] EXCEPT !.through = hand[p].seq])
LoadForClose(p) == ReadRecord(p, "fresh", "close")
SaveClose(p) == WriteRecord(p, "close", "idle", [mem[p] EXCEPT !.open = FALSE])

-----------------------------------------------------------------------------
(* resolveThread: a reply to a turn of a closed thread reopens it *)

LoadForReopen(p) == ~rec.open /\ live \o archive # <<>> /\ ReadRecord(p, "idle", "reopen")
SaveReopen(p) == WriteRecord(p, "reopen", "idle", [mem[p] EXCEPT !.open = TRUE])

(* rebuildThreads: the counter is raised to the rows of the archive, and a   *)
(* missing title is taken from the first turn of the user                   *)

LoadForRebuild(p) == ReadRecord(p, "idle", "rebuild")

Rebuild(p) ==
    LET repaired == [mem[p] EXCEPT
            !.rolled = IF @ < Len(archive) THEN Len(archive) ELSE @,
            !.titled = @ \/ \E i \in DOMAIN (archive \o live) : (archive \o live)[i].msg \in UserMsgs]
    IN  /\ Goes(p, "rebuild", "idle")
        /\ rec' = IF repaired = mem[p] THEN rec ELSE repaired
        /\ mem' = [mem EXCEPT ![p] = Opened]
        /\ UNCHANGED <<files, hand, appended>>

Die(p) ==
    /\ p \in Mortal /\ pc[p] # "dead"
    /\ pc' = [pc EXCEPT ![p] = "dead"]
    /\ mem' = [mem EXCEPT ![p] = Opened]
    /\ Takes(p, Nothing)
    /\ UNCHANGED <<files, rec, appended>>

Step(p) ==
    \/ \E m \in Msgs : BeginTurn(p, m)
    \/ LoadForTurn(p) \/ AppendRow(p) \/ NameThread(p)
    \/ SizeGate(p) \/ TakeLock(p) \/ Defer(p) \/ FindStale(p) \/ RemoveStale(p)
    \/ SizeAgain(p) \/ Rename(p) \/ RenameFails(p)
    \/ CountRows(p) \/ LoadForCount(p) \/ SaveCount(p) \/ Unlock(p)
    \/ LoadForNote(p) \/ NoNote(p) \/ SaveNote(p)
    \/ BeginDigest(p) \/ WriteDigest(p) \/ LoadForDigest(p) \/ SaveDigest(p)
    \/ LoadForClose(p) \/ SaveClose(p)
    \/ LoadForReopen(p) \/ SaveReopen(p)
    \/ LoadForRebuild(p) \/ Rebuild(p)
    \/ Die(p)

Next == \E p \in Procs : Step(p)
Spec == Init /\ [][Next]_vars

-----------------------------------------------------------------------------
\* "the invariant `rolled_turns >= rolledRows.length` always holds"
\* (rebuildThreads), read as: whenever nobody is at work on the thread.  The
\* next sequence number after a rotation is taken from that counter.
CounterCovers ==
    (\A p \in Procs : pc[p] \in {"idle", "dead"}) => rec.rolled >= Len(archive)

=============================================================================
