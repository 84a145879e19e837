----------------------------- MODULE DaemonPid ------------------------------
(***************************************************************************)
(* The pid file of a background daemon (lib/agent-lifecycle/_bridge.mjs):  *)
(* how a process claims it (acquirePidFile), how it gives it up, and the   *)
(* hook that starts a daemon nobody runs and stamps the file with the pid  *)
(* of the child (_comms.mjs, start.mjs).  The scheduler, the relay, the    *)
(* delegate and the office use it alike; what a daemon does once it is up  *)
(* is another module's.                                                    *)
(*                                                                         *)
(* One step is one file access.  A pid names one process at a time; a      *)
(* number may come back once neither the file nor a hook holds it.         *)
(***************************************************************************)
EXTENDS Naturals, FiniteSets

CONSTANTS
    Pids,      \* process ids a daemon may get
    NoPid,
    Overlap    \* may a daemon be started while another start is going on?

ASSUME PidAssumption ==
    /\ NoPid \notin Pids /\ {"idle", "spawn"} \cap Pids = {}
    /\ Overlap \in BOOLEAN

VARIABLES
    pidFile,   \* <daemon>.pid.json: none, or the pid in it, complete or not
    at,        \* where each process is on its way up
    tries,     \* attempts of acquirePidFile it has left
    hook       \* the start hook: idle, decided to spawn, or the pid to stamp

pidVars == <<pidFile, at, tries, hook>>

Starting == {"start", "read", "clear", "create", "write"}
Places == {"gone", "up"} \cup Starting

NoFile == [pid |-> NoPid, whole |-> FALSE]
Names(p) == [pid |-> p, whole |-> TRUE]
Files == {NoFile} \cup [pid : Pids, whole : BOOLEAN]

Alive(p) == at[p] # "gone"
Up(p) == at[p] = "up"

(* readJsonFile gives null for no file and for half a file. *)
Owner == IF pidFile.whole THEN pidFile.pid ELSE NoPid

(* isDaemonRunning *)
Running == Owner # NoPid /\ Alive(Owner)

PidTypeOK ==
    /\ pidFile \in Files
    /\ at \in [Pids -> Places]
    /\ tries \in [Pids -> 0 .. 1]
    /\ hook \in {"idle", "spawn"} \cup Pids

PidInit ==
    /\ pidFile = NoFile
    /\ at = [p \in Pids |-> "gone"]
    /\ tries = [p \in Pids |-> 0]
    /\ hook = "idle"

-----------------------------------------------------------------------------
(* Starting a process *)

Fresh(p) == at[p] = "gone" /\ pidFile.pid # p /\ hook # p

\* No other start is on its way.
Quiet == hook = "idle" /\ \A p \in Pids : at[p] \notin Starting

\* An operator types `serve` (or `delegate`).
Serve(p) ==
    /\ Fresh(p)
    /\ Overlap \/ Quiet
    /\ at' = [at EXCEPT ![p] = "start"]
    /\ UNCHANGED <<pidFile, tries, hook>>

\* ensureCommsProcesses, first half: nothing runs, so one is to be spawned.
HookLooks ==
    /\ hook = "idle" /\ ~Running
    /\ Overlap \/ Quiet
    /\ hook' = "spawn"
    /\ UNCHANGED <<pidFile, at, tries>>

\* spawnDaemon: a detached child.
HookSpawns(p) ==
    /\ hook = "spawn" /\ Fresh(p)
    /\ at' = [at EXCEPT ![p] = "start"]
    /\ hook' = p
    /\ UNCHANGED <<pidFile, tries>>

\* writePidFile: the provisional stamp, written over whatever is there.
HookStamps ==
    /\ hook \in Pids
    /\ pidFile' = Names(hook)
    /\ hook' = "idle"
    /\ UNCHANGED <<at, tries>>

-----------------------------------------------------------------------------
(* acquirePidFile *)

\* What the daemon does before its claim is over.
BeginClaim(p) ==
    /\ at[p] = "start"
    /\ at' = [at EXCEPT ![p] = "read"]
    /\ tries' = [tries EXCEPT ![p] = 1]
    /\ UNCHANGED <<pidFile, hook>>

\* Fault: a file that does not name us is stale.
ReadOwnerFault(p) ==
    /\ at[p] = "read"
    /\ at' = [at EXCEPT ![p] = IF Owner = p THEN "up" ELSE "clear"]
    /\ UNCHANGED <<pidFile, tries, hook>>

\* A file that names us is ours, one that names another live process is its.
ReadOwner(p) ==
    /\ at[p] = "read"
    /\ at' = [at EXCEPT ![p] = CASE Owner = p -> "up"
                                 [] Owner # p /\ Running -> "gone"
                                 [] OTHER -> "clear"]
    /\ UNCHANGED <<pidFile, tries, hook>>

\* Stale or unreadable: removed so that the exclusive create can decide.
ClearStale(p) ==
    /\ at[p] = "clear"
    /\ pidFile' = NoFile
    /\ at' = [at EXCEPT ![p] = "create"]
    /\ UNCHANGED <<tries, hook>>

\* The exclusive create; losing it is one more look at who won.
CreateFile(p) ==
    /\ at[p] = "create"
    /\ \/ /\ pidFile = NoFile
          /\ pidFile' = [pid |-> p, whole |-> FALSE]
          /\ at' = [at EXCEPT ![p] = "write"]
          /\ UNCHANGED tries
       \/ /\ pidFile # NoFile
          /\ at' = [at EXCEPT ![p] = IF tries[p] > 0 THEN "read" ELSE "gone"]
          /\ tries' = [tries EXCEPT ![p] = IF @ > 0 THEN @ - 1 ELSE @]
          /\ UNCHANGED pidFile
    /\ UNCHANGED hook

\* The record goes to the file that was created, were it removed meanwhile.
WriteFile(p) ==
    /\ at[p] = "write"
    /\ pidFile' = IF pidFile.pid = p THEN Names(p) ELSE pidFile
    /\ at' = [at EXCEPT ![p] = "up"]
    /\ UNCHANGED <<tries, hook>>

Claim(p) == ReadOwner(p) \/ ClearStale(p) \/ CreateFile(p) \/ WriteFile(p)

-----------------------------------------------------------------------------
(* The end of a daemon *)

\* cleanup / dropPidFile: only a file that still names us.
Drop(p) ==
    /\ pidFile' = IF Owner = p THEN NoFile ELSE pidFile
    /\ at' = [at EXCEPT ![p] = "gone"]
    /\ UNCHANGED <<tries, hook>>

\* Killed, or the machine's power cut: the file stays.
Die(p) ==
    /\ Alive(p)
    /\ at' = [at EXCEPT ![p] = "gone"]
    /\ UNCHANGED <<pidFile, tries, hook>>

=============================================================================
