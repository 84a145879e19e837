--------------------------- MODULE AgentLaneShared ---------------------------
(***************************************************************************)
(* The lane of AgentLane as machines really use it: interactive sessions   *)
(* come online beside the delegate (`agent wait`), and the delegate may be *)
(* killed alone, its wake surviving it.  Presence is then all that keeps   *)
(* two sessions from the same mailbox.                                     *)
(***************************************************************************)
EXTENDS AgentLane

\* An interactive session runs the standby loop: agent wait, first of all.
StandbyOnline(s) ==
    /\ at[s] = "off"
    /\ To(s, "waiting")
    /\ UNCHANGED <<mailVars, lineVars, loopVars, msg, copy, countVars>>

\* agent wait, step 1: a foreign live session ends this one.
WaitCheck(s) ==
    /\ at[s] = "waiting"
    /\ To(s, IF Foreign(s) THEN "off" ELSE "owning")
    /\ UNCHANGED <<mailVars, lineVars, loopVars, msg, copy, countVars>>

\* Step 2: own the presence.
WaitOwn(s) ==
    /\ at[s] = "owning"
    /\ presence' = [by |-> s, fresh |-> TRUE]
    /\ To(s, "polling")
    /\ UNCHANGED <<mailVars, stage, loopVars, msg, copy, countVars>>

\* Steps 3 to 5: a stop, mail to claim, or another round.
WaitPoll(s) ==
    /\ at[s] = "polling"
    /\ To(s, IF stage = "stop" THEN "off"
             ELSE IF stage # "pause" /\ Ids("new") # {} THEN "idle" ELSE "waiting")
    /\ UNCHANGED <<mailVars, lineVars, loopVars, msg, copy, countVars>>

\* The mail is dealt with: wait again.
StandbyAgain(s) ==
    /\ at[s] = "idle"
    /\ To(s, "waiting")
    /\ UNCHANGED <<mailVars, lineVars, loopVars, msg, copy, countVars>>

\* A heartbeat that finds a foreign live session: this session must stop.
Ousted(s) ==
    /\ Between(s)
    /\ Foreign(s)
    /\ outcome' = IF s = child THEN "ok" ELSE outcome
    /\ msg' = [msg EXCEPT ![s] = NoMsg]
    /\ To(s, "off")
    /\ UNCHANGED <<mailVars, lineVars, pc, paused, gate, todo, cur, held, counted, before,
                   failures, child, copy, countVars>>

\* agent complete, when the message is not in claimed (any more).
CompleteRefused(s) ==
    /\ at[s] \in {"working", "moving"}
    /\ ~Has("claimed", msg[s])
    /\ msg' = [msg EXCEPT ![s] = NoMsg]
    /\ To(s, "idle")
    /\ UNCHANGED <<mailVars, lineVars, loopVars, copy, countVars>>

\* The file is gone before its rename: the error ends the loop.
RequeueLost ==
    /\ pc \in {"back", "failout"}
    /\ ~Has("claimed", cur)
    /\ Exit
    /\ UNCHANGED <<mailVars, stage, paused, sessionVars, countVars>>

\* SIGKILL or an OOM kill of the delegate alone: its child is a process group
\* of its own and lives on.
DelegateKilled ==
    /\ pc # "off"
    /\ crashes < MaxCrash
    /\ crashes' = crashes + 1
    /\ Goto("off")
    /\ Forget
    /\ UNCHANGED <<mailVars, lineVars, paused, sessionVars, claims, excused, stalls>>

StandbyStep(s) ==
    \/ StandbyOnline(s) \/ WaitCheck(s) \/ WaitOwn(s) \/ WaitPoll(s) \/ StandbyAgain(s)
    \/ Session(s)

SharedNext ==
    \/ Next \/ RequeueLost \/ DelegateKilled
    \/ \E s \in Standbys : StandbyStep(s)
    \/ \E s \in Sessions : Ousted(s) \/ CompleteRefused(s)

SharedSpec == Init /\ [][SharedNext]_vars

-----------------------------------------------------------------------------
\* "Reclaim presence (the child is gone; its last heartbeat is history)": after
\* a wake that ended well, the fresh heartbeat the delegate overwrites is not one
\* of a live session that has a message in work.
HeartbeatIsHistory ==
    pc = "reclaim" /\ outcome = "ok" /\ presence.by \in Sessions /\ presence.fresh
        => ~Live(presence.by) \/ msg[presence.by] = NoMsg

=============================================================================
