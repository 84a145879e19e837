--------------------------- MODULE AgentLaneProofs ---------------------------
(***************************************************************************)
(* What the mailbox of a lane relies on, for any messages, wakes and       *)
(* limits.  The delegate and the wake it spawned never work at once; so    *)
(* each of them finds the files it read where it read them; so the counter *)
(* in a file stands for the claims that were made of its message.          *)
(***************************************************************************)
EXTENDS AgentLane, FiniteSetTheorems, TLAPS

\* A session works only while the delegate awaits it, and it is the child.
Alone == \A s \in Sessions : Live(s) => pc = "await" /\ s = child

\* A list of claims to take back exists only inside the requeue.
Requeueing == {"recover", "stamp", "back", "failout", "tell"}
ListInUse == todo # {} => pc \in Requeueing

\* The functions over the sessions have them for their domain.
SessionTypes ==
    /\ DOMAIN at = Sessions
    /\ DOMAIN msg = Sessions

AloneInv == SessionTypes /\ Alone /\ ListInUse

LEMMA AloneInit == Init => AloneInv
  BY DEF Init, AloneInv, SessionTypes, Alone, ListInUse, Live

\* Every step of the delegate keeps it.
LEMMA AloneTick == AloneInv /\ Tick => AloneInv'
<1> SUFFICES ASSUME AloneInv, Tick PROVE AloneInv'
  OBVIOUS
<1> USE DEF AloneInv, SessionTypes, Alone, ListInUse, Live, Requeueing, Goto, Exit, Forget,
            sessionVars, localVars
<1>1. CASE CheckForeign \/ OwnPresence \/ ControlGate \/ Pending \/ Settle \/ ReleasePresence
  BY <1>1 DEF CheckForeign, OwnPresence, ControlGate, Pending, Settle, ReleasePresence
<1>2. CASE ListClaims \/ RequeueStamp \/ RequeueMove \/ FailOutMove \/ FailOutReply \/ Recovered
  BY <1>2 DEF ListClaims, RequeueStamp, RequeueMove, FailOutMove, FailOutReply, Recovered
<1>3. ASSUME NEW m \in Msgs, RequeueRead(m) PROVE AloneInv'
  BY <1>3 DEF RequeueRead
<1>4. CASE QuotaWait \/ QuotaOver \/ SpawnError \/ WakeOver \/ ReclaimPresence
  BY <1>4 DEF QuotaWait, QuotaOver, SpawnError, WakeOver, ReclaimPresence
<1>5. ASSUME NEW w \in Wakes, SpawnWake(w) PROVE AloneInv'
  BY <1>5 DEF SpawnWake
<1>6. CASE JudgeStop \/ JudgeQuota \/ JudgeProgress \/ JudgeFailure \/ JudgeLastFailure
  BY <1>6 DEF JudgeStop, JudgeQuota, JudgeProgress, JudgeFailure, JudgeLastFailure
<1> QED
  BY <1>1, <1>2, <1>3, <1>4, <1>5, <1>6 DEF Tick, Recovery

\* Every step of the wake it awaits, of a sender, of the operator, of time.
LEMMA AloneRest == AloneInv /\ [Next]_vars /\ ~Tick => AloneInv'
<1> SUFFICES ASSUME AloneInv, [Next]_vars, ~Tick PROVE AloneInv'
  OBVIOUS
<1> USE DEF AloneInv, SessionTypes, Alone, ListInUse, Live, Requeueing, Goto, Forget,
            loopVars, localVars, sessionVars
<1>1. CASE Start
  BY <1>1 DEF Start
<1>2. ASSUME NEW w \in Wakes, Session(w) PROVE AloneInv'
  <2>1. w \in Sessions
    BY DEF Sessions
  <2>2. CASE Beat(w) \/ BeatWrite(w) \/ ClaimRead(w) \/ ClaimStamp(w) \/ Abandon(w)
    BY <2>1, <2>2 DEF Beat, BeatWrite, ClaimRead, ClaimStamp, Abandon, Between, To, Resting
  <2>3. ASSUME NEW m \in Msgs, ClaimRename(w, m) PROVE AloneInv'
    BY <2>1, <2>3 DEF ClaimRename, To
  <2>4. CASE CompleteRead(w) \/ CompleteWrite(w) \/ CompleteMove(w)
    BY <2>1, <2>4 DEF CompleteRead, CompleteWrite, CompleteMove, To
  <2>5. ASSUME NEW n \in {0, 1}, CompleteReply(w, n) PROVE AloneInv'
    BY <2>1, <2>5 DEF CompleteReply, To
  <2>6. ASSUME NEW how \in {"ok", "failed", "quota"}, End(w, how) PROVE AloneInv'
    BY <2>1, <2>6 DEF End, To
  <2> QED
    BY <1>2, <2>2, <2>3, <2>4, <2>5, <2>6 DEF Session, Verb
<1>3. ASSUME NEW m \in Msgs, Send(m) PROVE AloneInv'
  BY <1>3 DEF Send
<1>4. ASSUME NEW st \in Stages, Control(st) PROVE AloneInv'
  BY <1>4 DEF Control
<1>5. CASE PresenceExpires \/ PowerCut
  BY <1>5 DEF PresenceExpires, PowerCut
<1>6. CASE UNCHANGED vars
  BY <1>6 DEF vars
<1> QED
  BY <1>1, <1>2, <1>3, <1>4, <1>5, <1>6 DEF Next

\* The wake loop and the session it spawned take turns.
THEOREM LaneAlone == Spec => []AloneInv
<1>1. AloneInv /\ [Next]_vars => AloneInv'
  BY AloneTick, AloneRest
<1> QED
  BY AloneInit, <1>1, PTL DEF Spec

\* "every claim still sitting in claimed/ belongs to a dead session", for a
\* delegate that is alone with its wakes (requeueOrphanedClaims).
THEOREM LaneOrphansOnly == Spec => []OrphansOnly
<1>1. AloneInv => OrphansOnly
  BY DEF AloneInv, Alone, ListInUse, Requeueing, OrphansOnly
<1> QED
  BY <1>1, LaneAlone, PTL

-----------------------------------------------------------------------------
(* The files: at most one per message, wherever a claim, a completion or a
   requeue is cut off *)

FileTypes ==
    /\ inbox \in [Folders -> [Msgs -> SUBSET Letters]]
    /\ held \in Letters /\ copy \in [Sessions -> Letters]
    /\ cur \in Msgs \cup {NoMsg} /\ msg \in [Sessions -> Msgs \cup {NoMsg}]
    /\ at \in [Sessions -> {"off", "idle", "beating", "renamed", "stamping", "working",
                            "finishing", "moving", "replying"}]
    /\ todo \subseteq Msgs

\* A message has a file in one folder, and there one file.
Apart ==
    \A m \in Msgs, f, g \in Folders : Has(f, m) /\ Has(g, m) => f = g
Single ==
    \A m \in Msgs, f \in Folders : inbox[f][m] = {} \/ \E x \in Letters : inbox[f][m] = {x}

\* What a verb, or the requeue, has in hand is in claimed until it moves it.
SessionInHand ==
    \A s \in Sessions :
        /\ at[s] \in {"renamed", "stamping", "finishing", "moving"}
            => msg[s] \in Msgs /\ Has("claimed", msg[s])
        /\ at[s] = "working" => msg[s] \in Msgs
RequeueInHand ==
    /\ pc \in {"stamp", "back", "failout"} => cur \in todo
    /\ pc \in {"stamp", "back", "failout"} => Has("claimed", cur)
    /\ pc = "tell" => cur \in todo
    /\ \A m \in todo : Has("claimed", m) \/ (pc = "tell" /\ m = cur)

FileInv == FileTypes /\ Apart /\ Single /\ SessionInHand /\ RequeueInHand

\* A write or a rename touches the files of one message.
LEMMA PutFile ==
    ASSUME FileTypes, NEW f \in Folders, NEW m \in Msgs, NEW x \in Letters, Put(f, m, x)
    PROVE  /\ inbox' \in [Folders -> [Msgs -> SUBSET Letters]]
           /\ inbox'[f][m] = {x}
           /\ \A g \in Folders, n \in Msgs : g # f \/ n # m => inbox'[g][n] = inbox[g][n]
  BY DEF FileTypes, Put

LEMMA MoveFile ==
    ASSUME FileTypes, NEW m \in Msgs, NEW f \in Folders, NEW g \in Folders, f # g, Move(m, f, g)
    PROVE  /\ inbox' \in [Folders -> [Msgs -> SUBSET Letters]]
           /\ inbox'[f][m] = {} /\ inbox'[g][m] = inbox[f][m]
           /\ \A h \in Folders, n \in Msgs : n # m \/ h \notin {f, g} => inbox'[h][n] = inbox[h][n]
<1> DEFINE taken == [inbox EXCEPT ![f][m] = {}]
<1>1. /\ taken \in [Folders -> [Msgs -> SUBSET Letters]]
      /\ taken[f][m] = {}
      /\ \A h \in Folders, n \in Msgs : n # m \/ h # f => taken[h][n] = inbox[h][n]
  BY DEF FileTypes
<1>2. inbox' = [taken EXCEPT ![g][m] = inbox[f][m]]
  BY DEF FileTypes, Move
<1>3. inbox[f][m] \in SUBSET Letters
  BY DEF FileTypes
<1> HIDE DEF taken
<1> QED
  BY <1>1, <1>2, <1>3

\* A file is put where the message has one already, or where it has none at all.
LEMMA PutApart ==
    ASSUME FileTypes, Apart, Single, NEW f \in Folders, NEW m \in Msgs, NEW x \in Letters,
           Put(f, m, x), Has(f, m) \/ \A g \in Folders : ~Has(g, m)
    PROVE  /\ Apart' /\ Single'
           /\ \A n \in Msgs, g \in Folders : Has(g, n) => Has(g, n)'
  BY PutFile DEF Apart, Single, Has

LEMMA MoveApart ==
    ASSUME FileTypes, Apart, Single, NEW m \in Msgs, NEW f \in Folders, NEW g \in Folders,
           f # g, Has(f, m), Move(m, f, g)
    PROVE  /\ Apart' /\ Single' /\ Has(g, m)'
           /\ \A n \in Msgs, h \in Folders : n # m /\ Has(h, n) => Has(h, n)'
<1>1. \A h \in Folders : Has(h, m)' => h = g
  BY MoveFile DEF Apart, Has
<1>2. \A n \in Msgs, h \in Folders : n # m => inbox'[h][n] = inbox[h][n]
  BY MoveFile
<1>3. inbox'[g][m] = inbox[f][m] /\ inbox'[f][m] = {}
  BY MoveFile
<1>4. Apart'
  BY <1>1, <1>2 DEF Apart, Has
<1>5. Single'
  <2> SUFFICES ASSUME NEW n \in Msgs, NEW h \in Folders
               PROVE  inbox'[h][n] = {} \/ \E x \in Letters : inbox'[h][n] = {x}
    BY DEF Single
  <2>1. CASE n # m
    BY <2>1, <1>2 DEF Single
  <2>2. CASE n = m
    BY <2>2, <1>1, <1>3 DEF Single, Has
  <2> QED
    BY <2>1, <2>2
<1> QED
  BY <1>2, <1>3, <1>4, <1>5 DEF Has

LEMMA BlankIsALetter == Blank \in Letters
  BY DEF Blank, Letters

LEMMA ReadIsALetter == ASSUME FileTypes, NEW m \in Msgs PROVE ReadClaimed(m) \in Letters
<1>1. inbox["claimed"][m] \subseteq Letters
  BY DEF FileTypes, Folders
<1>2. CASE Has("claimed", m)
  BY <1>1, <1>2 DEF ReadClaimed, Has
<1> QED
  BY <1>2, BlankIsALetter DEF ReadClaimed

LEMMA FileInit == Init => FileInv
  BY BlankIsALetter
     DEF Init, FileInv, FileTypes, Apart, Single, SessionInHand, RequeueInHand, Has, Folders

\* No session has anything in hand while the delegate is not waiting for one.
LEMMA NobodyWorks ==
    ASSUME AloneInv, pc # "await", at' = at PROVE SessionInHand'
  BY DEF AloneInv, SessionTypes, Alone, Live, SessionInHand

\* A tick that moves no file, and takes nothing more in hand.
LEMMA QuietTick ==
    ASSUME FileInv, AloneInv, UNCHANGED <<inbox, msg>>,
           UNCHANGED at \/ \E w \in Wakes : at' = [at EXCEPT ![w] = "idle"],
           pc' \notin Requeueing,
           copy' = copy, held' \in Letters,
           UNCHANGED <<todo, cur>> \/ (todo' = {} /\ cur' = NoMsg),
           todo = {} \/ todo' = {}
    PROVE  FileInv'
<1> USE DEF FileInv, FileTypes
<1>1. FileTypes'
  BY DEF Sessions
<1>2. Apart' /\ Single'
  BY DEF Apart, Single, Has
<1>3. SessionInHand'
  BY DEF SessionInHand, Has, Sessions
<1>4. RequeueInHand'
  BY DEF RequeueInHand, Requeueing
<1> QED
  BY <1>1, <1>2, <1>3, <1>4

LEMMA FileTick == FileInv /\ AloneInv /\ Tick => FileInv'
<1> SUFFICES ASSUME FileInv, AloneInv, Tick PROVE FileInv'
  OBVIOUS
<1>1. pc \notin Requeueing => todo = {}
  BY DEF AloneInv, ListInUse
<1>2. held \in Letters /\ Blank \in Letters
  BY BlankIsALetter DEF FileInv, FileTypes
<1>3. CASE CheckForeign \/ OwnPresence \/ ControlGate \/ Pending \/ Settle \/ ReleasePresence
  BY <1>1, <1>2, <1>3, QuietTick
     DEF CheckForeign, OwnPresence, ControlGate, Pending, Settle, ReleasePresence, Exit, Forget,
         Goto, Requeueing, mailVars, sessionVars, localVars
<1>4. CASE QuotaWait \/ QuotaOver \/ SpawnError \/ WakeOver \/ ReclaimPresence
  BY <1>1, <1>2, <1>4, QuietTick
     DEF QuotaWait, QuotaOver, SpawnError, WakeOver, ReclaimPresence, Goto, Requeueing, mailVars,
         sessionVars, localVars
<1>5. CASE JudgeStop \/ JudgeQuota \/ JudgeProgress \/ JudgeFailure \/ JudgeLastFailure
  BY <1>1, <1>2, <1>5, QuietTick
     DEF JudgeStop, JudgeQuota, JudgeProgress, JudgeFailure, JudgeLastFailure, Exit, Forget, Goto,
         Requeueing, mailVars, sessionVars
<1>6. ASSUME NEW w \in Wakes, SpawnWake(w) PROVE FileInv'
  BY <1>1, <1>2, <1>6, QuietTick DEF SpawnWake, Goto, Requeueing, mailVars
<1>7. CASE Recovered
  BY <1>2, <1>7, QuietTick DEF Recovered, Goto, Requeueing, mailVars, sessionVars
<1>8. CASE ListClaims
  <2> USE <1>8 DEF ListClaims, mailVars, sessionVars, Goto
  <2>1. SessionInHand'
    BY NobodyWorks
  <2>2. FileTypes' /\ Apart' /\ Single'
    BY DEF FileInv, FileTypes, Apart, Single, Has, Ids
  <2>3. RequeueInHand'
    BY DEF RequeueInHand, Ids, Has
  <2> QED
    BY <2>1, <2>2, <2>3 DEF FileInv
<1>9. ASSUME NEW m \in Msgs, RequeueRead(m) PROVE FileInv'
  <2> USE <1>9 DEF RequeueRead, mailVars, sessionVars, Goto
  <2>1. SessionInHand'
    BY NobodyWorks
  <2>2. FileTypes' /\ Apart' /\ Single'
    BY ReadIsALetter DEF FileInv, FileTypes, Apart, Single, Has
  <2>3. RequeueInHand'
    BY DEF FileInv, RequeueInHand, Has
  <2> QED
    BY <2>1, <2>2, <2>3 DEF FileInv
<1>10. CASE RequeueStamp
  <2> USE <1>10 DEF mailVars, sessionVars, Goto
  <2>1. PICK x \in Letters : Put("claimed", cur, x)
    <3>1. [held EXCEPT !.result = "failed"] \in Letters
      BY <1>2 DEF Letters
    <3>2. [held EXCEPT !.count = IF counted THEN held.count + 1 ELSE held.count] \in Letters
      BY <1>2 DEF Letters
    <3> QED
      BY <3>1, <3>2 DEF RequeueStamp
  <2>2. cur \in Msgs /\ cur \in todo /\ Has("claimed", cur) /\ "claimed" \in Folders
    BY DEF RequeueStamp, FileInv, FileTypes, RequeueInHand, Folders
  <2>3. Apart' /\ Single' /\ \A n \in Msgs, g \in Folders : Has(g, n) => Has(g, n)'
    BY <2>1, <2>2, PutApart DEF FileInv
  <2>4. FileTypes'
    BY <1>2, <2>1, <2>2, PutFile DEF RequeueStamp, FileInv, FileTypes
  <2>5. SessionInHand'
    BY NobodyWorks DEF RequeueStamp
  <2>6. RequeueInHand'
    BY <2>2, <2>3 DEF RequeueStamp, FileInv, FileTypes, RequeueInHand
  <2> QED
    BY <2>3, <2>4, <2>5, <2>6 DEF FileInv
<1>11. CASE RequeueMove
  <2> USE <1>11 DEF RequeueMove, sessionVars, Goto
  <2>1. cur \in Msgs /\ cur \in todo /\ {"claimed", "new"} \subseteq Folders
    BY DEF FileInv, FileTypes, RequeueInHand, Folders
  <2>2. Apart' /\ Single' /\ \A n \in Msgs, h \in Folders : n # cur /\ Has(h, n) => Has(h, n)'
    BY <2>1, MoveApart DEF FileInv
  <2>3. FileTypes'
    BY <2>1, MoveFile DEF FileInv, FileTypes
  <2>4. SessionInHand'
    BY NobodyWorks
  <2>5. RequeueInHand'
    BY <2>1, <2>2 DEF FileInv, FileTypes, RequeueInHand
  <2> QED
    BY <2>2, <2>3, <2>4, <2>5 DEF FileInv
<1>12. CASE FailOutMove
  <2> USE <1>12 DEF FailOutMove, sessionVars, localVars, Goto
  <2>1. cur \in Msgs /\ cur \in todo /\ {"claimed", "done"} \subseteq Folders
    BY DEF FileInv, FileTypes, RequeueInHand, Folders
  <2>2. Apart' /\ Single' /\ \A n \in Msgs, h \in Folders : n # cur /\ Has(h, n) => Has(h, n)'
    BY <2>1, MoveApart DEF FileInv
  <2>3. FileTypes'
    BY <2>1, MoveFile DEF FileInv, FileTypes
  <2>4. SessionInHand'
    BY NobodyWorks
  <2>5. RequeueInHand'
    BY <2>1, <2>2 DEF FileInv, FileTypes, RequeueInHand
  <2> QED
    BY <2>2, <2>3, <2>4, <2>5 DEF FileInv
<1>13. CASE FailOutReply
  <2> USE <1>13 DEF FailOutReply, sessionVars, Goto
  <2>1. SessionInHand'
    BY NobodyWorks
  <2>2. FileTypes' /\ Apart' /\ Single'
    BY DEF FileInv, FileTypes, Apart, Single, Has
  <2>3. RequeueInHand'
    BY DEF FileInv, RequeueInHand, Has
  <2> QED
    BY <2>1, <2>2, <2>3 DEF FileInv
<1> QED
  BY <1>3, <1>4, <1>5, <1>6, <1>7, <1>8, <1>9, <1>10, <1>11, <1>12, <1>13 DEF Tick, Recovery

\* A session that is stepping is the one the delegate awaits: it works alone.
LEMMA StepsAlone ==
    ASSUME AloneInv, FileInv, NEW w \in Wakes, at[w] # "off"
    PROVE  /\ w \in Sessions
           /\ \A s \in Sessions : s # w => at[s] = "off"
           /\ pc = "await" /\ todo = {}
  BY DEF AloneInv, Alone, ListInUse, Live, Requeueing, Sessions

\* What is left to show of a session's step: its own message.
LEMMA SessionStep ==
    ASSUME AloneInv, FileInv, NEW w \in Wakes, at[w] # "off", FileTypes', Apart', Single',
           UNCHANGED <<pc, todo>>,
           \A s \in Sessions : s # w => at'[s] = at[s],
           at'[w] \in {"renamed", "stamping", "finishing", "moving"}
               => msg'[w] \in Msgs /\ Has("claimed", msg[w])',
           at'[w] = "working" => msg'[w] \in Msgs
    PROVE  FileInv'
<1>1. RequeueInHand'
  BY StepsAlone DEF RequeueInHand
<1>2. SessionInHand'
  <2> SUFFICES ASSUME NEW s \in Sessions,
                      at'[s] \in {"renamed", "stamping", "finishing", "moving", "working"}
               PROVE  /\ msg'[s] \in Msgs
                      /\ at'[s] # "working" => Has("claimed", msg[s])'
    BY DEF SessionInHand
  <2>1. s = w
    BY StepsAlone
  <2> QED
    BY <2>1
<1> QED
  BY <1>1, <1>2 DEF FileInv

\* Every step of a wake: what it writes or renames is the message it has in hand.
LEMMA FileSession ==
    ASSUME FileInv, AloneInv, NEW w \in Wakes, Session(w) PROVE FileInv'
<1>1. w \in Sessions /\ {"new", "claimed", "done"} \subseteq Folders
  BY DEF Sessions, Folders
<1>2. at[w] # "off"
  BY DEF Session, Verb, Beat, BeatWrite, ClaimRead, ClaimStamp, ClaimRename, CompleteRead,
         CompleteWrite, CompleteMove, CompleteReply, Abandon, End, Live, Between
<1>3. FileTypes /\ Apart /\ Single /\ SessionInHand
  BY DEF FileInv
<1>4. at[w] \in {"renamed", "stamping", "finishing", "moving"}
        => msg[w] \in Msgs /\ Has("claimed", msg[w])
  BY <1>1, <1>3 DEF SessionInHand
<1>5. Blank \in Letters
  BY BlankIsALetter
<1> USE <1>1, <1>3, <1>4, <1>5
<1> USE DEF To, loopVars, localVars
<1>6. inbox' = inbox => Apart' /\ Single'
  BY DEF Apart, Single, Has
<1>7. CASE Beat(w) \/ BeatWrite(w) \/ Abandon(w)
  <2>1. PICK step \in {"beating", "idle", "working"} :
            To(w, step) /\ (step = "working" => msg'[w] \in Msgs)
    BY <1>7 DEF Beat, BeatWrite, Abandon, Resting, FileTypes
  <2>2. UNCHANGED <<inbox, pc, todo, cur, held, copy>> /\ msg' \in [Sessions -> Msgs \cup {NoMsg}]
    BY <1>7 DEF Beat, BeatWrite, Abandon, mailVars, FileTypes
  <2>3. FileTypes'
    BY <2>1, <2>2 DEF FileTypes
  <2> QED
    BY <1>6, <1>2, <2>1, <2>2, <2>3, SessionStep DEF FileTypes
<1>8. ASSUME NEW m \in Msgs, ClaimRename(w, m) PROVE FileInv'
  <2> USE <1>8 DEF ClaimRename
  <2>1. Apart' /\ Single' /\ Has("claimed", m)'
    BY MoveApart
  <2>2. FileTypes'
    BY MoveFile DEF FileTypes
  <2>3. msg'[w] = m /\ at'[w] = "renamed" /\ \A s \in Sessions : s # w => at'[s] = at[s]
    BY DEF FileTypes
  <2> QED
    BY <1>2, <2>1, <2>2, <2>3, SessionStep
<1>9. CASE ClaimRead(w) \/ CompleteRead(w)
  <2>1. msg[w] \in Msgs /\ Has("claimed", msg[w])
    BY <1>9 DEF ClaimRead, CompleteRead, SessionInHand
  <2>2. FileTypes' /\ Apart' /\ Single'
    BY <1>6, <1>9, <2>1, ReadIsALetter DEF ClaimRead, CompleteRead, mailVars, FileTypes
  <2>3. Has("claimed", msg[w])' /\ msg' = msg /\ \A s \in Sessions : s # w => at'[s] = at[s]
    BY <1>9, <2>1 DEF ClaimRead, CompleteRead, mailVars, FileTypes, Has
  <2> QED
    BY <1>2, <1>9, <2>1, <2>2, <2>3, SessionStep DEF ClaimRead, CompleteRead, FileTypes
<1>10. CASE ClaimStamp(w) \/ CompleteWrite(w)
  <2>1. PICK x \in Letters : Put("claimed", msg[w], x)
    BY <1>10 DEF ClaimStamp, CompleteWrite, FileTypes, Letters
  <2>2. msg[w] \in Msgs /\ Has("claimed", msg[w])
    BY <1>10 DEF ClaimStamp, CompleteWrite
  <2>3. Apart' /\ Single' /\ \A n \in Msgs, g \in Folders : Has(g, n) => Has(g, n)'
    BY <2>1, <2>2, PutApart
  <2>4. FileTypes'
    BY <1>10, <2>1, <2>2, PutFile DEF ClaimStamp, CompleteWrite, FileTypes
  <2>5. msg' = msg /\ \A s \in Sessions : s # w => at'[s] = at[s]
    BY <1>10 DEF ClaimStamp, CompleteWrite, FileTypes
  <2>6. Has("claimed", msg[w])'
    BY <2>2, <2>3, <2>5 DEF Has
  <2> QED
    BY <1>2, <1>10, <2>2, <2>3, <2>4, <2>5, <2>6, SessionStep
       DEF ClaimStamp, CompleteWrite, FileTypes
<1>11. CASE CompleteMove(w)
  <2> USE <1>11 DEF CompleteMove
  <2>1. Apart' /\ Single'
    BY MoveApart
  <2>2. FileTypes'
    BY MoveFile DEF FileTypes
  <2>3. at'[w] = "replying" /\ \A s \in Sessions : s # w => at'[s] = at[s]
    BY DEF FileTypes
  <2> QED
    BY <1>2, <2>1, <2>2, <2>3, SessionStep
<1>12. ASSUME NEW n \in {0, 1}, CompleteReply(w, n) PROVE FileInv'
  <2>1. FileTypes' /\ Apart' /\ Single'
    BY <1>6, <1>12 DEF CompleteReply, FileTypes
  <2> QED
    BY <1>2, <1>12, <2>1, SessionStep DEF CompleteReply, FileTypes
<1>13. ASSUME NEW how \in {"ok", "failed", "quota"}, End(w, how) PROVE FileInv'
  <2>1. FileTypes' /\ Apart' /\ Single'
    BY <1>6, <1>13 DEF End, mailVars, FileTypes
  <2> QED
    BY <1>2, <1>13, <2>1, SessionStep DEF End, FileTypes
<1> QED
  BY <1>7, <1>8, <1>9, <1>10, <1>11, <1>12, <1>13 DEF Session, Verb

LEMMA FileRest == FileInv /\ AloneInv /\ [Next]_vars /\ ~Tick => FileInv'
<1> SUFFICES ASSUME FileInv, AloneInv, [Next]_vars, ~Tick PROVE FileInv'
  OBVIOUS
<1>1. CASE Start
  <2>1. todo = {}
    BY <1>1 DEF Start, AloneInv, ListInUse, Requeueing
  <2> QED
    BY <1>1, <2>1, QuietTick
       DEF Start, Goto, Requeueing, mailVars, sessionVars, localVars, FileInv, FileTypes
<1>2. ASSUME NEW w \in Wakes, Session(w) PROVE FileInv'
  BY <1>2, FileSession
<1>3. ASSUME NEW m \in Msgs, Send(m) PROVE FileInv'
  <2> USE <1>3 DEF Send, loopVars, localVars, sessionVars
  <2>1. "new" \in Folders /\ Blank \in Letters
    BY BlankIsALetter DEF Folders
  <2>2. Apart' /\ Single' /\ \A n \in Msgs, g \in Folders : Has(g, n) => Has(g, n)'
    BY <2>1, PutApart DEF FileInv
  <2>3. FileTypes'
    BY <2>1, PutFile DEF FileInv, FileTypes
  <2>4. SessionInHand'
    BY <2>2 DEF FileInv, SessionInHand, Folders, Has
  <2>5. RequeueInHand'
    BY <2>2 DEF FileInv, FileTypes, RequeueInHand, Folders, Has
  <2> QED
    BY <2>2, <2>3, <2>4, <2>5 DEF FileInv
<1>4. ASSUME UNCHANGED <<mailVars, pc, todo, cur, held, sessionVars>> PROVE FileInv'
  BY <1>4 DEF mailVars, sessionVars, FileInv, FileTypes, Apart, Single, SessionInHand,
              RequeueInHand, Has
<1>5. ASSUME NEW st \in Stages, Control(st) PROVE FileInv'
  BY <1>4, <1>5 DEF Control, loopVars, localVars
<1>6. CASE PresenceExpires
  BY <1>4, <1>6 DEF PresenceExpires, loopVars, localVars
<1>7. CASE PowerCut
  BY <1>7, BlankIsALetter
     DEF PowerCut, Forget, Goto, mailVars, FileInv, FileTypes, Apart, Single, SessionInHand,
         RequeueInHand, Has
<1>8. CASE UNCHANGED vars
  BY <1>4, <1>8 DEF vars, loopVars, localVars
<1> QED
  BY <1>1, <1>2, <1>3, <1>5, <1>6, <1>7, <1>8 DEF Next

\* What a verb or the requeue moves is there for it to move.
THEOREM LaneFiles == Spec => [](FileInv /\ AloneInv)
<1>1. FileInv /\ AloneInv /\ [Next]_vars => FileInv' /\ AloneInv'
  BY FileTick, FileRest, AloneTick, AloneRest
<1> QED
  BY FileInit, AloneInit, <1>1, PTL DEF Spec

\* A message is in one folder at most, wherever its claim, its completion or its
\* requeue is cut off (claim.mjs, complete.mjs, delegate.mjs).
THEOREM LaneInOneFolder == Spec => []InOneFolder
<1>1. ASSUME FileInv PROVE InOneFolder
  <2> SUFFICES ASSUME NEW m \in Msgs PROVE Cardinality({f \in Folders : Has(f, m)}) <= 1
    BY DEF InOneFolder
  <2>1. CASE \E f \in Folders : Has(f, m)
    <3>1. PICK f \in Folders : Has(f, m)
      BY <2>1
    <3>2. {g \in Folders : Has(g, m)} = {f}
      BY <1>1, <3>1 DEF FileInv, Apart
    <3> QED
      BY <3>2, FS_Singleton
  <2>2. CASE ~ \E f \in Folders : Has(f, m)
    <3>1. {g \in Folders : Has(g, m)} = {}
      BY <2>2
    <3> QED
      BY <3>1, FS_EmptySet
  <2> QED
    BY <2>1, <2>2
<1> QED
  BY <1>1, LaneFiles, PTL

-----------------------------------------------------------------------------
(* The rest of the types *)

LineTypes ==
    /\ presence \in [by : Sessions \cup {Delegate, NoSession}, fresh : BOOLEAN]
    /\ stage \in Stages /\ gate \in Stages
LoopTypes ==
    /\ pc \in {"off", "check", "own", "gate", "list", "giveback", "recover", "stamp", "back",
               "failout", "tell", "quota", "pending", "settle", "release", "spawn", "await",
               "reclaim", "judge"}
    /\ before \subseteq Msgs
    /\ counted \in BOOLEAN /\ paused \in BOOLEAN
    /\ failures \in 0..MaxFailures
    /\ child \in Wakes \cup {NoSession} /\ outcome \in {"ok", "failed", "quota"}
CountTypes ==
    /\ replies \in [Msgs -> Nat]
    /\ claims \in [Msgs -> Nat] /\ excused \in [Msgs -> Nat]
    /\ stalls \in 0..MaxQuota /\ crashes \in 0..MaxCrash

\* They hold at the start.
LEMMA LineInit == Init => LineTypes
  BY DEF Init, LineTypes, Stages
LEMMA LoopInit == Init => LoopTypes
<1>1. 0 \in 0..MaxFailures
  BY LaneAssumption
<1> QED
  BY <1>1 DEF Init, LoopTypes
LEMMA CountTypesInit == Init => CountTypes
  BY LaneAssumption DEF Init, CountTypes

\* A counter of messages counts on, whatever it is advanced for.
LEMMA CountOn ==
    ASSUME NEW tally \in [Msgs -> Nat], NEW k, NEW n \in Nat
    PROVE  [tally EXCEPT ![k] = @ + n] \in [Msgs -> Nat]
<1>1. CASE k \in Msgs
  <2>1. tally[k] + n \in Nat
    BY <1>1
  <2> QED
    BY <2>1
<1>2. CASE k \notin Msgs
  <2>1. ASSUME NEW v PROVE [tally EXCEPT ![k] = v] \in [Msgs -> Nat]
    BY <1>2
  <2> QED
    BY <2>1
<1> QED
  BY <1>1, <1>2

\* Every step keeps them.
LEMMA LineNext == LineTypes /\ [Next]_vars => LineTypes'
<1> SUFFICES ASSUME LineTypes, [Next]_vars PROVE LineTypes'
  OBVIOUS
<1>1. CASE UNCHANGED <<presence, gate>> /\ stage' \in Stages
  BY <1>1 DEF LineTypes
<1>2. ASSUME UNCHANGED stage, gate' \in Stages,
             UNCHANGED presence
             \/ \E who \in Sessions \cup {Delegate, NoSession}, b \in BOOLEAN :
                    presence' = [by |-> who, fresh |-> b]
      PROVE  LineTypes'
  BY <1>2 DEF LineTypes
<1>3. ASSUME Exit, UNCHANGED stage PROVE LineTypes'
  BY <1>2, <1>3 DEF Exit, Forget, LineTypes, Stages
<1>4. gate \in Stages /\ stage \in Stages /\ "running" \in Stages
  BY DEF LineTypes, Stages
<1> USE DEF mailVars, lineVars, loopVars, sessionVars, localVars
<1>5. CASE CheckForeign \/ ControlGate \/ Settle
  BY <1>1, <1>2, <1>3, <1>4, <1>5 DEF CheckForeign, ControlGate, Settle
<1>6. CASE OwnPresence \/ ReleasePresence \/ ReclaimPresence
  BY <1>2, <1>4, <1>6 DEF OwnPresence, ReleasePresence, ReclaimPresence
<1>7. CASE Pending
  BY <1>2, <1>4, <1>7 DEF Pending
<1>8. CASE JudgeStop \/ JudgeLastFailure
  BY <1>3, <1>8 DEF JudgeStop, JudgeLastFailure
<1>9. CASE Recovery \/ QuotaWait \/ QuotaOver \/ SpawnError \/ WakeOver \/ JudgeQuota
             \/ JudgeProgress \/ JudgeFailure \/ \E w \in Wakes : SpawnWake(w)
  BY <1>1, <1>4, <1>9
     DEF Recovery, ListClaims, RequeueRead, RequeueStamp, RequeueMove, FailOutMove, FailOutReply,
         Recovered, QuotaWait, QuotaOver, SpawnError, WakeOver, JudgeQuota, JudgeProgress,
         JudgeFailure, SpawnWake
<1>10. CASE Start \/ UNCHANGED vars \/ \E m \in Msgs : Send(m)
  BY <1>1, <1>4, <1>10 DEF Start, vars, Send
<1>11. CASE \E st \in Stages : Control(st)
  BY <1>1, <1>11 DEF Control
<1>12. CASE PowerCut
  BY <1>2, <1>4, <1>12 DEF PowerCut, Forget
<1>13. CASE PresenceExpires
  <2>1. presence' = [by |-> presence.by, fresh |-> FALSE]
    BY <1>13 DEF PresenceExpires, LineTypes
  <2> QED
    BY <1>2, <1>4, <1>13, <2>1 DEF PresenceExpires, LineTypes
<1>14. ASSUME NEW w \in Wakes, Session(w) PROVE LineTypes'
  <2>1. CASE BeatWrite(w)
    BY <1>2, <1>4, <2>1 DEF BeatWrite, Sessions
  <2>2. CASE ~BeatWrite(w)
    BY <1>1, <1>4, <1>14, <2>2
       DEF Session, Verb, Beat, ClaimRename, ClaimRead, ClaimStamp, CompleteRead, CompleteWrite,
           CompleteMove, CompleteReply, Abandon, End
  <2> QED
    BY <2>1, <2>2
<1> QED
  BY <1>5, <1>6, <1>7, <1>8, <1>9, <1>10, <1>11, <1>12, <1>13, <1>14 DEF Next, Tick

LEMMA LoopNext == LoopTypes /\ [Next]_vars => LoopTypes'
<1> SUFFICES ASSUME LoopTypes, [Next]_vars PROVE LoopTypes'
  OBVIOUS
<1>1. ASSUME Forget, Goto("off"), paused' = paused PROVE LoopTypes'
  BY <1>1, LaneAssumption DEF LoopTypes, Forget, Goto
<1> USE DEF LoopTypes, Goto, mailVars, lineVars, loopVars, sessionVars, localVars
<1>2. CASE OwnPresence \/ ReleasePresence \/ ReclaimPresence \/ QuotaWait \/ QuotaOver
  BY <1>2 DEF OwnPresence, ReleasePresence, ReclaimPresence, QuotaWait, QuotaOver
<1>3. CASE CheckForeign \/ ControlGate
  BY <1>1, <1>3 DEF CheckForeign, ControlGate, Exit
<1>4. CASE Pending \/ Settle
  BY <1>1, <1>4 DEF Pending, Settle, Exit, Ids
<1>5. CASE JudgeStop \/ JudgeLastFailure
  BY <1>1, <1>5 DEF JudgeStop, JudgeLastFailure, Exit
<1>6. CASE SpawnError \/ WakeOver \/ JudgeQuota
  BY <1>6 DEF SpawnError, WakeOver, JudgeQuota
<1>7. CASE JudgeProgress \/ JudgeFailure
  BY <1>7, LaneAssumption DEF JudgeProgress, JudgeFailure
<1>8. CASE ListClaims \/ Recovered \/ \E m \in Msgs : RequeueRead(m)
  BY <1>8 DEF ListClaims, Recovered, RequeueRead
<1>9. CASE RequeueStamp \/ RequeueMove
  BY <1>9 DEF RequeueStamp, RequeueMove
<1>10. CASE FailOutMove \/ FailOutReply
  BY <1>10 DEF FailOutMove, FailOutReply
<1>11. CASE \E w \in Wakes : SpawnWake(w)
  BY <1>11 DEF SpawnWake
<1>12. CASE Start \/ UNCHANGED vars \/ (\E m \in Msgs : Send(m)) \/ PresenceExpires
               \/ \E st \in Stages : Control(st)
  BY <1>12 DEF Start, vars, Send, PresenceExpires, Control
<1>13. CASE PowerCut
  BY <1>1, <1>13 DEF PowerCut
<1>14. ASSUME NEW w \in Wakes, Session(w) PROVE LoopTypes'
  <2>1. ASSUME NEW how \in {"ok", "failed", "quota"}, End(w, how) PROVE LoopTypes'
    BY <2>1 DEF End
  <2>2. CASE Verb(w) \/ Abandon(w)
    BY <2>2
       DEF Verb, Beat, BeatWrite, ClaimRename, ClaimRead, ClaimStamp, CompleteRead, CompleteWrite,
           CompleteMove, CompleteReply, Abandon
  <2> QED
    BY <1>14, <2>1, <2>2 DEF Session
<1>15. CASE Recovery
  BY <1>8, <1>9, <1>10, <1>15 DEF Recovery
<1> QED
  BY <1>2, <1>3, <1>4, <1>5, <1>6, <1>7, <1>11, <1>12, <1>13, <1>14, <1>15 DEF Next, Tick

LEMMA CountTypesNext == CountTypes /\ [Next]_vars => CountTypes'
<1> SUFFICES ASSUME CountTypes, [Next]_vars PROVE CountTypes'
  OBVIOUS
<1>1. CASE UNCHANGED <<replies, countVars>>
  BY <1>1 DEF CountTypes, countVars
<1> USE DEF mailVars, lineVars, loopVars, sessionVars, localVars
<1>2. CASE CheckForeign \/ OwnPresence \/ ControlGate \/ QuotaWait \/ QuotaOver \/ Pending
              \/ Settle \/ ReleasePresence \/ SpawnError \/ \E w \in Wakes : SpawnWake(w)
  BY <1>1, <1>2
     DEF CheckForeign, OwnPresence, ControlGate, QuotaWait, QuotaOver, Pending, Settle,
         ReleasePresence, SpawnError, SpawnWake
<1>3. CASE WakeOver \/ ReclaimPresence \/ JudgeStop \/ JudgeQuota \/ JudgeProgress
              \/ JudgeFailure \/ JudgeLastFailure
  BY <1>1, <1>3
     DEF WakeOver, ReclaimPresence, JudgeStop, JudgeQuota, JudgeProgress, JudgeFailure,
         JudgeLastFailure
<1>4. CASE ListClaims \/ RequeueStamp \/ FailOutMove \/ Recovered \/ \E m \in Msgs : RequeueRead(m)
  BY <1>1, <1>4 DEF ListClaims, RequeueStamp, FailOutMove, Recovered, RequeueRead
<1>5. CASE RequeueMove
  <2>1. excused' \in [Msgs -> Nat]
    BY <1>5, CountOn DEF RequeueMove, CountTypes
  <2> QED
    BY <1>5, <2>1 DEF RequeueMove, CountTypes
<1>6. CASE FailOutReply
  <2>1. replies' \in [Msgs -> Nat]
    BY <1>6, CountOn DEF FailOutReply, CountTypes
  <2> QED
    BY <1>6, <2>1 DEF FailOutReply, CountTypes, countVars
<1>7. CASE Start \/ UNCHANGED vars \/ (\E m \in Msgs : Send(m)) \/ PresenceExpires
               \/ \E st \in Stages : Control(st)
  BY <1>1, <1>7 DEF Start, vars, Send, PresenceExpires, Control
<1>8. CASE PowerCut
  <2>1. crashes' \in 0..MaxCrash
    BY <1>8, LaneAssumption DEF PowerCut, CountTypes
  <2> QED
    BY <1>8, <2>1 DEF PowerCut, CountTypes
<1>9. ASSUME NEW w \in Wakes, Session(w) PROVE CountTypes'
  <2>1. CASE Beat(w) \/ BeatWrite(w) \/ ClaimRead(w) \/ ClaimStamp(w) \/ CompleteRead(w)
               \/ CompleteWrite(w) \/ CompleteMove(w) \/ Abandon(w)
    BY <1>1, <2>1
       DEF Beat, BeatWrite, ClaimRead, ClaimStamp, CompleteRead, CompleteWrite, CompleteMove,
           Abandon
  <2>2. ASSUME NEW m \in Msgs, ClaimRename(w, m) PROVE CountTypes'
    <3>1. claims' \in [Msgs -> Nat]
      BY <2>2 DEF ClaimRename, CountTypes
    <3> QED
      BY <2>2, <3>1 DEF ClaimRename, CountTypes
  <2>3. ASSUME NEW n \in {0, 1}, CompleteReply(w, n) PROVE CountTypes'
    <3>1. replies' \in [Msgs -> Nat]
      BY <2>3, CountOn DEF CompleteReply, CountTypes
    <3> QED
      BY <2>3, <3>1 DEF CompleteReply, CountTypes, countVars
  <2>4. ASSUME NEW how \in {"ok", "failed", "quota"}, End(w, how) PROVE CountTypes'
    <3>1. stalls' \in 0..MaxQuota
      BY <2>4, LaneAssumption DEF End, CountTypes
    <3> QED
      BY <2>4, <3>1 DEF End, CountTypes
  <2> QED
    BY <1>9, <2>1, <2>2, <2>3, <2>4 DEF Session, Verb
<1>10. CASE Recovery
  BY <1>4, <1>5, <1>6, <1>10 DEF Recovery
<1> QED
  BY <1>2, <1>3, <1>7, <1>8, <1>9, <1>10 DEF Next, Tick

\* The mailbox, the presence and control files, the loop and the sessions keep
\* their types; no folder ever has two files of one message.
THEOREM LaneTyped == Spec => []LaneTypeOK
<1>1. Spec => []LineTypes
  BY LineInit, LineNext, PTL DEF Spec
<1>2. Spec => []LoopTypes
  BY LoopInit, LoopNext, PTL DEF Spec
<1>3. Spec => []CountTypes
  BY CountTypesInit, CountTypesNext, PTL DEF Spec
<1>4. ASSUME FileInv, LineTypes, LoopTypes, CountTypes PROVE LaneTypeOK
  <2>1. ASSUME NEW f \in Folders, NEW m \in Msgs PROVE Cardinality(inbox[f][m]) <= 1
    <3>1. CASE inbox[f][m] = {}
      BY <3>1, FS_EmptySet
    <3>2. CASE \E x \in Letters : inbox[f][m] = {x}
      <4>1. PICK x : inbox[f][m] = {x}
        BY <3>2
      <4> QED
        BY <4>1, FS_Singleton
    <3> QED
      BY <1>4, <3>1, <3>2 DEF FileInv, Single
  <2>2. FileTypes
    BY <1>4 DEF FileInv
  <2> QED
    BY <1>4, <2>1, <2>2 DEF FileTypes, LineTypes, LoopTypes, CountTypes, LaneTypeOK
<1> QED
  BY <1>1, <1>2, <1>3, <1>4, LaneFiles, PTL

-----------------------------------------------------------------------------
(* The counter in a message file, and the claims that earned it *)

\* A requeue that has advanced the counter and not yet moved the message.
Backing(m) == pc = "back" /\ cur = m /\ counted

\* The counter stands for every claim that was not excused; or for all but the
\* claim that is being served.  A power cut may have advanced it once too often.
Tallied(m, x) ==
    claims[m] <= x.count + excused[m] /\ x.count + excused[m] <= claims[m] + crashes
Ahead(m, x) ==
    claims[m] <= x.count + excused[m] + 1 /\ x.count + excused[m] + 1 <= claims[m] + crashes
Spent(m) == claims[m] + crashes > RequeueLimit + excused[m]

Waiting(m, x) == x.count <= RequeueLimit /\ Tallied(m, x)
InWork(m, x) ==
    /\ x.count <= RequeueLimit
    /\ IF Backing(m) THEN Tallied(m, x) ELSE Ahead(m, x)
Settled(m, x) ==
    /\ claims[m] <= RequeueLimit + 1 + excused[m]
    /\ x.result = "failed" => Spent(m)
Counts(m) ==
    /\ \A x \in inbox["new"][m] : Waiting(m, x)
    /\ \A x \in inbox["claimed"][m] : InWork(m, x)
    /\ \A x \in inbox["done"][m] : Settled(m, x)
    /\ (\A f \in Folders : ~Has(f, m)) => claims[m] = 0 /\ excused[m] = 0

\* What was read of a message before it is written back is still what it says.
RequeueFile ==
    /\ pc = "stamp" => held \in inbox["claimed"][cur]
    /\ pc = "failout" => Spent(cur)
SessionFile ==
    \A s \in Sessions :
        /\ at[s] \in {"stamping", "finishing"} => copy[s] \in inbox["claimed"][msg[s]]
        /\ at[s] = "moving" => \A x \in inbox["claimed"][msg[s]] : x.result = "done"

\* The sender hears of a message that is in done, and once.
Replied == \A m \in Msgs : replies[m] \in {0, 1} /\ (replies[m] = 1 => Has("done", m))
Unheard ==
    /\ pc = "tell" => Has("done", cur) /\ replies[cur] = 0
    /\ \A s \in Sessions : at[s] = "replying" => Has("done", msg[s]) /\ replies[msg[s]] = 0

CountInv == (\A m \in Msgs : Counts(m)) /\ RequeueFile /\ SessionFile /\ Replied /\ Unheard

\* What every step of it stands on.
Ground == FileInv /\ AloneInv /\ CountTypes

LEMMA CountInit == Init => CountInv
  BY DEF Init, CountInv, Counts, RequeueFile, SessionFile, Replied, Unheard, Has, Folders

\* A message none of whose files, claims and excuses is touched.
LEMMA CountsAside ==
    ASSUME NEW m \in Msgs, Counts(m), \A f \in Folders : inbox'[f][m] = inbox[f][m],
           claims'[m] = claims[m], excused'[m] = excused[m], crashes' = crashes,
           inbox["claimed"][m] = {} \/ (Backing(m)' <=> Backing(m))
    PROVE  Counts(m)'
  BY DEF Counts, Waiting, InWork, Settled, Tallied, Ahead, Spent, Has, Folders

\* A step that touches no file, claim or reply, and is not one of the requeue.
LEMMA QuietCounts ==
    ASSUME CountInv, UNCHANGED <<inbox, replies, claims, excused, crashes>>,
           pc \notin {"stamp", "back", "failout", "tell"},
           pc' \notin {"stamp", "back", "failout", "tell"},
           SessionFile', \A s \in Sessions : at'[s] = "replying" => UNCHANGED <<at[s], msg[s]>>
    PROVE  CountInv'
<1>1. ASSUME NEW m \in Msgs PROVE Counts(m)'
  BY <1>1, CountsAside DEF CountInv, Backing
<1> QED
  BY <1>1 DEF CountInv, RequeueFile, Replied, Unheard, Has

\* While the delegate does not await one, no session has anything in hand.
LEMMA NobodyReads ==
    ASSUME AloneInv, pc # "await", at' = at \/ \E w \in Wakes : at' = [at EXCEPT ![w] = "idle"]
    PROVE  /\ SessionFile'
           /\ \A s \in Sessions : at'[s] \notin {"replying", "moving"}
  BY DEF AloneInv, SessionTypes, Alone, Live, SessionFile, Sessions

LEMMA CountTick == Ground /\ CountInv /\ Tick => CountInv'
<1> SUFFICES ASSUME Ground, CountInv, Tick PROVE CountInv'
  OBVIOUS
<1>1. FileInv /\ AloneInv /\ CountTypes
  BY DEF Ground
<1> USE DEF Goto, mailVars, sessionVars, countVars
<1>2. CASE CheckForeign \/ OwnPresence \/ ControlGate \/ Pending \/ Settle \/ ReleasePresence
             \/ QuotaWait \/ QuotaOver \/ SpawnError \/ ListClaims \/ Recovered
  <2>1. SessionFile' /\ \A s \in Sessions : at'[s] \notin {"replying", "moving"}
    BY <1>1, <1>2, NobodyReads
       DEF CheckForeign, OwnPresence, ControlGate, Pending, Settle, ReleasePresence, QuotaWait,
           QuotaOver, SpawnError, ListClaims, Recovered
  <2> QED
    BY <1>2, <2>1, QuietCounts
       DEF CheckForeign, OwnPresence, ControlGate, Pending, Settle, ReleasePresence, QuotaWait,
           QuotaOver, SpawnError, ListClaims, Recovered, Exit
<1>3. CASE ReclaimPresence \/ JudgeStop \/ JudgeQuota \/ JudgeProgress \/ JudgeFailure
             \/ JudgeLastFailure
  <2>1. SessionFile' /\ \A s \in Sessions : at'[s] \notin {"replying", "moving"}
    BY <1>1, <1>3, NobodyReads
       DEF ReclaimPresence, JudgeStop, JudgeQuota, JudgeProgress, JudgeFailure, JudgeLastFailure
  <2> QED
    BY <1>3, <2>1, QuietCounts
       DEF ReclaimPresence, JudgeStop, JudgeQuota, JudgeProgress, JudgeFailure, JudgeLastFailure,
           Exit
<1>4. ASSUME NEW w \in Wakes, SpawnWake(w) PROVE CountInv'
  <2>1. SessionFile' /\ \A s \in Sessions : at'[s] \notin {"replying", "moving"}
    BY <1>1, <1>4, NobodyReads DEF SpawnWake
  <2> QED
    BY <1>4, <2>1, QuietCounts DEF SpawnWake
<1>5. CASE WakeOver
  <2>1. SessionFile'
    BY <1>5 DEF WakeOver, CountInv, SessionFile
  <2> QED
    BY <1>5, <2>1, QuietCounts DEF WakeOver
<1>6. ASSUME NEW m \in Msgs, RequeueRead(m) PROVE CountInv'
  <2>1. SessionFile' /\ \A s \in Sessions : at'[s] \notin {"replying", "moving"}
    BY <1>1, <1>6, NobodyReads DEF RequeueRead
  <2>2. held' \in inbox["claimed"][m]
    BY <1>1, <1>6 DEF RequeueRead, ReadClaimed, Has, FileInv, RequeueInHand
  <2>3. ASSUME NEW k \in Msgs PROVE Counts(k)'
    BY <1>6, CountsAside DEF CountInv, RequeueRead, Backing
  <2> QED
    BY <1>6, <2>1, <2>2, <2>3 DEF CountInv, RequeueRead, RequeueFile, Replied, Unheard, Has
<1>7. CASE RequeueStamp
  <2> USE <1>7
  <2>1. PICK c \in Msgs : c = cur
    BY <1>1 DEF RequeueStamp, FileInv, FileTypes, RequeueInHand
  <2>2. SessionFile' /\ \A s \in Sessions : at'[s] \notin {"replying", "moving"}
    BY <1>1, NobodyReads DEF RequeueStamp
  <2>3. /\ cur = c /\ held \in Letters /\ held \in inbox["claimed"][c]
        /\ InWork(c, held) /\ ~Backing(c) /\ RequeueLimit \in Nat
        /\ claims[c] \in Nat /\ excused[c] \in Nat /\ crashes \in Nat
    BY <1>1, <2>1, LaneAssumption
       DEF RequeueStamp, CountInv, Counts, RequeueFile, FileInv, FileTypes, RequeueInHand,
           Backing, CountTypes
  <2>4. held.count \in Nat /\ held.count <= RequeueLimit /\ Ahead(c, held)
    BY <2>3 DEF InWork, Letters
  <2> DEFINE spent == counted /\ held.count + 1 > RequeueLimit
  <2>5. PICK x \in Letters :
            /\ Put("claimed", cur, x)
            /\ spent => x.count = held.count
            /\ ~spent => x.count = IF counted THEN held.count + 1 ELSE held.count
    <3>1. /\ [held EXCEPT !.result = "failed"] \in Letters
          /\ [held EXCEPT !.result = "failed"].count = held.count
      BY <2>3 DEF Letters
    <3>2. /\ [held EXCEPT !.count = IF counted THEN held.count + 1 ELSE held.count] \in Letters
          /\ [held EXCEPT !.count = IF counted THEN held.count + 1 ELSE held.count].count
                = IF counted THEN held.count + 1 ELSE held.count
      BY <2>3 DEF Letters
    <3> QED
      BY <3>1, <3>2 DEF RequeueStamp
  <2>6. /\ inbox'["claimed"][c] = {x}
        /\ \A g \in Folders, n \in Msgs : g # "claimed" \/ n # c => inbox'[g][n] = inbox[g][n]
    BY <1>1, <2>1, <2>3, <2>5, PutFile DEF FileInv, Folders
  <2>7. UNCHANGED <<replies, claims, excused, crashes, cur, counted>>
    BY DEF RequeueStamp
  <2>8. pc = "stamp" /\ pc' = IF spent THEN "failout" ELSE "back"
    BY DEF RequeueStamp
  <2> HIDE DEF spent
  <2>9. spent => Spent(c)
    BY <2>3, <2>4 DEF Ahead, Spent, spent
  <2>10. InWork(c, x)'
    <3>1. CASE spent
      BY <2>3, <2>4, <2>5, <2>7, <2>8, <3>1 DEF InWork, Backing, Ahead
    <3>2. CASE ~spent /\ counted
      BY <2>3, <2>4, <2>5, <2>7, <2>8, <3>2 DEF InWork, Backing, Ahead, Tallied, spent
    <3>3. CASE ~spent /\ ~counted
      BY <2>3, <2>4, <2>5, <2>7, <2>8, <3>3 DEF InWork, Backing, Ahead
    <3> QED
      BY <3>1, <3>2, <3>3
  <2>11. Counts(c)'
    <3>1. inbox'["new"][c] = {} /\ inbox'["done"][c] = {}
      BY <1>1, <2>1, <2>3, <2>6 DEF FileInv, Apart, Has, Folders
    <3>2. Has("claimed", c)' /\ "claimed" \in Folders
      BY <2>6, <2>7 DEF Has, Folders
    <3> QED
      BY <2>6, <2>7, <2>10, <3>1, <3>2 DEF Counts
  <2>12. ASSUME NEW m \in Msgs, m # c PROVE Counts(m)'
    BY <2>3, <2>6, <2>7, <2>12, CountsAside DEF CountInv, Backing
  <2>13. \A m \in Msgs : Counts(m)'
    BY <2>11, <2>12
  <2>14. RequeueFile'
    BY <2>3, <2>7, <2>8, <2>9 DEF RequeueFile, Spent
  <2>15. Replied'
    BY <2>6, <2>7 DEF CountInv, Replied, Has, Folders
  <2>16. Unheard'
    BY <2>2, <2>8 DEF Unheard
  <2> QED
    BY <2>2, <2>13, <2>14, <2>15, <2>16 DEF CountInv
<1>8. CASE RequeueMove
  <2> USE <1>8
  <2>1. PICK c \in Msgs : c = cur
    BY <1>1 DEF RequeueMove, FileInv, FileTypes, RequeueInHand
  <2>2. SessionFile' /\ \A s \in Sessions : at'[s] \notin {"replying", "moving"}
    BY <1>1, NobodyReads DEF RequeueMove
  <2>3. /\ cur = c /\ Has("claimed", c) /\ {"new", "claimed"} \subseteq Folders
        /\ pc = "back" /\ pc' = "recover"
        /\ claims[c] \in Nat /\ excused[c] \in Nat /\ crashes \in Nat
    BY <1>1, <2>1
       DEF RequeueMove, FileInv, FileTypes, RequeueInHand, Backing, CountTypes, Folders
  <2>4. /\ inbox'["claimed"][c] = {} /\ inbox'["new"][c] = inbox["claimed"][c]
        /\ \A h \in Folders, n \in Msgs : n # c \/ h \notin {"claimed", "new"}
                                            => inbox'[h][n] = inbox[h][n]
    BY <1>1, <2>1, <2>3, MoveFile DEF RequeueMove, FileInv
  <2>5. UNCHANGED <<replies, claims, crashes>>
    BY DEF RequeueMove
  <2>6. /\ excused' = IF counted THEN excused ELSE [excused EXCEPT ![cur] = excused[c] + 1]
        /\ \A m \in Msgs : m # c => excused'[m] = excused[m]
        /\ excused'[c] = IF counted THEN excused[c] ELSE excused[c] + 1
    BY <1>1, <2>1, <2>3 DEF RequeueMove, CountTypes
  <2>7. ASSUME NEW x \in inbox["claimed"][c] PROVE Waiting(c, x)'
    <3>1. x.count \in Nat /\ InWork(c, x) /\ RequeueLimit \in Nat
      BY <1>1, <2>1, <2>3, <2>7, LaneAssumption
         DEF CountInv, Counts, FileInv, FileTypes, Letters, Folders
    <3>2. CASE counted
      BY <2>3, <2>5, <2>6, <3>1, <3>2 DEF InWork, Backing, Waiting, Tallied
    <3>3. CASE ~counted
      BY <2>3, <2>5, <2>6, <3>1, <3>3 DEF InWork, Backing, Waiting, Tallied, Ahead
    <3> QED
      BY <3>2, <3>3
  <2>8. Counts(c)'
    <3>1. inbox'["done"][c] = {} /\ inbox'["claimed"][c] = {}
      BY <1>1, <2>1, <2>3, <2>4 DEF FileInv, Apart, Has, Folders
    <3>2. \E f \in Folders : inbox'[f][c] # {}
      BY <2>3, <2>4 DEF Has
    <3> QED
      BY <2>4, <2>7, <3>1, <3>2 DEF Counts, Has, Waiting, Tallied
  <2>9. ASSUME NEW m \in Msgs, m # c PROVE Counts(m)'
    BY <2>3, <2>4, <2>5, <2>6, <2>9, CountsAside DEF CountInv, Backing
  <2>10. \A m \in Msgs : Counts(m)'
    BY <2>8, <2>9
  <2>11. Replied'
    BY <1>1, <2>1, <2>3, <2>4, <2>5 DEF CountInv, Replied, Has, FileInv, Apart, Folders
  <2>12. RequeueFile' /\ Unheard'
    BY <2>2, <2>3 DEF RequeueFile, Unheard
  <2> QED
    BY <2>2, <2>10, <2>11, <2>12 DEF CountInv
<1>9. CASE FailOutMove
  <2> USE <1>9
  <2>1. PICK c \in Msgs : c = cur
    BY <1>1 DEF FailOutMove, FileInv, FileTypes, RequeueInHand
  <2>2. SessionFile' /\ \A s \in Sessions : at'[s] \notin {"replying", "moving"}
    BY <1>1, NobodyReads DEF FailOutMove
  <2>3. /\ cur = c /\ Has("claimed", c) /\ {"done", "claimed"} \subseteq Folders
        /\ pc = "failout" /\ pc' = "tell" /\ Spent(c)
        /\ claims[c] \in Nat /\ excused[c] \in Nat /\ crashes \in Nat
    BY <1>1, <2>1
       DEF FailOutMove, FileInv, FileTypes, RequeueInHand, Backing, CountTypes, Folders,
           CountInv, RequeueFile
  <2>4. /\ inbox'["claimed"][c] = {} /\ inbox'["done"][c] = inbox["claimed"][c]
        /\ \A h \in Folders, n \in Msgs : n # c \/ h \notin {"claimed", "done"}
                                            => inbox'[h][n] = inbox[h][n]
    BY <1>1, <2>1, <2>3, MoveFile DEF FailOutMove, FileInv
  <2>5. UNCHANGED <<replies, claims, excused, crashes, cur>>
    BY DEF FailOutMove, localVars
  <2>6. ASSUME NEW x \in inbox["claimed"][c] PROVE Settled(c, x)'
    <3>1. x.count \in Nat /\ InWork(c, x) /\ RequeueLimit \in Nat
      BY <1>1, <2>1, <2>3, <2>6, LaneAssumption
         DEF CountInv, Counts, FileInv, FileTypes, Letters, Folders
    <3> QED
      BY <2>3, <2>5, <3>1 DEF InWork, Backing, Ahead, Settled, Spent
  <2>7. Counts(c)'
    <3>1. inbox'["new"][c] = {} /\ inbox'["claimed"][c] = {}
      BY <1>1, <2>1, <2>3, <2>4 DEF FileInv, Apart, Has, Folders
    <3>2. \E f \in Folders : inbox'[f][c] # {}
      BY <2>3, <2>4 DEF Has
    <3> QED
      BY <2>4, <2>5, <2>6, <3>1, <3>2 DEF Counts, Has
  <2>8. ASSUME NEW m \in Msgs, m # c PROVE Counts(m)'
    BY <2>3, <2>4, <2>5, <2>8, CountsAside DEF CountInv, Backing
  <2>9. \A m \in Msgs : Counts(m)'
    BY <2>7, <2>8
  <2>10. Replied' /\ Has("done", c)' /\ replies'[c] = 0
    BY <1>1, <2>1, <2>3, <2>4, <2>5 DEF CountInv, Replied, Has, FileInv, Apart, Folders
  <2>11. RequeueFile' /\ Unheard'
    BY <2>2, <2>3, <2>5, <2>10 DEF RequeueFile, Unheard, Has
  <2> QED
    BY <2>2, <2>9, <2>10, <2>11 DEF CountInv
<1>10. CASE FailOutReply
  <2> USE <1>10
  <2>1. SessionFile' /\ \A s \in Sessions : at'[s] \notin {"replying", "moving"}
    BY <1>1, NobodyReads DEF FailOutReply
  <2>2. cur \in Msgs /\ Has("done", cur) /\ replies[cur] = 0
    BY <1>1 DEF FailOutReply, FileInv, FileTypes, RequeueInHand, CountInv, Unheard
  <2>3. replies'[cur] = 1 /\ \A m \in Msgs : m # cur => replies'[m] = replies[m]
    BY <1>1, <2>2 DEF FailOutReply, CountTypes
  <2>4. ASSUME NEW m \in Msgs PROVE Counts(m)'
    BY <2>4, CountsAside DEF CountInv, FailOutReply, Backing
  <2>5. Replied'
    BY <2>2, <2>3 DEF CountInv, Replied, FailOutReply, Has
  <2>6. RequeueFile' /\ Unheard'
    BY <2>1 DEF RequeueFile, Unheard, FailOutReply
  <2> QED
    BY <2>1, <2>4, <2>5, <2>6 DEF CountInv
<1> QED
  BY <1>2, <1>3, <1>4, <1>5, <1>6, <1>7, <1>8, <1>9, <1>10 DEF Tick, Recovery

\* What is left to show of a session's step: its own message, and its own place.
LEMMA SessionCounts ==
    ASSUME Ground, CountInv, NEW w \in Wakes, at[w] # "off", UNCHANGED pc,
           \A m \in Msgs : Counts(m)', Replied',
           \A s \in Sessions : s # w => at'[s] = at[s],
           at'[w] \in {"stamping", "finishing"} => copy'[w] \in inbox'["claimed"][msg'[w]],
           at'[w] = "moving" => \A x \in inbox'["claimed"][msg'[w]] : x.result = "done",
           at'[w] = "replying" => Has("done", msg[w])' /\ replies'[msg'[w]] = 0
    PROVE  CountInv'
<1>1. /\ \A s \in Sessions : s # w => at[s] = "off"
      /\ pc = "await"
  BY StepsAlone DEF Ground
<1>2. SessionFile' /\ Unheard'
  BY <1>1 DEF SessionFile, Unheard
<1>3. RequeueFile'
  BY <1>1 DEF RequeueFile
<1> QED
  BY <1>2, <1>3 DEF CountInv

LEMMA CountSession ==
    ASSUME Ground, CountInv, NEW w \in Wakes, Session(w) PROVE CountInv'
<1>1. w \in Sessions /\ {"new", "claimed", "done"} \subseteq Folders
  BY DEF Sessions, Folders
<1>2. at[w] # "off"
  BY DEF Session, Verb, Beat, BeatWrite, ClaimRead, ClaimStamp, ClaimRename, CompleteRead,
         CompleteWrite, CompleteMove, CompleteReply, Abandon, End, Live, Between
<1>3. FileTypes /\ Apart /\ Single /\ CountTypes /\ pc = "await"
  BY <1>2, StepsAlone DEF Ground, FileInv
<1>4. /\ \A m \in Msgs : Counts(m)
      /\ Replied
  BY DEF CountInv
<1>5. /\ at[w] \in {"stamping", "finishing", "renamed", "moving"}
            => msg[w] \in Msgs /\ Has("claimed", msg[w])
      /\ at[w] \in {"stamping", "finishing"} => copy[w] \in inbox["claimed"][msg[w]]
      /\ at[w] = "moving" => \A x \in inbox["claimed"][msg[w]] : x.result = "done"
      /\ at[w] = "replying" => Has("done", msg[w]) /\ replies[msg[w]] = 0
  BY <1>1 DEF Ground, FileInv, SessionInHand, CountInv, SessionFile, Unheard
<1>6. ASSUME UNCHANGED <<inbox, replies, claims, excused, crashes, pc>>
      PROVE  (\A m \in Msgs : Counts(m)') /\ Replied'
  BY <1>3, <1>4, <1>6, CountsAside DEF Backing, Replied, Has
<1>7. ASSUME NEW step, To(w, step)
      PROVE  at'[w] = step /\ \A s \in Sessions : s # w => at'[s] = at[s]
  BY <1>1, <1>3, <1>7 DEF To, FileTypes
<1> USE DEF mailVars, lineVars, loopVars, localVars, countVars
<1>8. CASE Beat(w) \/ BeatWrite(w) \/ Abandon(w)
  <2>1. PICK step \in {"beating", "idle", "working"} : To(w, step)
    BY <1>8 DEF Beat, BeatWrite, Abandon, Resting
  <2> QED
    BY <1>2, <1>6, <1>7, <1>8, <2>1, SessionCounts DEF Beat, BeatWrite, Abandon
<1>9. ASSUME NEW m \in Msgs, ClaimRename(w, m) PROVE CountInv'
  <2>1. /\ inbox'["new"][m] = {} /\ inbox'["claimed"][m] = inbox["new"][m]
        /\ \A h \in Folders, n \in Msgs : n # m \/ h \notin {"new", "claimed"}
                                            => inbox'[h][n] = inbox[h][n]
    BY <1>1, <1>3, <1>9, MoveFile DEF ClaimRename
  <2>2. /\ claims'[m] = claims[m] + 1 /\ \A n \in Msgs : n # m => claims'[n] = claims[n]
        /\ UNCHANGED <<replies, excused, crashes, pc>>
    BY <1>3, <1>9 DEF ClaimRename, CountTypes
  <2>3. /\ inbox["new"][m] \subseteq Letters /\ claims[m] \in Nat /\ excused[m] \in Nat
        /\ crashes \in Nat
    BY <1>1, <1>3 DEF FileTypes, CountTypes
  <2>4. ASSUME NEW x \in inbox["new"][m] PROVE InWork(m, x)'
    <3>1. x.count \in Nat /\ Waiting(m, x)
      BY <1>4, <2>3, <2>4 DEF Counts, Letters
    <3>2. ~Backing(m)'
      BY <1>3, <2>2 DEF Backing
    <3>3. Ahead(m, x)'
      BY <2>2, <2>3, <3>1 DEF Waiting, Tallied, Ahead
    <3> QED
      BY <3>1, <3>2, <3>3 DEF InWork, Waiting
  <2>5. Counts(m)'
    <3>1. inbox'["done"][m] = {} /\ inbox["new"][m] # {}
      BY <1>1, <1>3, <1>9, <2>1 DEF ClaimRename, Apart, Has
    <3>2. \E f \in Folders : inbox'[f][m] # {}
      BY <1>1, <2>1, <3>1
    <3> QED
      BY <2>1, <2>4, <3>1, <3>2 DEF Counts, Has
  <2>6. ASSUME NEW n \in Msgs, n # m PROVE Counts(n)'
    BY <1>1, <1>3, <1>4, <2>1, <2>2, <2>6, CountsAside DEF Backing
  <2>7. \A n \in Msgs : Counts(n)'
    BY <2>5, <2>6
  <2>8. Replied'
    <3>1. ASSUME NEW n \in Msgs, Has("done", n) PROVE Has("done", n)'
      BY <1>1, <1>3, <1>9, <2>1, <3>1 DEF Has, ClaimRename, Apart
    <3> QED
      BY <1>4, <2>2, <3>1 DEF Replied
  <2>9. To(w, "renamed")
    BY <1>9 DEF ClaimRename
  <2> QED
    BY <1>2, <1>7, <2>2, <2>7, <2>8, <2>9, SessionCounts
<1>10. CASE ClaimRead(w) \/ CompleteRead(w)
  <2>1. PICK step \in {"stamping", "finishing"} : To(w, step)
    BY <1>10 DEF ClaimRead, CompleteRead
  <2>2. Has("claimed", msg[w])
    BY <1>5, <1>10 DEF ClaimRead, CompleteRead
  <2>3. copy'[w] \in inbox'["claimed"][msg'[w]]
    BY <1>1, <1>3, <1>10, <2>2 DEF ClaimRead, CompleteRead, ReadClaimed, Has, FileTypes
  <2> QED
    BY <1>2, <1>6, <1>7, <1>10, <2>1, <2>3, SessionCounts DEF ClaimRead, CompleteRead
<1>11. CASE ClaimStamp(w) \/ CompleteWrite(w)
  <2>1. PICK m \in Msgs : m = msg[w] /\ Has("claimed", m) /\ copy[w] \in inbox["claimed"][m]
    BY <1>5, <1>11 DEF ClaimStamp, CompleteWrite
  <2>2. copy[w] \in Letters
    BY <1>1, <1>3 DEF FileTypes
  <2>3. PICK x \in Letters :
            /\ Put("claimed", m, x) /\ x.count = copy[w].count
            /\ CompleteWrite(w) => x.result = "done"
    <3>1. /\ [copy[w] EXCEPT !.result = "done"] \in Letters
          /\ [copy[w] EXCEPT !.result = "done"].count = copy[w].count
          /\ [copy[w] EXCEPT !.result = "done"].result = "done"
      BY <2>2 DEF Letters
    <3>2. CASE CompleteWrite(w)
      BY <2>1, <3>1, <3>2 DEF CompleteWrite
    <3>3. CASE ~CompleteWrite(w)
      BY <1>11, <2>1, <2>2, <3>3 DEF ClaimStamp
    <3> QED
      BY <3>2, <3>3
  <2>4. /\ inbox'["claimed"][m] = {x}
        /\ \A g \in Folders, n \in Msgs : g # "claimed" \/ n # m => inbox'[g][n] = inbox[g][n]
    BY <1>1, <1>3, <2>3, PutFile
  <2>5. UNCHANGED <<replies, claims, excused, crashes, pc, msg>>
    BY <1>11 DEF ClaimStamp, CompleteWrite
  <2>6. InWork(m, x)'
    <3>1. InWork(m, copy[w]) /\ ~Backing(m) /\ ~Backing(m)'
      BY <1>3, <1>4, <2>1, <2>5 DEF Counts, Backing
    <3> QED
      BY <2>3, <2>5, <3>1 DEF InWork, Ahead
  <2>7. Counts(m)'
    <3>1. inbox'["new"][m] = {} /\ inbox'["done"][m] = {}
      BY <1>1, <1>3, <2>1, <2>4 DEF Apart, Has
    <3> QED
      BY <1>1, <2>4, <2>6, <3>1 DEF Counts, Has
  <2>8. ASSUME NEW n \in Msgs, n # m PROVE Counts(n)'
    BY <1>1, <1>3, <1>4, <2>4, <2>5, <2>8, CountsAside DEF Backing
  <2>9. \A n \in Msgs : Counts(n)'
    BY <2>7, <2>8
  <2>10. Replied'
    BY <1>1, <1>4, <2>4, <2>5 DEF Replied, Has
  <2>11. \/ To(w, "working")
         \/ To(w, "moving") /\ x.result = "done"
    BY <1>11, <2>3 DEF ClaimStamp, CompleteWrite
  <2>12. msg'[w] = m
    BY <2>1, <2>5
  <2> QED
    BY <1>2, <1>7, <2>4, <2>5, <2>9, <2>10, <2>11, <2>12, SessionCounts
<1>12. CASE CompleteMove(w)
  <2>1. PICK m \in Msgs : m = msg[w] /\ Has("claimed", m) /\ Move(m, "claimed", "done")
    BY <1>5, <1>12 DEF CompleteMove
  <2>2. /\ inbox'["claimed"][m] = {} /\ inbox'["done"][m] = inbox["claimed"][m]
        /\ \A h \in Folders, n \in Msgs : n # m \/ h \notin {"claimed", "done"}
                                            => inbox'[h][n] = inbox[h][n]
    BY <1>1, <1>3, <2>1, MoveFile
  <2>3. UNCHANGED <<replies, claims, excused, crashes, pc, msg>> /\ To(w, "replying")
    BY <1>12 DEF CompleteMove
  <2>4. /\ inbox["claimed"][m] \subseteq Letters /\ claims[m] \in Nat /\ excused[m] \in Nat
        /\ RequeueLimit \in Nat
    BY <1>1, <1>3, LaneAssumption DEF FileTypes, CountTypes
  <2>5. ASSUME NEW x \in inbox["claimed"][m] PROVE Settled(m, x)'
    <3>1. x.count \in Nat /\ x.count <= RequeueLimit /\ Ahead(m, x) /\ x.result = "done"
      BY <1>3, <1>4, <1>5, <1>12, <2>1, <2>4, <2>5
         DEF Counts, InWork, Backing, Letters, CompleteMove
    <3> QED
      BY <2>3, <2>4, <3>1 DEF Ahead, Settled
  <2>6. Counts(m)'
    <3>1. inbox'["new"][m] = {} /\ inbox'["claimed"][m] = {}
      BY <1>1, <1>3, <2>1, <2>2 DEF Apart, Has
    <3>2. \E f \in Folders : inbox'[f][m] # {}
      BY <1>1, <2>1, <2>2 DEF Has
    <3> QED
      BY <2>2, <2>5, <3>1, <3>2 DEF Counts, Has
  <2>7. ASSUME NEW n \in Msgs, n # m PROVE Counts(n)'
    BY <1>1, <1>3, <1>4, <2>2, <2>3, <2>7, CountsAside DEF Backing
  <2>8. \A n \in Msgs : Counts(n)'
    BY <2>6, <2>7
  <2>9. Replied' /\ Has("done", m)' /\ replies'[m] = 0
    BY <1>1, <1>3, <1>4, <2>1, <2>2, <2>3 DEF Replied, Has, Apart
  <2>10. msg'[w] = m
    BY <2>1, <2>3
  <2> QED
    BY <1>2, <1>7, <2>3, <2>8, <2>9, <2>10, SessionCounts DEF Has
<1>13. ASSUME NEW n \in {0, 1}, CompleteReply(w, n) PROVE CountInv'
  <2>1. Has("done", msg[w]) /\ replies[msg[w]] = 0
    BY <1>5, <1>13 DEF CompleteReply
  <2>2. \A m \in Msgs : replies'[m] = IF m = msg[w] THEN n ELSE replies[m]
    BY <1>3, <1>13, <2>1 DEF CompleteReply, CountTypes
  <2>3. UNCHANGED <<inbox, claims, excused, crashes, pc>> /\ To(w, "idle")
    BY <1>13 DEF CompleteReply
  <2>4. \A m \in Msgs : Counts(m)'
    BY <1>3, <1>4, <2>3, CountsAside DEF Backing
  <2>5. Replied'
    BY <1>4, <2>1, <2>2, <2>3 DEF Replied, Has
  <2> QED
    BY <1>2, <1>7, <2>3, <2>4, <2>5, SessionCounts
<1>14. ASSUME NEW how \in {"ok", "failed", "quota"}, End(w, how) PROVE CountInv'
  <2>1. UNCHANGED <<inbox, replies, claims, excused, crashes, pc>> /\ To(w, "off")
    BY <1>14 DEF End
  <2> QED
    BY <1>2, <1>6, <1>7, <2>1, SessionCounts
<1> QED
  BY <1>8, <1>9, <1>10, <1>11, <1>12, <1>13, <1>14 DEF Session, Verb

LEMMA CountRest == Ground /\ CountInv /\ [Next]_vars /\ ~Tick => CountInv'
<1> SUFFICES ASSUME Ground, CountInv, [Next]_vars, ~Tick PROVE CountInv'
  OBVIOUS
<1>1. FileInv /\ CountTypes
  BY DEF Ground
<1> USE DEF mailVars, lineVars, loopVars, localVars, sessionVars, countVars
<1>2. ASSUME UNCHANGED <<mailVars, pc, cur, held, counted, sessionVars, claims, excused, crashes>>
      PROVE  CountInv'
  <2>1. \A m \in Msgs : Counts(m)'
    BY <1>2, CountsAside DEF CountInv, Backing
  <2> QED
    BY <1>2, <2>1 DEF CountInv, RequeueFile, SessionFile, Replied, Unheard, Has, Spent
<1>3. CASE Start
  <2>1. SessionFile'
    BY <1>3 DEF Start, CountInv, SessionFile
  <2> QED
    BY <1>3, <2>1, QuietCounts DEF Start, Goto
<1>4. ASSUME NEW w \in Wakes, Session(w) PROVE CountInv'
  BY <1>4, CountSession
<1>5. ASSUME NEW st \in Stages, Control(st) PROVE CountInv'
  BY <1>2, <1>5 DEF Control
<1>6. CASE PresenceExpires \/ UNCHANGED vars
  BY <1>2, <1>6 DEF PresenceExpires, vars
<1>7. ASSUME NEW m \in Msgs, Send(m) PROVE CountInv'
  <2> USE <1>7
  <2>1. UNCHANGED <<replies, loopVars, sessionVars, countVars>> /\ \A f \in Folders : ~Has(f, m)
    BY DEF Send
  <2>2. /\ inbox'["new"][m] = {Blank}
        /\ \A g \in Folders, n \in Msgs : g # "new" \/ n # m => inbox'[g][n] = inbox[g][n]
    BY <1>1, BlankIsALetter, PutFile DEF Send, FileInv, Folders
  <2>3. Counts(m)'
    <3>1. inbox'["claimed"][m] = {} /\ inbox'["done"][m] = {}
      BY <2>1, <2>2 DEF Has, Folders
    <3>2. claims[m] = 0 /\ excused[m] = 0 /\ crashes \in Nat /\ RequeueLimit \in Nat
      BY <1>1, <2>1, LaneAssumption DEF CountInv, Counts, CountTypes
    <3>3. Waiting(m, Blank)'
      BY <2>1, <3>2 DEF Waiting, Tallied, Blank
    <3>4. \E f \in Folders : inbox'[f][m] # {}
      BY <2>2 DEF Folders
    <3> QED
      BY <2>2, <3>1, <3>3, <3>4 DEF Counts, Has
  <2>4. ASSUME NEW n \in Msgs, n # m PROVE Counts(n)'
    BY <2>1, <2>2, <2>4, CountsAside DEF CountInv, Backing
  <2>5. \A n \in Msgs : Counts(n)'
    BY <2>3, <2>4
  <2>6. \A n \in Msgs : Has("done", n) => Has("done", n)'
    BY <2>1, <2>2 DEF Has, Folders
  <2>7. Replied'
    BY <2>1, <2>6 DEF CountInv, Replied
  <2>8. \A n \in Msgs : inbox'["claimed"][n] = inbox["claimed"][n]
                        /\ inbox'["done"][n] = inbox["done"][n]
    BY <2>2 DEF Folders
  <2>9. pc \in {"stamp", "tell"} => cur \in Msgs
    BY <1>1 DEF FileInv, FileTypes, RequeueInHand
  <2>10. RequeueFile'
    BY <2>1, <2>8, <2>9 DEF CountInv, RequeueFile, Spent
  <2>11. SessionFile'
    <3>1. \A s \in Sessions : at[s] \in {"stamping", "finishing", "moving"} => msg[s] \in Msgs
      BY <1>1 DEF FileInv, SessionInHand
    <3> QED
      BY <2>1, <2>8, <3>1 DEF CountInv, SessionFile
  <2>12. Unheard'
    <3>1. inbox'["done"] = inbox["done"]
      BY <1>1 DEF Send, Put, FileInv, FileTypes, Folders
    <3> QED
      BY <2>1, <3>1 DEF CountInv, Unheard, Has
  <2> QED
    BY <2>5, <2>7, <2>10, <2>11, <2>12 DEF CountInv
<1>8. CASE PowerCut
  <2> USE <1>8 DEF PowerCut, Forget, Goto
  <2>1. UNCHANGED <<inbox, replies, claims, excused>> /\ crashes' = crashes + 1
    OBVIOUS
  <2>2. pc' = "off" /\ crashes \in Nat /\ RequeueLimit \in Nat /\ \A s \in Sessions : at'[s] = "off"
    BY <1>1, LaneAssumption DEF CountTypes
  <2>3. ASSUME NEW m \in Msgs PROVE Counts(m)'
    <3>1. claims[m] \in Nat /\ excused[m] \in Nat /\ Counts(m)
      BY <1>1 DEF CountTypes, CountInv
    <3>2. ASSUME NEW x \in inbox["new"][m] PROVE Waiting(m, x)'
      <4>1. x.count \in Nat /\ Waiting(m, x)
        BY <1>1, <3>1, <3>2 DEF Counts, FileInv, FileTypes, Letters, Folders
      <4> QED
        BY <2>1, <2>2, <3>1, <4>1 DEF Waiting, Tallied
    <3>3. ASSUME NEW x \in inbox["claimed"][m] PROVE InWork(m, x)'
      <4>1. x.count \in Nat /\ InWork(m, x) /\ ~Backing(m)'
        BY <1>1, <2>2, <3>1, <3>3 DEF Counts, FileInv, FileTypes, Letters, Folders, Backing
      <4>2. Ahead(m, x)'
        BY <2>1, <2>2, <3>1, <4>1 DEF InWork, Tallied, Ahead
      <4> QED
        BY <4>1, <4>2 DEF InWork
    <3>4. ASSUME NEW x \in inbox["done"][m] PROVE Settled(m, x)'
      <4>1. Settled(m, x)
        BY <3>1, <3>4 DEF Counts
      <4> QED
        BY <2>1, <2>2, <3>1, <4>1 DEF Settled, Spent
    <3> QED
      BY <2>1, <3>1, <3>2, <3>3, <3>4 DEF Counts, Has
  <2>4. Replied'
    BY <2>1 DEF CountInv, Replied, Has
  <2>5. RequeueFile' /\ SessionFile' /\ Unheard'
    BY <2>2 DEF RequeueFile, SessionFile, Unheard
  <2> QED
    BY <2>3, <2>4, <2>5 DEF CountInv
<1> QED
  BY <1>3, <1>4, <1>5, <1>6, <1>7, <1>8 DEF Next

\* The counter in a file never falls behind the claims it is to bound.
THEOREM LaneCounts == Spec => [](Ground /\ CountInv)
<1>1. Spec => []CountTypes
  BY CountTypesInit, CountTypesNext, PTL DEF Spec
<1>2. Spec => []Ground
  BY <1>1, LaneFiles, PTL DEF Ground
<1>3. Ground /\ CountInv /\ [Next]_vars => CountInv'
  BY CountTick, CountRest
<1> QED
  BY <1>2, <1>3, CountInit, PTL DEF Spec

\* "a poison message does not wedge the loop": a message is executed at most
\* RequeueLimit + 1 times, stalls on a usage limit not counted, whatever the
\* sessions do with it and wherever the requeue is cut off (delegate.mjs).
THEOREM LanePoisonBounded == Spec => []PoisonBounded
<1>1. ASSUME Ground, CountInv PROVE PoisonBounded
  <2> SUFFICES ASSUME NEW m \in Msgs PROVE claims[m] <= RequeueLimit + 1 + excused[m]
    BY DEF PoisonBounded
  <2>1. /\ claims[m] \in Nat /\ excused[m] \in Nat /\ RequeueLimit \in Nat /\ Counts(m)
        /\ \A f \in Folders : inbox[f][m] \subseteq Letters
    BY <1>1, LaneAssumption DEF Ground, CountTypes, CountInv, FileInv, FileTypes
  <2>2. CASE \A f \in Folders : ~Has(f, m)
    BY <2>1, <2>2 DEF Counts
  <2>3. ASSUME NEW x \in inbox["new"][m] PROVE claims[m] <= RequeueLimit + 1 + excused[m]
    <3>1. x.count \in Nat /\ Waiting(m, x)
      BY <2>1, <2>3 DEF Counts, Letters, Folders
    <3> QED
      BY <2>1, <3>1 DEF Waiting, Tallied
  <2>4. ASSUME NEW x \in inbox["claimed"][m] PROVE claims[m] <= RequeueLimit + 1 + excused[m]
    <3>1. x.count \in Nat /\ InWork(m, x)
      BY <2>1, <2>4 DEF Counts, Letters, Folders
    <3> QED
      BY <2>1, <3>1 DEF InWork, Tallied, Ahead
  <2>5. ASSUME NEW x \in inbox["done"][m] PROVE claims[m] <= RequeueLimit + 1 + excused[m]
    BY <2>1, <2>5 DEF Counts, Settled
  <2> QED
    BY <2>2, <2>3, <2>4, <2>5 DEF Has, Folders
<1> QED
  BY <1>1, LaneCounts, PTL

\* A message is only failed out for claims that were made of it in vain: more
\* than RequeueLimit, a power cut counting for one (requeueOrphanedClaims).
THEOREM LaneFailOutEarned == Spec => []FailOutEarned
<1>1. CountInv => FailOutEarned
  BY DEF CountInv, Counts, Settled, Spent, FailOutEarned
<1> QED
  BY <1>1, LaneCounts, PTL

\* The sender hears of its message once at most, and nothing is done with the
\* message after that (complete.mjs, autoReplyToSender).
THEOREM LaneOneReply == Spec => []OneReply
<1>1. ASSUME Ground, CountInv PROVE OneReply
  <2> SUFFICES ASSUME NEW m \in Msgs, replies[m] > 0
               PROVE  /\ replies[m] = 1 /\ Has("done", m)
                      /\ ~Has("new", m) /\ ~Has("claimed", m)
    BY DEF OneReply
  <2>1. replies[m] = 1 /\ Has("done", m)
    BY <1>1 DEF CountInv, Replied
  <2> QED
    BY <1>1, <2>1 DEF Ground, FileInv, Apart, Folders
<1> QED
  BY <1>1, LaneCounts, PTL

=============================================================================
