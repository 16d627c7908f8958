---------------------------- MODULE SessionHarness ----------------------------
(***************************************************************************)
(* One Session on its host: session.start and session.pause of             *)
(* ApplicationService over SessionHarness, the tmux session, and the        *)
(* wrapper process (session_host.run) that owns the Agent.  The runtime row  *)
(* is written by all of them, each from a copy that it read earlier.        *)
(*                                                                         *)
(* save_session accepts an observation whose time is later than the row's   *)
(* updated_at.  A process takes the time after it has read the row, so an   *)
(* observation of the current row is accepted; one of an older row may be   *)
(* accepted or refused, depending on when its clock was read.  Branch and   *)
(* worktree creation observe what they did before and have no state here,   *)
(* and the session_observed events, one for each call, are left out.        *)
(***************************************************************************)
EXTENDS OperationJournal

CONSTANTS
    Host,        \* the wrapper process in the tmux session
    Permitted,   \* requests whose actor has the role and the Session
    Repeats,     \* whether the Agent declares its identity more than once
    MaxFaults    \* wrappers that are killed, or whose Agent fails at once

ASSUME SessionRequestAssumption ==
    \A r \in Requests : r.command \in {"session.start", "pause.idle", "pause.stop"}
ASSUME HostAssumption == Host \notin Executors
ASSUME RepeatsAssumption == Repeats \in BOOLEAN
ASSUME FaultsAssumption == MaxFaults \in Nat
ASSUME SessionVocabulary ==
    /\ {"load", "look", "lose", "create", "rotate", "prepare", "launch",
        "await", "stop", "interrupt", "poll", "probe", "settle", "report"}
          \subseteq Phases
    /\ {"active", "idle", "stopped", "lost"} \subseteq Results

SessionStates ==
    {"preparing", "active", "idle", "stopping", "stopped", "lost"}
Rows == [state: SessionStates \cup {"absent"}, native: BOOLEAN]
ASSUME RowAssumption ==
    Snapshots = Rows /\ Unread = [state |-> "absent", native |-> FALSE]

VARIABLES
    row,      \* the Session's runtime_sessions row: its state, and whether
              \* its metadata has the native_session_id
    fresh,    \* processes whose last read of the row is the current row
    bearer,   \* processes that hold the token whose digest the row has
    host,     \* the wrapper; the tmux session exists as long as it does
    faults

sessionVars == <<row, fresh, bearer, host, faults>>
vars == <<journalVars, sessionVars>>

Processes == Executors \cup {Host}
HostPhases == {"none", "boot", "agent", "declare", "ended", "final",
               "failing", "failed", "exit"}
Wrapper(pc) == [pc |-> pc, named |-> FALSE, ok |-> FALSE, native |-> FALSE,
                interrupted |-> FALSE]
NoWrapper == Wrapper("none")

TypeOK ==
    /\ JournalTypeOK
    /\ row \in Rows
    /\ fresh \subseteq Processes
    /\ bearer \subseteq Processes
    /\ host \in [pc: HostPhases, named: BOOLEAN, ok: BOOLEAN, native: BOOLEAN,
                 interrupted: BOOLEAN]
    /\ faults \in 0..MaxFaults

Init ==
    /\ JournalInit
    /\ row = Unread
    /\ fresh = {}
    /\ bearer = {}
    /\ host = NoWrapper
    /\ faults = 0

Tmux == host.pc # "none"
Quiet == {"idle", "stopped"}
Starts(x) == exec[x].req.command = "session.start"

-----------------------------------------------------------------------------
(* The runtime row.                                                         *)

Reads(p) == fresh' = fresh \cup {p}

Acceptable(p) == row.state # "lost"
Refusable(p) == row.state = "lost" \/ p \notin fresh

(* update_session_state: the row is replaced, and read back by its writer.  *)
Save(p, state, native) ==
    /\ Acceptable(p)
    /\ row' = [state |-> state, native |-> native]
    /\ fresh' = {p}

-----------------------------------------------------------------------------
(* Steps of a service call.                                                 *)

Pass(x, pc) ==
    /\ Read(x, pc, exec[x].seen)
    /\ UNCHANGED <<journal, abandoned, sessionVars>>
Refuse(x) ==
    /\ Goto(x, "fail", "none")
    /\ UNCHANGED <<journal, abandoned, sessionVars>>
Leave(x) ==
    /\ Return(x)
    /\ UNCHANGED <<journal, abandoned, sessionVars>>

(* Write the row and go on with the row that is read back, or end with the  *)
(* store's refusal.                                                         *)
SaveOrRefuse(x, state, native, next, seen) ==
    \/ /\ Save(x, state, native)
       /\ Read(x, next, seen)
       /\ UNCHANGED <<journal, abandoned, bearer, host, faults>>
    \/ Refusable(x) /\ Refuse(x)

Claim(x, r) ==
    /\ Begin(x, r, "authorize")
    /\ UNCHANGED sessionVars

AuthorizeActor(x) ==
    /\ Authorize(x, exec[x].req \in Permitted, "load")
    /\ UNCHANGED sessionVars

DenyActor(x) ==
    /\ Deny(x, exec[x].req \in Permitted)
    /\ UNCHANGED sessionVars

(* The row that the call decides by.  The Task, the host or the worktree    *)
(* may be refused after it.                                                 *)
Load(x) ==
    /\ exec[x].pc = "load"
    /\ \/ Refuse(x)
       \/ /\ IF Starts(x) THEN row.state # "lost" ELSE row.state # "absent"
          /\ Read(x, IF Starts(x) /\ row.state = "absent" THEN "create"
                     ELSE IF row.state = "lost" THEN "report" ELSE "look", row)
          /\ Reads(x)
          /\ UNCHANGED <<journal, abandoned, row, bearer, host, faults>>

(* Mutant: a Session that is being prepared is launched again.              *)
LaunchedOnce(x) == Tmux /\ exec[x].seen.state # "preparing"

(* The tmux session is there: the launch was made.                          *)
Launched(x) == Tmux

LookToStart(x) ==
    LET seen == exec[x].seen
    IN  /\ exec[x].pc = "look"
        /\ Starts(x)
        /\ Pass(x, IF Launched(x) THEN "await"
                   ELSE IF \/ seen.state = "active"
                           \/ seen.state \in Quiet /\ ~ seen.native
                        THEN "lose"
                   ELSE "rotate")

(* Mutant: a pause that was cut off is taken to be done.                    *)
SettledOrStopping(x) == exec[x].seen.state \in Quiet \cup {"stopping"}

Settled(x) == exec[x].seen.state \in Quiet

LookToPause(x) ==
    /\ exec[x].pc = "look"
    /\ ~ Starts(x)
    /\ Pass(x, IF Tmux THEN "stop"
               ELSE IF Settled(x) THEN "report" ELSE "lose")

Lose(x) ==
    /\ exec[x].pc = "lose"
    /\ SaveOrRefuse(x, "lost", exec[x].seen.native, "report",
                    [state |-> "lost", native |-> exec[x].seen.native])

(* A row that appeared meanwhile has another token: an identity conflict.   *)
Create(x) ==
    /\ exec[x].pc = "create"
    /\ IF row.state # "absent" THEN Refuse(x)
       ELSE /\ row' = [state |-> "preparing", native |-> FALSE]
            /\ fresh' = {x}
            /\ bearer' = {x}
            /\ Read(x, "launch", exec[x].seen)
            /\ UNCHANGED <<journal, abandoned, host, faults>>

(* rotate_session_token.  The state that was seen first decides between a   *)
(* resume and a new start; the metadata are those of the rotated row.       *)
RotateToken(x) ==
    /\ exec[x].pc = "rotate"
    /\ \/ row.state \notin {"preparing", "idle", "stopped"} /\ Refuse(x)
       \/ row.state # "lost" /\ x \notin fresh /\ Refuse(x)
       \/ /\ row.state \in {"preparing", "idle", "stopped"}
          /\ bearer' = {x}
          /\ fresh' = {x}
          /\ Read(x, "prepare",
                  [state |-> exec[x].seen.state, native |-> row.native])
          /\ UNCHANGED <<journal, abandoned, row, host, faults>>

Native(x) == exec[x].seen.native

Prepare(x) ==
    /\ exec[x].pc = "prepare"
    /\ SaveOrRefuse(x, "preparing", Native(x), "launch", exec[x].seen)

(* tmux.start_session leaves a session that exists alone; a new one gets    *)
(* the token of this call.                                                  *)
Launch(x) ==
    /\ exec[x].pc = "launch"
    /\ \/ /\ IF Tmux THEN UNCHANGED <<host, bearer>>
             ELSE /\ host' = Wrapper("boot")
                  /\ bearer' = IF x \in bearer THEN bearer \cup {Host}
                                               ELSE bearer \ {Host}
          /\ Read(x, "await", Unread)
          /\ UNCHANGED <<journal, abandoned, row, fresh, faults>>
       \/ ~ Tmux /\ Refuse(x)

(* _wait_for_native_identity, until the row is no longer preparing or the   *)
(* poll times out.                                                          *)
Await(x) ==
    /\ exec[x].pc = "await"
    /\ Read(x, "report", row)
    /\ Reads(x)
    /\ UNCHANGED <<journal, abandoned, row, bearer, host, faults>>

-----------------------------------------------------------------------------
(* pause_or_observe, after its first look.                                  *)

StopSession(x) ==
    /\ exec[x].pc = "stop"
    /\ SaveOrRefuse(x, "stopping", row.native, "interrupt", exec[x].seen)

SendInterrupt(x) ==
    /\ exec[x].pc = "interrupt"
    /\ IF ~ Tmux THEN Refuse(x)
       ELSE /\ host' = [host EXCEPT !.interrupted = TRUE]
            /\ Read(x, "poll", exec[x].seen)
            /\ UNCHANGED <<journal, abandoned, row, fresh, bearer, faults>>

Poll(x) ==
    /\ exec[x].pc = "poll"
    /\ Read(x, IF row.state \notin Quiet THEN "probe"
               ELSE IF /\ row.state = "idle"
                       /\ exec[x].req.command = "pause.stop"
                    THEN "settle" ELSE "report", row)
    /\ Reads(x)
    /\ UNCHANGED <<journal, abandoned, row, bearer, host, faults>>

(* Mutant: a poll that times out has stopped the Session.                   *)
StoppedByTimeout == TRUE

Gone == ~ Tmux

(* The tmux session is gone, or the poll times out.                         *)
Probe(x) ==
    /\ exec[x].pc = "probe"
    /\ Pass(x, IF Gone THEN "settle" ELSE "report")

Target(x) == IF exec[x].req.command = "pause.stop" THEN "stopped" ELSE "idle"

Settle(x) ==
    /\ exec[x].pc = "settle"
    /\ SaveOrRefuse(x, Target(x), row.native, "report",
                    [state |-> Target(x), native |-> row.native])

(* _finish_session: the event, and the observed state as the result unless  *)
(* it is transient.                                                         *)
Report(x) ==
    LET state == exec[x].seen.state
    IN  /\ exec[x].pc = "report"
        /\ IF ~ Running(Op(x)) \/ state \in {"preparing", "stopping"} THEN Leave(x)
           ELSE /\ Goto(x, "finish", state)
                /\ UNCHANGED <<journal, abandoned, sessionVars>>

-----------------------------------------------------------------------------
(* session_host.run.                                                        *)

HostGoes(pc) == host' = [host EXCEPT !.pc = pc]
HostDies == host' = NoWrapper

(* An Agent that ends before it has declared its identity is a fault.       *)
Fault ==
    /\ faults < MaxFaults
    /\ faults' = faults + 1

(* Authenticate, and start the Agent.                                       *)
HostBoots ==
    /\ host.pc = "boot"
    /\ \/ Host \notin bearer /\ HostDies /\ UNCHANGED faults
       \/ Host \in bearer /\ HostGoes("agent") /\ UNCHANGED faults
       \/ Host \in bearer /\ HostGoes("failing") /\ Fault
    /\ UNCHANGED <<row, fresh, bearer>>

(* The Agent declares its native identity; the wrapper reads the row ...    *)
HostHears ==
    /\ host.pc = "agent"
    /\ Repeats \/ ~ host.named
    /\ host' = [host EXCEPT !.pc = "declare", !.named = TRUE]
    /\ Reads(Host)
    /\ UNCHANGED <<row, bearer, faults>>

(* ... and writes it.  An error ends the Agent.                             *)
HostDeclares ==
    /\ host.pc = "declare"
    /\ \/ Save(Host, "active", TRUE) /\ HostGoes("agent")
       \/ Refusable(Host) /\ HostGoes("failing") /\ UNCHANGED <<row, fresh>>
    /\ UNCHANGED <<bearer, faults>>

(* The Agent exits, or what it says ends it.                                *)
HostEnds ==
    /\ host.pc = "agent"
    /\ IF host.named THEN UNCHANGED faults ELSE Fault
    /\ \/ \E ok \in BOOLEAN : host' = [host EXCEPT !.pc = "ended", !.ok = ok]
       \/ HostGoes("failing")
    /\ UNCHANGED <<row, fresh, bearer>>

(* An interrupt ends the Agent, and a wrapper that has none without a word. *)
HostInterrupted ==
    /\ host.interrupted
    /\ host' = IF host.pc \in {"agent", "declare"}
               THEN [host EXCEPT !.pc = "failing", !.interrupted = FALSE]
               ELSE NoWrapper
    /\ UNCHANGED <<row, fresh, bearer, faults>>

(* The last read, for the exit and for the failure.                         *)
HostReads ==
    /\ host.pc \in {"ended", "failing"}
    /\ IF row.state = "lost" THEN HostGoes("exit") /\ UNCHANGED fresh
       ELSE /\ host' = [host EXCEPT
                  !.pc = IF host.pc = "ended" THEN "final" ELSE "failed",
                  !.native = row.native]
            /\ Reads(Host)
    /\ UNCHANGED <<row, bearer, faults>>

(* The last write; when it is refused the row stays.                        *)
HostFinishes ==
    /\ host.pc \in {"final", "failed"}
    /\ \/ Save(Host, IF host.pc = "final" /\ host.ok /\ host.named
                     THEN "idle" ELSE "stopped", host.native)
       \/ Refusable(Host) /\ UNCHANGED <<row, fresh>>
    /\ HostGoes("exit")
    /\ UNCHANGED <<bearer, faults>>

(* The wrapper is gone, and the tmux session with it.                       *)
HostExits ==
    /\ host.pc = "exit"
    /\ HostDies
    /\ UNCHANGED <<row, fresh, bearer, faults>>

HostKilled ==
    /\ Tmux
    /\ Fault
    /\ HostDies
    /\ UNCHANGED <<row, fresh, bearer>>

HostStep ==
    /\ \/ HostBoots \/ HostHears \/ HostDeclares \/ HostEnds
       \/ HostReads \/ HostFinishes \/ HostExits
    /\ UNCHANGED journalVars

Step(x) ==
    \/ AuthorizeActor(x) \/ DenyActor(x) \/ Load(x)
    \/ LookToStart(x) \/ LookToPause(x) \/ Lose(x) \/ Create(x) \/ RotateToken(x)
    \/ Prepare(x) \/ Launch(x) \/ Await(x) \/ StopSession(x) \/ SendInterrupt(x)
    \/ Poll(x) \/ Probe(x) \/ Settle(x) \/ Report(x)
    \/ (RecordFailure(x) \/ Finish(x)) /\ UNCHANGED sessionVars

Next ==
    \/ HostStep
    \/ (HostInterrupted \/ HostKilled) /\ UNCHANGED journalVars
    \/ \E x \in Executors : \E r \in Requests : Claim(x, r)
    \/ \E x \in Executors : Step(x)
    \/ \E x \in Executors : Abandon(x) /\ UNCHANGED sessionVars

Spec == Init /\ [][Next]_vars

(* Calls and the wrapper go on, an interrupt arrives unless the wrapper ends *)
(* first, and clients repeat what has not ended.                            *)
Fairness ==
    /\ \A x \in Executors : WF_vars(Step(x))
    /\ WF_vars(HostStep)
    /\ SF_vars(HostInterrupted /\ UNCHANGED journalVars)
    /\ \A r \in Requests :
          WF_vars(\E x \in Executors : Running(r.op) /\ Claim(x, r))

FairSpec == Spec /\ Fairness
-----------------------------------------------------------------------------

(* A Session that is recorded as idle, stopped or lost has no Agent that    *)
(* still runs.                                                              *)
QuietIsTrue ==
    row.state \in Quiet \cup {"lost"} => host.pc \notin {"agent", "declare"}

(* The Agent that runs can authenticate: a token rotates only before launch *)
(* or while the Session is resumable (rotate_session_token), so that no     *)
(* retry takes it away.                                                     *)
AgentKeepsItsToken == host.pc \in {"agent", "declare"} => Host \in bearer

(* A pause goes on for ever only while a start does: what its client        *)
(* repeats ends, even when the interrupt or the poll came too late.         *)
PausesEnd ==
    \A r \in Requests :
        r.command # "session.start" =>
            []<>(Running(r.op) => \E q \in Requests : /\ Running(q.op)
                                                    /\ q.command = "session.start")
=============================================================================
