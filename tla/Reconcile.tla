------------------------------ MODULE Reconcile ------------------------------
(***************************************************************************)
(* reconcile: one read-only pass of LocalReconcileObserver over branches,    *)
(* worktrees, tmux, Run refs and attempt markers, then over the runtime     *)
(* rows, and the plan that LocalReconcileService makes of what it has seen. *)
(* Nothing is locked: each read sees the system of its own moment, and what  *)
(* is observed goes on meanwhile.                                           *)
(*                                                                         *)
(* A Project has either one Run, whose attempts are those of LocalRun and    *)
(* whose RunSpec is frozen here step by step, or one Session, whose row,     *)
(* worktree, tmux session and wrapper move by the steps of SessionHarness    *)
(* for one call at a time.  Contents that no writer of this system makes    *)
(* (records of another Run, noncanonical text) are left out.                *)
(***************************************************************************)
EXTENDS LocalRun

CONSTANT Scopes
ASSUME ScopesAssumption == Scopes \subseteq {"run", "session"}

VARIABLES
    scope,     \* what the Project has
    frozen,    \* how far the RunSpec is frozen
    session,   \* the Session's row, worktree and tmux session
    call,      \* the step of the one call on the Session
    seen,      \* what the pass has read so far
    plan

observedVars == <<scope, frozen, session, call>>
allVars == <<vars, observedVars, seen, plan>>

Absent == [state |-> "absent", native |-> FALSE]
NoSession == [row |-> Absent, kept |-> TRUE, tree |-> "none", tmux |-> "none"]
NotSeen == [pc |-> "idle", failed |-> {}, branch |-> FALSE, worktree |-> FALSE,
            moved |-> FALSE, tmux |-> FALSE, late |-> FALSE, frozen |-> "none",
            result |-> NoAttempt, stray |-> "none", there |-> {}, listed |-> {},
            read |-> [a \in Attempts |-> "unread"]]
NoPlan == [run |-> "none", attempt |-> NoAttempt, session |-> "none", advice |-> "none",
           outcome |-> "none"]

RowStates == {"absent", "preparing", "active", "idle", "stopping", "stopped", "lost"}
ReconcileTypeOK ==
    /\ TypeOK
    /\ scope \in Scopes
    /\ frozen \in {"none", "branch", "spec", "tagged"}
    /\ session.row.state \in RowStates /\ session.tree \in {"none", "branch", "worktree"}
    /\ session.tmux \in {"none", "boot", "agent", "exit"}
    /\ call \in {"idle", "save", "rotate", "launch"}
    /\ seen.listed \subseteq seen.there /\ seen.there \subseteq Attempts
    /\ seen.read \in [Attempts -> {"unread", "open", "ok", "bad"}]
    /\ plan.outcome \in {"none", "clean", "plan_ready", "partial_observation"}

ReconcileInit ==
    /\ Init
    /\ scope \in Scopes
    /\ frozen = "none"
    /\ session = NoSession
    /\ call = "idle"
    /\ seen = NotSeen
    /\ plan = NoPlan

-----------------------------------------------------------------------------
(* What goes on: the Run.                                                   *)

(* _prepare makes the branch, commit_spec_or_observe the commit and the tag. *)
NextFrozen == [none |-> "branch", branch |-> "spec", spec |-> "tagged"]
FreezeSpec(x) ==
    /\ scope = "run"
    /\ exec[x].pc = "prepare"
    /\ frozen # "tagged"
    /\ frozen' = NextFrozen[frozen]
    /\ UNCHANGED <<vars, scope, session, call, seen, plan>>

(* A step of an attempt; nothing is claimed before the RunSpec is frozen.   *)
RunMoves ==
    /\ scope = "run"
    /\ Next
    /\ \A x \in Executors :
          exec[x].pc = "prepare" /\ exec'[x].pc \in {"claim", "origin"} => frozen = "tagged"
    /\ UNCHANGED <<observedVars, seen, plan>>

-----------------------------------------------------------------------------
(* What goes on: the Session.                                               *)

Has(state) == session.row.state = state
WithRow(s, state, native) == [s EXCEPT !.row = [state |-> state, native |-> native]]
SessionMoves(s, c) ==
    /\ scope = "session" /\ session.kept
    /\ session' = s
    /\ call' = c
    /\ UNCHANGED <<vars, scope, frozen, plan>>
Native == session.row.native

(* start_or_observe: the worktree first, then the row, then tmux.           *)
SessionStart ==
    /\ call = "idle" /\ ~ Has("lost")
    /\ UNCHANGED seen
    /\ \/ /\ Has("absent")
          /\ SessionMoves([session EXCEPT !.tree = "worktree"], "save")
       \/ /\ ~ Has("absent") /\ session.tree = "worktree" /\ session.tmux = "none"
          /\ IF \/ Has("active")
                \/ session.row.state \in {"idle", "stopped"} /\ ~ Native
             THEN SessionMoves(WithRow(session, "lost", Native), "idle")
             ELSE /\ session.row.state \in {"preparing", "idle", "stopped"}
                  /\ SessionMoves(session, "rotate")
SaveRow ==
    /\ call \in {"save", "rotate"}
    /\ SessionMoves(WithRow(session, "preparing", Native), "launch")
    /\ UNCHANGED seen
(* late: the launch comes after the pass has listed the tmux sessions.      *)
LaunchTmux ==
    /\ call = "launch" /\ session.tmux = "none"
    /\ SessionMoves([session EXCEPT !.tmux = "boot"], "idle")
    /\ seen' = [seen EXCEPT !.late = seen.pc \notin {"idle", "worktrees", "tmux"}]
CallEnds ==
    /\ call # "idle"
    /\ SessionMoves(session, "idle")
    /\ UNCHANGED seen

(* session_host.run: declare, finish, exit, or be killed.                   *)
HostDeclares ==
    /\ session.tmux \in {"boot", "agent"} /\ ~ Has("lost")
    /\ SessionMoves([WithRow(session, "active", TRUE) EXCEPT !.tmux = "agent"], call)
    /\ UNCHANGED seen
HostFinishes ==
    /\ session.tmux \in {"boot", "agent"} /\ ~ Has("lost")
    /\ \E state \in {"idle", "stopped"} :
          SessionMoves([WithRow(session, state, Native) EXCEPT !.tmux = "exit"], call)
    /\ UNCHANGED seen
HostGone ==
    /\ session.tmux # "none"
    /\ SessionMoves([session EXCEPT !.tmux = "none"], call)
    /\ UNCHANGED seen

(* pause_or_observe.                                                        *)
PauseStops ==
    /\ call = "idle" /\ session.row.state \notin {"absent", "lost"}
    /\ \/ session.tmux # "none" /\ SessionMoves(WithRow(session, "stopping", Native), call)
       \/ /\ session.tmux = "none" /\ session.row.state \notin {"idle", "stopped"}
          /\ \E state \in {"lost"} \cup (IF Has("stopping") THEN {"idle", "stopped"} ELSE {}) :
                SessionMoves(WithRow(session, state, Native), call)
    /\ UNCHANGED seen

(* The Agent commits: the branch and the worktree's head are read apart.    *)
AgentCommits ==
    /\ session.tmux = "agent" /\ seen.pc = "worktrees"
    /\ SessionMoves(session, call)
    /\ seen' = [seen EXCEPT !.moved = TRUE]

(* Someone removes the worktree, or the runtime database is lost.           *)
RemoveWorktree ==
    /\ session.tree = "worktree" /\ session.tmux = "none" /\ call = "idle"
    /\ SessionMoves([session EXCEPT !.tree = "branch"], call)
    /\ UNCHANGED seen
LoseDatabase ==
    /\ call = "idle" /\ ~ Has("absent")
    /\ SessionMoves([session EXCEPT !.kept = FALSE, !.row = Absent], call)
    /\ UNCHANGED seen

-----------------------------------------------------------------------------
(* LocalReconcileObserver.observe, then _read_runtime: one read after the    *)
(* other, each of which may fail.  What fails of the half that the Project   *)
(* has not makes the outcome partial and nothing else, and is left out.     *)

Sees(s) ==
    /\ seen' = s
    /\ UNCHANGED <<vars, observedVars, plan>>
FailsIn(half, component, s) ==
    /\ scope = half
    /\ Sees([s EXCEPT !.failed = @ \cup {component}])

ReadBranches ==
    LET s == [NotSeen EXCEPT !.pc = "worktrees"]
    IN  /\ seen.pc = "idle"
        /\ \/ Sees([s EXCEPT !.branch = session.tree # "none"])
           \/ FailsIn("session", "git_branches", s)
ReadWorktrees ==
    LET s == [seen EXCEPT !.pc = "tmux"]
    IN  /\ seen.pc = "worktrees"
        /\ \/ Sees([s EXCEPT !.worktree = session.tree = "worktree"])
           \/ FailsIn("session", "git_worktrees", s)
ReadTmux ==
    LET s == [seen EXCEPT !.pc = "refs"]
    IN  /\ seen.pc = "tmux"
        /\ \/ Sees([s EXCEPT !.tmux = session.tmux # "none"])
           \/ FailsIn("session", "tmux", s)

(* _observe_run_refs: one for-each-ref, and trees that do not change.       *)
ReadRefs ==
    LET s == [seen EXCEPT !.pc = "list"]
        read == [s EXCEPT !.frozen = frozen,
                          !.result = IF committed THEN result ELSE NoAttempt]
    IN  /\ seen.pc = "refs"
        /\ \/ Sees(read)
           \/ FailsIn("run", "run_refs", s)
           \/ frozen # "none" /\ FailsIn("run", "run_records", read)

(* A marker is replaced through a file beside it, which a cut-off leaves.   *)
Marked == {a \in Attempts : marker[a].phase # "none"}
Replacing ==
    \/ \E x \in Executors : exec[x].pc \in {"intent", "mark", "settle"}
    \/ /\ abandoned > 0
       /\ \E a \in Marked : marker[a].phase \notin {"created", "terminal"}

(* The directory is listed.  The file beside a marker is gone or not yet     *)
(* written when it is read, or says what a marker of the Run says.          *)
ListMarkers ==
    LET s == [seen EXCEPT !.there = Marked]
    IN  /\ seen.pc = "list"
        /\ \/ \E stray \in {"none"} \cup (IF Replacing THEN {"own", "run"} ELSE {}) :
                 Sees([s EXCEPT !.pc = "markers", !.listed = Marked, !.stray = stray])
           \/ FailsIn("run", "run_markers", [s EXCEPT !.pc = "runtime"])

(* _parse_run_marker: a marker that is not written yet names no Run.        *)
ReadMarker(a) ==
    LET m == marker[a]
    IN  /\ seen.pc = "markers"
        /\ a \in seen.listed /\ seen.read[a] = "unread"
        /\ Sees(IF m.phase = "created"
                THEN [seen EXCEPT !.listed = @ \ {a},
                                  !.stray = IF @ = "run" THEN @ ELSE "own"]
                ELSE [seen EXCEPT !.read[a] =
                         IF m.phase = "terminal" THEN m.outcome ELSE "open"])
EndMarkers ==
    LET s == [seen EXCEPT !.pc = "runtime"]
        unread == {a \in seen.listed : seen.read[a] = "unread"}
    IN  /\ seen.pc = "markers"
        /\ \/ unread = {} /\ Sees(s)
           \/ /\ unread # {}
              /\ FailsIn("run", "run_markers", [s EXCEPT !.listed = @ \ unread])

-----------------------------------------------------------------------------
(* The plan.                                                                *)

Incomplete(components) == seen.failed \cap components # {}

(* Mutant: what was not seen of the attempts counts as nothing.             *)
RunIncompleteOfRefs == Incomplete({"run_refs", "run_records"})

RunIncomplete == Incomplete({"run_refs", "run_records", "run_markers"})
OpenOnes == {a \in seen.listed : seen.read[a] = "open"}
TerminalOnes == {a \in seen.listed : seen.read[a] \in {"ok", "bad"}}

(* Mutant: the first terminal marker is the candidate.                      *)
AmbiguousNever == FALSE

Ambiguous == \E a, b \in TerminalOnes : a # b
RunConflict ==
    \/ seen.frozen # "tagged"
    \/ seen.stray = "run"
    \/ seen.result # NoAttempt /\ seen.result \notin TerminalOnes
    \/ seen.result = NoAttempt /\ Ambiguous

(* _classify_run, and the attempt that it is about.                         *)
ClassifyRun ==
    IF seen.frozen = "none" /\ seen.listed = {} /\ seen.stray # "run" THEN "none"
    ELSE IF RunIncomplete THEN "execution_uncertain"
    ELSE IF RunConflict THEN "inconsistent"
    ELSE IF OpenOnes # {} THEN "execution_uncertain"
    ELSE IF seen.result # NoAttempt THEN "collected"
    ELSE IF TerminalOnes # {} THEN "collect_candidate"
    ELSE "frozen"
AboutAttempt(state) ==
    CASE state = "collected" -> seen.result
      [] state = "collect_candidate" -> CHOOSE a \in TerminalOnes : TRUE
      [] OTHER -> NoAttempt

(* Mutant: tmux that cannot be asked has no session.                        *)
SessionIncompleteOfGit == Incomplete({"git_branches", "git_worktrees", "runtime"})

SessionIncomplete == Incomplete({"git_branches", "git_worktrees", "tmux", "runtime"})

(* The worktree is the branch's, and its path exists when the plan is made. *)
Exact == seen.branch /\ seen.worktree
PathExists == session.tree = "worktree"
TreeConflict == IF Exact THEN PathExists /\ seen.moved
                ELSE PathExists \/ seen.worktree

(* _classify over a row of now, and the row that is missing.                *)
ClassifySession(row) ==
    LET whole == Exact /\ PathExists /\ ~ TreeConflict
        inAction == row.state \in {"preparing", "stopping"}
    IN  IF ~ seen.branch /\ ~ seen.worktree /\ ~ seen.tmux /\ row = Absent THEN "none"
        ELSE IF SessionIncomplete THEN "uncertain"
        ELSE IF seen.tmux
        THEN IF whole /\ row.native /\ (inAction \/ row.state = "active")
             THEN "clean" ELSE "uncertain"
        ELSE IF row.state \in {"active", "lost"} THEN "lost"
        ELSE IF TreeConflict \/ (~ seen.branch /\ row.state # "preparing")
        THEN "uncertain"
        ELSE IF whole /\ row.native /\ row.state \in {"idle", "stopped"} THEN "clean"
        ELSE "recoverable"

(* _actions.                                                                *)
Advice(classification, row) ==
    CASE classification = "uncertain" -> "manual_observation_required"
      [] classification = "lost" -> "continue_with_new_session_id"
      [] classification = "recoverable" ->
            IF row = Absent THEN "restore_runtime_backup_if_available"
            ELSE IF row.state \in {"preparing", "stopping"}
            THEN "retry_original_operation_after_reobservation"
            ELSE IF ~ row.native THEN "continue_with_new_session_id"
            ELSE "recreate_worktree_after_reobservation"
      [] OTHER -> "none"

Outcome(run, classification, available) ==
    IF seen.failed # {} THEN "partial_observation"
    ELSE IF /\ available
            /\ run \in {"none", "frozen", "collected"} /\ seen.stray = "none"
            /\ classification \in {"none", "clean"}
    THEN "clean" ELSE "plan_ready"

(* LocalReconcileService.plan, from the read of the rows on.                *)
MakePlan ==
    LET run == ClassifyRun
        classification == ClassifySession(session.row)
    IN  /\ seen.pc = "runtime"
        /\ plan' = [run |-> run, attempt |-> AboutAttempt(run), session |-> classification,
                    advice |-> Advice(classification, session.row),
                    outcome |-> Outcome(run, classification, session.kept)]
        /\ seen' = [seen EXCEPT !.pc = "done"]
        /\ UNCHANGED <<vars, observedVars>>
FailRuntime ==
    /\ seen.pc = "runtime"
    /\ FailsIn("session", "runtime", [seen EXCEPT !.pc = "fail"])
PlanWithoutRows ==
    LET classification == ClassifySession(Absent)
    IN  /\ seen.pc = "fail"
        /\ plan' = [NoPlan EXCEPT !.session = classification,
                                  !.advice = Advice(classification, Absent),
                                  !.outcome = Outcome("none", classification, FALSE)]
        /\ seen' = [seen EXCEPT !.pc = "done"]
        /\ UNCHANGED <<vars, observedVars>>

ReconcileNext ==
    \/ RunMoves
    \/ \E x \in Executors : FreezeSpec(x)
    \/ SessionStart \/ SaveRow \/ LaunchTmux \/ CallEnds
    \/ HostDeclares \/ HostFinishes \/ HostGone \/ PauseStops
    \/ AgentCommits \/ RemoveWorktree \/ LoseDatabase
    \/ ReadBranches \/ ReadWorktrees \/ ReadTmux \/ ReadRefs
    \/ ListMarkers \/ EndMarkers
    \/ \E a \in Attempts : ReadMarker(a)
    \/ MakePlan \/ FailRuntime \/ PlanWithoutRows

ReconcileSpec == ReconcileInit /\ [][ReconcileNext]_allVars
-----------------------------------------------------------------------------
Planned == seen.pc = "done"

(* A Run that the plan calls frozen, collected or collectable has no attempt *)
(* whose process still runs, unless its marker came after the listing or the *)
(* plan shows, in an item of its own, a marker that names no Run.           *)
SettledAttemptsEnded ==
    Planned /\ plan.run \in {"frozen", "collected", "collect_candidate"} =>
        \A a \in seen.there : process[a] = "alive" => seen.stray = "own"

(* What the plan says of the result is so in spite of what happened while it *)
(* was made: the collection that it proposes is refused only for an attempt  *)
(* that came later.                                                         *)
AdviceMatchesResult ==
    LET earlier == {result} \cap seen.there
    IN  /\ Planned /\ plan.run = "collected" =>
              committed /\ result = plan.attempt /\ marker[result].phase = "terminal"
        /\ Planned /\ plan.run = "collect_candidate" =>
              /\ marker[plan.attempt].phase = "terminal"
              /\ earlier \subseteq {plan.attempt} \/ seen.stray = "own"
        /\ Planned /\ plan.run = "frozen" => earlier = {} \/ seen.stray = "own"

(* A Session that the plan takes for gone, so that it may be retried,        *)
(* replaced or left, has an Agent only if a start launched it after tmux     *)
(* was asked.                                                               *)
GoneWasGone ==
    /\ Planned /\ plan.session \in {"clean", "recoverable", "lost"}
    /\ ~ seen.tmux
    /\ session.tmux # "none"
    => seen.late

=============================================================================
