-------------------------------- MODULE Setup --------------------------------
(***************************************************************************)
(* Setting up Drop on one computer (desktop/src-tauri/src/drop: engine.rs,  *)
(* approve.rs, device.rs, keysync.rs): the device key and the recovery      *)
(* secret, the online node, its owner's approval of this computer, saving   *)
(* the recovery key, and restoring from one.  The commands come from the    *)
(* windows in any order and run side by side; an approval and a restore     *)
(* wait on the network, and a key list sync may be under way.               *)
(*                                                                          *)
(* Of the key list only the secret that its state belongs to is modelled.   *)
(***************************************************************************)
EXTENDS Naturals, FiniteSets

CONSTANTS
    Nodes, Secrets, None,
    Own,        \* the secret that first run makes
    Holds,      \* <<node, secret>>: a key list of that secret is on the node
    MaxChanges  \* commands, crashes and syncs

VARIABLES
    device,     \* the keychain has the device key
    recovery,   \* the keychain's recovery secret
    url, approval, \* the online node, and the approval recorded for it
    step,       \* FIRST_RUN_STEP, or "done"
    restore_pending,
    files,      \* the secret that the index's files were added under
    last_seen, sealed, slot, \* the secret of each part of the key list's state
    phase, generation, tasks, \* the approval
    adding, command, \* the addition and the restore under way
    sync,       \* the secret of the sync under way
    changes

index == <<url, approval, step, restore_pending, files, last_seen, sealed>>
keychain == <<device, recovery>>
runtime == <<phase, generation, tasks>>
work == <<adding, command, sync>>
vars == <<index, keychain, runtime, slot, work, changes>>

TypeOK ==
    /\ device \in BOOLEAN /\ recovery \in Secrets \cup {None}
    /\ url \in Nodes \cup {None} /\ approval \in [node: Nodes, recovery: Secrets] \cup {None}
    /\ step \in {"node", "approve", "recovery", "done"}
    /\ restore_pending \in BOOLEAN /\ files \in Secrets \cup {None}
    /\ last_seen \in Secrets \cup {None} /\ sealed \in Secrets \cup {None} /\ slot \in Secrets \cup {None}
    /\ phase \in {"idle", "waiting", "approved", "failed", "restore_failed"}
    /\ \A t \in tasks : t.generation <= generation /\ t.at \in {"asking", "finish", "restoring"}
    /\ Cardinality({t \in tasks : t.generation = generation}) <= 1
    /\ adding \in Secrets \cup {None}
    /\ command \in {None} \cup [at: {"checking", "switched"}, secret: Secrets, node: Nodes]
    /\ sync \in Secrets \cup {None}
    /\ step = "done" => device /\ recovery # None

Init ==
    /\ device = FALSE /\ recovery = None /\ url = None /\ approval = None /\ step = "node"
    /\ restore_pending = FALSE /\ files = None /\ last_seen = None /\ sealed = None /\ slot = None
    /\ phase = "idle" /\ generation = 0 /\ tasks = {} /\ adding = None /\ command = None /\ sync = None /\ changes = 0

Bounded == changes < MaxChanges /\ changes' = changes + 1

-----------------------------------------------------------------------------
(* The identity (device.rs, keychain.rs) *)

\* Both secrets, neither, or one.
identity_state ==
    IF ~device /\ recovery = None THEN "fresh" ELSE IF device /\ recovery # None THEN "ready" ELSE "partial"

\* ensure_identity: fresh keys are made, a partial set is never repaired.
ensure_identity ==
    \/ identity_state = "ready" /\ UNCHANGED keychain
    \/ identity_state = "fresh" /\ device' = TRUE /\ recovery' = Own

\* create_first_run is cut off between its two secrets.
create_first_run_cut_off ==
    /\ Bounded /\ identity_state = "fresh" /\ command = None
    /\ device' = TRUE
    /\ UNCHANGED <<recovery, index, runtime, slot, work>>

-----------------------------------------------------------------------------
(* First run (engine.rs) *)

set_online_node(u) ==
    /\ Bounded /\ ensure_identity
    /\ url' = u
    /\ approval' = IF u = url /\ u # None THEN approval ELSE None
    /\ step' = IF step = "done" THEN step ELSE IF u = None THEN "recovery" ELSE "approve"
    /\ UNCHANGED <<restore_pending, files, last_seen, sealed, runtime, slot, work>>

confirm_recovery_saved ==
    /\ Bounded /\ identity_state = "ready" /\ step # "done" /\ step' = "done"
    /\ UNCHANGED <<url, approval, restore_pending, files, last_seen, sealed, keychain, runtime, slot, work>>

\* Mutant: a restore does not wait for additions.
setup_lock_Shared == command = None

\* Additions share the set-up lock and a restore holds it alone.
setup_lock == command = None /\ adding = None

\* add_paths: the file is hashed under the lock, then its row is inserted.
add_paths ==
    /\ Bounded /\ command = None /\ adding = None /\ identity_state = "ready" /\ files = None
    /\ adding' = recovery
    /\ UNCHANGED <<index, keychain, runtime, slot, command, sync>>

queue_new_file ==
    /\ adding # None /\ files' = adding /\ adding' = None
    /\ UNCHANGED <<url, approval, step, restore_pending, last_seen, sealed, keychain, runtime, slot, command, sync, changes>>

-----------------------------------------------------------------------------
(* The approval (approve.rs) *)

\* Aborting a task drops it where it waits; one past its last wait goes on.
abort == {t \in tasks : t.at = "finish"}

approve_device ==
    /\ Bounded /\ url # None /\ identity_state = "ready"
    /\ generation' = generation + 1 /\ phase' = "waiting"
    /\ tasks' = abort \cup {[generation |-> generation + 1, node |-> url, recovery |-> recovery, at |-> "asking", ok |-> FALSE]}
    /\ UNCHANGED <<index, keychain, slot, work>>

cancelled == generation' = generation + 1 /\ phase' = "idle" /\ tasks' = abort

cancel_approval ==
    /\ Bounded /\ cancelled /\ UNCHANGED <<index, keychain, slot, work>>

\* run_approval: the signer and the node answer, or not; an active grant is recorded.
run_approval(t, ok) ==
    /\ t \in tasks /\ t.at = "asking"
    /\ tasks' = (tasks \ {t}) \cup {[t EXCEPT !.at = "finish", !.ok = ok]}
    /\ approval' = IF ok THEN [node |-> t.node, recovery |-> t.recovery] ELSE approval
    /\ UNCHANGED <<url, step, restore_pending, files, last_seen, sealed, keychain, phase, generation, slot, work, changes>>

\* Mutant: any attempt may report.
Current_Any(t) == TRUE

\* set_phase: only the latest attempt reports.
Current(t) == t.generation = generation

finish_approval(t) ==
    LET restoring == t.ok /\ restore_pending
    IN /\ t \in tasks /\ t.at = "finish"
       /\ IF ~Current(t)
          THEN tasks' = tasks \ {t} /\ UNCHANGED <<phase, step>>
          ELSE /\ phase' = IF ~t.ok THEN "failed" ELSE IF restoring THEN "waiting" ELSE "approved"
               /\ tasks' = (tasks \ {t}) \cup (IF restoring THEN {[t EXCEPT !.at = "restoring"]} ELSE {})
               /\ step' = IF t.ok /\ ~restoring /\ step # "done" THEN "recovery" ELSE step
       /\ UNCHANGED <<url, approval, restore_pending, files, last_seen, sealed, keychain, generation, slot, work, changes>>

\* Mutant: a restore that fails leaves the window waiting.
RestorePhase_Silent(ok) == IF ok THEN "approved" ELSE phase

RestorePhase(ok) == IF ok THEN "approved" ELSE "restore_failed"

\* restore_after_approval: the node's newest key list is read with this
\* computer's secret; one older than the last seen is refused, and so is any
\* when the last seen belongs to another secret.
restore_after_approval(t, reached) ==
    LET ok == reached /\ approval # None /\ <<url, recovery>> \in Holds /\ last_seen \in {None, recovery}
    IN /\ t \in tasks /\ t.at = "restoring" /\ (sync = None \/ ~ok)
       /\ tasks' = tasks \ {t}
       /\ phase' = IF Current(t) THEN RestorePhase(ok) ELSE phase
       /\ IF ok THEN /\ files' = recovery /\ last_seen' = recovery /\ slot' = recovery
                     /\ restore_pending' = FALSE /\ step' = "done"
                ELSE UNCHANGED <<files, last_seen, slot, restore_pending, step>>
       /\ UNCHANGED <<url, approval, sealed, keychain, generation, work, changes>>

-----------------------------------------------------------------------------
(* Restoring (keysync.rs) *)

restore(s, n) ==
    /\ Bounded /\ setup_lock
    /\ command' = [at |-> "checking", secret |-> s, node |-> n]
    /\ UNCHANGED <<index, keychain, runtime, slot, adding, sync>>

\* Mutant: a computer with files changes its secret too.
MaySwitch_Always(s) == TRUE

\* An unfinished set-up without files may switch to the typed secret.
MaySwitch(s) == recovery \in {None, s} \/ (step # "done" /\ files = None)

\* The node was checked.  Another secret's approval and key list state end.
restore_switches ==
    LET s == command.secret
        other == recovery \notin {None, s}
    IN /\ command # None /\ command.at = "checking"
       /\ IF ~MaySwitch(s)
          THEN command' = None /\ UNCHANGED <<keychain, runtime, last_seen, sealed>>
          ELSE /\ device' = TRUE /\ recovery' = s
               /\ command' = [command EXCEPT !.at = "switched"]
               /\ IF other THEN cancelled /\ last_seen' = None /\ sealed' = None
                           ELSE UNCHANGED <<runtime, last_seen, sealed>>
       /\ UNCHANGED <<url, approval, step, restore_pending, files, slot, adding, sync, changes>>

\* The check of the node fails.
restore_refused ==
    /\ command # None /\ command.at = "checking" /\ command' = None
    /\ UNCHANGED <<index, keychain, runtime, slot, adding, sync, changes>>

\* Once the in-memory list is free: the node, and the wait for its approval.
restore_ends ==
    /\ command # None /\ command.at = "switched" /\ sync = None
    /\ command' = None /\ slot' = None /\ url' = command.node /\ approval' = None
    /\ restore_pending' = TRUE
    /\ step' = IF step = "done" THEN step ELSE "approve"
    /\ UNCHANGED <<files, last_seen, sealed, keychain, runtime, adding, sync, changes>>

-----------------------------------------------------------------------------
(* The key list's sync, of which the restore must know, and crashes *)

\* The list is sealed with the secret as it is now; an approved node is then
\* asked, with the list locked.
sync_begins ==
    /\ Bounded /\ sync = None /\ identity_state = "ready"
    /\ slot \in {None, recovery} /\ sealed \in {None, recovery} /\ last_seen \in {None, recovery}
    /\ sealed' = recovery /\ last_seen' = recovery /\ slot' = recovery
    /\ sync' = IF approval # None /\ url # None THEN recovery ELSE None
    /\ UNCHANGED <<url, approval, step, restore_pending, files, keychain, runtime, adding, command>>

\* What the node had is merged and sealed again.
sync_ends ==
    /\ sync # None /\ sync' = None
    /\ \/ UNCHANGED <<sealed, last_seen, slot>>
       \/ sealed' = sync /\ last_seen' = sync /\ slot' = sync
    /\ UNCHANGED <<url, approval, step, restore_pending, files, keychain, runtime, adding, command, changes>>

Crash ==
    /\ Bounded
    /\ phase' = "idle" /\ generation' = 0 /\ tasks' = {} /\ adding' = None /\ command' = None /\ sync' = None /\ slot' = None
    /\ UNCHANGED <<index, keychain>>

Approves ==
    \E t \in tasks : \/ \E ok \in BOOLEAN : run_approval(t, ok)
                     \/ finish_approval(t)
                     \/ \E reached \in BOOLEAN : restore_after_approval(t, reached)

Commands == queue_new_file \/ restore_switches \/ restore_refused \/ restore_ends

Next ==
    \/ create_first_run_cut_off \/ confirm_recovery_saved \/ add_paths \/ approve_device \/ cancel_approval
    \/ \E u \in Nodes \cup {None} : set_online_node(u)
    \/ \E s \in Secrets, n \in Nodes : restore(s, n)
    \/ Approves \/ Commands \/ sync_begins \/ sync_ends \/ Crash

\* Every wait is bounded by a timeout, so a task that started goes on.
Spec == Init /\ [][Next]_vars /\ WF_vars(Approves) /\ WF_vars(Commands) /\ WF_vars(sync_ends)

-----------------------------------------------------------------------------
(* Properties *)

Waiting == phase = "waiting"

\* A file stays under the recovery secret that it was added under: no drop
\* starts while the secret can still change, and a computer with files keeps
\* it (setup_lock, restore, restore_identity).
SecretStays == files # None => files = recovery

\* From "idle" the phase moves only with a new attempt.
StaleSilentStep ==
    phase = "idle" /\ phase' # "idle" => generation' = generation + 1

\* Once an approval was cancelled, nothing is reported until the next one is
\* started (ApprovalRuntime.generation).
StaleSilent == [][StaleSilentStep]_vars

\* An approval ends with an answer, a restore's included (run_approval,
\* finish_approval, restore_after_approval).
Answered == Waiting ~> ~Waiting
=============================================================================
