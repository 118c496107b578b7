---------------------------- MODULE TaskWorkflow ----------------------------
(***************************************************************************)
(* One task of the Task/KPI plugin: its workflow, management, watchers and *)
(* notifications, while roles and memberships change.  A request locks the *)
(* row of the task (Lock), works on the copy it then read and commits.     *)
(***************************************************************************)
EXTENDS Naturals, FiniteSets

CONSTANTS
    Member,       \* members of the workspace
    Admin,        \* those whose workspace role is owner or admin
    Bootstrap,    \* members listed in RBAC_BOOTSTRAP_ADMIN_EMAILS
    JobRole,      \* roles of the RBAC plugin
    RoleRow,      \* what a role may be: rank (1 is the highest), visibility, active
    FirstRole,    \* the roles at the start
    FirstJob,     \* the job roles the members start with
    Nobody,       \* no member
    NoRole,       \* no job role
    MaxChange,    \* bound on the changes of roles and memberships
    MaxWatchers   \* bound on the watchers of a task

ASSUME TaskAssumption ==
    /\ Admin \subseteq Member /\ Bootstrap \subseteq Member /\ Nobody \notin Member
    /\ NoRole \notin JobRole
    /\ FirstJob \in [Member -> JobRole \union {NoRole}]
    /\ MaxChange \in Nat /\ MaxWatchers \in Nat

ASSUME RoleAssumption ==
    /\ RoleRow \subseteq [rank : Nat, visibility : {"all", "lower", "self"}, active : BOOLEAN]
    /\ FirstRole \in [JobRole -> RoleRow]

VARIABLES
    task,       \* the row WorkTask
    watchers,   \* the rows TaskWatcher
    unread,     \* members with an unread TaskNotification
    snap,       \* the copy of the row a request that holds its lock works on
    active,     \* members with is_active
    late,       \* members deactivated while a request of theirs was under way
    role,       \* the rows JobRole
    job,        \* JobRoleAssignment
    changes,    \* how many changes of roles and memberships there were
    executor,   \* history: who handed in the work under review or accepted
    reviewer    \* history: who accepted it

policy == <<active, role, job, changes>>
rbac == <<policy, late>>
taskVars == <<task, watchers, unread, snap, rbac, executor, reviewer>>

TaskStatus == {"todo", "accepted", "in_progress", "submitted", "done", "returned", "cancelled"}
Stamp == {"started", "submitted", "reviewed", "completed", "cancelled"}

\* WorkTask: status, assignee, created_by and which of the *_at fields are set.
WorkTask == [status : TaskStatus \union {"none"}, assignee : Member \union {Nobody},
             creator : Member \union {Nobody}, stamps : SUBSET Stamp]

NoTask == [status |-> "none", assignee |-> Nobody, creator |-> Nobody, stamps |-> {}]

TaskTypeOK ==
    /\ task \in WorkTask
    /\ watchers \subseteq Member
    /\ unread \subseteq Member
    /\ snap \in [Member -> WorkTask]
    /\ active \subseteq Member /\ late \subseteq Member
    /\ role \in [JobRole -> RoleRow]
    /\ job \in [Member -> JobRole \union {NoRole}]
    /\ changes \in 0..MaxChange
    /\ executor \in Member \union {Nobody}
    /\ reviewer \in Member \union {Nobody}

TaskInit ==
    /\ task = NoTask
    /\ watchers = {}
    /\ unread = {}
    /\ snap = [m \in Member |-> NoTask]
    /\ active = Member /\ late = {}
    /\ role = FirstRole
    /\ job = FirstJob
    /\ changes = 0
    /\ executor = Nobody
    /\ reviewer = Nobody

-----------------------------------------------------------------------------
(* Policy: permissions.py, workflow.py and the reporting scope.            *)

\* _assignable_members: whom m may give work to, by the roles of the moment.
Assignable(m) ==
    CASE m \in Admin -> active
      [] m \notin Admin /\ job[m] = NoRole -> {}
      [] m \notin Admin /\ job[m] # NoRole ->
            CASE role[job[m]].visibility = "all" -> active \ {m}
              [] role[job[m]].visibility = "lower" ->
                    {x \in active : /\ job[x] # NoRole /\ role[job[x]].active
                                    /\ role[job[x]].rank > role[job[m]].rank}
              [] role[job[m]].visibility = "self" -> {}

CanManage(t, m) == t.creator = m \/ t.assignee \in Assignable(m)

CanView(t, m) == t.assignee = m \/ m \in watchers \/ CanManage(t, m)

CanComment(t, m) == t.status # "cancelled" /\ CanView(t, m)

\* _ASSIGNEE_ACTIONS, _REVIEW_ACTIONS and ACTION_STATUS, as steps from, to.
Work == {<<"todo", "accepted">>, <<"accepted", "in_progress">>,
         <<"returned", "in_progress">>, <<"in_progress", "submitted">>}
Review == {<<"submitted", "done">>, <<"submitted", "returned">>}

\* available_actions: an assignee executes, even one who may manage.
Available(t, m) ==
    IF t.assignee = m THEN Work ELSE IF CanManage(t, m) THEN Review ELSE {}

\* _notify_participants, after the watchers are what W says.
Participants(t, W, actor) ==
    ({t.assignee} \union ({t.creator} \intersect active) \union W) \ {actor, Nobody}
Notify(t, W, actor) == unread' = unread \union Participants(t, W, actor)

\* The history of a task that becomes t by a request of m.
Remember(t, m) ==
    LET same(x, new) == IF t.status = task.status THEN x ELSE new IN
    /\ executor' = same(executor, CASE t.status = "submitted" -> m
                                    [] t.status = "done" -> executor
                                    [] OTHER -> Nobody)
    /\ reviewer' = same(reviewer, IF t.status = "done" THEN m ELSE Nobody)

-----------------------------------------------------------------------------
(* Requests.                                                               *)

\* _membership, read when the request comes in: a member that is deactivated
\* from then on still has that request carried out.
Admitted(m) == m \in active \union late /\ late' = late \ {m}

\* Mutant: the row is read without select_for_update.
MutLock(m) ==
    /\ Admitted(m) /\ task # NoTask /\ snap[m] = NoTask
    /\ CanView(task, m)
    /\ snap' = [snap EXCEPT ![m] = task]
    /\ UNCHANGED <<task, watchers, unread, policy, executor, reviewer>>

\* _get_task with for_update: the lock is granted to one
\* request at a time, and the row is read when it is.
Lock(m) ==
    /\ Admitted(m) /\ task # NoTask
    /\ \A x \in Member : snap[x] = NoTask
    /\ CanView(task, m)
    /\ snap' = [snap EXCEPT ![m] = task]
    /\ UNCHANGED <<task, watchers, unread, policy, executor, reviewer>>

Release(m) == snap' = [snap EXCEPT ![m] = NoTask]

\* Every answer with an error, a pin, an update without changes: the lock goes.
Refuse(m) ==
    /\ snap[m] # NoTask
    /\ Release(m)
    /\ UNCHANGED <<task, watchers, unread, rbac, executor, reviewer>>

\* The *_at fields TaskDetailView.patch and WorkTaskSerializer.update leave
\* when the status becomes s: completed_at goes unless the work is done.
Stamped(stamps, s) ==
    (stamps \ {"completed"}) \union
        CASE s = "in_progress" -> {"started"}
          [] s = "submitted" -> {"submitted"}
          [] s = "done" -> {"reviewed", "completed"}
          [] s = "returned" -> {"reviewed"}
          [] OTHER -> {}

\* TaskDetailView.patch: one allowed step of the workflow.
Transition(m, s) ==
    /\ snap[m] # NoTask
    /\ <<snap[m].status, s>> \in Available(snap[m], m)
    /\ task' = [snap[m] EXCEPT !.status = s, !.stamps = Stamped(snap[m].stamps, s)]
    /\ Notify(task', watchers, m)
    /\ Remember(task', m)
    /\ Release(m)
    /\ UNCHANGED <<watchers, rbac>>

\* TaskManageView.patch with a cancellation_note: update_fields of one status.
Cancel(m) ==
    /\ snap[m] # NoTask /\ CanManage(snap[m], m)
    /\ snap[m].status \notin {"done", "cancelled"}
    /\ task' = [task EXCEPT !.status = "cancelled",
                            !.stamps = task.stamps \union {"cancelled"}]
    /\ Notify(task', watchers, m) /\ Remember(task', m)
    /\ Release(m)
    /\ UNCHANGED <<watchers, rbac>>

\* assignee_id and the ids of watchers are taken from the request as they are.
\* A member given as a text ("7") passes the query of _can_assign, and differs
\* from every id of the row.
Form == {"id", "text"}
Differs(a, form, b) == form = "text" \/ a # b

\* Mutant: the work of the former assignee passes to the new one.
MutReassigned(t, a) == [t EXCEPT !.assignee = a]

\* Mutant: a task opened again keeps its dates.
MutReopened(t, a) == [t EXCEPT !.assignee = a, !.status = "todo"]

\* The row after an assignee_id that differs: the task opens again.
Reassigned(t, a) == [t EXCEPT !.assignee = a, !.status = "todo", !.stamps = {}]

\* _replace_watchers: active members in the scope of m, or m itself.
WatchersAllowed(m, W) ==
    /\ W \subseteq active /\ W \subseteq Assignable(m) \union {m}
    /\ Cardinality(W) <= MaxWatchers

\* Mutant: the participants of the row as it was read are told.
MutManage(m, t, W, own) ==
    /\ snap[m] # NoTask /\ CanManage(snap[m], m)
    /\ snap[m].status # "cancelled"
    /\ task' = t /\ watchers' = W
    /\ unread' = unread \union Participants(snap[m], W, m) \union own
    /\ Remember(t, m) /\ Release(m)
    /\ UNCHANGED rbac

\* TaskManageView.patch: assignee_id and watcher_ids, either one or both.
Manage(m, t, W, own) ==
    /\ snap[m] # NoTask /\ CanManage(snap[m], m)
    /\ snap[m].status # "cancelled"
    /\ task' = t /\ watchers' = W
    /\ unread' = unread \union Participants(t, W, m) \union own
    /\ Remember(t, m) /\ Release(m)
    /\ UNCHANGED rbac

\* The actor is taken out of those who are told by its id.
Own(a, form) == IF form = "text" THEN {a} ELSE {}

Reassign(m, a, form) ==
    /\ a \in Assignable(m) /\ Differs(a, form, snap[m].assignee)
    /\ Manage(m, Reassigned(snap[m], a), watchers, Own(a, form))

\* due_at and priority, which no property is about.
Reschedule(m) == Manage(m, snap[m], watchers, {})

ReplaceWatchers(m, W) ==
    WatchersAllowed(m, W) /\ Manage(m, snap[m], W \ {snap[m].assignee}, {})

ReassignAndReplace(m, a, form, W) ==
    /\ a \in Assignable(m) /\ Differs(a, form, snap[m].assignee)
    /\ WatchersAllowed(m, W)
    /\ Manage(m, Reassigned(snap[m], a), {w \in W : Differs(a, form, w)}, Own(a, form))

\* TaskActivityView.post and TaskAttachmentCreateView.post.
Comment(m) ==
    /\ snap[m] # NoTask /\ CanComment(snap[m], m)
    /\ Notify(snap[m], watchers, m)
    /\ Release(m)
    /\ UNCHANGED <<task, watchers, rbac, executor, reviewer>>

NewTask(m, a) == [status |-> "todo", assignee |-> a, creator |-> m, stamps |-> {}]

\* TaskListCreateView.post.
Create(m, a, W) ==
    /\ task = NoTask /\ Admitted(m) /\ a \in Assignable(m) /\ WatchersAllowed(m, W)
    /\ task' = NewTask(m, a) /\ watchers' = W \ {a}
    /\ Notify(task', watchers', m)
    /\ UNCHANGED <<snap, policy, executor, reviewer>>

\* Watchers that are refused are answered with 400 by a return, after the row
\* was inserted: the transaction commits, and nobody is told of the task.
CreateRefused(m, a) ==
    /\ task = NoTask /\ Admitted(m) /\ a \in Assignable(m)
    /\ task' = NewTask(m, a)
    /\ UNCHANGED <<watchers, unread, snap, policy, executor, reviewer>>

\* TaskNotificationReadView.post.
MarkRead(m) ==
    /\ Admitted(m) /\ m \in unread
    /\ unread' = unread \ {m}
    /\ UNCHANGED <<task, watchers, snap, policy, executor, reviewer>>

-----------------------------------------------------------------------------
(* The RBAC plugin, at any time.                                           *)

Change(who) ==
    /\ changes < MaxChange /\ changes' = changes + 1
    /\ \E b \in (Admin \union Bootstrap) \intersect active : who # b
    /\ UNCHANGED <<task, watchers, unread, snap, executor, reviewer>>

Deactivate(m) ==
    /\ m \in active /\ active' = active \ {m} /\ Change(m)
    /\ late' \in {late, late \union {m}}
    /\ UNCHANGED <<role, job>>

Reactivate(m) ==
    /\ m \notin active /\ active' = active \union {m} /\ Change(m)
    /\ UNCHANGED <<late, role, job>>

\* _ensure_default_workspace_membership: a sign-in makes its member active.
Rejoin(m) ==
    /\ m \notin active /\ active' = active \union {m}
    /\ changes < MaxChange /\ changes' = changes + 1
    /\ UNCHANGED <<task, watchers, unread, snap, late, role, job, executor, reviewer>>

\* MemberAssignmentView.put for an active member, and AddRegisteredUserView.post,
\* which gives a role to any.
AssignRole(m, r) ==
    /\ m \in active \/ r # NoRole
    /\ r # NoRole => role[r].active
    /\ job' = [job EXCEPT ![m] = r] /\ Change(Nobody)
    /\ UNCHANGED <<active, late, role>>

\* RoleDetailView.patch.
PatchRole(r, q) ==
    /\ role' = [role EXCEPT ![r] = q] /\ Change(Nobody)
    /\ UNCHANGED <<active, late, job>>

\* RoleDetailView.delete: the assignments of the role lose it.
DeleteRole(r) ==
    /\ job' = [m \in Member |-> IF job[m] = r THEN NoRole ELSE job[m]]
    /\ Change(Nobody) /\ UNCHANGED <<active, late, role>>

TaskNext ==
    \/ \E m, a \in Member, W \in SUBSET Member : Create(m, a, W)
    \/ \E m, a \in Member : CreateRefused(m, a)
    \/ \E m \in Member : Lock(m) \/ Refuse(m) \/ Cancel(m) \/ Reschedule(m) \/ Comment(m) \/ MarkRead(m)
    \/ \E m \in Member, s \in TaskStatus : Transition(m, s)
    \/ \E m, a \in Member, form \in Form : Reassign(m, a, form)
    \/ \E m \in Member, W \in SUBSET Member : ReplaceWatchers(m, W)
    \/ \E m, a \in Member, form \in Form, W \in SUBSET Member : ReassignAndReplace(m, a, form, W)
    \/ \E m \in Member : Deactivate(m) \/ Reactivate(m) \/ Rejoin(m)
    \/ \E m \in Member, r \in JobRole \union {NoRole} : AssignRole(m, r)
    \/ \E r \in JobRole : DeleteRole(r) \/ \E q \in RoleRow : PatchRole(r, q)

TaskSpec == TaskInit /\ [][TaskNext]_taskVars

-----------------------------------------------------------------------------
(* Properties.                                                             *)

\* The dates of a task tell the same story as its status, through returns,
\* reassignments and cancellations: reports compute durations from them.
DatesMatchStatus ==
    /\ ("completed" \in task.stamps) = (task.status = "done")
    /\ ("cancelled" \in task.stamps) = (task.status = "cancelled")
    /\ task.status \in {"in_progress", "submitted", "returned", "done"} => "started" \in task.stamps
    /\ task.status \in {"none", "todo", "accepted"} => task.stamps = {}
    /\ task.status \in {"submitted", "returned", "done"} => "submitted" \in task.stamps
    /\ task.status \in {"returned", "done"} => "reviewed" \in task.stamps

\* Work that counts as handed in was handed in by its present assignee, and
\* work that counts as done was approved by somebody else, whatever was
\* reassigned, and whoever became or ceased to be a manager, in between.
DoneByItsAssignee ==
    /\ task.status \in {"submitted", "done"} => executor = task.assignee
    /\ task.status = "done" => reviewer # task.assignee

\* Whoever is assigned a task when its status or assignee changes by the
\* request of another finds a notification.
AssigneeTold ==
    [][\A m \in Member :
         (/\ task # NoTask /\ task' # task
          /\ m = task'.assignee /\ snap[m] = NoTask) => m \in unread']_taskVars

\* A task that is done opens again only for another assignee: "Bajaruvchi
\* almashtirildi va vazifa qayta ochildi" (the assignee was replaced and the
\* task opened again, tasks.py:226).
ReopenedForAnother ==
    [][task.status = "done" /\ task'.status = "todo" => task'.assignee # task.assignee]_taskVars

\* A watcher "does not execute the task".
WatcherDoesNotExecute == task.assignee \notin watchers

stageOf == CASE task.status = "none" -> "none"
             [] task.status \in {"todo", "accepted", "in_progress", "returned"} -> "open"
             [] task.status = "submitted" -> "review"
             [] task.status = "done" -> "closed"
             [] task.status = "cancelled" -> "void"

\* The workflow of the task implements TaskLife.
Life == INSTANCE TaskLife WITH stage <- stageOf, holder <- task.assignee
ImplementsLife == Life!Spec
=============================================================================
