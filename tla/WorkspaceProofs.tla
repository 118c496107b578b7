-------------------------- MODULE WorkspaceProofs --------------------------
(***************************************************************************)
(* Tasks, for any workspace, roles and watchers: the lock of the row keeps *)
(* the copy of a request equal to the row, and with it the dates match the *)
(* status, work is handed in by its assignee and approved by another, the  *)
(* assignee is told of every change, and the task implements TaskLife.     *)
(*                                                                         *)
(* Accounts, for any number of devices, identities and requests: the row   *)
(* of a device belongs to the account its app is signed in to, with the    *)
(* keys and the recovery credential of that session, and stays revoked; a  *)
(* Google identity has one account.                                        *)
(***************************************************************************)
EXTENDS TaskWorkflow, Accounts, FiniteSetTheorems, WellFoundedInduction, TLAPS

USE TaskAssumption

-----------------------------------------------------------------------------
(* Type correctness.                                                       *)

LEMMA RowType ==
    /\ NoTask \in WorkTask
    /\ \A m, a \in Member : NewTask(m, a) \in WorkTask
    /\ \A t \in WorkTask, a \in Member : Reassigned(t, a) \in WorkTask
BY DEF NoTask, NewTask, Reassigned, WorkTask, TaskStatus, Stamp

LEMMA StampedType ==
    ASSUME NEW X \in SUBSET Stamp, NEW s \in TaskStatus
    PROVE  Stamped(X, s) \in SUBSET Stamp
BY DEF Stamped, Stamp

LEMMA TransitionType ==
    ASSUME NEW t \in WorkTask, NEW s \in TaskStatus
    PROVE  [t EXCEPT !.status = s, !.stamps = Stamped(t.stamps, s)] \in WorkTask
<1>1. t.stamps \in SUBSET Stamp
  BY DEF WorkTask
<1>2. Stamped(t.stamps, s) \in SUBSET Stamp
  BY <1>1, StampedType
<1> QED BY <1>2 DEF WorkTask

LEMMA CancelType ==
    ASSUME NEW t \in WorkTask
    PROVE  [t EXCEPT !.status = "cancelled", !.stamps = t.stamps \union {"cancelled"}] \in WorkTask
BY DEF WorkTask, TaskStatus, Stamp

LEMMA ReleaseType ==
    ASSUME snap \in [Member -> WorkTask], NEW m \in Member, Release(m)
    PROVE  snap' \in [Member -> WorkTask]
BY RowType DEF Release

LEMMA NotifyType ==
    ASSUME unread \subseteq Member, active \subseteq Member, NEW t \in WorkTask,
           NEW W \in SUBSET Member, NEW m \in Member, Notify(t, W, m)
    PROVE  unread' \subseteq Member
BY DEF Notify, Participants, WorkTask

LEMMA RememberType ==
    ASSUME TaskTypeOK, NEW t, NEW m \in Member, Remember(t, m)
    PROVE  /\ executor' \in Member \union {Nobody}
           /\ reviewer' \in Member \union {Nobody}
BY DEF Remember, TaskTypeOK

LEMMA ChangeType ==
    ASSUME TaskTypeOK, NEW who, Change(who) PROVE changes' \in 0..MaxChange
BY SMT DEF Change, TaskTypeOK

LEMMA InitType == TaskInit => TaskTypeOK
BY RowType, RoleAssumption, SMT DEF TaskInit, TaskTypeOK

LEMMA ManageType ==
    ASSUME TaskTypeOK, NEW m \in Member, NEW t \in WorkTask, NEW W \in SUBSET Member,
           NEW own \in SUBSET Member, Manage(m, t, W, own)
    PROVE  TaskTypeOK'
<1>1. unread' \subseteq Member
  BY DEF Manage, Participants, TaskTypeOK, WorkTask
<1>2. executor' \in Member \union {Nobody} /\ reviewer' \in Member \union {Nobody}
  BY RememberType DEF Manage
<1>3. snap' \in [Member -> WorkTask]
  BY ReleaseType DEF Manage, TaskTypeOK
<1> QED BY <1>1, <1>2, <1>3 DEF Manage, TaskTypeOK, rbac, policy

LEMMA StepType == TaskTypeOK /\ [TaskNext]_taskVars => TaskTypeOK'
<1> SUFFICES ASSUME TaskTypeOK, [TaskNext]_taskVars PROVE TaskTypeOK'
  OBVIOUS
<1>0. \A m \in Member : snap[m] \in WorkTask
  BY DEF TaskTypeOK
<1>1. ASSUME NEW m \in Member, NEW a \in Member, NEW W \in SUBSET Member, Create(m, a, W)
      PROVE  TaskTypeOK'
  <2>1. task' \in WorkTask /\ watchers' \in SUBSET Member
    BY <1>1, RowType DEF Create
  <2>2. unread' \subseteq Member
    BY <1>1, <2>1, NotifyType DEF Create, TaskTypeOK
  <2> QED BY <1>1, <2>1, <2>2 DEF Create, Admitted, TaskTypeOK, policy
<1>2. ASSUME NEW m \in Member, NEW a \in Member, CreateRefused(m, a) PROVE TaskTypeOK'
  BY <1>2, RowType DEF CreateRefused, Admitted, TaskTypeOK, policy
<1>3. ASSUME NEW m \in Member, Lock(m) PROVE TaskTypeOK'
  BY <1>3 DEF Lock, Admitted, TaskTypeOK, policy
<1>4. ASSUME NEW m \in Member, Refuse(m) PROVE TaskTypeOK'
  BY <1>4, ReleaseType DEF Refuse, TaskTypeOK, rbac, policy
<1>5. ASSUME NEW m \in Member, Cancel(m) PROVE TaskTypeOK'
  <2>1. task' \in WorkTask
    BY <1>5, CancelType DEF Cancel, TaskTypeOK
  <2>2. unread' \subseteq Member
    BY <1>5, <2>1, NotifyType DEF Cancel, TaskTypeOK
  <2>3. executor' \in Member \union {Nobody} /\ reviewer' \in Member \union {Nobody}
    BY <1>5, RememberType DEF Cancel
  <2>4. snap' \in [Member -> WorkTask]
    BY <1>5, ReleaseType DEF Cancel, TaskTypeOK
  <2> QED BY <1>5, <2>1, <2>2, <2>3, <2>4 DEF Cancel, TaskTypeOK, rbac, policy
<1>6. ASSUME NEW m \in Member, Reschedule(m) PROVE TaskTypeOK'
  <2>1. watchers \in SUBSET Member /\ {} \in SUBSET Member
    BY DEF TaskTypeOK
  <2> QED BY <1>0, <1>6, <2>1, ManageType DEF Reschedule
<1>7. ASSUME NEW m \in Member, Comment(m) PROVE TaskTypeOK'
  <2>1. unread' \subseteq Member
    BY <1>0, <1>7, NotifyType DEF Comment, TaskTypeOK
  <2>2. snap' \in [Member -> WorkTask]
    BY <1>7, ReleaseType DEF Comment, TaskTypeOK
  <2> QED BY <1>7, <2>1, <2>2 DEF Comment, TaskTypeOK, rbac, policy
<1>8. ASSUME NEW m \in Member, MarkRead(m) PROVE TaskTypeOK'
  BY <1>8 DEF MarkRead, Admitted, TaskTypeOK, policy
<1>9. ASSUME NEW m \in Member, NEW s \in TaskStatus, Transition(m, s) PROVE TaskTypeOK'
  <2>1. task' \in WorkTask
    BY <1>0, <1>9, TransitionType DEF Transition
  <2>2. unread' \subseteq Member
    BY <1>9, <2>1, NotifyType DEF Transition, TaskTypeOK
  <2>3. executor' \in Member \union {Nobody} /\ reviewer' \in Member \union {Nobody}
    BY <1>9, RememberType DEF Transition
  <2>4. snap' \in [Member -> WorkTask]
    BY <1>9, ReleaseType DEF Transition, TaskTypeOK
  <2> QED BY <1>9, <2>1, <2>2, <2>3, <2>4 DEF Transition, TaskTypeOK, rbac, policy
<1>10. ASSUME NEW m \in Member, NEW a \in Member, NEW form \in Form, Reassign(m, a, form)
       PROVE  TaskTypeOK'
  <2>1. watchers \in SUBSET Member /\ Own(a, form) \in SUBSET Member
    BY DEF Own, TaskTypeOK
  <2>2. Reassigned(snap[m], a) \in WorkTask
    BY <1>0, RowType
  <2> QED BY <1>10, <2>1, <2>2, ManageType DEF Reassign
<1>11. ASSUME NEW m \in Member, NEW W \in SUBSET Member, ReplaceWatchers(m, W) PROVE TaskTypeOK'
  BY <1>0, <1>11, ManageType DEF ReplaceWatchers
<1>12. ASSUME NEW m \in Member, NEW a \in Member, NEW form \in Form, NEW W \in SUBSET Member,
              ReassignAndReplace(m, a, form, W)
       PROVE  TaskTypeOK'
  <2>1. {w \in W : Differs(a, form, w)} \in SUBSET Member
    OBVIOUS
  <2> QED BY <1>0, <1>12, <2>1, ManageType, RowType DEF ReassignAndReplace, Own
<1>13. ASSUME NEW m \in Member, Deactivate(m) \/ Reactivate(m) \/ Rejoin(m) PROVE TaskTypeOK'
  <2>1. changes' \in 0..MaxChange
    BY <1>13, ChangeType, SMT DEF Deactivate, Reactivate, Rejoin, TaskTypeOK
  <2> QED BY <1>13, <2>1 DEF Deactivate, Reactivate, Rejoin, Change, TaskTypeOK
<1>14. ASSUME NEW m \in Member, NEW r \in JobRole \union {NoRole}, AssignRole(m, r)
       PROVE  TaskTypeOK'
  <2>1. changes' \in 0..MaxChange
    BY <1>14, ChangeType DEF AssignRole
  <2> QED BY <1>14, <2>1 DEF AssignRole, Change, TaskTypeOK
<1>15. ASSUME NEW r \in JobRole, DeleteRole(r) PROVE TaskTypeOK'
  <2>1. changes' \in 0..MaxChange
    BY <1>15, ChangeType DEF DeleteRole
  <2> QED BY <1>15, <2>1 DEF DeleteRole, Change, TaskTypeOK
<1>17. ASSUME NEW x \in JobRole, NEW q \in RoleRow, PatchRole(x, q) PROVE TaskTypeOK'
  <2>1. changes' \in 0..MaxChange
    BY <1>17, ChangeType DEF PatchRole
  <2> QED BY <1>17, <2>1 DEF PatchRole, Change, TaskTypeOK
<1>16. CASE UNCHANGED taskVars
  BY <1>16 DEF taskVars, rbac, policy, TaskTypeOK
<1> QED
  BY <1>1, <1>2, <1>3, <1>4, <1>5, <1>6, <1>7, <1>8, <1>9, <1>10, <1>11, <1>12, <1>13,
     <1>14, <1>15, <1>16, <1>17 DEF TaskNext

\* Every variable of the tasks has its type, for any members, roles and bounds.
THEOREM TaskTypeCorrect == TaskSpec => []TaskTypeOK
BY InitType, StepType, PTL DEF TaskSpec

-----------------------------------------------------------------------------
(* The lock, and the steps of the row it leaves.                           *)

\* A request that holds the lock works on the row as it is.
LockInv ==
    /\ \A m \in Member : snap[m] # NoTask => snap[m] = task
    /\ \A m, x \in Member : snap[m] # NoTask /\ snap[x] # NoTask => m = x
    /\ task.status = "none" => task = NoTask

TaskInv == TaskTypeOK /\ LockInv

Born == \E m, a \in Member : task = NoTask /\ task' = NewTask(m, a) /\ UNCHANGED <<executor, reviewer>>

Moved(m, s) ==
    /\ <<task.status, s>> \in Available(task, m)
    /\ task' = [task EXCEPT !.status = s, !.stamps = Stamped(task.stamps, s)]

Voided ==
    /\ task.status \notin {"none", "done", "cancelled"}
    /\ task' = [task EXCEPT !.status = "cancelled", !.stamps = task.stamps \union {"cancelled"}]

Given ==
    \E a \in Member : task.status # "cancelled" /\ task' = Reassigned(task, a)

\* What a request of m that holds the lock makes of the row.
Worked(m) ==
    /\ snap[m] # NoTask
    /\ (\E s \in TaskStatus : Moved(m, s)) \/ Voided \/ Given
    /\ Remember(task', m)
    /\ task'.assignee \notin {m, Nobody} => task'.assignee \in unread'

RowIdle == UNCHANGED <<task, executor, reviewer>>

\* What becomes of the copies.
Copied ==
    \/ UNCHANGED snap /\ (task' = task \/ task = NoTask)
    \/ \E m \in Member : snap[m] # NoTask /\ Release(m)
    \/ \E m \in Member : /\ \A x \in Member : snap[x] = NoTask
                         /\ snap' = [snap EXCEPT ![m] = task] /\ task' = task

RowStep == (Born \/ RowIdle \/ \E m \in Member : Worked(m)) /\ Copied

LEMMA Unmoved ==
    ASSUME NEW m \in Member, Remember(task, m) PROVE UNCHANGED <<executor, reviewer>>
BY DEF Remember

LEMMA NotifyTells ==
    ASSUME NEW t, NEW W, NEW m, Notify(t, W, m)
    PROVE  t.assignee \notin {m, Nobody} => t.assignee \in unread'
BY DEF Notify, Participants

LEMMA ManageStep ==
    ASSUME TaskInv, NEW m \in Member, NEW W, NEW own,
           \/ Manage(m, snap[m], W, own)
           \/ \E a \in Member : Manage(m, Reassigned(snap[m], a), W, own)
    PROVE  RowStep
<1>1. snap[m] # NoTask /\ Release(m) /\ snap[m].status # "cancelled"
  BY DEF Manage
<1>2. snap[m] = task
  BY <1>1 DEF TaskInv, LockInv
<1>3. Copied
  BY <1>1 DEF Copied
<1>4. CASE Manage(m, snap[m], W, own)
  <2>1. task' = task /\ Remember(task, m)
    BY <1>2, <1>4 DEF Manage
  <2> QED BY <1>3, <2>1, Unmoved DEF RowStep, RowIdle
<1>5. ASSUME NEW a \in Member, Manage(m, Reassigned(snap[m], a), W, own)
      PROVE  RowStep
  <2>1. task' = Reassigned(task, a) /\ Remember(task', m)
    BY <1>2, <1>5 DEF Manage
  <2>2. task'.assignee \notin {m, Nobody} => task'.assignee \in unread'
    BY <1>2, <1>5 DEF Manage, Participants
  <2>3. Given
    BY <1>1, <1>2, <2>1 DEF Given
  <2>4. Worked(m)
    BY <1>1, <2>1, <2>2, <2>3 DEF Worked
  <2> QED BY <1>3, <2>4 DEF RowStep
<1> QED BY <1>4, <1>5

LEMMA RowSteps == TaskInv /\ [TaskNext]_taskVars => RowStep
<1> SUFFICES ASSUME TaskInv, [TaskNext]_taskVars PROVE RowStep
  OBVIOUS
<1>0. watchers \in SUBSET Member /\ \A m \in Member : snap[m] # NoTask => snap[m] = task
  BY DEF TaskInv, TaskTypeOK, LockInv
<1>1. ASSUME NEW m \in Member, NEW a \in Member, NEW W \in SUBSET Member,
             Create(m, a, W) \/ CreateRefused(m, a)
      PROVE  RowStep
  BY <1>1 DEF Create, CreateRefused, RowStep, Born, Copied
<1>2. ASSUME NEW m \in Member, Lock(m) PROVE RowStep
  BY <1>2 DEF Lock, RowStep, RowIdle, Copied
<1>3. ASSUME NEW m \in Member, Refuse(m) \/ Comment(m) PROVE RowStep
  BY <1>3 DEF Refuse, Comment, RowStep, RowIdle, Copied
<1>4. ASSUME NEW m \in Member, Cancel(m) PROVE RowStep
  <2>1. snap[m] = task /\ task.status # "none"
    BY <1>0, <1>4 DEF Cancel, TaskInv, LockInv
  <2>2. Voided
    BY <1>4, <2>1 DEF Cancel, Voided
  <2>3. Worked(m)
    BY <1>0, <1>4, <2>2, NotifyTells DEF Cancel, Worked
  <2> QED BY <1>4, <2>3 DEF Cancel, RowStep, Copied
<1>5. ASSUME NEW m \in Member, NEW s \in TaskStatus, Transition(m, s) PROVE RowStep
  <2>1. Moved(m, s)
    BY <1>0, <1>5 DEF Transition, Moved
  <2>2. Worked(m)
    BY <1>0, <1>5, <2>1, NotifyTells DEF Transition, Worked
  <2> QED BY <1>5, <2>2 DEF Transition, RowStep, Copied
<1>6. ASSUME NEW m \in Member, Reschedule(m) PROVE RowStep
  BY <1>0, <1>6, ManageStep DEF Reschedule
<1>7. ASSUME NEW m \in Member, NEW W \in SUBSET Member, ReplaceWatchers(m, W) PROVE RowStep
  BY <1>7, ManageStep DEF ReplaceWatchers
<1>8. ASSUME NEW m \in Member, NEW a \in Member, NEW form \in Form, Reassign(m, a, form)
      PROVE  RowStep
  BY <1>0, <1>8, ManageStep DEF Reassign
<1>9. ASSUME NEW m \in Member, NEW a \in Member, NEW form \in Form, NEW W \in SUBSET Member,
             ReassignAndReplace(m, a, form, W)
      PROVE  RowStep
  BY <1>9, ManageStep DEF ReassignAndReplace
<1>10. CASE UNCHANGED <<task, snap, executor, reviewer>>
  BY <1>10 DEF RowStep, RowIdle, Copied
<1>11. ASSUME NEW m \in Member, MarkRead(m) \/ Deactivate(m) \/ Reactivate(m) \/ Rejoin(m)
       PROVE  RowStep
  BY <1>10, <1>11 DEF MarkRead, Deactivate, Reactivate, Rejoin, Change
<1>12. ASSUME NEW m \in Member, NEW r \in JobRole \union {NoRole}, AssignRole(m, r) PROVE RowStep
  BY <1>10, <1>12 DEF AssignRole, Change
<1>13. ASSUME NEW r \in JobRole, DeleteRole(r) PROVE RowStep
  BY <1>10, <1>13 DEF DeleteRole, Change
<1>14. ASSUME NEW r \in JobRole, NEW q \in RoleRow, PatchRole(r, q) PROVE RowStep
  BY <1>10, <1>14 DEF PatchRole, Change
<1>15. CASE UNCHANGED taskVars
  BY <1>10, <1>15 DEF taskVars
<1> QED
  BY <1>1, <1>2, <1>3, <1>4, <1>5, <1>6, <1>7, <1>8, <1>9, <1>11, <1>12, <1>13, <1>14, <1>15
     DEF TaskNext

\* A row that was worked on is still a task.
LEMMA StaysTask ==
    ASSUME TaskTypeOK, NEW m \in Member, Worked(m) PROVE task'.status \in TaskStatus
<1>0. task \in WorkTask
  BY DEF TaskTypeOK
<1>1. ASSUME NEW s \in TaskStatus, Moved(m, s) PROVE task'.status = s
  BY <1>0, <1>1 DEF Moved, WorkTask
<1>2. CASE Voided
  BY <1>0, <1>2 DEF Voided, WorkTask, TaskStatus
<1>3. CASE Given
  BY <1>0, <1>3 DEF Given, Reassigned, WorkTask, TaskStatus
<1> QED BY <1>1, <1>2, <1>3 DEF Worked

LEMMA LockStep == TaskInv /\ RowStep => LockInv'
<1> SUFFICES ASSUME TaskInv, RowStep PROVE LockInv'
  OBVIOUS
<1>0. snap \in [Member -> WorkTask] /\ LockInv
  BY DEF TaskInv, TaskTypeOK
<1>1. task'.status = "none" => task' = NoTask
  <2>1. ASSUME NEW m \in Member, Worked(m) PROVE task'.status # "none"
    BY <2>1, StaysTask DEF TaskInv, TaskStatus
  <2>2. CASE Born
    BY <2>2 DEF Born, NewTask
  <2>3. CASE RowIdle
    BY <1>0, <2>3 DEF RowIdle, LockInv
  <2> QED BY <2>1, <2>2, <2>3 DEF RowStep
<1>2. CASE UNCHANGED snap /\ (task' = task \/ task = NoTask)
  BY <1>0, <1>1, <1>2 DEF LockInv
<1>3. ASSUME NEW m \in Member, snap[m] # NoTask, Release(m) PROVE LockInv'
  <2>1. \A x \in Member : snap'[x] = NoTask
    BY <1>0, <1>3 DEF LockInv, Release
  <2> QED BY <1>1, <2>1 DEF LockInv
<1>4. ASSUME NEW m \in Member, \A x \in Member : snap[x] = NoTask,
             snap' = [snap EXCEPT ![m] = task], task' = task
      PROVE  LockInv'
  BY <1>0, <1>1, <1>4 DEF LockInv
<1> QED BY <1>2, <1>3, <1>4 DEF RowStep, Copied

LEMMA TaskInvariant == TaskSpec => []TaskInv
<1>1. TaskInit => TaskInv
  BY InitType DEF TaskInit, TaskInv, LockInv, NoTask
<1>2. TaskInv /\ [TaskNext]_taskVars => TaskInv'
  BY StepType, RowSteps, LockStep DEF TaskInv
<1> QED BY <1>1, <1>2, PTL DEF TaskSpec

-----------------------------------------------------------------------------
(* The properties of the row.                                              *)

\* The *_at dates of TaskDetailView.patch, TaskManageView.patch and the
\* serializer agree with the status after any sequence of requests.
THEOREM DatesAgree == TaskSpec => []DatesMatchStatus
<1>1. TaskInit => DatesMatchStatus
  BY DEF TaskInit, NoTask, DatesMatchStatus
<1>2. TaskInv /\ DatesMatchStatus /\ RowStep => DatesMatchStatus'
  <2> SUFFICES ASSUME TaskInv, DatesMatchStatus, RowStep PROVE DatesMatchStatus'
    OBVIOUS
  <2>0. task \in WorkTask
    BY DEF TaskInv, TaskTypeOK
  <2>1. CASE Born
    BY <2>1 DEF Born, NewTask, DatesMatchStatus
  <2>2. CASE RowIdle
    BY <2>2 DEF RowIdle, DatesMatchStatus
  <2>3. ASSUME NEW m \in Member, NEW s \in TaskStatus, Moved(m, s) PROVE DatesMatchStatus'
    <3>1. task'.status = s /\ task'.stamps = Stamped(task.stamps, s)
      BY <2>0, <2>3 DEF Moved, WorkTask
    <3>2. <<task.status, s>> \in Work \union Review
      BY <2>3 DEF Moved, Available
    <3> QED BY <3>1, <3>2 DEF Work, Review, Stamped, DatesMatchStatus
  <2>4. CASE Voided
    <3>1. /\ task'.status = "cancelled" /\ task'.stamps = task.stamps \union {"cancelled"}
          /\ task.status # "done"
      BY <2>0, <2>4 DEF Voided, WorkTask
    <3> QED BY <3>1 DEF DatesMatchStatus
  <2>5. CASE Given
    <3>1. task'.status = "todo" /\ task'.stamps = {}
      BY <2>0, <2>5 DEF Given, Reassigned, WorkTask
    <3> QED BY <3>1 DEF DatesMatchStatus
  <2> QED BY <2>1, <2>2, <2>3, <2>4, <2>5 DEF RowStep, Worked
<1>3. TaskInv /\ DatesMatchStatus /\ [TaskNext]_taskVars => DatesMatchStatus'
  BY <1>2, RowSteps
<1> QED BY <1>1, <1>3, TaskInvariant, PTL DEF TaskSpec

\* Whatever is reassigned or managed in between, work that is done was handed
\* in by its assignee and accepted by another: available_actions decides on
\* the row the request has locked.
THEOREM OwnWork == TaskSpec => []DoneByItsAssignee
<1>1. TaskInit => DoneByItsAssignee
  BY DEF TaskInit, NoTask, DoneByItsAssignee
<1>2. TaskInv /\ DoneByItsAssignee /\ RowStep => DoneByItsAssignee'
  <2> SUFFICES ASSUME TaskInv, DoneByItsAssignee, RowStep PROVE DoneByItsAssignee'
    OBVIOUS
  <2>0. task \in WorkTask
    BY DEF TaskInv, TaskTypeOK
  <2>1. CASE Born
    BY <2>1 DEF Born, NewTask, DoneByItsAssignee
  <2>2. CASE RowIdle
    BY <2>2 DEF RowIdle, DoneByItsAssignee
  <2>3. ASSUME NEW m \in Member, NEW s \in TaskStatus, Moved(m, s), Remember(task', m)
        PROVE  DoneByItsAssignee'
    <3>1. task'.status = s /\ task'.assignee = task.assignee
      BY <2>0, <2>3 DEF Moved, WorkTask
    <3>2. CASE task.assignee = m /\ <<task.status, s>> \in Work
      <4>1. s # "done" /\ (s = "submitted" => executor' = m)
        BY <2>3, <3>1, <3>2 DEF Work, Remember
      <4> QED BY <3>1, <3>2, <4>1 DEF DoneByItsAssignee
    <3>3. CASE task.assignee # m /\ <<task.status, s>> \in Review
      <4>1. s # "submitted" /\ task.status = "submitted"
        BY <3>3 DEF Review
      <4>2. s = "done" => executor' = executor /\ reviewer' = m
        BY <2>3, <3>1, <4>1 DEF Remember
      <4> QED BY <3>1, <3>3, <4>1, <4>2 DEF DoneByItsAssignee
    <3> QED BY <2>3, <3>2, <3>3 DEF Moved, Available
  <2>4. CASE Voided
    <3>1. task'.status = "cancelled"
      BY <2>0, <2>4 DEF Voided, WorkTask
    <3> QED BY <3>1 DEF DoneByItsAssignee
  <2>5. CASE Given
    <3>1. task'.status = "todo"
      BY <2>0, <2>5 DEF Given, Reassigned, WorkTask
    <3> QED BY <3>1 DEF DoneByItsAssignee
  <2> QED BY <2>1, <2>2, <2>3, <2>4, <2>5 DEF RowStep, Worked
<1>3. TaskInv /\ DoneByItsAssignee /\ [TaskNext]_taskVars => DoneByItsAssignee'
  BY <1>2, RowSteps
<1> QED BY <1>1, <1>3, TaskInvariant, PTL DEF TaskSpec

\* _notify_participants tells the assignee of every change of another.
THEOREM Told == TaskSpec => AssigneeTold
<1>1. TaskInv /\ [TaskNext]_taskVars =>
        [\A m \in Member :
           (/\ task # NoTask /\ task' # task
            /\ m = task'.assignee /\ snap[m] = NoTask) => m \in unread']_taskVars
  <2> SUFFICES ASSUME TaskInv, RowStep, NEW m \in Member, task # NoTask, task' # task,
                      m = task'.assignee, snap[m] = NoTask
               PROVE  m \in unread'
    BY RowSteps
  <2>1. PICK x \in Member : Worked(x)
    BY DEF RowStep, Born, RowIdle
  <2>2. m # x /\ m # Nobody
    BY <2>1 DEF Worked
  <2> QED BY <2>1, <2>2 DEF Worked
<1> QED BY <1>1, TaskInvariant, PTL DEF TaskSpec, AssigneeTold

\* The requests of the plugin, under the lock of the row, are steps of TaskLife.
THEOREM LifeImplemented == TaskSpec => ImplementsLife
<1>1. TaskInit => Life!Init
  BY DEF TaskInit, NoTask, Life!Init, stageOf
<1>2. TaskInv /\ RowStep => [Life!Next]_(Life!life)
  <2> SUFFICES ASSUME TaskInv, RowStep PROVE [Life!Next]_(Life!life)
    OBVIOUS
  <2>0. task \in WorkTask
    BY DEF TaskInv, TaskTypeOK
  <2>1. ASSUME NEW m \in Member, NEW a \in Member, task = NoTask, task' = NewTask(m, a)
        PROVE  Life!Give(a)
    BY <2>1 DEF NoTask, NewTask, Life!Give, stageOf
  <2>2. CASE RowIdle
    BY <2>2 DEF RowIdle, Life!life, stageOf
  <2>3. ASSUME NEW m \in Member, NEW s \in TaskStatus, Moved(m, s)
        PROVE  [Life!Next]_(Life!life)
    <3>1. task'.status = s /\ task'.assignee = task.assignee
      BY <2>0, <2>3 DEF Moved, WorkTask
    <3>2. <<task.status, s>> \in Work \union Review
      BY <2>3 DEF Moved, Available
    <3>3. CASE <<task.status, s>> \in Review
      <4>1. Life!Decide
        BY <3>1, <3>3 DEF Review, Life!Decide, stageOf
      <4> QED BY <4>1 DEF Life!Next
    <3>4. CASE task.status = "in_progress" /\ s = "submitted"
      <4>1. Life!HandIn
        BY <3>1, <3>4 DEF Life!HandIn, stageOf
      <4> QED BY <4>1 DEF Life!Next
    <3>5. CASE <<task.status, s>> \in Work /\ s # "submitted"
      BY <3>1, <3>5 DEF Work, Life!life, stageOf
    <3> QED BY <3>2, <3>3, <3>4, <3>5 DEF Work
  <2>4. CASE Voided
    <3>1. task'.status = "cancelled" /\ task'.assignee = task.assignee
      BY <2>0, <2>4 DEF Voided, WorkTask
    <3>2. task.status \in TaskStatus \ {"done", "cancelled"}
      BY <2>0, <2>4 DEF Voided, WorkTask
    <3>3. Life!Void
      BY <3>1, <3>2 DEF Life!Void, stageOf, TaskStatus
    <3> QED BY <3>3 DEF Life!Next
  <2>5. ASSUME NEW a \in Member, task.status # "cancelled", task' = Reassigned(task, a)
        PROVE  Life!Give(a)
    <3>1. task'.status = "todo" /\ task'.assignee = a
      BY <2>0, <2>5 DEF Reassigned, WorkTask
    <3>2. stageOf # "void"
      BY <2>0, <2>5 DEF WorkTask, TaskStatus, stageOf
    <3> QED BY <2>5, <3>1, <3>2 DEF Life!Give, stageOf
  <2> QED BY <2>1, <2>2, <2>3, <2>4, <2>5 DEF RowStep, Worked, Born, Given, Life!Next
<1>3. TaskInv /\ [TaskNext]_taskVars => [Life!Next]_(Life!life)
  BY <1>2, RowSteps
<1> QED BY <1>1, <1>3, TaskInvariant, PTL DEF TaskSpec, ImplementsLife, Life!Spec

HIDE TaskAssumption
USE AccountsAssumption

-----------------------------------------------------------------------------
(* Type correctness.                                                       *)

Less == {p \in Nat \X Nat : p[1] < p[2]}

\* A set of numbers that is not empty has a least element.
LEMMA Least == ASSUME NEW S \in SUBSET Nat, S # {} PROVE \E u \in S : \A v \in S : u <= v
<1>1. IsWellFoundedOn(Less, Nat)
  BY NatLessThanWellFounded DEF OpToRel, Less
<1>2. PICK u \in S : \A v \in S : ~(<<v, u>> \in Less)
  <2> HIDE DEF Less
  <2> QED BY <1>1, WFMin
<1>3. ASSUME NEW v \in S PROVE u <= v
  <2>1. ~(v < u)
    BY <1>2 DEF Less
  <2> QED BY <2>1, SMT
<1> QED BY <1>3

LEMMA ByMailType == ASSUME NEW s PROVE ByMail(s) \in Account
<1> DEFINE found == {u \in Request : mail[u] = s}
<1>1. CASE found = {}
  BY <1>1 DEF ByMail, Account
<1>2. CASE found # {}
  <2>1. found \in SUBSET Nat
    BY SMT DEF Request
  <2>2. \E u \in found : \A v \in found : u <= v
    BY <1>2, <2>1, Least
  <2> QED BY <1>2, <2>2 DEF ByMail, Account
<1> QED BY <1>1, <1>2

LEMMA AlikeOne ==
    ASSUME NEW d, Cardinality(Alike(d)) = 1
    PROVE  (CHOOSE e \in Alike(d) : TRUE) \in Device
<1>1. Alike(d) # {}
  BY FS_EmptySet, SMT
<1> QED BY <1>1 DEF Alike

\* A request that was sent is one of a device, and has an account once it is
\* resolved; a session is one of an account.
Known ==
    \A n \in Request :
        /\ request[n].pc # "none" => request[n].device \in Device
        /\ request[n].pc \in {"resolved", "checked"} => request[n].user \in Request

SignedIn == \A d \in Device : session[d] # SignedOut => session[d].user \in Request

AccountTyped == AccountTypeOK /\ Known /\ SignedIn

LEMMA ResolvedType ==
    ASSUME AccountTypeOK, NEW q \in RequestRow, q.device \in Device
    PROVE  Resolved(q) \in Account
<1>1. \A d \in Device : row[d].user \in Account
  BY DEF AccountTypeOK, DeviceRow
<1>2. CASE q.kind = "sync"
  BY <1>2 DEF Resolved, RequestRow
<1>3. CASE q.kind = "name"
  <2>1. Cardinality(Alike(q.device)) = 1 => (CHOOSE e \in Alike(q.device) : TRUE) \in Device
    BY AlikeOne
  <2> QED BY <1>1, <1>3, <2>1 DEF Resolved, Account
<1>4. CASE q.kind = "google"
  <2>1. CASE BySubject(q.subject) # {}
    BY <1>4, <2>1 DEF Resolved, BySubject, Account
  <2>2. CASE BySubject(q.subject) = {}
    BY <1>4, <2>2, ByMailType DEF Resolved
  <2> QED BY <2>1, <2>2
<1> QED BY <1>2, <1>3, <1>4 DEF RequestRow, Kind

LEMMA NoRowsType ==
    /\ NoRequest \in RequestRow /\ Absent \in DeviceRow /\ SignedOut \in SessionUser
    /\ NoRequest.pc = "none"
BY SMT DEF NoRequest, RequestRow, Kind, Absent, DeviceRow, SignedOut, SessionUser, Account, NoAccount

LEMMA RequestRange ==
    /\ \A n \in Request : n \in 0..MaxRequest /\ n \in Account
    /\ \A k \in 1..MaxKeys : k \in 0..MaxKeys
BY SMT DEF Request, Account

LEMMA AccountInitType == AccountInit => AccountTyped
BY NoRowsType, SMT DEF AccountInit, AccountTyped, AccountTypeOK, Known, SignedIn

LEMMA CommitAccountType ==
    ASSUME AccountTypeOK, NEW q \in RequestRow, CommitAccount(q)
    PROVE  /\ subject' \in [Request -> Subject \union {NoSubject}]
           /\ mail' \in [Request -> Subject \union {NoSubject}]
BY DEF AccountTypeOK, RequestRow, CommitAccount

LEMMA FinishType ==
    ASSUME AccountTyped, NEW n \in Request, Finish(n)
    PROVE  request' \in [Request -> RequestRow] /\ Known'
BY NoRowsType DEF AccountTyped, AccountTypeOK, Known, Finish

LEMMA WrittenType ==
    ASSUME AccountTypeOK, NEW q \in RequestRow, NEW n \in Request, q.device \in Device
    PROVE  Written(q, n) \in DeviceRow
<1>1. row[q.device] \in DeviceRow
  BY DEF AccountTypeOK
<1> QED BY <1>1, RequestRange DEF Written, RequestRow, DeviceRow

LEMMA SendType ==
    ASSUME AccountTyped, NEW d \in Device, NEW kind \in Kind,
           NEW s \in Subject \union {NoSubject}, NEW u \in Account, Send(d, kind, s, u)
    PROVE  AccountTyped'
<1>1. sent + 1 \in Request /\ sent + 1 \in 0..MaxRequest
  BY SMT DEF Send, AccountTyped, AccountTypeOK, Request
<1>2. [pc |-> "sent", kind |-> kind, device |-> d, subject |-> s, keys |-> keys[d],
       user |-> u, setMail |-> FALSE, insert |-> FALSE, live |-> TRUE] \in RequestRow
  BY DEF AccountTyped, AccountTypeOK, RequestRow
<1> QED BY <1>1, <1>2 DEF Send, AccountTyped, AccountTypeOK, Known, SignedIn

LEMMA AccountStepType == AccountTyped /\ [AccountNext]_accountVars => AccountTyped'
<1> SUFFICES ASSUME AccountTyped, [AccountNext]_accountVars PROVE AccountTyped'
  OBVIOUS
<1>0. /\ \A n \in Request : request[n] \in RequestRow
      /\ \A d \in Device : row[d] \in DeviceRow /\ session[d] \in SessionUser
      /\ NoAccount \in Account
  BY DEF AccountTyped, AccountTypeOK, Account
<1>1. ASSUME NEW d \in Device, SignIn(d) PROVE AccountTyped'
  BY <1>0, <1>1, SendType DEF SignIn, Kind
<1>2. ASSUME NEW d \in Device, Restore(d) PROVE AccountTyped'
  <2>1. session[d].user \in Account
    BY <1>0 DEF SessionUser
  <2> QED BY <1>2, <2>1, SendType DEF Restore, Kind
<1>3. ASSUME NEW d \in Device, Logout(d) PROVE AccountTyped'
  BY <1>3, NoRowsType DEF Logout, AccountTyped, AccountTypeOK, Known, SignedIn
<1>4. ASSUME NEW d \in Device, NewKeys(d) PROVE AccountTyped'
  <2>1. keys[d] + 1 \in 1..MaxKeys
    BY <1>4, SMT DEF NewKeys, AccountTyped, AccountTypeOK
  <2> QED BY <1>4, <2>1 DEF NewKeys, AccountTyped, AccountTypeOK, Known, SignedIn
<1>5. ASSUME NEW d \in Device, Touch(d) PROVE AccountTyped'
  <2>1. [row[d] EXCEPT !.status = "active"] \in DeviceRow
    BY <1>0 DEF DeviceRow
  <2> QED BY <1>5, <2>1 DEF Touch, AccountTyped, AccountTypeOK, Known, SignedIn
<1>6. ASSUME NEW n \in Request, GiveUp(n) PROVE AccountTyped'
  <2>1. [request[n] EXCEPT !.live = FALSE] \in RequestRow
        /\ [request[n] EXCEPT !.live = FALSE].pc = request[n].pc
        /\ [request[n] EXCEPT !.live = FALSE].device = request[n].device
    BY <1>0 DEF RequestRow
  <2>2. session' \in [Device -> SessionUser] /\ SignedIn'
    BY <1>6, NoRowsType DEF GiveUp, AccountTyped, AccountTypeOK, SignedIn
  <2>3. [request[n] EXCEPT !.live = FALSE].user = request[n].user
    BY <1>0 DEF RequestRow
  <2> QED BY <1>6, <2>1, <2>2, <2>3 DEF GiveUp, AccountTyped, AccountTypeOK, Known, SignedIn
<1>7. ASSUME NEW n \in Request, Resolve(n) PROVE AccountTyped'
  <2> DEFINE q == request[n]
             u == IF Resolved(q) = NoAccount THEN n ELSE Resolved(q)
             r == [q EXCEPT !.pc = "resolved", !.user = u,
                            !.setMail = q.kind = "google" /\ mail[u] # q.subject]
  <2>1. q.device \in Device
    BY <1>7 DEF Resolve, AccountTyped, Known
  <2>2. u \in Request /\ u \in Account
    BY <1>0, <2>1, ResolvedType, RequestRange DEF AccountTyped, Account
  <2>3. r \in RequestRow /\ r.device = q.device /\ r.user = u
    <3> HIDE DEF u
    <3> QED BY <1>0, <2>2 DEF RequestRow
  <2>4. request' = [request EXCEPT ![n] = r]
    BY <1>7 DEF Resolve
  <2> HIDE DEF r, u, q
  <2>5. request' \in [Request -> RequestRow] /\ Known'
    BY <2>1, <2>2, <2>3, <2>4 DEF AccountTyped, AccountTypeOK, Known
  <2> QED BY <1>7, <2>5 DEF Resolve, AccountTyped, AccountTypeOK, SignedIn
<1>8. ASSUME NEW n \in Request, Abort(n) PROVE AccountTyped'
  BY <1>8, FinishType DEF Abort, AccountTyped, AccountTypeOK, SignedIn
<1>9. ASSUME NEW n \in Request, Refusal(n) PROVE AccountTyped'
  <2>1. session' \in [Device -> SessionUser] /\ SignedIn'
    BY <1>9, NoRowsType DEF Refusal, AccountTyped, AccountTypeOK, SignedIn
  <2>2. /\ subject' \in [Request -> Subject \union {NoSubject}]
        /\ mail' \in [Request -> Subject \union {NoSubject}]
    BY <1>0, <1>9, CommitAccountType DEF Refusal, AccountTyped
  <2>3. request' \in [Request -> RequestRow] /\ Known'
    BY <1>9, FinishType DEF Refusal
  <2> QED BY <1>9, <2>1, <2>2, <2>3 DEF Refusal, AccountTyped, AccountTypeOK
<1>10. ASSUME NEW n \in Request, Check(n) PROVE AccountTyped'
  <2> DEFINE q == request[n]
             r == [q EXCEPT !.pc = "checked", !.insert = row[q.device].status = "absent"]
  <2>1. r \in RequestRow /\ r.device = q.device /\ r.user = q.user
    BY <1>0 DEF RequestRow
  <2>2. request' = [request EXCEPT ![n] = r]
    BY <1>0, <1>10 DEF Check, AccountTyped, AccountTypeOK
  <2>3. q.device \in Device /\ q.user \in Request
    BY <1>10 DEF Check, AccountTyped, Known
  <2> HIDE DEF r, q
  <2>4. request' \in [Request -> RequestRow] /\ Known'
    BY <2>1, <2>2, <2>3 DEF AccountTyped, AccountTypeOK, Known
  <2> QED BY <1>10, <2>4 DEF Check, AccountTyped, AccountTypeOK, SignedIn
<1>11. ASSUME NEW n \in Request, Commit(n) PROVE AccountTyped'
  <2> DEFINE q == request[n]
  <2>1. q \in RequestRow /\ q.device \in Device /\ q.user \in Request
    BY <1>0, <1>11 DEF Commit, AccountTyped, Known
  <2>2. /\ subject' \in [Request -> Subject \union {NoSubject}]
        /\ mail' \in [Request -> Subject \union {NoSubject}]
    BY <1>11, <2>1, CommitAccountType DEF Commit, AccountTyped
  <2>3. request' \in [Request -> RequestRow] /\ Known'
    BY <1>11, FinishType DEF Commit
  <2>4. row' \in [Device -> DeviceRow]
    BY <1>11, <2>1, WrittenType DEF Commit, AccountTyped, AccountTypeOK
  <2>5. session' \in [Device -> SessionUser] /\ SignedIn'
    <3>1. [user |-> q.user, subject |-> q.subject, keys |-> q.keys, credential |-> n] \in SessionUser
      BY <2>1, RequestRange DEF RequestRow, SessionUser
    <3> QED BY <1>11, <2>1, <3>1 DEF Commit, AccountTyped, AccountTypeOK, SignedIn
  <2>6. unheard' \subseteq Device
    BY <1>11, <2>1 DEF Commit, AccountTyped, AccountTypeOK
  <2> QED BY <1>11, <2>2, <2>3, <2>4, <2>5, <2>6 DEF Commit, AccountTyped, AccountTypeOK
<1>12. ASSUME NEW d \in Device, NEW e \in Device, Revoke(d, e) PROVE AccountTyped'
  <2>1. [row[d] EXCEPT !.status = "revoked"] \in DeviceRow
    BY <1>0 DEF DeviceRow
  <2> QED BY <1>12, <2>1 DEF Revoke, AccountTyped, AccountTypeOK, Known, SignedIn
<1>13. ASSUME NEW d \in Device, NEW s \in Subject \union {NoSubject}, SetMail(d, s)
       PROVE  AccountTyped'
  <2>1. edited' \subseteq Request
    BY <1>13 DEF SetMail, AccountTyped, AccountTypeOK, SignedIn
  <2> QED BY <1>13, <2>1 DEF SetMail, AccountTyped, AccountTypeOK, Known, SignedIn
<1>14. CASE UNCHANGED accountVars
  BY <1>14 DEF accountVars, AccountTyped, AccountTypeOK, Known, SignedIn
<1> QED
  BY <1>1, <1>2, <1>3, <1>4, <1>5, <1>6, <1>7, <1>8, <1>9, <1>10, <1>11, <1>12, <1>13, <1>14
     DEF AccountNext

\* Every variable of the accounts has its type, for any devices, identities
\* and bounds.
THEOREM AccountTypeCorrect == AccountSpec => []AccountTypeOK
<1>1. AccountTyped => AccountTypeOK
  BY DEF AccountTyped
<1> QED BY <1>1, AccountInitType, AccountStepType, PTL DEF AccountSpec

-----------------------------------------------------------------------------
(* The row of a device.                                                    *)

Checked(n) == request[n].pc = "checked"

\* What upsert_user_device found when it checked the row still holds when its
\* transaction commits.
ClaimsHold ==
    /\ \A n \in Request : Checked(n) /\ request[n].insert =>
          row[request[n].device].status = "absent"
    /\ \A n, m \in Request :
          /\ Checked(n) /\ Checked(m) /\ request[n].insert /\ request[m].insert
          /\ request[n].device = request[m].device
          => n = m
    /\ \A n \in Request : Checked(n) /\ ~request[n].insert =>
          /\ row[request[n].device].status # "absent"
          /\ row[request[n].device].user = request[n].user
          /\ row[request[n].device].keys = request[n].keys

\* An app that is signed in has a row.
SessionHasRow == \A d \in Device : session[d] # SignedOut => row[d].status # "absent"

DeviceInv == ClaimsHold /\ SessionHasRow /\ SessionOwnsDevice /\ CredentialKept /\ RevokedStays

\* No claim is made, and no row, credential or session changes but for a
\* session that ends.
ClaimKept(n) ==
    request'[n].pc = "checked" =>
        /\ Checked(n) /\ request'[n].device = request[n].device
        /\ request'[n].insert = request[n].insert
        /\ request'[n].user = request[n].user /\ request'[n].keys = request[n].keys

NoClaim ==
    /\ UNCHANGED <<row, quiet>>
    /\ \A n \in Request : ClaimKept(n)
    /\ \A d \in Device : session'[d] = SignedOut \/ (session'[d] = session[d] /\ (d \in unheard => d \in unheard'))

LEMMA NoClaimStep == ASSUME DeviceInv, NoClaim PROVE DeviceInv'
<1>1. ClaimsHold'
  BY DEF DeviceInv, ClaimsHold, NoClaim, ClaimKept, Checked
<1>2. SessionHasRow' /\ SessionOwnsDevice' /\ CredentialKept'
  BY DEF DeviceInv, SessionHasRow, SessionOwnsDevice, CredentialKept, NoClaim
<1>3. RevokedStays'
  BY DEF DeviceInv, RevokedStays, NoClaim
<1> QED BY <1>1, <1>2, <1>3 DEF DeviceInv

LEMMA NoClaimSteps ==
    ASSUME AccountTyped,
           \/ \E d \in Device : SignIn(d) \/ Restore(d) \/ Logout(d) \/ NewKeys(d)
           \/ \E n \in Request : GiveUp(n) \/ Resolve(n) \/ Abort(n) \/ Refusal(n)
           \/ \E d \in Device, s \in Subject \union {NoSubject} : SetMail(d, s)
           \/ UNCHANGED accountVars
    PROVE  NoClaim
<1>0. /\ request \in [Request -> RequestRow] /\ \A n \in Request : request[n] \in RequestRow
      /\ session \in [Device -> SessionUser]
  BY DEF AccountTyped, AccountTypeOK
<1>1. ASSUME NEW d, NEW kind, NEW s, NEW u, Send(d, kind, s, u) PROVE NoClaim
  BY <1>0, <1>1 DEF Send, NoClaim, ClaimKept, Checked
<1>2. ASSUME NEW d \in Device, SignIn(d) \/ Restore(d) PROVE NoClaim
  BY <1>1, <1>2 DEF SignIn, Restore
<1>3. ASSUME NEW d \in Device, Logout(d) PROVE NoClaim
  <2>1. \A n \in Request : ClaimKept(n)
    BY <1>3 DEF Logout, ClaimKept, Checked
  <2>2. session'[d] = SignedOut /\ \A e \in Device \ {d} : session'[e] = session[e]
    BY <1>0, <1>3 DEF Logout
  <2>3. \A e \in Device : session'[e] = SignedOut \/ (session'[e] = session[e] /\ (e \in unheard => e \in unheard'))
    BY <1>3, <2>2 DEF Logout
  <2>4. UNCHANGED <<row, quiet>>
    BY <1>3 DEF Logout
  <2> QED BY <2>1, <2>3, <2>4 DEF NoClaim
<1>4. CASE UNCHANGED <<row, request, session, unheard, quiet>>
  BY <1>4 DEF NoClaim, ClaimKept, Checked
<1>5. ASSUME NEW n \in Request, GiveUp(n) PROVE NoClaim
  <2>1. \A m \in Request : ClaimKept(m)
    <3>1. ASSUME NEW m \in Request PROVE ClaimKept(m)
      <4>1. CASE m = n
        <5>1. request'[m] = [request[m] EXCEPT !.live = FALSE]
          BY <1>0, <1>5, <4>1 DEF GiveUp
        <5> QED BY <1>0, <5>1 DEF ClaimKept, Checked, RequestRow
      <4>2. CASE m # n
        BY <1>0, <1>5, <4>2 DEF GiveUp, ClaimKept, Checked
      <4> QED BY <4>1, <4>2
    <3> QED BY <3>1
  <2> QED BY <1>0, <1>5, <2>1 DEF GiveUp, NoClaim
<1>6. ASSUME NEW n \in Request, Resolve(n) PROVE NoClaim
  <2>1. request'[n].pc = "resolved" /\ \A m \in Request \ {n} : request'[m] = request[m]
    BY <1>0, <1>6 DEF Resolve, RequestRow
  <2> QED BY <1>6, <2>1 DEF Resolve, NoClaim, ClaimKept, Checked
<1>7. ASSUME NEW n \in Request, Abort(n) \/ Refusal(n) PROVE NoClaim
  <2>1. request'[n].pc = "none" /\ \A m \in Request \ {n} : request'[m] = request[m]
    BY <1>0, <1>7, NoRowsType DEF Abort, Refusal, Finish
  <2> QED BY <1>0, <1>7, <2>1 DEF Abort, Refusal, NoClaim, ClaimKept, Checked
<1> QED BY <1>2, <1>3, <1>4, <1>5, <1>6, <1>7 DEF NewKeys, SetMail, accountVars

LEMMA CheckStep ==
    ASSUME AccountTyped, DeviceInv, NEW n \in Request, Check(n) PROVE DeviceInv'
<1> DEFINE q == request[n]
           r == [q EXCEPT !.pc = "checked", !.insert = row[q.device].status = "absent"]
<1>0. request \in [Request -> RequestRow] /\ q \in RequestRow
  BY DEF AccountTyped, AccountTypeOK
<1>1. request' = [request EXCEPT ![n] = r]
  BY <1>0 DEF Check
<1>2. /\ r.device = q.device /\ r.user = q.user /\ r.keys = q.keys /\ r.pc = "checked"
      /\ r.insert = (row[q.device].status = "absent")
  BY <1>0 DEF RequestRow
<1>3. /\ ~DeviceHeld(q) /\ ~Refused(q)
      /\ UNCHANGED <<row, session, unheard, quiet>>
  BY DEF Check
<1> HIDE DEF r, q
<1>4. request'[n] = r /\ \A m \in Request \ {n} : request'[m] = request[m]
  BY <1>0, <1>1
<1>5. ClaimsHold'
  <2>1. ASSUME NEW m \in Request, Checked(m), request[m].insert PROVE request[m].device # q.device
    BY <1>3, <2>1 DEF DeviceHeld, Checked
  <2>2. row[q.device].status # "absent" => row[q.device].user = q.user /\ row[q.device].keys = q.keys
    BY <1>3 DEF Refused
  <2>3. \A m \in Request : request'[m].pc = "checked" => m = n \/ Checked(m)
    BY <1>4 DEF Checked
  <2>4. \A m \in Request : request'[m].pc = "checked" /\ request'[m].insert =>
           row'[request'[m].device].status = "absent"
    <3>1. ASSUME NEW m \in Request, m # n, Checked(m), request[m].insert
          PROVE  row'[request[m].device].status = "absent"
      BY <1>3, <3>1 DEF DeviceInv, ClaimsHold
    <3>2. r.insert => row'[r.device].status = "absent"
      BY <1>2, <1>3
    <3> QED BY <1>4, <2>3, <3>1, <3>2
  <2>5. \A m, k \in Request :
           /\ request'[m].pc = "checked" /\ request'[k].pc = "checked"
           /\ request'[m].insert /\ request'[k].insert
           /\ request'[m].device = request'[k].device
           => m = k
    BY <1>2, <1>4, <2>1, <2>3 DEF DeviceInv, ClaimsHold
  <2>6. \A m \in Request : request'[m].pc = "checked" /\ ~request'[m].insert =>
          /\ row'[request'[m].device].status # "absent"
          /\ row'[request'[m].device].user = request'[m].user
          /\ row'[request'[m].device].keys = request'[m].keys
    <3>1. r.insert \/ row[q.device].status # "absent"
      BY <1>2
    <3>2. CASE r.insert
      BY <1>3, <1>4, <2>3, <3>2 DEF DeviceInv, ClaimsHold
    <3>3. CASE row[q.device].status # "absent"
      BY <1>2, <1>3, <1>4, <2>2, <2>3, <3>3 DEF DeviceInv, ClaimsHold
    <3> QED BY <3>1, <3>2, <3>3
  <2> QED BY <2>4, <2>5, <2>6 DEF ClaimsHold, Checked
<1>6. SessionHasRow' /\ SessionOwnsDevice' /\ CredentialKept' /\ RevokedStays'
  BY <1>3 DEF DeviceInv, SessionHasRow, SessionOwnsDevice, CredentialKept, RevokedStays
<1> QED BY <1>5, <1>6 DEF DeviceInv

LEMMA WrittenRow ==
    ASSUME NEW q \in RequestRow, NEW n, row[q.device] \in DeviceRow,
           q.insert => row[q.device].status = "absent",
           ~q.insert => /\ row[q.device].status # "absent" /\ row[q.device].user = q.user
                        /\ row[q.device].keys = q.keys
    PROVE  /\ q.insert <=> row[q.device].status = "absent"
           /\ Written(q, n).status # "absent" /\ Written(q, n).user = q.user
           /\ Written(q, n).keys = q.keys
           /\ ~q.insert => Written(q, n).status = row[q.device].status
           /\ Written(q, n).credential = IF q.kind = "sync" THEN row[q.device].credential ELSE n
<1>1. CASE q.insert
  BY <1>1 DEF Written
<1>2. CASE ~q.insert
  <2>1. \A c : /\ [row[q.device] EXCEPT !.credential = c].status = row[q.device].status
               /\ [row[q.device] EXCEPT !.credential = c].user = row[q.device].user
               /\ [row[q.device] EXCEPT !.credential = c].keys = row[q.device].keys
               /\ [row[q.device] EXCEPT !.credential = c].credential = c
    BY DEF DeviceRow
  <2> QED BY <1>2, <2>1 DEF Written
<1> QED BY <1>1, <1>2

LEMMA CommitStep ==
    ASSUME AccountTyped, DeviceInv, NEW n \in Request, Commit(n) PROVE DeviceInv'
<1> DEFINE q == request[n]
           d == q.device
           old == row[d]
           new == Written(q, n)
<1>2. q \in RequestRow /\ d \in Device /\ Checked(n) /\ old \in DeviceRow
  BY DEF Commit, AccountTyped, AccountTypeOK, Known, Checked
<1>1. /\ q.insert <=> old.status = "absent"
      /\ new.status # "absent" /\ new.user = q.user /\ new.keys = q.keys
      /\ ~q.insert => new.status = old.status
      /\ new.credential = IF q.kind = "sync" THEN old.credential ELSE n
  <2>1. /\ q.insert => old.status = "absent"
        /\ ~q.insert => old.status # "absent" /\ old.user = q.user /\ old.keys = q.keys
    BY <1>2 DEF DeviceInv, ClaimsHold
  <2> QED BY <1>2, <2>1, WrittenRow
<1>3. row'[d] = new /\ \A e \in Device \ {d} : row'[e] = row[e]
  BY <1>2 DEF Commit, AccountTyped, AccountTypeOK
<1>4. request'[n].pc = "none" /\ \A m \in Request \ {n} : request'[m] = request[m]
  BY NoRowsType DEF Commit, Finish, AccountTyped, AccountTypeOK
<1>5. /\ \A e \in Device \ {d} : session'[e] = session[e] /\ (e \in unheard => e \in unheard')
      /\ \/ session'[d] = session[d] /\ (d \in unheard => d \in unheard') /\ (q.kind = "sync" \/ d \in unheard')
         \/ q.kind # "sync" /\ session'[d] = [user |-> q.user, subject |-> q.subject,
                                             keys |-> q.keys, credential |-> n]
      /\ quiet' = quiet
  BY <1>2 DEF Commit, AccountTyped, AccountTypeOK
<1> HIDE DEF new, old, d, q
<1>6. ClaimsHold'
  <2>1. ASSUME NEW m \in Request, request'[m].pc = "checked"
        PROVE  m # n /\ Checked(m) /\ request'[m] = request[m] /\ request[m].device \in Device
    BY <1>4, <2>1 DEF AccountTyped, Known, Checked
  <2>2. ASSUME NEW m \in Request, m # n, Checked(m), request[m].device = d
        PROVE  /\ ~request[m].insert /\ ~q.insert
               /\ new.user = request[m].user /\ new.keys = request[m].keys
    <3>1. ~(request[m].insert /\ q.insert)
      BY <1>2, <2>2 DEF DeviceInv, ClaimsHold, q, d
    <3>2. /\ request[m].insert => old.status = "absent"
          /\ ~request[m].insert => /\ old.status # "absent" /\ old.user = request[m].user
                                   /\ old.keys = request[m].keys
      BY <2>2 DEF DeviceInv, ClaimsHold, old
    <3>3. ~q.insert => old.user = q.user /\ old.keys = q.keys
      BY <1>2 DEF DeviceInv, ClaimsHold, old, d, q
    <3> QED BY <1>1, <3>1, <3>2, <3>3
  <2>3. ASSUME NEW m \in Request, request'[m].pc = "checked"
        PROVE  /\ request[m].insert => row'[request[m].device].status = "absent"
               /\ ~request[m].insert =>
                     /\ row'[request[m].device].status # "absent"
                     /\ row'[request[m].device].user = request[m].user
                     /\ row'[request[m].device].keys = request[m].keys
    <3>1. CASE request[m].device = d
      BY <1>1, <1>3, <2>1, <2>2, <2>3, <3>1
    <3>2. CASE request[m].device # d
      BY <1>3, <2>1, <2>3, <3>2 DEF DeviceInv, ClaimsHold
    <3> QED BY <3>1, <3>2
  <2> QED BY <2>1, <2>3 DEF DeviceInv, ClaimsHold, Checked
<1>7. SessionHasRow' /\ SessionOwnsDevice' /\ CredentialKept'
  <2>1. ASSUME NEW e \in Device, e # d, session'[e] # SignedOut
        PROVE  /\ row'[e].status # "absent" /\ row'[e].user = session'[e].user
               /\ row'[e].keys = session'[e].keys
               /\ e \notin unheard' => row'[e].credential = session'[e].credential
    BY <1>3, <1>5, <2>1 DEF DeviceInv, SessionHasRow, SessionOwnsDevice, CredentialKept
  <2>2. ASSUME session'[d] # SignedOut
        PROVE  /\ row'[d].status # "absent" /\ row'[d].user = session'[d].user
               /\ row'[d].keys = session'[d].keys
               /\ d \notin unheard' => row'[d].credential = session'[d].credential
    <3>1. CASE /\ session'[d] = session[d] /\ (d \in unheard => d \in unheard')
               /\ q.kind = "sync" \/ d \in unheard'
      <4>1. /\ old.status # "absent" /\ old.user = session[d].user /\ old.keys = session[d].keys
            /\ d \notin unheard => old.credential = session[d].credential
        BY <1>2, <2>2, <3>1 DEF DeviceInv, SessionHasRow, SessionOwnsDevice, CredentialKept, old
      <4>2. old.user = q.user /\ old.keys = q.keys
        BY <1>1, <1>2, <4>1 DEF DeviceInv, ClaimsHold, old, d, q
      <4> QED BY <1>1, <1>3, <3>1, <4>1, <4>2
    <3>2. CASE /\ q.kind # "sync"
               /\ session'[d] = [user |-> q.user, subject |-> q.subject,
                                 keys |-> q.keys, credential |-> n]
      BY <1>1, <1>3, <3>2
    <3> QED BY <1>5, <3>1, <3>2
  <2> QED BY <2>1, <2>2 DEF SessionHasRow, SessionOwnsDevice, CredentialKept
<1>8. ASSUME NEW e \in quiet' PROVE row'[e].status = "revoked"
  <2>1. e \in Device /\ row[e].status = "revoked"
    BY <1>5, <1>8 DEF DeviceInv, RevokedStays, AccountTyped, AccountTypeOK
  <2>2. CASE e = d
    BY <1>1, <1>3, <2>1, <2>2 DEF old
  <2> QED BY <1>3, <2>1, <2>2
<1> QED BY <1>6, <1>7, <1>8 DEF DeviceInv, RevokedStays

\* A revocation or a touch of the row changes its status, and no claim.
LEMMA StatusStep ==
    ASSUME AccountTyped, DeviceInv, NEW d \in Device, row[d].status # "absent",
           NEW s \in {"active", "revoked"}, row' = [row EXCEPT ![d].status = s],
           UNCHANGED <<request, session, unheard>>
    PROVE  ClaimsHold' /\ SessionHasRow' /\ SessionOwnsDevice' /\ CredentialKept'
<1>1. /\ row'[d].status # "absent" /\ row'[d].user = row[d].user
      /\ row'[d].keys = row[d].keys /\ row'[d].credential = row[d].credential
      /\ \A e \in Device \ {d} : row'[e] = row[e]
  BY DEF AccountTyped, AccountTypeOK, DeviceRow
<1>2. \A e \in Device :
         /\ row'[e].user = row[e].user /\ row'[e].keys = row[e].keys
         /\ row'[e].credential = row[e].credential
         /\ row'[e].status = "absent" <=> row[e].status = "absent"
  BY <1>1
<1>3. \A n \in Request : Checked(n) => request[n].device \in Device
  BY DEF AccountTyped, Known, Checked
<1>4. ClaimsHold'
  BY <1>2, <1>3 DEF DeviceInv, ClaimsHold, Checked
<1> QED BY <1>2, <1>4 DEF DeviceInv, SessionHasRow, SessionOwnsDevice, CredentialKept

LEMMA DeviceStep == AccountTyped /\ DeviceInv /\ [AccountNext]_accountVars => DeviceInv'
<1> SUFFICES ASSUME AccountTyped, DeviceInv, [AccountNext]_accountVars PROVE DeviceInv'
  OBVIOUS
<1>0. row \in [Device -> DeviceRow]
  BY DEF AccountTyped, AccountTypeOK
<1>1. ASSUME NEW d \in Device, SignIn(d) \/ Restore(d) \/ Logout(d) \/ NewKeys(d) PROVE DeviceInv'
  BY <1>1, NoClaimSteps, NoClaimStep
<1>2. ASSUME NEW n \in Request, GiveUp(n) \/ Resolve(n) \/ Abort(n) \/ Refusal(n) PROVE DeviceInv'
  BY <1>2, NoClaimSteps, NoClaimStep
<1>3. ASSUME NEW d \in Device, NEW s \in Subject \union {NoSubject}, SetMail(d, s) PROVE DeviceInv'
  BY <1>3, NoClaimSteps, NoClaimStep
<1>4. CASE UNCHANGED accountVars
  BY <1>4, NoClaimSteps, NoClaimStep
<1>5. ASSUME NEW n \in Request, Check(n) PROVE DeviceInv'
  BY <1>5, CheckStep
<1>6. ASSUME NEW n \in Request, Commit(n) PROVE DeviceInv'
  BY <1>6, CommitStep
<1>7. ASSUME NEW d \in Device, NEW e \in Device, Revoke(d, e) PROVE DeviceInv'
  <2>1. ClaimsHold' /\ SessionHasRow' /\ SessionOwnsDevice' /\ CredentialKept'
    BY <1>7, StatusStep DEF Revoke
  <2>2. RevokedStays'
    BY <1>0, <1>7 DEF Revoke, DeviceInv, RevokedStays, DeviceRow, AccountTyped, AccountTypeOK
  <2> QED BY <2>1, <2>2 DEF DeviceInv
<1>8. ASSUME NEW d \in Device, Touch(d) PROVE DeviceInv'
  <2>1. ClaimsHold' /\ SessionHasRow' /\ SessionOwnsDevice' /\ CredentialKept'
    BY <1>8, StatusStep DEF Touch
  <2>2. RevokedStays'
    BY <1>0, <1>8 DEF Touch, DeviceInv, RevokedStays, AccountTyped, AccountTypeOK
  <2> QED BY <2>1, <2>2 DEF DeviceInv
<1> QED
  BY <1>1, <1>2, <1>3, <1>4, <1>5, <1>6, <1>7, <1>8 DEF AccountNext

LEMMA DeviceInvariant == AccountSpec => []DeviceInv
<1>1. AccountInit => DeviceInv
  BY NoRowsType DEF AccountInit, DeviceInv, ClaimsHold, Checked, SessionHasRow,
     SessionOwnsDevice, CredentialKept, RevokedStays
<1> QED BY <1>1, AccountInitType, AccountStepType, DeviceStep, PTL DEF AccountSpec

\* What upsert_user_device refuses, and the unique key of the rows, keep the
\* directory and every session of an app in agreement.
THEOREM SessionOwns == AccountSpec => []SessionOwnsDevice
<1>1. DeviceInv => SessionOwnsDevice
  BY DEF DeviceInv
<1> QED BY <1>1, DeviceInvariant, PTL

\* Only a sign-in rotates the recovery credential of a device.
THEOREM CredentialStays == AccountSpec => []CredentialKept
<1>1. DeviceInv => CredentialKept
  BY DEF DeviceInv
<1> QED BY <1>1, DeviceInvariant, PTL

\* The fields named by the updates of UserDevice leave a revocation alone.
THEOREM Revoked == AccountSpec => []RevokedStays
<1>1. DeviceInv => RevokedStays
  BY DEF DeviceInv
<1> QED BY <1>1, DeviceInvariant, PTL

-----------------------------------------------------------------------------
(* Google identities.                                                      *)

\* A request names an identity when it is a Google sign-in; a number that is
\* not sent yet has no request.
Asked ==
    \A n \in Request :
        /\ n > sent => request[n].pc = "none"
        /\ request[n].pc # "none" =>
              /\ request[n].kind = "google" <=> request[n].subject # NoSubject
              /\ request[n].setMail => request[n].kind = "google"

\* The account a request may create is not looked up yet.
Unborn(u) == u > sent \/ request[u].pc = "sent"

\* Unless it was changed by hand, the e-mail of an account is the one of its
\* identity, and an account that is not there yet has neither.
MailFollows ==
    \A u \in Request \ edited :
        mail[u] = subject[u] /\ (Unborn(u) => subject[u] = NoSubject)

Google(n) == request[n].pc \in {"resolved", "checked"} /\ request[n].kind = "google"

\* A Google sign-in works on the account of its identity, or on a new one.
OwnAccount ==
    \A n \in Request : Google(n) /\ request[n].user \notin edited =>
        /\ \/ subject[request[n].user] = request[n].subject
           \/ request[n].user = n /\ subject[n] = NoSubject
        /\ request[n].setMail \/ mail[request[n].user] = request[n].subject

Writes(n) == Checked(n) /\ request[n].kind = "google"

\* Nobody else has, or is about to get, the identity a checked request writes.
Reserved ==
    \A n \in Request : Writes(n) =>
        /\ \A u \in Request : subject[u] = request[n].subject => u = request[n].user
        /\ \A m \in Request : Writes(m) /\ request[m].subject = request[n].subject
                                => request[m].user = request[n].user

IdentityInv == Asked /\ MailFollows /\ OwnAccount /\ Reserved /\ GoogleIdentity

\* The fields of a request that stay when it goes on.
SameRequest(r, q) ==
    /\ r.kind = q.kind /\ r.subject = q.subject /\ r.user = q.user /\ r.setMail = q.setMail

\* Steps that resolve, check and write nothing: a request ends or stays what
\* it is, a session ends or stays.
Calm(n) ==
    \/ request'[n].pc = "none"
    \/ request'[n].pc = request[n].pc /\ SameRequest(request'[n], request[n])

IdentityKept ==
    /\ UNCHANGED <<subject, mail, sent, edited>>
    /\ \A n \in Request : Calm(n)
    /\ \A d \in Device : session'[d] = SignedOut \/ session'[d] = session[d]

LEMMA NoSession == SignedOut.subject = NoSubject
BY DEF SignedOut

LEMMA KeptStep == ASSUME IdentityInv, IdentityKept PROVE IdentityInv'
<1>1. Asked'
  BY DEF IdentityInv, IdentityKept, Asked, Calm, SameRequest
<1>2. MailFollows'
  BY DEF IdentityInv, IdentityKept, MailFollows, Unborn, Calm, SameRequest
<1>3. ASSUME NEW n \in Request, Google(n)' PROVE Google(n) /\ SameRequest(request'[n], request[n])
  BY <1>3 DEF IdentityKept, Calm, Google, SameRequest
<1>4. ASSUME NEW n \in Request, Writes(n)' PROVE Writes(n) /\ SameRequest(request'[n], request[n])
  BY <1>4 DEF IdentityKept, Calm, Writes, Checked, SameRequest
<1>5. OwnAccount'
  BY <1>3 DEF IdentityInv, IdentityKept, OwnAccount, SameRequest
<1>6. Reserved'
  BY <1>4 DEF IdentityInv, IdentityKept, Reserved, SameRequest
<1>7. GoogleIdentity'
  BY NoSession DEF IdentityInv, IdentityKept, GoogleIdentity
<1> QED BY <1>1, <1>2, <1>5, <1>6, <1>7 DEF IdentityInv

LEMMA KeptSteps ==
    ASSUME AccountTyped,
           \/ \E d \in Device : Logout(d) \/ NewKeys(d) \/ Touch(d)
           \/ \E n \in Request : GiveUp(n) \/ Abort(n)
           \/ \E d, e \in Device : Revoke(d, e)
           \/ UNCHANGED accountVars
    PROVE  IdentityKept
<1>0. /\ request \in [Request -> RequestRow] /\ \A n \in Request : request[n] \in RequestRow
      /\ session \in [Device -> SessionUser]
  BY DEF AccountTyped, AccountTypeOK
<1>1. CASE UNCHANGED <<subject, mail, sent, edited, request, session>>
  BY <1>1 DEF IdentityKept, Calm, SameRequest
<1>2. ASSUME NEW d \in Device, Logout(d) PROVE IdentityKept
  BY <1>0, <1>2 DEF Logout, IdentityKept, Calm, SameRequest
<1>3. ASSUME NEW n \in Request, GiveUp(n) PROVE IdentityKept
  <2>1. request'[n] = [request[n] EXCEPT !.live = FALSE]
        /\ \A m \in Request \ {n} : request'[m] = request[m]
    BY <1>0, <1>3 DEF GiveUp
  <2>2. request'[n].pc = request[n].pc /\ SameRequest(request'[n], request[n])
    BY <1>0, <2>1 DEF SameRequest, RequestRow
  <2>3. \A m \in Request : Calm(m)
    BY <2>1, <2>2 DEF Calm, SameRequest
  <2> QED BY <1>0, <1>3, <2>3 DEF GiveUp, IdentityKept
<1>4. ASSUME NEW n \in Request, Abort(n) PROVE IdentityKept
  <2>1. request'[n].pc = "none" /\ \A m \in Request \ {n} : request'[m] = request[m]
    BY <1>0, <1>4, NoRowsType DEF Abort, Finish
  <2> QED BY <1>4, <2>1 DEF Abort, IdentityKept, Calm, SameRequest
<1> QED BY <1>1, <1>2, <1>3, <1>4 DEF NewKeys, Touch, Revoke, accountVars

LEMMA SendIdentity ==
    ASSUME AccountTyped, IdentityInv, NEW d \in Device, NEW kind \in Kind,
           NEW s \in Subject \union {NoSubject}, NEW u \in Account,
           kind = "google" <=> s # NoSubject, Send(d, kind, s, u)
    PROVE  IdentityInv'
<1> DEFINE n == sent + 1
<1>1. n \in Request /\ sent \in Nat /\ \A m \in Request : m \in Nat /\ (m > n => m > sent) /\ (m > sent => m >= n)
  BY SMT DEF Send, AccountTyped, AccountTypeOK, Request
<1>2. /\ request'[n].pc = "sent" /\ request'[n].kind = kind /\ request'[n].subject = s
      /\ request'[n].setMail = FALSE
      /\ \A m \in Request \ {n} : request'[m] = request[m]
      /\ sent' = n /\ UNCHANGED <<subject, mail, session, edited>>
  BY <1>1 DEF Send, AccountTyped, AccountTypeOK
<1>3. n > sent /\ ~(n > n)
  BY <1>1, SMT
<1> HIDE DEF n
<1>4. Asked'
  BY <1>1, <1>2, <1>3 DEF IdentityInv, Asked
<1>5. \A m \in Request : Unborn(m)' => Unborn(m)
  BY <1>1, <1>2, <1>3 DEF Unborn
<1>6. MailFollows'
  BY <1>2, <1>5 DEF IdentityInv, MailFollows
<1>7. \A m \in Request : Google(m)' => m # n /\ Google(m) /\ request'[m] = request[m]
  BY <1>2 DEF Google
<1>8. \A m \in Request : Writes(m)' => m # n /\ Writes(m) /\ request'[m] = request[m]
  BY <1>2 DEF Writes, Checked
<1>9. OwnAccount'
  BY <1>2, <1>7 DEF IdentityInv, OwnAccount
<1>10. Reserved'
  BY <1>2, <1>8 DEF IdentityInv, Reserved
<1>11. GoogleIdentity'
  BY <1>2 DEF IdentityInv, GoogleIdentity
<1> QED BY <1>4, <1>6, <1>9, <1>10, <1>11 DEF IdentityInv

\* The account a Google sign-in finds has its identity, or its address and so,
\* unless it was changed by hand, its identity too.
LEMMA ResolvedIdentity ==
    ASSUME AccountTyped, IdentityInv, NEW q \in RequestRow, q.kind = "google",
           Resolved(q) # NoAccount, Resolved(q) \notin edited
    PROVE  Resolved(q) \in Request /\ subject[Resolved(q)] = q.subject
<1>1. CASE BySubject(q.subject) # {}
  BY <1>1 DEF Resolved, BySubject
<1>2. CASE BySubject(q.subject) = {}
  <2> DEFINE found == {u \in Request : mail[u] = q.subject}
  <2>1. Resolved(q) = ByMail(q.subject)
    BY <1>2 DEF Resolved
  <2>2. found # {} /\ Resolved(q) = CHOOSE u \in found : \A v \in found : u <= v
    BY <2>1 DEF ByMail
  <2>3. found \in SUBSET Nat
    BY SMT DEF Request
  <2>4. \E u \in found : \A v \in found : u <= v
    BY <2>2, <2>3, Least
  <2>5. Resolved(q) \in found
    <3> HIDE DEF found
    <3> QED BY <2>2, <2>4
  <2> QED BY <2>5 DEF IdentityInv, MailFollows
<1> QED BY <1>1, <1>2

LEMMA ResolveIdentity ==
    ASSUME AccountTyped, IdentityInv, NEW n \in Request, Resolve(n) PROVE IdentityInv'
<1> DEFINE q == request[n]
           u == IF Resolved(q) = NoAccount THEN n ELSE Resolved(q)
           r == [q EXCEPT !.pc = "resolved", !.user = u,
                          !.setMail = q.kind = "google" /\ mail[u] # q.subject]
<1>1. /\ q \in RequestRow /\ q.pc = "sent"
      /\ request \in [Request -> RequestRow] /\ request' = [request EXCEPT ![n] = r]
      /\ UNCHANGED <<subject, mail, sent, session, edited>>
  BY DEF Resolve, AccountTyped, AccountTypeOK
<1>2. /\ r.pc = "resolved" /\ r.kind = q.kind /\ r.subject = q.subject /\ r.user = u
      /\ r.setMail = (q.kind = "google" /\ mail[u] # q.subject)
  <2> HIDE DEF u
  <2> QED BY <1>1 DEF RequestRow
<1>3. ASSUME q.kind = "google", u \notin edited
      PROVE  subject[u] = q.subject \/ (u = n /\ subject[n] = NoSubject)
  <2>1. CASE Resolved(q) = NoAccount
    BY <1>1, <1>3, <2>1 DEF IdentityInv, MailFollows, Unborn
  <2>2. CASE Resolved(q) # NoAccount
    BY <1>1, <1>3, <2>2, ResolvedIdentity
  <2> QED BY <2>1, <2>2
<1> HIDE DEF r, u, q
<1>4. request'[n] = r /\ \A m \in Request \ {n} : request'[m] = request[m]
  BY <1>1
<1>5. Asked'
  BY <1>1, <1>2, <1>4 DEF IdentityInv, Asked, q
<1>6. MailFollows'
  BY <1>1, <1>2, <1>4 DEF IdentityInv, MailFollows, Unborn
<1>7. \A m \in Request \ {n} : Google(m)' => Google(m)
  BY <1>4 DEF Google
<1>8. OwnAccount'
  <2>1. ASSUME NEW m \in Request \ {n}, Google(m)', request'[m].user \notin edited
        PROVE  /\ \/ subject[request[m].user] = request[m].subject
                  \/ request[m].user = m /\ subject[m] = NoSubject
               /\ request[m].setMail \/ mail[request[m].user] = request[m].subject
    <3>1. Google(m) /\ request[m].user \notin edited
      BY <1>4, <1>7, <2>1
    <3> QED BY <3>1 DEF IdentityInv, OwnAccount
  <2>2. ASSUME q.kind = "google", u \notin edited
        PROVE  /\ subject[u] = q.subject \/ (u = n /\ subject[n] = NoSubject)
               /\ r.setMail \/ mail[u] = q.subject
    BY <1>2, <1>3, <2>2
  <2> QED BY <1>1, <1>2, <1>4, <2>1, <2>2 DEF OwnAccount, Google
<1>9. \A m \in Request : Writes(m)' => m # n /\ Writes(m) /\ request'[m] = request[m]
  BY <1>2, <1>4 DEF Writes, Checked
<1>10. Reserved'
  BY <1>1, <1>9 DEF IdentityInv, Reserved
<1>11. GoogleIdentity'
  BY <1>1 DEF IdentityInv, GoogleIdentity
<1> QED BY <1>5, <1>6, <1>8, <1>10, <1>11 DEF IdentityInv

LEMMA CheckIdentity ==
    ASSUME AccountTyped, IdentityInv, NEW n \in Request, Check(n) PROVE IdentityInv'
<1> DEFINE q == request[n]
           r == [q EXCEPT !.pc = "checked", !.insert = row[q.device].status = "absent"]
<1>1. /\ q \in RequestRow /\ q.pc = "resolved" /\ ~SubjectHeld(q) /\ ~SubjectTaken(q)
      /\ request \in [Request -> RequestRow] /\ request' = [request EXCEPT ![n] = r]
      /\ UNCHANGED <<subject, mail, sent, session, edited>>
  BY DEF Check, AccountTyped, AccountTypeOK
<1>2. r.pc = "checked" /\ SameRequest(r, q)
  BY <1>1 DEF SameRequest, RequestRow
<1> HIDE DEF r, q
<1>3. request'[n] = r /\ \A m \in Request \ {n} : request'[m] = request[m]
  BY <1>1
<1>4. Asked'
  BY <1>1, <1>2, <1>3 DEF IdentityInv, Asked, SameRequest, q
<1>5. MailFollows'
  BY <1>1, <1>2, <1>3 DEF IdentityInv, MailFollows, Unborn
<1>6. \A m \in Request : Google(m)' => Google(m) /\ SameRequest(request'[m], request[m])
  BY <1>1, <1>2, <1>3 DEF Google, SameRequest, q
<1>7. OwnAccount'
  BY <1>1, <1>6 DEF IdentityInv, OwnAccount, SameRequest
<1>8. \A m \in Request \ {n} : Writes(m)' => Writes(m) /\ request'[m] = request[m]
  BY <1>3 DEF Writes, Checked
<1>9. Writes(n)' =>
        /\ \A u \in Request : subject[u] = q.subject => u = q.user
        /\ \A m \in Request \ {n} : Writes(m) /\ request[m].subject = q.subject
                                      => request[m].user = q.user
  BY <1>1, <1>2, <1>3 DEF Writes, Checked, SubjectHeld, SubjectTaken, SameRequest, q
<1>10. Reserved'
  BY <1>1, <1>2, <1>3, <1>8, <1>9 DEF IdentityInv, Reserved, SameRequest
<1>11. GoogleIdentity'
  BY <1>1 DEF IdentityInv, GoogleIdentity
<1> QED BY <1>4, <1>5, <1>7, <1>10, <1>11 DEF IdentityInv

\* A transaction that writes the account commits.
LEMMA WriteIdentity ==
    ASSUME AccountTyped, IdentityInv, NEW n \in Request, NEW q, q = request[n],
           q.pc \in {"resolved", "checked"}, CommitAccount(q), Finish(n),
           UNCHANGED <<sent, edited>>,
           q.kind = "google" =>
              /\ \A u \in Request : subject[u] = q.subject => u = q.user
              /\ \A m \in Request \ {n} : Writes(m) /\ request[m].subject = q.subject
                                            => request[m].user = q.user,
           \A d \in Device : \/ session'[d] = SignedOut \/ session'[d] = session[d]
                             \/ session'[d].user = q.user /\ session'[d].subject = q.subject
    PROVE  IdentityInv'
<1>1. /\ q \in RequestRow /\ q.user \in Request /\ request \in [Request -> RequestRow]
      /\ subject \in [Request -> Subject \union {NoSubject}]
      /\ mail \in [Request -> Subject \union {NoSubject}]
      /\ edited \subseteq Request
  BY DEF AccountTyped, AccountTypeOK, Known
<1>2. request'[n].pc = "none" /\ \A m \in Request \ {n} : request'[m] = request[m]
  BY <1>1, NoRowsType DEF Finish
<1>3. q.kind = "google" <=> q.subject # NoSubject
  BY DEF IdentityInv, Asked
<1>4. Asked'
  BY <1>2 DEF IdentityInv, Asked
<1>5. \A m \in Request : Google(m)' => m # n /\ Google(m) /\ request'[m] = request[m]
  BY <1>2 DEF Google
<1>6. \A m \in Request : Writes(m)' => m # n /\ Writes(m) /\ request'[m] = request[m]
  BY <1>2 DEF Writes, Checked
<1>7. \A u \in Request : Unborn(u)' => u # n /\ Unborn(u)
  <2>1. ~(n > sent)
    BY DEF IdentityInv, Asked
  <2> QED BY <1>2, <2>1 DEF Unborn
<1>8. CASE q.kind # "google"
  <2>1. subject' = subject /\ mail' = mail
    BY <1>8 DEF CommitAccount, IdentityInv, Asked
  <2>2. MailFollows'
    BY <1>7, <2>1 DEF IdentityInv, MailFollows
  <2>3. OwnAccount'
    BY <1>5, <2>1 DEF IdentityInv, OwnAccount
  <2>4. Reserved'
    BY <1>6, <2>1 DEF IdentityInv, Reserved
  <2>5. GoogleIdentity'
    BY <1>3, <1>8, <2>1, NoSession DEF IdentityInv, GoogleIdentity
  <2> QED BY <1>4, <2>2, <2>3, <2>4, <2>5 DEF IdentityInv
<1>9. CASE q.kind = "google"
  <2> DEFINE u == q.user
  <2>1. /\ subject'[u] = q.subject /\ \A v \in Request \ {u} : subject'[v] = subject[v]
        /\ \A v \in Request \ {u} : mail'[v] = mail[v]
        /\ mail'[u] = IF q.setMail THEN q.subject ELSE mail[u]
    BY <1>1, <1>9 DEF CommitAccount
  <2>2. u \notin edited =>
           /\ subject[u] = q.subject \/ (u = n /\ subject[n] = NoSubject)
           /\ q.setMail \/ mail[u] = q.subject
    BY <1>9 DEF IdentityInv, OwnAccount, Google
  <2>3. \A v \in Request : Unborn(v) => v # n
    BY DEF IdentityInv, Asked, Unborn
  <2> HIDE DEF u
  <2>4. MailFollows'
    <3>1. ASSUME NEW v \in Request, v \notin edited
          PROVE  mail'[v] = subject'[v] /\ (Unborn(v)' => subject'[v] = NoSubject)
      <4>1. CASE v # u
        BY <1>7, <2>1, <3>1, <4>1 DEF IdentityInv, MailFollows
      <4>2. CASE v = u
        <5>1. mail'[u] = q.subject
          BY <2>1, <2>2, <3>1, <4>2
        <5>2. ~Unborn(u)'
          BY <1>1, <1>3, <1>7, <1>9, <2>2, <2>3, <3>1, <4>2 DEF IdentityInv, MailFollows, u
        <5> QED BY <2>1, <4>2, <5>1, <5>2
      <4> QED BY <4>1, <4>2
    <3> QED BY <3>1 DEF MailFollows
  <2>5. OwnAccount'
    <3>1. ASSUME NEW m \in Request, Google(m)', request[m].user \notin edited
          PROVE  /\ \/ subject'[request[m].user] = request[m].subject
                    \/ request[m].user = m /\ subject'[m] = NoSubject
                 /\ request[m].setMail \/ mail'[request[m].user] = request[m].subject
      <4> DEFINE v == request[m].user
      <4>1. m # n /\ Google(m) /\ v \in Request
        BY <1>5, <3>1 DEF AccountTyped, Known, Google
      <4>2. /\ subject[v] = request[m].subject \/ (v = m /\ subject[m] = NoSubject)
            /\ request[m].setMail \/ mail[v] = request[m].subject
            /\ request[m].subject # NoSubject
        BY <3>1, <4>1 DEF IdentityInv, OwnAccount, Asked, Google
      <4> HIDE DEF v
      <4>3. CASE v # u
        BY <2>1, <4>1, <4>2, <4>3 DEF v
      <4>4. CASE v = u
        <5>1. request[m].subject = q.subject
          BY <1>3, <1>9, <2>2, <3>1, <4>1, <4>2, <4>4 DEF v
        <5>2. mail'[u] = q.subject
          BY <2>1, <2>2, <3>1, <4>4 DEF v
        <5> QED BY <2>1, <4>4, <5>1, <5>2 DEF v
      <4> QED BY <4>3, <4>4
    <3> QED BY <1>5, <3>1 DEF OwnAccount
  <2>6. Reserved'
    <3>1. ASSUME NEW m \in Request, Writes(m)', NEW v \in Request, subject'[v] = request[m].subject
          PROVE  v = request[m].user
      <4>1. m # n /\ Writes(m)
        BY <1>6, <3>1
      <4>2. CASE v # u
        BY <2>1, <3>1, <4>1, <4>2 DEF IdentityInv, Reserved
      <4>3. CASE v = u
        BY <1>9, <2>1, <3>1, <4>1, <4>3 DEF u
      <4> QED BY <4>2, <4>3
    <3> QED BY <1>6, <3>1 DEF IdentityInv, Reserved
  <2>7. GoogleIdentity'
    <3>1. ASSUME NEW v \in Request, NEW w \in Request, subject'[v] = subject'[w],
                 subject'[v] # NoSubject
          PROVE  v = w
      BY <1>9, <2>1, <3>1 DEF IdentityInv, GoogleIdentity, u
    <3>2. ASSUME NEW d \in Device, session'[d].subject # NoSubject, session'[d].user \notin edited
          PROVE  subject'[session'[d].user] = session'[d].subject
      <4>1. CASE session'[d].user = u /\ session'[d].subject = q.subject
        BY <2>1, <4>1
      <4>2. CASE session'[d] = session[d]
        <5> DEFINE v == session[d].user
        <5>1. subject[v] = session[d].subject /\ session[d] # SignedOut
          BY <3>2, <4>2, NoSession DEF IdentityInv, GoogleIdentity
        <5>2. v \in Request
          BY <5>1 DEF AccountTyped, SignedIn
        <5>3. v = u => subject[u] = q.subject
          BY <2>2, <3>2, <4>2, <5>1 DEF u
        <5> HIDE DEF v
        <5> QED BY <2>1, <4>2, <5>1, <5>2, <5>3 DEF v
      <4>3. CASE session'[d] = SignedOut
        BY <3>2, <4>3, NoSession
      <4> QED BY <4>1, <4>2, <4>3 DEF u
    <3> QED BY <3>1, <3>2 DEF GoogleIdentity
  <2> QED BY <1>4, <2>4, <2>5, <2>6, <2>7 DEF IdentityInv
<1> QED BY <1>8, <1>9

LEMMA IdentityStep == AccountTyped /\ IdentityInv /\ [AccountNext]_accountVars => IdentityInv'
<1> SUFFICES ASSUME AccountTyped, IdentityInv, [AccountNext]_accountVars PROVE IdentityInv'
  OBVIOUS
<1>0. /\ session \in [Device -> SessionUser] /\ \A n \in Request : request[n] \in RequestRow
      /\ NoAccount \in Account
  BY DEF AccountTyped, AccountTypeOK, Account
<1>1. ASSUME NEW d \in Device, SignIn(d) PROVE IdentityInv'
  BY <1>0, <1>1, SendIdentity DEF SignIn, Kind
<1>2. ASSUME NEW d \in Device, Restore(d) PROVE IdentityInv'
  BY <1>0, <1>2, SendIdentity DEF Restore, Kind, SessionUser
<1>3. ASSUME NEW d \in Device, Logout(d) \/ NewKeys(d) \/ Touch(d) PROVE IdentityInv'
  BY <1>3, KeptSteps, KeptStep
<1>4. ASSUME NEW n \in Request, GiveUp(n) \/ Abort(n) PROVE IdentityInv'
  BY <1>4, KeptSteps, KeptStep
<1>5. ASSUME NEW d \in Device, NEW e \in Device, Revoke(d, e) PROVE IdentityInv'
  BY <1>5, KeptSteps, KeptStep
<1>6. CASE UNCHANGED accountVars
  BY <1>6, KeptSteps, KeptStep
<1>7. ASSUME NEW n \in Request, Resolve(n) PROVE IdentityInv'
  BY <1>7, ResolveIdentity
<1>8. ASSUME NEW n \in Request, Check(n) PROVE IdentityInv'
  BY <1>8, CheckIdentity
<1>9. ASSUME NEW n \in Request, Refusal(n) PROVE IdentityInv'
  <2> DEFINE q == request[n]
  <2>1. q.kind = "google" =>
          /\ \A u \in Request : subject[u] = q.subject => u = q.user
          /\ \A m \in Request \ {n} : Writes(m) /\ request[m].subject = q.subject
                                        => request[m].user = q.user
    BY <1>9 DEF Refusal, SubjectHeld, SubjectTaken, Writes, Checked
  <2>2. \A d \in Device : session'[d] = SignedOut \/ session'[d] = session[d]
    BY <1>0, <1>9 DEF Refusal
  <2>3. /\ q.pc = "resolved" /\ CommitAccount(q) /\ Finish(n)
        /\ UNCHANGED <<sent, edited>>
    BY <1>9 DEF Refusal
  <2> QED BY <2>1, <2>2, <2>3, WriteIdentity
<1>10. ASSUME NEW n \in Request, Commit(n) PROVE IdentityInv'
  <2> DEFINE q == request[n]
  <2>1. q.kind = "google" =>
          /\ \A u \in Request : subject[u] = q.subject => u = q.user
          /\ \A m \in Request \ {n} : Writes(m) /\ request[m].subject = q.subject
                                        => request[m].user = q.user
    BY <1>10 DEF Commit, IdentityInv, Reserved, Writes, Checked
  <2>2. \A d \in Device : \/ session'[d] = session[d]
                          \/ session'[d].user = q.user /\ session'[d].subject = q.subject
    BY <1>0, <1>10 DEF Commit
  <2>3. /\ q.pc = "checked" /\ CommitAccount(q) /\ Finish(n)
        /\ UNCHANGED <<sent, edited>>
    BY <1>10 DEF Commit
  <2> QED BY <2>1, <2>2, <2>3, WriteIdentity
<1>11. ASSUME NEW d \in Device, NEW s \in Subject \union {NoSubject}, SetMail(d, s)
       PROVE  IdentityInv'
  <2> DEFINE u == session[d].user
  <2>1. /\ u \in Request /\ edited' = edited \union {u}
        /\ \A v \in Request \ {u} : mail'[v] = mail[v]
        /\ UNCHANGED <<subject, request, sent, session>>
    BY <1>11 DEF SetMail, AccountTyped, AccountTypeOK, SignedIn
  <2> HIDE DEF u
  <2>2. Asked' /\ MailFollows'
    BY <2>1 DEF IdentityInv, Asked, MailFollows, Unborn
  <2>3. OwnAccount'
    BY <2>1 DEF IdentityInv, OwnAccount, Google, AccountTyped, Known
  <2>4. Reserved' /\ GoogleIdentity'
    BY <2>1 DEF IdentityInv, Reserved, Writes, Checked, GoogleIdentity
  <2> QED BY <2>2, <2>3, <2>4 DEF IdentityInv
<1> QED
  BY <1>1, <1>2, <1>3, <1>4, <1>5, <1>6, <1>7, <1>8, <1>9, <1>10, <1>11 DEF AccountNext

\* The unique key of GoogleAccount, and the look-up by identity before the one
\* by address, keep an identity with one account and a session with it.
THEOREM Identity == AccountSpec => []GoogleIdentity
<1>1. AccountInit => IdentityInv
  BY NoSession, SMT DEF AccountInit, IdentityInv, Asked, MailFollows, OwnAccount, Google, Reserved,
     Writes, Checked, GoogleIdentity, NoRequest
<1>2. IdentityInv => GoogleIdentity
  BY DEF IdentityInv
<1> QED BY <1>1, <1>2, AccountInitType, AccountStepType, IdentityStep, PTL DEF AccountSpec
=============================================================================
