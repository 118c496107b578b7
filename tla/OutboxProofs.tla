---------------------------- MODULE OutboxProofs ----------------------------
(***************************************************************************)
(* Outbox is type correct, keeps its copies equal to the server's, and     *)
(* implements MessageDelivery, for any number of messages, conversations,  *)
(* tasks, ciphertexts and crashes.                                         *)
(***************************************************************************)
EXTENDS Outbox, TLAPS

USE OutboxAssumption

-----------------------------------------------------------------------------
(* Type correctness.                                                       *)

LEMMA CompleteType ==
    ASSUME TypeOK, NEW m \in Msg, NEW outcome \in Outcome, Complete(m, outcome)
    PROVE  /\ op' \in [Msg -> Op]
           /\ sender' \in [Msg -> SenderPC]
           /\ flusher' \in [Flusher -> FlusherTask]
<1>1. NoOp \in Op /\ NoRows \in [Msg -> Row] /\ IdleFlusher \in FlusherTask
  BY DEF NoOp, Op, NoRows, NoRow, Row, RowState, IdleFlusher, FlusherTask
<1>2. op' \in [Msg -> Op] /\ sender' \in [Msg -> SenderPC]
  BY <1>1 DEF Complete, TypeOK, SenderPC, Outcome
<1>3. ASSUME NEW f \in Flusher, outcome \notin {"paused", "other"}
      PROVE  [flusher[f] EXCEPT !.pc = outcome] \in FlusherTask
  BY <1>3 DEF TypeOK, FlusherTask, Outcome
<1>4. flusher' \in [Flusher -> FlusherTask]
  BY <1>1, <1>3 DEF Complete, TypeOK
<1> QED BY <1>2, <1>4

LEMMA InitType == Init => TypeOK
BY DEF Init, TypeOK, NoRows, NoRow, Row, RowState, NoOp, Op, IdleFlusher,
       FlusherTask, SenderPC, Request

LEMMA OpStepType == ASSUME TypeOK, NEW m \in Msg, OpStep(m) PROVE TypeOK'
<1>1. CASE OpPrepare(m)
  BY <1>1 DEF OpPrepare, TypeOK, Op
<1>2. CASE OpPrepareFails(m)
  <2>1. PICK outcome \in Outcome : Complete(m, outcome)
    BY <1>2 DEF OpPrepareFails, Outcome
  <2> QED BY <1>2, <2>1, CompleteType DEF OpPrepareFails, TypeOK
<1>3. CASE OpEncrypt(m)
  <2>1. PICK c \in Cipher :
          /\ op' = [op EXCEPT ![m] = [@ EXCEPT !.pc = "post", !.cipher = c]]
          /\ outbox' = [outbox EXCEPT ![m] =
                [state |-> "pending", cipher |-> c, backoff |-> op[m].backoff]]
    BY <1>3 DEF OpEncrypt
  <2>2. op[m] \in Op
    BY DEF TypeOK
  <2>3. [op[m] EXCEPT !.pc = "post", !.cipher = c] \in Op
    BY <2>2 DEF Op
  <2>4. [state |-> "pending", cipher |-> c, backoff |-> op[m].backoff] \in Row
    BY <2>2 DEF Op, Row, RowState
  <2> QED BY <1>3, <2>1, <2>3, <2>4 DEF OpEncrypt, TypeOK
<1>4. CASE OpEncryptFails(m)
  BY <1>4, CompleteType DEF OpEncryptFails, TypeOK, Outcome
<1>5. CASE OpPost(m)
  <2>1. [msg |-> m, cipher |-> op[m].cipher, live |-> TRUE] \in Request
    BY DEF TypeOK, Op, Request
  <2> QED BY <1>5, <2>1 DEF OpPost, TypeOK, Op
<1>6. CASE OpTimeout(m)
  <2>1. Hung(m) \subseteq Request
    BY DEF Hung, TypeOK, Request
  <2> QED BY <1>6, <2>1, CompleteType DEF OpTimeout, TypeOK, Outcome
<1>7. CASE OpPersist(m)
  BY <1>7, CompleteType DEF OpPersist, TypeOK, Outcome
<1>8. CASE OpPersistFails(m)
  BY <1>8, CompleteType DEF OpPersistFails, TypeOK, Outcome
<1> QED BY <1>1, <1>2, <1>3, <1>4, <1>5, <1>6, <1>7, <1>8 DEF OpStep

LEMMA NoneFits == NoRow \in Row /\ NoRows \in [Msg -> Row] /\ IdleFlusher \in FlusherTask
BY DEF NoRow, NoRows, Row, RowState, IdleFlusher, FlusherTask

LEMMA SenderStepType == ASSUME TypeOK, NEW m \in Msg, SenderStep(m) PROVE TypeOK'
<1>1. CASE SendRefused(m)
  BY <1>1 DEF SendRefused, TypeOK, SenderPC
<1>2. CASE Submit(m)
  BY <1>2, NoneFits DEF Submit, TypeOK, SenderPC, Row, RowState, NoRow
<1>3. CASE SenderSend(m)
  BY <1>3 DEF SenderSend, JoinOrStart, TypeOK, SenderPC, Op
<1>4. CASE SenderRemove(m)
  BY <1>4, NoneFits DEF SenderRemove, TypeOK, SenderPC
<1>5. CASE SenderFail(m)
  BY <1>5 DEF SenderFail, TypeOK, SenderPC, Row, RowState
<1> QED BY <1>1, <1>2, <1>3, <1>4, <1>5 DEF SenderStep

\* The shapes a flush task takes.
LEMMA ForgetType ==
    ASSUME TypeOK, NEW f \in Flusher, NEW m \in Msg
    PROVE  Forget(f, m) \in FlusherTask
<1>1. flusher[f] \in FlusherTask
  BY DEF TypeOK
<1> QED BY <1>1, NoneFits DEF Forget, FlusherTask

LEMMA FlushStepType == ASSUME TypeOK, NEW f \in Flusher, FlushStep(f) PROVE TypeOK'
<1>0. flusher[f] \in FlusherTask /\ \A m \in Msg : outbox[m] \in Row
  BY DEF TypeOK
<1>a. ASSUME NEW task \in FlusherTask, FlusherStep(f, task)
      PROVE  flusher' \in [Flusher -> FlusherTask]
  BY <1>a DEF FlusherStep, TypeOK
<1>1. CASE ResumeStart(f)
  <2>1. [IdleFlusher EXCEPT !.pc = "loop", !.rest = Conversation] \in FlusherTask
    BY NoneFits DEF FlusherTask
  <2> QED BY <1>1, <1>a, <2>1 DEF ResumeStart, TypeOK
<1>2. CASE FlushEnd(f)
  BY <1>2, <1>a, NoneFits DEF FlushEnd, TypeOK
<1>3. ASSUME NEW c \in Conversation, FlushRead(f, c) PROVE TypeOK'
  <2>1. [m \in Msg |-> IF ConvOf[m] = c THEN outbox[m] ELSE NoRow] \in [Msg -> Row]
    BY <1>0, NoneFits
  <2>2. [flusher[f] EXCEPT !.rest = @ \ {c},
          !.todo = [m \in Msg |-> IF ConvOf[m] = c THEN outbox[m] ELSE NoRow]]
        \in FlusherTask
    BY <1>0, <2>1 DEF FlusherTask
  <2> QED BY <1>3, <1>a, <2>2 DEF FlushRead, TypeOK
<1>4. ASSUME NEW m \in Msg, FlushSkip(f, m) PROVE TypeOK'
  BY <1>4, <1>a, ForgetType DEF FlushSkip, TypeOK
<1>5. ASSUME NEW m \in Msg, FlushSend(f, m) PROVE TypeOK'
  <2>1. [flusher[f] EXCEPT !.pc = "sending"] \in FlusherTask
    BY <1>0 DEF FlusherTask
  <2>2. flusher[f].todo[m] \in Row
    BY <1>0 DEF FlusherTask
  <2>3. op' \in [Msg -> Op]
    BY <1>5, <2>2 DEF FlushSend, JoinOrStart, TypeOK, Op, Row
  <2> QED BY <1>5, <1>a, <2>1, <2>3 DEF FlushSend, TypeOK
<1>6. ASSUME NEW m \in Msg, FlushRemove(f, m) PROVE TypeOK'
  <2>1. outbox' \in [Msg -> Row]
    BY <1>6, NoneFits DEF FlushRemove, TypeOK
  <2> QED BY <1>6, <1>a, <2>1, ForgetType DEF FlushRemove, TypeOK
<1>7. ASSUME NEW m \in Msg, FlushFail(f, m) PROVE TypeOK'
  <2>1. flusher[f].todo[m] \in Row
    BY <1>0 DEF FlusherTask
  <2>2. [state |-> IF flusher[f].pc = "retry"
                   THEN "failedRetryable" ELSE "failedPermanent",
         cipher |-> flusher[f].todo[m].cipher,
         backoff |-> flusher[f].pc = "retry" \/ flusher[f].todo[m].backoff] \in Row
    BY <2>1 DEF Row, RowState
  <2>3. outbox' \in [Msg -> Row]
    BY <1>7, <2>2 DEF FlushFail, TypeOK
  <2> QED BY <1>7, <1>a, <2>3, ForgetType DEF FlushFail, TypeOK
<1>8. ASSUME NEW m \in Msg, RetryRead(f, m) PROVE TypeOK'
  <2>1. [NoRows EXCEPT ![m] = outbox[m]] \in [Msg -> Row]
    BY <1>0, NoneFits
  <2>2. ConvOf[m] \in Conversation
    OBVIOUS
  <2>3. [pc |-> "rewrite", all |-> TRUE, rest |-> {ConvOf[m]},
         todo |-> [NoRows EXCEPT ![m] = outbox[m]]] \in FlusherTask
    BY <2>1, <2>2 DEF FlusherTask
  <2> QED BY <1>8, <1>a, <2>3 DEF RetryRead, TypeOK
<1>9. ASSUME NEW m \in Msg, RetryWrite(f, m) PROVE TypeOK'
  <2>1. flusher[f].todo[m] \in Row
    BY <1>0 DEF FlusherTask
  <2>2. [flusher[f].todo[m] EXCEPT !.state = "pending"] \in Row
    BY <2>1 DEF Row, RowState
  <2>3. outbox' \in [Msg -> Row]
    BY <1>9, <2>2 DEF RetryWrite, TypeOK
  <2> QED BY <1>9, <1>a, <2>3, ForgetType DEF RetryWrite, TypeOK
<1> QED BY <1>1, <1>2, <1>3, <1>4, <1>5, <1>6, <1>7, <1>8, <1>9 DEF FlushStep

LEMMA ServerStepType == ASSUME TypeOK, NEW r \in Request, ServerStep(r) PROVE TypeOK'
<1>0. r.msg \in Msg /\ r.cipher \in Cipher \union {None}
  BY DEF Request
<1>1. CASE ServerCreate(r)
  BY <1>0, <1>1 DEF ServerCreate, TypeOK, Op
<1>2. CASE ServerReject(r)
  <2>1. PICK outcome \in Outcome : Complete(r.msg, outcome)
    BY <1>2 DEF ServerReject, Outcome
  <2> QED BY <1>0, <1>2, <2>1, CompleteType DEF ServerReject, TypeOK
<1>3. CASE LoseRequest(r)
  BY <1>3 DEF LoseRequest, TypeOK
<1> QED BY <1>1, <1>2, <1>3 DEF ServerStep

LEMMA CrashType == TypeOK /\ Crash => TypeOK'
<1> SUFFICES ASSUME TypeOK, Crash PROVE TypeOK'
  OBVIOUS
<1>1. sender' \in [Msg -> SenderPC]
  BY DEF Crash, TypeOK, SenderPC
<1>2. flusher' \in [Flusher -> FlusherTask] /\ op' \in [Msg -> Op]
  BY NoneFits DEF Crash, TypeOK, NoOp, Op
<1>3. net' \subseteq Request
  <2>1. \A r \in Request : [r EXCEPT !.live = FALSE] \in Request
    BY DEF Request
  <2> QED BY <2>1 DEF Crash, TypeOK
<1> QED BY <1>1, <1>2, <1>3 DEF Crash, TypeOK

LEMMA StepType == TypeOK /\ [Next]_vars => TypeOK'
<1> SUFFICES ASSUME TypeOK, [Next]_vars PROVE TypeOK'
  OBVIOUS
<1>1. CASE UNCHANGED vars
  BY <1>1 DEF vars, TypeOK
<1>2. CASE Next
  BY <1>2, OpStepType, SenderStepType, FlushStepType, ServerStepType, CrashType
  DEF Next
<1> QED BY <1>1, <1>2

\* Every variable of the client, the network and the server keeps its type.
THEOREM TypeCorrect == Spec => []TypeOK
BY StepType, InitType, PTL DEF Spec

-----------------------------------------------------------------------------
(* Safety.  LocalMatchesServer and OnlyQueuedTravels are not inductive:    *)
(* an answer has to mean that the server stored a body, a task that goes   *)
(* on after "ok" that the local row is written, and a posted request has   *)
(* to carry a ciphertext.                                                  *)

\* A sendMessage or a flush goes on after "ok" only when the row is written.
OkMeansLocal ==
    /\ \A m \in Msg : sender[m] = "ok" => local[m] # None
    /\ \A f \in Flusher, m \in Msg :
          flusher[f].pc = "ok" /\ IsCurrent(f, m) => local[m] # None

AnsweredMeansStored == \A m \in Msg : op[m].pc = "answered" => server[m] # None

PostedIsEncrypted ==
    /\ \A m \in Msg : op[m].pc = "post" => op[m].cipher # None
    /\ \A r \in net : r.cipher # None

IInv ==
    /\ TypeOK
    /\ OkMeansLocal
    /\ AnsweredMeansStored
    /\ PostedIsEncrypted
    /\ LocalMatchesServer
    /\ OnlyQueuedTravels

LEMMA CurrentUnique ==
    ASSUME NEW f \in Flusher, NEW m \in Msg, NEW k \in Msg,
           IsCurrent(f, m), IsCurrent(f, k)
    PROVE  m = k
<1>1. m \in Nat /\ k \in Nat /\ m >= 1 /\ k >= 1
  BY DEF Msg
<1>2. ~(k < m)
  BY <1>1 DEF IsCurrent
<1>3. ~(m < k)
  BY <1>1 DEF IsCurrent
<1> QED BY <1>1, <1>2, <1>3

LEMMA InitSafe == Init => IInv
<1> SUFFICES ASSUME Init PROVE IInv
  OBVIOUS
<1>1. OkMeansLocal /\ AnsweredMeansStored /\ PostedIsEncrypted /\ LocalMatchesServer
  BY DEF Init, OkMeansLocal, AnsweredMeansStored, PostedIsEncrypted,
         LocalMatchesServer, IdleFlusher, NoOp
<1>2. OnlyQueuedTravels
  BY DEF Init, OnlyQueuedTravels, Travels, IdleFlusher, NoRows, NoRow, NoOp, Has
<1> QED BY <1>1, <1>2, InitType DEF IInv

\* What no step may do for IInv to be kept.  Every action is shown to obey it.
Lawful ==
    /\ \A m \in Msg : local'[m] # local[m] => op[m].pc = "answered" /\ local'[m] = server[m]
    /\ \A m \in Msg : server'[m] # server[m] =>
          server[m] = None /\ \E r \in net : r.msg = m /\ server'[m] = r.cipher
    /\ \A m \in Msg : Has(outbox[m]) /\ ~Has(outbox'[m]) => local[m] # None
    /\ \A m \in Msg : Travels(m)' => Travels(m) \/ Has(outbox'[m])
    /\ \A m \in Msg : sender'[m] = "ok" => sender[m] = "ok" \/ local'[m] # None
    /\ \A f \in Flusher, m \in Msg :
          flusher'[f].pc = "ok" /\ IsCurrent(f, m)' =>
             (flusher[f].pc = "ok" /\ IsCurrent(f, m)) \/ local'[m] # None
    /\ \A m \in Msg : op'[m].pc = "answered" => op[m].pc = "answered" \/ server'[m] # None
    /\ \A m \in Msg : op'[m].pc = "post" => op'[m].cipher # None
    /\ \A r \in net' : r.cipher # None

LEMMA LawfulKeepsIInv == ASSUME IInv, TypeOK', Lawful PROVE IInv'
<1>1. \A m \in Msg : local[m] # None => local'[m] # None
  BY DEF IInv, Lawful, AnsweredMeansStored
<1>2. \A m \in Msg : server[m] # None => server'[m] = server[m]
  BY DEF Lawful
<1>3. OkMeansLocal'
  BY <1>1 DEF IInv, OkMeansLocal, Lawful
<1>4. AnsweredMeansStored'
  BY <1>2 DEF IInv, AnsweredMeansStored, Lawful
<1>5. PostedIsEncrypted'
  BY DEF PostedIsEncrypted, Lawful
<1>6. LocalMatchesServer'
  BY <1>2 DEF IInv, LocalMatchesServer, AnsweredMeansStored, Lawful
<1>7. OnlyQueuedTravels'
  <2> SUFFICES ASSUME NEW m \in Msg, Travels(m)' PROVE Known(m)'
    BY DEF OnlyQueuedTravels
  <2>1. CASE Has(outbox'[m])
    BY <2>1 DEF Known, Has
  <2>2. CASE ~Has(outbox'[m])
    <3>1. Travels(m)
      BY <2>2 DEF Lawful
    <3>2. local[m] # None
      BY <3>1, <2>2 DEF IInv, OnlyQueuedTravels, Known, Lawful
    <3> QED BY <3>2, <1>1 DEF Known
  <2> QED BY <2>1, <2>2
<1> QED BY <1>3, <1>4, <1>5, <1>6, <1>7 DEF IInv

\* The end of a delivery, whichever step brings it about.
LEMMA CompleteLawful ==
    ASSUME IInv, NEW m \in Msg, NEW outcome \in Outcome, Complete(m, outcome),
           outbox' = outbox, server' = server,
           \A r \in net' : \E q \in net : r.msg = q.msg /\ r.cipher = q.cipher,
           \A k \in Msg : local'[k] # local[k] => op[k].pc = "answered" /\ local'[k] = server[k],
           outcome = "ok" => local'[m] # None
    PROVE  Lawful
<1>0. TypeOK
  BY DEF IInv
<1>1. \A k \in Msg : Has(outbox[k]) /\ ~Has(outbox'[k]) => local[k] # None
  OBVIOUS
<1>2. \A k \in Msg : op'[k] = op[k] \/ op'[k] = NoOp
  BY <1>0 DEF Complete, TypeOK
<1>3. \A k \in Msg : sender'[k] = sender[k] \/ (sender[k] = "sending" /\ k = m /\ sender'[k] = outcome)
  BY <1>0 DEF Complete, TypeOK
<1>4. \A f \in Flusher : \/ flusher'[f] = flusher[f]
                         \/ flusher'[f] = IdleFlusher
                         \/ /\ flusher'[f] = [flusher[f] EXCEPT !.pc = outcome]
                            /\ IsCurrent(f, m)
  BY DEF Complete
<1>5. \A f \in Flusher : \/ flusher'[f] = flusher[f]
                         \/ flusher'[f] = IdleFlusher
                         \/ /\ flusher'[f].pc = outcome
                            /\ flusher'[f].todo = flusher[f].todo
                            /\ IsCurrent(f, m)
  BY <1>0, <1>4 DEF TypeOK, FlusherTask
<1>6. \A f \in Flusher, k \in Msg : Has(flusher'[f].todo[k]) => Has(flusher[f].todo[k])
  BY <1>5 DEF IdleFlusher, NoRows, NoRow, Has
<1>7. \A f \in Flusher, k \in Msg :
          flusher'[f].pc = "ok" /\ IsCurrent(f, k)' =>
             (flusher[f].pc = "ok" /\ IsCurrent(f, k)) \/ local'[k] # None
  <2> SUFFICES ASSUME NEW f \in Flusher, NEW k \in Msg,
                      flusher'[f].pc = "ok", IsCurrent(f, k)'
               PROVE  (flusher[f].pc = "ok" /\ IsCurrent(f, k)) \/ local'[k] # None
    OBVIOUS
  <2>1. CASE flusher'[f] = flusher[f]
    BY <2>1 DEF IsCurrent
  <2>2. CASE flusher'[f] = IdleFlusher
    BY <2>2 DEF IdleFlusher
  <2>3. CASE /\ flusher'[f].pc = outcome
             /\ flusher'[f].todo = flusher[f].todo
             /\ IsCurrent(f, m)
    <3>1. IsCurrent(f, k)
      BY <2>3 DEF IsCurrent
    <3>2. k = m
      BY <2>3, <3>1, CurrentUnique
    <3> QED BY <2>3, <3>2
  <2> QED BY <1>5, <2>1, <2>2, <2>3
<1>8. \A k \in Msg : Travels(k)' => Travels(k)
  BY <1>2, <1>3, <1>6 DEF Travels, NoOp
<1>9. \A k \in Msg : /\ op'[k].pc = "answered" => op[k].pc = "answered"
                     /\ op'[k].pc = "post" => op'[k].cipher # None
  BY <1>2 DEF IInv, PostedIsEncrypted, NoOp
<1>10. \A r \in net' : r.cipher # None
  BY DEF IInv, PostedIsEncrypted
<1>11. \A k \in Msg : sender'[k] = "ok" => sender[k] = "ok" \/ local'[k] # None
  BY <1>3
<1> QED BY <1>1, <1>7, <1>8, <1>9, <1>10, <1>11 DEF Lawful

LEMMA OpStepLawful == ASSUME IInv, NEW m \in Msg, OpStep(m) PROVE Lawful
<1>0. TypeOK /\ op[m] \in Op
  BY DEF IInv, TypeOK
<1>1. CASE OpPrepare(m)
  <2>1. op' = [op EXCEPT ![m].pc = IF op[m].cipher = None THEN "encrypt" ELSE "post"]
    BY <1>1 DEF OpPrepare
  <2>2. \A k \in Msg : op'[k] = op[k] \/ (k = m /\ op'[k].cipher = op[m].cipher)
    BY <1>0, <2>1 DEF TypeOK, Op
  <2>3. \A k \in Msg : /\ op'[k].pc = "post" => op'[k].cipher # None
                       /\ op'[k].pc = "answered" => op[k].pc = "answered"
                       /\ op'[k].pc # "none" => op[k].pc # "none"
    BY <1>0, <1>1, <2>1 DEF OpPrepare, TypeOK, Op, IInv, PostedIsEncrypted
  <2> QED BY <1>1, <2>3 DEF OpPrepare, Lawful, Travels, IsCurrent, IInv, PostedIsEncrypted
<1>2. CASE OpPrepareFails(m)
  <2>1. PICK outcome \in Outcome : Complete(m, outcome) /\ outcome # "ok"
    BY <1>2 DEF OpPrepareFails, Outcome
  <2> QED BY <1>2, <2>1, CompleteLawful DEF OpPrepareFails
<1>3. CASE OpEncrypt(m)
  <2>1. PICK c \in Cipher :
          /\ op' = [op EXCEPT ![m] = [@ EXCEPT !.pc = "post", !.cipher = c]]
          /\ outbox' = [outbox EXCEPT ![m] =
                [state |-> "pending", cipher |-> c, backoff |-> op[m].backoff]]
    BY <1>3 DEF OpEncrypt
  <2>2. \A k \in Msg : k # m => op'[k] = op[k] /\ outbox'[k] = outbox[k]
    BY <1>0, <2>1 DEF TypeOK
  <2>3. op'[m].pc = "post" /\ op'[m].cipher # None /\ Has(outbox'[m])
    BY <1>0, <2>1 DEF TypeOK, Op, Has
  <2> QED BY <1>3, <2>2, <2>3 DEF OpEncrypt, Lawful, Travels, IsCurrent, IInv, PostedIsEncrypted
<1>4. CASE OpEncryptFails(m)
  BY <1>4, CompleteLawful DEF OpEncryptFails, Outcome
<1>5. CASE OpPost(m)
  <2>1. \A k \in Msg : op'[k] = op[k] \/ (k = m /\ op'[k].pc = "wait" /\ op[k].pc = "post")
    BY <1>0, <1>5 DEF OpPost, TypeOK, Op
  <2>2. op[m].cipher # None
    BY <1>5 DEF OpPost, IInv, PostedIsEncrypted
  <2>3. \A r \in net' : r.cipher # None
    BY <1>5, <2>2 DEF OpPost, IInv, PostedIsEncrypted
  <2>4. \A k \in Msg : Travels(k)' => Travels(k)
    BY <1>5, <2>1 DEF OpPost, Travels
  <2> QED BY <1>5, <2>1, <2>3, <2>4 DEF OpPost, Lawful, IsCurrent, IInv, PostedIsEncrypted
<1>6. CASE OpTimeout(m)
  <2>1. \A r \in net' : \E q \in net : r.msg = q.msg /\ r.cipher = q.cipher
    BY <1>0, <1>6 DEF OpTimeout, Hung, TypeOK, Request
  <2> QED BY <1>6, <2>1, CompleteLawful DEF OpTimeout, Outcome
<1>7. CASE OpPersist(m)
  <2>1. local'[m] # None
    BY <1>0, <1>7 DEF OpPersist, TypeOK, IInv, AnsweredMeansStored
  <2> QED BY <1>0, <1>7, <2>1, CompleteLawful DEF OpPersist, Outcome, TypeOK
<1>8. CASE OpPersistFails(m)
  <2>1. \A k \in Msg : local'[k] # local[k] => op[k].pc = "answered" /\ local'[k] = server[k]
    BY <1>0, <1>8 DEF OpPersistFails, TypeOK
  <2> QED BY <1>8, <2>1, CompleteLawful DEF OpPersistFails, Outcome
<1> QED BY <1>1, <1>2, <1>3, <1>4, <1>5, <1>6, <1>7, <1>8 DEF OpStep

\* Starting a delivery for a message that travels already is lawful.
LEMMA JoinLawful ==
    ASSUME TypeOK, IInv, NEW m \in Msg, NEW c, NEW b, JoinOrStart(m, c, b)
    PROVE  /\ \A k \in Msg : k # m => op'[k] = op[k]
           /\ \A k \in Msg : op'[k].pc = "answered" => op[k].pc = "answered"
           /\ \A k \in Msg : op'[k].pc = "post" => op'[k].cipher # None
BY DEF TypeOK, JoinOrStart, IInv, PostedIsEncrypted

LEMMA SenderStepLawful == ASSUME IInv, NEW m \in Msg, SenderStep(m) PROVE Lawful
<1>0. TypeOK
  BY DEF IInv
<1>1. CASE SendRefused(m)
  BY <1>0, <1>1 DEF SendRefused, NextToSend, TypeOK, Lawful, Travels, IsCurrent, IInv, PostedIsEncrypted
<1>2. CASE Submit(m)
  <2>1. Has(outbox'[m]) /\ \A k \in Msg : k # m => outbox'[k] = outbox[k] /\ sender'[k] = sender[k]
    BY <1>0, <1>2 DEF Submit, TypeOK, Has, NoRow
  <2>2. sender'[m] = "queued"
    BY <1>0, <1>2 DEF Submit, TypeOK
  <2> QED BY <1>2, <2>1, <2>2 DEF Submit, Lawful, Travels, IsCurrent, IInv, PostedIsEncrypted
<1>3. CASE SenderSend(m)
  <2>1. sender[m] = "queued" /\ \A k \in Msg : k # m => sender'[k] = sender[k]
    BY <1>0, <1>3 DEF SenderSend, TypeOK
  <2>2. sender'[m] = "sending"
    BY <1>0, <1>3 DEF SenderSend, TypeOK
  <2>3. \A k \in Msg : Travels(k)' => Travels(k)
    BY <1>0, <1>3, <2>1, <2>2, JoinLawful DEF SenderSend, Travels
  <2> QED BY <1>0, <1>3, <2>1, <2>2, <2>3, JoinLawful
      DEF SenderSend, Lawful, IsCurrent, IInv, PostedIsEncrypted
<1>4. CASE SenderRemove(m)
  <2>1. local[m] # None
    BY <1>4 DEF SenderRemove, IInv, OkMeansLocal
  <2>2. sender[m] = "ok" /\ sender'[m] = "done"
        /\ \A k \in Msg : k # m => outbox'[k] = outbox[k] /\ sender'[k] = sender[k]
    BY <1>0, <1>4 DEF SenderRemove, TypeOK
  <2> QED BY <1>4, <2>1, <2>2 DEF SenderRemove, Lawful, Travels, IsCurrent, IInv, PostedIsEncrypted
<1>5. CASE SenderFail(m)
  <2>1. Has(outbox'[m]) /\ \A k \in Msg : k # m => outbox'[k] = outbox[k] /\ sender'[k] = sender[k]
    BY <1>0, <1>5 DEF SenderFail, TypeOK, Has
  <2>2. sender'[m] = "done"
    BY <1>0, <1>5 DEF SenderFail, TypeOK
  <2> QED BY <1>5, <2>1, <2>2 DEF SenderFail, Lawful, Travels, IsCurrent, IInv, PostedIsEncrypted
<1> QED BY <1>1, <1>2, <1>3, <1>4, <1>5 DEF SenderStep

\* The steps of a flush leave all but its task, a row and a delivery alone.
FlushFrame == UNCHANGED <<local, sender, net, server>>

LEMMA FlushStepFrame == ASSUME NEW f \in Flusher, FlushStep(f) PROVE FlushFrame
BY DEF FlushStep, FlushFrame, ResumeStart, FlushEnd, FlushRead, FlushSkip, FlushSend,
       FlushRemove, FlushFail, RetryRead, RetryWrite

\* What has to be shown of a step of task f.
LEMMA FlushLawful ==
    ASSUME IInv, NEW f \in Flusher, NEW task, FlusherStep(f, task), FlushFrame,
           task.pc # "ok",
           \A m \in Msg : Has(task.todo[m]) => Has(flusher[f].todo[m]) \/ Has(outbox'[m]),
           \A m \in Msg : outbox'[m] # outbox[m] => Has(outbox'[m]) \/ local[m] # None,
           \A m \in Msg : \/ op'[m] = op[m]
                         \/ /\ Has(flusher[f].todo[m])
                            /\ op'[m].pc # "answered"
                            /\ op'[m].pc = "post" => op'[m].cipher # None
    PROVE  Lawful
<1>0. TypeOK
  BY DEF IInv
<1>1. flusher'[f] = task /\ \A g \in Flusher : g # f => flusher'[g] = flusher[g]
  BY <1>0 DEF FlusherStep, TypeOK
<1>2. \A g \in Flusher, m \in Msg :
         flusher'[g].pc = "ok" /\ IsCurrent(g, m)' => flusher[g].pc = "ok" /\ IsCurrent(g, m)
  BY <1>1 DEF IsCurrent
<1>3. ASSUME NEW m \in Msg, Travels(m)' PROVE Travels(m) \/ Has(outbox'[m])
  BY <1>1, <1>3 DEF Travels, FlushFrame
<1> QED BY <1>1, <1>2, <1>3 DEF Lawful, FlushFrame, IInv, PostedIsEncrypted

LEMMA FlushStepLawful == ASSUME IInv, NEW f \in Flusher, FlushStep(f) PROVE Lawful
<1>0. TypeOK /\ flusher[f] \in FlusherTask /\ FlushFrame
  BY FlushStepFrame DEF IInv, TypeOK
<1>a. \A m \in Msg : ~Has(NoRow) /\ ~Has(NoRows[m]) /\ ~Has(IdleFlusher.todo[m])
  BY DEF Has, NoRow, NoRows, IdleFlusher
<1>b. ASSUME NEW m \in Msg
      PROVE  /\ Forget(f, m).pc = "loop"
             /\ \A k \in Msg : Has(Forget(f, m).todo[k]) => Has(flusher[f].todo[k])
  BY <1>0, <1>a DEF Forget, FlusherTask
<1>1. CASE ResumeStart(f)
  <2>1. [IdleFlusher EXCEPT !.pc = "loop", !.rest = Conversation].todo = NoRows
        /\ [IdleFlusher EXCEPT !.pc = "loop", !.rest = Conversation].pc = "loop"
    BY DEF IdleFlusher
  <2> QED BY <1>0, <1>a, <1>1, <2>1, FlushLawful DEF ResumeStart
<1>2. CASE FlushEnd(f)
  <2>1. IdleFlusher.pc = "idle"
    BY DEF IdleFlusher
  <2> QED BY <1>0, <1>a, <1>2, <2>1, FlushLawful DEF FlushEnd
<1>3. ASSUME NEW c \in Conversation, FlushRead(f, c) PROVE Lawful
  <2> DEFINE todo == [m \in Msg |-> IF ConvOf[m] = c THEN outbox[m] ELSE NoRow]
             task == [flusher[f] EXCEPT !.rest = @ \ {c}, !.todo = todo]
  <2>1. task.todo = todo /\ task.pc = "loop"
    BY <1>0, <1>3 DEF FlusherTask, FlushRead
  <2>2. \A m \in Msg : Has(task.todo[m]) => Has(outbox[m])
    BY <1>a, <2>1
  <2>3. FlusherStep(f, task) /\ outbox' = outbox /\ op' = op
    BY <1>3 DEF FlushRead
  <2> HIDE DEF task
  <2> QED BY <1>0, <2>1, <2>2, <2>3, FlushLawful
<1>4. ASSUME NEW m \in Msg, FlushSkip(f, m) PROVE Lawful
  BY <1>0, <1>4, <1>b, FlushLawful DEF FlushSkip
<1>5. ASSUME NEW m \in Msg, FlushSend(f, m) PROVE Lawful
  <2> DEFINE task == [flusher[f] EXCEPT !.pc = "sending"]
  <2>1. task.todo = flusher[f].todo /\ task.pc = "sending"
    BY <1>0 DEF FlusherTask
  <2>2. FlusherStep(f, task) /\ outbox' = outbox /\ Has(flusher[f].todo[m])
    BY <1>5 DEF FlushSend, IsCurrent
  <2>3. \A k \in Msg : \/ op'[k] = op[k]
                       \/ /\ Has(flusher[f].todo[k])
                          /\ op'[k].pc # "answered"
                          /\ op'[k].pc = "post" => op'[k].cipher # None
    BY <1>0, <1>5, <2>2 DEF FlushSend, JoinOrStart, TypeOK
  <2> HIDE DEF task
  <2> QED BY <1>0, <2>1, <2>2, <2>3, FlushLawful
<1>6. ASSUME NEW m \in Msg, FlushRemove(f, m) PROVE Lawful
  <2>1. local[m] # None
    BY <1>6 DEF FlushRemove, IInv, OkMeansLocal
  <2>2. \A k \in Msg : outbox'[k] # outbox[k] => local[k] # None
    BY <1>0, <1>6, <2>1 DEF FlushRemove, TypeOK
  <2> QED BY <1>0, <1>6, <1>b, <2>2, FlushLawful DEF FlushRemove
<1>7. ASSUME NEW m \in Msg, FlushFail(f, m) PROVE Lawful
  <2>1. \A k \in Msg : outbox'[k] # outbox[k] => Has(outbox'[k])
    BY <1>0, <1>7 DEF FlushFail, TypeOK, Has
  <2> QED BY <1>0, <1>7, <1>b, <2>1, FlushLawful DEF FlushFail
<1>8. ASSUME NEW m \in Msg, RetryRead(f, m) PROVE Lawful
  <2> DEFINE task == [pc |-> "rewrite", all |-> TRUE, rest |-> {ConvOf[m]},
                      todo |-> [NoRows EXCEPT ![m] = outbox[m]]]
  <2>1. task.pc = "rewrite" /\ \A k \in Msg : Has(task.todo[k]) => Has(outbox[k])
    BY <1>a DEF NoRows
  <2>2. FlusherStep(f, task) /\ outbox' = outbox /\ op' = op
    BY <1>8 DEF RetryRead
  <2> HIDE DEF task
  <2> QED BY <1>0, <2>1, <2>2, FlushLawful
<1>9. ASSUME NEW m \in Msg, RetryWrite(f, m) PROVE Lawful
  <2>1. flusher[f].todo[m] \in Row
    BY <1>0 DEF FlusherTask
  <2>2. [flusher[f].todo[m] EXCEPT !.state = "pending"].state = "pending"
    BY <2>1 DEF Row
  <2>3. \A k \in Msg : outbox'[k] # outbox[k] => Has(outbox'[k])
    BY <1>0, <1>9, <2>2 DEF RetryWrite, TypeOK, Has
  <2> QED BY <1>0, <1>9, <1>b, <2>3, FlushLawful DEF RetryWrite
<1> QED BY <1>1, <1>2, <1>3, <1>4, <1>5, <1>6, <1>7, <1>8, <1>9 DEF FlushStep

LEMMA ServerStepLawful == ASSUME IInv, NEW r \in Request, ServerStep(r) PROVE Lawful
<1>0. TypeOK /\ r.msg \in Msg
  BY DEF IInv, Request
<1>1. CASE ServerCreate(r)
  <2>1. /\ server'[r.msg] = IF server[r.msg] = None THEN r.cipher ELSE server[r.msg]
        /\ \A k \in Msg : k # r.msg => server'[k] = server[k] /\ op'[k] = op[k]
    BY <1>0, <1>1 DEF ServerCreate, TypeOK
  <2>2. r \in net /\ r.cipher # None
    BY <1>1 DEF ServerCreate, IInv, PostedIsEncrypted
  <2>3. op'[r.msg] = op[r.msg] \/ op'[r.msg].pc = "answered"
    BY <1>0, <1>1 DEF ServerCreate, TypeOK, Op
  <2>4. \A k \in Msg : Travels(k)' => Travels(k)
    BY <1>1, <2>1, <2>2 DEF ServerCreate, Travels
  <2> QED BY <1>1, <2>1, <2>2, <2>3, <2>4
      DEF ServerCreate, Lawful, IsCurrent, IInv, PostedIsEncrypted
<1>2. CASE ServerReject(r)
  <2>1. PICK outcome \in Outcome : Complete(r.msg, outcome) /\ outcome # "ok"
    BY <1>2 DEF ServerReject, Outcome
  <2> QED BY <1>0, <1>2, <2>1, CompleteLawful DEF ServerReject
<1>3. CASE LoseRequest(r)
  BY <1>3 DEF LoseRequest, Lawful, Travels, IsCurrent, IInv, PostedIsEncrypted
<1> QED BY <1>1, <1>2, <1>3 DEF ServerStep

LEMMA CrashLawful == IInv /\ Crash => Lawful
<1> SUFFICES ASSUME IInv, Crash PROVE Lawful
  OBVIOUS
<1>1. \A r \in net' : \E q \in net : r.msg = q.msg /\ r.cipher = q.cipher
  BY DEF IInv, TypeOK, Request, Crash
<1>2. \A m \in Msg : /\ sender'[m] # "ok" \/ sender[m] = "ok"
                     /\ sender'[m] \notin {"idle", "refused"} => sender[m] \notin {"idle", "refused"}
  BY DEF Crash
<1>3. \A f \in Flusher : flusher'[f] = IdleFlusher
  BY DEF Crash
<1>4. \A m \in Msg : op'[m].pc = "none"
  BY DEF Crash, NoOp
<1>5. \A m \in Msg : Travels(m)' => Travels(m)
  BY <1>1, <1>2, <1>3, <1>4 DEF Travels, IdleFlusher, NoRows, NoRow, Has
<1> QED BY <1>1, <1>2, <1>3, <1>4, <1>5
    DEF Crash, Lawful, IdleFlusher, IInv, PostedIsEncrypted

LEMMA StepSafe == IInv /\ [Next]_vars => IInv'
<1> SUFFICES ASSUME IInv, [Next]_vars PROVE IInv'
  OBVIOUS
<1>1. CASE UNCHANGED vars
  BY <1>1 DEF vars, IInv, TypeOK, OkMeansLocal, AnsweredMeansStored, PostedIsEncrypted,
     LocalMatchesServer, OnlyQueuedTravels, Travels, Known, IsCurrent
<1>2. CASE Next
  <2>1. Lawful
    BY <1>2, OpStepLawful, SenderStepLawful, FlushStepLawful, ServerStepLawful, CrashLawful
    DEF Next
  <2> QED BY <2>1, StepType, LawfulKeepsIInv DEF IInv
<1> QED BY <1>1, <1>2

\* The invariant that the two theorems below and the refinement rest on.
THEOREM InvariantHolds == Spec => []IInv
BY InitSafe, StepSafe, PTL DEF Spec

\* The local copy of a sent message is the body the server committed, for any
\* interleaving of retries, lost answers and crashes.
THEOREM LocalCorrect == Spec => []LocalMatchesServer
<1>1. IInv => LocalMatchesServer
  BY DEF IInv
<1> QED BY <1>1, InvariantHolds, PTL

\* No task, delivery or request is about a message the client has forgotten.
THEOREM QueuedCorrect == Spec => []OnlyQueuedTravels
<1>1. IInv => OnlyQueuedTravels
  BY DEF IInv
<1> QED BY <1>1, InvariantHolds, PTL

-----------------------------------------------------------------------------
(* Waiters.  NoStrandedWaiter is inductive once a delivery has at most one *)
(* request whose answer it still waits for.                                *)

SenderServed == \A m \in Msg : sender[m] = "sending" => op[m].pc # "none"

FlusherServed ==
    \A f \in Flusher : flusher[f].pc = "sending" =>
        \E m \in Msg : IsCurrent(f, m) /\ op[m].pc # "none"

Awaited(m) == \E r \in net : r.msg = m /\ r.live

RequestServed == \A m \in Msg : op[m].pc = "wait" <=> Awaited(m)

OneRequest == \A r, s \in net : r.live /\ s.live /\ r.msg = s.msg => r = s

WInv == SenderServed /\ FlusherServed /\ RequestServed /\ OneRequest

\* A delivery that goes on keeps its waiters.
LEMMA WaitersKept ==
    ASSUME WInv, \A m \in Msg : op[m].pc # "none" => op'[m].pc # "none",
           \A m \in Msg : sender'[m] = "sending" => sender[m] = "sending" \/ op'[m].pc # "none",
           \A f \in Flusher : \/ flusher'[f] = flusher[f]
                              \/ flusher'[f].pc = "sending" =>
                                   \E m \in Msg : IsCurrent(f, m)' /\ op'[m].pc # "none"
    PROVE  SenderServed' /\ FlusherServed'
<1>1. SenderServed'
  BY DEF WInv, SenderServed
<1>2. ASSUME NEW f \in Flusher, flusher'[f].pc = "sending"
      PROVE  \E m \in Msg : IsCurrent(f, m)' /\ op'[m].pc # "none"
  <2>1. CASE flusher'[f] = flusher[f]
    <3>1. PICK m \in Msg : IsCurrent(f, m) /\ op[m].pc # "none"
      BY <1>2, <2>1 DEF WInv, FlusherServed
    <3>2. IsCurrent(f, m)'
      BY <2>1, <3>1 DEF IsCurrent
    <3> QED BY <3>1, <3>2
  <2> QED BY <1>2, <2>1
<1> QED BY <1>1, <1>2 DEF FlusherServed

\* The end of a delivery leaves nobody who waits for it; its request, if there
\* is one, is given up or was answered.
LEMMA CompleteServes ==
    ASSUME TypeOK, WInv, NEW m \in Msg, NEW outcome \in Outcome, Complete(m, outcome),
           OneRequest', \A k \in Msg \ {m} : Awaited(k)' <=> Awaited(k), ~Awaited(m)'
    PROVE  WInv'
<1>1. op'[m] = NoOp /\ \A k \in Msg \ {m} : op'[k] = op[k]
  BY DEF Complete, TypeOK
<1>2. sender'[m] # "sending" /\ \A k \in Msg \ {m} : sender'[k] = sender[k]
  BY DEF Complete, TypeOK, Outcome
<1>3. SenderServed'
  BY <1>1, <1>2 DEF WInv, SenderServed
<1>4. ASSUME NEW f \in Flusher, flusher'[f].pc = "sending"
      PROVE  \E k \in Msg : IsCurrent(f, k)' /\ op'[k].pc # "none"
  <2>1. flusher[f] \in FlusherTask
    BY DEF TypeOK
  <2>2. flusher'[f] = flusher[f] /\ ~IsCurrent(f, m)
    <3>1. CASE flusher[f].pc = "sending" /\ IsCurrent(f, m)
      <4>1. flusher'[f].pc \in Outcome \union {"idle"}
        BY <2>1, <3>1 DEF Complete, FlusherTask, IdleFlusher
      <4> QED BY <1>4, <4>1 DEF Outcome
    <3>2. CASE ~(flusher[f].pc = "sending" /\ IsCurrent(f, m))
      BY <1>4, <3>2 DEF Complete
    <3> QED BY <3>1, <3>2
  <2>3. PICK k \in Msg : IsCurrent(f, k) /\ op[k].pc # "none"
    BY <1>4, <2>2 DEF WInv, FlusherServed
  <2>4. IsCurrent(f, k)'
    BY <2>2, <2>3 DEF IsCurrent
  <2> QED BY <1>1, <2>2, <2>3, <2>4
<1>5. RequestServed'
  BY <1>1 DEF WInv, RequestServed, NoOp
<1> QED BY <1>3, <1>4, <1>5 DEF WInv, FlusherServed

\* The steps of a delivery that have no request under way.
LEMMA CompleteQuiet ==
    ASSUME TypeOK, WInv, NEW m \in Msg, NEW outcome \in Outcome, Complete(m, outcome),
           op[m].pc # "wait", net' = net
    PROVE  WInv'
<1>1. OneRequest' /\ \A k \in Msg : Awaited(k)' <=> Awaited(k)
  BY DEF WInv, OneRequest, Awaited
<1>2. ~Awaited(m)'
  BY <1>1 DEF WInv, RequestServed
<1> QED BY <1>1, <1>2, CompleteServes

LEMMA OpStepServes == ASSUME TypeOK, WInv, NEW m \in Msg, OpStep(m) PROVE WInv'
<1>1. CASE OpPrepare(m) \/ OpEncrypt(m)
  <2>0. op \in [Msg -> Op] /\ op[m] \in Op
    BY DEF TypeOK
  <2>1. /\ op'[m].pc \in {"encrypt", "post"} /\ op[m].pc \in {"prepare", "encrypt"}
        /\ \A k \in Msg \ {m} : op'[k] = op[k]
        /\ UNCHANGED <<sender, flusher, net>>
    <3>1. CASE OpPrepare(m)
      BY <2>0, <3>1 DEF OpPrepare, Op
    <3>2. CASE OpEncrypt(m)
      <4>1. PICK c \in Cipher : op' = [op EXCEPT ![m] = [op[m] EXCEPT !.pc = "post", !.cipher = c]]
        BY <3>2 DEF OpEncrypt
      <4>2. [op[m] EXCEPT !.pc = "post", !.cipher = c].pc = "post"
        BY <2>0 DEF Op
      <4> QED BY <2>0, <3>2, <4>1, <4>2 DEF OpEncrypt
    <3> QED BY <1>1, <3>1, <3>2
  <2>2. SenderServed' /\ FlusherServed'
    BY <2>1, WaitersKept
  <2> QED BY <2>1, <2>2 DEF WInv, RequestServed, Awaited, OneRequest
<1>2. CASE OpPost(m)
  <2> DEFINE r == [msg |-> m, cipher |-> op[m].cipher, live |-> TRUE]
  <2>1. /\ op[m].pc = "post" /\ op'[m].pc = "wait" /\ \A k \in Msg \ {m} : op'[k] = op[k]
        /\ net' = net \union {r} /\ UNCHANGED <<sender, flusher>>
    BY <1>2 DEF OpPost, TypeOK, Op
  <2>2. SenderServed' /\ FlusherServed'
    BY <2>1, WaitersKept
  <2>3. ~Awaited(m)
    BY <2>1 DEF WInv, RequestServed
  <2>4. r.msg = m /\ r.live
    OBVIOUS
  <2> HIDE DEF r
  <2>5. OneRequest'
    BY <2>1, <2>3, <2>4 DEF WInv, OneRequest, Awaited
  <2>6. RequestServed'
    BY <2>1, <2>4 DEF WInv, RequestServed, Awaited
  <2> QED BY <2>2, <2>5, <2>6 DEF WInv
<1>3. CASE OpTimeout(m)
  <2>1. net' = Hung(m) /\ Complete(m, "retry")
    BY <1>3 DEF OpTimeout
  <2>2. \A r \in net : r \in Request
    BY DEF TypeOK
  <2>3. \A r \in Request : /\ [r EXCEPT !.live = r.live /\ r.msg # m].msg = r.msg
                           /\ [r EXCEPT !.live = r.live /\ r.msg # m].live = (r.live /\ r.msg # m)
                           /\ r.msg # m => [r EXCEPT !.live = r.live /\ r.msg # m] = r
    BY DEF Request
  <2>4. \A s \in net' : s.live => s \in net /\ s.msg # m
    BY <2>1, <2>2, <2>3 DEF Hung
  <2>5. \A s \in net : s.msg # m => s \in net'
    BY <2>1, <2>2, <2>3 DEF Hung
  <2>6. OneRequest' /\ ~Awaited(m)' /\ \A k \in Msg \ {m} : Awaited(k)' <=> Awaited(k)
    BY <2>4, <2>5 DEF WInv, OneRequest, Awaited
  <2> QED BY <2>1, <2>6, CompleteServes DEF Outcome
<1>4. CASE OpPrepareFails(m)
  <2>1. PICK outcome \in Outcome : Complete(m, outcome)
    BY <1>4 DEF OpPrepareFails, Outcome
  <2> QED BY <1>4, <2>1, CompleteQuiet DEF OpPrepareFails
<1>5. CASE OpEncryptFails(m)
  BY <1>5, CompleteQuiet DEF OpEncryptFails, Outcome
<1>6. CASE OpPersist(m)
  BY <1>6, CompleteQuiet DEF OpPersist, Outcome
<1>7. CASE OpPersistFails(m)
  BY <1>7, CompleteQuiet DEF OpPersistFails, Outcome
<1> QED BY <1>1, <1>2, <1>3, <1>4, <1>5, <1>6, <1>7 DEF OpStep

\* Joining or starting a delivery ends none.
LEMMA JoinServes ==
    ASSUME TypeOK, WInv, NEW m \in Msg, NEW cipher, NEW backoff, JoinOrStart(m, cipher, backoff),
           net' = net
    PROVE  /\ op'[m].pc # "none" /\ \A k \in Msg : op[k].pc # "none" => op'[k].pc # "none"
           /\ RequestServed' /\ OneRequest'
<1>1. \A k \in Msg : \/ op'[k] = op[k] /\ (k = m => op[k].pc # "none")
                     \/ k = m /\ op[k].pc = "none" /\ op'[k].pc = "prepare"
  BY DEF JoinOrStart, TypeOK
<1>2. RequestServed' /\ OneRequest'
  BY <1>1 DEF WInv, RequestServed, OneRequest, Awaited
<1> QED BY <1>1, <1>2

LEMMA SenderStepServes == ASSUME TypeOK, WInv, NEW m \in Msg, SenderStep(m) PROVE WInv'
<1>1. CASE SenderSend(m)
  <2>1. /\ op'[m].pc # "none" /\ \A k \in Msg : op[k].pc # "none" => op'[k].pc # "none"
        /\ RequestServed' /\ OneRequest'
    BY <1>1, JoinServes DEF SenderSend
  <2>2. \A k \in Msg : sender'[k] = "sending" => sender[k] = "sending" \/ k = m
    BY <1>1 DEF SenderSend, TypeOK
  <2>3. SenderServed' /\ FlusherServed'
    BY <1>1, <2>1, <2>2, WaitersKept DEF SenderSend
  <2> QED BY <2>1, <2>3 DEF WInv
<1>2. CASE SendRefused(m) \/ Submit(m) \/ SenderRemove(m) \/ SenderFail(m)
  <2>1. /\ \A k \in Msg : sender'[k] = "sending" => sender[k] = "sending"
        /\ UNCHANGED <<op, flusher, net>>
    BY <1>2 DEF SendRefused, Submit, SenderRemove, SenderFail, TypeOK
  <2>2. SenderServed' /\ FlusherServed'
    BY <2>1, WaitersKept
  <2> QED BY <2>1, <2>2 DEF WInv, RequestServed, OneRequest, Awaited
<1> QED BY <1>1, <1>2 DEF SenderStep

LEMMA FlushStepServes == ASSUME TypeOK, WInv, NEW f \in Flusher, FlushStep(f) PROVE WInv'
<1>0. flusher \in [Flusher -> FlusherTask] /\ flusher[f] \in FlusherTask
  BY DEF TypeOK
<1>1. ASSUME NEW m \in Msg, FlushSend(f, m) PROVE WInv'
  <2>1. /\ op'[m].pc # "none" /\ \A k \in Msg : op[k].pc # "none" => op'[k].pc # "none"
        /\ RequestServed' /\ OneRequest'
    BY <1>1, JoinServes DEF FlushSend
  <2>2. flusher' = [flusher EXCEPT ![f] = [flusher[f] EXCEPT !.pc = "sending"]]
        /\ IsCurrent(f, m) /\ sender' = sender
    BY <1>1 DEF FlushSend, FlusherStep
  <2>3. flusher'[f].todo = flusher[f].todo /\ \A g \in Flusher \ {f} : flusher'[g] = flusher[g]
    BY <1>0, <2>2 DEF FlusherTask
  <2>4. IsCurrent(f, m)'
    BY <2>2, <2>3 DEF IsCurrent
  <2>5. SenderServed' /\ FlusherServed'
    BY <2>1, <2>2, <2>3, <2>4, WaitersKept
  <2> QED BY <2>1, <2>5 DEF WInv
<1>2. ASSUME NEW task, FlusherStep(f, task), task.pc # "sending", UNCHANGED <<op, sender, net>>
      PROVE  WInv'
  <2>1. flusher'[f].pc # "sending" /\ \A g \in Flusher \ {f} : flusher'[g] = flusher[g]
    BY <1>0, <1>2 DEF FlusherStep
  <2>2. SenderServed' /\ FlusherServed'
    BY <1>2, <2>1, WaitersKept
  <2> QED BY <1>2, <2>2 DEF WInv, RequestServed, OneRequest, Awaited
<1>3. IdleFlusher.pc = "idle" /\ [IdleFlusher EXCEPT !.pc = "loop", !.rest = Conversation].pc = "loop"
  BY DEF IdleFlusher
<1>4. \A m \in Msg : Forget(f, m).pc = "loop"
  BY <1>0 DEF Forget, FlusherTask
<1>5. CASE ResumeStart(f) \/ FlushEnd(f)
  BY <1>2, <1>3, <1>5 DEF ResumeStart, FlushEnd
<1>6. ASSUME NEW c \in Conversation, FlushRead(f, c) PROVE WInv'
  <2> DEFINE todo == [m \in Msg |-> IF ConvOf[m] = c THEN outbox[m] ELSE NoRow]
             task == [flusher[f] EXCEPT !.rest = @ \ {c}, !.todo = todo]
  <2>1. task.pc = flusher[f].pc
    <3> HIDE DEF todo
    <3> QED BY <1>0 DEF FlusherTask
  <2>2. task.pc # "sending"
    BY <1>6, <2>1 DEF FlushRead
  <2>3. FlusherStep(f, task) /\ UNCHANGED <<op, sender, net>>
    BY <1>6 DEF FlushRead
  <2> HIDE DEF task
  <2> QED BY <1>2, <2>2, <2>3
<1>7. ASSUME NEW m \in Msg, FlushSkip(f, m) \/ FlushRemove(f, m) \/ FlushFail(f, m) \/ RetryWrite(f, m)
      PROVE  WInv'
  BY <1>2, <1>4, <1>7 DEF FlushSkip, FlushRemove, FlushFail, RetryWrite
<1>8. ASSUME NEW m \in Msg, RetryRead(f, m) PROVE WInv'
  BY <1>2, <1>8 DEF RetryRead
<1> QED BY <1>1, <1>5, <1>6, <1>7, <1>8 DEF FlushStep

LEMMA ServerStepServes == ASSUME TypeOK, WInv, NEW r \in Request, ServerStep(r) PROVE WInv'
<1>0. r.msg \in Msg
  BY DEF Request
<1>1. ASSUME r \in net, net' = net \ {r}
      PROVE  /\ OneRequest' /\ (r.live => ~Awaited(r.msg)')
             /\ \A k \in Msg : ~(r.live /\ r.msg = k) => (Awaited(k)' <=> Awaited(k))
  BY <1>1 DEF WInv, OneRequest, Awaited
<1>2. CASE ServerCreate(r)
  <2>1. /\ r \in net /\ net' = net \ {r} /\ UNCHANGED <<sender, flusher>>
        /\ \A k \in Msg \ {r.msg} : op'[k] = op[k]
        /\ op'[r.msg].pc = IF r.live THEN "answered" ELSE op[r.msg].pc
    BY <1>0, <1>2 DEF ServerCreate, TypeOK, Op
  <2>2. SenderServed' /\ FlusherServed'
    BY <1>0, <2>1, WaitersKept
  <2>3. RequestServed'
    BY <1>0, <1>1, <2>1 DEF WInv, RequestServed
  <2> QED BY <1>1, <2>1, <2>2, <2>3 DEF WInv
<1>3. CASE ServerReject(r)
  <2>1. PICK outcome \in Outcome : Complete(r.msg, outcome)
    BY <1>3 DEF ServerReject, Outcome
  <2>2. r \in net /\ r.live /\ net' = net \ {r}
    BY <1>3 DEF ServerReject
  <2> QED BY <1>0, <1>1, <2>1, <2>2, CompleteServes
<1>4. CASE LoseRequest(r)
  <2>1. r \in net /\ ~r.live /\ net' = net \ {r} /\ UNCHANGED <<sender, flusher, op>>
    BY <1>4 DEF LoseRequest
  <2>2. SenderServed' /\ FlusherServed'
    BY <2>1, WaitersKept
  <2>3. RequestServed'
    BY <1>1, <2>1 DEF WInv, RequestServed
  <2> QED BY <1>1, <2>1, <2>2, <2>3 DEF WInv
<1> QED BY <1>2, <1>3, <1>4 DEF ServerStep

LEMMA CrashServes == TypeOK /\ WInv /\ Crash => WInv'
<1> SUFFICES ASSUME TypeOK, WInv, Crash PROVE WInv'
  OBVIOUS
<1>1. SenderServed' /\ FlusherServed'
  BY DEF Crash, SenderServed, FlusherServed, IdleFlusher, TypeOK, SenderPC
<1>2. \A r \in net' : ~r.live
  <2>1. \A r \in Request : ~[r EXCEPT !.live = FALSE].live
    BY DEF Request
  <2> QED BY <2>1 DEF Crash, TypeOK
<1>3. RequestServed' /\ OneRequest'
  BY <1>2 DEF Crash, RequestServed, OneRequest, Awaited, NoOp
<1> QED BY <1>1, <1>3 DEF WInv

\* Every task that waits for a shared delivery waits for one that is under
\* way, and a delivery that waits for the server has a request there, so that
\* an answer, a refusal or the time-out ends each wait.
THEOREM NobodyStranded == Spec => []NoStrandedWaiter
<1>1. Init => WInv
  BY DEF Init, WInv, SenderServed, FlusherServed, RequestServed, OneRequest, Awaited, NoOp,
         IdleFlusher
<1>2. TypeOK /\ WInv /\ [Next]_vars => WInv'
  <2> SUFFICES ASSUME TypeOK, WInv, [Next]_vars PROVE WInv'
    OBVIOUS
  <2>1. CASE UNCHANGED vars
    BY <2>1 DEF vars, WInv, SenderServed, FlusherServed, RequestServed, OneRequest, Awaited, IsCurrent
  <2>2. CASE Next
    BY <2>2, OpStepServes, SenderStepServes, FlushStepServes, ServerStepServes, CrashServes DEF Next
  <2> QED BY <2>1, <2>2
<1>3. WInv => NoStrandedWaiter
  BY DEF WInv, SenderServed, FlusherServed, RequestServed, Awaited, NoStrandedWaiter
<1> QED BY <1>1, <1>2, <1>3, TypeCorrect, PTL DEF Spec

-----------------------------------------------------------------------------
(* Refinement.  Submit maps to Queue, ServerCreate to Store, OpPersist and *)
(* OpPersistFails to Confirm, every other step to a stutter.               *)

Queued == {m \in Msg : Known(m)}

\* An action that stores no body and writes no local row.
LEMMA NoEffect ==
    ASSUME IInv, Lawful, UNCHANGED <<local, server>>,
           \A m \in Msg : Has(outbox'[m]) => Known(m)
    PROVE  UNCHANGED <<Queued, server, local>>
BY DEF Lawful, Queued, Known

\* The end of a delivery that persists the answer, or leaves the rows alone.
LEMMA ConfirmStep ==
    ASSUME IInv, NEW m \in Msg, op[m].pc = "answered",
           local' \in {local, [local EXCEPT ![m] = server[m]]},
           UNCHANGED <<outbox, server>>
    PROVE  Delivery!Confirm(m) \/ UNCHANGED <<Queued, server, local>>
<1>1. CASE local' = local
  BY <1>1 DEF Queued, Known
<1>2. CASE local' = [local EXCEPT ![m] = server[m]]
  <2>1. server[m] # None /\ Known(m)
    BY DEF IInv, AnsweredMeansStored, OnlyQueuedTravels, Travels
  <2>2. Queued' = Queued
    BY <1>2, <2>1 DEF Queued, Known, IInv, TypeOK
  <2> QED BY <1>2, <2>1, <2>2 DEF Delivery!Confirm, Queued
<1> QED BY <1>1, <1>2

LEMMA Travelling == ASSUME IInv, NEW m \in Msg, Travels(m) PROVE Known(m)
BY DEF IInv, OnlyQueuedTravels

LEMMA StepRefines ==
    ASSUME IInv, Lawful, Next
    PROVE  Delivery!Next \/ UNCHANGED <<Queued, server, local>>
<1>0. TypeOK
  BY DEF IInv
<1>1. ASSUME NEW m \in Msg, OpStep(m)
      PROVE  Delivery!Next \/ UNCHANGED <<Queued, server, local>>
  <2>1. CASE OpPersist(m) \/ OpPersistFails(m)
    <3>1. /\ op[m].pc = "answered"
          /\ local' \in {local, [local EXCEPT ![m] = server[m]]}
          /\ UNCHANGED <<outbox, server>>
      BY <2>1 DEF OpPersist, OpPersistFails
    <3> QED BY <3>1, ConfirmStep DEF Delivery!Next
  <2>2. CASE OpEncrypt(m)
    <3>1. Known(m)
      BY <2>2, Travelling DEF OpEncrypt, Travels
    <3>2. \A k \in Msg : Has(outbox'[k]) => Known(k)
      BY <1>0, <2>2, <3>1 DEF OpEncrypt, TypeOK, Known
    <3> QED BY <2>2, <3>2, NoEffect DEF OpEncrypt
  <2>3. CASE OpPrepare(m) \/ OpPrepareFails(m) \/ OpEncryptFails(m) \/ OpPost(m) \/ OpTimeout(m)
    <3>1. UNCHANGED <<outbox, local, server>>
      BY <2>3 DEF OpPrepare, OpPrepareFails, OpEncryptFails, OpPost, OpTimeout
    <3> QED BY <3>1 DEF Queued, Known
  <2> QED BY <1>1, <2>1, <2>2, <2>3 DEF OpStep
<1>2. ASSUME NEW m \in Msg, SenderStep(m)
      PROVE  Delivery!Next \/ UNCHANGED <<Queued, server, local>>
  <2>1. CASE Submit(m)
    <3>1. Queued' = Queued \union {m}
      BY <1>0, <2>1 DEF Submit, TypeOK, Queued, Known, Has, NoRow
    <3> QED BY <2>1, <3>1 DEF Submit, Delivery!Next, Delivery!Queue, Queued
  <2>2. CASE SenderRemove(m) \/ SenderFail(m)
    <3>1. Known(m)
      BY <2>2, Travelling DEF SenderRemove, SenderFail, Travels
    <3>2. \A k \in Msg : Has(outbox'[k]) => Known(k)
      BY <1>0, <2>2, <3>1 DEF SenderRemove, SenderFail, TypeOK, Known
    <3> QED BY <2>2, <3>2, NoEffect DEF SenderRemove, SenderFail
  <2>3. CASE SendRefused(m) \/ SenderSend(m)
    BY <2>3 DEF SendRefused, SenderSend, Queued, Known
  <2> QED BY <1>2, <2>1, <2>2, <2>3 DEF SenderStep
<1>3. ASSUME NEW f \in Flusher, FlushStep(f)
      PROVE  UNCHANGED <<Queued, server, local>>
  <2>1. \A k \in Msg : outbox'[k] # outbox[k] => Has(flusher[f].todo[k])
    BY <1>0, <1>3 DEF FlushStep, ResumeStart, FlushEnd, FlushRead, FlushSkip, FlushSend,
       FlushRemove, FlushFail, RetryRead, RetryWrite, IsCurrent, TypeOK
  <2>2. \A k \in Msg : Has(outbox'[k]) => Known(k)
    BY <2>1, Travelling DEF Travels, Known
  <2> QED BY <1>3, <2>2, FlushStepFrame, NoEffect DEF FlushFrame
<1>4. ASSUME NEW r \in Request, ServerStep(r)
      PROVE  Delivery!Next \/ UNCHANGED <<Queued, server, local>>
  <2>1. CASE ServerCreate(r)
    <3>1. r.msg \in Msg /\ r.cipher \in Cipher
      BY <2>1 DEF ServerCreate, Request, IInv, PostedIsEncrypted
    <3>2. Known(r.msg)
      BY <2>1, <3>1, Travelling DEF ServerCreate, Travels
    <3>3. Queued' = Queued /\ local' = local
      BY <2>1 DEF ServerCreate, Queued, Known
    <3>4. CASE server[r.msg] = None
      <4>1. Delivery!Store(r.msg, r.cipher)
        BY <1>0, <2>1, <3>1, <3>2, <3>3, <3>4
        DEF ServerCreate, Delivery!Store, Queued, TypeOK
      <4> QED BY <3>1, <4>1 DEF Delivery!Next
    <3>5. CASE server[r.msg] # None
      <4>1. server' = server
        BY <1>0, <2>1, <3>1, <3>5 DEF ServerCreate, TypeOK
      <4> QED BY <3>3, <4>1
    <3> QED BY <3>4, <3>5
  <2>2. CASE ServerReject(r) \/ LoseRequest(r)
    BY <2>2 DEF ServerReject, LoseRequest, Queued, Known
  <2> QED BY <1>4, <2>1, <2>2 DEF ServerStep
<1>5. CASE Crash
  BY <1>5 DEF Crash, Queued, Known
<1> QED BY <1>1, <1>2, <1>3, <1>4, <1>5 DEF Next

\* The client, the network and the server together implement MessageDelivery:
\* a queued message is never forgotten, the server stores one body for it, and
\* the client keeps that body.
THEOREM Refinement == Spec => ImplementsDelivery
<1>1. Init => Delivery!Init
  BY DEF Init, Delivery!Init, Known, Has, NoRows, NoRow
<1>2. IInv /\ [Next]_vars => [Delivery!Next]_(Delivery!vars)
  <2> SUFFICES ASSUME IInv, [Next]_vars
               PROVE  Delivery!Next \/ UNCHANGED <<Queued, server, local>>
    BY DEF Delivery!vars, Queued
  <2>1. CASE UNCHANGED vars
    BY <2>1 DEF vars, Queued, Known
  <2>2. CASE Next
    <3>1. Lawful
      BY <2>2, OpStepLawful, SenderStepLawful, FlushStepLawful, ServerStepLawful, CrashLawful
      DEF Next
    <3> QED BY <2>2, <3>1, StepRefines
  <2> QED BY <2>1, <2>2
<1> QED BY <1>1, <1>2, InvariantHolds, PTL DEF Spec, ImplementsDelivery, Delivery!Spec
=============================================================================
