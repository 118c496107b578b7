------------------------------ MODULE Accounts ------------------------------
(***************************************************************************)
(* Accounts, their Google identities and devices, and the sessions of the  *)
(* apps: sign-ins by name and by Google, device synchronisation, e-mail    *)
(* changes, revocation and the websocket that touches the row of a device. *)
(* A request resolves the account (Resolve), writes it and checks the row  *)
(* of the device (Check) and commits the device, its credential and the    *)
(* answer (Commit).  Its client may have given up by then.                 *)
(***************************************************************************)
EXTENDS Naturals, FiniteSets

CONSTANTS
    Device,      \* installations of the app
    NoDevice,    \* no installation
    DeviceName,  \* the name and platform each of them reports
    Subject,     \* Google identities, each with its one e-mail address
    NoSubject,   \* no identity, or an address that belongs to none
    MaxRequest,  \* bound on the requests
    MaxKeys,     \* bound on the key profiles of the one device that makes new ones
    MaxMail      \* bound on the changes of an e-mail address

ASSUME AccountsAssumption ==
    /\ NoSubject \notin Subject /\ NoDevice \notin Device
    /\ MaxRequest \in Nat /\ MaxKeys \in Nat \ {0} /\ MaxMail \in Nat

\* A request stands for the account and for the credential it may create.
Request == 1..MaxRequest
NoAccount == 0
Account == Request \union {NoAccount}

VARIABLES
    row,       \* UserDevice
    subject,   \* GoogleAccount.google_subject of each account
    mail,      \* User.email, as the identity it is the address of
    request,   \* the requests, in the order they were sent
    sent,      \* how many were
    session,   \* what each app has stored
    keys,      \* the key profile each app holds
    unheard,   \* history: a sign-in the app gave up was committed since
    edited,    \* history: accounts whose e-mail was changed by hand
    quiet      \* history: devices revoked whose websocket was quiet since

accountVars == <<row, subject, mail, request, sent, session, keys, unheard, edited, quiet>>

Kind == {"name", "google", "sync"}

\* The variables of a request; live: the client still waits for it.
RequestRow == [pc : {"none", "sent", "resolved", "checked"}, kind : Kind,
               device : Device \union {NoDevice}, subject : Subject \union {NoSubject},
               keys : 1..MaxKeys, user : Account, setMail : BOOLEAN,
               insert : BOOLEAN, live : BOOLEAN]

DeviceRow == [user : Account, status : {"absent", "active", "revoked"},
              keys : 0..MaxKeys, credential : 0..MaxRequest]

SessionUser == [user : Account, subject : Subject \union {NoSubject},
                keys : 0..MaxKeys, credential : 0..MaxRequest]

NoRequest == [pc |-> "none", kind |-> "name", device |-> NoDevice, subject |-> NoSubject,
              keys |-> 1, user |-> NoAccount, setMail |-> FALSE,
              insert |-> FALSE, live |-> FALSE]
Absent == [user |-> NoAccount, status |-> "absent", keys |-> 0, credential |-> 0]
SignedOut == [user |-> NoAccount, subject |-> NoSubject, keys |-> 0, credential |-> 0]

AccountTypeOK ==
    /\ row \in [Device -> DeviceRow]
    /\ subject \in [Request -> Subject \union {NoSubject}]
    /\ mail \in [Request -> Subject \union {NoSubject}]
    /\ request \in [Request -> RequestRow]
    /\ sent \in 0..MaxRequest
    /\ session \in [Device -> SessionUser]
    /\ keys \in [Device -> 1..MaxKeys]
    /\ unheard \subseteq Device
    /\ edited \subseteq Request
    /\ quiet \subseteq Device

AccountInit ==
    /\ row = [d \in Device |-> Absent]
    /\ subject = [u \in Request |-> NoSubject]
    /\ mail = [u \in Request |-> NoSubject]
    /\ request = [n \in Request |-> NoRequest]
    /\ sent = 0
    /\ session = [d \in Device |-> SignedOut]
    /\ keys = [d \in Device |-> 1]
    /\ unheard = {}
    /\ edited = {}
    /\ quiet = {}

\* The app of a device waits for no answer.
Idle(d) == \A n \in Request : request[n].live => request[n].device # d

-----------------------------------------------------------------------------
(* The app.                                                                *)

Send(d, kind, s, u) ==
    /\ Idle(d) /\ sent < MaxRequest
    /\ sent' = sent + 1
    /\ request' = [request EXCEPT ![sent + 1] =
           [pc |-> "sent", kind |-> kind, device |-> d, subject |-> s, keys |-> keys[d],
            user |-> u, setMail |-> FALSE, insert |-> FALSE, live |-> TRUE]]
    /\ UNCHANGED <<row, subject, mail, session, keys, unheard, edited, quiet>>

\* login and loginWithGoogle, offered when no session is stored.
SignIn(d) ==
    /\ session[d] = SignedOut
    /\ \/ Send(d, "name", NoSubject, NoAccount)
       \/ \E s \in Subject : Send(d, "google", s, NoAccount)

\* restoreSession: syncCurrentDevice with the stored session.
Restore(d) == session[d] # SignedOut /\ Send(d, "sync", NoSubject, session[d].user)

\* The request times out in the app, and is under way on the server still.
GiveUp(n) ==
    /\ request[n].live
    /\ request' = [request EXCEPT ![n].live = FALSE]
    /\ session' = IF request[n].kind = "sync"
                  THEN [session EXCEPT ![request[n].device] = SignedOut] ELSE session
    /\ UNCHANGED <<row, subject, mail, sent, keys, unheard, edited, quiet>>

\* logout, also what a refused restoreSession ends in.
Logout(d) ==
    /\ Idle(d) /\ session[d] # SignedOut
    /\ session' = [session EXCEPT ![d] = SignedOut]
    /\ unheard' = unheard \ {d}
    /\ UNCHANGED <<row, subject, mail, request, sent, keys, edited, quiet>>

\* The secure storage of the app is lost, and new keys are made.
NewKeys(d) ==
    /\ Idle(d) /\ keys[d] < MaxKeys /\ \A e \in Device \ {d} : keys[e] = 1
    /\ keys' = [keys EXCEPT ![d] = @ + 1]
    /\ UNCHANGED <<row, subject, mail, request, sent, session, unheard, edited, quiet>>

-----------------------------------------------------------------------------
(* A request on the server: one transaction.                               *)

\* _find_user_by_device_signature: the owner of the only active device of
\* that name.
Alike(d) == {e \in Device : row[e].status = "active" /\ DeviceName[e] = DeviceName[d]}

\* .first() of the accounts with that e-mail address.
ByMail(s) ==
    LET found == {u \in Request : mail[u] = s} IN
    IF found = {} THEN NoAccount ELSE CHOOSE u \in found : \A v \in found : u <= v

BySubject(s) == {u \in Request : subject[u] = s}

\* The account a sign-in is for; NoAccount if one is to be created.
Resolved(q) ==
    CASE q.kind = "sync" -> q.user
      [] q.kind = "name" ->
            IF row[q.device].status # "absent" THEN row[q.device].user
            ELSE IF Cardinality(Alike(q.device)) = 1
                 THEN row[CHOOSE e \in Alike(q.device) : TRUE].user ELSE NoAccount
      [] q.kind = "google" ->
            IF BySubject(q.subject) # {} THEN CHOOSE u \in BySubject(q.subject) : TRUE
            ELSE ByMail(q.subject)

Resolve(n) ==
    LET q == request[n]
        u == IF Resolved(q) = NoAccount THEN n ELSE Resolved(q) IN
    /\ q.pc = "sent"
    /\ request' = [request EXCEPT ![n] =
           [q EXCEPT !.pc = "resolved", !.user = u,
                     !.setMail = q.kind = "google" /\ mail[u] # q.subject]]
    /\ UNCHANGED <<row, subject, mail, sent, session, keys, unheard, edited, quiet>>

\* What a transaction writes of the account when it commits.
CommitAccount(q) ==
    /\ subject' = IF q.kind = "google" THEN [subject EXCEPT ![q.user] = q.subject] ELSE subject
    /\ mail' = IF q.setMail THEN [mail EXCEPT ![q.user] = q.subject] ELSE mail

\* Other transactions that have written what q is about to write: the
\* database makes q wait for them.
SubjectHeld(q) ==
    \E m \in Request : /\ request[m].pc = "checked" /\ request[m].kind = "google"
                       /\ q.kind = "google" /\ request[m].subject = q.subject
                       /\ request[m].user # q.user

DeviceHeld(q) ==
    \E m \in Request : request[m].pc = "checked" /\ request[m].insert
                       /\ request[m].device = q.device

\* Mutant: google_subject is not unique.
MutSubjectTaken(q) == FALSE

\* GoogleAccount.google_subject is unique: another account has it.
SubjectTaken(q) ==
    q.kind = "google" /\ \E u \in Request \ {q.user} : subject[u] = q.subject

\* Mutant: the owner of the row is not compared.
MutRefused(q) ==
    /\ row[q.device].status # "absent"
    /\ row[q.device].status = "revoked" \/ row[q.device].keys # q.keys

\* upsert_user_device refuses: another owner, revoked, or other keys.
Refused(q) ==
    /\ row[q.device].status # "absent"
    /\ \/ row[q.device].user # q.user
       \/ row[q.device].status = "revoked"
       \/ row[q.device].keys # q.keys

Finish(n) == request' = [request EXCEPT ![n] = NoRequest]

\* The unique constraint fails: the transaction is rolled back.
Abort(n) ==
    LET q == request[n] IN
    /\ q.pc = "resolved" /\ ~SubjectHeld(q) /\ SubjectTaken(q)
    /\ Finish(n)
    /\ UNCHANGED <<row, subject, mail, sent, session, keys, unheard, edited, quiet>>

\* A refusal is a return: what was written of the account is committed.  The
\* app answers a refused synchronisation with a logout.
Refusal(n) ==
    LET q == request[n] IN
    /\ q.pc = "resolved" /\ ~SubjectHeld(q) /\ ~SubjectTaken(q)
    /\ ~DeviceHeld(q) /\ Refused(q)
    /\ CommitAccount(q)
    /\ session' = IF q.kind = "sync" /\ q.live
                  THEN [session EXCEPT ![q.device] = SignedOut] ELSE session
    /\ Finish(n)
    /\ UNCHANGED <<row, sent, keys, unheard, edited, quiet>>

Check(n) ==
    LET q == request[n] IN
    /\ q.pc = "resolved" /\ ~SubjectHeld(q) /\ ~SubjectTaken(q)
    /\ ~DeviceHeld(q) /\ ~Refused(q)
    /\ request' = [request EXCEPT ![n].pc = "checked",
                                  ![n].insert = row[q.device].status = "absent"]
    /\ UNCHANGED <<row, subject, mail, sent, session, keys, unheard, edited, quiet>>

\* Mutant: the row is saved whole, from the copy that was read active.
MutWritten(q, n) ==
    [user |-> q.user, status |-> "active", keys |-> q.keys,
     credential |-> IF q.kind = "sync" THEN row[q.device].credential ELSE n]

\* Mutant: every request rotates the credential.
MutRotated(q, n) ==
    IF q.insert
    THEN [user |-> q.user, status |-> "active", keys |-> q.keys, credential |-> n]
    ELSE [row[q.device] EXCEPT !.credential = n]

\* The row after upsert_user_device and _rotate_recovery_device_credential:
\* an update names its fields, and a synchronisation rotates nothing.
Written(q, n) ==
    LET credential == IF q.kind = "sync" THEN row[q.device].credential ELSE n IN
    IF q.insert
    THEN [user |-> q.user, status |-> "active", keys |-> q.keys, credential |-> credential]
    ELSE [row[q.device] EXCEPT !.credential = credential]

Commit(n) ==
    LET q == request[n]  d == q.device IN
    /\ q.pc = "checked"
    /\ CommitAccount(q)
    /\ row' = [row EXCEPT ![d] = Written(q, n)]
    /\ session' = IF q.kind = "sync" \/ ~q.live THEN session
                  ELSE [session EXCEPT ![d] =
                          [user |-> q.user, subject |-> q.subject, keys |-> q.keys,
                           credential |-> n]]
    /\ unheard' = CASE q.kind = "sync" -> unheard
                    [] q.kind # "sync" /\ q.live -> unheard \ {d}
                    [] OTHER -> unheard \union {d}
    /\ Finish(n)
    /\ UNCHANGED <<sent, keys, edited, quiet>>

-----------------------------------------------------------------------------
(* The other writers of these rows.                                        *)

\* DeviceRevokeView, by any app of the account.
Revoke(d, e) ==
    /\ session[e] # SignedOut /\ session[e].user = row[d].user /\ row[d].status = "active"
    /\ row' = [row EXCEPT ![d].status = "revoked"]
    /\ quiet' = quiet \union {d}
    /\ UNCHANGED <<subject, mail, request, sent, session, keys, unheard, edited>>

\* _touch_device: the websocket of a device opens or closes.
Touch(d) ==
    /\ row[d].status = "revoked"
    /\ row' = [row EXCEPT ![d].status = "active"]
    /\ quiet' = quiet \ {d}
    /\ UNCHANGED <<subject, mail, request, sent, session, keys, unheard, edited>>

\* MeView.patch with any e-mail address.
SetMail(d, s) ==
    LET u == session[d].user IN
    /\ session[d] # SignedOut /\ s # mail[u]
    /\ u \notin edited /\ Cardinality(edited) < MaxMail
    /\ mail' = [mail EXCEPT ![u] = s]
    /\ edited' = edited \union {u}
    /\ UNCHANGED <<row, subject, request, sent, session, keys, unheard, quiet>>

AccountNext ==
    \/ \E d \in Device : SignIn(d) \/ Restore(d) \/ Logout(d) \/ NewKeys(d) \/ Touch(d)
    \/ \E n \in Request : GiveUp(n) \/ Resolve(n) \/ Abort(n) \/ Refusal(n) \/ Check(n) \/ Commit(n)
    \/ \E d, e \in Device : Revoke(d, e)
    \/ \E d \in Device, s \in Subject \union {NoSubject} : SetMail(d, s)

AccountSpec == AccountInit /\ [][AccountNext]_accountVars

-----------------------------------------------------------------------------
(* Properties.                                                             *)

\* While an app is signed in, the directory names its account and its keys as
\* those of its device: no sign-in of another account on it, no other keys and
\* no late request get in between, so what others encrypt reaches it.
SessionOwnsDevice ==
    \A d \in Device : session[d] # SignedOut =>
        /\ row[d].user = session[d].user
        /\ row[d].keys = session[d].keys

\* The recovery credential of a session stays the one of the row, unless a
\* sign-in the app had given up was committed after it: synchronisation,
\* revocation and the websocket do not take it away.
CredentialKept ==
    \A d \in Device : session[d] # SignedOut /\ d \notin unheard =>
        row[d].credential = session[d].credential

\* A Google identity belongs to one account, and a session opened with it is
\* a session of that account, unless its e-mail was changed by hand.
GoogleIdentity ==
    /\ \A u, v \in Request : subject[u] = subject[v] /\ subject[u] # NoSubject => u = v
    /\ \A d \in Device : session[d].subject # NoSubject /\ session[d].user \notin edited =>
          subject[session[d].user] = session[d].subject

\* Only the websocket makes a revoked device active again: no sign-in or
\* synchronisation that had read it active before does.
RevokedStays == \A d \in quiet : row[d].status = "revoked"

\* An account keeps its Google identity (violated: its e-mail may be changed).
IdentityStable ==
    [][\A u \in Request : subject[u] # NoSubject => subject'[u] = subject[u]]_subject
=============================================================================
