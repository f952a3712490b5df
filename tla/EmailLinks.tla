----------------------------- MODULE EmailLinks -----------------------------
(***************************************************************************)
(* Email links (email_links/): issue under a request limit, delivery by a  *)
(* worker fed from a durable queue, and consumption for login, password    *)
(* recovery, invitation and the activation of pending accounts.            *)
(*                                                                         *)
(* Issue, mark_delivered and consumption hold the account row from their   *)
(* first decision to their commit; mark_delivery_failed is one conditional *)
(* UPDATE.  Each is one action.  What is not atomic is modelled as it runs: *)
(* a link is issued, dispatched, sent and marked in separate steps, any of *)
(* which a crash may cut off, and the handlers that hash a password check  *)
(* the link once before and once after.                                    *)
(*                                                                         *)
(* A handler's now is read before it waits, as in module Sessions.         *)
(***************************************************************************)
EXTENDS Naturals, FiniteSets, FiniteSetsExt

CONSTANTS
    User,
    LinkId,        \* identifiers uuid4 can return, each with its own token
    NoUser,
    Purposes,      \* the purposes this instance requests links for
    TTL,           \* email_link_*_ttl_seconds
    Window,        \* email_link_request_window_seconds
    MaxRequests,   \* email_link_max_requests_per_window
    Retention,     \* email_link_retention_seconds
    Lockout,       \* lockout_seconds
    MaxLag,        \* how old a handler's now may be when it gets the row
    MaxTime,       \* bound on the clock
    MaxVersion,    \* bound on the account changes made outside this module
    MaxAttempts,   \* bound on the times a job is taken from the queue
    AckLost        \* may a job that was finished be taken again?

Purpose == {"activation", "login", "password_reset", "invitation"}

(* Retention covers every lifetime and the window of the request limit.      *)
RetentionCovers == TTL <= Retention /\ Window <= Retention

ASSUME LinkAssumption ==
    /\ Purposes \subseteq Purpose
    /\ TTL \in Nat /\ 1 <= TTL
    /\ Window \in Nat /\ MaxRequests \in Nat /\ 1 <= MaxRequests
    /\ Retention \in Nat /\ RetentionCovers
    /\ Lockout \in Nat /\ MaxLag \in Nat /\ MaxTime \in Nat
    /\ MaxVersion \in Nat /\ MaxAttempts \in Nat /\ AckLost \in BOOLEAN
    /\ NoUser \notin User

(* An identifier is a uuid4.                                                 *)
ASSUME IdsAssumption == IsFiniteSet(LinkId)

VARIABLES
    clock,
    accounts,   \* table user_account
    links,      \* table email_link
    live,       \* the accounts that have an unrevoked session
    dispatch,   \* what the web process still has to do with an issued link
    job,        \* the delivery job of a link in the queue
    attempts,   \* how often the queue has handed a job out
    inbox,      \* links whose mail may have reached its reader
    checked,    \* requests that found their link active and hash a password
    awaiting,   \* history: pending accounts no activation link was used for
    issuedTo    \* history: the account a link was issued to, as it was then

vars == <<clock, accounts, links, live, dispatch, job, attempts, inbox,
          checked, awaiting, issuedTo>>

mail == <<dispatch, job, attempts, inbox>>
history == <<awaiting, issuedTo>>

-----------------------------------------------------------------------------
Account ==
    [status: {"absent", "pending", "active", "disabled"}, admin: BOOLEAN,
     emailLogin: BOOLEAN, passwordLogin: BOOLEAN, mustChange: BOOLEAN,
     lockedUntil: Nat, version: Nat]

(* state "none": not issued yet; "deleted": removed by retention, and then   *)
(* what the row said is there for the properties only.                       *)
Link ==
    [user: User \cup {NoUser}, purpose: Purpose, generation: Nat, version: Nat,
     created: Nat, delivered: BOOLEAN,
     state: {"none", "pending", "active", "failed", "consumed", "revoked",
             "deleted"}]

Absent ==
    [user |-> NoUser, purpose |-> "login", generation |-> 0, version |-> 0,
     created |-> 0, delivered |-> FALSE, state |-> "none"]

Row == {l \in LinkId : links[l].state \notin {"none", "deleted"}}

Nows == {t \in 0..clock : clock <= t + MaxLag}

Expired(link, now) == link.created + TTL <= now

CanAuthenticate(account, now) ==
    account.status = "active" /\ account.lockedUntil <= now

(* Mutation: a locked account may ask for a login link. *)
CanRequestWhileLocked(account, purpose, now) ==
    \/ purpose = "activation" /\ account.status = "pending"
    \/ /\ purpose = "login" /\ ~account.admin /\ account.status = "active"
       /\ account.emailLogin /\ ~account.mustChange
    \/ /\ purpose = "password_reset" /\ ~account.admin
       /\ account.status = "active" /\ account.passwordLogin
    \/ /\ purpose = "invitation" /\ ~account.admin
       /\ account.status = "active" /\ account.mustChange

CanRequest(account, purpose, now) ==
    \/ /\ purpose = "activation"
       /\ account.status = "pending"
    \/ /\ purpose = "login" /\ ~account.admin
       /\ CanAuthenticate(account, now)
       /\ account.emailLogin /\ ~account.mustChange
    \/ /\ purpose = "password_reset" /\ ~account.admin
       /\ account.status = "active" /\ account.passwordLogin
    \/ /\ purpose = "invitation" /\ ~account.admin
       /\ account.status = "active" /\ account.mustChange

(* Mutation: the security version is not compared. *)
StillGoodForAnyVersion(l, now) ==
    /\ ~Expired(links[l], now)
    /\ CanRequest(accounts[links[l].user], links[l].purpose, now)

(* deliverable_link and matches_user after their test of the link's state.   *)
StillGood(l, now) ==
    LET account == accounts[links[l].user]
    IN  /\ ~Expired(links[l], now)
        /\ links[l].version = account.version
        /\ CanRequest(account, links[l].purpose, now)

(* The links of one account and purpose, in a table.                         *)
Issued(table, u, purpose) ==
    {l \in LinkId : /\ table[l].state \notin {"none", "deleted"}
                    /\ table[l].user = u /\ table[l].purpose = purpose}

Rivals(l) == Issued(links, links[l].user, links[l].purpose) \ {l}

(* Mutation: the latest link by its time. *)
IsLatestByTime(l) == \A m \in Rivals(l) : links[m].created <= links[l].created

IsLatest(l) == \A m \in Rivals(l) : links[m].generation < links[l].generation

-----------------------------------------------------------------------------
(* Issue.                                                                    *)

DeleteOld(now) ==
    [l \in LinkId |-> IF l \in Row /\ links[l].created + Retention < now
                      THEN [links[l] EXCEPT !.state = "deleted"] ELSE links[l]]

(* Mutation: the window is open at its beginning. *)
RequestsAfter(table, u, purpose, now) ==
    Cardinality({l \in Issued(table, u, purpose) :
                    table[l].created + Window > now})

Requests(table, u, purpose, now) ==
    Cardinality({l \in Issued(table, u, purpose) :
                    table[l].created + Window >= now})

NewLink(table, u, purpose, now, version) ==
    [user |-> u, purpose |-> purpose,
     generation |->
        1 + Max({0} \cup {table[l].generation : l \in Issued(table, u, purpose)}),
     version |-> version, created |-> now, delivered |-> FALSE,
     state |-> "pending"]

(* Mutation: a request revokes the link it is to replace. *)
IssueLinkRevokingOld(u, purpose, l, now, account) ==
    LET kept == [m \in LinkId |->
                    IF m \in Issued(links, u, purpose) /\ links[m].state = "active"
                    THEN [links[m] EXCEPT !.state = "revoked"] ELSE links[m]]
    IN  /\ Requests(kept, u, purpose, now) < MaxRequests
        /\ links[l].state = "none"
        /\ links' = [kept EXCEPT
                        ![l] = NewLink(kept, u, purpose, now, account.version)]
        /\ dispatch' = [dispatch EXCEPT ![l] = "ready"]
        /\ issuedTo' = [issuedTo EXCEPT ![l] = account]

(* issue_link: housekeeping, the limit, and the new row with its mail.       *)
IssueLink(u, purpose, l, now, account) ==
    LET kept == DeleteOld(now)
    IN  IF Requests(kept, u, purpose, now) >= MaxRequests
        THEN links' = kept /\ UNCHANGED <<dispatch, issuedTo>>
        ELSE /\ links[l].state = "none"
             /\ links' = [kept EXCEPT
                             ![l] = NewLink(kept, u, purpose, now, account.version)]
             /\ dispatch' = [dispatch EXCEPT ![l] = "ready"]
             /\ issuedTo' = [issuedTo EXCEPT ![l] = account]

(* request_login, request_password_reset, invite, and replace for a pending  *)
(* account: silent when the account is not eligible.                         *)
Request(u, purpose, l, now) ==
    /\ purpose \in Purposes
    /\ CanRequest(accounts[u], purpose, now)
    /\ IssueLink(u, purpose, l, now, accounts[u])
    /\ UNCHANGED <<clock, accounts, live, job, attempts, inbox, checked, awaiting>>

PendingAccount(admin) ==
    [status |-> "pending", admin |-> admin, emailLogin |-> FALSE,
     passwordLogin |-> FALSE, mustChange |-> FALSE, lockedUntil |-> 0, version |-> 0]

(* provision, and ensure_initial_admin under the advisory lock.              *)
Provision(u, admin, l, now) ==
    /\ "activation" \in Purposes
    /\ accounts[u].status = "absent"
    /\ admin => \A v \in User : ~accounts[v].admin
    /\ accounts' = [accounts EXCEPT ![u] = PendingAccount(admin)]
    /\ IssueLink(u, "activation", l, now, PendingAccount(admin))
    /\ awaiting' = awaiting \cup {u}
    /\ UNCHANGED <<clock, live, job, attempts, inbox, checked>>

-----------------------------------------------------------------------------
(* Delivery.                                                                 *)

SetState(l, state) == [links EXCEPT ![l].state = state]

(* The table's CHECK: no row is delivered, consumed or closed before it was  *)
(* created.  A worker whose clock is that far behind gets an error and its   *)
(* transaction rolls back.                                                   *)
TimesInOrder(now) ==
    \A l \in LinkId : links'[l] # links[l] /\ links'[l].state # "deleted"
                      => links'[l].created <= now

(* Mutation: the failure of a mail is written over any state. *)
FailAnyLink(l, now) ==
    /\ links' = IF l \in Row THEN SetState(l, "failed") ELSE links
    /\ TimesInOrder(now)

(* Mutation: the state of the job is stored for the state of the link. *)
FailLinkAsJob(l, now) ==
    /\ links' = IF links[l].state = "pending" THEN SetState(l, job[l]) ELSE links
    /\ TimesInOrder(now)

FailLink(l, now) ==
    /\ links' = IF links[l].state = "pending" THEN SetState(l, "failed") ELSE links
    /\ TimesInOrder(now)

(* _dispatch hands the message to the queue; an error does not tell whether  *)
(* the queue has it.  A crash loses what the process had not dispatched.     *)
Dispatch(l) ==
    /\ dispatch[l] = "ready"
    /\ \/ /\ dispatch' = [dispatch EXCEPT ![l] = "done"]
          /\ job' = [job EXCEPT ![l] = "queued"]
       \/ /\ dispatch' = [dispatch EXCEPT ![l] = "raised"]
          /\ job' \in {job, [job EXCEPT ![l] = "queued"]}
    /\ UNCHANGED <<clock, accounts, links, live, attempts, inbox, checked, history>>

DispatchFailed(l, now) ==
    /\ dispatch[l] = "raised"
    /\ dispatch' = [dispatch EXCEPT ![l] = "failed"]
    /\ FailLink(l, now)
    /\ UNCHANGED <<clock, accounts, live, job, attempts, inbox, checked, history>>

WebCrash(l) ==
    /\ dispatch[l] \in {"ready", "raised"}
    /\ dispatch' = [dispatch EXCEPT ![l] = "done"]
    /\ UNCHANGED <<clock, accounts, links, live, job, attempts, inbox, checked,
                   history>>

(* deliver: the sender returns or raises; one that raised may have sent.     *)
Send(l) ==
    /\ job[l] = "queued"
    /\ attempts[l] < MaxAttempts
    /\ attempts' = [attempts EXCEPT ![l] = @ + 1]
    /\ \/ /\ job' = [job EXCEPT ![l] = "accepted"]
          /\ inbox' = inbox \cup {l}
       \/ /\ job' = [job EXCEPT ![l] = "refused"]
          /\ inbox' \in {inbox, inbox \cup {l}}
    /\ UNCHANGED <<clock, accounts, links, live, dispatch, checked, history>>

(* Mutation: the new link is among those it revokes. *)
RevokeAllActive(l) ==
    [m \in LinkId |->
        IF m \in {l} \cup {r \in Rivals(l) : links[r].state = "active"}
        THEN [links[m] EXCEPT !.state = "revoked"]
        ELSE links[m]]

RevokeOtherActive(l) ==
    [m \in LinkId |->
        IF m \in Rivals(l) /\ links[m].state = "active"
        THEN [links[m] EXCEPT !.state = "revoked"]
        ELSE IF m = l THEN [links[l] EXCEPT !.state = "active", !.delivered = TRUE]
        ELSE links[m]]

(* Mutation: a link that cannot be delivered is left as it is. *)
MarkDeliveredIfGood(l, now) ==
    /\ job[l] = "accepted"
    /\ job' = [job EXCEPT ![l] = "finished"]
    /\ links' = IF l \in Row /\ links[l].state = "pending" /\ IsLatest(l)
                             /\ StillGood(l, now)
                THEN RevokeOtherActive(l)
                ELSE links
    /\ TimesInOrder(now)
    /\ UNCHANGED <<clock, accounts, live, dispatch, attempts, inbox, checked, history>>

(* mark_delivered after the provider accepted the mail.  A link that cannot  *)
(* be delivered is revoked, an active one included.                          *)
MarkDelivered(l, now) ==
    /\ job[l] = "accepted"
    /\ job' = [job EXCEPT ![l] = "finished"]
    /\ links' =
         IF l \in Row /\ links[l].state = "pending" /\ IsLatest(l)
                      /\ StillGood(l, now)
         THEN RevokeOtherActive(l)
         ELSE IF links[l].state \in {"pending", "active"}
         THEN SetState(l, "revoked")
         ELSE links
    /\ TimesInOrder(now)
    /\ UNCHANGED <<clock, accounts, live, dispatch, attempts, inbox, checked, history>>

MarkDeliveryFailed(l, now) ==
    /\ job[l] = "refused"
    /\ job' = [job EXCEPT ![l] = "failed"]
    /\ FailLink(l, now)
    /\ UNCHANGED <<clock, accounts, live, dispatch, attempts, inbox, checked, history>>

(* The worker dies before it has marked the link, or deliver raises; or the  *)
(* job, although finished, is not acknowledged and comes again.              *)
Redeliver(l) ==
    /\ job[l] \in {"accepted", "refused", "failed"}
                    \cup (IF AckLost THEN {"finished"} ELSE {})
    /\ attempts[l] < MaxAttempts
    /\ job' = [job EXCEPT ![l] = "queued"]
    /\ UNCHANGED <<clock, accounts, links, live, dispatch, attempts, inbox, checked,
                   history>>

-----------------------------------------------------------------------------
(* Consumption: the token is in the mail.                                    *)

NewPassword(account) ==
    [account EXCEPT !.lockedUntil = 0, !.version = @ + 1,
                    !.mustChange = FALSE, !.passwordLogin = TRUE]

(* consumable_link and what follows it, for the link and account rows.       *)
Consume(l, now, outcome, sessions) ==
    /\ links[l].state = "active"
    /\ IF StillGood(l, now)
       THEN /\ links' = SetState(l, "consumed")
            /\ accounts' = [accounts EXCEPT ![links[l].user] = outcome]
            /\ live' = sessions
       ELSE links' = SetState(l, "revoked") /\ UNCHANGED <<accounts, live>>
    /\ TimesInOrder(now)

(* login.  From a foreign browser only an outdated link changes.             *)
Login(l, now, ownBrowser) ==
    /\ l \in inbox /\ links[l].purpose = "login"
    /\ ownBrowser \/ ~StillGood(l, now)
    /\ Consume(l, now, accounts[links[l].user], live \cup {links[l].user})
    /\ UNCHANGED <<clock, mail, checked, history>>

(* active_link_exists, before the password is hashed.                        *)
Check(l, now) ==
    /\ l \in inbox /\ links[l].purpose # "login"
    /\ links[l].state = "active" /\ ~Expired(links[l], now)
    /\ checked' = checked \cup {[link |-> l, now |-> now]}
    /\ UNCHANGED <<clock, accounts, links, live, mail, history>>

(* The transactions after it: reset_password, activate_invitation, activate. *)
Complete(c, purpose, outcome) ==
    /\ c \in checked
    /\ links[c.link].purpose = purpose
    /\ Consume(c.link, c.now, outcome, live \ {links[c.link].user})
    /\ UNCHANGED <<clock, mail, checked, issuedTo>>

ResetPassword(c) ==
    /\ Complete(c, "password_reset", NewPassword(accounts[links[c.link].user]))
    /\ UNCHANGED awaiting

ActivateInvitation(c) ==
    /\ Complete(c, "invitation",
                [NewPassword(accounts[links[c.link].user]) EXCEPT
                    !.passwordLogin = FALSE, !.emailLogin = TRUE])
    /\ UNCHANGED awaiting

Activate(c) ==
    LET u == links[c.link].user
    IN  /\ Complete(c, "activation",
                    [NewPassword(accounts[u]) EXCEPT !.status = "active"])
        /\ awaiting' = IF links'[c.link].state = "consumed"
                       THEN awaiting \ {u} ELSE awaiting

-----------------------------------------------------------------------------
(* What the other services do to an account.                                 *)

ActiveAdmin(account) == account.status = "active" /\ account.admin

(* update_user; other stands for scopes and for the changes of Google        *)
(* identities and passkeys, which advance the version too.                   *)
UpdateUser(u, status, admin, emailLogin, other) ==
    LET current == accounts[u]
        updated == [current EXCEPT !.status = status, !.admin = admin,
                                   !.emailLogin = emailLogin]
        changed == updated # current \/ other
    IN  /\ current.status # "absent" /\ current.version < MaxVersion
        /\ status \in {current.status, "disabled"}
             \cup (IF current.status = "disabled" THEN {"active"} ELSE {})
        /\ ActiveAdmin(current) /\ ~ActiveAdmin(updated) =>
               \E v \in User \ {u} : ActiveAdmin(accounts[v])
        /\ accounts' = [accounts EXCEPT
               ![u] = IF changed
                      THEN [updated EXCEPT !.version = current.version + 1]
                      ELSE updated]
        /\ live' = IF status = "disabled" THEN live \ {u} ELSE live
        /\ UNCHANGED <<clock, links, mail, checked, history>>

(* reset_password of _service_users.py, for an account of any status.        *)
AdministratorReset(u) ==
    /\ accounts[u].status # "absent" /\ accounts[u].version < MaxVersion
    /\ accounts' = [accounts EXCEPT
                       ![u] = [NewPassword(accounts[u]) EXCEPT !.mustChange = TRUE]]
    /\ live' = live \ {u}
    /\ UNCHANGED <<clock, links, mail, checked, history>>

(* login and change_password with the account's password.                    *)
PasswordLogin(u, now) ==
    /\ accounts[u].passwordLogin /\ CanAuthenticate(accounts[u], now)
    /\ accounts' = [accounts EXCEPT ![u].lockedUntil = 0]
    /\ live' = live \cup {u}
    /\ UNCHANGED <<clock, links, mail, checked, history>>

ChangePassword(u, now) ==
    /\ u \in live /\ accounts[u].version < MaxVersion
    /\ accounts[u].passwordLogin /\ CanAuthenticate(accounts[u], now)
    /\ accounts' = [accounts EXCEPT ![u] = NewPassword(@)]
    /\ UNCHANGED <<clock, links, live, mail, checked, history>>

(* The wrong password that reaches the limit.                                *)
LockAccount(u, now) ==
    /\ accounts[u].version < MaxVersion
    /\ accounts[u].passwordLogin /\ CanAuthenticate(accounts[u], now)
    /\ accounts' = [accounts EXCEPT ![u].lockedUntil = now + Lockout,
                                    ![u].version = @ + 1]
    /\ live' = live \ {u}
    /\ UNCHANGED <<clock, links, mail, checked, history>>

(* A request whose password hashing takes longer than MaxLag is not modelled. *)
Tick ==
    /\ clock < MaxTime
    /\ clock' = clock + 1
    /\ checked' = {c \in checked : clock' <= c.now + MaxLag}
    /\ UNCHANGED <<accounts, links, live, mail, history>>

-----------------------------------------------------------------------------
NoAccount == [PendingAccount(FALSE) EXCEPT !.status = "absent"]

(* By create_user, with its temporary password; or in use for some time.     *)
NewUser ==
    [NoAccount EXCEPT !.status = "active", !.passwordLogin = TRUE, !.mustChange = TRUE]

Established == [NewUser EXCEPT !.mustChange = FALSE, !.emailLogin = TRUE]

Init ==
    /\ clock = 0
    /\ accounts \in [User -> {NoAccount, NewUser, Established}]
    /\ links = [l \in LinkId |-> Absent]
    /\ live = {}
    /\ dispatch = [l \in LinkId |-> "none"]
    /\ job = [l \in LinkId |-> "none"]
    /\ attempts = [l \in LinkId |-> 0]
    /\ inbox = {}
    /\ checked = {}
    /\ awaiting = {}
    /\ issuedTo = [l \in LinkId |-> NoAccount]

AccountStep(u) ==
    \/ \E status \in {"pending", "active", "disabled"},
          admin \in BOOLEAN, emailLogin \in BOOLEAN, other \in BOOLEAN :
             UpdateUser(u, status, admin, emailLogin, other)
    \/ AdministratorReset(u)
    \/ \E now \in Nows :
          PasswordLogin(u, now) \/ ChangePassword(u, now) \/ LockAccount(u, now)

IssueStep(u, l) ==
    \E now \in Nows :
        \/ \E purpose \in Purpose : Request(u, purpose, l, now)
        \/ \E admin \in BOOLEAN : Provision(u, admin, l, now)

MailStep(l) ==
    \/ Dispatch(l)
    \/ WebCrash(l)
    \/ Send(l)
    \/ Redeliver(l)
    \/ \E now \in Nows :
          DispatchFailed(l, now) \/ MarkDelivered(l, now) \/ MarkDeliveryFailed(l, now)

ConsumeStep(l) ==
    \/ \E now \in Nows :
          \/ \E ownBrowser \in BOOLEAN : Login(l, now, ownBrowser)
          \/ Check(l, now)
    \/ \E c \in checked :
          c.link = l /\ (ResetPassword(c) \/ ActivateInvitation(c) \/ Activate(c))

Next ==
    \/ Tick
    \/ \E u \in User : AccountStep(u) \/ \E l \in LinkId : IssueStep(u, l)
    \/ \E l \in LinkId : MailStep(l) \/ ConsumeStep(l)

Spec == Init /\ [][Next]_vars

(* The worker takes what is queued and finishes the job it has.              *)
Fairness ==
    \A l \in LinkId :
        /\ WF_vars(Send(l))
        /\ WF_vars(\E now \in Nows : MarkDelivered(l, now))
        /\ WF_vars(\E now \in Nows : MarkDeliveryFailed(l, now))

FairSpec == Spec /\ Fairness

-----------------------------------------------------------------------------
(* Properties.                                                               *)

(* Every row and every history holds values of its type.                     *)
TypeOK ==
    /\ clock \in Nat
    /\ accounts \in [User -> Account]
    /\ links \in [LinkId -> Link]
    /\ live \subseteq User
    /\ dispatch \in [LinkId -> {"none", "ready", "raised", "failed", "done"}]
    /\ job \in [LinkId -> {"none", "queued", "accepted", "refused", "finished",
                          "failed"}]
    /\ attempts \in [LinkId -> Nat]
    /\ inbox \subseteq LinkId
    /\ checked \subseteq [link : LinkId, now : Nat]
    /\ awaiting \subseteq User
    /\ issuedTo \in [LinkId -> Account]

(* The active link of an account and purpose is one whose mail the provider  *)
(* accepted, and the newest of those delivered, however late an older one's  *)
(* delivery is confirmed, fails or comes again: two are never active.        *)
NewestWins ==
    \A l \in Row : links[l].state = "active" =>
        /\ links[l].delivered /\ l \in inbox
        /\ \A m \in Rivals(l) :
              links[m].delivered => links[m].generation < links[l].generation

(* Link states only move forward; a closed link is never usable again, and   *)
(* what retention deletes has expired.                                       *)
LinkAdvances(l) ==
    LET from == links[l].state
        to == links'[l].state
    IN  \/ to = from
        \/ from = "none" /\ to = "pending"
        \/ from = "pending" /\ to \in {"active", "failed", "revoked"}
        \/ from = "active" /\ to \in {"consumed", "revoked"}
        \/ to = "deleted" /\ Expired(links[l], clock)

LinksOnlyAdvance == [][\A l \in LinkId : LinkAdvances(l)]_links

(* A request, a failed mail or a superseded delivery does not cost the user  *)
(* the working link: it is revoked only when a newer one becomes active in   *)
(* the same step, or when it is outdated.                                    *)
ReplacementKeepsOld ==
    [][\A l \in Row :
          links[l].state = "active" /\ links'[l].state = "revoked" =>
            \/ \E m \in Rivals(l) :
                   links[m].state = "pending" /\ links'[m].state = "active"
            \/ ~StillGood(l, clock)]_links

(* No window holds more requests of an account than the limit, although the  *)
(* requests' clocks disagree and retention deletes rows they should count.   *)
RequestsLimited ==
    \A u \in User, purpose \in Purpose, t \in 0..clock :
        Cardinality({l \in LinkId :
                        /\ links[l].user = u /\ links[l].purpose = purpose
                        /\ links[l].created \in t..(t + Window)}) <= MaxRequests

(* A link is consumed only on the account as it was when the link was issued: *)
(* a password replaced, a status, role or login method changed or a lock in   *)
(* between, the time the handler spends hashing included, makes it useless,   *)
(* and so does a change that was undone.  Only the lock's time may differ.    *)
Settled(account) == [account EXCEPT !.lockedUntil = 0]

ConsumptionIsFenced ==
    [][\A l \in Row :
          links[l].state # "consumed" /\ links'[l].state = "consumed" =>
            Settled(accounts[links[l].user]) = Settled(issuedTo[l])]_links

(* Whichever way it was opened, a session belongs to an account that may     *)
(* authenticate: none to a pending, disabled or locked one.                  *)
NoSessionWithoutStanding ==
    \A u \in live : CanAuthenticate(accounts[u], clock)

(* When the provider has accepted the newest link's mail and the worker has  *)
(* confirmed it, the link works for as long as nothing outdates it, unless   *)
(* it had been reported failed before: by a dispatch that raised although    *)
(* the queue took the job, or by an earlier attempt of this job.  Then       *)
(* mark_delivered leaves it failed, and the mail carries a dead link.        *)
ReportedFailed(l) ==
    links[l].state = "failed" /\ (dispatch[l] = "failed" \/ attempts[l] > 1)

AcceptedLinkWorks ==
    \A l \in Row :
        job[l] = "finished" /\ IsLatest(l) /\ StillGood(l, clock) =>
            links[l].state \in {"active", "consumed"} \/ ReportedFailed(l)

(* A pending account becomes active by its activation link and no other way. *)
PendingUntilActivated == \A u \in awaiting : accounts[u].status # "active"

(* Every mail the queue has leaves its link decided, unless the queue gives  *)
(* the job up.                                                               *)
EveryMailSettles ==
    \A l \in LinkId :
        job[l] = "queued" ~> links[l].state # "pending" \/ attempts[l] = MaxAttempts

=============================================================================
