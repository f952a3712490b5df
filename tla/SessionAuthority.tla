-------------------------- MODULE SessionAuthority --------------------------
(***************************************************************************)
(* What the session services promise, without tokens, rows or clocks.      *)
(* An authentication opens a family; the family stays open until a logout, *)
(* a replay, an expired refresh, a password replacement, a revocation or   *)
(* the loss of its account's right to authenticate closes it; closed is    *)
(* final.  An account barred from authenticating has nothing open.         *)
(*                                                                         *)
(* revoke_user_sessions promises less: the families that were open when it *)
(* began may end, and one that a refresh carries on meanwhile may not.     *)
(***************************************************************************)
EXTENDS FiniteSets

CONSTANTS
    User, Family,
    SomeRevoked   \* whether revoke_user_sessions is among the services

VARIABLES
    barred,   \* accounts that may not authenticate now
    open,     \* the open families of each account
    closed    \* families that have ended

vars == <<barred, open, closed>>

Unborn == Family \ (closed \cup UNION {open[u] : u \in User})

(* Observation may begin when some families are open already.               *)
Init ==
    /\ barred = {}
    /\ open \in [User -> SUBSET Family]
    /\ \A u, v \in User : u # v => open[u] \cap open[v] = {}
    /\ closed = {}

(* An authentication of an account in good standing.                        *)
Open(u, f) ==
    /\ u \notin barred
    /\ f \in Unborn
    /\ open' = [open EXCEPT ![u] = @ \cup {f}]
    /\ UNCHANGED <<barred, closed>>

(* One family ends, or all of them.                                         *)
Close(u, F) ==
    /\ F \in {{f} : f \in open[u]} \cup {open[u]}
    /\ open' = [open EXCEPT ![u] = @ \ F]
    /\ closed' = closed \cup F
    /\ UNCHANGED barred

(* revoke_user_sessions: any of an account's families end.                   *)
CloseSome(u, F) ==
    /\ SomeRevoked
    /\ open' = [open EXCEPT ![u] = @ \ F]
    /\ closed' = closed \cup F
    /\ UNCHANGED barred

(* A password change: one new family takes the place of all the others.     *)
Exchange(u, f) ==
    /\ u \notin barred
    /\ f \in Unborn
    /\ open' = [open EXCEPT ![u] = {f}]
    /\ closed' = closed \cup open[u]
    /\ UNCHANGED barred

(* Losing the right to authenticate closes everything in the same step.     *)
Bar(u) ==
    /\ barred' = barred \cup {u}
    /\ open' = [open EXCEPT ![u] = {}]
    /\ closed' = closed \cup open[u]

(* The right returns: a lock expires (perhaps several at once), a password  *)
(* is reset, an account is enabled.  Nothing reopens.                       *)
Unbar ==
    /\ barred' \in SUBSET barred
    /\ UNCHANGED <<open, closed>>

Next ==
    \/ Unbar
    \/ \E u \in User :
          \/ Bar(u)
          \/ \E F \in SUBSET open[u] : Close(u, F) \/ CloseSome(u, F)
          \/ \E f \in Family : Open(u, f) \/ Exchange(u, f)

Spec == Init /\ [][Next]_vars

-----------------------------------------------------------------------------
(* No family is open for an account that is barred, or open and closed at   *)
(* once, or open for two accounts.                                          *)
AuthorityIsSound ==
    /\ \A u \in barred : open[u] = {}
    /\ \A u \in User : open[u] \cap closed = {}
    /\ \A u, v \in User : u # v => open[u] \cap open[v] = {}

=============================================================================
