------------------------------ MODULE Accounts ------------------------------
(***************************************************************************)
(* One account: signing in, the lock after repeated failures, changing and *)
(* resetting the password, and the sessions that come and go with it.      *)
(*                                                                         *)
(* verify_credentials decides on the row it read first and then updates it *)
(* statement by statement; no transaction joins the two.  A password is a  *)
(* number: 0 is the one the account started with and n the n-th one its    *)
(* owner chose.  The email address is verified.                            *)
(***************************************************************************)
EXTENDS Naturals, FiniteSets

CONSTANTS
    Logins,       \* slots for concurrent sign-ins
    Writers,      \* slots for concurrent resets, changes and disables
    Sessions,     \* sessions that may be opened
    NoSession,    \* a writer that keeps no session
    MAX_ATTEMPTS, \* max_failed_login_attempts
    MaxPasswords, \* bound: passwords chosen after the first
    MaxExpiries   \* bound: locks that run out

ASSUME AccountsAssumption ==
    /\ NoSession \notin Sessions /\ IsFiniteSet(Logins)
    /\ MAX_ATTEMPTS \in Nat \ {0} /\ MaxPasswords \in Nat /\ MaxExpiries \in Nat

VARIABLES
    user,       \* the users row
    login,      \* login[l]: where sign-in l is, and the password it was given
    writer,     \* writer[w]: the reset, change or disable under way
    session,    \* session[s]: its state, and the password it was opened with
    newest,     \* observer: the password the owner chose last
    guesses,    \* observer: wrong passwords counted in this window
    stale,      \* observer: a sign-in cleared a window other than the one it read
    expiries    \* locks that have run out

vars == <<user, login, writer, session, newest, guesses, stale, expiries>>

-----------------------------------------------------------------------------
(* State                                                                   *)

Passwords == 0..MaxPasswords

UserRecord == [password : Passwords,
               outdated : BOOLEAN,  \* hashed with old Argon2 parameters
               failed : Nat,
               lock : {"none", "locked", "expired"},
               status : {"active", "disabled"}]
Login == [pc : {"free", "clear", "failed", "upgrade", "succeeded", "session"},
          password : Passwords]
Writer == [pc : {"free", "set", "revoke"}, op : {"reset", "change", "disable"},
           keep : Sessions \cup {NoSession}]

(* `spared': "overtaken" when the password it was opened with had been     *)
(* replaced, or the account disabled, before it was opened; "left" when    *)
(* the request that should have ended it broke off.                        *)
Session == [state : {"none", "live", "revoked"}, proof : Passwords,
            spared : {"no", "overtaken", "left"}]

TypeOK ==
    /\ user \in UserRecord
    /\ login \in [Logins -> Login]
    /\ writer \in [Writers -> Writer]
    /\ session \in [Sessions -> Session]
    /\ newest \in Passwords
    /\ guesses \in Nat
    /\ stale \in BOOLEAN
    /\ expiries \in 0..MaxExpiries

NoLogin == [pc |-> "free", password |-> 0]
NoWriter == [pc |-> "free", op |-> "reset", keep |-> NoSession]

Init ==
    /\ user \in [password : {0}, outdated : BOOLEAN, failed : {0},
                 lock : {"none"}, status : {"active"}]
    /\ login = [l \in Logins |-> NoLogin]
    /\ writer = [w \in Writers |-> NoWriter]
    /\ session = [s \in Sessions |->
                    [state |-> "none", proof |-> 0, spared |-> "no"]]
    /\ newest = 0
    /\ guesses = 0
    /\ stale = FALSE
    /\ expiries = 0

-----------------------------------------------------------------------------
(* Statements of UserRepository                                            *)

reset_login_failures == user' = [user EXCEPT !.failed = 0, !.lock = "none"]

record_login_success == user' = [user EXCEPT !.failed = 0, !.lock = "none"]

(* Mutant: the threshold is one too high.                                  *)
record_login_failure_late ==
    user' = [user EXCEPT
               !.failed = @ + 1,
               !.lock = IF user.failed + 1 > MAX_ATTEMPTS THEN "locked" ELSE @]

record_login_failure ==
    user' = [user EXCEPT
               !.failed = @ + 1,
               !.lock = IF user.failed + 1 >= MAX_ATTEMPTS THEN "locked" ELSE @]

update_password(p) ==
    user' = [user EXCEPT !.password = p, !.outdated = FALSE,
                         !.failed = 0, !.lock = "none"]

replace_password_hash(p) ==
    user' = [user EXCEPT !.password = p, !.outdated = FALSE]

-----------------------------------------------------------------------------
(* AuthService::login                                                      *)

GoTo(l, to) == login' = [login EXCEPT ![l].pc = to]
LoginAt(l, at) == login[l].pc = at

(* verify_credentials up to its first write: the row is read, and a lock   *)
(* or a disabled account ends the attempt.                                 *)
verify_credentials(l, p) ==
    LET wrong == p # user.password IN
    /\ LoginAt(l, "free")
    /\ user.lock # "locked" /\ user.status # "disabled"
    /\ login' = [login EXCEPT ![l] =
         [password |-> p,
          pc |-> CASE wrong /\ user.lock = "expired" -> "clear"
                   [] wrong /\ user.lock = "none"    -> "failed"
                   [] ~wrong /\ user.outdated        -> "upgrade"
                   [] ~wrong /\ ~user.outdated       -> "succeeded"]]
    /\ UNCHANGED <<user, writer, session, newest, guesses, stale, expiries>>

(* "A leftover lock that has already expired must not count".              *)
ClearExpired(l) ==
    /\ LoginAt(l, "clear")
    /\ reset_login_failures
    /\ stale' = (stale \/ user.lock # "expired")
    /\ GoTo(l, "failed")
    /\ UNCHANGED <<writer, session, newest, guesses, expiries>>

RecordFailure(l) ==
    /\ LoginAt(l, "failed")
    /\ record_login_failure
    /\ guesses' = guesses + 1
    /\ login' = [login EXCEPT ![l] = NoLogin]
    /\ UNCHANGED <<writer, session, newest, stale, expiries>>

(* upgrade_password_hash; a failure is only logged.                        *)
upgrade_password_hash(l) ==
    /\ LoginAt(l, "upgrade")
    /\ replace_password_hash(login[l].password) \/ UNCHANGED user
    /\ GoTo(l, "succeeded")
    /\ UNCHANGED <<writer, session, newest, guesses, stale, expiries>>

RecordSuccess(l) ==
    /\ LoginAt(l, "succeeded")
    /\ record_login_success
    /\ guesses' = 0
    /\ GoTo(l, "session")
    /\ UNCHANGED <<writer, session, newest, stale, expiries>>

start_session(l, s) ==
    /\ LoginAt(l, "session")
    /\ session[s].state = "none"
    /\ session' = [session EXCEPT ![s] =
         [state |-> "live", proof |-> login[l].password,
          spared |-> IF login[l].password # newest \/ user.status = "disabled"
                     THEN "overtaken" ELSE "no"]]
    /\ login' = [login EXCEPT ![l] = NoLogin]
    /\ UNCHANGED <<user, writer, newest, guesses, stale, expiries>>

-----------------------------------------------------------------------------
(* Password reset and change, and disabling                                *)

WriterAt(w, at, ops) == writer[w].pc = at /\ writer[w].op \in ops
Start(w, op, keep) ==
    /\ writer[w].pc = "free"
    /\ writer' = [writer EXCEPT ![w] = [pc |-> "set", op |-> op, keep |-> keep]]
    /\ UNCHANGED <<user, login, session, newest, guesses, stale, expiries>>

(* reset_password once `consume' has returned the account.                 *)
reset_password(w) == Start(w, "reset", NoSession)

(* The change_password handler: an active session, and the current         *)
(* password checked against the row read.                                  *)
change_password(w, s) ==
    /\ session[s].state = "live" /\ user.status # "disabled"
    /\ Start(w, "change", s)

(* set_account_status, authorized.                                         *)
BeginDisable(w) == Start(w, "disable", NoSession)

(* The session a change is made from has now proved the new password.      *)
SetPassword(w) ==
    LET keep == writer[w].keep IN
    /\ WriterAt(w, "set", {"reset", "change"})
    /\ newest < MaxPasswords
    /\ update_password(newest + 1)
    /\ newest' = newest + 1
    /\ guesses' = 0
    /\ session' = [s \in Sessions |->
                     IF s = keep THEN [session[s] EXCEPT !.proof = newest + 1]
                     ELSE session[s]]
    /\ writer' = [writer EXCEPT ![w].pc = "revoke"]
    /\ UNCHANGED <<login, stale, expiries>>

Disable(w) ==
    /\ WriterAt(w, "set", {"disable"})
    /\ user' = [user EXCEPT !.status = "disabled"]
    /\ writer' = [writer EXCEPT ![w].pc = "revoke"]
    /\ UNCHANGED <<login, session, newest, guesses, stale, expiries>>

(* Mutant: only a reset or a disable ends sessions.                        *)
RevokeSessions_unchanged(w) ==
    /\ WriterAt(w, "revoke", {"reset", "change", "disable"})
    /\ session' = [s \in Sessions |->
                     IF session[s].state = "live" /\ writer[w].op # "change"
                     THEN [state |-> "revoked", proof |-> 0, spared |-> "no"]
                     ELSE session[s]]
    /\ writer' = [writer EXCEPT ![w] = NoWriter]
    /\ UNCHANGED <<user, login, newest, guesses, stale, expiries>>

(* revoke_all_for_user, or revoke_others for a change.                     *)
RevokeSessions(w) ==
    /\ WriterAt(w, "revoke", {"reset", "change", "disable"})
    /\ session' = [s \in Sessions |->
                     IF session[s].state = "live" /\ s # writer[w].keep
                     THEN [state |-> "revoked", proof |-> 0, spared |-> "no"]
                     ELSE session[s]]
    /\ writer' = [writer EXCEPT ![w] = NoWriter]
    /\ UNCHANGED <<user, login, newest, guesses, stale, expiries>>

(* A statement fails, or the process stops.  The password or the status    *)
(* that is already written stays, and nobody revokes the sessions.         *)
BreakOff(w) ==
    /\ writer[w].pc # "free"
    /\ session' = [s \in Sessions |->
                     IF /\ writer[w].pc = "revoke"
                        /\ session[s].state = "live" /\ s # writer[w].keep
                     THEN [session[s] EXCEPT !.spared = "left"]
                     ELSE session[s]]
    /\ writer' = [writer EXCEPT ![w] = NoWriter]
    /\ UNCHANGED <<user, login, newest, guesses, stale, expiries>>

Enable ==
    /\ user.status = "disabled"
    /\ user' = [user EXCEPT !.status = "active"]
    /\ UNCHANGED <<login, writer, session, newest, guesses, stale, expiries>>

unlock_account ==
    /\ user.lock # "none"
    /\ reset_login_failures
    /\ guesses' = 0
    /\ UNCHANGED <<login, writer, session, newest, stale, expiries>>

(* locked_until passes.                                                    *)
LockExpires ==
    /\ user.lock = "locked" /\ expiries < MaxExpiries
    /\ user' = [user EXCEPT !.lock = "expired"]
    /\ guesses' = 0
    /\ expiries' = expiries + 1
    /\ UNCHANGED <<login, writer, session, newest, stale>>

-----------------------------------------------------------------------------
SignIn(l) ==
    \/ \E p \in Passwords : verify_credentials(l, p)
    \/ ClearExpired(l)
    \/ RecordFailure(l)
    \/ upgrade_password_hash(l)
    \/ RecordSuccess(l)
    \/ \E s \in Sessions : start_session(l, s)

Write(w) ==
    \/ reset_password(w)
    \/ \E s \in Sessions : change_password(w, s)
    \/ BeginDisable(w)
    \/ SetPassword(w)
    \/ Disable(w)
    \/ RevokeSessions(w)
    \/ BreakOff(w)

Next ==
    \/ \E l \in Logins : SignIn(l)
    \/ \E w \in Writers : Write(w)
    \/ Enable
    \/ unlock_account
    \/ LockExpires

Spec == Init /\ [][Next]_vars

-----------------------------------------------------------------------------
(* Properties                                                              *)

Live == {s \in Sessions : session[s].state = "live"}
Settled == \A w \in Writers : writer[w].pc # "revoke"
Current(s) == session[s].proof = newest /\ user.status # "disabled"

(* A new password, or a disabled account, ends every session there was:    *)
(* once the revocation is through, what is still live was opened by a      *)
(* sign-in that was already past its check, or outlives a request that     *)
(* broke off between its two statements.  Concurrent changes from two      *)
(* sessions do not spare each other.                                       *)
OldSessionsEnd ==
    Settled => \A s \in Live : session[s].spared = "no" => Current(s)

(* "Every session is revoked, because a reset is the recovery path for a   *)
(* possibly compromised account", and disabling an account "signs it out   *)
(* everywhere": once a request has revoked the sessions, none lives on an  *)
(* older password or a disabled account, whenever its sign-in began.  The  *)
(* code does not keep this.                                                *)
SignedOutEverywhere ==
    Settled => \A s \in Live : session[s].spared # "left" => Current(s)

(* A password is not replaced, nor an account disabled, without the        *)
(* sessions ending: a request that has stopped has not left them behind.   *)
(* The code does not keep this: the two statements share no transaction.   *)
NobodyIsLeftBehind ==
    Settled => \A s \in Live : session[s].spared # "overtaken" => Current(s)

(* max_failed_login_attempts wrong passwords in one window lock the        *)
(* account, however many sign-ins overlap, and it stays locked until the   *)
(* lock runs out or is lifted by a success, a new password or an           *)
(* administrator.  The exception is a sign-in that read an expired lock    *)
(* and clears the window that another one has opened since.                *)
LockedAtThreshold ==
    guesses >= MAX_ATTEMPTS /\ ~stale => user.lock = "locked"

(* The failure "applies `lock_until' once `max_attempts' is reached",      *)
(* whatever another sign-in clears.  The code does not keep this.          *)
AlwaysLockedAtThreshold == guesses >= MAX_ATTEMPTS => user.lock = "locked"

(* The stored hash is that of the password chosen last; re-encoding a hash *)
(* does not change which password opens the account.                       *)
NewestPasswordRules == user.password = newest
=============================================================================
