--------------------------- MODULE OneTimeTokens ----------------------------
(***************************************************************************)
(* The one-time links of one account: password reset and verification of   *)
(* its address.                                                            *)
(*                                                                         *)
(* A link is issued in a transaction of two statements, which first uses   *)
(* up the outstanding links of the same purpose.  PostgreSQL runs it at    *)
(* READ COMMITTED: the UPDATE finds its rows in a snapshot taken when it   *)
(* starts, waits for rows that another transaction holds and rechecks      *)
(* those alone.                                                            *)
(*                                                                         *)
(* A link is redeemed in statements of their own: it is used up first, and *)
(* the account is changed after that.                                      *)
(***************************************************************************)
EXTENDS Naturals, FiniteSets

CONSTANTS
    Tokens,     \* links that may be issued
    Issuers,    \* slots for concurrent requests for a link
    Nobody      \* a row that no transaction holds

ASSUME TokensAssumption == Nobody \notin Issuers

VARIABLES
    token,      \* token[t]: the one_time_tokens row
    holder,     \* holder[t]: the transaction that has updated the row
    issuer,     \* issuer[i]: the request for a link under way
    status,     \* users.status of the account
    verified,   \* email_verified_at is set
    request,    \* request[t]: the request that has used up t
    redeemed,   \* observer: redeemed[t][p], how often t was accepted as a p
    overlapped, \* observer: purposes for which two requests were interleaved
    superseded  \* observer: unused links that a committed request had seen

accountVars == <<status, verified, request>>
observers == <<redeemed, overlapped, superseded>>
vars == <<token, holder, issuer, accountVars, observers>>

-----------------------------------------------------------------------------
(* State                                                                   *)

Purposes == {"email_verification", "password_reset"}
TokenRow == [state : {"none", "live", "expired", "consumed"}, purpose : Purposes]
Issuer == [pc : {"free", "begun", "snapshot", "invalidated"},
           purpose : Purposes, seen : SUBSET Tokens]
Idle == [pc |-> "free", purpose |-> "password_reset", seen |-> {}]

TypeOK ==
    /\ token \in [Tokens -> TokenRow]
    /\ holder \in [Tokens -> Issuers \cup {Nobody}]
    /\ issuer \in [Issuers -> Issuer]
    /\ status \in {"pending", "active", "disabled"}
    /\ verified \in BOOLEAN
    /\ request \in [Tokens -> {"none", "change", "done", "broken"}]
    /\ redeemed \in [Tokens -> [Purposes -> Nat]]
    /\ overlapped \in SUBSET Purposes
    /\ superseded \in SUBSET Tokens

(* The account is registered and its first link not yet issued.            *)
Init ==
    /\ token = [t \in Tokens |-> [state |-> "none", purpose |-> "password_reset"]]
    /\ holder = [t \in Tokens |-> Nobody]
    /\ issuer = [i \in Issuers |-> Idle]
    /\ status = "pending"
    /\ verified = FALSE
    /\ request = [t \in Tokens |-> "none"]
    /\ redeemed = [t \in Tokens |-> [p \in Purposes |-> 0]]
    /\ overlapped = {}
    /\ superseded = {}

(* Rows with consumed_at IS NULL; an expired one is among them.            *)
Unconsumed(t) == token[t].state \in {"live", "expired"}

-----------------------------------------------------------------------------
(* issue_one_time_token                                                    *)

Begin(i, p) ==
    /\ issuer[i].pc = "free"
    /\ issuer' = [issuer EXCEPT ![i] =
                    [pc |-> "begun", purpose |-> p, seen |-> {}]]
    /\ UNCHANGED <<token, holder, accountVars, observers>>

request_password_reset(i) ==
    status # "disabled" /\ Begin(i, "password_reset")

(* Also what register does once the account is committed.                  *)
resend_verification(i) ==
    ~verified /\ status # "disabled" /\ Begin(i, "email_verification")

(* invalidate_outstanding: the statement's snapshot.                       *)
Outstanding(i) ==
    /\ issuer[i].pc = "begun"
    /\ issuer' = [issuer EXCEPT
                    ![i].pc = "snapshot",
                    ![i].seen = {t \in Tokens :
                       Unconsumed(t) /\ token[t].purpose = issuer[i].purpose}]
    /\ UNCHANGED <<token, holder, accountVars, observers>>

(* Mutant: the UPDATE matches no row.                                      *)
invalidate_nothing(i) ==
    /\ issuer[i].pc = "snapshot"
    /\ issuer' = [issuer EXCEPT ![i].pc = "invalidated"]
    /\ UNCHANGED <<token, holder, accountVars, observers>>

(* Mutant: rows that another transaction holds are skipped, not waited for. *)
invalidate_outstanding_skip_locked(i) ==
    LET free == {t \in issuer[i].seen : holder[t] = Nobody} IN
    /\ issuer[i].pc = "snapshot"
    /\ holder' = [t \in Tokens |->
                    IF t \in free /\ Unconsumed(t) THEN i ELSE holder[t]]
    /\ issuer' = [issuer EXCEPT ![i].pc = "invalidated"]
    /\ UNCHANGED <<token, accountVars, observers>>

(* ... and its rows, once nobody else holds them.                          *)
invalidate_outstanding(i) ==
    LET seen == issuer[i].seen IN
    /\ issuer[i].pc = "snapshot"
    /\ \A t \in seen : holder[t] = Nobody
    /\ holder' = [t \in Tokens |->
                    IF t \in seen /\ Unconsumed(t) THEN i ELSE holder[t]]
    /\ issuer' = [issuer EXCEPT ![i].pc = "invalidated"]
    /\ UNCHANGED <<token, accountVars, observers>>

Released(i) == holder' = [t \in Tokens |->
                            IF holder[t] = i THEN Nobody ELSE holder[t]]

(* Another request of the same purpose no longer sees a new link.          *)
Overlaps(i) == \E o \in Issuers \ {i} :
    /\ issuer[o].pc \in {"snapshot", "invalidated"}
    /\ issuer[o].purpose = issuer[i].purpose

(* The new link, and the commit of both statements.                        *)
issue(i, new) ==
    /\ issuer[i].pc = "invalidated"
    /\ token[new].state = "none"
    /\ token' = [t \in Tokens |->
         IF t = new THEN [state |-> "live", purpose |-> issuer[i].purpose]
         ELSE IF holder[t] = i THEN [token[t] EXCEPT !.state = "consumed"]
         ELSE token[t]]
    /\ Released(i)
    /\ overlapped' = IF Overlaps(i) THEN overlapped \cup {issuer[i].purpose}
                     ELSE overlapped
    /\ superseded' = superseded \cup {t \in issuer[i].seen : request[t] = "none"}
    /\ issuer' = [issuer EXCEPT ![i] = Idle]
    /\ UNCHANGED <<accountVars, redeemed>>

(* A failed statement or a lost connection.                                *)
Rollback(i) ==
    /\ issuer[i].pc # "free"
    /\ Released(i)
    /\ issuer' = [issuer EXCEPT ![i] = Idle]
    /\ UNCHANGED <<token, accountVars, observers>>

-----------------------------------------------------------------------------
(* Redeeming                                                               *)

(* Mutant: the purpose is not compared.                                    *)
consume_any(t, p) ==
    /\ token[t].state = "live" /\ holder[t] = Nobody
    /\ token' = [token EXCEPT ![t].state = "consumed"]
    /\ redeemed' = [redeemed EXCEPT ![t][p] = @ + 1]

(* OneTimeTokenRepository::consume, one UPDATE.                            *)
consume(t, p) ==
    /\ token[t].state = "live" /\ token[t].purpose = p
    /\ holder[t] = Nobody
    /\ token' = [token EXCEPT ![t].state = "consumed"]
    /\ redeemed' = [redeemed EXCEPT ![t][p] = @ + 1]

Redeem(t, p) ==
    /\ consume(t, p)
    /\ request' = [request EXCEPT ![t] = "change"]
    /\ UNCHANGED <<holder, issuer, status, verified, overlapped, superseded>>

(* reset_password and verify_email up to their first await.                *)
reset_password(t) == Redeem(t, "password_reset")
verify_email(t) == Redeem(t, "email_verification")

Goes(t, p, to) ==
    /\ request[t] = "change" /\ token[t].purpose = p
    /\ request' = [request EXCEPT ![t] = to]
    /\ UNCHANGED <<token, holder, issuer, observers>>

(* The password it replaces, the lockout it clears and the sessions it     *)
(* revokes are in module Accounts.                                         *)
update_password(t) ==
    /\ Goes(t, "password_reset", "done")
    /\ UNCHANGED <<status, verified>>

(* Mutant: verifying the address activates the account.                    *)
Activated_always(old) == "active"

(* `CASE WHEN status = 'pending'': only a new account becomes active.      *)
Activated(old) == IF old = "pending" THEN "active" ELSE old

mark_email_verified(t) ==
    /\ Goes(t, "email_verification", "done")
    /\ verified' = TRUE
    /\ status' = Activated(status)

(* Hashing or the UPDATE fails, or the process stops: the link stays used  *)
(* and nobody takes the request up again.                                  *)
BreakOff(t) ==
    /\ \E p \in Purposes : Goes(t, p, "broken")
    /\ UNCHANGED <<status, verified>>

Expire(t) ==
    /\ token[t].state = "live"
    /\ token' = [token EXCEPT ![t].state = "expired"]
    /\ UNCHANGED <<holder, issuer, accountVars, observers>>

(* An administrator's set_account_status.                                  *)
SetStatus(s) ==
    /\ status # s
    /\ status' = s
    /\ UNCHANGED <<token, holder, issuer, verified, request, observers>>

-----------------------------------------------------------------------------
Request(i) ==
    \/ request_password_reset(i)
    \/ resend_verification(i)
    \/ Outstanding(i)
    \/ invalidate_outstanding(i)
    \/ \E t \in Tokens : issue(i, t)
    \/ Rollback(i)

Next ==
    \/ \E i \in Issuers : Request(i)
    \/ \E t \in Tokens : reset_password(t)
    \/ \E t \in Tokens : verify_email(t)
    \/ \E t \in Tokens : update_password(t)
    \/ \E t \in Tokens : mark_email_verified(t)
    \/ \E t \in Tokens : BreakOff(t)
    \/ \E t \in Tokens : Expire(t)
    \/ \E s \in {"active", "disabled"} : SetStatus(s)

Spec == Init /\ [][Next]_vars

-----------------------------------------------------------------------------
(* Properties                                                              *)

(* "exactly one caller sees the user id": a link is accepted at most once, *)
(* for the purpose it was issued for, whatever requests for another link   *)
(* are doing to its row.                                                   *)
RedeemedOnce ==
    \A t \in Tokens : \A p \in Purposes :
        redeemed[t][p] <= IF p = token[t].purpose THEN 1 ELSE 0

(* "so at most one link is live per account and purpose", unless two       *)
(* requests for a link were interleaved: neither transaction then sees the *)
(* link of the other.                                                      *)
OneLiveLink ==
    \A p \in Purposes \ overlapped :
        Cardinality({t \in Tokens : token[t].state = "live"
                                    /\ token[t].purpose = p}) <= 1

(* The claim without the exception.  It does not hold: of two requests     *)
(* whose snapshots come before either commits, each inserts a link that    *)
(* the other has not seen.                                                 *)
AtMostOneLiveLink ==
    \A p \in Purposes :
        Cardinality({t \in Tokens : token[t].state = "live"
                                    /\ token[t].purpose = p}) <= 1

(* A link that was outstanding when its replacement was asked for is never *)
(* accepted again once the replacement is out, though the requests of the  *)
(* account overlap, one of them is rolled back while the other waits for   *)
(* the rows it held, and the link is presented all the while.              *)
SupersededStaysDead ==
    \A t \in superseded : \A p \in Purposes : redeemed[t][p] = 0

(* A disabled account is opened again by an administrator only, never by a *)
(* verification link that was issued, or even used up, before it was       *)
(* disabled.                                                               *)
DisabledStaysDisabled ==
    [][status = "disabled" => status' = "disabled" \/ SetStatus("active")]_vars
=============================================================================
