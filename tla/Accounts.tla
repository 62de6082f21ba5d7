------------------------------ MODULE Accounts ------------------------------
(***************************************************************************)
(* Accounts, the tokens mailed to their owners and the sessions they open  *)
(* (api/main.py): register, verify-email and its resend, password reset    *)
(* and its confirmation, login, logout, and the look-up of a session.      *)
(*                                                                         *)
(* A request to a limited endpoint passes RateLimit first, whose           *)
(* transaction is committed before the handler's begins.  A token, a user  *)
(* and a session are named after the request that creates them.  Mail is   *)
(* sent within the transaction that stores its token.                      *)
(***************************************************************************)
EXTENDS RateLimit, Sequences

CONSTANTS
  Registers, Resends, Resets, Logins,    (* limited requests               *)
  Verifies, Confirms, Logouts, Visits,   (* the others                     *)
  FirstUsers,      (* users who registered before, at time 0,              *)
  FirstVerified,   (* those among them who verified and logged in          *)
  Nobody,
  Email, Username, (* of every user                                        *)
  About,           (* the login name, email, token or session a request    *)
                   (* is about                                             *)
  Password,        (* the password a login presents                        *)
  Scripts,         (* the sets of requests that clients may send           *)
  VerificationTTL, ResetTTL, SessionTTL

Requests == Limited \cup Verifies \cup Confirms \cup Logouts \cup Visits
Users == FirstUsers \cup Registers
VerificationTokens == Users \cup Resends
Tokens == VerificationTokens \cup Resets
Sessions == FirstVerified \cup Logins
Passwords == Users \cup Confirms

ASSUME RequestsAssumption ==
  /\ Limited = Registers \cup Resends \cup Resets \cup Logins
  /\ Resets \cap (Registers \cup Resends) = {} /\ Registers \cap Resends = {}
  /\ FirstUsers \cap Requests = {}
  /\ FirstVerified \subseteq FirstUsers
  /\ Nobody \notin Users
  /\ Scripts \subseteq SUBSET Requests

(* Users of the database respect its unique constraints.                   *)
ASSUME FirstUsersAssumption ==
  \A u, v \in FirstUsers : u # v => Email[u] # Email[v] /\ Username[u] # Username[v]

ASSUME TimesAssumption ==
  VerificationTTL \in Nat /\ ResetTTL \in Nat /\ SessionTTL \in Nat

VARIABLES
  sent,       (* the requests that clients send                            *)
  delivery,   (* is_email_delivery_configured()                            *)
  users,      (* committed rows, "none" before there is one                *)
  password,
  tokens,
  sessions,
  outbox,     (* the tokens mailed so far, the newest last                 *)
  pc,
  user,       (* the user a handler has loaded or inserted                 *)
  due,        (* when the token or session it inserts expires              *)
  replaced    (* the tokens a resend marks as used                         *)

rows == <<users, password, tokens, sessions>>
handler == <<user, due, replaced>>
accountVars == <<sent, delivery, rows, outbox, pc, handler>>
vars == <<limiterVars, accountVars>>

NoToken == [owner |-> Nobody, expires |-> 0, used |-> FALSE]
NoSession == [owner |-> Nobody, expires |-> 0]

Init ==
  /\ LimiterInit
  /\ sent \in Scripts
  /\ delivery \in BOOLEAN
  /\ users = [u \in Users |-> IF u \in FirstVerified THEN "verified"
                              ELSE IF u \in FirstUsers THEN "unverified" ELSE "none"]
  /\ password = [u \in Users |-> u]
  /\ tokens = [t \in Tokens |->
       IF t \notin FirstUsers THEN NoToken
       ELSE [owner |-> t, expires |-> VerificationTTL, used |-> t \in FirstVerified]]
  /\ sessions = [s \in Sessions |->
       IF s \notin FirstVerified THEN NoSession
       ELSE [owner |-> s, expires |-> SessionTTL]]
  /\ outbox = <<>>
  /\ pc = [r \in Requests |-> "start"]
  /\ user = [r \in Requests |-> Nobody]
  /\ due = [r \in Requests |-> 0]
  /\ replaced = [r \in Requests |-> {}]

Exists(u) == users[u] # "none"
Active(t) == /\ tokens[t].owner # Nobody
             /\ ~ tokens[t].used
             /\ tokens[t].expires > clock

(* A limited handler runs once its attempt is recorded.                    *)
Ready(r) ==
  /\ r \in sent /\ pc[r] = "start"
  /\ r \in Limited => gate[r] = "admitted"

GoTo(r, place) == pc' = [pc EXCEPT ![r] = place]

(* Ends that change nothing in the database.                               *)
Answer(r, place) ==
  /\ GoTo(r, place)
  /\ user' = [user EXCEPT ![r] = Nobody]
  /\ due' = [due EXCEPT ![r] = 0]
  /\ replaced' = [replaced EXCEPT ![r] = {}]
  /\ UNCHANGED <<sent, delivery, rows, outbox>>

Load(r, u, place) ==
  /\ GoTo(r, place)
  /\ user' = [user EXCEPT ![r] = u]
  /\ UNCHANGED <<sent, delivery, rows, outbox, due, replaced>>

(* make_auth_token; it is mailed next if delivery is configured.           *)
InsertToken(r, u, ttl) ==
  /\ GoTo(r, IF delivery THEN "mail" ELSE "commit")
  /\ user' = [user EXCEPT ![r] = u]
  /\ due' = [due EXCEPT ![r] = clock + ttl]
  /\ UNCHANGED <<sent, delivery, rows, outbox>>

-----------------------------------------------------------------------------
(* register_user                                                           *)

Same(u, v) == Email[u] = Email[v] \/ Username[u] = Username[v]
Conflict(r) == \E u \in Users : Exists(u) /\ Same(u, r)
NeverConflicts(r) == FALSE

FindExisting(r) ==
  /\ Ready(r)
  /\ IF Conflict(r) THEN Answer(r, "refused") ELSE Load(r, Nobody, "insert")

(* The unique keys make the flush wait for another register that has       *)
(* inserted one of them, and raise IntegrityError if it commits.           *)
KeysUnheld(r) == ~ \E q \in Registers \ {r} : pc[q] \in {"mail", "commit"} /\ Same(q, r)
ViolatesUnique(r) == Conflict(r)

InsertUser(r) ==
  /\ pc[r] = "insert" /\ KeysUnheld(r)
  /\ IF ViolatesUnique(r) THEN Answer(r, "refused")
     ELSE InsertToken(r, r, VerificationTTL) /\ UNCHANGED replaced

-----------------------------------------------------------------------------
(* resend_verification_email                                               *)

WithEmail(email) == {u \in Users : Exists(u) /\ Email[u] = email}

LookUp(r) ==
  /\ Ready(r)
  /\ \/ /\ \A u \in WithEmail(About[r]) : users[u] = "verified"
        /\ Answer(r, "done")
     \/ \E u \in WithEmail(About[r]) :
          users[u] = "unverified" /\ Load(r, u, "replace")

(* The UPDATE sees the rows committed when it starts; it waits for those   *)
(* that another transaction is updating, and passes over those that were   *)
(* used meanwhile.                                                         *)
StartUpdate(r) ==
  /\ pc[r] = "replace"
  /\ replaced' = [replaced EXCEPT ![r] =
       {t \in VerificationTokens : tokens[t].owner = user[r] /\ Active(t)}]
  /\ GoTo(r, "update")
  /\ UNCHANGED <<sent, delivery, rows, outbox, user, due>>

RowUnheld(t) == ~ \E q \in Resends : pc[q] \in {"mail", "commit"} /\ t \in replaced[q]

ReplaceToken(r) ==
  /\ pc[r] = "update"
  /\ \A t \in replaced[r] : RowUnheld(t)
  /\ replaced' = [replaced EXCEPT ![r] = {t \in @ : ~ tokens[t].used}]
  /\ InsertToken(r, user[r], VerificationTTL)

-----------------------------------------------------------------------------
(* request_password_reset                                                  *)

RequestReset(r) ==
  /\ Ready(r)
  /\ \/ WithEmail(About[r]) = {} /\ Answer(r, "done")
     \/ \E u \in WithEmail(About[r]) :
          InsertToken(r, u, ResetTTL) /\ UNCHANGED replaced

-----------------------------------------------------------------------------
(* What the three have in common: mail, then commit.                       *)

MailSent(r) ==
  /\ pc[r] = "mail"
  /\ outbox' = Append(outbox, r)
  /\ GoTo(r, "commit")
  /\ UNCHANGED <<sent, delivery, rows, handler>>

MarkUsed(S) == [t \in Tokens |-> IF t \in S THEN [tokens[t] EXCEPT !.used = TRUE]
                                 ELSE tokens[t]]

(* EmailDeliveryError; a mail whose answer was lost may have gone out.     *)
MailFailsKeepingUpdate(r) ==
  /\ pc[r] = "mail"
  /\ outbox' = outbox
  /\ tokens' = MarkUsed(replaced[r])
  /\ GoTo(r, "failed")
  /\ UNCHANGED <<sent, delivery, users, password, sessions, handler>>

MailFails(r) ==
  /\ pc[r] = "mail"
  /\ outbox' \in {outbox, Append(outbox, r)}
  /\ user' = [user EXCEPT ![r] = Nobody]
  /\ due' = [due EXCEPT ![r] = 0]
  /\ replaced' = [replaced EXCEPT ![r] = {}]
  /\ GoTo(r, "failed")
  /\ UNCHANGED <<sent, delivery, rows>>

CommitToken(r) ==
  /\ pc[r] = "commit"
  /\ tokens' = [MarkUsed(replaced[r]) EXCEPT ![r] =
       [owner |-> user[r], expires |-> due[r], used |-> FALSE]]
  /\ users' = IF r \in Registers THEN [users EXCEPT ![r] = "unverified"] ELSE users
  /\ user' = [user EXCEPT ![r] = Nobody]
  /\ due' = [due EXCEPT ![r] = 0]
  /\ replaced' = [replaced EXCEPT ![r] = {}]
  /\ GoTo(r, "done")
  /\ UNCHANGED <<sent, delivery, password, sessions, outbox>>

-----------------------------------------------------------------------------
(* verify_email and confirm_password_reset: resolve_active_auth_token,     *)
(* then the rest.                                                          *)

Purpose(r) == IF r \in Verifies THEN VerificationTokens ELSE Resets

ResolveToken(r) ==
  /\ Ready(r)
  /\ IF About[r] \in Purpose(r) /\ Active(About[r])
       THEN Load(r, tokens[About[r]].owner, "use")
       ELSE Answer(r, "refused")

UseToken(r) ==
  /\ pc[r] = "use" /\ RowUnheld(About[r])
  /\ tokens' = MarkUsed({About[r]})
  /\ users' = [users EXCEPT ![user[r]] = "verified"]
  /\ password' = IF r \in Confirms THEN [password EXCEPT ![user[r]] = r] ELSE password
  /\ user' = [user EXCEPT ![r] = Nobody]
  /\ GoTo(r, "done")
  /\ UNCHANGED <<sent, delivery, sessions, outbox, due, replaced>>

-----------------------------------------------------------------------------
(* login_user, logout_user, get_current_user                               *)

Named(login) == {u \in Users : Exists(u) /\ login \in {Email[u], Username[u]}}

Authenticate(r) ==
  /\ Ready(r)
  /\ \/ Named(About[r]) = {} /\ Answer(r, "refused")
     \/ \E u \in Named(About[r]) :
          IF password[u] # Password[r] \/ users[u] # "verified"
            THEN Answer(r, "refused")
            ELSE /\ GoTo(r, "open")
                 /\ user' = [user EXCEPT ![r] = u]
                 /\ due' = [due EXCEPT ![r] = clock + SessionTTL]
                 /\ UNCHANGED <<sent, delivery, rows, outbox, replaced>>

OpenSession(r) ==
  /\ pc[r] = "open"
  /\ sessions' = [sessions EXCEPT ![r] = [owner |-> user[r], expires |-> due[r]]]
  /\ user' = [user EXCEPT ![r] = Nobody]
  /\ due' = [due EXCEPT ![r] = 0]
  /\ GoTo(r, "done")
  /\ UNCHANGED <<sent, delivery, users, password, tokens, outbox, replaced>>

EndSession(r, place) ==
  /\ sessions' = [sessions EXCEPT ![About[r]] = NoSession]
  /\ GoTo(r, place)
  /\ UNCHANGED <<sent, delivery, users, password, tokens, outbox, handler>>

Logout(r) == Ready(r) /\ EndSession(r, "done")

Visit(r) ==
  /\ Ready(r)
  /\ IF sessions[About[r]].owner # Nobody /\ sessions[About[r]].expires > clock
       THEN Answer(r, "done")
       ELSE EndSession(r, "refused")

-----------------------------------------------------------------------------
Finished == {"done", "refused", "failed"}

(* A statement fails or the process dies: the transaction is rolled back.  *)
Fail(r) ==
  /\ Ready(r) \/ pc[r] \notin {"start"} \cup Finished
  /\ Answer(r, "failed")

Handle(r) ==
  \/ r \in Registers /\ (FindExisting(r) \/ InsertUser(r))
  \/ r \in Resends /\ (LookUp(r) \/ StartUpdate(r) \/ ReplaceToken(r))
  \/ r \in Resets /\ RequestReset(r)
  \/ MailSent(r) \/ MailFails(r) \/ CommitToken(r)
  \/ r \in Verifies \cup Confirms /\ (ResolveToken(r) \/ UseToken(r))
  \/ r \in Logins /\ (Authenticate(r) \/ OpenSession(r))
  \/ r \in Logouts /\ Logout(r)
  \/ r \in Visits /\ Visit(r)

Answered(r) ==
  \/ pc[r] \in Finished
  \/ r \in Limited /\ gate[r] \in {"limited", "dropped"}

(* Every request sent is answered, and the clock has run out.              *)
Quiet ==
  /\ clock = MaxTime
  /\ \A r \in sent : Answered(r)
  /\ UNCHANGED vars

PassGates == \E r \in sent \cap Limited : PassGate(r) /\ UNCHANGED accountVars
Handles == \E r \in sent : Handle(r) /\ UNCHANGED limiterVars

Next ==
  \/ PassGates
  \/ Handles
  \/ Tick /\ UNCHANGED accountVars
  \/ \E r \in sent \cap Limited : Drop(r) /\ UNCHANGED accountVars
  \/ \E r \in sent : Fail(r) /\ UNCHANGED limiterVars
  \/ Quiet

Spec == Init /\ [][Next]_vars

(* The server's threads go on: some request takes its next step while one  *)
(* can.                                                                    *)
FairSpec == Spec /\ WF_vars(PassGates \/ Handles)

-----------------------------------------------------------------------------
(* Types, also of the limiter; what a handler holds, it holds within its   *)
(* transaction.                                                            *)
Places == {"start", "insert", "replace", "update", "mail", "commit", "use",
           "open"} \cup Finished
TypeOK ==
  /\ LimiterTypeOK
  /\ sent \in Scripts
  /\ delivery \in BOOLEAN
  /\ users \in [Users -> {"none", "unverified", "verified"}]
  /\ password \in [Users -> Passwords]
  /\ tokens \in [Tokens -> [owner : Users \cup {Nobody}, expires : Nat, used : BOOLEAN]]
  /\ sessions \in [Sessions -> [owner : Users \cup {Nobody}, expires : Nat]]
  /\ outbox \in Seq(Tokens)
  /\ pc \in [Requests -> Places]
  /\ user \in [Requests -> Users \cup {Nobody}]
  /\ due \in [Requests -> Nat]
  /\ replaced \in [Requests -> SUBSET VerificationTokens]
  /\ \A r \in Requests :
       /\ pc[r] \in {"mail", "commit"} => r \in Registers \cup Resends \cup Resets
       /\ pc[r] \notin {"update", "mail", "commit"} => replaced[r] = {}
       /\ pc[r] \in {"start", "insert"} \cup Finished => user[r] = Nobody

(* No two accounts share an email or a username, whoever registers at the  *)
(* same time.                                                              *)
OneAccountPerName ==
  \A u, v \in Users : Exists(u) /\ Exists(v) /\ u # v => ~ Same(u, v)

(* An account is never without a way in: until it is verified, it has a    *)
(* verification token that is not used up.  With delivery configured, such *)
(* a token is the last one mailed of those that are stored: neither a mail *)
(* that fails nor resends that overlap take away the newest link.          *)
Usable(u) == {t \in VerificationTokens : tokens[t].owner = u /\ ~ tokens[t].used}
Newest(u, i) ==
  /\ outbox[i] \in VerificationTokens /\ tokens[outbox[i]].owner = u
  /\ \A j \in DOMAIN outbox :
       j > i => outbox[j] \notin VerificationTokens \/ tokens[outbox[j]].owner # u
NewestLinkWorks ==
  \A u \in Users : users[u] = "unverified" =>
    /\ Usable(u) # {}
    /\ delivery /\ u \in Registers => \E i \in DOMAIN outbox : tokens[outbox[i]].owner = u
    /\ \A i \in DOMAIN outbox : Newest(u, i) => outbox[i] \in Usable(u)

(* Requests wait for rows that others delete or update, for the two locks  *)
(* of their buckets and for unique keys, and hold some of these meanwhile; *)
(* still, one of those that are not answered can always go on.             *)
Waits(r) ==
  \/ /\ r \in Limited /\ gate[r] = "purge"
     /\ \E q \in Limited : deleted[q] \cap Old(r) # {}
  \/ /\ r \in Limited /\ gate[r] = "lock"
     /\ ~ \E k \in Keys : IsNext(r, k) /\ KeyFree(k)
  \/ pc[r] = "insert" /\ ~ KeysUnheld(r)
  \/ pc[r] = "update" /\ \E t \in replaced[r] : ~ RowUnheld(t)
  \/ pc[r] = "use" /\ ~ RowUnheld(About[r])
SomeoneGoesOn ==
  (\E r \in sent : ~ Answered(r)) => \E r \in sent : ~ Answered(r) /\ ~ Waits(r)

(* Every request that is sent is answered: waiting for locks, for rows and *)
(* for unique keys never becomes waiting for each other.                   *)
EveryoneAnswered == <>(\A r \in sent : Answered(r))
=============================================================================
