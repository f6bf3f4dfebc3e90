------------------------------ MODULE Accounts ------------------------------
(***************************************************************************)
(* One account: its password, its sessions (chains of single-use refresh   *)
(* tokens) and its emailed one-time links.                                 *)
(*                                                                         *)
(* A request is split wherever it lets go of what it has read: between the *)
(* comparison of a password and the insertion of a token, between the      *)
(* revocation of a token and the insertion of its heir, between the        *)
(* snapshot of a bulk UPDATE and the commit of its transaction.  A bulk    *)
(* UPDATE touches the rows of its snapshot that are still as it found      *)
(* them; rows inserted meanwhile escape it.                                *)
(*                                                                         *)
(* Passwords are version numbers.  Access tokens, which live for fifteen   *)
(* minutes whatever happens to the session, are left out.                  *)
(***************************************************************************)
EXTENDS Naturals, FiniteSets

CONSTANTS
  Requests,      \* requests that may be served at the same time
  Tokens,        \* bound: the refresh tokens that can be issued
  Links,         \* bound: the links that can be issued
  MaxPassword,   \* bound: how often the password is set
  None

ASSUME AccountsAssumption ==
  /\ MaxPassword \in Nat \ {0}
  /\ None \notin Tokens \cup Links

VARIABLES
  kind,       \* "email", or "telegram": no usable password, no mailbox
  password,   \* the version in password_hash; 0 before the account exists
  verified,   \* email_verified_at is set
  token,      \* [Tokens -> {"new", "live", "expired", "revoked"}]
  link,       \* [Links -> {"new", "unused", "expired", "used"}]
  purpose,    \* [Links -> Purposes]
  mailbox,    \* the links that have arrived
  request,    \* [Requests -> record]: what each request is about to do
  root,       \* history: the first token of the session of a token
  proof,      \* history: the password version a token's session proved
  raced,      \* history: the tokens of sessions that a password change raced with
  overlaps    \* history: pairs of links whose transactions overlapped

tokenVars == <<token, root, proof, raced>>
linkVars  == <<link, purpose, mailbox, overlaps>>
userVars  == <<kind, password, verified>>
vars == <<userVars, tokenVars, linkVars, request>>

Purposes == {"verify_email", "reset_password"}

\* A request: where it is, what it has read and what it does afterwards.
\*   "create"  the Telegram user was not found      "mint"   about to insert a token
\*   "issue"   about to issue a link                "scan"   the UPDATE of old links runs
\*   "mail"    about to send the link               "change" the password was compared
\*   "sweep"   the UPDATE of refresh tokens runs, the user's row is locked
Idle == [at |-> "idle", root |-> None, proof |-> 0, raced |-> FALSE, purpose |-> "none",
         link |-> None, tokens |-> {}, links |-> {}, then |-> "idle"]

Go(r, rec) == request' = [request EXCEPT ![r] = rec]

Live == {t \in Tokens : token[t] = "live"}
Issued(p) == {l \in Links : link[l] # "new" /\ purpose[l] = p}
Unused(p) == {l \in Links : link[l] = "unused" /\ purpose[l] = p}
At(a) == {r \in Requests : request[r].at = a}

\* consumeAccountToken holds the row of its link until the commit.
Locked(l) == \E r \in At("sweep") : request[r].link = l
\* Mutant: two transactions may set the password side by side.
UserRowShared == TRUE
UserRowFree == At("sweep") = {}

\* Mutant: the sessions are left alone.
RevokeNothing(T) == token
RevokeAll(T) == [t \in Tokens |-> IF t \in T \cap Live THEN "revoked" ELSE token[t]]
-----------------------------------------------------------------------------
Init ==
  /\ kind \in {"email", "telegram"}
  /\ password = 0 /\ verified = FALSE
  /\ token = [t \in Tokens |-> "new"]
  /\ link = [l \in Links |-> "new"] /\ purpose = [l \in Links |-> "verify_email"]
  /\ mailbox = {} /\ overlaps = {}
  /\ request = [r \in Requests |-> Idle]
  /\ root = [t \in Tokens |-> None] /\ proof = [t \in Tokens |-> 0] /\ raced = {}
-----------------------------------------------------------------------------
(* Signing up and in *)

\* A taken address is refused by the unique constraint.
Register(r) ==
  /\ request[r] = Idle
  /\ kind = "email" /\ password = 0
  /\ password' = 1
  /\ Go(r, [Idle EXCEPT !.at = "issue", !.purpose = "verify_email", !.then = "mint",
                        !.proof = 1])
  /\ UNCHANGED <<kind, verified, tokenVars, linkVars>>

\* The hash is read and compared; a wrong password ends the request.
Login(r) ==
  /\ request[r] = Idle
  /\ kind = "email" /\ password > 0
  /\ Go(r, [Idle EXCEPT !.at = "mint", !.proof = password])
  /\ UNCHANGED <<userVars, tokenVars, linkVars>>

TelegramLogin(r) ==
  /\ request[r] = Idle
  /\ kind = "telegram"
  /\ Go(r, [Idle EXCEPT !.at = IF password = 0 THEN "create" ELSE "mint", !.proof = 1])
  /\ UNCHANGED <<userVars, tokenVars, linkVars>>

\* The upsert: of several first logins all get the one account.
CreateTelegram(r) ==
  /\ request[r].at = "create"
  /\ password' = 1
  /\ Go(r, [request[r] EXCEPT !.at = "mint"])
  /\ UNCHANGED <<kind, verified, tokenVars, linkVars>>

\* generateAuthResponse: the end of every request that signs somebody in.
Mint(r, t) ==
  /\ request[r].at = "mint"
  /\ token[t] = "new"
  /\ token' = [token EXCEPT ![t] = "live"]
  /\ root' = [root EXCEPT ![t] = IF request[r].root = None THEN t ELSE request[r].root]
  /\ proof' = [proof EXCEPT ![t] = request[r].proof]
  /\ raced' = IF request[r].raced THEN raced \cup {t} ELSE raced
  /\ Go(r, Idle)
  /\ UNCHANGED <<userVars, linkVars>>

\* Mutant: the UPDATE does not ask for revoked_at IS NULL.
ConsumeAgain(t) ==
  /\ token[t] \in {"live", "revoked"}
  /\ token' = [token EXCEPT ![t] = "revoked"]

\* Consume revokes a token that is live at that moment, in one statement.
Consume(t) ==
  /\ token[t] = "live"
  /\ token' = [token EXCEPT ![t] = "revoked"]

Refresh(r, t) ==
  /\ request[r] = Idle
  /\ Consume(t)
  /\ Go(r, [Idle EXCEPT !.at = "mint", !.root = root[t], !.proof = proof[t],
                        !.raced = t \in raced])
  /\ UNCHANGED <<userVars, root, proof, raced, linkVars>>

Logout(t) ==
  /\ Consume(t)
  /\ UNCHANGED <<userVars, root, proof, raced, linkVars, request>>
-----------------------------------------------------------------------------
(* Emailed links *)

ResendVerification(r) ==
  /\ request[r] = Idle
  /\ password > 0 /\ ~verified
  /\ Go(r, [Idle EXCEPT !.at = "issue", !.purpose = "verify_email"])
  /\ UNCHANGED <<userVars, tokenVars, linkVars>>

ForgotPassword(r) ==
  /\ request[r] = Idle
  /\ password > 0
  /\ Go(r, [Idle EXCEPT !.at = "issue", !.purpose = "reset_password"])
  /\ UNCHANGED <<userVars, tokenVars, linkVars>>

\* createAccountToken, first statement: the links that its UPDATE can see.
ScanLinks(r) ==
  /\ request[r].at = "issue"
  /\ Go(r, [request[r] EXCEPT !.at = "scan", !.links = Issued(request[r].purpose)])
  /\ UNCHANGED <<userVars, tokenVars, linkVars>>

\* Those of them that are replaced; the mutant replaces none.
ReplacedNone(r) == {}
Replaced(r) == request[r].links \cap Unused(request[r].purpose)

\* The old links are marked used, once nobody holds one of them, the new one
\* is inserted, and the transaction commits.
IssueLink(r, l) ==
  /\ request[r].at = "scan"
  /\ link[l] = "new"
  /\ \A o \in Replaced(r) : ~Locked(o)
  /\ link' = [o \in Links |->
                IF o = l THEN "unused"
                ELSE IF o \in Replaced(r) THEN "used"
                ELSE link[o]]
  /\ purpose' = [purpose EXCEPT ![l] = request[r].purpose]
  /\ overlaps' = overlaps \cup
       {{l, o} : o \in Issued(request[r].purpose) \ request[r].links}
  /\ Go(r, [Idle EXCEPT !.at = "mail", !.link = l, !.then = request[r].then,
                        !.proof = request[r].proof, !.raced = request[r].raced])
  /\ UNCHANGED <<userVars, tokenVars, mailbox>>

\* A mail may get lost, and an address made up for a Telegram user reaches
\* nobody; either way the request goes on.
SendLink(r) ==
  /\ request[r].at = "mail"
  /\ mailbox' \in {mailbox, mailbox \cup IF kind = "email" THEN {request[r].link} ELSE {}}
  /\ Go(r, IF request[r].then = "idle" THEN Idle
           ELSE [request[r] EXCEPT !.at = "mint", !.link = None, !.then = "idle"])
  /\ UNCHANGED <<userVars, tokenVars, link, purpose, overlaps>>

Redeemable(l, p) ==
  /\ l \in mailbox /\ link[l] = "unused" /\ purpose[l] = p
  /\ ~Locked(l)

VerifyEmail(l) ==
  /\ Redeemable(l, "verify_email") /\ UserRowFree
  /\ link' = [link EXCEPT ![l] = "used"]
  /\ verified' = TRUE
  /\ UNCHANGED <<kind, password, tokenVars, purpose, mailbox, overlaps, request>>
-----------------------------------------------------------------------------
(* Passwords *)

\* The signed-in user's current password is compared.
CheckPassword(r) ==
  /\ request[r] = Idle
  /\ kind = "email" /\ password > 0
  /\ Go(r, [Idle EXCEPT !.at = "change", !.proof = password])
  /\ UNCHANGED <<userVars, tokenVars, linkVars>>

\* The transaction locks the user's row with setPassword and its last UPDATE,
\* revokeAllForUser, takes its snapshot.
SweepForChange(r) ==
  /\ request[r].at = "change" /\ UserRowFree
  /\ password < MaxPassword
  /\ Go(r, [request[r] EXCEPT !.at = "sweep", !.tokens = Live])
  /\ UNCHANGED <<userVars, tokenVars, linkVars>>

SweepForReset(r, l) ==
  /\ request[r] = Idle
  /\ Redeemable(l, "reset_password") /\ UserRowFree
  /\ password < MaxPassword
  /\ Go(r, [Idle EXCEPT !.at = "sweep", !.link = l, !.tokens = Live])
  /\ UNCHANGED <<userVars, tokenVars, linkVars>>

\* The commit of either: new password, old tokens revoked.  Only the history
\* notes which sessions slipped past: those with a token inserted since the
\* snapshot, and those about to insert one.
SetPassword(r) ==
  /\ password' = password + 1
  /\ token' = RevokeAll(request[r].tokens)
  /\ raced' = raced \cup (Live \ request[r].tokens)
  /\ UNCHANGED <<kind, root, proof, purpose, mailbox, overlaps>>

Raced(s) == IF request[s].at \in {"issue", "scan", "mail", "mint"}
            THEN [request[s] EXCEPT !.raced = TRUE] ELSE request[s]

\* The caller gets a token of the new password.
CommitChange(r) ==
  /\ request[r].at = "sweep" /\ request[r].link = None
  /\ SetPassword(r)
  /\ request' = [s \in Requests |->
       IF s = r THEN [Idle EXCEPT !.at = "mint", !.proof = password + 1] ELSE Raced(s)]
  /\ UNCHANGED <<verified, link>>

CommitReset(r) ==
  /\ request[r].at = "sweep" /\ request[r].link # None
  /\ SetPassword(r)
  /\ link' = [link EXCEPT ![request[r].link] = "used"]
  /\ verified' = TRUE
  /\ request' = [s \in Requests |-> IF s = r THEN Idle ELSE Raced(s)]
-----------------------------------------------------------------------------
(* Time and failure *)

ExpireToken(t) ==
  /\ token[t] = "live"
  /\ token' = [token EXCEPT ![t] = "expired"]
  /\ UNCHANGED <<userVars, root, proof, raced, linkVars, request>>

ExpireLink(l) ==
  /\ link[l] = "unused" /\ ~Locked(l)
  /\ link' = [link EXCEPT ![l] = "expired"]
  /\ UNCHANGED <<userVars, tokenVars, purpose, mailbox, overlaps, request>>

\* A request ends early: a lost client, an error, a crash.  An open transaction
\* is rolled back.
Abort(r) ==
  /\ request[r] # Idle
  /\ Go(r, Idle)
  /\ UNCHANGED <<userVars, tokenVars, linkVars>>
-----------------------------------------------------------------------------
SignIn(r) ==
  \/ Register(r) \/ Login(r) \/ TelegramLogin(r) \/ CreateTelegram(r)
  \/ \E t \in Tokens : Mint(r, t) \/ Refresh(r, t)

Mailing(r) ==
  \/ ResendVerification(r) \/ ForgotPassword(r) \/ ScanLinks(r) \/ SendLink(r)
  \/ \E l \in Links : IssueLink(r, l)

Passwords(r) ==
  \/ CheckPassword(r) \/ SweepForChange(r) \/ CommitChange(r) \/ CommitReset(r)
  \/ \E l \in Links : SweepForReset(r, l)

Next ==
  \/ \E r \in Requests : SignIn(r) \/ Mailing(r) \/ Passwords(r) \/ Abort(r)
  \/ \E t \in Tokens : Logout(t) \/ ExpireToken(t)
  \/ \E l \in Links : VerifyEmail(l) \/ ExpireLink(l)

Spec == Init /\ [][Next]_vars
-----------------------------------------------------------------------------
Records ==
  [at : {"idle", "create", "mint", "issue", "scan", "mail", "change", "sweep"},
   root : Tokens \cup {None}, proof : 0..MaxPassword, raced : BOOLEAN,
   purpose : Purposes \cup {"none"}, link : Links \cup {None},
   tokens : SUBSET Tokens, links : SUBSET Links, then : {"idle", "mint"}]

TypeOK ==
  /\ kind \in {"email", "telegram"} /\ password \in 0..MaxPassword /\ verified \in BOOLEAN
  /\ token \in [Tokens -> {"new", "live", "expired", "revoked"}]
  /\ link \in [Links -> {"new", "unused", "expired", "used"}]
  /\ purpose \in [Links -> Purposes] /\ mailbox \subseteq Links
  /\ root \in [Tokens -> Tokens \cup {None}] /\ proof \in [Tokens -> 0..MaxPassword]
  /\ raced \subseteq Tokens
  /\ request \in [Requests -> Records]

Carriers(s) == {t \in Live : root[t] = s} \cup {r \in At("mint") : request[r].root = s}

\* A refresh token is redeemed once, even by concurrent requests: at any time a
\* session has one live token, or one request that will insert it, or neither.
OneTokenPerSession == \A s \in Tokens : \A a, b \in Carriers(s) : a = b

\* A new link replaces the older ones: two of a kind are good at the same time
\* only if the transactions that issued them overlapped.
OnlyOverlappingLinksCoexist ==
  \A p \in Purposes : \A l, o \in Unused(p) : l # o => {l, o} \in overlaps

\* Setting a password signs out every session that had proved an older one,
\* except those that had a request under way at that moment: their new token is
\* inserted after the sweep, although ChangePassword says "every other session".
OldSessionsEnd ==
  \A t \in Live \ raced : proof[t] = password
=============================================================================
