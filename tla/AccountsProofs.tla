--------------------------- MODULE AccountsProofs ---------------------------
(***************************************************************************)
(* What holds of an account for any number of requests, tokens, links and  *)
(* passwords.                                                              *)
(***************************************************************************)
EXTENDS Accounts, TLAPS

Ats == {"idle", "create", "mint", "issue", "scan", "mail", "change", "sweep"}

\* The records that requests go through, field by field.
LEMMA RecordsTyped ==
  ASSUME NEW q \in Records
  PROVE  /\ q.at \in Ats /\ q.root \in Tokens \cup {None} /\ q.proof \in 0..MaxPassword
         /\ q.raced \in BOOLEAN /\ q.purpose \in Purposes \cup {"none"}
         /\ q.link \in Links \cup {None} /\ q.tokens \subseteq Tokens
         /\ q.links \subseteq Links /\ q.then \in {"idle", "mint"}
         /\ \A a \in Ats : [q EXCEPT !.at = a] \in Records
         /\ \A b \in BOOLEAN : [q EXCEPT !.raced = b] \in Records
         /\ \A a \in Ats, T \in SUBSET Tokens : [q EXCEPT !.at = a, !.tokens = T] \in Records
         /\ \A a \in Ats, L \in SUBSET Links : [q EXCEPT !.at = a, !.links = L] \in Records
         /\ \A a \in Ats : [q EXCEPT !.at = a, !.link = None, !.then = "idle"] \in Records
<1>1. /\ q.at \in Ats /\ q.root \in Tokens \cup {None} /\ q.proof \in 0..MaxPassword
      /\ q.raced \in BOOLEAN /\ q.purpose \in Purposes \cup {"none"}
      /\ q.link \in Links \cup {None} /\ q.tokens \subseteq Tokens
      /\ q.links \subseteq Links /\ q.then \in {"idle", "mint"}
  BY DEF Records, Ats
<1>2. /\ \A a \in Ats : [q EXCEPT !.at = a] \in Records
      /\ \A b \in BOOLEAN : [q EXCEPT !.raced = b] \in Records
  BY DEF Records, Ats
<1>3. ASSUME NEW a \in Ats, NEW T \in SUBSET Tokens
      PROVE  [q EXCEPT !.at = a, !.tokens = T] \in Records
  BY DEF Records, Ats
<1>4. ASSUME NEW a \in Ats, NEW L \in SUBSET Links
      PROVE  [q EXCEPT !.at = a, !.links = L] \in Records
  BY DEF Records, Ats
<1>5. ASSUME NEW a \in Ats
      PROVE  [q EXCEPT !.at = a, !.link = None, !.then = "idle"] \in Records
  BY DEF Records, Ats
<1> QED BY <1>1, <1>2, <1>3, <1>4, <1>5

LEMMA IdleTyped == Idle \in Records
BY AccountsAssumption DEF Idle, Records

\* What an action writes for one request.
LEMMA GoTyped ==
  ASSUME TypeOK, NEW r \in Requests, NEW rec \in Records, Go(r, rec)
  PROVE  request' \in [Requests -> Records]
BY DEF TypeOK, Go

LEMMA GoHere ==
  ASSUME TypeOK, NEW r \in Requests, NEW rec, Go(r, rec)
  PROVE  request'[r] = rec
BY DEF TypeOK, Go

\* What a request knows where it is: which link it issues, that its account
\* exists, and that the user's row is its own.
Underway(r) ==
  /\ request[r].at \in {"issue", "scan"} => request[r].purpose \in Purposes
  /\ request[r].at = "mail" => request[r].link \in Links
  /\ request[r].at \in {"issue", "scan", "mail", "change", "sweep"} => password > 0
  /\ request[r].at \in {"change", "sweep"} => kind = "email"
  /\ request[r].at = "create" => kind = "telegram" /\ request[r].proof = 1
  /\ request[r].at = "sweep" =>
       password < MaxPassword /\ \A s \in Requests : request[s].at = "sweep" => s = r

Sound ==
  /\ TypeOK
  /\ \A r \in Requests : Underway(r)
  /\ mailbox # {} => password > 0 /\ kind = "email"
  /\ kind = "telegram" => password <= 1

\* The tables apart from the requests.
TablesOK ==
  /\ kind \in {"email", "telegram"} /\ password \in 0..MaxPassword /\ verified \in BOOLEAN
  /\ token \in [Tokens -> {"new", "live", "expired", "revoked"}]
  /\ link \in [Links -> {"new", "unused", "expired", "used"}]
  /\ purpose \in [Links -> Purposes] /\ mailbox \subseteq Links
  /\ root \in [Tokens -> Tokens \cup {None}] /\ proof \in [Tokens -> 0..MaxPassword]
  /\ raced \subseteq Tokens

LEMMA Split == TypeOK <=> TablesOK /\ request \in [Requests -> Records]
BY DEF TypeOK, TablesOK

LEMMA SplitNext == TypeOK' <=> TablesOK' /\ request' \in [Requests -> Records]
BY DEF TypeOK, TablesOK

\* Each step keeps the types.
LEMMA SignInTyped ==
  ASSUME TypeOK, NEW r \in Requests, SignIn(r)
  PROVE  TypeOK'
<1>0. request[r] \in Records /\ 1 \in 0..MaxPassword
  BY AccountsAssumption DEF TypeOK
<1>1. CASE Register(r)
  <2>1. [Idle EXCEPT !.at = "issue", !.purpose = "verify_email", !.then = "mint",
                     !.proof = 1] \in Records
    BY <1>0, AccountsAssumption DEF Idle, Records, Purposes
  <2>2. TablesOK'
    BY <1>0, <1>1 DEF Register, TypeOK, TablesOK, tokenVars, linkVars
  <2> QED BY <1>1, <2>1, <2>2, GoTyped, SplitNext DEF Register
<1>2. CASE Login(r)
  <2>1. [Idle EXCEPT !.at = "mint", !.proof = password] \in Records
    BY AccountsAssumption DEF Idle, Records, TypeOK
  <2>2. TablesOK'
    BY <1>2 DEF Login, TypeOK, TablesOK, userVars, tokenVars, linkVars
  <2> QED BY <1>2, <2>1, <2>2, GoTyped, SplitNext DEF Login
<1>3. CASE TelegramLogin(r)
  <2>1. \A a \in {"create", "mint"} : [Idle EXCEPT !.at = a, !.proof = 1] \in Records
    BY <1>0, AccountsAssumption DEF Idle, Records
  <2>2. TablesOK'
    BY <1>3 DEF TelegramLogin, TypeOK, TablesOK, userVars, tokenVars, linkVars
  <2> QED BY <1>3, <2>1, <2>2, GoTyped, SplitNext DEF TelegramLogin
<1>4. CASE CreateTelegram(r)
  <2>1. [request[r] EXCEPT !.at = "mint"] \in Records
    BY <1>0, RecordsTyped DEF Ats
  <2>2. TablesOK'
    BY <1>0, <1>4 DEF CreateTelegram, TypeOK, TablesOK, tokenVars, linkVars
  <2> QED BY <1>4, <2>1, <2>2, GoTyped, SplitNext DEF CreateTelegram
<1>5. ASSUME NEW t \in Tokens, Mint(r, t) PROVE TypeOK'
  <2>1. request[r].root \in Tokens \cup {None} /\ request[r].proof \in 0..MaxPassword
    BY <1>0, RecordsTyped
  <2>2. TablesOK'
    BY <1>5, <2>1 DEF Mint, TypeOK, TablesOK, userVars, linkVars
  <2> QED BY <1>5, <2>2, IdleTyped, GoTyped, SplitNext DEF Mint
<1>6. ASSUME NEW t \in Tokens, Refresh(r, t) PROVE TypeOK'
  <2>1. [Idle EXCEPT !.at = "mint", !.root = root[t], !.proof = proof[t],
                     !.raced = t \in raced] \in Records
    <3>1. root[t] \in Tokens \cup {None} /\ proof[t] \in 0..MaxPassword
      BY DEF TypeOK
    <3>2. (t \in raced) \in BOOLEAN
      OBVIOUS
    <3> QED BY <3>1, <3>2, AccountsAssumption DEF Idle, Records
  <2>2. TablesOK'
    BY <1>6 DEF Refresh, Consume, TypeOK, TablesOK, userVars, linkVars
  <2> QED BY <1>6, <2>1, <2>2, GoTyped, SplitNext DEF Refresh
<1> QED BY <1>1, <1>2, <1>3, <1>4, <1>5, <1>6 DEF SignIn

LEMMA MailingTyped ==
  ASSUME TypeOK, NEW r \in Requests, Underway(r), Mailing(r)
  PROVE  TypeOK'
<1>0. /\ request[r] \in Records
      /\ request[r].proof \in 0..MaxPassword /\ request[r].raced \in BOOLEAN
      /\ request[r].then \in {"idle", "mint"} /\ request[r].link \in Links \cup {None}
      /\ request[r].purpose \in Purposes \cup {"none"}
  BY RecordsTyped DEF TypeOK
<1>1. CASE ResendVerification(r) \/ ForgotPassword(r)
  <2>1. ASSUME NEW p \in Purposes PROVE [Idle EXCEPT !.at = "issue", !.purpose = p] \in Records
    BY IdleTyped DEF Records
  <2>2. TablesOK'
    BY <1>1 DEF ResendVerification, ForgotPassword, TypeOK, TablesOK, userVars, tokenVars, linkVars
  <2> QED BY <1>1, <2>1, <2>2, GoTyped, SplitNext DEF ResendVerification, ForgotPassword, Purposes
<1>2. CASE ScanLinks(r)
  <2>2. Issued(request[r].purpose) \in SUBSET Links
    BY DEF Issued
  <2>1. [request[r] EXCEPT !.at = "scan", !.links = Issued(request[r].purpose)] \in Records
    BY <1>0, <2>2 DEF Records
  <2>3. TablesOK'
    BY <1>2 DEF ScanLinks, TypeOK, TablesOK, userVars, tokenVars, linkVars
  <2> QED BY <1>2, <2>1, <2>2, <2>3, GoTyped, SplitNext DEF ScanLinks
<1>3. CASE SendLink(r)
  <2>1. [request[r] EXCEPT !.at = "mint", !.link = None, !.then = "idle"] \in Records
    BY <1>0 DEF Records
  <2>2. TablesOK'
    BY <1>0, <1>3 DEF SendLink, Underway, TypeOK, TablesOK, userVars, tokenVars
  <2> QED BY <1>3, <2>1, <2>2, IdleTyped, GoTyped, SplitNext DEF SendLink
<1>4. ASSUME NEW l \in Links, IssueLink(r, l) PROVE TypeOK'
  <2>1. [Idle EXCEPT !.at = "mail", !.link = l, !.then = request[r].then,
                     !.proof = request[r].proof, !.raced = request[r].raced] \in Records
    BY <1>0, AccountsAssumption DEF Idle, Records
  <2>2. TablesOK'
    BY <1>0, <1>4 DEF IssueLink, Underway, TypeOK, TablesOK, userVars, tokenVars
  <2> QED BY <1>4, <2>1, <2>2, GoTyped, SplitNext DEF IssueLink
<1> QED BY <1>1, <1>2, <1>3, <1>4 DEF Mailing

LEMMA PasswordsTyped ==
  ASSUME TypeOK, NEW r \in Requests, Underway(r), Passwords(r)
  PROVE  TypeOK'
<1>0. /\ request[r] \in Records
      /\ \A s \in Requests : Raced(s) \in Records
  BY RecordsTyped DEF TypeOK, Raced
<1>1. CASE CheckPassword(r)
  <2>1. [Idle EXCEPT !.at = "change", !.proof = password] \in Records
    BY AccountsAssumption DEF Idle, Records, TypeOK
  <2>2. TablesOK'
    BY <1>1 DEF CheckPassword, TypeOK, TablesOK, userVars, tokenVars, linkVars
  <2> QED BY <1>1, <2>1, <2>2, GoTyped, SplitNext DEF CheckPassword
<1>2. CASE SweepForChange(r)
  <2>1. [request[r] EXCEPT !.at = "sweep", !.tokens = Live] \in Records
    BY <1>0, RecordsTyped DEF Ats, Live
  <2>2. TablesOK'
    BY <1>2 DEF SweepForChange, TypeOK, TablesOK, userVars, tokenVars, linkVars
  <2> QED BY <1>2, <2>1, <2>2, GoTyped, SplitNext DEF SweepForChange
<1>3. ASSUME NEW l \in Links, SweepForReset(r, l) PROVE TypeOK'
  <2>1. [Idle EXCEPT !.at = "sweep", !.link = l, !.tokens = Live] \in Records
    BY IdleTyped DEF Records, Live
  <2>2. TablesOK'
    BY <1>3 DEF SweepForReset, TypeOK, TablesOK, userVars, tokenVars, linkVars
  <2> QED BY <1>3, <2>1, <2>2, GoTyped, SplitNext DEF SweepForReset
<1>4. ASSUME SetPassword(r), password < MaxPassword
      PROVE  /\ password' \in 0..MaxPassword /\ password + 1 \in 0..MaxPassword
             /\ token' \in [Tokens -> {"new", "live", "expired", "revoked"}]
             /\ raced' \subseteq Tokens
             /\ UNCHANGED <<kind, root, proof, purpose, mailbox>>
  BY <1>4, AccountsAssumption DEF SetPassword, RevokeAll, Live, TypeOK
<1>5. CASE CommitChange(r)
  <2>1. [Idle EXCEPT !.at = "mint", !.proof = password + 1] \in Records
    BY <1>4, <1>5, IdleTyped DEF CommitChange, Underway, Records
  <2>2. request' \in [Requests -> Records]
    BY <1>0, <1>5, <2>1 DEF CommitChange
  <2>3. TablesOK'
    BY <1>4, <1>5 DEF CommitChange, Underway, TypeOK, TablesOK
  <2> QED BY <2>2, <2>3, SplitNext
<1>6. CASE CommitReset(r)
  <2>1. request' \in [Requests -> Records]
    BY <1>0, <1>6, IdleTyped DEF CommitReset
  <2>2. TablesOK'
    BY <1>4, <1>6 DEF CommitReset, Underway, TypeOK, TablesOK
  <2> QED BY <2>1, <2>2, SplitNext
<1> QED BY <1>1, <1>2, <1>3, <1>5, <1>6 DEF Passwords

\* Everything that is not a request under way.
Rest ==
  \/ \E t \in Tokens : Logout(t) \/ ExpireToken(t)
  \/ \E l \in Links : VerifyEmail(l) \/ ExpireLink(l)
  \/ UNCHANGED vars

LEMMA RestTyped == ASSUME TypeOK, Rest PROVE TypeOK'
<1>1. UNCHANGED request
  BY DEF Rest, Logout, ExpireToken, VerifyEmail, ExpireLink, vars
<1>2. TablesOK'
  BY DEF Rest, Logout, Consume, ExpireToken, VerifyEmail, ExpireLink, TypeOK, TablesOK,
         vars, userVars, tokenVars, linkVars
<1> QED BY <1>1, <1>2, SplitNext DEF TypeOK

LEMMA AbortTyped == ASSUME TypeOK, NEW r \in Requests, Abort(r) PROVE TypeOK'
<1>1. TablesOK'
  BY DEF Abort, TypeOK, TablesOK, userVars, tokenVars, linkVars
<1> QED BY <1>1, IdleTyped, GoTyped, SplitNext DEF Abort

LEMMA TypesStep == ASSUME Sound, [Next]_vars PROVE TypeOK'
BY SignInTyped, MailingTyped, PasswordsTyped, RestTyped, AbortTyped DEF Next, Rest, Sound
-----------------------------------------------------------------------------
\* A step of one request leaves the others where they are, unless it sets the
\* password, which may only mark them.
LEMMA Others ==
  ASSUME TypeOK, NEW r \in Requests,
         SignIn(r) \/ Mailing(r) \/ Passwords(r) \/ Abort(r)
  PROVE  \A s \in Requests \ {r} :
           /\ request'[s].at = request[s].at /\ request'[s].root = request[s].root
           /\ request'[s].purpose = request[s].purpose /\ request'[s].link = request[s].link
           /\ request'[s].proof = request[s].proof /\ request'[s].then = request[s].then
<1>1. CASE \E rec : Go(r, rec)
  BY <1>1 DEF Go, TypeOK
<1>2. CASE CommitChange(r) \/ CommitReset(r)
  <2>1. \A s \in Requests \ {r} : request'[s] = Raced(s)
    BY <1>2 DEF CommitChange, CommitReset
  <2>2. ASSUME NEW s \in Requests
        PROVE  /\ Raced(s).at = request[s].at /\ Raced(s).root = request[s].root
               /\ Raced(s).purpose = request[s].purpose /\ Raced(s).link = request[s].link
               /\ Raced(s).proof = request[s].proof /\ Raced(s).then = request[s].then
    BY DEF Raced, TypeOK, Records
  <2> QED BY <2>1, <2>2
<1> QED
  BY <1>1, <1>2 DEF SignIn, Register, Login, TelegramLogin, CreateTelegram, Mint, Refresh,
     Mailing, ResendVerification, ForgotPassword, ScanLinks, SendLink, IssueLink,
     Passwords, CheckPassword, SweepForChange, SweepForReset, Abort

\* The password is only set when nobody else holds the user's row, and the row
\* is only taken when nobody holds it.
LEMMA RowIsMine ==
  ASSUME Sound, NEW r \in Requests,
         SignIn(r) \/ Mailing(r) \/ Passwords(r) \/ Abort(r)
  PROVE  /\ kind' = kind /\ password' \in Nat /\ password' >= password
         /\ \A s \in Requests \ {r} : request[s].at = "sweep" =>
              password' = password /\ request'[r].at # "sweep"
<1>0. /\ \A s \in Requests : Underway(s) /\ request[s] \in Records
      /\ password \in Nat /\ (kind = "telegram" => password <= 1)
      /\ request \in [Requests -> Records]
  BY AccountsAssumption DEF Sound, TypeOK
<1>1. CASE Register(r)
  BY <1>0, <1>1 DEF Register, Underway
<1>2. CASE CreateTelegram(r)
  BY <1>0, <1>2 DEF CreateTelegram, Underway
<1>3. CASE CommitChange(r) \/ CommitReset(r)
  BY <1>0, <1>3 DEF CommitChange, CommitReset, SetPassword, Underway
<1>4. CASE SweepForChange(r) \/ \E l \in Links : SweepForReset(r, l)
  <2>1. At("sweep") = {} /\ UNCHANGED userVars
    BY <1>4 DEF SweepForChange, SweepForReset, UserRowFree
  <2> QED BY <1>0, <2>1 DEF At, userVars
<1>5. ASSUME \E rec : rec.at # "sweep" /\ Go(r, rec), UNCHANGED <<kind, password>>
      PROVE  /\ kind' = kind /\ password' \in Nat /\ password' >= password
             /\ \A s \in Requests \ {r} : request[s].at = "sweep" =>
                  password' = password /\ request'[r].at # "sweep"
  BY <1>0, <1>5 DEF Go
<1>6. CASE \/ Login(r) \/ TelegramLogin(r) \/ CheckPassword(r) \/ Abort(r)
           \/ \E t \in Tokens : Mint(r, t) \/ Refresh(r, t)
  <2>1. \E rec : rec.at # "sweep" /\ Go(r, rec)
    BY <1>6 DEF Login, TelegramLogin, CheckPassword, Abort, Mint, Refresh, Idle
  <2> QED BY <1>5, <1>6, <2>1
          DEF Login, TelegramLogin, CheckPassword, Abort, Mint, Refresh, userVars
<1>7. CASE Mailing(r)
  <2>1. \E rec : rec.at # "sweep" /\ Go(r, rec)
    BY <1>0, <1>7 DEF Mailing, ResendVerification, ForgotPassword, ScanLinks, SendLink, IssueLink,
       Idle, Records
  <2> QED BY <1>5, <1>7, <2>1
          DEF Mailing, ResendVerification, ForgotPassword, ScanLinks, SendLink, IssueLink, userVars
<1> QED BY <1>1, <1>2, <1>3, <1>4, <1>6, <1>7 DEF SignIn, Passwords

\* Where the step leaves its own request.
LEMMA MineUnderway ==
  ASSUME Sound, TypeOK', NEW r \in Requests,
         SignIn(r) \/ Mailing(r) \/ Passwords(r) \/ Abort(r)
  PROVE  Underway(r)'
<1>0. /\ Underway(r) /\ request[r] \in Records /\ password \in Nat
      /\ request \in [Requests -> Records] /\ (mailbox # {} => password > 0 /\ kind = "email")
  BY AccountsAssumption DEF Sound, TypeOK
<1>1. CASE request'[r].at \in {"idle", "mint"}
  BY <1>1 DEF Underway
<1>2. CASE Register(r)
  BY <1>0, <1>2 DEF Register, Go, Idle, Underway, Purposes
<1>3. CASE TelegramLogin(r)
  BY <1>0, <1>3 DEF TelegramLogin, Go, Idle, Underway, userVars
<1>4. CASE ResendVerification(r) \/ ForgotPassword(r)
  <2>1. \E p \in Purposes : request'[r] = [Idle EXCEPT !.at = "issue", !.purpose = p]
    BY <1>0, <1>4 DEF ResendVerification, ForgotPassword, Go, Purposes
  <2>2. request'[r].at = "issue" /\ request'[r].purpose \in Purposes
    BY <2>1 DEF Idle
  <2>3. password > 0 /\ UNCHANGED userVars
    BY <1>4 DEF ResendVerification, ForgotPassword
  <2> QED BY <2>2, <2>3 DEF Underway, userVars
<1>5. CASE ScanLinks(r)
  BY <1>0, <1>5 DEF ScanLinks, Go, Underway, Records, userVars
<1>6. ASSUME NEW l \in Links, IssueLink(r, l) PROVE Underway(r)'
  BY <1>0, <1>6 DEF IssueLink, Go, Idle, Underway, userVars
<1>7. CASE CheckPassword(r)
  BY <1>0, <1>7 DEF CheckPassword, Go, Idle, Underway, userVars
<1>8. ASSUME request'[r].at = "sweep", UNCHANGED userVars,
             password < MaxPassword, password > 0, kind = "email"
      PROVE  Underway(r)'
  <2>1. \A s \in Requests \ {r} : request'[s].at # "sweep"
    BY <1>8, RowIsMine, Others DEF Sound
  <2> QED BY <1>8, <2>1 DEF Underway, userVars
<1>9. CASE SweepForChange(r)
  <2>1. request'[r].at = "sweep"
    BY <1>0, <1>9 DEF SweepForChange, Go, Records
  <2> QED BY <1>0, <1>8, <1>9, <2>1 DEF SweepForChange, Underway
<1>10. ASSUME NEW l \in Links, SweepForReset(r, l) PROVE Underway(r)'
  <2>1. request'[r].at = "sweep"
    BY <1>0, <1>10 DEF SweepForReset, Go, Idle
  <2> QED BY <1>0, <1>8, <1>10, <2>1 DEF SweepForReset, Redeemable
<1>11. CASE \/ Login(r) \/ CreateTelegram(r) \/ SendLink(r) \/ CommitChange(r) \/ CommitReset(r)
            \/ Abort(r) \/ \E t \in Tokens : Mint(r, t) \/ Refresh(r, t)
  <2>1. request'[r].at \in {"idle", "mint"}
    <3>1. CASE Login(r)
      <4>1. request'[r] = [Idle EXCEPT !.at = "mint", !.proof = password]
        BY <1>0, <3>1, GoHere DEF Login, Sound
      <4> QED BY <4>1 DEF Idle
    <3>2. ASSUME NEW t \in Tokens, Refresh(r, t) PROVE request'[r].at = "mint"
      <4>1. request'[r] = [Idle EXCEPT !.at = "mint", !.root = root[t], !.proof = proof[t],
                                       !.raced = t \in raced]
        BY <1>0, <3>2, GoHere DEF Refresh, Sound
      <4> QED BY <4>1 DEF Idle
    <3>5. CASE CreateTelegram(r)
      <4>1. request'[r] = [request[r] EXCEPT !.at = "mint"]
        BY <1>0, <3>5, GoHere DEF CreateTelegram, Sound
      <4> QED BY <1>0, <4>1 DEF Records
    <3>6. CASE SendLink(r)
      <4>1. \/ request'[r] = Idle
            \/ request'[r] = [request[r] EXCEPT !.at = "mint", !.link = None, !.then = "idle"]
        BY <1>0, <3>6, GoHere DEF SendLink, Sound
      <4>2. [request[r] EXCEPT !.at = "mint", !.link = None, !.then = "idle"].at = "mint"
        BY <1>0 DEF Records
      <4>3. Idle.at = "idle"
        BY DEF Idle
      <4> QED BY <4>1, <4>2, <4>3
    <3>3. CASE CommitChange(r) \/ CommitReset(r)
      <4>1. request'[r] \in {Idle, [Idle EXCEPT !.at = "mint", !.proof = password + 1]}
        BY <1>0, <3>3 DEF CommitChange, CommitReset
      <4>2. ASSUME NEW p PROVE [Idle EXCEPT !.at = "mint", !.proof = p].at = "mint"
        BY DEF Idle
      <4>3. Idle.at = "idle"
        BY DEF Idle
      <4> QED BY <4>1, <4>2, <4>3
    <3>4. CASE Abort(r) \/ \E t \in Tokens : Mint(r, t)
      <4>1. request'[r] = Idle
        BY <1>0, <3>4, IdleTyped, GoHere DEF Abort, Mint, Sound
      <4> QED BY <4>1 DEF Idle
    <3> QED BY <1>11, <3>1, <3>2, <3>3, <3>4, <3>5, <3>6
  <2> QED BY <1>1, <2>1
<1> QED BY <1>2, <1>3, <1>4, <1>5, <1>6, <1>7, <1>9, <1>10, <1>11 DEF SignIn, Mailing, Passwords

\* The links that arrive, and what the two kinds of account may do.
LEMMA MailStep ==
  ASSUME Sound, NEW r \in Requests,
         SignIn(r) \/ Mailing(r) \/ Passwords(r) \/ Abort(r)
  PROVE  /\ mailbox' # {} => password' > 0 /\ kind' = "email"
         /\ kind' = "telegram" => password' <= 1
<1>0. /\ Underway(r) /\ password \in Nat
      /\ (mailbox # {} => password > 0 /\ kind = "email")
      /\ (kind = "telegram" => password <= 1)
      /\ kind' = kind /\ password' >= password
  BY AccountsAssumption, RowIsMine DEF Sound, TypeOK
<1>1. CASE SendLink(r)
  BY <1>0, <1>1 DEF SendLink, Underway, userVars
<1>2. CASE Register(r) \/ CreateTelegram(r)
  BY <1>0, <1>2 DEF Register, CreateTelegram, linkVars
<1>3. CASE CommitChange(r) \/ CommitReset(r)
  BY <1>0, <1>3 DEF CommitChange, CommitReset, SetPassword, Underway
<1>4. CASE ~(SendLink(r) \/ Register(r) \/ CreateTelegram(r) \/ CommitChange(r) \/ CommitReset(r))
  <2>1. UNCHANGED <<password, mailbox>>
    BY <1>4 DEF SignIn, Login, TelegramLogin, Mint, Refresh, Mailing, ResendVerification,
       ForgotPassword, ScanLinks, IssueLink, Passwords, CheckPassword, SweepForChange,
       SweepForReset, Abort, userVars, linkVars
  <2> QED BY <1>0, <2>1
<1> QED BY <1>1, <1>2, <1>3, <1>4

LEMMA SoundInit == Init => Sound
<1> SUFFICES ASSUME Init PROVE Sound
  OBVIOUS
<1>1. TypeOK
  <2>1. request \in [Requests -> Records]
    BY IdleTyped DEF Init
  <2>2. /\ token \in [Tokens -> {"new", "live", "expired", "revoked"}]
        /\ link \in [Links -> {"new", "unused", "expired", "used"}]
        /\ purpose \in [Links -> Purposes]
    BY DEF Init, Purposes
  <2>3. 0 \in 0..MaxPassword
    BY AccountsAssumption
  <2>4. /\ root \in [Tokens -> Tokens \cup {None}]
        /\ proof \in [Tokens -> 0..MaxPassword]
    BY <2>3 DEF Init
  <2>5. /\ kind \in {"email", "telegram"} /\ password \in 0..MaxPassword
        /\ verified \in BOOLEAN /\ mailbox \subseteq Links /\ raced \subseteq Tokens
    BY <2>3 DEF Init
  <2> QED BY <2>1, <2>2, <2>4, <2>5 DEF TypeOK
<1>2. \A r \in Requests : Underway(r)
  BY DEF Init, Underway, Idle
<1> QED BY <1>1, <1>2 DEF Init, Sound

LEMMA SoundStep == Sound /\ [Next]_vars => Sound'
<1> SUFFICES ASSUME Sound, [Next]_vars PROVE Sound'
  OBVIOUS
<1>0. TypeOK'
  BY TypesStep
<1>1. ASSUME NEW r \in Requests, SignIn(r) \/ Mailing(r) \/ Passwords(r) \/ Abort(r)
      PROVE  Sound'
  <2>1. ASSUME NEW s \in Requests \ {r} PROVE Underway(s)'
    <3>1. Underway(s) /\ password \in Nat
      BY AccountsAssumption DEF Sound, TypeOK
    <3>2. /\ request'[s].at = request[s].at
          /\ request'[s].purpose = request[s].purpose /\ request'[s].link = request[s].link
          /\ request'[s].proof = request[s].proof
      BY <1>1, Others DEF Sound
    <3>3. \A q \in Requests \ {r} : request'[q].at = request[q].at
      BY <1>1, Others DEF Sound
    <3>4. /\ kind' = kind /\ password' \in Nat /\ password' >= password
          /\ request[s].at = "sweep" => password' = password /\ request'[r].at # "sweep"
      BY <1>1, RowIsMine
    <3> QED BY <3>1, <3>2, <3>3, <3>4 DEF Underway
  <2>2. Underway(r)'
    BY <1>0, <1>1, MineUnderway
  <2> QED BY <1>0, <1>1, <2>1, <2>2, MailStep DEF Sound
<1>2. CASE Rest
  <2>1. UNCHANGED <<kind, password, mailbox, request>>
    BY <1>2 DEF Rest, Logout, ExpireToken, VerifyEmail, ExpireLink, vars, userVars, linkVars
  <2> QED BY <1>0, <2>1 DEF Sound, Underway
<1> QED BY <1>1, <1>2 DEF Next, Rest

\* The account is well typed, and the types keep what the code takes for
\* granted: a link that is being mailed exists, an account that sets its
\* password has been registered.
LEMMA Soundness == Spec => []Sound
BY SoundInit, SoundStep, PTL DEF Spec

\* Every token, link and request is well typed, with any number of each.
THEOREM Typing == Spec => []TypeOK
<1>1. Sound => TypeOK
  BY DEF Sound
<1> QED BY Soundness, <1>1, PTL
-----------------------------------------------------------------------------
\* A request that will end with a token for its user.
Carrying(r) ==
  \/ request[r].at = "mint"
  \/ request[r].at \in {"issue", "scan", "mail"} /\ request[r].then = "mint"

\* What a step makes of its own request, as far as the sessions are concerned.
Outcome(r) ==
  /\ request'[r].root \in {None, request[r].root}
  /\ request[r].at = "mint" => request'[r].root = None
  /\ \/ ~Carrying(r)'
     \/ request'[r].proof = password' /\ password' > 0
     \/ /\ Carrying(r)
        /\ request'[r].proof = request[r].proof /\ request'[r].raced = request[r].raced

LEMMA OutcomeSignIn ==
  ASSUME Sound, NEW r \in Requests, SignIn(r), ~(\E t \in Tokens : Refresh(r, t))
  PROVE  Outcome(r)
<1>0. TypeOK /\ Underway(r) /\ request[r] \in Records /\ password \in Nat
  BY AccountsAssumption DEF Sound, TypeOK
<1>1. CASE Register(r)
  <2>1. request'[r] = [Idle EXCEPT !.at = "issue", !.purpose = "verify_email", !.then = "mint",
                                   !.proof = 1]
    BY <1>0, <1>1, GoHere DEF Register
  <2>2. /\ request'[r].root = None /\ request'[r].proof = 1
        /\ request[r].at = "idle"
    BY <1>1, <2>1 DEF Idle, Register
  <2> QED BY <1>1, <2>2 DEF Register, Outcome
<1>2. CASE Login(r)
  <2>1. request'[r] = [Idle EXCEPT !.at = "mint", !.proof = password]
    BY <1>0, <1>2, GoHere DEF Login
  <2>2. request'[r].root = None /\ request'[r].proof = password
    BY <2>1 DEF Idle
  <2> QED BY <1>2, <2>2 DEF Login, Outcome, userVars
<1>3. CASE TelegramLogin(r)
  <2>1. request'[r] = [Idle EXCEPT !.at = IF password = 0 THEN "create" ELSE "mint", !.proof = 1]
    BY <1>0, <1>3, GoHere DEF TelegramLogin
  <2>2. /\ request'[r].root = None /\ request'[r].proof = 1
        /\ request'[r].at = IF password = 0 THEN "create" ELSE "mint"
    BY <2>1 DEF Idle
  <2>3. password' = password /\ password <= 1
    BY <1>3 DEF TelegramLogin, userVars, Sound
  <2> QED BY <1>0, <2>2, <2>3 DEF Outcome, Carrying
<1>4. CASE CreateTelegram(r)
  <2>1. request'[r] = [request[r] EXCEPT !.at = "mint"]
    BY <1>0, <1>4, GoHere DEF CreateTelegram
  <2>2. request'[r].root = request[r].root /\ request'[r].proof = request[r].proof
    BY <1>0, <2>1 DEF Records
  <2> QED BY <1>0, <1>4, <2>2 DEF CreateTelegram, Outcome, Underway
<1>5. ASSUME NEW t \in Tokens, Mint(r, t) PROVE Outcome(r)
  <2>1. request'[r] = Idle
    BY <1>0, <1>5, GoHere DEF Mint
  <2> QED BY <2>1 DEF Outcome, Carrying, Idle
<1> QED BY <1>1, <1>2, <1>3, <1>4, <1>5 DEF SignIn

LEMMA OutcomeMailing ==
  ASSUME Sound, NEW r \in Requests, Mailing(r)
  PROVE  Outcome(r)
<1>0. TypeOK /\ request[r] \in Records
  BY DEF Sound, TypeOK
<1>1. CASE ResendVerification(r) \/ ForgotPassword(r)
  <2>1. PICK p \in Purposes : request'[r] = [Idle EXCEPT !.at = "issue", !.purpose = p]
    BY <1>0, <1>1, GoHere DEF ResendVerification, ForgotPassword, Purposes
  <2>2. request'[r].root = None /\ request'[r].at = "issue" /\ request'[r].then = "idle"
    BY <2>1 DEF Idle
  <2> QED BY <2>2 DEF Outcome, Carrying
<1>2. CASE ScanLinks(r)
  <2>1. request'[r] = [request[r] EXCEPT !.at = "scan", !.links = Issued(request[r].purpose)]
    BY <1>0, <1>2, GoHere DEF ScanLinks
  <2>2. /\ request'[r].root = request[r].root /\ request'[r].at = "scan"
        /\ request'[r].then = request[r].then /\ request'[r].proof = request[r].proof
        /\ request'[r].raced = request[r].raced
    BY <1>0, <2>1 DEF Records
  <2> QED BY <1>2, <2>2 DEF Outcome, Carrying, ScanLinks
<1>3. ASSUME NEW l \in Links, IssueLink(r, l) PROVE Outcome(r)
  <2>1. request'[r] = [Idle EXCEPT !.at = "mail", !.link = l, !.then = request[r].then,
                                   !.proof = request[r].proof, !.raced = request[r].raced]
    BY <1>0, <1>3, GoHere DEF IssueLink
  <2>2. /\ request'[r].root = None /\ request'[r].at = "mail"
        /\ request'[r].then = request[r].then /\ request'[r].proof = request[r].proof
        /\ request'[r].raced = request[r].raced
    BY <2>1 DEF Idle
  <2> QED BY <1>3, <2>2 DEF Outcome, Carrying, IssueLink
<1>4. CASE SendLink(r)
  <2>1. CASE request[r].then = "idle"
    <3>1. request'[r] = Idle
      BY <1>0, <1>4, <2>1, GoHere DEF SendLink
    <3> QED BY <3>1 DEF Outcome, Carrying, Idle
  <2>2. CASE request[r].then # "idle"
    <3>1. request'[r] = [request[r] EXCEPT !.at = "mint", !.link = None, !.then = "idle"]
      BY <1>0, <1>4, <2>2, GoHere DEF SendLink
    <3>2. /\ request'[r].root = request[r].root /\ request'[r].proof = request[r].proof
          /\ request'[r].raced = request[r].raced
      BY <1>0, <3>1 DEF Records
    <3>3. request[r].then = "mint"
      BY <1>0, <2>2, RecordsTyped
    <3> QED BY <1>4, <3>2, <3>3 DEF Outcome, Carrying, SendLink
  <2> QED BY <2>1, <2>2
<1> QED BY <1>1, <1>2, <1>3, <1>4 DEF Mailing

LEMMA OutcomePasswords ==
  ASSUME Sound, NEW r \in Requests, Passwords(r) \/ Abort(r)
  PROVE  Outcome(r)
<1>0. TypeOK /\ request[r] \in Records /\ password \in Nat
  BY AccountsAssumption DEF Sound, TypeOK
<1>1. CASE CheckPassword(r)
  <2>1. request'[r] = [Idle EXCEPT !.at = "change", !.proof = password]
    BY <1>0, <1>1, GoHere DEF CheckPassword
  <2>2. request'[r].root = None /\ request'[r].at = "change"
    BY <2>1 DEF Idle
  <2> QED BY <2>2 DEF Outcome, Carrying
<1>2. CASE SweepForChange(r)
  <2>1. request'[r] = [request[r] EXCEPT !.at = "sweep", !.tokens = Live]
    BY <1>0, <1>2, GoHere DEF SweepForChange
  <2>2. request'[r].root = request[r].root /\ request'[r].at = "sweep"
    BY <1>0, <2>1 DEF Records
  <2> QED BY <1>2, <2>2 DEF Outcome, Carrying, SweepForChange
<1>3. ASSUME NEW l \in Links, SweepForReset(r, l) PROVE Outcome(r)
  <2>1. request'[r] = [Idle EXCEPT !.at = "sweep", !.link = l, !.tokens = Live]
    BY <1>0, <1>3, GoHere DEF SweepForReset
  <2>2. request'[r].root = None /\ request'[r].at = "sweep"
    BY <2>1 DEF Idle
  <2> QED BY <2>2 DEF Outcome, Carrying
<1>4. CASE CommitChange(r)
  <2>1. request'[r] = [Idle EXCEPT !.at = "mint", !.proof = password + 1]
    BY <1>4 DEF CommitChange
  <2>2. ASSUME NEW p PROVE /\ [Idle EXCEPT !.at = "mint", !.proof = p].root = None
                           /\ [Idle EXCEPT !.at = "mint", !.proof = p].proof = p
    BY DEF Idle
  <2>3. password' = password + 1
    BY <1>4 DEF CommitChange, SetPassword
  <2> QED BY <1>0, <2>1, <2>2, <2>3 DEF Outcome
<1>5. CASE CommitReset(r) \/ Abort(r)
  <2>1. request'[r] = Idle
    BY <1>0, <1>5, GoHere DEF CommitReset, Abort
  <2> QED BY <2>1 DEF Outcome, Carrying, Idle
<1> QED BY <1>1, <1>2, <1>3, <1>4, <1>5 DEF Passwords

\* What a step of a request makes of the tokens: it issues one, or it revokes
\* some of them.
LEMMA TokensStep ==
  ASSUME Sound, NEW r \in Requests,
         SignIn(r) \/ Mailing(r) \/ Passwords(r) \/ Abort(r)
  PROVE  \/ \E t \in Tokens : Mint(r, t) \/ Refresh(r, t)
         \/ UNCHANGED <<token, root, proof, raced>>
         \/ SetPassword(r) /\ Passwords(r) /\ UNCHANGED root
BY DEF SignIn, Register, Login, TelegramLogin, CreateTelegram, Mailing, ResendVerification,
   ForgotPassword, ScanLinks, SendLink, IssueLink, Passwords, CheckPassword, SweepForChange,
   SweepForReset, CommitChange, CommitReset, SetPassword, Abort, tokenVars

\* The request that redeems a token takes over its session.
LEMMA RefreshHere ==
  ASSUME Sound, NEW r \in Requests, NEW t \in Tokens, Refresh(r, t)
  PROVE  /\ request'[r].at = "mint" /\ request'[r].root = root[t]
         /\ request'[r].proof = proof[t] /\ request'[r].raced = (t \in raced)
         /\ request[r].root = None
<1>1. request'[r] = [Idle EXCEPT !.at = "mint", !.root = root[t], !.proof = proof[t],
                                 !.raced = t \in raced]
  BY GoHere DEF Refresh, Sound
<1>2. request[r] = Idle
  BY DEF Refresh
<1> QED BY <1>1, <1>2 DEF Idle
-----------------------------------------------------------------------------
Begun == {t \in Tokens : token[t] # "new"}

\* A session is a chain of tokens.  Its first token names it, and only one
\* token that is live, or one request that has redeemed the last, holds it.
Chains ==
  /\ \A t \in Tokens : token[t] # "new" => root[t] \in Begun
  /\ \A r \in Requests : request[r].root # None =>
       request[r].root \in Begun /\ request[r].at = "mint"
  /\ \A t, u \in Live : root[t] = root[u] => t = u
  /\ \A t \in Live, r \in Requests : request[r].root # root[t]
  /\ \A r, q \in Requests :
       request[r].root = request[q].root /\ request[r].root # None => r = q

\* Issuing a token.
LEMMA ChainsMint ==
  ASSUME Sound, Chains, NEW r \in Requests, NEW t \in Tokens, Mint(r, t)
  PROVE  Chains'
<1>0. TypeOK /\ request[r].at = "mint" /\ token[t] = "new" /\ None \notin Tokens
  BY AccountsAssumption DEF Sound, Mint
<1>1. /\ token' = [token EXCEPT ![t] = "live"]
      /\ root' = [root EXCEPT ![t] = IF request[r].root = None THEN t ELSE request[r].root]
      /\ request' = [request EXCEPT ![r] = Idle]
  BY DEF Mint, Go
<1>2. Idle.root = None
  BY DEF Idle
<1>3. /\ \A u \in Tokens : token'[u] = IF u = t THEN "live" ELSE token[u]
      /\ \A u \in Tokens \ {t} : root'[u] = root[u]
      /\ root'[t] = IF request[r].root = None THEN t ELSE request[r].root
      /\ \A q \in Requests \ {r} : request'[q] = request[q]
      /\ request'[r].root = None
  BY <1>0, <1>1, <1>2 DEF TypeOK
<1>4. Live' = Live \cup {t}
  BY <1>0, <1>3 DEF Live
<1>5. \A u \in Begun : u \in Begun' /\ u # t
  BY <1>0, <1>3 DEF Begun
<1>6. t \in Begun'
  BY <1>3 DEF Begun
<1>7. \A u \in Live : root[u] \in Begun /\ root[u] # t /\ root[u] # request[r].root /\ u # t
  BY <1>0, <1>5 DEF Chains, Live
<1>8. root'[t] \in Begun'
  BY <1>3, <1>5, <1>6 DEF Chains
<1>9. \A u \in Live : root'[u] = root[u] /\ root'[u] # root'[t]
  BY <1>3, <1>7 DEF Live
<1>10. \A u \in Tokens : token'[u] # "new" => root'[u] \in Begun'
  BY <1>3, <1>5, <1>8 DEF Chains
<1>11. \A q \in Requests : request'[q].root # None =>
         /\ q # r /\ request'[q].root = request[q].root /\ request'[q].at = request[q].at
         /\ request[q].root \in Begun
  BY <1>3 DEF Chains
<1>12. \A q \in Requests : request'[q].root # root'[t]
  <2> SUFFICES ASSUME NEW q \in Requests, request'[q].root = root'[t] PROVE FALSE
    OBVIOUS
  <2>1. root'[t] # None
    BY <1>0, <1>3
  <2>2. q # r /\ request[q].root = root'[t] /\ request[q].root \in Begun
    BY <2>1, <1>11
  <2>3. request[r].root # None /\ request[q].root = request[r].root
    BY <1>3, <1>5, <2>2
  <2> QED BY <2>2, <2>3 DEF Chains
<1>13. \A u \in Live, q \in Requests : request'[q].root # root'[u]
  <2> SUFFICES ASSUME NEW u \in Live, NEW q \in Requests, request'[q].root = root'[u]
               PROVE FALSE
    OBVIOUS
  <2>1. root'[u] = root[u] /\ root[u] # None
    BY <1>0, <1>7, <1>9 DEF Begun
  <2> QED BY <1>11, <2>1 DEF Chains
<1>14. \A u, v \in Live' : root'[u] = root'[v] => u = v
  BY <1>4, <1>9 DEF Chains
<1>15. \A q, p \in Requests :
         request'[q].root = request'[p].root /\ request'[q].root # None => q = p
  BY <1>11 DEF Chains
<1>16. \A q \in Requests : request'[q].root # None =>
         request'[q].root \in Begun' /\ request'[q].at = "mint"
  BY <1>5, <1>11 DEF Chains
<1> QED BY <1>4, <1>10, <1>12, <1>13, <1>14, <1>15, <1>16 DEF Chains

\* Redeeming one: the chain passes from the token to the request.
LEMMA ChainsRefresh ==
  ASSUME Sound, Chains, NEW r \in Requests, NEW t \in Tokens, Refresh(r, t)
  PROVE  Chains'
<1>0. TypeOK /\ t \in Live /\ root' = root /\ None \notin Tokens
  BY AccountsAssumption DEF Sound, Refresh, Consume, Live
<1>1. \A u \in Tokens : token'[u] = IF u = t THEN "revoked" ELSE token[u]
  BY <1>0 DEF Refresh, Consume, TypeOK
<1>2. Live' = Live \ {t}
  BY <1>1 DEF Live
<1>3. Begun \subseteq Begun'
  BY <1>1 DEF Begun
<1>4. request'[r].at = "mint" /\ request'[r].root = root[t] /\ request[r].root = None
  BY RefreshHere
<1>5. \A q \in Requests \ {r} : request'[q] = request[q]
  BY <1>0 DEF Refresh, Go, TypeOK
<1>6. root[t] \in Begun
  BY <1>0 DEF Chains, Live
<1>7. \A u \in Tokens : token'[u] # "new" => root'[u] \in Begun'
  BY <1>0, <1>1, <1>3, <1>6 DEF Chains
<1>8. \A q \in Requests : request'[q].root # None =>
        request'[q].root \in Begun' /\ request'[q].at = "mint"
  BY <1>3, <1>4, <1>5, <1>6 DEF Chains
<1>9. \A u, v \in Live' : root'[u] = root'[v] => u = v
  BY <1>0, <1>2 DEF Chains
<1>10. \A u \in Live', q \in Requests : request'[q].root # root'[u]
  BY <1>0, <1>2, <1>4, <1>5 DEF Chains
<1>11. \A q, p \in Requests :
         request'[q].root = request'[p].root /\ request'[q].root # None => q = p
  BY <1>0, <1>4, <1>5 DEF Chains
<1> QED BY <1>7, <1>8, <1>9, <1>10, <1>11 DEF Chains

\* Everything else at most ends a session.
LEMMA ChainsShrink ==
  ASSUME Chains, root' = root, Live' \subseteq Live,
         \A t \in Tokens : token'[t] = "new" <=> token[t] = "new",
         \A r \in Requests :
           \/ request'[r].root = None
           \/ request'[r].root = request[r].root /\ request'[r].at = request[r].at
  PROVE  Chains'
<1>1. Begun \subseteq Begun'
  BY DEF Begun
<1>2. \A t \in Tokens : token'[t] # "new" => root'[t] \in Begun'
  BY <1>1 DEF Chains
<1>3. \A r \in Requests : request'[r].root # None =>
        request'[r].root \in Begun' /\ request'[r].at = "mint"
  BY <1>1 DEF Chains
<1>4. \A t, u \in Live' : root'[t] = root'[u] => t = u
  BY DEF Chains
<1>5. \A t \in Live', r \in Requests : request'[r].root # root'[t]
  <2> SUFFICES ASSUME NEW t \in Live', NEW r \in Requests, request'[r].root = root'[t]
               PROVE FALSE
    OBVIOUS
  <2>1. t \in Live /\ root[t] \in Begun
    BY DEF Chains, Live
  <2>2. root[t] # None
    BY <2>1, AccountsAssumption DEF Begun
  <2> QED BY <2>1, <2>2 DEF Chains
<1>6. \A r, q \in Requests :
        request'[r].root = request'[q].root /\ request'[r].root # None => r = q
  BY DEF Chains
<1> QED BY <1>2, <1>3, <1>4, <1>5, <1>6 DEF Chains

LEMMA ChainsStep == Sound /\ Chains /\ [Next]_vars => Chains'
<1> SUFFICES ASSUME Sound, Chains, [Next]_vars PROVE Chains'
  OBVIOUS
<1>0. TypeOK
  BY DEF Sound
<1>1. ASSUME NEW r \in Requests, SignIn(r) \/ Mailing(r) \/ Passwords(r) \/ Abort(r)
      PROVE  Chains'
  <2>1. CASE \E t \in Tokens : Mint(r, t) \/ Refresh(r, t)
    BY <2>1, ChainsMint, ChainsRefresh
  <2>2. CASE ~(\E t \in Tokens : Mint(r, t) \/ Refresh(r, t))
    <3>1. Outcome(r)
      BY <1>1, <2>2, OutcomeSignIn, OutcomeMailing, OutcomePasswords
    <3>2. request'[r].root = None
      BY <3>1 DEF Outcome, Chains
    <3>3. /\ root' = root /\ Live' \subseteq Live
          /\ \A t \in Tokens : token'[t] = "new" <=> token[t] = "new"
      <4>1. CASE UNCHANGED <<token, root>>
        BY <4>1 DEF Live
      <4>2. CASE SetPassword(r) /\ UNCHANGED root
        BY <1>0, <4>2 DEF SetPassword, RevokeAll, Live
      <4> QED BY <1>1, <2>2, <4>1, <4>2, TokensStep
    <3>4. \A q \in Requests \ {r} :
            request'[q].root = request[q].root /\ request'[q].at = request[q].at
      BY <1>0, <1>1, Others
    <3> QED BY <3>2, <3>3, <3>4, ChainsShrink
  <2> QED BY <2>1, <2>2
<1>2. CASE Rest
  <2>1. UNCHANGED <<request, root>>
    BY <1>2 DEF Rest, Logout, ExpireToken, VerifyEmail, ExpireLink, vars, tokenVars
  <2>2. \/ UNCHANGED token
        \/ \E t \in Tokens : token[t] = "live" /\ \E v \in {"revoked", "expired"} :
             token' = [token EXCEPT ![t] = v]
    BY <1>2 DEF Rest, Logout, Consume, ExpireToken, VerifyEmail, ExpireLink, vars, tokenVars
  <2>3. Live' \subseteq Live /\ \A t \in Tokens : token'[t] = "new" <=> token[t] = "new"
    BY <1>0, <2>2 DEF Live, TypeOK
  <2> QED BY <2>1, <2>3, ChainsShrink
<1> QED BY <1>1, <1>2 DEF Next, Rest

LEMMA ChainsInit == Init => Chains
BY DEF Init, Chains, Live, Idle

\* However many requests present the tokens of a session at the same time, one
\* live token or one request that is about to insert it continues the session.
THEOREM SessionsAreChains == Spec => []OneTokenPerSession
<1>1. Chains => OneTokenPerSession
  <2> SUFFICES ASSUME Chains, NEW s \in Tokens, NEW a \in Carriers(s), NEW b \in Carriers(s)
               PROVE  a = b
    BY DEF OneTokenPerSession
  <2>1. s # None
    BY AccountsAssumption
  <2> QED BY <2>1 DEF Carriers, Chains, At
<1> QED BY Soundness, ChainsInit, ChainsStep, <1>1, PTL DEF Spec
-----------------------------------------------------------------------------
\* The tokens and the requests that will become tokens prove the password that
\* is set, except those that a change of it has overtaken.
Current ==
  /\ \A t \in Live : password > 0 /\ (t \notin raced => proof[t] = password)
  /\ \A r \in Requests : Carrying(r) =>
       password > 0 /\ (~request[r].raced => request[r].proof = password)

\* A step that leaves the password, or sets the first one: its own request is
\* the only one to change.
LEMMA CurrentOutcome ==
  ASSUME Sound, Current, NEW r \in Requests, Outcome(r),
         UNCHANGED <<token, root, proof, raced>>,
         password' = password \/ (password = 0 /\ password' = 1),
         \A s \in Requests \ {r} : request'[s] = request[s]
  PROVE  Current'
<1>0. password \in Nat
  BY AccountsAssumption DEF Sound, TypeOK
<1>1. \A t \in Live' : password' > 0 /\ (t \notin raced' => proof'[t] = password')
  BY <1>0 DEF Current, Live
<1>2. \A s \in Requests \ {r} : Carrying(s)' =>
        password' > 0 /\ (~request'[s].raced => request'[s].proof = password')
  BY <1>0 DEF Current, Carrying
<1>3. Carrying(r)' =>
        password' > 0 /\ (~request'[r].raced => request'[r].proof = password')
  BY <1>0 DEF Outcome, Current
<1> QED BY <1>1, <1>2, <1>3 DEF Current

\* A step that sets another one: its own request alone starts afresh.
LEMMA CurrentSet ==
  ASSUME Sound, Current, NEW r \in Requests, CommitChange(r) \/ CommitReset(r), Outcome(r)
  PROVE  Current'
<1>0. password \in Nat /\ TypeOK /\ Underway(r)
  BY AccountsAssumption DEF Sound, TypeOK
<1>1. /\ password' = password + 1 /\ raced' = raced \cup (Live \ request[r].tokens)
      /\ token' = RevokeAll(request[r].tokens)
      /\ \A s \in Requests \ {r} : request'[s] = Raced(s)
  BY DEF CommitChange, CommitReset, SetPassword
<1>2. Live' = Live \ request[r].tokens
  BY <1>0, <1>1 DEF RevokeAll, Live, TypeOK
<1>3. \A t \in Live' : password' > 0 /\ t \in raced'
  BY <1>0, <1>1, <1>2
<1>4. ASSUME NEW s \in Requests \ {r}, Carrying(s)'
      PROVE  password' > 0 /\ request'[s].raced
  <2>1. request'[s].at = request[s].at
    BY <1>0, Others DEF Passwords
  <2>2. request[s].at \in {"issue", "scan", "mail", "mint"}
    BY <1>4, <2>1 DEF Carrying
  <2>3. request'[s] = [request[s] EXCEPT !.raced = TRUE]
    BY <1>1, <2>2 DEF Raced
  <2> QED BY <1>0, <1>1, <2>3 DEF TypeOK, Records
<1>5. Carrying(r)' => request'[r].proof = password' /\ password' > 0
  <2>1. request[r].at = "sweep"
    BY DEF CommitChange, CommitReset
  <2> QED BY <2>1 DEF Outcome, Carrying
<1> QED BY <1>3, <1>4, <1>5 DEF Current

LEMMA CurrentMint ==
  ASSUME Sound, Current, NEW r \in Requests, NEW t \in Tokens, Mint(r, t)
  PROVE  Current'
<1>0. /\ TypeOK /\ request[r].at = "mint" /\ UNCHANGED password
      /\ raced' = IF request[r].raced THEN raced \cup {t} ELSE raced
  BY DEF Sound, Mint, userVars
<1>1. /\ Live' = Live \cup {t}
      /\ \A u \in Tokens \ {t} : proof'[u] = proof[u]
      /\ proof'[t] = request[r].proof
  BY <1>0 DEF Mint, Live, TypeOK
<1>2. Carrying(r)
  BY <1>0 DEF Carrying
<1>3. \A u \in Live' : password' > 0 /\ (u \notin raced' => proof'[u] = password')
  BY <1>0, <1>1, <1>2 DEF Current, Live
<1>4. ~Carrying(r)' /\ \A s \in Requests \ {r} : request'[s] = request[s]
  <2>1. request'[r] = Idle
    BY <1>0, GoHere DEF Mint
  <2> QED BY <1>0, <2>1 DEF Carrying, Idle, Mint, Go, TypeOK
<1> QED BY <1>0, <1>3, <1>4 DEF Current, Carrying

LEMMA CurrentRefresh ==
  ASSUME Sound, Current, NEW r \in Requests, NEW t \in Tokens, Refresh(r, t)
  PROVE  Current'
<1>0. TypeOK /\ t \in Live /\ UNCHANGED <<password, proof, raced>>
  BY DEF Sound, Refresh, Consume, Live, userVars
<1>1. Live' \subseteq Live
  BY <1>0 DEF Refresh, Consume, Live, TypeOK
<1>2. /\ request'[r].proof = proof[t] /\ request'[r].raced = (t \in raced)
      /\ \A s \in Requests \ {r} : request'[s] = request[s]
  BY <1>0, RefreshHere DEF Refresh, Go, TypeOK
<1>3. Carrying(r)' =>
        password' > 0 /\ (~request'[r].raced => request'[r].proof = password')
  BY <1>0, <1>2 DEF Current
<1> QED BY <1>0, <1>1, <1>2, <1>3 DEF Current, Carrying

LEMMA CurrentStep == Sound /\ Current /\ [Next]_vars => Current'
<1> SUFFICES ASSUME Sound, Current, [Next]_vars PROVE Current'
  OBVIOUS
<1>0. TypeOK
  BY DEF Sound
<1>1. ASSUME NEW r \in Requests, SignIn(r) \/ Mailing(r) \/ Passwords(r) \/ Abort(r)
      PROVE  Current'
  <2>1. CASE \E t \in Tokens : Mint(r, t) \/ Refresh(r, t)
    BY <2>1, CurrentMint, CurrentRefresh
  <2>2. CASE ~(\E t \in Tokens : Mint(r, t) \/ Refresh(r, t))
    <3>1. Outcome(r)
      BY <1>1, <2>2, OutcomeSignIn, OutcomeMailing, OutcomePasswords
    <3>2. CASE CommitChange(r) \/ CommitReset(r)
      BY <3>1, <3>2, CurrentSet
    <3>3. CASE ~(CommitChange(r) \/ CommitReset(r))
      <4>1. UNCHANGED <<token, root, proof, raced>>
        BY <1>1, <2>2, <3>3 DEF SignIn, Register, Login, TelegramLogin, CreateTelegram,
           Mailing, ResendVerification, ForgotPassword, ScanLinks, SendLink, IssueLink, Passwords,
           CheckPassword, SweepForChange, SweepForReset, Abort, tokenVars
      <4>2. password' = password \/ (password = 0 /\ password' = 1)
        <5>1. CASE Register(r)
          BY <5>1 DEF Register
        <5>2. CASE CreateTelegram(r)
          <6>1. password \in Nat /\ password <= 1
            BY <5>2, AccountsAssumption DEF Sound, Underway, CreateTelegram, TypeOK
          <6> QED BY <5>2, <6>1 DEF CreateTelegram
        <5>3. CASE ~(Register(r) \/ CreateTelegram(r))
          BY <1>1, <2>2, <3>3, <5>3 DEF SignIn, Login, TelegramLogin, Mailing,
             ResendVerification, ForgotPassword, ScanLinks, SendLink, IssueLink, Passwords,
             CheckPassword, SweepForChange, SweepForReset, Abort, userVars
        <5> QED BY <5>1, <5>2, <5>3
      <4>3. \E rec : Go(r, rec)
        BY <1>1, <2>2, <3>3 DEF SignIn, Register, Login, TelegramLogin, CreateTelegram,
           Mailing, ResendVerification, ForgotPassword, ScanLinks, SendLink, IssueLink, Passwords,
           CheckPassword, SweepForChange, SweepForReset, Abort
      <4>4. \A s \in Requests \ {r} : request'[s] = request[s]
        BY <1>0, <4>3 DEF Go, TypeOK
      <4> QED BY <3>1, <4>1, <4>2, <4>4, CurrentOutcome
    <3> QED BY <3>2, <3>3
  <2> QED BY <2>1, <2>2
<1>2. CASE Rest
  <2>1. UNCHANGED <<request, password, proof, raced>>
    BY <1>2 DEF Rest, Logout, ExpireToken, VerifyEmail, ExpireLink, vars, userVars, tokenVars
  <2>2. \/ UNCHANGED token
        \/ \E t \in Tokens, v \in {"revoked", "expired"} : token' = [token EXCEPT ![t] = v]
    BY <1>2 DEF Rest, Logout, Consume, ExpireToken, VerifyEmail, ExpireLink, vars, tokenVars
  <2>3. Live' \subseteq Live
    BY <1>0, <2>2 DEF Live, TypeOK
  <2> QED BY <2>1, <2>3 DEF Current, Carrying
<1> QED BY <1>1, <1>2 DEF Next, Rest

LEMMA CurrentInit == Init => Current
BY DEF Init, Current, Live, Carrying, Idle

\* Whoever is still signed in after a change of the password has proved the new
\* one, or had a request under way when the old sessions were swept.
THEOREM ChangeEndsSessions == Spec => []OldSessionsEnd
<1>1. Current => OldSessionsEnd
  BY DEF Current, OldSessionsEnd, Live
<1> QED BY Soundness, CurrentInit, CurrentStep, <1>1, PTL DEF Spec
-----------------------------------------------------------------------------
\* Issuing a link: what it did not replace was not in sight of its transaction.
LEMMA LinksIssue ==
  ASSUME TypeOK, OnlyOverlappingLinksCoexist,
         NEW r \in Requests, NEW l \in Links, IssueLink(r, l)
  PROVE  OnlyOverlappingLinksCoexist'
<1> DEFINE p == request[r].purpose
<1>1. /\ \A o \in Links : link'[o] = IF o = l THEN "unused"
                                     ELSE IF o \in Replaced(r) THEN "used" ELSE link[o]
      /\ link[l] = "new"
      /\ purpose'[l] = p /\ \A o \in Links \ {l} : purpose'[o] = purpose[o]
      /\ overlaps' = overlaps \cup {{l, o} : o \in Issued(p) \ request[r].links}
  BY DEF IssueLink, TypeOK
<1>2. ASSUME NEW q \in Purposes, NEW a \in Unused(q)', NEW b \in Unused(q)', a # b
      PROVE  {a, b} \in overlaps'
  <2>1. CASE a # l /\ b # l
    <3>1. a \in Unused(q) /\ b \in Unused(q)
      BY <1>1, <2>1 DEF Unused
    <3> QED BY <1>1, <1>2, <3>1 DEF OnlyOverlappingLinksCoexist
  <2>2. ASSUME NEW o \in Unused(q)', o # l, q = p PROVE {l, o} \in overlaps'
    <3>1. o \in Unused(p) /\ o \notin Replaced(r)
      BY <1>1, <2>2 DEF Unused
    <3>2. o \in Issued(p) \ request[r].links
      BY <3>1 DEF Issued, Unused, Replaced
    <3> QED BY <1>1, <3>2
  <2>3. CASE a = l
    <3>1. q = p
      BY <1>1, <2>3 DEF Unused
    <3> QED BY <1>2, <2>2, <2>3, <3>1
  <2>4. CASE b = l
    <3>1. q = p /\ {a, b} = {l, a}
      BY <1>1, <2>4 DEF Unused
    <3> QED BY <1>2, <2>2, <2>4, <3>1
  <2> QED BY <2>1, <2>3, <2>4
<1> QED BY <1>2 DEF OnlyOverlappingLinksCoexist

LEMMA LinksStep ==
  TypeOK /\ OnlyOverlappingLinksCoexist /\ [Next]_vars => OnlyOverlappingLinksCoexist'
<1> SUFFICES ASSUME TypeOK, OnlyOverlappingLinksCoexist, [Next]_vars
             PROVE  OnlyOverlappingLinksCoexist'
  OBVIOUS
<1>1. CASE \E r \in Requests, l \in Links : IssueLink(r, l)
  BY <1>1, LinksIssue
<1>2. ASSUME UNCHANGED <<purpose, overlaps>>,
             UNCHANGED link \/ \E l, v : v # "unused" /\ link' = [link EXCEPT ![l] = v]
      PROVE  OnlyOverlappingLinksCoexist'
  <2>1. \A p : Unused(p)' \subseteq Unused(p)
    BY <1>2 DEF Unused, TypeOK
  <2> QED BY <1>2, <2>1 DEF OnlyOverlappingLinksCoexist
<1>3. CASE \E r \in Requests : SignIn(r) \/ Passwords(r) \/ Abort(r)
  BY <1>2, <1>3 DEF SignIn, Register, Login, TelegramLogin, CreateTelegram, Mint, Refresh,
     Passwords, CheckPassword, SweepForChange, SweepForReset, CommitChange, CommitReset,
     SetPassword, Abort, linkVars
<1>4. CASE \E r \in Requests :
             ResendVerification(r) \/ ForgotPassword(r) \/ ScanLinks(r) \/ SendLink(r)
  BY <1>2, <1>4 DEF ResendVerification, ForgotPassword, ScanLinks, SendLink, linkVars
<1>5. CASE Rest
  BY <1>2, <1>5 DEF Rest, Logout, ExpireToken, VerifyEmail, ExpireLink, vars, linkVars
<1> QED BY <1>1, <1>3, <1>4, <1>5 DEF Next, Rest, Mailing

LEMMA LinksInit == Init => OnlyOverlappingLinksCoexist
BY DEF Init, OnlyOverlappingLinksCoexist, Unused

\* However many links are asked for, two of a kind are good at the same time
\* only if neither transaction could see the other's.
THEOREM NewLinksReplace == Spec => []OnlyOverlappingLinksCoexist
<1>1. Sound => TypeOK
  BY DEF Sound
<1> QED BY Soundness, LinksInit, LinksStep, <1>1, PTL DEF Spec
=============================================================================
