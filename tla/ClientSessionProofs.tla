------------------------ MODULE ClientSessionProofs ------------------------
(***************************************************************************)
(* What holds of the web client's session for any number of tabs, requests *)
(* and tokens.                                                             *)
(***************************************************************************)
EXTENDS ClientSession, TLAPS

\* A token that a refresh call has brought and that is not stored yet is known
\* to nobody else: it is not stored, was never sent, is in no other call, and
\* can be redeemed unless it has lapsed.
UnseenToken(t) ==
  flight[t].at = "ok" =>
    /\ flight[t].new \in valid \cup lapsed \cup cut
    /\ flight[t].new # stored /\ flight[t].new # 0
    /\ \A s \in Tabs : /\ flight[s].token # flight[t].new
                       /\ <<s, flight[t].new>> \notin presented
                       /\ s # t /\ flight[s].at = "ok" => flight[s].new # flight[t].new

\* A tab that has sent the token that is stored now is still waiting for the
\* answer, or the page was loaded again in the meantime.
SentOnce(t) ==
  <<t, stored>> \in presented => stored \in cut \/ flight[t].token = stored

Usable ==
  /\ StoredIsUsable /\ OncePerToken
  /\ \A t \in Tabs : UnseenToken(t) /\ SentOnce(t)

IInv == TypeOK /\ Usable

LEMMA InitHolds == Init => IInv
<1> SUFFICES ASSUME Init PROVE IInv
  OBVIOUS
<1> USE DEF Init
<1>1. TypeOK
  <2>1. call \in [Tabs -> [Requests -> CallStates]]
    BY DEF CallStates
  <2>2. flight \in [Tabs -> [token : 0..issued, at : {"none", "asked", "ok", "failed"},
                             new : 0..issued]]
    BY DEF NoFlight
  <2> QED BY <2>1, <2>2, SessionAssumption DEF TypeOK
<1>2. StoredIsUsable /\ OncePerToken
  BY DEF StoredIsUsable, OncePerToken
<1>3. \A t \in Tabs : UnseenToken(t) /\ SentOnce(t)
  BY DEF UnseenToken, SentOnce, NoFlight
<1> QED BY <1>1, <1>2, <1>3 DEF IInv, Usable

FlightStates == {"none", "asked", "ok", "failed"}

\* What a record of a refresh call may become.
LEMMA FlightTyped ==
  ASSUME NEW n \in Nat, NEW f \in [Tabs -> [token : 0..n, at : FlightStates, new : 0..n]],
         NEW t \in Tabs
  PROVE  /\ f[t].token \in 0..n /\ f[t].new \in 0..n /\ f[t].at \in FlightStates
         /\ [f EXCEPT ![t] = NoFlight] \in [Tabs -> [token : 0..n, at : FlightStates, new : 0..n]]
         /\ [f EXCEPT ![t] = [token |-> @.token, at |-> "ok", new |-> n + 1]]
              \in [Tabs -> [token : 0..(n + 1), at : FlightStates, new : 0..(n + 1)]]
<1>1. f[t] \in [token : 0..n, at : FlightStates, new : 0..n]
  OBVIOUS
<1>2. [f EXCEPT ![t] = NoFlight] \in [Tabs -> [token : 0..n, at : FlightStates, new : 0..n]]
  BY DEF NoFlight, FlightStates
<1>3. [f EXCEPT ![t] = [token |-> @.token, at |-> "ok", new |-> n + 1]]
         \in [Tabs -> [token : 0..(n + 1), at : FlightStates, new : 0..(n + 1)]]
  <2>1. \A s \in Tabs : f[s] \in [token : 0..(n + 1), at : FlightStates, new : 0..(n + 1)]
    OBVIOUS
  <2>2. [token |-> f[t].token, at |-> "ok", new |-> n + 1]
           \in [token : 0..(n + 1), at : FlightStates, new : 0..(n + 1)]
    BY <1>1 DEF FlightStates
  <2> QED BY <2>1, <2>2
<1> QED BY <1>1, <1>2, <1>3

LEMMA CallTyped ==
  ASSUME NEW f \in [Tabs -> [Requests -> CallStates]],
         NEW t \in Tabs, NEW c \in Requests, NEW s \in CallStates
  PROVE  [f EXCEPT ![t][c] = s] \in [Tabs -> [Requests -> CallStates]]
OBVIOUS

\* Each step keeps the types.
LEMMA TypesStep == ASSUME TypeOK, [Next]_vars PROVE TypeOK'
<1> USE DEF TypeOK
<1>0. Me \in Requests /\ Calls \subseteq Requests /\ MaxTokens \in Nat
  BY SessionAssumption DEF Requests
<1>1. ASSUME NEW t \in Tabs, SignIn(t) PROVE TypeOK'
  BY <1>1, <1>0 DEF SignIn, history, server
<1>2. ASSUME NEW t \in Tabs, SignOut(t) PROVE TypeOK'
  BY <1>2 DEF SignOut, history
<1>3. ASSUME NEW t \in Tabs, Load(t) PROVE TypeOK'
  <2>1. call' \in [Tabs -> [Requests -> CallStates]]
    BY <1>3 DEF Load, Send, CallStates
  <2>2. flight' \in [Tabs -> [token : 0..issued, at : {"none", "asked", "ok", "failed"},
                              new : 0..issued]]
    BY <1>3 DEF Load, NoFlight
  <2>3. cut' \subseteq 1..issued
    <3>1. flight[t] \in [token : 0..issued, at : {"none", "asked", "ok", "failed"}, new : 0..issued]
      OBVIOUS
    <3>2. {flight[t].token} \ {0} \subseteq 1..issued
      BY <3>1
    <3> QED BY <1>3, <3>2 DEF Load
  <2>4. user' \in [Tabs -> BOOLEAN]
    BY <1>3 DEF Load
  <2> QED BY <1>3, <2>1, <2>2, <2>3, <2>4 DEF Load, storage, server
<1>4. ASSUME NEW t \in Tabs, NEW c \in Requests,
             Call(t, c) \/ Return(t, c) \/ Throw(t, c) \/ JoinRefresh(t, c)
      PROVE  TypeOK'
  <2>1. call' \in [Tabs -> [Requests -> CallStates]]
    <3>1. \E s \in CallStates : call' = [call EXCEPT ![t][c] = s]
      BY <1>4 DEF Call, Return, Throw, JoinRefresh, Send, CallStates
    <3> QED BY <3>1, CallTyped
  <2>2. user' \in [Tabs -> BOOLEAN]
    BY <1>4 DEF Call, Return, Throw, JoinRefresh
  <2>3. stored' \in 0..issued /\ access' \in {"none", "fresh", "stale"}
    BY <1>4 DEF Call, Return, Throw, JoinRefresh, storage
  <2>4. UNCHANGED <<flight, server, history>>
    BY <1>4 DEF Call, Return, Throw, JoinRefresh
  <2> QED BY <2>1, <2>2, <2>3, <2>4 DEF server, history
<1>5. ASSUME NEW t \in Tabs, NEW c \in Requests, StartRefresh(t, c) PROVE TypeOK'
  <2>1. call' \in [Tabs -> [Requests -> CallStates]]
    BY <1>5 DEF StartRefresh, Ask, CallStates
  <2>2. stored \in 1..issued
    BY <1>5 DEF StartRefresh, Refreshable
  <2>3. flight' \in [Tabs -> [token : 0..issued, at : FlightStates, new : 0..issued]]
    BY <1>5 DEF StartRefresh, Ask, FlightStates
  <2>4. presented' \subseteq Tabs \X (1..issued) /\ twice' \subseteq presented'
    BY <1>5, <2>2 DEF StartRefresh, Ask
  <2> QED BY <1>5, <2>1, <2>3, <2>4 DEF StartRefresh, Ask, storage, server, FlightStates
<1>6. ASSUME NEW t \in Tabs, LoseRefresh(t) PROVE TypeOK'
  BY <1>6 DEF LoseRefresh, storage, server, history
<1>7. ASSUME NEW t \in Tabs, EndRefresh(t) \/ FailRefresh(t) PROVE TypeOK'
  <2>1. call' \in [Tabs -> [Requests -> CallStates]]
    BY <1>7 DEF EndRefresh, FailRefresh, Release, CallStates
  <2>2. flight' \in [Tabs -> [token : 0..issued, at : {"none", "asked", "ok", "failed"},
                              new : 0..issued]]
    <3>1. flight' = [flight EXCEPT ![t] = NoFlight]
      BY <1>7 DEF EndRefresh, FailRefresh
    <3>2. flight \in [Tabs -> [token : 0..issued, at : FlightStates, new : 0..issued]]
      BY DEF FlightStates
    <3>3. flight' \in [Tabs -> [token : 0..issued, at : FlightStates, new : 0..issued]]
      <4>1. issued \in Nat
        BY <1>0
      <4> HIDE DEF TypeOK
      <4> QED BY <3>1, <3>2, <4>1, FlightTyped
    <3> QED BY <3>3 DEF FlightStates
  <2>3. stored' \in 0..issued /\ access' \in {"none", "fresh", "stale"}
    BY <1>7 DEF EndRefresh, FailRefresh
  <2>4. user' \in [Tabs -> BOOLEAN] /\ UNCHANGED <<server, history>>
    BY <1>7 DEF EndRefresh, FailRefresh
  <2> QED BY <2>1, <2>2, <2>3, <2>4 DEF server, history
<1>8. ASSUME NEW t \in Tabs, Rotate(t) PROVE TypeOK'
  <2>1. flight' \in [Tabs -> [token : 0..issued', at : {"none", "asked", "ok", "failed"},
                              new : 0..issued']]
    <3>1. issued' = issued + 1 /\ issued \in Nat
      BY <1>8 DEF Rotate
    <3>2. flight' = [flight EXCEPT ![t] = [token |-> @.token, at |-> "ok", new |-> issued + 1]]
      BY <1>8 DEF Rotate
    <3>3. flight \in [Tabs -> [token : 0..issued, at : FlightStates, new : 0..issued]]
      BY DEF FlightStates
    <3>4. flight' \in [Tabs -> [token : 0..(issued + 1), at : FlightStates, new : 0..(issued + 1)]]
      BY <3>1, <3>2, <3>3, FlightTyped
    <3> QED BY <3>1, <3>4 DEF FlightStates
  <2>2. /\ issued' \in 0..MaxTokens /\ 0..issued \subseteq 0..issued'
        /\ 1..issued \subseteq 1..issued' /\ issued' \in 1..issued'
    BY <1>8, <1>0 DEF Rotate
  <2>3. presented' \subseteq Tabs \X (1..issued') /\ twice' \subseteq presented'
    BY <1>8, <2>2 DEF Rotate, history
  <2>4. valid' \subseteq 1..issued'
    BY <1>8, <2>2 DEF Rotate
  <2>5. UNCHANGED <<storage, user, call, logouts, lapsed, cut>>
    BY <1>8 DEF Rotate, history
  <2> QED BY <2>1, <2>2, <2>3, <2>4, <2>5 DEF storage
<1>9. CASE RotateForNobody \/ ExpireRefresh \/ EndLogout \/ ExpireAccess
  BY <1>9 DEF RotateForNobody, ExpireRefresh, EndLogout, ExpireAccess, Lapse, storage, server, history
<1>10. CASE UNCHANGED vars
  BY <1>10 DEF vars, storage, server, history
<1> QED
  BY <1>0, <1>1, <1>2, <1>3, <1>4, <1>5, <1>6, <1>7, <1>8, <1>9, <1>10 DEF Next, Page
-----------------------------------------------------------------------------
\* Numbers of tokens that the types speak of.
LEMMA Numbers ==
  ASSUME TypeOK
  PROVE  /\ issued \in Nat /\ stored \in Nat /\ stored <= issued
         /\ \A t \in Tabs : /\ flight[t].token \in 0..issued /\ flight[t].new \in 0..issued
                            /\ flight[t].at \in FlightStates
         /\ \A t, n : <<t, n>> \in presented => n \in 1..issued
         /\ issued + 1 \notin 0..issued
<1>1. \A t \in Tabs : flight[t] \in [token : 0..issued, at : FlightStates, new : 0..issued]
  BY DEF TypeOK, FlightStates
<1>2. issued \in Nat
  BY SessionAssumption DEF TypeOK
<1> QED BY <1>1, <1>2 DEF TypeOK

\* A token that can no longer be redeemed has lapsed: nothing else changes.
LEMMA LapseKeeps ==
  ASSUME Usable,
         UNCHANGED <<stored, flight, cut, presented, twice>>,
         valid \cup lapsed \cup cut \subseteq valid' \cup lapsed' \cup cut'
  PROVE  Usable'
<1>1. StoredIsUsable' /\ OncePerToken'
  BY DEF Usable, StoredIsUsable, OncePerToken
<1>2. ASSUME NEW s \in Tabs PROVE UnseenToken(s)'
  BY DEF Usable, UnseenToken
<1>3. ASSUME NEW s \in Tabs PROVE SentOnce(s)'
  BY DEF Usable, SentOnce
<1> QED BY <1>1, <1>2, <1>3 DEF Usable

\* Tokens that the browser drops are no concern.
LEMMA DropKeeps ==
  ASSUME TypeOK, Usable, stored' = 0,
         UNCHANGED <<flight, valid, lapsed, cut, presented, twice>>
  PROVE  Usable'
<1>1. StoredIsUsable' /\ OncePerToken'
  BY DEF Usable, StoredIsUsable, OncePerToken
<1>2. ASSUME NEW s \in Tabs PROVE UnseenToken(s)'
  BY Numbers DEF Usable, UnseenToken
<1>3. ASSUME NEW s \in Tabs PROVE SentOnce(s)'
  BY Numbers DEF Usable, SentOnce
<1> QED BY <1>1, <1>2, <1>3 DEF Usable

\* A new session begins with a token that nobody has seen.
LEMMA SignInKeeps ==
  ASSUME TypeOK, Usable, NEW t \in Tabs, SignIn(t)
  PROVE  Usable'
<1> USE Numbers DEF SignIn, history
<1>1. StoredIsUsable' /\ OncePerToken'
  BY DEF Usable, StoredIsUsable, OncePerToken
<1>2. ASSUME NEW s \in Tabs PROVE UnseenToken(s)'
  BY DEF Usable, UnseenToken
<1>3. ASSUME NEW s \in Tabs PROVE SentOnce(s)'
  BY DEF SentOnce
<1> QED BY <1>1, <1>2, <1>3 DEF Usable

\* A page that goes leaves the token of its refresh call among those cut off.
LEMMA LoadKeeps ==
  ASSUME TypeOK, Usable, NEW t \in Tabs, Load(t)
  PROVE  Usable'
<1>0. /\ \A s \in Tabs : flight'[s] = IF s = t THEN NoFlight ELSE flight[s]
      /\ cut' = cut \cup ({flight[t].token} \ {0})
      /\ UNCHANGED <<stored, valid, lapsed, presented, twice>>
  BY DEF Load, TypeOK, storage, server
<1>1. StoredIsUsable'
  <2>1. CASE stored = 0
    BY <1>0, <2>1 DEF StoredIsUsable
  <2>2. CASE stored \in valid \cup lapsed \cup cut
    BY <1>0, <2>2 DEF StoredIsUsable
  <2>3. ASSUME NEW s \in Tabs, stored = flight[s].token, stored # 0 PROVE StoredIsUsable'
    <3>1. CASE s = t
      BY <1>0, <2>3, <3>1 DEF StoredIsUsable
    <3>2. CASE s # t
      BY <1>0, <2>3, <3>2 DEF StoredIsUsable
    <3> QED BY <3>1, <3>2
  <2> QED BY <2>1, <2>2, <2>3 DEF Usable, StoredIsUsable
<1>2. OncePerToken'
  BY <1>0 DEF Usable, OncePerToken
<1>3. ASSUME NEW s \in Tabs PROVE UnseenToken(s)'
  BY <1>0 DEF Usable, UnseenToken, NoFlight
<1>4. ASSUME NEW s \in Tabs PROVE SentOnce(s)'
  BY <1>0, Numbers DEF Usable, SentOnce
<1> QED BY <1>1, <1>2, <1>3, <1>4 DEF Usable

\* The stored token is sent by a tab that is not waiting for an answer.
LEMMA AskKeeps ==
  ASSUME TypeOK, Usable, NEW t \in Tabs, NEW c \in Requests, StartRefresh(t, c)
  PROVE  Usable'
<1>0. /\ \A s \in Tabs : flight'[s] = IF s = t THEN [token |-> stored, at |-> "asked", new |-> 0]
                                               ELSE flight[s]
      /\ flight[t].token = 0 /\ flight[t].at = "none" /\ stored # 0
      /\ presented' = presented \cup {<<t, stored>>}
      /\ twice' = twice \cup (presented \cap {<<t, stored>>})
      /\ UNCHANGED <<stored, valid, lapsed, cut>>
  BY DEF StartRefresh, Ask, Refreshable, NoFlight, TypeOK, storage, server
<1>1. StoredIsUsable'
  BY <1>0 DEF StoredIsUsable
<1>2. OncePerToken'
  BY <1>0 DEF Usable, OncePerToken, SentOnce
<1>3. ASSUME NEW s \in Tabs PROVE UnseenToken(s)'
  BY <1>0 DEF Usable, UnseenToken
<1>4. ASSUME NEW s \in Tabs PROVE SentOnce(s)'
  BY <1>0 DEF Usable, SentOnce
<1> QED BY <1>1, <1>2, <1>3, <1>4 DEF Usable

\* The answer is stored: nobody has sent its token before.
LEMMA EndKeeps ==
  ASSUME TypeOK, Usable, NEW t \in Tabs, EndRefresh(t)
  PROVE  Usable'
<1>0. /\ \A s \in Tabs : flight'[s] = IF s = t THEN NoFlight ELSE flight[s]
      /\ flight[t].at = "ok" /\ stored' = flight[t].new
      /\ UNCHANGED <<valid, lapsed, cut, presented, twice>>
  BY DEF EndRefresh, TypeOK, server, history
<1>1. StoredIsUsable' /\ OncePerToken'
  BY <1>0 DEF Usable, StoredIsUsable, OncePerToken, UnseenToken
<1>2. ASSUME NEW s \in Tabs PROVE UnseenToken(s)'
  <2>1. CASE s = t
    BY <1>0, <2>1 DEF UnseenToken, NoFlight
  <2>2. ASSUME s # t, flight[s].at = "ok"
        PROVE  /\ flight[s].new # flight[t].new /\ flight[s].new # 0
               /\ flight[s].new \in valid \cup lapsed \cup cut
               /\ \A r \in Tabs : /\ flight[r].token # flight[s].new
                                  /\ <<r, flight[s].new>> \notin presented
                                  /\ r # s /\ flight[r].at = "ok" => flight[r].new # flight[s].new
    BY <1>0, <2>2 DEF Usable, UnseenToken
  <2>3. NoFlight.token = 0 /\ NoFlight.at # "ok"
    BY DEF NoFlight
  <2> QED BY <1>0, <2>1, <2>2, <2>3 DEF UnseenToken
<1>3. ASSUME NEW s \in Tabs PROVE SentOnce(s)'
  BY <1>0 DEF Usable, UnseenToken, SentOnce
<1> QED BY <1>1, <1>2, <1>3 DEF Usable

LEMMA FailKeeps ==
  ASSUME TypeOK, Usable, NEW t \in Tabs, FailRefresh(t)
  PROVE  Usable'
<1>0. /\ \A s \in Tabs : flight'[s] = IF s = t THEN NoFlight ELSE flight[s]
      /\ stored' = 0
      /\ UNCHANGED <<valid, lapsed, cut, presented, twice>>
  BY DEF FailRefresh, TypeOK, server, history
<1>1. StoredIsUsable' /\ OncePerToken'
  BY <1>0 DEF Usable, StoredIsUsable, OncePerToken
<1>2. ASSUME NEW s \in Tabs PROVE UnseenToken(s)'
  BY <1>0, Numbers DEF Usable, UnseenToken, NoFlight
<1>3. ASSUME NEW s \in Tabs PROVE SentOnce(s)'
  BY <1>0, Numbers DEF Usable, SentOnce
<1> QED BY <1>1, <1>2, <1>3 DEF Usable

LEMMA LoseKeeps ==
  ASSUME TypeOK, Usable, NEW t \in Tabs, LoseRefresh(t)
  PROVE  Usable'
<1>0. /\ \A s \in Tabs : /\ flight'[s].token = flight[s].token
                         /\ flight'[s].new = flight[s].new
                         /\ flight'[s].at = "ok" => flight[s].at = "ok"
      /\ UNCHANGED <<stored, valid, lapsed, cut, presented, twice>>
  BY DEF LoseRefresh, TypeOK, storage, server, history
<1>1. StoredIsUsable' /\ OncePerToken'
  BY <1>0 DEF Usable, StoredIsUsable, OncePerToken
<1>2. ASSUME NEW s \in Tabs PROVE UnseenToken(s)'
  BY <1>0 DEF Usable, UnseenToken
<1>3. ASSUME NEW s \in Tabs PROVE SentOnce(s)'
  BY <1>0 DEF Usable, SentOnce
<1> QED BY <1>1, <1>2, <1>3 DEF Usable

\* The server takes one token and issues the next one.
LEMMA RotateKeeps ==
  ASSUME TypeOK, Usable, NEW t \in Tabs, Rotate(t)
  PROVE  Usable'
<1>0. /\ \A s \in Tabs : /\ flight'[s].token = flight[s].token
                         /\ s # t => flight'[s] = flight[s]
      /\ flight[t].at = "asked" /\ flight'[t].at = "ok" /\ flight'[t].new = issued + 1
      /\ valid' = (valid \ {flight[t].token}) \cup {issued + 1}
      /\ UNCHANGED <<stored, lapsed, cut, presented, twice>>
  BY DEF Rotate, TypeOK, storage, history
<1>1. StoredIsUsable'
  BY <1>0 DEF Usable, StoredIsUsable
<1>2. OncePerToken'
  BY <1>0 DEF Usable, OncePerToken
<1>3. ASSUME NEW s \in Tabs PROVE UnseenToken(s)'
  <2>1. CASE s = t
    BY <1>0, <2>1, Numbers DEF UnseenToken
  <2>2. CASE s # t
    <3>1. flight'[s] = flight[s] /\ flight[s].new # issued + 1
      BY <1>0, <2>2, Numbers
    <3>2. ASSUME flight[s].at = "ok"
          PROVE  flight[s].new \in valid' \cup lapsed' \cup cut'
      BY <1>0, <3>1, <3>2 DEF Usable, UnseenToken
    <3>3. \A r \in Tabs : flight'[r].at = "ok" => r = t \/ flight[r].at = "ok"
      BY <1>0
    <3>4. \A r \in Tabs : r # t => flight'[r].new = flight[r].new
      BY <1>0
    <3> QED BY <1>0, <2>2, <3>1, <3>2, <3>3, <3>4 DEF Usable, UnseenToken
  <2> QED BY <2>1, <2>2
<1>4. ASSUME NEW s \in Tabs PROVE SentOnce(s)'
  BY <1>0 DEF Usable, SentOnce
<1> QED BY <1>1, <1>2, <1>3, <1>4 DEF Usable

LEMMA UsableStep == ASSUME TypeOK, Usable, [Next]_vars PROVE Usable'
<1>1. ASSUME NEW t \in Tabs, Page(t) PROVE Usable'
  <2>1. CASE SignOut(t)
    BY <2>1, DropKeeps DEF SignOut, history
  <2>2. ASSUME NEW c \in Requests, Call(t, c) \/ Return(t, c) \/ JoinRefresh(t, c)
        PROVE  Usable'
    BY <2>2, LapseKeeps DEF Call, Return, JoinRefresh, storage, server, history
  <2>3. ASSUME NEW c \in Requests, Throw(t, c) PROVE Usable'
    <3>1. UNCHANGED <<flight, valid, lapsed, cut, presented, twice>>
      BY <2>3 DEF Throw, server, history
    <3>2. CASE c = Me
      BY <2>3, <3>1, <3>2, DropKeeps DEF Throw
    <3>3. CASE c # Me
      BY <2>3, <3>1, <3>3, LapseKeeps DEF Throw
    <3> QED BY <3>2, <3>3
  <2> QED BY <1>1, <2>1, <2>2, <2>3, SignInKeeps, LoadKeeps, AskKeeps, LoseKeeps, EndKeeps,
             FailKeeps DEF Page, Requests
<1>2. ASSUME NEW t \in Tabs, Rotate(t) PROVE Usable'
  BY <1>2, RotateKeeps
<1>3. CASE RotateForNobody \/ ExpireRefresh \/ EndLogout \/ ExpireAccess
  BY <1>3, LapseKeeps
     DEF RotateForNobody, ExpireRefresh, EndLogout, ExpireAccess, Lapse, storage, server, history
<1>4. CASE UNCHANGED vars
  BY <1>4, LapseKeeps DEF vars, storage, server, history
<1> QED BY <1>1, <1>2, <1>3, <1>4 DEF Next
-----------------------------------------------------------------------------
LEMMA Invariant == Spec => []IInv
<1>1. IInv /\ [Next]_vars => IInv'
  BY TypesStep, UsableStep DEF IInv
<1> QED BY InitHolds, <1>1, PTL DEF Spec

\* The session is well typed, with any number of tabs.
THEOREM Typing == Spec => []TypeOK
<1>1. IInv => TypeOK
  BY DEF IInv
<1> QED BY Invariant, <1>1, PTL

\* The browser never keeps a refresh token that its own calls have used up,
\* however many tabs share it.
THEOREM KeptTokens == Spec => []StoredIsUsable
<1>1. IInv => StoredIsUsable
  BY DEF IInv, Usable
<1> QED BY Invariant, <1>1, PTL

\* No tab sends a refresh token twice, however many requests it has under way.
THEOREM OneCallPerToken == Spec => []OncePerToken
<1>1. IInv => OncePerToken
  BY DEF IInv, Usable
<1> QED BY Invariant, <1>1, PTL
=============================================================================
