--------------------------- MODULE ClientSession ---------------------------
(***************************************************************************)
(* The web client's session: the token pair in localStorage, which all     *)
(* tabs share, and in each tab the refresh call that its requests share.   *)
(*                                                                         *)
(* A tab runs one callback at a time; other tabs, the server and the       *)
(* network go on between any two of them.  Refresh tokens are numbered in  *)
(* the order the server issues them.  Of the server only the rotation of   *)
(* refresh tokens is here (see Accounts for the rest).                     *)
(***************************************************************************)
EXTENDS Naturals, FiniteSets

CONSTANTS
  Tabs,
  Calls, Me,    \* the requests of a page, and the one it starts with
  MaxTokens     \* bound: refresh tokens issued in a behaviour

ASSUME SessionAssumption == Me \notin Calls /\ MaxTokens \in Nat \ {0}

VARIABLES
  access,     \* localStorage: "none", "fresh" or "stale"
  stored,     \* localStorage: the refresh token, or 0
  user,       \* [Tabs -> BOOLEAN]: the tab shows a signed-in user
  call,       \* [Tabs -> [Requests -> CallStates]]
  flight,     \* [Tabs -> record]: the refresh call: its token, and what became of it
  issued,     \* server: how many refresh tokens it has issued
  valid,      \* server: those that can be redeemed
  logouts,    \* logout calls on their way
  lapsed,     \* history: tokens that have expired, or that a logout has revoked
  cut,        \* history: tokens whose refresh call the page did not live to see
  presented,  \* history: <<tab, token>>: the tab has sent the token to be refreshed
  twice       \* history: it has done so again

storage == <<access, stored>>
server  == <<issued, valid, logouts, lapsed>>
history == <<cut, presented, twice>>
vars == <<storage, user, call, flight, server, history>>

Requests == Calls \cup {Me}

\* "good" and "denied": sent, with an access token that the server accepts or
\* does not; "waiting" for the refresh call, to be sent again.
CallStates == {"idle", "good", "denied", "waiting"}
NoFlight == [token |-> 0, at |-> "none", new |-> 0]

\* A 401 without a refresh token is not worth a refresh call.  Mutant: it is.
RefreshAnyway == TRUE
Refreshable == stored # 0

Send(good, bad) == IF access = "fresh" THEN good ELSE bad
-----------------------------------------------------------------------------
Init ==
  /\ access = "none" /\ stored = 0
  /\ user = [t \in Tabs |-> FALSE]
  /\ call = [t \in Tabs |-> [c \in Requests |-> "idle"]]
  /\ flight = [t \in Tabs |-> NoFlight]
  /\ issued = 0 /\ valid = {} /\ logouts = {} /\ lapsed = {}
  /\ cut = {} /\ presented = {} /\ twice = {}

\* A login or a Telegram launch is answered: tokens.set and setUser.
SignIn(t) ==
  /\ ~user[t] /\ call[t][Me] = "idle"
  /\ issued < MaxTokens
  /\ issued' = issued + 1
  /\ valid' = valid \cup {issued + 1}
  /\ stored' = issued + 1 /\ access' = "fresh"
  /\ user' = [user EXCEPT ![t] = TRUE]
  /\ UNCHANGED <<call, flight, logouts, lapsed, history>>

\* The tokens are dropped first, the server is told afterwards.
SignOut(t) ==
  /\ user[t]
  /\ stored' = 0 /\ access' = "none"
  /\ user' = [user EXCEPT ![t] = FALSE]
  /\ logouts' = logouts \cup ({stored} \ {0})
  /\ UNCHANGED <<call, flight, issued, valid, lapsed, history>>

\* A page opens or is loaded again: whatever it was doing is forgotten, and it
\* asks who it is if anything is stored.
Load(t) ==
  /\ user' = [user EXCEPT ![t] = FALSE]
  /\ call' = [call EXCEPT ![t] =
       [c \in Requests |->
          IF c = Me /\ (stored # 0 \/ access # "none") THEN Send("good", "denied") ELSE "idle"]]
  /\ flight' = [flight EXCEPT ![t] = NoFlight]
  /\ cut' = cut \cup ({flight[t].token} \ {0})
  /\ UNCHANGED <<storage, server, presented, twice>>
-----------------------------------------------------------------------------
(* request *)

Call(t, c) ==
  /\ call[t][c] = "idle"
  /\ call' = [call EXCEPT ![t][c] = Send("good", "denied")]
  /\ UNCHANGED <<storage, user, flight, server, history>>

Return(t, c) ==
  /\ call[t][c] = "good"
  /\ call' = [call EXCEPT ![t][c] = "idle"]
  /\ user' = [user EXCEPT ![t] = @ \/ c = Me]
  /\ UNCHANGED <<storage, flight, server, history>>

\* A request throws: no connection, a 401 that is not worth a refresh, any
\* other error.  The page's first request then drops the tokens.
Throw(t, c) ==
  /\ call[t][c] \in {"good", "denied"}
  /\ call' = [call EXCEPT ![t][c] = "idle"]
  /\ stored' = IF c = Me THEN 0 ELSE stored
  /\ access' = IF c = Me THEN "none" ELSE access
  /\ UNCHANGED <<user, flight, server, history>>

\* A 401: the tab's first one makes the refresh call, others wait for it too.
Ask(t, c) ==
  /\ flight' = [flight EXCEPT ![t] = [token |-> stored, at |-> "asked", new |-> 0]]
  /\ call' = [call EXCEPT ![t][c] = "waiting"]
  /\ presented' = presented \cup {<<t, stored>>}
  /\ twice' = twice \cup (presented \cap {<<t, stored>>})
  /\ UNCHANGED <<storage, user, server, cut>>

StartRefresh(t, c) ==
  /\ call[t][c] = "denied" /\ Refreshable
  /\ flight[t] = NoFlight
  /\ Ask(t, c)

\* Mutant: a refresh call for each 401.
AskAnyway(t, c) ==
  /\ call[t][c] = "denied" /\ Refreshable
  /\ flight[t] # NoFlight
  /\ Ask(t, c)

JoinRefresh(t, c) ==
  /\ call[t][c] = "denied" /\ Refreshable
  /\ flight[t] # NoFlight
  /\ call' = [call EXCEPT ![t][c] = "waiting"]
  /\ UNCHANGED <<storage, user, flight, server, history>>

\* The refresh call fails: refused, limited, or the connection is lost, before
\* or after the server has rotated the token.
LoseRefresh(t) ==
  /\ flight[t].at \in {"asked", "ok"}
  /\ flight' = [flight EXCEPT ![t].at = "failed"]
  /\ UNCHANGED <<storage, user, call, server, history>>

Release(t, state) ==
  call' = [call EXCEPT ![t] = [c \in Requests |-> IF @[c] = "waiting" THEN state ELSE @[c]]]

\* The new tokens are stored and everybody who waited tries once more.  Mutant:
\* only the access token is stored.
EndRefreshKeepingOld(t) ==
  /\ flight[t].at = "ok"
  /\ access' = "fresh"
  /\ Release(t, "good")
  /\ flight' = [flight EXCEPT ![t] = NoFlight]
  /\ UNCHANGED <<stored, user, server, history>>

EndRefresh(t) ==
  /\ flight[t].at = "ok"
  /\ stored' = flight[t].new /\ access' = "fresh"
  /\ Release(t, "good")
  /\ flight' = [flight EXCEPT ![t] = NoFlight]
  /\ UNCHANGED <<user, server, history>>

\* Everybody who waited drops the tokens, whichever are stored by now.
FailRefresh(t) ==
  /\ flight[t].at = "failed"
  /\ stored' = 0 /\ access' = "none"
  /\ user' = [user EXCEPT ![t] = FALSE]
  /\ Release(t, "idle")
  /\ flight' = [flight EXCEPT ![t] = NoFlight]
  /\ UNCHANGED <<server, history>>
-----------------------------------------------------------------------------
(* The server, and time *)

Rotate(t) ==
  /\ flight[t].at = "asked" /\ flight[t].token \in valid
  /\ issued < MaxTokens
  /\ issued' = issued + 1
  /\ valid' = (valid \ {flight[t].token}) \cup {issued + 1}
  /\ flight' = [flight EXCEPT ![t] = [token |-> @.token, at |-> "ok", new |-> issued + 1]]
  /\ UNCHANGED <<storage, user, call, logouts, lapsed, history>>

\* The call of a page that is gone arrives all the same.
RotateForNobody ==
  /\ \E n \in cut \cap valid : valid' = valid \ {n}
  /\ UNCHANGED <<storage, user, call, flight, issued, logouts, lapsed, history>>

Lapse(n) ==
  /\ n \in valid
  /\ valid' = valid \ {n}
  /\ lapsed' = lapsed \cup {n}

ExpireRefresh ==
  /\ \E n \in valid : Lapse(n)
  /\ UNCHANGED <<storage, user, call, flight, issued, logouts, history>>

\* A logout is done, does nothing any more, or gets lost: nobody minds.
EndLogout ==
  /\ \E n \in logouts :
       /\ logouts' = logouts \ {n}
       /\ Lapse(n) \/ UNCHANGED <<valid, lapsed>>
  /\ UNCHANGED <<storage, user, call, flight, issued, history>>

ExpireAccess ==
  /\ access = "fresh"
  /\ access' = "stale"
  /\ UNCHANGED <<stored, user, call, flight, server, history>>
-----------------------------------------------------------------------------
Page(t) ==
  \/ SignIn(t) \/ SignOut(t) \/ Load(t)
  \/ \E c \in Calls : Call(t, c)
  \/ \E c \in Requests : Return(t, c) \/ Throw(t, c) \/ StartRefresh(t, c) \/ JoinRefresh(t, c)
  \/ LoseRefresh(t) \/ EndRefresh(t) \/ FailRefresh(t)

Next ==
  \/ \E t \in Tabs : Page(t) \/ Rotate(t)
  \/ RotateForNobody \/ ExpireRefresh \/ EndLogout \/ ExpireAccess

Spec == Init /\ [][Next]_vars
-----------------------------------------------------------------------------
TypeOK ==
  /\ access \in {"none", "fresh", "stale"} /\ stored \in 0..issued
  /\ user \in [Tabs -> BOOLEAN] /\ call \in [Tabs -> [Requests -> CallStates]]
  /\ flight \in [Tabs -> [token : 0..issued, at : {"none", "asked", "ok", "failed"},
                          new : 0..issued]]
  /\ issued \in 0..MaxTokens
  /\ valid \subseteq 1..issued /\ logouts \subseteq 1..issued
  /\ lapsed \subseteq 1..issued /\ cut \subseteq 1..issued
  /\ presented \subseteq Tabs \X (1..issued) /\ twice \subseteq presented

\* The browser never keeps a refresh token that its own refresh calls have used
\* up: what is stored can be redeemed, is being redeemed by a tab, or came to
\* its end in another way (expiry, logout, a page closed during the call).
StoredIsUsable ==
  stored = 0 \/ stored \in valid \cup lapsed \cup cut \cup {flight[t].token : t \in Tabs}

\* "Concurrent 401s share one refresh call": no tab sends a token to be refreshed
\* twice, unless a page was loaded again during the first call.  Two tabs may
\* send the same one.
OncePerToken == twice \subseteq Tabs \X cut
=============================================================================
