---------------------------- MODULE AuthSession ----------------------------
(***************************************************************************)
(* The session of the browser: api.ts (request, download, the refresh of   *)
(* the access token behind a shared promise), auth.tsx (the provider's     *)
(* state and its storage listener) and the server's tokens.                *)
(*                                                                         *)
(* Tabs run concurrently and share localStorage.  A task of a tab runs to  *)
(* its next await without other tabs' writes in between, and a promise     *)
(* wakes everyone waiting for it in one turn.  A request is answered in    *)
(* one step with its arrival.  An access token may expire at any time, so  *)
(* any first try may be refused; a refresh token, once refused, stays so.  *)
(***************************************************************************)
EXTENDS Naturals, Sequences

CONSTANTS
  Tabs,
  Accounts,
  Calls,    \* bound: calls of the API under way at a time
  Tokens,   \* bound: sign-ins and refreshes together
  MaxNews,  \* bound: storage events a tab has still to handle
  None      \* nothing stored, no call, nobody

ASSUME MaxNewsAssumption == MaxNews \in Nat \ {0, 1}
ASSUME NoneAssumption == None \notin Accounts \cup Tokens \cup Calls

VARIABLES
  owner,     \* the account a token was issued for; None: not issued
  goodR,     \* refresh tokens the server accepts
  stored,    \* localStorage: access and refresh token, user
  view,      \* what each tab's AuthProvider has: "token", "user"
  news,      \* storage events each tab has still to handle
  calls,     \* the call in each slot: its tab, whether it carries a token
  promise,   \* _refreshPromise of each tab: the call that started it
  trip,      \* the refresh token each call is asking a refresh with
  disturbed  \* history: somebody logged out, or a refresh token expired,
             \* or the answer to a refresh was lost

vars == <<owner, goodR, stored, view, news, calls, promise, trip, disturbed>>
server == <<owner, goodR>>
provider == <<view, news>>

-----------------------------------------------------------------------------
Or(S) == S \cup {None}

CallRecords == [tab : Tabs, token : BOOLEAN, retry : BOOLEAN,
                state : {"asked", "waiting", "expired"}]
ASSUME NoCallAssumption == None \notin CallRecords

(* What the listener tells apart in an event. *)
Events == {"token", "noToken", "user"}

TypeOK ==
  /\ owner \in [Tokens -> Or(Accounts)]
  /\ goodR \subseteq Tokens
  /\ stored \in [access : Or(Tokens), refresh : Or(Tokens), user : Or(Accounts)]
  /\ view \in [Tabs -> SUBSET {"token", "user"}]
  /\ news \in [Tabs -> Seq(Events)]
  /\ calls \in [Calls -> Or(CallRecords)]
  /\ promise \in [Tabs -> Or(Calls)]
  /\ trip \in [Calls -> Or(Tokens)]
  /\ disturbed \in BOOLEAN

Nothing == [access |-> None, refresh |-> None, user |-> None]

(* Every tab is open and nobody has signed in. *)
Init ==
  /\ owner = [n \in Tokens |-> None]
  /\ goodR = {}
  /\ stored = Nothing
  /\ view = [t \in Tabs |-> {}]
  /\ news = [t \in Tabs |-> << >>]
  /\ calls = [c \in Calls |-> None]
  /\ promise = [t \in Tabs |-> None]
  /\ trip = [c \in Calls |-> None]
  /\ disturbed = FALSE

-----------------------------------------------------------------------------
(* localStorage.setItem/removeItem: a key that changes is an event in the  *)
(* other tabs.  A removed user and the refresh token mean nothing to them. *)
Changes(s) ==
  (IF s.access = stored.access THEN << >>
   ELSE IF s.access = None THEN <<"noToken">> ELSE <<"token">>)
  \o (IF s.user \in {stored.user, None} THEN << >> ELSE <<"user">>)

Store(t, s) ==
  /\ stored' = s
  /\ news' = [x \in Tabs |-> IF x = t THEN news[x] ELSE news[x] \o Changes(s)]
  /\ \A x \in Tabs : Len(news'[x]) <= MaxNews

In(c, states) == calls[c] # None /\ calls[c].state \in states

Waiting(t) == {c \in Calls : In(c, {"waiting"}) /\ calls[c].tab = t}

(* Everyone who waited sends the request again, with the new token. *)
Retry(t) ==
  calls' = [c \in Calls |->
              IF c \in Waiting(t)
              THEN [calls[c] EXCEPT !.state = "asked", !.retry = TRUE, !.token = TRUE]
              ELSE calls[c]]

-----------------------------------------------------------------------------
(* The server: _token_response, verify_access_token, refresh_access_token. *)
Issue(n, u) ==
  /\ owner[n] = None
  /\ owner' = [owner EXCEPT ![n] = u]

(* Mutant: a refresh returns a new refresh token and revokes the old one. *)
AfterRefresh_Rotated(r, n) == [refresh |-> n, accepted |-> (goodR \cup {n}) \ {r}]

(* A refresh returns the refresh token it was asked with. *)
AfterRefresh(r, n) == [refresh |-> r, accepted |-> goodR]

ExpireRefresh(n) ==
  /\ n \in goodR
  /\ goodR' = goodR \ {n}
  /\ disturbed' = TRUE
  /\ UNCHANGED <<owner, stored, provider, calls, promise, trip>>

-----------------------------------------------------------------------------
(* AuthProvider.  A mounted tab shows what is stored (the pages ask for a  *)
(* sign-in unless there are a token and a user).                           *)
Hydrated == (IF stored.access = None THEN {} ELSE {"token"}) \cup
            (IF stored.user = None THEN {} ELSE {"user"})

(* isAuthenticated *)
SignedIn(t) == view[t] = {"token", "user"}

(* Leaving the page ends its calls, its promise and its sign-in. *)
Reload(t) ==
  /\ view' = [view EXCEPT ![t] = Hydrated]
  /\ news' = [news EXCEPT ![t] = << >>]
  /\ calls' = [c \in Calls |-> IF calls[c] # None /\ calls[c].tab = t THEN None ELSE calls[c]]
  /\ trip' = [c \in Calls |-> IF calls[c] # None /\ calls[c].tab = t THEN None ELSE trip[c]]
  /\ promise' = [promise EXCEPT ![t] = None]
  /\ UNCHANGED <<server, stored, disturbed>>

(* login and register.  The form is there until the redirect of a tab that *)
(* is signed in, and the answer comes later: whatever the tab shows by then. *)
(* A sign-in that fails changes nothing, not even on a 401.                 *)
SignIn(t, u, n) ==
  /\ Issue(n, u)
  /\ goodR' = goodR \cup {n}
  /\ Store(t, [access |-> n, refresh |-> n, user |-> u])
  /\ view' = [view EXCEPT ![t] = {"token", "user"}]
  /\ UNCHANGED <<calls, promise, trip, disturbed>>

(* logout *)
LogOut(t) ==
  /\ Store(t, Nothing)
  /\ view' = [view EXCEPT ![t] = {}]

UserLogsOut(t) ==
  /\ SignedIn(t)
  /\ LogOut(t)
  /\ disturbed' = TRUE
  /\ UNCHANGED <<server, calls, promise, trip>>

(* handleStorageChange: an access token that has gone is a logout. *)
HandleNews(t) ==
  /\ news[t] # << >>
  /\ news' = [news EXCEPT ![t] = Tail(@)]
  /\ view' = [view EXCEPT ![t] = IF Head(news[t]) = "noToken" THEN {} ELSE @ \cup {Head(news[t])}]
  /\ UNCHANGED <<server, stored, calls, promise, trip, disturbed>>

-----------------------------------------------------------------------------
(* request and download. *)
Send(t, c) ==
  /\ ~In(c, {"asked", "waiting"})
  /\ calls' = [calls EXCEPT ![c] = [tab |-> t, token |-> stored.access # None, retry |-> FALSE,
                                    state |-> "asked"]]
  /\ UNCHANGED <<server, stored, provider, promise, trip, disturbed>>

(* Any answer but a 401 of the first try: a result or an error, and what   *)
(* follows is the caller's.                                                *)
Settle(c) ==
  /\ In(c, {"asked"})
  /\ calls' = [calls EXCEPT ![c] = None]
  /\ UNCHANGED <<server, stored, provider, promise, trip, disturbed>>

(* Mutant: every refused call starts a refresh of its own. *)
Shared_Never(t) == FALSE

(* A refresh of this tab is under way: wait for it too. *)
Shared(t) == promise[t] # None

(* A 401: refreshAccessToken; with no refresh token it throws at once, and *)
(* the callback logs the tab out.                                          *)
Refused(c) ==
  /\ In(c, {"asked"}) /\ ~calls[c].retry
  /\ LET t == calls[c].tab
         begins == ~Shared(t) /\ stored.refresh # None
         throws == ~Shared(t) /\ stored.refresh = None
     IN /\ calls' = [calls EXCEPT ![c].state = IF throws THEN "expired" ELSE "waiting"]
        /\ promise' = IF begins THEN [promise EXCEPT ![t] = c] ELSE promise
        /\ trip' = IF begins THEN [trip EXCEPT ![c] = stored.refresh] ELSE trip
        /\ IF throws THEN LogOut(t) ELSE UNCHANGED <<stored, view, news>>
  /\ UNCHANGED <<server, disturbed>>

(* Mutant: the promise of a refresh that is over is kept. *)
EndTrip_Kept(c) ==
  /\ trip[c] # None
  /\ trip' = [trip EXCEPT ![c] = None]
  /\ UNCHANGED promise

(* The refresh that c started is over: the promise is cleared. *)
EndTrip(c) ==
  /\ trip[c] # None
  /\ trip' = [trip EXCEPT ![c] = None]
  /\ promise' = [promise EXCEPT ![calls[c].tab] = None]

(* Mutant: only the access token of the answer is stored. *)
Saved_Access(n, r, u) == [stored EXCEPT !.access = n]

(* What refreshAccessToken stores. *)
Saved(n, r, u) == [access |-> n, refresh |-> r, user |-> u]

(* The new token is stored, and everyone who waited retries with it.  The  *)
(* provider of this tab hears nothing: events go to other tabs only.       *)
Refreshed(c, n) ==
  /\ EndTrip(c)
  /\ trip[c] \in goodR
  /\ LET u == owner[trip[c]]
         answer == AfterRefresh(trip[c], n)
     IN /\ Issue(n, u)
        /\ goodR' = answer.accepted
        /\ Store(calls[c].tab, Saved(n, answer.refresh, u))
  /\ Retry(calls[c].tab)
  /\ UNCHANGED <<view, disturbed>>

(* The refresh throws: the callback logs the tab out, and everyone who     *)
(* waited ends with 'Session expired'.                                     *)
RefreshThrows(c) ==
  /\ EndTrip(c)
  /\ LogOut(calls[c].tab)
  /\ calls' = [x \in Calls |-> IF x \in Waiting(calls[c].tab)
                               THEN [calls[x] EXCEPT !.state = "expired"] ELSE calls[x]]
  /\ UNCHANGED server

RefreshRefused(c) ==
  /\ trip[c] # None /\ trip[c] \notin goodR
  /\ RefreshThrows(c)
  /\ UNCHANGED disturbed

(* The fetch of the refresh rejects, or the server answers with an error.  *)
RefreshLost(c) ==
  /\ RefreshThrows(c)
  /\ disturbed' = TRUE

RefreshEnds(c) == RefreshRefused(c) \/ RefreshLost(c) \/ \E n \in Tokens : Refreshed(c, n)

-----------------------------------------------------------------------------
Next ==
  \/ \E n \in Tokens : ExpireRefresh(n)
  \/ \E t \in Tabs : \/ Reload(t) \/ UserLogsOut(t) \/ HandleNews(t)
                     \/ \E u \in Accounts, n \in Tokens : SignIn(t, u, n)
                     \/ \E c \in Calls : Send(t, c)
  \/ \E c \in Calls : Settle(c) \/ Refused(c) \/ RefreshEnds(c)

Spec == Init /\ [][Next]_vars
-----------------------------------------------------------------------------
(* What the session promises                                               *)

(* Only one refresh request of a tab is under way, however many calls are  *)
(* refused at once (refreshAccessToken's shared promise).                  *)
OneRefreshPerTab ==
  \A c, d \in Calls :
    trip[c] # None /\ trip[d] # None /\ calls[c].tab = calls[d].tab => c = d

(* The three keys of localStorage always belong to one account, whatever   *)
(* refresh of one account comes back after a sign-in with another.         *)
StoreIsOneAccounts ==
  stored # Nothing => /\ stored.user # None
                      /\ stored.access # None /\ owner[stored.access] = stored.user
                      /\ stored.refresh # None /\ owner[stored.refresh] = stored.user

(* While nobody logs out, no refresh token expires and no answer to a      *)
(* refresh is lost, no tab is thrown out and no call that carried a token  *)
(* ends with 'Session expired', though tabs refresh with the same refresh  *)
(* token at the same time.                                                 *)
KeptSignedIn ==
  [][~disturbed' => /\ \A t \in Tabs : SignedIn(t) => SignedIn(t)'
                    /\ \A c \in Calls : calls[c] # None /\ calls[c].token
                                          /\ calls[c].state # "expired"
                                        => calls'[c] = None \/ calls'[c].state # "expired"]_vars

(* registerAuthFailureCallback: the callback "fires when tokens are        *)
(* unrecoverable (refresh token expired or invalid)".                      *)
LogoutMeansUnrecoverable ==
  [][\A c \in Calls : trip[c] # None /\ calls'[c] # None /\ calls'[c].state = "expired"
                        => trip[c] \notin goodR]_vars

-----------------------------------------------------------------------------
(* The inductive invariant.                                                *)

(* A promise is the refresh of a call of its tab, and whoever waits has a  *)
(* promise to wait for: nobody is left behind.                             *)
PromisesHold ==
  /\ \A c \in Calls : trip[c] # None => /\ In(c, {"waiting"})
                                        /\ promise[calls[c].tab] = c
                                        /\ owner[trip[c]] # None
  /\ \A t \in Tabs : promise[t] # None => trip[promise[t]] # None /\ calls[promise[t]].tab = t
  /\ \A c \in Calls : In(c, {"waiting"}) => promise[calls[c].tab] # None

UInv == TypeOK /\ PromisesHold /\ StoreIsOneAccounts

(* What KeptSignedIn needs besides UInv: as long as nothing has disturbed  *)
(* the session, every refresh token in use is accepted, no tab hears of a  *)
(* logout, and whoever has seen a token has it from a store that is full.  *)
KeptInv ==
  ~disturbed =>
    /\ stored.refresh \in Or(goodR)
    /\ \A c \in Calls : trip[c] \in Or(goodR)
    /\ \A t \in Tabs : news[t] \in Seq({"token", "user"})
    /\ stored = Nothing => /\ \A t \in Tabs : view[t] = {} /\ news[t] = << >>
                           /\ \A c \in Calls : calls[c] # None /\ calls[c].token
                                                => calls[c].state = "expired"
=============================================================================
