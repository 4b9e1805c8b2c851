------------------------- MODULE AuthSessionProofs -------------------------
(***************************************************************************)
(* AuthSession for any number of tabs, accounts, calls and tokens: one     *)
(* refresh per tab, nobody left waiting, one account in localStorage.      *)
(***************************************************************************)
EXTENDS AuthSession, SequenceTheorems, TLAPS

(* What is written to localStorage is of the right kind, and so are the    *)
(* events it causes.                                                       *)
LEMMA StoreType ==
  ASSUME TypeOK, NEW t \in Tabs,
         NEW s \in [access : Or(Tokens), refresh : Or(Tokens), user : Or(Accounts)],
         Store(t, s)
  PROVE  /\ stored' \in [access : Or(Tokens), refresh : Or(Tokens), user : Or(Accounts)]
         /\ news' \in [Tabs -> Seq(Events)]
  <1>1. Changes(s) \in Seq(Events)
    <2> DEFINE a == IF s.access = stored.access THEN << >>
                    ELSE IF s.access = None THEN <<"noToken">> ELSE <<"token">>
               b == IF s.user \in {stored.user, None} THEN << >> ELSE <<"user">>
    <2>1. a \in Seq(Events) /\ b \in Seq(Events)
      <3>1. \A e \in Events : <<e>> \in Seq(Events)
        OBVIOUS
      <3>2. {"token", "noToken", "user"} \subseteq Events
        BY DEF Events
      <3>3. << >> \in Seq(Events)
        OBVIOUS
      <3> QED
        BY <3>1, <3>2, <3>3
    <2>2. Changes(s) = a \o b
      BY DEF Changes
    <2> HIDE DEF a, b
    <2>3. a \o b \in Seq(Events)
      BY <2>1, ConcatProperties
    <2> QED
      BY <2>2, <2>3
  <1>2. \A x \in Tabs : news[x] \o Changes(s) \in Seq(Events)
    BY <1>1, ConcatProperties DEF TypeOK
  <1> QED
    BY <1>2 DEF Store, TypeOK

LEMMA NothingIsStorable ==
  Nothing \in [access : Or(Tokens), refresh : Or(Tokens), user : Or(Accounts)]
  BY DEF Nothing, Or

LEMMA CallsType ==
  ASSUME TypeOK, NEW c \in Calls, calls[c] # None
  PROVE  /\ calls[c] \in CallRecords /\ calls[c].tab \in Tabs
         /\ \A st \in {"asked", "waiting", "expired"} :
              [calls[c] EXCEPT !.state = st] \in CallRecords
         /\ [calls[c] EXCEPT !.state = "asked", !.retry = TRUE, !.token = TRUE] \in CallRecords
  <1>1. calls[c] \in CallRecords
    BY DEF TypeOK, Or
  <1> QED
    BY <1>1 DEF CallRecords

-----------------------------------------------------------------------------
(* Types *)

LEMMA LogOutType ==
  ASSUME TypeOK, NEW t \in Tabs, LogOut(t)
  PROVE  /\ stored' \in [access : Or(Tokens), refresh : Or(Tokens), user : Or(Accounts)]
         /\ news' \in [Tabs -> Seq(Events)]
         /\ view' \in [Tabs -> SUBSET {"token", "user"}]
  <1>1. view' \in [Tabs -> SUBSET {"token", "user"}]
    BY DEF LogOut, TypeOK
  <1> QED
    BY <1>1, NothingIsStorable, StoreType DEF LogOut

LEMMA EndTripType ==
  ASSUME TypeOK, PromisesHold, NEW c \in Calls, EndTrip(c)
  PROVE  /\ calls[c] # None /\ calls[c].tab \in Tabs /\ trip[c] \in Tokens
         /\ trip' \in [Calls -> Or(Tokens)] /\ promise' \in [Tabs -> Or(Calls)]
  <1>1. calls[c] # None
    BY DEF EndTrip, PromisesHold, In
  <1>2. calls[c].tab \in Tabs
    BY <1>1, CallsType
  <1> QED
    BY <1>1, <1>2 DEF EndTrip, TypeOK, Or

LEMMA TypeStep ==
  ASSUME TypeOK, PromisesHold, Next
  PROVE  TypeOK'
  <1>1. ASSUME NEW n \in Tokens, ExpireRefresh(n)
        PROVE  TypeOK'
    BY <1>1 DEF ExpireRefresh, TypeOK, provider
  <1>2. ASSUME NEW t \in Tabs, Reload(t)
        PROVE  TypeOK'
    <2>1. Hydrated \in SUBSET {"token", "user"}
      BY DEF Hydrated
    <2>2. << >> \in Seq(Events)
      OBVIOUS
    <2>3. /\ view' \in [Tabs -> SUBSET {"token", "user"}]
          /\ news' \in [Tabs -> Seq(Events)]
      BY <1>2, <2>1, <2>2 DEF Reload, TypeOK
    <2>4. /\ calls' \in [Calls -> Or(CallRecords)]
          /\ trip' \in [Calls -> Or(Tokens)]
          /\ promise' \in [Tabs -> Or(Calls)]
      BY <1>2 DEF Reload, TypeOK, Or
    <2> QED
      BY <1>2, <2>3, <2>4 DEF Reload, TypeOK, server
  <1>3. ASSUME NEW t \in Tabs, UserLogsOut(t)
        PROVE  TypeOK'
    BY <1>3, LogOutType DEF UserLogsOut, TypeOK, server
  <1>4. ASSUME NEW t \in Tabs, HandleNews(t)
        PROVE  TypeOK'
    <2>1. news[t] \in Seq(Events) /\ news[t] # << >>
      BY <1>4 DEF HandleNews, TypeOK
    <2>2. Head(news[t]) \in Events /\ Tail(news[t]) \in Seq(Events)
      BY <2>1
    <2>3. news' \in [Tabs -> Seq(Events)]
      BY <1>4, <2>2 DEF HandleNews, TypeOK
    <2>4. view' \in [Tabs -> SUBSET {"token", "user"}]
      BY <1>4, <2>2 DEF HandleNews, TypeOK, Events
    <2> QED
      BY <1>4, <2>3, <2>4 DEF HandleNews, TypeOK, server
  <1>5. ASSUME NEW t \in Tabs, NEW u \in Accounts, NEW n \in Tokens, SignIn(t, u, n)
        PROVE  TypeOK'
    <2> DEFINE s == [access |-> n, refresh |-> n, user |-> u]
    <2>1. s \in [access : Or(Tokens), refresh : Or(Tokens), user : Or(Accounts)]
      BY DEF Or
    <2>2. Store(t, s)
      BY <1>5 DEF SignIn
    <2>3. /\ stored' \in [access : Or(Tokens), refresh : Or(Tokens), user : Or(Accounts)]
          /\ news' \in [Tabs -> Seq(Events)]
      BY <2>1, <2>2, StoreType
    <2>4. owner' \in [Tokens -> Or(Accounts)] /\ goodR' \subseteq Tokens
      BY <1>5 DEF SignIn, Issue, TypeOK, Or
    <2>5. view' \in [Tabs -> SUBSET {"token", "user"}]
      BY <1>5 DEF SignIn, TypeOK
    <2> QED
      BY <1>5, <2>3, <2>4, <2>5 DEF SignIn, TypeOK
  <1>6. ASSUME NEW t \in Tabs, NEW c \in Calls, Send(t, c)
        PROVE  TypeOK'
    <2>1. [tab |-> t, token |-> stored.access # None, retry |-> FALSE, state |-> "asked"]
            \in CallRecords
      BY DEF CallRecords
    <2>2. calls' \in [Calls -> Or(CallRecords)]
      BY <1>6, <2>1 DEF Send, TypeOK, Or
    <2> QED
      BY <1>6, <2>2 DEF Send, TypeOK, server, provider
  <1>7. ASSUME NEW c \in Calls, Settle(c)
        PROVE  TypeOK'
    <2>1. calls' \in [Calls -> Or(CallRecords)]
      BY <1>7 DEF Settle, TypeOK, Or
    <2> QED
      BY <1>7, <2>1 DEF Settle, TypeOK, server, provider
  <1>8. ASSUME NEW c \in Calls, Refused(c)
        PROVE  TypeOK'
    <2> DEFINE t == calls[c].tab
    <2>1. calls[c] # None /\ t \in Tabs
      BY <1>8, CallsType DEF Refused, In
    <2>2. calls' \in [Calls -> Or(CallRecords)]
      BY <1>8, <2>1, CallsType DEF Refused, TypeOK, Or
    <2>3. promise' \in [Tabs -> Or(Calls)] /\ trip' \in [Calls -> Or(Tokens)]
      BY <1>8, <2>1 DEF Refused, TypeOK, Or
    <2>4. LogOut(t) \/ UNCHANGED <<stored, view, news>>
      BY <1>8 DEF Refused
    <2>5. /\ stored' \in [access : Or(Tokens), refresh : Or(Tokens), user : Or(Accounts)]
          /\ news' \in [Tabs -> Seq(Events)]
          /\ view' \in [Tabs -> SUBSET {"token", "user"}]
      BY <2>1, <2>4, LogOutType DEF TypeOK
    <2>6. UNCHANGED <<server, disturbed>>
      BY <1>8 DEF Refused
    <2> QED
      BY <2>2, <2>3, <2>5, <2>6 DEF TypeOK, server
  <1>9. ASSUME NEW c \in Calls, RefreshThrows(c), disturbed' \in BOOLEAN
        PROVE  TypeOK'
    <2>1. EndTrip(c) /\ LogOut(calls[c].tab) /\ UNCHANGED server
      BY <1>9 DEF RefreshThrows
    <2>2. /\ calls[c].tab \in Tabs
          /\ trip' \in [Calls -> Or(Tokens)] /\ promise' \in [Tabs -> Or(Calls)]
      BY <2>1, EndTripType
    <2>3. calls' \in [Calls -> Or(CallRecords)]
      BY <1>9, CallsType DEF RefreshThrows, Waiting, In, TypeOK, Or
    <2>4. /\ stored' \in [access : Or(Tokens), refresh : Or(Tokens), user : Or(Accounts)]
          /\ news' \in [Tabs -> Seq(Events)]
          /\ view' \in [Tabs -> SUBSET {"token", "user"}]
      BY <2>1, <2>2, LogOutType
    <2> QED
      BY <1>9, <2>1, <2>2, <2>3, <2>4 DEF TypeOK, server
  <1>10. ASSUME NEW c \in Calls, NEW n \in Tokens, Refreshed(c, n)
         PROVE  TypeOK'
    <2> DEFINE s == [access |-> n, refresh |-> trip[c], user |-> owner[trip[c]]]
    <2>1. /\ calls[c].tab \in Tabs /\ trip[c] \in Tokens
          /\ trip' \in [Calls -> Or(Tokens)] /\ promise' \in [Tabs -> Or(Calls)]
      BY <1>10, EndTripType DEF Refreshed
    <2>2. s \in [access : Or(Tokens), refresh : Or(Tokens), user : Or(Accounts)]
      BY <2>1 DEF TypeOK, Or
    <2>3. Store(calls[c].tab, s) /\ goodR' = goodR
      BY <1>10 DEF Refreshed, AfterRefresh, Saved
    <2>4. /\ stored' \in [access : Or(Tokens), refresh : Or(Tokens), user : Or(Accounts)]
          /\ news' \in [Tabs -> Seq(Events)]
      BY <2>1, <2>2, <2>3, StoreType
    <2>5. owner' \in [Tokens -> Or(Accounts)]
      BY <1>10, <2>1 DEF Refreshed, Issue, TypeOK
    <2>6. calls' \in [Calls -> Or(CallRecords)]
      BY <1>10, CallsType DEF Refreshed, Retry, Waiting, In, TypeOK, Or
    <2> QED
      BY <1>10, <2>1, <2>3, <2>4, <2>5, <2>6 DEF Refreshed, TypeOK
  <1>11. ASSUME NEW c \in Calls, RefreshEnds(c)
         PROVE  TypeOK'
    BY <1>9, <1>10, <1>11 DEF RefreshEnds, RefreshRefused, RefreshLost, TypeOK
  <1> QED
    BY <1>1, <1>2, <1>3, <1>4, <1>5, <1>6, <1>7, <1>8, <1>11 DEF Next
-----------------------------------------------------------------------------
(* Promises *)

(* A refresh that ends leaves no one of its tab waiting and touches no other tab. *)
LEMMA EndTripKeepsPromises ==
  ASSUME TypeOK, PromisesHold, NEW c \in Calls, EndTrip(c),
         \A x \in Waiting(calls[c].tab) : calls'[x] # None /\ calls'[x].state # "waiting",
         \A x \in Calls \ Waiting(calls[c].tab) : calls'[x] = calls[x],
         \A n \in Tokens : owner[n] # None => owner'[n] # None
  PROVE  PromisesHold'
  <1> DEFINE t == calls[c].tab
  <1>1. /\ In(c, {"waiting"}) /\ promise[t] = c /\ t \in Tabs
        /\ \A x \in Calls : trip'[x] = IF x = c THEN None ELSE trip[x]
        /\ \A s \in Tabs : promise'[s] = IF s = t THEN None ELSE promise[s]
    BY EndTripType DEF EndTrip, PromisesHold, TypeOK
  <1>2. \A x \in Calls : trip[x] # None => trip[x] \in Tokens
    BY DEF TypeOK, Or
  <1>3. \A x \in Calls : In(x, {"waiting"})' => calls'[x] = calls[x] /\ x \notin Waiting(t)
    BY DEF In
  <1>4. \A x \in Calls : In(x, {"waiting"}) => calls[x].tab \in Tabs
    BY CallsType DEF In
  <1>5. ASSUME NEW x \in Calls, trip'[x] # None
        PROVE  /\ In(x, {"waiting"})' /\ promise'[calls'[x].tab] = x /\ owner'[trip'[x]] # None
    <2>1. x # c /\ trip[x] # None /\ trip'[x] = trip[x]
      BY <1>1, <1>5
    <2>2. In(x, {"waiting"}) /\ promise[calls[x].tab] = x /\ owner[trip[x]] # None
      BY <2>1 DEF PromisesHold
    <2>3. calls[x].tab # t
      BY <1>1, <2>1, <2>2
    <2>4. calls'[x] = calls[x]
      BY <2>3 DEF Waiting
    <2> QED
      BY <1>1, <1>2, <1>4, <2>1, <2>2, <2>3, <2>4 DEF In
  <1>6. ASSUME NEW s \in Tabs, promise'[s] # None
        PROVE  trip'[promise'[s]] # None /\ calls'[promise'[s]].tab = s
    <2>1. s # t /\ promise'[s] = promise[s] /\ promise[s] \in Calls
      BY <1>1, <1>6 DEF TypeOK, Or
    <2>2. trip[promise[s]] # None /\ calls[promise[s]].tab = s
      BY <1>6, <2>1 DEF PromisesHold
    <2>3. promise[s] # c /\ calls'[promise[s]] = calls[promise[s]]
      BY <2>1, <2>2 DEF Waiting
    <2> QED
      BY <1>1, <2>1, <2>2, <2>3
  <1>7. ASSUME NEW x \in Calls, In(x, {"waiting"})'
        PROVE  promise'[calls'[x].tab] # None
    <2>1. calls'[x] = calls[x] /\ x \notin Waiting(t) /\ In(x, {"waiting"})
      BY <1>3, <1>7 DEF In
    <2>2. calls[x].tab # t /\ promise[calls[x].tab] # None
      BY <2>1 DEF Waiting, PromisesHold
    <2> QED
      BY <1>1, <1>4, <2>1, <2>2
  <1> QED
    BY <1>5, <1>6, <1>7 DEF PromisesHold

(* A step that keeps the trips and the promises, and every call but one    *)
(* that was not waiting and still is not.                                  *)
LEMMA QuietCalls ==
  ASSUME TypeOK, PromisesHold, NEW c \in Calls, UNCHANGED <<promise, trip, owner>>,
         ~In(c, {"waiting"}), ~In(c, {"waiting"})',
         \A x \in Calls \ {c} : calls'[x] = calls[x]
  PROVE  PromisesHold'
  <1>1. \A x \in Calls : trip[x] # None => x # c
    BY DEF PromisesHold
  <1>2. \A s \in Tabs : promise[s] # None => promise[s] \in Calls
    BY DEF TypeOK, Or
  <1> QED
    BY <1>1, <1>2 DEF PromisesHold, In

LEMMA PromiseStep ==
  ASSUME TypeOK, PromisesHold, StoreIsOneAccounts, Next
  PROVE  PromisesHold'
  <1>1. ASSUME UNCHANGED <<calls, promise, trip>>, UNCHANGED owner
        PROVE  PromisesHold'
    BY <1>1 DEF PromisesHold, In
  <1>2. ASSUME NEW t \in Tabs, Reload(t)
        PROVE  PromisesHold'
    <2>1. /\ \A x \in Calls : (calls[x] # None /\ calls[x].tab = t)
                                => calls'[x] = None /\ trip'[x] = None
          /\ \A x \in Calls : ~(calls[x] # None /\ calls[x].tab = t)
                                => calls'[x] = calls[x] /\ trip'[x] = trip[x]
          /\ \A s \in Tabs : promise'[s] = IF s = t THEN None ELSE promise[s]
          /\ owner' = owner
      BY <1>2 DEF Reload, server, TypeOK
    <2>2. \A x \in Calls : calls[x] # None => calls[x].tab \in Tabs
      BY CallsType
    <2>3. ASSUME NEW x \in Calls, trip'[x] # None
          PROVE  /\ In(x, {"waiting"})' /\ promise'[calls'[x].tab] = x /\ owner'[trip'[x]] # None
      BY <2>1, <2>2, <2>3 DEF PromisesHold, In
    <2>4. ASSUME NEW s \in Tabs, promise'[s] # None
          PROVE  trip'[promise'[s]] # None /\ calls'[promise'[s]].tab = s
      <3>1. s # t /\ promise'[s] = promise[s] /\ promise[s] \in Calls
        BY <2>1, <2>4 DEF TypeOK, Or
      <3>2. trip[promise[s]] # None /\ calls[promise[s]].tab = s
        BY <2>4, <3>1 DEF PromisesHold
      <3> QED
        BY <2>1, <3>1, <3>2
    <2>5. ASSUME NEW x \in Calls, In(x, {"waiting"})'
          PROVE  promise'[calls'[x].tab] # None
      BY <2>1, <2>2, <2>5 DEF PromisesHold, In
    <2> QED
      BY <2>3, <2>4, <2>5 DEF PromisesHold
  <1>3. ASSUME NEW t \in Tabs, NEW u \in Accounts, NEW n \in Tokens, SignIn(t, u, n)
        PROVE  PromisesHold'
    <2>1. /\ UNCHANGED <<calls, promise, trip>>
          /\ \A k \in Tokens : owner[k] # None => owner'[k] = owner[k]
      BY <1>3 DEF SignIn, Issue, TypeOK
    <2>2. \A x \in Calls : trip[x] # None => trip[x] \in Tokens
      BY DEF TypeOK, Or
    <2> QED
      BY <2>1, <2>2 DEF PromisesHold, In
  <1>4. ASSUME NEW t \in Tabs, NEW c \in Calls, Send(t, c)
        PROVE  PromisesHold'
    <2>1. ~In(c, {"waiting"}) /\ ~In(c, {"waiting"})'
      BY <1>4 DEF Send, In, TypeOK
    <2> QED
      BY <1>4, <2>1, QuietCalls DEF Send, server, TypeOK
  <1>5. ASSUME NEW c \in Calls, Settle(c)
        PROVE  PromisesHold'
    <2>1. ~In(c, {"waiting"}) /\ ~In(c, {"waiting"})'
      BY <1>5 DEF Settle, In, TypeOK
    <2> QED
      BY <1>5, <2>1, QuietCalls DEF Settle, server, TypeOK
  <1>6. ASSUME NEW c \in Calls, Refused(c)
        PROVE  PromisesHold'
    <2> DEFINE t == calls[c].tab
    <2>1. /\ In(c, {"asked"}) /\ ~In(c, {"waiting"}) /\ t \in Tabs
          /\ \A x \in Calls \ {c} : calls'[x] = calls[x]
          /\ calls'[c] \in CallRecords /\ calls'[c].tab = t
          /\ owner' = owner
      <3>1. calls[c] \in CallRecords /\ calls[c].state = "asked"
        BY <1>6, CallsType DEF Refused, In
      <3>2. \E st \in {"waiting", "expired"} : calls' = [calls EXCEPT ![c].state = st]
        BY <1>6 DEF Refused
      <3> QED
        BY <1>6, <3>1, <3>2 DEF Refused, In, server, TypeOK, CallRecords
    <2>2. CASE ~Shared(t) /\ stored.refresh = None
      <3>1. calls'[c].state = "expired" /\ UNCHANGED <<promise, trip>>
        BY <1>6, <2>2 DEF Refused, In, TypeOK
      <3> QED
        BY <2>1, <3>1, QuietCalls DEF In
    <2>3. CASE Shared(t)
      <3>1. calls'[c].state = "waiting" /\ UNCHANGED <<promise, trip>>
        BY <1>6, <2>3 DEF Refused, In, TypeOK
      <3>2. \A s \in Tabs : promise[s] # None => promise[s] \in Calls \ {c}
        BY <2>1 DEF TypeOK, Or, PromisesHold
      <3> QED
        BY <2>1, <2>3, <3>1, <3>2 DEF PromisesHold, In, Shared
    <2>4. CASE ~Shared(t) /\ stored.refresh # None
      <3>1. /\ calls'[c].state = "waiting"
            /\ \A s \in Tabs : promise'[s] = IF s = t THEN c ELSE promise[s]
            /\ \A x \in Calls : trip'[x] = IF x = c THEN stored.refresh ELSE trip[x]
        BY <1>6, <2>1, <2>4 DEF Refused, In, TypeOK
      <3>2. c # None /\ calls'[c] # None
        BY <2>1, NoneAssumption, NoCallAssumption
      <3>3. owner[stored.refresh] # None
        BY <2>4 DEF StoreIsOneAccounts, Nothing
      <3>4. \A s \in Tabs : promise[s] # None => promise[s] \in Calls \ {c}
        BY <2>1 DEF TypeOK, Or, PromisesHold
      <3>5. \A x \in Calls \ {c} : trip[x] # None => calls[x].tab # t
        BY <2>4 DEF PromisesHold, Shared
      <3>6. \A x \in Calls \ {c} : In(x, {"waiting"}) => calls[x].tab \in Tabs \ {t}
        BY <2>4, CallsType DEF PromisesHold, In, Shared
      <3>7. ASSUME NEW x \in Calls, trip'[x] # None
            PROVE  In(x, {"waiting"})' /\ promise'[calls'[x].tab] = x /\ owner'[trip'[x]] # None
        <4>1. CASE x = c
          BY <2>1, <3>1, <3>2, <3>3, <4>1 DEF In
        <4>2. CASE x # c
          BY <2>1, <3>1, <3>6, <3>7, <4>2 DEF In, PromisesHold
        <4> QED
          BY <4>1, <4>2
      <3>8. ASSUME NEW s \in Tabs, promise'[s] # None
            PROVE  trip'[promise'[s]] # None /\ calls'[promise'[s]].tab = s
        <4>1. CASE s = t
          BY <2>1, <2>4, <3>1, <4>1
        <4>2. CASE s # t
          BY <2>1, <3>1, <3>4, <3>8, <4>2 DEF PromisesHold
        <4> QED
          BY <4>1, <4>2
      <3>9. ASSUME NEW x \in Calls, In(x, {"waiting"})'
            PROVE  promise'[calls'[x].tab] # None
        BY <2>1, <3>1, <3>2, <3>6, <3>9 DEF PromisesHold, In
      <3> QED
        BY <3>7, <3>8, <3>9 DEF PromisesHold
    <2> QED
      BY <2>2, <2>3, <2>4
  <1>7. ASSUME NEW c \in Calls, RefreshEnds(c)
        PROVE  PromisesHold'
    <2>1. EndTrip(c)
      BY <1>7 DEF RefreshEnds, RefreshRefused, RefreshLost, RefreshThrows, Refreshed
    <2>2. \A x \in Waiting(calls[c].tab) : calls[x] \in CallRecords
      BY CallsType DEF Waiting, In
    <2>3. CASE RefreshThrows(c)
      <3>1. owner' = owner
        BY <2>3 DEF RefreshThrows, server
      <3>2. /\ \A x \in Waiting(calls[c].tab) : calls'[x] = [calls[x] EXCEPT !.state = "expired"]
            /\ \A x \in Calls \ Waiting(calls[c].tab) : calls'[x] = calls[x]
        BY <2>3 DEF RefreshThrows, Waiting
      <3>3. \A x \in Waiting(calls[c].tab) : calls'[x] # None /\ calls'[x].state # "waiting"
        <4>1. \A x \in Waiting(calls[c].tab) : calls'[x] \in CallRecords
          BY <3>2, CallsType DEF Waiting, In
        <4>2. \A x \in Waiting(calls[c].tab) : calls'[x].state # "waiting"
          BY <2>2, <3>2 DEF CallRecords
        <4> QED
          BY <4>1, <4>2, NoCallAssumption
      <3> QED
        BY <2>1, <3>1, <3>2, <3>3, EndTripKeepsPromises
    <2>4. ASSUME NEW n \in Tokens, Refreshed(c, n)
          PROVE  PromisesHold'
      <3>1. \A k \in Tokens : owner[k] # None => owner'[k] = owner[k]
        BY <2>4 DEF Refreshed, Issue, TypeOK
      <3>2. /\ \A x \in Waiting(calls[c].tab) :
                 calls'[x] = [calls[x] EXCEPT !.state = "asked", !.retry = TRUE, !.token = TRUE]
            /\ \A x \in Calls \ Waiting(calls[c].tab) : calls'[x] = calls[x]
        BY <2>4 DEF Refreshed, Retry, Waiting
      <3>3. \A x \in Waiting(calls[c].tab) : calls'[x] # None /\ calls'[x].state # "waiting"
        <4>1. \A x \in Waiting(calls[c].tab) : calls'[x] \in CallRecords
          BY <3>2, CallsType DEF Waiting, In
        <4>2. \A x \in Waiting(calls[c].tab) : calls'[x].state # "waiting"
          BY <2>2, <3>2 DEF CallRecords
        <4> QED
          BY <4>1, <4>2, NoCallAssumption
      <3> QED
        BY <2>1, <3>1, <3>2, <3>3, EndTripKeepsPromises
    <2> QED
      BY <1>7, <2>3, <2>4 DEF RefreshEnds, RefreshRefused, RefreshLost
  <1>8. ASSUME NEW n \in Tokens, ExpireRefresh(n)
        PROVE  PromisesHold'
    BY <1>1, <1>8 DEF ExpireRefresh
  <1>9. ASSUME NEW t \in Tabs, UserLogsOut(t) \/ HandleNews(t)
        PROVE  PromisesHold'
    BY <1>1, <1>9 DEF UserLogsOut, HandleNews, server
  <1> QED
    BY <1>2, <1>3, <1>4, <1>5, <1>6, <1>7, <1>8, <1>9 DEF Next
-----------------------------------------------------------------------------
(* What is stored *)

LEMMA StoreStep ==
  ASSUME TypeOK, PromisesHold, StoreIsOneAccounts, Next
  PROVE  StoreIsOneAccounts'
  <1>1. ASSUME UNCHANGED <<owner, stored>>
        PROVE  StoreIsOneAccounts'
    BY <1>1 DEF StoreIsOneAccounts
  <1>2. ASSUME stored' = Nothing
        PROVE  StoreIsOneAccounts'
    BY <1>2 DEF StoreIsOneAccounts, Nothing
  <1>3. ASSUME NEW t \in Tabs, NEW u \in Accounts, NEW n \in Tokens, SignIn(t, u, n)
        PROVE  StoreIsOneAccounts'
    <2>1. stored' = [access |-> n, refresh |-> n, user |-> u] /\ owner'[n] = u
      BY <1>3 DEF SignIn, Store, Issue, TypeOK
    <2> QED
      BY <2>1, NoneAssumption DEF StoreIsOneAccounts
  <1>4. ASSUME NEW c \in Calls, NEW n \in Tokens, Refreshed(c, n)
        PROVE  StoreIsOneAccounts'
    <2>1. trip[c] \in Tokens /\ owner[trip[c]] # None
      BY <1>4, EndTripType DEF Refreshed, EndTrip, PromisesHold
    <2>2. stored' = [access |-> n, refresh |-> trip[c], user |-> owner[trip[c]]]
      BY <1>4 DEF Refreshed, Store, Saved, AfterRefresh
    <2>3. owner'[n] = owner[trip[c]] /\ owner'[trip[c]] = owner[trip[c]]
      BY <1>4, <2>1 DEF Refreshed, Issue, TypeOK
    <2> QED
      BY <2>1, <2>2, <2>3, NoneAssumption DEF StoreIsOneAccounts
  <1>5. ASSUME NEW c \in Calls, RefreshThrows(c)
        PROVE  StoreIsOneAccounts'
    BY <1>2, <1>5 DEF RefreshThrows, LogOut, Store
  <1>6. ASSUME NEW c \in Calls, Refused(c)
        PROVE  StoreIsOneAccounts'
    <2>1. stored' = Nothing \/ UNCHANGED <<owner, stored>>
      BY <1>6 DEF Refused, LogOut, Store, server
    <2> QED
      BY <1>1, <1>2, <2>1
  <1>7. ASSUME NEW t \in Tabs, UserLogsOut(t)
        PROVE  StoreIsOneAccounts'
    BY <1>2, <1>7 DEF UserLogsOut, LogOut, Store
  <1>8. ASSUME NEW t \in Tabs, Reload(t) \/ HandleNews(t) \/ \E c \in Calls : Send(t, c)
        PROVE  StoreIsOneAccounts'
    BY <1>1, <1>8 DEF Reload, HandleNews, Send, server
  <1>9. ASSUME NEW c \in Calls, Settle(c)
        PROVE  StoreIsOneAccounts'
    BY <1>1, <1>9 DEF Settle, server
  <1>10. ASSUME NEW n \in Tokens, ExpireRefresh(n)
         PROVE  StoreIsOneAccounts'
    BY <1>1, <1>10 DEF ExpireRefresh
  <1> QED
    BY <1>3, <1>4, <1>5, <1>6, <1>7, <1>8, <1>9, <1>10
       DEF Next, RefreshEnds, RefreshRefused, RefreshLost

LEMMA InitInv == Init => UInv
  <1> SUFFICES ASSUME Init PROVE UInv
    OBVIOUS
  <1>1. << >> \in Seq(Events)
    OBVIOUS
  <1>2. TypeOK
    BY <1>1, NothingIsStorable DEF Init, TypeOK, Or
  <1>3. PromisesHold
    BY DEF Init, PromisesHold, In
  <1>4. StoreIsOneAccounts
    BY DEF Init, StoreIsOneAccounts
  <1> QED
    BY <1>2, <1>3, <1>4 DEF UInv

LEMMA StepInv == UInv /\ [Next]_vars => UInv'
  <1> SUFFICES ASSUME UInv, [Next]_vars PROVE UInv'
    OBVIOUS
  <1>1. CASE Next
    BY <1>1, TypeStep, PromiseStep, StoreStep DEF UInv
  <1>2. CASE UNCHANGED vars
    BY <1>2 DEF vars, UInv, TypeOK, PromisesHold, In, StoreIsOneAccounts
  <1> QED
    BY <1>1, <1>2
-----------------------------------------------------------------------------
(* Nobody is thrown out. *)

(* The action of KeptSignedIn. *)
Kept ==
  ~disturbed' => /\ \A t \in Tabs : SignedIn(t) => SignedIn(t)'
                 /\ \A c \in Calls : calls[c] # None /\ calls[c].token
                                       /\ calls[c].state # "expired"
                                     => calls'[c] = None \/ calls'[c].state # "expired"

LEMMA InitKept == Init => KeptInv
  <1> SUFFICES ASSUME Init PROVE KeptInv
    OBVIOUS
  <1>1. << >> \in Seq({"token", "user"})
    OBVIOUS
  <1> QED
    BY <1>1 DEF Init, KeptInv, Nothing, Or

(* A write of a full store is no logout to the other tabs, and a write of  *)
(* nothing to an empty one is no event.                                    *)
LEMMA StoreNews ==
  ASSUME TypeOK, NEW t \in Tabs, NEW s, Store(t, s),
         \A x \in Tabs : news[x] \in Seq({"token", "user"})
  PROVE  /\ s.access # None => \A x \in Tabs : news'[x] \in Seq({"token", "user"})
         /\ s = Nothing /\ stored = Nothing => UNCHANGED <<stored, news>>
  <1> DEFINE E == {"token", "user"}
  <1>1. ASSUME s.access # None, NEW x \in Tabs
        PROVE  news'[x] \in Seq(E)
    <2> DEFINE a == IF s.access = stored.access THEN << >> ELSE <<"token">>
               b == IF s.user \in {stored.user, None} THEN << >> ELSE <<"user">>
    <2>1. a \in Seq(E) /\ b \in Seq(E)
      <3>1. /\ << >> \in Seq(E) /\ <<"token">> \in Seq(E) /\ <<"user">> \in Seq(E)
        OBVIOUS
      <3> QED
        BY <3>1
    <2>2. Changes(s) = a \o b
      BY <1>1 DEF Changes
    <2> HIDE DEF a, b, E
    <2>3. Changes(s) \in Seq(E)
      BY <2>1, <2>2, ConcatProperties
    <2>4. news[x] \in Seq(E)
      BY DEF E
    <2>5. news[x] \o Changes(s) \in Seq(E)
      BY <2>3, <2>4, ConcatProperties
    <2> QED
      BY <2>4, <2>5 DEF Store
  <1>2. ASSUME s = Nothing, stored = Nothing
        PROVE  UNCHANGED <<stored, news>>
    <2>1. Changes(s) = << >> \o << >>
      BY <1>2 DEF Changes, Nothing
    <2>2. << >> \o << >> = << >>
      OBVIOUS
    <2>3. \A x \in Tabs : news[x] \o << >> = news[x]
      BY ConcatEmptySeq DEF TypeOK
    <2>4. news' = [x \in Tabs |-> news[x]]
      BY <2>1, <2>2, <2>3 DEF Store
    <2> QED
      BY <1>2, <2>4 DEF Store, TypeOK
  <1> QED
    BY <1>1, <1>2

LEMMA KeptStep == UInv /\ KeptInv /\ [Next]_vars => KeptInv' /\ Kept
  <1> SUFFICES ASSUME UInv, KeptInv, [Next]_vars, ~disturbed'
               PROVE  KeptInv' /\ Kept
    BY DEF KeptInv, Kept
  <1>0. TypeOK /\ PromisesHold /\ StoreIsOneAccounts
    BY DEF UInv
  <1>1. ~disturbed
    BY <1>0 DEF vars, Next, ExpireRefresh, Reload, UserLogsOut, HandleNews, SignIn, Send, Settle,
                Refused, RefreshEnds, RefreshRefused, RefreshLost, Refreshed, TypeOK
  <1>2. /\ stored.refresh \in Or(goodR)
        /\ \A c \in Calls : trip[c] \in Or(goodR)
        /\ \A t \in Tabs : news[t] \in Seq({"token", "user"})
        /\ stored = Nothing => /\ \A t \in Tabs : view[t] = {} /\ news[t] = << >>
                               /\ \A c \in Calls : calls[c] # None /\ calls[c].token
                                                    => calls[c].state = "expired"
    BY <1>1 DEF KeptInv
  <1>3. goodR \subseteq Tokens /\ None \notin goodR
    BY <1>0, NoneAssumption DEF TypeOK
  <1>4. /\ Nothing.access = None /\ Nothing.refresh = None /\ Nothing.user = None
        /\ stored # Nothing => stored.access # None /\ stored.refresh # None /\ stored.user # None
    BY <1>0 DEF Nothing, StoreIsOneAccounts
  <1>5. CASE UNCHANGED vars
    BY <1>2, <1>5 DEF vars, KeptInv, Kept, SignedIn
  <1>6. ASSUME NEW t \in Tabs, Reload(t)
        PROVE  KeptInv' /\ Kept
    <2>1. stored = Nothing => Hydrated = {}
      BY <1>4 DEF Hydrated
    <2>2. stored # Nothing => Hydrated = {"token", "user"}
      BY <1>4 DEF Hydrated
    <2>3. << >> \in Seq({"token", "user"})
      OBVIOUS
    <2>4. KeptInv'
      BY <1>0, <1>2, <1>6, <2>1, <2>3 DEF KeptInv, Reload, server, TypeOK, Or
    <2>5. \A x \in Tabs : SignedIn(x) => SignedIn(x)'
      BY <1>0, <1>2, <1>6, <2>2 DEF Reload, SignedIn, TypeOK
    <2>6. \A c \in Calls : calls'[c] = None \/ calls'[c] = calls[c]
      BY <1>6 DEF Reload
    <2> QED
      BY <2>4, <2>5, <2>6 DEF Kept
  <1>7. ASSUME NEW t \in Tabs, HandleNews(t)
        PROVE  KeptInv' /\ Kept
    <2>1. /\ news[t] \in Seq({"token", "user"}) /\ news[t] # << >> /\ stored # Nothing
      BY <1>2, <1>7 DEF HandleNews
    <2>2. Head(news[t]) \in {"token", "user"} /\ Tail(news[t]) \in Seq({"token", "user"})
      BY <2>1
    <2>3. \A x \in Tabs : view[x] \subseteq view'[x]
      BY <1>0, <1>7, <2>2 DEF HandleNews, TypeOK
    <2>4. \A x \in Tabs : news'[x] \in Seq({"token", "user"})
      BY <1>0, <1>2, <1>7, <2>2 DEF HandleNews, TypeOK
    <2>5. KeptInv'
      BY <1>2, <1>7, <2>1, <2>4 DEF KeptInv, HandleNews, server
    <2>6. view' \in [Tabs -> SUBSET {"token", "user"}]
      BY <1>0, <1>7, <2>2 DEF HandleNews, TypeOK
    <2>7. \A x \in Tabs : SignedIn(x) => SignedIn(x)'
      BY <2>3, <2>6 DEF SignedIn
    <2> QED
      BY <1>7, <2>5, <2>7 DEF Kept, HandleNews
  <1>8. ASSUME NEW t \in Tabs, NEW u \in Accounts, NEW n \in Tokens, SignIn(t, u, n)
        PROVE  KeptInv' /\ Kept
    <2> DEFINE s == [access |-> n, refresh |-> n, user |-> u]
    <2>1. Store(t, s) /\ s.access # None /\ s.refresh = n /\ s # Nothing
      BY <1>8, NoneAssumption DEF SignIn, Nothing
    <2>2. stored' = s /\ goodR' = goodR \cup {n} /\ UNCHANGED <<calls, trip>>
      BY <1>8, <2>1 DEF SignIn, Store
    <2>3. \A x \in Tabs : news'[x] \in Seq({"token", "user"})
      BY <1>0, <1>2, <2>1, StoreNews
    <2> HIDE DEF s
    <2>4. KeptInv'
      BY <1>2, <2>1, <2>2, <2>3 DEF KeptInv, Or
    <2>5. \A x \in Tabs : SignedIn(x) => SignedIn(x)'
      BY <1>0, <1>8 DEF SignIn, SignedIn, TypeOK
    <2> QED
      BY <2>2, <2>4, <2>5 DEF Kept
  <1>9. ASSUME NEW t \in Tabs, NEW c \in Calls, Send(t, c)
        PROVE  KeptInv' /\ Kept
    <2>1. calls' = [calls EXCEPT ![c] = [tab |-> t, token |-> stored.access # None, retry |-> FALSE,
                                         state |-> "asked"]]
          /\ UNCHANGED <<goodR, stored, view, news, trip>>
      BY <1>9 DEF Send, server, provider
    <2>2. \A x \in Calls : \/ calls'[x] = calls[x]
                           \/ /\ calls'[x].token = (stored.access # None)
                              /\ calls'[x].state = "asked"
      BY <1>0, <2>1 DEF TypeOK
    <2>3. KeptInv'
      BY <1>2, <1>4, <2>1, <2>2 DEF KeptInv
    <2> QED
      BY <2>1, <2>2, <2>3 DEF Kept, SignedIn
  <1>10. ASSUME NEW c \in Calls, Settle(c)
         PROVE  KeptInv' /\ Kept
    <2>1. /\ \A x \in Calls : calls'[x] = calls[x] \/ calls'[x] = None
          /\ UNCHANGED <<goodR, stored, view, news, trip>>
      BY <1>0, <1>10 DEF Settle, server, provider, TypeOK
    <2> QED
      BY <1>2, <2>1 DEF KeptInv, Kept, SignedIn
  <1>11. ASSUME NEW c \in Calls, Refused(c)
         PROVE  KeptInv' /\ Kept
    <2> DEFINE t == calls[c].tab
    <2>0. calls[c] # None /\ calls[c].state = "asked" /\ t \in Tabs /\ calls[c] \in CallRecords
      BY <1>0, <1>11, CallsType DEF Refused, In
    <2>1. CASE ~Shared(t) /\ stored.refresh = None
      <3>1. stored = Nothing
        BY <1>4, <2>1
      <3>2. Store(t, Nothing) /\ view' = [view EXCEPT ![t] = {}]
        BY <1>11, <2>1 DEF Refused, LogOut
      <3>3. UNCHANGED <<stored, news>>
        BY <1>0, <1>2, <2>0, <3>1, <3>2, StoreNews
      <3>4. UNCHANGED view
        BY <1>0, <1>2, <2>0, <3>1, <3>2 DEF TypeOK
      <3>5. \A x \in Calls : calls'[x] = calls[x] \/ (x = c /\ ~calls[c].token /\ ~calls'[c].token)
        BY <1>0, <1>2, <1>11, <2>0, <3>1 DEF Refused, TypeOK, CallRecords
      <3>6. UNCHANGED <<goodR, trip>>
        BY <1>11, <2>1 DEF Refused, server
      <3>7. KeptInv'
        BY <1>2, <3>1, <3>3, <3>4, <3>5, <3>6 DEF KeptInv
      <3> QED
        BY <1>2, <3>1, <3>4, <3>5, <3>7 DEF Kept, SignedIn
    <2>2. CASE ~(~Shared(t) /\ stored.refresh = None)
      <3>1. UNCHANGED <<goodR, stored, view, news>>
        BY <1>11, <2>2 DEF Refused, server
      <3>2. \A x \in Calls : trip'[x] \in {trip[x], stored.refresh}
        BY <1>0, <1>11 DEF Refused, TypeOK
      <3>3. \A x \in Calls : \/ calls'[x] = calls[x]
                             \/ /\ x = c /\ calls'[c].state = "waiting"
                                /\ calls'[c].token = calls[c].token
        BY <1>0, <1>11, <2>0, <2>2 DEF Refused, TypeOK, CallRecords
      <3>4. KeptInv'
        BY <1>2, <2>0, <3>1, <3>2, <3>3 DEF KeptInv
      <3> QED
        BY <3>1, <3>3, <3>4 DEF Kept, SignedIn
    <2> QED
      BY <2>1, <2>2
  <1>12. ASSUME NEW c \in Calls, NEW n \in Tokens, Refreshed(c, n)
         PROVE  KeptInv' /\ Kept
    <2>0. /\ calls[c] # None /\ calls[c].tab \in Tabs /\ trip[c] \in Tokens
      BY <1>0, <1>12, EndTripType DEF Refreshed
    <2> DEFINE s == [access |-> n, refresh |-> trip[c], user |-> owner[trip[c]]]
    <2>1. Store(calls[c].tab, s) /\ s.access # None /\ s.refresh = trip[c] /\ s # Nothing
      BY <1>12, NoneAssumption DEF Refreshed, Saved, AfterRefresh, Nothing
    <2>2. stored' = s /\ goodR' = goodR /\ UNCHANGED view
          /\ \A x \in Calls : trip'[x] \in {trip[x], None}
      BY <1>0, <1>12, <2>1 DEF Refreshed, Store, AfterRefresh, EndTrip, TypeOK
    <2>3. \A x \in Tabs : news'[x] \in Seq({"token", "user"})
      BY <1>0, <1>2, <2>0, <2>1, StoreNews
    <2> HIDE DEF s
    <2>4. KeptInv'
      BY <1>2, <2>1, <2>2, <2>3 DEF KeptInv, Or
    <2>5. \A x \in Calls : calls'[x] = calls[x] \/ calls'[x].state = "asked"
      <3>1. \A x \in Waiting(calls[c].tab) : calls'[x] = [calls[x] EXCEPT !.state = "asked", !.retry = TRUE, !.token = TRUE]
                                             /\ calls[x] \in CallRecords
        BY <1>0, <1>12, CallsType DEF Refreshed, Retry, Waiting, In
      <3>2. \A x \in Waiting(calls[c].tab) : calls'[x].state = "asked"
        BY <3>1 DEF CallRecords
      <3> QED
        BY <1>12, <3>2 DEF Refreshed, Retry
    <2> QED
      BY <2>2, <2>4, <2>5 DEF Kept, SignedIn
  <1>13. ASSUME NEW c \in Calls, RefreshRefused(c)
         PROVE  FALSE
    BY <1>2, <1>13 DEF RefreshRefused, Or
  <1> QED
    BY <1>1, <1>5, <1>6, <1>7, <1>8, <1>9, <1>10, <1>11, <1>12, <1>13
       DEF Next, ExpireRefresh, UserLogsOut, RefreshEnds, RefreshLost

-----------------------------------------------------------------------------
(* The inductive invariant: types, promises and waiters that fit, one      *)
(* account in localStorage.                                                *)
THEOREM SessionInvariant == Spec => []UInv
  BY InitInv, StepInv, PTL DEF Spec

(* A tab has at most one refresh request under way, however many calls are *)
(* refused at once.                                                        *)
THEOREM RefreshIsShared == Spec => []OneRefreshPerTab
  <1>1. UInv => OneRefreshPerTab
    BY DEF UInv, PromisesHold, OneRefreshPerTab
  <1> QED
    BY <1>1, SessionInvariant, PTL

(* The tokens and the user in localStorage belong to one account, in every *)
(* interleaving of sign-ins, logouts and refreshes of any number of tabs.  *)
THEOREM AccountsDoNotMix == Spec => []StoreIsOneAccounts
  <1>1. UInv => StoreIsOneAccounts
    BY DEF UInv
  <1> QED
    BY <1>1, SessionInvariant, PTL

(* While nobody logs out, no refresh token expires and no answer to a      *)
(* refresh is lost, no tab is thrown out and no call that had a token ends *)
(* with 'Session expired', however many tabs refresh at the same time.     *)
THEOREM NobodyIsThrownOut == Spec => KeptSignedIn
  <1>1. Spec => [](UInv /\ KeptInv)
    <2>1. Init => UInv /\ KeptInv
      BY InitInv, InitKept
    <2>2. UInv /\ KeptInv /\ [Next]_vars => (UInv /\ KeptInv)'
      BY StepInv, KeptStep
    <2> QED
      BY <2>1, <2>2, PTL DEF Spec
  <1>2. UInv /\ KeptInv /\ [Next]_vars => [Kept]_vars
    BY KeptStep
  <1> QED
    BY <1>1, <1>2, PTL DEF Spec, KeptSignedIn, Kept
=============================================================================
