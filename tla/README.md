# AI Meeting Summarizer: TLA+ models and proofs

The repository is a FastAPI service and a Next.js frontend.  A user posts a
meeting link; the server joins the meeting with a Selenium bot, records the
desktop audio through OBS, transcribes the file, lets an LLM write a report,
stores it and mails it.  This directory models the parts of it that have state
and concurrency, checks them with TLC on small instances, and proves the most
important facts with TLAPS for every value of the constants.

## 1. Inventory

Paths are relative to `src/`; `b/` stands for `backend/`.

### 1.1 Components

| component | code | state it keeps | operations |
|---|---|---|---|
| orchestrator | `b/src/orchestrator.py` | nothing of its own but its program point; the row `Meeting` | `run_pipeline`, `_update_meeting_status`, `_extract_audio` |
| trigger and status API | `b/src/routes/api.py` | background tasks of the app | `POST /trigger`, `GET /status/{id}` |
| lifespan, health | `b/src/main.py`, `b/src/helpers/db.py` | engine, `SessionLocal`, task set, the default executor's threads | startup, drain 30 s and cancel, exit, `/health` |
| meeting row | `b/src/models/meeting.py` | status, error message, report columns | written by orchestrator and storage |
| audio capture | `b/modules/audio_capture.py` | an OBS websocket; OBS itself keeps the recording | `healthcheck`, `start`, `stop`, `close` |
| meeting access | `b/modules/meeting_access.py`, `_meeting_access/monitor.py` | a Chrome driver, attempt counter, platform | `join`, `wait_until_end`, `leave` |
| join strategies | `_meeting_access/strategies/*.py` | none | one join procedure per platform, 3 attempts |
| transcription | `b/modules/_transcription/*` | current provider of one call | `transcribe`, three providers, normalisers |
| summarisation | `b/modules/_summarisation/*` | none | `generate_report`, speaker verification, statistics |
| output storage, e-mail | `b/modules/_output_storage/*` | the report columns | `persist_meeting_report`, `dispatch_summary_email` |
| authentication | `b/src/controllers/auth_controller.py`, `b/src/helpers/security.py` | users, companies; JWTs | register, login, refresh |
| workspace | `team_controller.py`, `member_controller.py`, `participant_service.py` | teams, members, users, participants | CRUD, leader assignment, resolving recipients |
| dashboard | `dashboard_controller.py` | none | aggregate counts |
| invitations | `b/src/routes/notifications.py` | none | mail the current members of a meeting's teams |
| export | `b/src/routes/export.py` | none | PDF and Excel of a COMPLETED row |
| API client, session | `frontend/src/lib/api.ts`, `auth.tsx` | token pair in local storage, refresh in flight | request, refresh once, logout |
| status panel | `StatusPanel.tsx`, `app/dashboard/page.tsx` | last status seen, timer, in-flight flag | poll every 3 s until terminal |
| Zoom SDK page | `app/zoom-meeting/page.tsx`, `lib/zoom.ts`, `b/src/helpers/zoom_sdk.py` | badge, SDK client state | fetch a signature, initialise, join, notice the end |

Configuration, migrations, logging, HTML rendering, the remaining pages and the
demo scripts keep no state a property could be about.

### 1.2 How they interact

* `POST /trigger` answers 202 and leaves `run_pipeline` to a BackgroundTask of its
  request.  Each pipeline is a coroutine of ONE event loop; its blocking calls run
  in the threads of one default executor, which all pipelines share.
* All pipelines share one OBS instance, the host's desktop audio and the
  database.  Each has its own Chrome and its own row.
* The row is the only channel to the user: the frontend polls it.  It is
  written by `_update_meeting_status` and by `persist_meeting_report`, which
  sets COMPLETED itself, before mails are sent and before the orchestrator
  writes COMPLETED again.
* The bot of a Zoom meeting may open the frontend's own SDK page, in its Chrome,
  and learns what happens there from the page's badge only.
* The tabs of one browser share `localStorage` and hear of each other's writes by
  storage events; the server keeps no session, only signed tokens.
* Team, member and account rows are written by requests that read first and
  commit later; a pipeline resolves its recipients at the trigger and writes the
  links of its row in a transaction of its own.
* Nothing is persisted but the rows; OBS, Chrome and the database outlive a
  crash of the server.

### 1.3 Behaviours that are hard, and what correctness means

| component | hard | correct means |
|---|---|---|
| orchestrator with OBS | concurrent pipelines on one recorder; an error between start and stop; a crash in any stage; commits without acknowledgement | one owner of the recorder; every transcript comes from a recording of its own meeting; a report exists exactly when the row says so; mails only after the report; the message shown fits what happened; each pipeline ends |
| server | blocking calls of all pipelines compete for one thread pool; a shutdown meets meetings that last hours, mail servers that do not answer, and the task that waits for the shutdown | a shutdown ends, and cuts off nothing before it must; every call gets a thread |
| meeting access, Zoom SDK page | a polling loop with warm-up, alone timer, grace period and lobby timeout; on the SDK page a join and a listener that write the same badge | leaves only a meeting that is over or deserted; never waits for ever where the code bounds it |
| transcription | three attempts shared by two kinds of retry and a provider fallback | at most three calls; a fallback after every rate limit; the error at the end tells which |
| summarisation | two rankings of speakers are matched by position, then an LLM corrects names whose labels have to be found again | no time is lost or counted twice; two voices never share a name by accident; a correction reaches the voice it names; the most active speaker is one |
| status panel | poll replies after unmount or for an older session; status that is terminal and then changes | shows the row's final status |
| session | refreshes of several tabs with one refresh token, racing sign-ins, logouts and each other; storage events that come late | one refresh per tab however many calls are refused; the stored tokens and user are one account's; nobody is thrown out while the tokens are good |
| workspace | deletes, leader changes and registrations between the reads of a request and its commit, and between a trigger and the commit of its row | no row names a missing one; a company exists exactly when it has an account; no account is left over from a failed assignment; a meeting has all of its selection; of the own company, those invited are those the report goes to |

`PROJECT.json` lists the hazards one by one, each at its line, with the
properties that would catch them.

## 2. Plan

Most important first.  A module comes with an `MC...` module, its configurations
and, where theorems are worth having, a `...Proofs` module.  No module that is
proved about uses a RECURSIVE operator.

| # | modules | what they are for | state |
|---|---|---|---|
| 1 | `MeetingLifecycle`, `Pipeline`, `PipelineProofs` | abstract status machine of a row; concurrent `run_pipeline` tasks over one OBS and one database, which implement it | done |
| 2 | `Transcription`, `TranscriptionProofs` | the retry and fallback loop that `Pipeline` sees as one step | done |
| 3 | `MeetingAccess`, `MeetingAccessProofs` | one bot from `join` to `leave`; `Pipeline` sees it as four steps | done |
| 4 | `StatusPanel`, `StatusPanelProofs` | the polling panel composed with `MeetingLifecycle` | done |
| 5 | `Summarisation`, `SummarisationProofs` | `generate_report`: two analyses of who spoke, their merge, and corrections by an LLM nobody controls | done |
| 6 | `AuthSession`, `AuthSessionProofs` | `api.ts` and `auth.tsx` in several tabs over one `localStorage`, with the server's tokens | done |
| 7 | `Workspace`, `WorkspaceProofs` | the tables of two companies, the registrations that race for their names, and the requests that write them, with the gap between a trigger and the commit of its row | done |
| 8 | `ZoomSdkPage` | the SDK page as the other actor of `MeetingAccess`, which instantiates it | done |
| 9 | `Server`, `ServerProofs` | the lifespan with its drain and cancellation, inside uvicorn, and the thread pool the waiting meetings occupy | done |
| 10 | `Dashboard` | the page and the server in one specification, for the theorems about the two together | done |
| 11 | `Pages` | the pages that fetch by id (`history/[id]`, `teams/[id]`) and the team leader's figures, read in several queries | not done: single reads whose staleness nothing depends on |

Abstract specifications: `MeetingLifecycle` is both what `Pipeline` implements
and what `StatusPanel` relies on, so the two meet in it; and `StatusPanel`, with
its idea of the server, is implemented by `Dashboard`.

Every safety property a run checks is stated by a theorem.  Left: that the
cancellations of `Server` are the `Cancel` of `Pipeline`, whose program points are
finer; what a company's tables promise a page that reads them twice; the counting
argument for `Transcription`, whose liveness no run states.

## 3. Modules and code

### 3.1 `MeetingLifecycle`

`status[m]` and `report[m]` are the status column and "the report columns are
filled" of one row.  Its steps are the promises the rest of the product needs:
stages come in order, COMPLETED appears in the same commit as the report, a
report is never taken away, and FAILED can follow any stage and COMPLETED.
`StatusStep` is the `status_map` of `GET /status`.  What the steps add up to for
somebody who reads the row now and then is `NothingTakenBack`: the progress does
not go back, a report stays, FAILED stays; and `ReportUnderEnd`: COMPLETED has a
report.

### 3.2 `Pipeline`

One action per `await` of `run_pipeline`, in the order of the code; `pc[s]` is
the await the task of tracking id `s` is at.  Between two of them the event loop
may run the other tasks, so everything from one await to the next is one step.

| state | code |
|---|---|
| `status`, `message`, `report` | columns of the row (`models/meeting.py`) |
| `browser[s]` | the Chrome of the task's `MeetingAccess` |
| `recorder`, `tape` | OBS: which task started the recording that runs, and the meetings audible on it |
| `audio[s]` | the meetings audible on the file the task transcribes |
| `next`, `delivered` | the loop of `dispatch_summary_email` and the mailboxes it reached |
| `err[s]` | the exception in the except block, by the class its branches give it |

* Two of the classes are found in the text of the exception, and that text is not
  under the code's control: `ParseError` quotes the LLM's answer,
  `DatabaseWriteError` the statement and its parameters, `AudioTooLargeError` a
  path.  So every stage from the first status write to the mails, `stop_record`
  apart, may raise `AnyText`: an error whose text contains "timeout", "obs"
  ("jobs", "observe") or neither.  `StopFails` always ends in the same
  `AttributeError`, and the type that contains "stt" only comes from
  `transcribe`.
* `MessageFitsProgress` therefore promises nothing of "There was a problem
  recording the audio": it can be the message of a meeting that was recorded,
  transcribed and stored (section 4.3).  The other messages also depend on the
  status in the row, and that part is what the property is about.

* A database write (`Writes`) commits and returns, rolls back and raises, or
  commits and raises.  The last one is a lost connection, and also `db.refresh`
  failing after `db.commit`.
* OBS knows no owner.  `Start` is refused while it records, `stop_record` ends
  whatever recording runs.  `recorder` is a history of who started it.
* OBS records the desktop, so a meeting that is joined while a recording runs
  is added to `tape`, whoever started the recording.
* `StopFails` has one outcome: the fallback of `orchestrator.py:383` calls
  `capture._find_latest_recording`, which no class of the repository defines.
* `Crash` is a process that dies with its threads.  `Cancel` is a shutdown that
  cancels the tasks: `CancelledError` passes by `except Exception`, so the row
  keeps its stage, but a call that runs in a thread cannot be cancelled.  It goes
  on as an orphan (`joinOn`, `startOn`, `stopOn`, `leaveOn`), and `ThreadReturns`
  is its effect on Chrome and OBS when nobody waits for it any more.
* `troubled` is a history of the pipelines that were cut off, or one of whose own
  database writes failed: `OutcomeRecorded` promises a final status to the others.
* `HandleFailure` joins the read of the status and the write of FAILED: only the
  pipeline itself writes its row, so nothing can come between them.

### 3.3 `Transcription`

`transcribe` from the size check to its return: `CheckSize`, `Call` (one round
of the `for` loop with the exception it ends in), `Wake` (the end of the
back-off).  `calls` is a history of the services called and what they answered.
`Raises` is what each provider function makes of an answer: only whisper and
deepgram turn 408 and 429 into the errors that are retried.  `attempt = 0` in the
rate-limit branch is modelled as what Python does with it: nothing, the loop's
iterator goes on.

### 3.4 `MeetingAccess` and `ZoomSdkPage`

The bot and its page are two actors: `PageChanges` may happen between any two
looks, and between the two looks of one round (`CheckEnd`, `CheckAlone`).  A
page is what the detectors tell apart, not its HTML; `refused` stands for every
page that no detector knows.  Times are seconds; a round takes its sleep plus a
member of `Lags`, because the browser calls take time that the code's clock
counts.  `present`, `aloneFor` are capped where no guard can tell a difference.

| action | code |
|---|---|
| `ClickJoin`, `AttemptFails`, `JoinCrashes` | one attempt of a strategy's `join` |
| `LookAtWaitingRoom`, `WaitingRoomTimeout` | `ZoomStrategy.handle_waiting_room` |
| `BeginWaiting`, `LookAtLobby`, `LobbyTimeout` | start of `wait_until_end`, `wait_for_teams_lobby` |
| `CheckEnd`, `CheckAlone` | the two halves of a round of `wait_until_end` |
| `Leave` | `leave` |

On the three public platforms the page belongs to somebody else and `Follows`
says which page may come after which.  The SDK page is part of this repository,
so there `PageChanges` is `SdkNext` of `ZoomSdkPage`, instantiated on the same
`page`: `sdk` is the promise its one asynchronous function awaits, `ClickJoin`
(the navigation) starts it, and the badge is written by that function and by the
listener of `onMeetingStatus`, whichever comes last.

### 3.5 `StatusPanel`

The effect of `StatusPanel.tsx`, `handleJoinMeeting` and `onComplete` of the
dashboard page.  Starting a meeting is two steps, `Submit` and its answer
(`Accepted`, `Rejected`), with the previous meeting still polled in between;
`launching` is `isLoading`.  A poll is three steps: `FetchStatus` sends it
(inside `Accepted` or `Tick`), `ServerReads` reads the row, `ReplyArrives` or
`RequestFails` ends it.  `fetching` is `isFetchingRef`, which is shared by all
effects of the panel; `Current` is `isMounted` of the effect that sent the
request.  `RowMoves` is a step of `MeetingLifecycle`.

### 3.6 `Summarisation`

`generate_report` from the check for an empty transcript to its end, one action
per call of the LLM and one per round of the loop of `analyse_participation`.

| state | code |
|---|---|
| `transcript`, `input`, `position`, `tally` | the segments; the argument, the loop variable and the two dictionaries of `analyse_participation` |
| `stt`, `text` | its results for the transcript (layer 1) and for the LLM's turns (layer 2), or nothing |
| `stats`, `mapping` | `speaker_stats` and `name_mapping` after `merge_speaker_names` |
| `verified` | the corrections `_verify_speaker_mapping` applied |

A list sorted by time is its ranking: `Rank` counts who is ahead, and among equal
times Python's stable sort keeps who was heard first.  `DetectSpeakers` and
`VerifyMapping` choose any answer of the LLM, also names it uses twice and labels
that do not exist.  Percentages, texts and prompts are left out.

### 3.7 `Workspace`

The rows of two companies, `ours` and `theirs`, each with its accounts, teams and
members.  The code keeps the two apart by restricting the queries of a user to
the user's company (`FindsTeam`, `Ours`, `AccountsOf`), and not everywhere: an
email is unique among all accounts, `/trigger` takes whatever ids the request
holds, `run_pipeline` links them as they are (`Linkable`), and
`resolve_meeting_participants` looks up the linked rows (`Invitees`) without
asking for a company, while `resolve_participants` asks for it in both of its
queries (`TeamEmails`, `DirectEmails`).  Meetings and leaders are modelled for
`ours` only: those of `theirs` are the same once more.

A request is two steps: a `Read...` action with the handler's guards and 404s,
which puts into `req` what the handler will write, and its commit.  `/trigger` is
three: `Trigger` with the first query of `resolve_participants`, `ResolveDirect`
with the second, and `Launch`, the first transaction of the pipeline.  Between the
steps, other requests run.  A commit does what PostgreSQL
and SQLAlchemy do with it: a foreign key of a row that has gone fails the
transaction, a delete of a row that has gone is a warning, an attribute set to
the value that was read issues no UPDATE, deletes cascade.

`Invitees` is evaluated in one state although it is two queries as well: an email
whose rows change between them is in `touched` after the change, and what
`SameAudience` says of the other emails is the same at both.

| state | code |
|---|---|
| `companies` | `companies`, by their unique names; `Registrable` is what the flush and the commit of `register_user` check |
| `role`, `leader`, `teams`, `place`, `email` | `users.role` ("elsewhere" for an account of `theirs`), `teams.leader_id`, `members.team_id`, `members.email` |
| `meetings`, `linked`, `invited` | `meetings`, `meeting_teams`, `meeting_participants` |
| `audience` | what the queries of `resolve_participants` have found at `/trigger`: to whom the report goes |
| `Invitees` | the rows of `resolve_meeting_participants`, to whose emails the invitations go |
| `selected`, `touched`, `led` | histories: the selection, whose rows have changed since, who has ever led a team |

### 3.8 `AuthSession`

Two or more tabs over one `localStorage`.  A task of a tab runs from one await
to the next; a promise wakes everyone who waits for it in one turn.

| state | code |
|---|---|
| `stored` | the three keys of `localStorage` |
| `view`, `news` | `token` and `user` of a tab's `AuthProvider`, and the storage events it has not handled |
| `calls` | calls of `request` or `download` under way, each asked, waiting for a refresh, or ended with "Session expired" |
| `promise`, `trip` | `_refreshPromise`, and the refresh token the request under way was sent with |
| `owner`, `goodR` | what the server knows of a token: its account, and that the refresh token is still accepted |

`Refused` is a 401 of the first try, `Refreshed`, `RefreshRefused` and
`RefreshLost` are the ends of the refresh, `LogOut` is the callback that
`AuthProvider` registers.  An access token may have expired at any time, so any
first try may be refused.

### 3.9 `Server`

One process from `init_db` to its exit.  uvicorn, the event loop and the executor
are external and modelled from how `main.py`, `api.py` and the orchestrator use
them.

| state | code |
|---|---|
| `phase` | `starting` (`init_db`), `up` (the lifespan's yield), `closing` (uvicorn takes no more connections and waits for its requests), `draining` (`asyncio.wait`), `exiting` (the threads are joined), `gone` |
| `task` | the BackgroundTasks of `/trigger` and the tasks `send_invite` creates |
| `call`, `queue`, `running` | how many of its eight `asyncio.to_thread` calls a pipeline has made, the calls waiting for a thread, the calls that have one |
| `recorder` | OBS, as far as a call could wait for it: it does not, `capture.start` raises while somebody else records |
| `pending`, `clock` | the tasks collected at `main.py:81`, and the 30 s of `main.py:84` |
| `forced` | a history: a second interrupt has ended the waiting |

* `Answered` is uvicorn's own wait.  A BackgroundTask is a part of its request, so
  the lifespan goes on after its yield only when every pipeline has ended, and
  the tasks it waits for are invitations.
* `asyncio.all_tasks()` also has the task that runs uvicorn's `serve`, which
  returns after the lifespan has: `Serve` is always in `pending`, and only the
  timeout ends the wait.
* `CancelAll` withdraws the queued calls; those that run go on, and `Exit` waits
  for them.  What they do to the host then is `Pipeline`'s `ThreadReturns`.
* A pipeline that raised goes on to its except block, which makes no blocking
  call.  A mail server may not answer an invitation for as long as the SMTP
  library lets it.
* The death of the process is `Pipeline`'s `Crash`, a recording halted by hand its
  `RecordingHalts`; neither is repeated here.

### 3.10 `Dashboard`

`Pipeline` and `StatusPanel` on one pair of row columns, the tracking ids being the
meetings of the page.  A step is one of the server or one of the page.  Two
guards tie them: the id of a meeting the user starts belongs to no pipeline yet
(`SubmitNew`; the server makes it up), and `setSessionId` comes after `add_task`
(`AcceptedByServer`).  The rows no longer move as `MeetingLifecycle` allows but as
`run_pipeline` writes them, and what is on the screen can be compared with OBS,
the recording and the program point of the pipeline: `ToldTheTruth`.

### 3.11 How the models fit together

`Pipeline` shows the outcomes of `Transcription` (`Transcribe`: a file, a
timeout, an STT error, another error), of `Summarisation` (`Summarise`: a report
or one of its errors) and of `MeetingAccess` (`JoinSucceeds`, `JoinFails`,
`Wait`, `Leave`) as choices, so what holds in `Pipeline` holds whatever they do.
`TimeoutException` of the lobby is one of the errors of `Wait`, after `Start`:
the recording runs while the bot is in the lobby.  `CreateRow` of `Pipeline` is
`Launch` of `Workspace`: the first shows that it may fail, the second why.
`StatusPanel` sees the rows through `MeetingLifecycle`, which `Pipeline` is shown
to implement; `Dashboard` composes the two, and its theorem `ServerServesPanel`
carries the panel's properties over to the real pipeline.  `MeetingAccess`
instantiates `ZoomSdkPage` on its own variable `page`.  `Server` sees a pipeline as
eight calls with a thread each; `Pipeline` takes the threads for granted, which
`CallsGetThreads` justifies, and shows what the calls do.

## 4. Runs

Deadlock checking is off in every configuration because every component really
stops: a pipeline returns, `transcribe` answers, a bot leaves, a page is closed.
That what must go on goes on is said by the liveness properties instead.

### 4.1 Passing runs

| run | instance | distinct states | shows |
|---|---|---|---|
| `pipeline_safety` | two meetings, one with two recipients and one with none, every outcome of a database write, one recording halted by hand, one crash or cancellation | 186,683 | the inductive invariant `IInv` (with the type invariant, and with `EachRecipientOnce` and `OutcomeKnown`), `RecordingExclusive`, `OwnMeetingRecorded`, `ReportMatchesStatus`, `MailOnlyAfterReport`, `MessageFitsProgress`; that `Pipeline` implements `MeetingLifecycle`; `EveryPipelineEnds`: no failure of the database, of OBS or of a mail keeps a task alive; and `OutcomeRecorded`: every accepted meeting ends, and stays, COMPLETED or FAILED unless it was cut off or a write of its own failed |
| `transcription_router` | every provider, size and answer, five attempts | 291 | `TInv`, `CallsFollowPolicy`, `UploadsFit`, `NoReturnToLimited` |
| `meeting_access_bot` | every kind of link, warm-up and grace of three rounds, rounds of two lengths, one unreadable page | 121,577 | `AInv` (timer, SDK page, and the page and the clocks an attempt starts with), `DesertedAfterGrace`, `EndNoticed`, `DesertedNoticed` |
| `status_panel` | two meetings, one database error of `GET /status` | 229,844 | `PInv` (with `EndsAreBacked`); `NotifiedOnceAtEnd`: a meeting is reported at most once, and only when its row is final; `ScreenKeepsUp`: only answers about the meeting shown change the screen, and it goes back to nothing but pending; `EndReported` |
| `summarisation_report` | two voices, two names, two segments of lengths -1, 1 and 2, two turns of the LLM | 139,285 | `SInv`, `TallyAddsUp`, `SpeakersApart`, `CorrectionsHitTheirSpeaker`, `MostActiveSpokeMost`, `FailedDetectionHarmless` |
| `workspace_tables` | two companies with a team each, an HR user and one more address, a member of either company, a meeting with any selection, two requests at a time | 203,536 (up to symmetry) | `WInv`, `NothingDangles`, `CompaniesHaveAccounts`, `NoAccountWithoutTeam`, `MeetingsKeepTheirSelection`, `SameAudience` |
| `auth_session` | two tabs, two accounts, two calls, three tokens, two storage events waiting | 724,773 (up to symmetry) | `UInv`, `StoreIsOneAccounts`, `KeptSignedIn` |
| `server_shutdown` | two pipelines on one thread, two invitations, a grace period of two ticks, an interrupt at any time and a second one | 31,404 | `ServerInv` (phases, threads, and the calls against the tasks); `NothingCutEarly`: a shutdown cancels no pipeline, and an invitation only after the whole grace period; `CallsGetThreads`; `ShutdownEnds` |

Why the bounds are enough:

* Two meetings: the shared resources are one recorder and one host; every
  property speaks of one meeting, or of one meeting and the owner of the
  recorder.  The proofs of section 6 lift the safety part to any number.
* Recipients 2 and 0: the loop over recipients has a first, a last and an empty
  case; the code branches on "empty".
* One halt and one crash: a second crash finds the tasks of later triggers only,
  a second halt finds a recorder in a state the first one left possible.
* Five attempts instead of the code's three: `FALLBACK_ORDER` has three entries,
  so with three attempts it could not even come back to its start.
* `WarmUp` and `Grace` of 15 s with a poll of 5 s: three rounds each, so the
  timer can start, run, be reset and run out; the code's 30 s and 30 s only make
  the counts longer.  `Lags = {0, 3}` has rounds that do not
  divide the grace period.
* `MaxReadErrors = 1`: one error answered as "pending" in any poll.
* Two labels and two names: a merge may mix names with labels, use a name twice,
  and have ties; lengths -1, 1 and 2 give clamped, equal and different times.
* Two requests at a time: each property of the tables breaks, if at all, by one
  request that commits between the reads and the commit of another.  The team of
  each company is there to be selected, joined and deleted; one member and one
  meeting suffice, because members, and meetings, meet each other in no query.
  With a second member (1,873,108 states) or a second team of ours (2,230,197
  states) every formula of the run holds as well; those instances take too long
  to be run every time.
* Two pipelines on one thread: every call has to wait for another pipeline's.
  Three pipelines on two threads (325,768 states) give the same answers.  A grace
  period of two ticks has a beginning, a middle and an end.
* The address that is not the founder's may register either company, be a member,
  or both: the ways in which two accounts can collide on one email.
* Three tokens are a sign-in and two refreshes, or two sign-ins and a refresh
  between them; two calls are the least that can share a refresh; two tabs the
  least that can refresh at the same time.  `MaxNews = 2` is one change of both
  keys a tab listens to.

The permutations of the symmetry sets are of model values no definition tells
apart: the requests of `Workspace`; tabs, accounts, calls and tokens of
`AuthSession`.  No liveness property is checked under symmetry.

Formulas that only theorems state were evaluated by TLC before they were proved,
and can be again by naming them in a configuration:

| formula | instance | distinct states |
|---|---|---|
| `EndIsFinal`, `EveryStepCounts`, `NothingTakenBack` of its rows | that of `pipeline_safety` | 186,683 |
| `NothingTakenBack`, `EndsAreBacked` of `StatusPanel` | that of `status_panel` | 229,844 |
| `CallsTakenInTurn`, `EveryMoveCounts` | three pipelines on one thread, one invitation, a grace period of two ticks | 275,304 |
| `EveryLookCounts` | that of `meeting_access_bot` | 121,577 |
| `ToldTheTruth`, `ServesPanel` of `Dashboard` | one meeting with one recipient, every outcome of a write, a halted recording, a crash or cancellation | 49,166 |

`Dashboard` with two meetings is too large to finish (no violation in the first
4.2 million states); its theorems are for any number.

### 4.2 Runs that refute a statement of the repository

Each checks one property that a document, docstring or comment of the
repository states, and finds it violated.

| run | property | what happens |
|---|---|---|
| `pipeline_terminal` | `TerminalStatesStable` (docstring of `orchestrator.py`: "COMPLETED / FAILED  (terminal states)") | the store commits COMPLETED, a mail cannot be sent, the except block writes FAILED over it |
| `pipeline_isolation` | `FailureIsolated` (specs/008: "The pipeline must contain its own failures.") | an error between `start` and `stop` leaves OBS recording; the next meeting is refused |
| `meeting_access_lobby` | `AdmissionBounded` (specs/003: "a hard timeout boundary") | the lobby appears after the first look, the bounded loop is over, the bot polls in the lobby for ever |
| `auth_lost` | `LogoutMeansUnrecoverable` (`api.ts:23`: the callback fires "when tokens are unrecoverable") | the fetch of a refresh rejects, or the server answers 5xx; the catch at `api.ts:130` takes it for an expired session and logs out |

### 4.3 Divergences without a run of their own

Met while modelling; the models contain the behaviour unless it says otherwise,
no run refutes the sentence.

Pipeline and bot:

| code | document |
|---|---|
| a second interrupt cancels the pipelines and the calls they wait for go on in their threads: OBS can start recording for a pipeline that is gone (`b/src/orchestrator.py:374`) | none |
| `/trigger` adds a BackgroundTask, which is a part of its request, so a shutdown waits for the whole meeting before the lifespan's 30 s begin (`b/src/routes/api.py:84`) | its docstring: "as a detached background task" |
| every shutdown takes the full 30 s, because the wait includes the task that waits for the lifespan (`b/src/main.py:81`) | its comment: "wait for in-flight background tasks" |
| the choice between SDK and browser is made by the URL and the credentials alone; an SDK that fails to initialise fails the join (`orchestrator.py:332`) | specs/011 spec.md:112, FR-008: a fallback also if "SDK initialisation fails" |
| a crash or a cancelled task leaves the row in its stage, nothing at startup looks at it (`b/src/main.py:70`) | specs/008 research.md:12: no row is "caught in a phantom 'In Progress'" state |
| a second meeting joined during a recording is heard on it and gets into the report | SPEC-06:86: "No shared mutable state between concurrent pipelines." |
| the message "The summary was created, but we couldn't send the emails." is chosen only when the store failed or the status write before it was committed but not acknowledged; a mail that fails finds COMPLETED in the row, and its message is "An unexpected error occurred during processing." (`orchestrator.py:461`) | the message itself |
| the message "There was a problem recording the audio." is chosen whenever the text of an exception of any stage contains "obs" or "websocket": a summary that cannot be parsed or stored, whose text holds the word "jobs", is a problem of the recording (`orchestrator.py:457`, `_summarisation/parsing.py:19`, `storage_errors.py:68`) | the message itself |
| the fallback after a failed `stop` calls a method that does not exist (`b/src/orchestrator.py:383`) | the comment above it: use the latest recording |
| `SMTPConnectError` ends the recipient loop (`_output_storage/email.py:56`) | specs/007 spec.md:36: "without halting remaining deliveries" |
| participants are not mailed when a join fails for good | SPEC-01:52 |
| a provider reached by a fallback on the last attempt is blamed for all the timeouts (`_transcription/service.py:144`) | `stt_errors.py:43`: "timed out after N attempt(s)" |
| a connection that times out is not retried, only an HTTP 408 is (`_transcription/providers.py:114`) | specs/005 spec.md:60 |
| a rate limit of AssemblyAI does not cause a fallback (`_transcription/providers.py:176`) | specs/005 spec.md:61 |
| being alone is never detected on Zoom (`_meeting_access/monitor.py:121`) | docstring `meeting_access.py:120`: until "all other participants leave" |
| one visible tile counts as alone, also when a speaker is spotlighted (`monitor.py:186`) | the same docstring |
| an admission during the last pause of the waiting room is reported as a timeout (`zoom.py:115`) | SPEC-01:122: "Host did not admit" |
| a declined or cancelled meeting, or the SDK page's error badge, is polled for ever | specs/003 spec.md:44 |
| a scripted click that hit nothing counts as joined (`teams.py:278`, `zoom.py:90`) | SPEC-01:49 |
| the SDK page's end badge is overwritten by a join that settles later, and lost when the SDK goes to its `leaveUrl` before the bot's next look (`page.tsx:112`, `zoom.ts:167`); status 3 of a join that failed is taken for an end | specs/011, user story 2 |
| `PATCH /meetings/{id}/status`, which the page sends, has no route in the backend (`page.tsx:138`) | the same story |

Frontend:

| code | document |
|---|---|
| the panel stops polling at the first network error and never reconnects (`StatusPanel.tsx:48`) | specs/002 spec.md:75 |
| a meeting that FAILED is announced by the success toast and "Finalizing report" (`app/dashboard/page.tsx:68`) | SPEC-01:236, a failure banner |
| the redirect timer of one meeting leaves the page although another one was started (`app/dashboard/page.tsx:69`) | none |
| the answer to a refresh that was sent before a logout writes the tokens back; one sent before a sign-in with another account writes the old account back (`api.ts:63`) | none |
| a call refused under one account is sent again under the token of the next (`api.ts:122`) | none |
| a refresh of the same tab fires no storage event, so React's `token` stays the old one (`auth.tsx:78`) | its comment: "Keep React state in sync when the API layer does a silent token refresh" |

Reports and tables:

| code | document |
|---|---|
| a verification that names only some speakers, or two alike, leaves `name_mapping` different from the names shown (`_summarisation/service.py:226`) | none |
| an HR user whose member row is made a leader loses the HR role (`team_controller.py:199`) | none |
| an assignment whose leader is the one the handler read issues no UPDATE, so a leader written meanwhile stays although the answer names the other | none |
| a change that passed its check is applied although its author no longer leads the team | none |
| the action items of a meeting linked to two teams are counted twice for their leader (`dashboard_controller.py:85`; not modelled) | none |
| `/trigger` and `run_pipeline` take the ids of teams and members as they are posted: those of another company are linked to the meeting and their members invited, but never resolved for the report (`orchestrator.py:274`, `participant_service.py:60`) | none |
| the loser of two registrations of one company name fails at the flush, outside the try, and gets an unhandled 500 instead of joining the company (`auth_controller.py:64`) | none |
| of two pipelines that create the default company, one fails before it has a row; no route calls for it, `/trigger` always names a company (`orchestrator.py:199`; not modelled) | none |

## 5. Fairness

| specification | assumption | why |
|---|---|---|
| `Pipeline!FairSpec` | weak fairness of every task's `Step` | asyncio runs ready tasks in turn; every await is a database call, a thread that returns or raises, or a wait for a meeting that ends.  No fairness of `Trigger`, `Crash` or `RecordingHalts` |
| `MeetingAccess!FairSpec` | weak fairness of the bot | its thread sleeps for a bounded time and every Selenium call has a time limit.  The page owes nothing, so nothing forces a meeting to end or a host to admit |
| `StatusPanel!FairSpec` | weak fairness of the interval and of the answers | an interval fires as long as it is set, every request is answered or fails.  Rows and users owe nothing, nor does the answer to `/trigger` |
| `Server!Fairness` | weak fairness of a free thread taking a call, of uvicorn's and the lifespan's own steps, of each coroutine and of each call that has a thread | the loop runs what is ready, time passes, every blocking call returns.  Nothing makes a mail server answer, a user trigger or an operator interrupt |
| `Transcription`, `Summarisation`, `Workspace`, `AuthSession` | none | only safety is checked: the first two are bounded by their counters, the last two react to users who may stop at any time |

"Every meeting ends", of `Pipeline` and of `Server`'s `Returns`, is the one assumption the code alone does not
justify: `MeetingAccess` shows where it fails (a lobby, a refused page or a dead
SDK browser is polled for ever).  `EveryPipelineEnds` is therefore about
everything else that could keep a task alive, and `ShutdownEnds` about everything
else that could keep the process alive.

`EndNoticed` says that a meeting whose page stays "over" from some time on is
noticed.  An end badge that is overwritten or redirected away (section 4.3) is not
such a page, and no property promises that the bot sees it.

## 6. Proofs

TLAPS checks the eight `...Proofs` modules with no step left open.  The
assumptions are those on the constants, each named where the constant is
declared, and evaluated by TLC in the runs: the model values for "nothing" are
none of the values they stand beside, recipients are counted by naturals, the
outcomes of a write are among the three and include success, bounds and times are
naturals, retries at least one, the speakers are finitely many, labels are no
names, founders have addresses, tasks of different kinds are different, a pool
has at least one thread.  `Dashboard` has no run, so what `StatusPanel` assumes of
its two constants, `PanelConstants`, is a hypothesis of `PageTellsTheTruth` in so
many words: "no meeting" is none of the tracking ids, the number of read errors a
natural.

| module | theorems | argument |
|---|---|---|
| `PipelineProofs`, the rows | `PipelineTypeCorrect`, `PipelineInvariant`, `RecordingIsExclusive`, `RecordingHasOwnMeeting`, `ReportIsConsistent`, `MailsAreStored`, `MessagesFit`, `PipelineImplementsLifecycle`, `RowsAreReliable` | `IInv` is inductive.  The safety invariants alone are not: that a failing task's message fits needs to know which status its stage has left in the row, that the recording has the own meeting needs the browser in the meeting from `setRecording` to `stop` and every open meeting on the tape.  `ProgressInv` says this, one conjunct per range of program points; of the class of an exception it needs only that "stt" comes from the transcription, whatever the text of the others.  The refinement follows from `IInv`, because a status write is a lifecycle step only from the status `ProgressInv` gives; what the lifecycle is proved to promise in `StatusPanelProofs` then holds of the rows |
| `PipelineProofs`, their ends | `RecipientsAreServedOnce`, `OutcomesAreKnown`, `EndsAreFinal`, `StepsAreCounted` | `DeliveryInv` follows the loop over the recipients: who has a mail comes before the one whose turn it is.  `OutcomeKnown`: who ends without trouble with the database leaves COMPLETED or FAILED.  A step of one pipeline touches no other's row, and an ended one has no step (`EndIsFinal`).  `StepsLeft`, the distance of the program point from its end and the recipients to come, falls with every step of its own and rises with none of the others |
| `PipelineProofs`, with the page | `ServerRunsAsAlone`, `ServerServesPanel`, `PageTellsTheTruth` | a step of the page is a stutter of the server; a step of the server is a lifecycle step of the rows, hence a `RowMoves` of the panel, or a stutter of it.  So both inductive invariants hold together.  What they need in addition is that the panel only knows meetings that were accepted, whose pipeline a later step can bring forward but not back |
| `TranscriptionProofs` | `RouterInvariant`, `UploadsAlwaysFit`, `LimitedProvidersStayLeft`, `RetriesFollowPolicy` | the key fact is that AssemblyAI never answers with a rate limit, so the provider only moves forward in `FALLBACK_ORDER`: `Rank` does not decrease along the history and rises after a rate limit.  A size that whisper accepts is accepted by the others, hence an upload fits after every fallback |
| `MeetingAccessProofs` | `TimerInvariant`, `DesertedOnlyAfterGrace`, `LooksAreCounted` | the alone timer is never older than the time since a round met others, nor than the time since the warm-up: `TimerInv`.  `SdkInv` says that the SDK page shows an end only while its listener is registered, and that no other platform starts it.  `StartInv`: an attempt to join starts on a page that shows no end, and the clocks of a meeting stand until the bot is in it; without it a return to `join`, or the start of the clocks, could add to what is left.  `LooksLeft` and `Patience` count the looks, and the seconds, until the bot must have left.  For every poll interval, grace period and set of lags |
| `StatusPanelProofs` | `PanelInvariant`, `EndsAreReportedOnce`, `ScreenGoesForward`, `ShownEndsHold`; of the rows alone `RowsKeepTheirWord`, `RowsTakeNothingBack` | `isFetchingRef` keeps at most one request under way, so answers arrive in the order the rows were read; an answer is behind its row because `StatusStep` only rises along `MeetingLifecycle`; and a terminal row stays terminal.  `BackedInv` carries from the read to the screen what the row said: a report and a failure are never taken back, so an answer that comes late is still true |
| `SummarisationProofs` | `SummarisationInvariant`, `SpeakersStayApart`, `CorrectionsAreRouted`, `MostActiveIsTop`, `FailedDetectionIsHarmless`, `TalliesAddUp` | whoever is on a list was first heard in a segment of its own, so the ranking has no ties and `Rank` is injective: the position in one list picks at most one name of the other, and no two voices the same one.  Names are no labels, so a voice without a name cannot share one.  The lookup back from a name to its label is then the inverse of the merge.  `SInv` carries where `stats`, `mapping` and the two analyses come from.  `DetectionInv` adds that a finished tally has exactly the voices of its segments (`Complete`), so the same segments counted twice bring no new voice, no name, and no list where there was none.  `TalliesAddUp`: `RunningSum` is a recursive function; that it exists and satisfies its equation is shown by an induction over the set of arguments for which it does (`NatSetInduction`), after which one segment adds one share |
| `WorkspaceProofs` | `WorkspaceInvariant`, `TablesAreClosed`, `CompaniesAreFounded`, `AssignmentIsAtomic`, `LinksAreTheSelection`, `AudiencesAgree` | what an assignment has read stays true until it commits (`AssignmentsHold`), because no handler takes a team leader's role, or a company, away; a company and its first account are one transaction; no id is given twice (`IdsAreUsed`), so what a selection names and is gone never comes back; and `ResolvedHolds` is `SameAudience` before the row is written: between the two queries of a trigger (`HalfResolved`) only what the first looks for is complete, and since a meeting is one request's, the second query completes it.  Rows of `theirs` may be among the links; the queries of the report never found them, and `Ours` is what `SameAudience` says of the difference |
| `AuthSessionProofs` | `SessionInvariant`, `RefreshIsShared`, `AccountsDoNotMix`, `NobodyIsThrownOut` | a refresh under way belongs to a call that waits, which its tab's promise names, and whoever waits has a promise (`PromisesHold`); hence two refreshes of a tab are one.  An account is fixed when a token is issued, and every write of `localStorage` writes all three keys from one answer.  `KeptInv` says that an undisturbed session has only good refresh tokens and no event of a logout; the step lemma proves it together with the action of `KeptSignedIn` |
| `ServerProofs` | `ServerInvariant`, `NothingIsCutEarly`, `CallsAreTakenInTurn`, `ServerStepsAreCounted` | the phases order who can still be running (`PhasesFit`): no pipeline when the drain begins, because uvicorn has waited for the requests; so what is left to cancel is an invitation, and `Serve` keeps the wait going until the clock has run out.  `CallsFit`: a pipeline that has not begun has made no call, and a thread works only for one that has begun; hence `WorkLeft`, three steps for each of the eight calls, `MailLeft` and `TimeLeft` never rise, and every step lowers one of them.  A queue without duplicates gives everyone in it a place that only moves forward.  For any number of pipelines, invitations and threads |

## 7. Checked by TLC only, and not modelled

* Liveness (`EveryPipelineEnds`, `OutcomeRecorded`, `EndNoticed`,
  `DesertedNoticed`, `EndReported`, `CallsGetThreads`, `ShutdownEnds`): the proof
  system does not treat fairness or ENABLED.  What is proved is the part that
  does not need them.  `StepsAreCounted`, `ServerStepsAreCounted` and
  `LooksAreCounted` give a bound, for all constants, on the steps that the first,
  the last two, and the third and fourth of these can take; TLC adds that such a
  step is possible as long as the end is not reached, and that fairness takes it.
  `CallsAreTakenInTurn` says besides that nobody is overtaken without end, and
  `OutcomesAreKnown` with `EndsAreFinal` is the safety half of `OutcomeRecorded`.
  `EndReported` has none: polls may go on for as long as a meeting does.
* `BudgetUsed` is a conjunct of the proved `TInv`, `OneRefreshPerTab` follows from
  the proved `UInv`.  `DetectionInv` and `KeptInv` hold on the instances of
  `summarisation_report` and `auth_session`, where a reader can check them by
  naming them in the configuration.
* What the page detectors make of real HTML, the layout of mails and reports,
  the prompts and answers of the LLM, CSS selectors: data without control.
* The connections of the database's pool: how long a request keeps one depends on
  the release of FastAPI, which the requirements leave open.
* The leaders and the meetings of a second company: its teams and members come,
  change and go as ours do, and `SameAudience` is about what a meeting of ours may
  then be linked to.
* Export, the dashboard's figures, configuration, logging, migrations, the
  selection in the meeting form, the pages that fetch by id and the other pages:
  reads, formatting or one user's input.
