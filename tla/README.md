# A model of cavbot2

CavBot2 is the Discord bot of a gaming community: slash commands, temporary
voice channels, a voice recorder, Foxhole roster tools and a web panel. These
TLA+ modules model the parts of it that keep state across events, TLC checks
them on small instances, and TLAPS proves the most important invariants for
instances of any size. All source paths are relative to `src/`.

## The system

| Component | State it keeps | Operations | What is hard | What makes it correct |
|---|---|---|---|---|
| Temporary voice channels (`commands/temp_vc.go`) | the record (diff base, occupants, owners, numbers), spawns in flight, the store's rows of spawned channels | voice events, channel deletes, `GUILD_CREATE` sweep, rank saves | every event's handler is a goroutine; store and Discord calls are made off-lock; sweeps overlap spawns; outages lose events | every channel it made is known or gone; numbers are distinct; the owner is inside and keeps the channel; a reconnect heals |
| Locks and guests (`temp_vc_lock.go`, `temp_vc_let_in.go`) | access changes in flight, joins held meanwhile, lock columns of the row | lock, unlock, let in, adding guests | a join during a lock's own edits | nobody is shut out of a channel they may enter; the row and the channel agree |
| Delete delay (`temp_vc_delay.go`) | waits and their timers | start, cancel, retime, sweep | timers that fire while cancelled | no occupied channel is deleted, an empty one is in the end |
| Renames (`temp_vc_rename.go`) | rename times per channel | rename | a slot taken before the call and given back on failure | Discord's limit is never passed |
| Recorders (`voice/recorders.go`) | per recorder account: state, login, relogin owed | connect, log in, refuse, take offline, close | logins race a shutdown and one another | one way back per offline recorder; no login forgotten; out is for good |
| Recording (`commands/recording*.go`) | recordings running, their stops, gaps, mixes; rows, notices, files | start, stop, channel checks, gap limits, recovery, retention | a stop, a check, a gap and a start race over one recorder; Discord calls hang | one end per recording; recorders freed once; no two recordings on one connection; rows tell what runs |
| Recording files (`recording_tracks.go`, `_ogg.go`, `_files.go`, `_mix.go`, `_retention.go`, `_library.go`) | tracks on disk, the info file, the mix, the row | hear, flush, end, mix, recover, delete | a crash between any two files; packets late, doubled and wrapped | what the info file and the row name is on disk; time in a track is time in the call |
| Voice gateway and receiver (`voice/gateway.go`, `receiver.go`, `udp.go`, `recovery.go`) | the call's gateways, dials, joins, sockets; held frames; the recovery log | rejoin, dial, redeliver, close, receive | moves, closes, refused tokens, silence and the close itself, all at once | one rejoin at a time; quiet after the close; a loss told once, in order; back in the call |
| Foxhole actions (`commands/foxhole*.go`, `panel/foxhole*.go`) | the one action, the commands that run, reports, records | previews, confirms, stops, retries; role commands; notes and approvals | renames, edits and failures between a preview, its confirm and the changes; crashes | a report tells what Discord did; one action, never beside a command; nobody changed but as shown |
| Panel (`panel/`) | rows and their versions, the change log, sessions in memory | hub and section saves, sign-ins | a save races another process, the guild and the runtime it is applied to | the runtime ends with what the store holds; a save writes over nothing its form was not shown |
| Winged aviators (`commands/winged_aviator.go`) | who holds the status, the bot's own changes | member events, command, passes | a pass races members, moderators and the forum | the role follows the milpac; a person's removal lasts |
| Member list (`commands/member_list.go`) | the request, its parts, stall timers | request, part, refusal, retry | handlers and timers out of order | complete means every member |
| Paged lists (`commands/paged_reply.go`, `paged_list_sweep.go`) | pages in the store | reply, press, sweep | two presses, a sweep, a crash between save and reply | a press shows a page of this list or says it is gone |
| Gateway watch (`utils/gateway_watch.go`) | outages, their report timers, refused tokens | connect, disconnect, log out, stand down | handlers in any order around a stop | a report is of an outage; nothing is told of a session that was closed |
| Interactions, roster commands, telemetry, tools | none that outlives a request | | | |

How they interact: the main Discord session's events call temporary voice
channels and the recording runtime, each handler on a goroutine of its own; both
read discordgo's state cache and make calls to Discord and to the store outside
their locks. The recording runtime reserves, joins and takes offline the
recorder accounts, which call nobody back except to say a token was refused.
The panel saves to the store and applies the save to a runtime. `main.go` starts
them in order and stops recordings first.

## The modules

Everywhere an action is one critical section of the component's mutex, or one
call (to the store, Discord, the disk or the voice library), or one event of the
outside. In `TempVC` and `Recording` a goroutine's remaining work is a sequence
of items in `run`, of which it takes the first: `CallRelogin` is only what a
`releaseLate` or a cut short put there. So every place where the Go code lets go of
a lock or waits for an answer is a place where every other goroutine may move.

### TempVC

`TempVC` models `commands/temp_vc.go` for one enabled hub with no delete delay.

| In the module | In the code |
|---|---|
| `live`, `created`, `cached`, `loc`, `present` | Discord's channels, and discordgo's cache of the guild |
| `events`, `chDeletes`, `sweeps` | events whose handler has yet to run |
| `userChannel`, `tracked`/`occupants`, `owners`, `channelIndex`, `pending`, `inFlight`, `settled`, `sweepActive`, `ladder` | the fields of `TempVC` of those names |
| `rows` | the spawned channels' rows in the store |
| `DropStale`, `VoiceUpdate`, `ChannelDeleteEvent` | the event handlers |
| `HubJoin`, `Create`, `Commit`, `MoveCheck`, `GuildMemberMove`, `ReadOwner`, `SettleSpawn`, `AbandonSpawn`, `Keep` | `handleHubJoin`, `settleSpawn`, `abandonSpawn`, section by section |
| `WriteRow`, `DeleteRow`, `DeleteIfStillEmpty`, `ChannelDelete`, `UntrackDeleted` | the calls that follow an event, a sweep or a save |
| `SweepStart`, `ListSpawnedChannels`, `Rebuild`, `FinishSweep` | `handleGuildCreate` |
| `ApplyRankRoles` | the rank save |
| `Move`, `HandDelete`, `DeleteReachesCache`, `Outage`, `GuildCreate`, `Restart` | members, moderators, Discord and the process |

A call to Discord works, is refused, or takes effect and loses its answer: a create whose
answer is lost leaves a channel that neither record nor row knows of, a move puts the
member into a channel the code then deletes or keeps, a delete empties a channel that the
record takes for alive until its event comes.

Simplifications: a member's voice events form a set (delivered in any order, two
equal ones at once); the cache takes voice states at the moment Discord does; a
`GUILD_CREATE` comes only after the guild left the cache; ranks are always
known. Locks, delays and renames add sections of their own to these handlers
and are in modules of their own, below.

### Recorders and Recording

`Recorders` models the accounts of `voice/recorders.go`: `state`, `session`, the
login goroutine (`task`, with the login it has in `held`), the logins that are
up and those a hung logout is ending, and the relogins owed. Logins are numbered
so that a property can speak of one login and not of another.

`Recording` EXTENDS it and models the runtime of `commands/recording.go`,
`recording_stops.go`, `recording_gap.go` and `recording_recovery.go`.

| In the module | In the code |
|---|---|
| `running`, `rec` | `RecordingRuntime.running`, `activeRecording`. `entered` is the point from which `running` holds the recording itself, not its reservation; `via` is the login its connection goes through |
| `rec[s].ownLeft`, `grace` | an own leave the runtime has yet to learn of, and the time after it has |
| `conn`, `ear`, `armed` | the connection, the receiver, the gap limits that are timed |
| `row`, `notice`, `old` | the store's row, the notice, the starts of earlier processes |
| `at`, `seen`, `human`, `check` | where Discord and the cache have each recorder, who is in the channels, and an event or timer whose check has yet to run |
| `Start`, `Join`, `Joined`, `Notice`, `Row`, `Receive`, `Enter` | `Start`, call by call; each failure leads to `Undone` |
| `Check`/`CheckEvent`, `Judge` | `checkChannels`: the snapshot, then the lock |
| `Stop`, `Capture`, `Leave`, `CloseRow`, `Release`, `ReleaseLate`, `CallRelogin`, `EditNotice`, `LateLeave` | the stops and `finish` |
| `GapStarted`, `GapEnded`, `LimitFires`, `GapLimit` | the gap, its limit, `cutShort` |
| `Shutdown`, `Restart`, `Look`, `LookAtRecorder`, `KickIdle`, `List`, `Recover` | the end of a process and the recovery of the next |

The recorders' variables change in a step of `Recording` only as a step of
`Recorders` says. That is both checked (`RecordersSpec` as a property of
`recording_stops`) and proved (`RuntimeUsesAccounts`).

Simplifications: voice events that wait for a handler are merged into `check`; a
limit may fire at any moment after it is set; a gap is a number, not a time. A
leave of an old login does not touch the voice state of a newer one, as the
comment of `releaseAfterLeave` says ("Whenever the hung leave returns, it touches
no later recording"). `reserveRecorder` reads the recorders' states one after
another under its own lock, the model in one step. The first process's recovery
found nothing and is over at `Init`. Tracks, the info file and the
mix are in `RecordingFiles`; titles, rights, the ping, the DM and Sentry are
left out.

### TempVCAccess and TempVCTimes

`TempVCAccess` is one spawned channel seen from its lock: `commands/temp_vc_lock.go`,
`temp_vc_let_in.go`, `temp_vc_guest.go` and `temp_vc_lock_notice.go`. `BeginLock`,
`BeginUnlock` and `BeginLetIn` are what a command, or a press on the notice, does
under `TempVC.mu`: authorise, then either wait behind the access change that runs
or start one (`Access`). `Edit`, `PostNotice`, `CloseNotice`, `WriteLock`,
`AddSend` are its calls, `LockCommit` and `UnlockCommit` the sections between
them, and `EndChange` hands the channel on with the joins it held. `SaveHub` and
`Restored` are where the panel and the sweep meet a lock. The overwrite list is
whether Connect is denied to everyone and whom it is allowed to. Four records are the
model's own and tell its properties what the code leaves open: `spoilt` (the last edit
took effect and lost its answer; the last write of the row failed; a restart found the row
behind Discord), `missed` (members inside whom a guest add skipped for being out, or failed
for), `late` (guests added to the open list by an add that belongs to no access change)
and `loose` (notices whose post or close failed, or which a restart's row does not name).
`spoilt` and `late` end with the next edit, `missed` with the member's next event. A
restart may come at any step, in the middle of an access change too.

`TempVCTimes` is the clock of the same channel: `Scheduled`, `Fires`, `WaitOver`,
`DeleteIfStillEmpty`, `SaveDelay` and `Sweeps` are `temp_vc_delay.go` with timers
that run late and stops that come too late; `Rename`, `Released` and `Answered`
are the window of `temp_vc_rename.go`: a rename may be accepted, refused, or accepted with
its answer lost, for which the code gives the slot back (`unheard`), and a restart forgets
the slots. A slot of the window is when it was taken and a
number that tells apart the slots of one tick; the code keeps times alone, in order, and
slots of one time are alike to it. A hub that was deleted has delay 0. The two parts share
only the clock.

### RecordingFiles and RecordingTrack

`RecordingFiles` is one recording's row and files from its start to its deletion.
`Hear`, `Flush`, `EndTracks`, `Tell` are the capture, `CloseRow`, `Mix`, `SetMix`
the end, `Recover`, `KeepTrack`, `RecoverInfo`, `RecoverRow` the next process,
`BeginDelete`, `RemoveFiles`, `RemoveRow` retention and the panel. A process goes
down between any two of them.

`RecordingTrack` is one track of it: `Place` is `track.place` with its RTP
difference taken modulo `Modulus` (2^32 in the code) and its drift limit, `Page`
the Ogg pages, `Close` the end; the network delays, reorders, repeats and loses.

### VoiceLink, VoiceConn, Receiver and VoiceSockets

`VoiceConn` is a recorder's connection in one call: `recorderConn` and
`renewableGateway` of `voice/gateway.go` over the voice library, which dials once
it has a voice state and a server. `Renew`, `Starts`, `Joins`, `WaitEnds`,
`Leaves`, `Left`, `Result`, `Retries` are the rejoin; `DialOpens`, `DialDone`,
`DialRefused`, `Reopen` its dials; `Deliver` and `Redeliver` the events, again for
a gateway that came after them; `Check` and `Hand` what watches for silence;
`Close` and `CloseLeaves` the end. A check and the step that rests on it are two steps
where the code waits between them: `Hand` and `Start` (a rejoin is noted once the old socket
has closed), `Joins` and `SendsLate` (a voice state goes out after the check for the close),
`Dialed` and `DialOpens` (a dial notes its server before the library takes it). `past` is the model's own
record of which of these were crossed. `VoiceLink` is what all this promises the
receiver: a loss is counted once, its cause is named once and never changes. It is
the abstract specification `VoiceConn` implements (`ImplementsLink`), and
`Receiver` EXTENDS it: the receiver is checked over any connection that keeps the
promise, and the connection is checked to keep it.

`Receiver` is the goroutine of `voice/receiver.go`: `Look` holds, drops or passes
on frames, `Tell` starts and ends gaps, `Fresh` is its reconnect, `Reads` one
datagram. `VoiceSockets` is `voice/udp.go` (a socket opened, keyed and closed while
it is dialled again) and the log of `voice/recovery.go`.

### Foxhole, FoxholeRule, FoxholeCommands, FoxholeRecords and FoxholeReplies

`Foxhole` is one action of the page: `Opens` a preview, `Posts` its confirm,
`Claim`s the one-action rule, `Plan`s, `Open`s a report, and then for each member
`Await`s the list, `Reach`es the member and skips it or `MakeChange`, `Clear` and
`Write`, until `EndWrite` and `Release`. `EndLate` is the end write that goes on in
the background, `EndCutOff` what the next start does with reports cut off. The
members of a preview are sorted by name: `InNameOrder` is the sequence that has each
once and in order, chosen and not computed. A member leaves `todo` as soon as a list
of the report has it, and a panic between two steps of a member leaves the rest there.
`FoxholeRule` is the abstract specification: at most one action holds the rule,
never beside a command; one report at most is opened in each hold of the rule, and
closed once and for good. `claims` numbers the holds, so that one action that claims
over another is a step the rule does not have. `Foxhole` implements it (`RuleSpec`).

`FoxholeCommands` is the role commands call by call, the purge above all, which
makes a role again and must leave no copy and no lost overwrite; each call may fail or
take effect and lose its answer, and a purge may panic, lose its reply, or die with the
process. `FoxholeRecords`
is the notes and approvals, statement by statement under READ COMMITTED with row
locks and deadlocks. `FoxholeReplies` is the arithmetic that cuts a bulk reply to
Discord's limits, checked against every list of lines of the instance.

### PanelSaves and PanelSessions

`PanelSaves`: a save loads a form (`Open`), is posted, takes the save lock, reads,
checks what its form was shown, renames in Discord where it must, writes row and
change log entry in one transaction and applies it to the runtime; `Make` and
`Undo` create a hub's channel. `Other` is a second container during a deploy,
which shares the store and not the lock; `World` renames and deletes by hand.
One module stands for the three guild-wide sections, which share this code.
`PanelSessions` is the pending sign-ins and sessions, and the requests that read a
session, wait for the forum, and write it back.

### MemberList, WingedAviator, GatewayWatch and PagedLists

One module for each small machine. `MemberList`: `Asked`, `Chunk`, `Refused`,
`AskAgain`, `LateCheck`, with discordgo's state in order and handlers in any order.
`WingedAviator`: one member under the member's lock, with `Own` the note by which
the bot knows its own change. `GatewayWatch`: `Open`, `OpenEnds`, `LogOut`, `GiveUp` and
`CloseLeft` (`CloseSession`), `StandDown`, `Online`, `WentOffline`, `FireReport`; a logout
marks its outage (`LogOut`), then lets go of its session (`GiveUp`), with handlers between. `PagedLists`: `Save` before
`Show`, `Press`, `Read`, `AnswerPress`, and the hourly `Sweep`.

## The runs

Each run asks one distinct question. Components that share no state share a run: a
variable `which`, chosen at the start and never changed, says whose steps are
taken, and the others rest. This multiplies nothing (the instance's states
are the sum of its parts' states), and the parts' properties are checked together.

| Run | Asks | Instance |
|---|---|---|
| `tempvc_spawns` | do spawns in flight, numbers, rows and the record stay in step while two handlers spawn, with an outage, a refused or unanswered call, a hand delete or a rank save | 2 members, 2 channels, 2 handlers |
| `tempvc_lives` | do occupants and owners follow the members around a channel that has some | 3 members, 1 channel |
| `tempvc_reconnects` | under fairness: do spawns settle, sweeps end, and does a reconnect in calm water heal the record | 2 members, 1 channel, outage or restart |
| `tempvc_access` | do Discord, the record, the row and the notice agree on a lock at rest; do waits and rename slots tell the truth; does every call end and every empty channel go | lock: owner, moderator (whom the channel's permissions hide it from) and guest, 2 commands or presses and the sweep; delay: delays 0 to 2, clock to 6; rename: 2 in a window of 3 |
| `recording_stops` | is every recorder freed once, back once, out for good; is every end written once; is no connection shared; does an empty channel stop its recording | 2 recorders, 2 channels, 2 starts, 2 goroutines and recovery |
| `recording_ends` | under fairness: does every stop free its recorder, do offline recorders return, do rows end as the recordings do | 1 recorder, 1 channel, 2 starts |
| `voice_calls` | one rejoin at a time, quiet after the close, a kept `VoiceLink` and a return into the call; frames in order, every loss and gap told; one socket; a log that loses no open step | 2 close handlers, 4 servers, 9 gateways; 2 SSRCs holding 2 frames, runs of 2 failures; 3 sockets; 4 steps of which 2 are kept |
| `foxhole_actions` | do reports tell what Discord did, is the rule kept and given back, is nobody changed but as shown | 2 members, 2 lines, 2 reports, 1 command, up to 2 actions |
| `foxhole_desk` | do records, commands, replies and paged lists keep what they promise | 2 members, 2 saves; 2 command runs, 6 role IDs, 2 channels, a crash; replies of up to 11 lines, limit 24, digits to base 3; lists of up to 4 lines, pages of 12, 2 of 3 days' retention |
| `panel_saves` | do store, log and runtime stay in step; does a save only what its user saw and asked; does an ended session stay ended; does every save end | 2 saves, 2 values, 2 hubs, a second writer; 2 requests, 3 ticks |
| `upkeep` | do files, row and mix agree through crashes; is time in a track time in the call; is a complete list complete; does a role follow its milpac; is a report of an outage | 2 speakers; timestamps modulo 18, drift 3, delay 2, clock to 8; 2 parts, 2 guilds, 5 requests; 2 at the lock; 2 logins, 5 outages |

The sizes are the least that let the races happen: two handlers are what it takes
for a handler to run inside another; two channels for a number to be taken twice;
two starts for a recorder to be taken again while its last stop goes on; a third
member for an election to have a choice, or for a guest who is neither owner nor
moderator; two recorders for one check to stop two recordings; two members for a
report to have one done and one missed; two saves for a lost update, four servers
for a move during the answer to a move; two parts for a list to be half there; a
modulus small enough for timestamps to wrap within the clock and large enough for
half of it to exceed delay and drift. Eleven lines of two lengths meet a limit of
24 from below, exactly, and from above, and digits to base 3 make their counts of lines
left out one, two and three digits long, as the code's up to 100 are.

Disturbances (outages, faults, hangs, gaps, restarts, moves) are bounded by
allowances, a set of functions of which a behaviour takes one: each
member is checked on its own, and together they pair the disturbances that meet
in the code. `Recs`, `MaxServers`, `MaxGateways`, `MaxAsks`, `MaxWaiting`,
`MaxLogins`, `MaxOutages`, `MaxEvents`, `MaxWaits`, `MaxRenames`, `MaxHubs`,
`MaxIDs`, `MaxRequests`, `MaxSockets`, `MaxSteps` and the clocks bound what would
count on for ever. A behaviour that has used up its allowance stops, so most runs
do not check deadlock; `TempVC` has an explicit `Rest` step for the quiet state,
and its runs do.

`tempvc_stays_empty` finds what a comment says not to be so: a delete refused
because of a joiner who is gone before their handler runs leaves an empty channel
until the next `GUILD_CREATE`. `temp_vc.go:42` says a channel is deleted the moment
its last occupant leaves.

Seven more configurations, beside the runs of `PROJECT.json`, do the same for other
comments. Each names one property, which states the comment, and TLC finds it violated
in a few seconds (`tlc -config <name>.cfg <module>`):

| Configuration (module) | The comment | What TLC finds |
|---|---|---|
| `tempvc_late_guest` (`MCTempVCAccess`) | no unlock's edit lands before a guest add that started first (`temp_vc_lock.go:34`) | a joiner's add belongs to no access change; a whole unlock comes between its choice and its call |
| `foxhole_purge_leaves` (`MCFoxholeDesk`) | a recreate that failed left nothing behind (`foxhole.go:529`) | a create whose answer is lost, or a cleanup that fails, leaves a second role of the name |
| `foxhole_retry_names` (`MCFoxhole`) | a line that is a member's ID matches them alone (`panel/foxhole_retry.go:164`) | a nickname that is this ID matches too |
| `upkeep_logged_out` (`MCUpkeep`) | after a logout the recorder is in an outage until a login's READY (`voice/gateway.go:1571`) | a READY or RESUMED of the old login, handled between the halves of the logout, ends the outage |
| `voice_second_rejoin` (`MCVoice`) | a close is handed to the rejoin under way, for a second would keep the first from ending (`voice/gateway.go:605`) | a rejoin that waits for its old socket is not noted yet; a close that comes meanwhile starts a second |
| `voice_late_join` (`MCVoice`) | after the close only its leave goes out (`voice/gateway.go:653`) | a join past the check goes out after it |
| `voice_dials` (`MCVoice`) | connected at the server Discord had named last (`voice/gateway.go:843`) | a refused dial's server is noted, and the older dial counts as connected there |

The passing runs allow the same steps, and their properties hold beside them: each states
what is left of the promise, and what it leaves out is named in a variable.

### Where comments and code differ, without a run

The properties are stated, and the allowances chosen, so that these do not decide
them. Each was met while modelling and is among the hazards of `PROJECT.json`
where it can bite.

- After a restart a hub join before the rebuild takes a stored channel's number
  (`commands/temp_vc.go:2285`).
- A create whose answer is lost leaves a channel nobody knows of (`temp_vc.go:2055`).
- A reconnect, not only a restart, forgets a live channel whose row write failed.
- A sweep that listed the rows before a handover's write gives the channel back to
  its former owner (`temp_vc.go:174` calls a handover final).
- `Keep` (the compensating delete of an abandoned spawn was refused) elects among
  those inside even when a present member owns the channel (`temp_vc.go:1664`).
  `tempvc_lives` starts from a channel past its spawn and so checks
  `PresentOwnerKeeps` for everything else.
- A check that waits between its snapshot and the lock judges an old cache
  (`recording_stops.go:14`).
- A gap limit that fires before the recording is in `running` is spent
  (`recording_gap.go:16`).
- Recovery disconnects a recorder that a start has just taken
  (`recording_recovery.go:73`).
- An outage's report checked just before `StandDown` is still sent
  (`utils/gateway_watch.go:243`), and its back-online line may come first.
- A remove compares the version at its read only (`panel/hubs.go:1409`): a save of
  another process in between is removed with the hub. `StoreTold` allows for that
  break and no other.

### What the properties say

`Quiet` and `Calm` states appear in many of them: the handlers have run, nothing is
on its way, the cache is up to date. What must hold then holds whatever order the
handlers ran in, and it is not a mere wish: the fair runs show that the work
does end. Several properties are conjunctions of named parts, each with its own
comment in its module.

- **Temporary channels.** `InFlightAccounted` and `PendingAccounted` say of a marker
  (a spawn in flight, a number reserved) that it is set exactly while some goroutine
  has still to clear it. `RecordMatches`: numbers are distinct, rows and record name
  the same channels, and no channel that is gone is tracked. `ViewCurrent`: the diff
  base and the occupants are what Discord shows once the handlers have run.
  `OwnersRight`: an owner is inside, and keeps the channel while inside.
  `RecordSettles`: spawns and sweeps end, a reconnect heals.
- **Access and times.** `AccessHolds`: at rest the list, the row and the notice tell
  the record's lock, and whoever is inside a locked channel is on its list; a wait counts
  from when its channel emptied, through saves and sweeps; renames Discord told of as
  accepted never pass its window, and each holds its slot. What it leaves out is no more
  than `spoilt`, `missed`, `late` and `loose` name: a list after an edit that lost its
  answer, or behind its row at a restart, until the next edit; a row whose own last write
  failed; a member who was out when their add came and is back before their leave was
  handled, which `HandleVoiceStateUpdate` then drops as stale; a guest added late; a
  notice whose post or close failed. `CallsEnd`: no change waits for ever behind another,
  and an empty channel goes.
- **Recorders and recordings.** `WayBack`, `LoginsHeld`, `OutForGood` of accounts.
  `StopsRight`: no two recordings on one connection (why a leave that hangs takes its
  recorder offline), busy marks and owed relogins accounted for, an empty channel
  stops, one end each. `RowsTell` and `RecordingsSettle` for a store that answers: a
  failed write leaves a row open by design until the next restart.
- **Files and tracks.** `FilesTell`: no file without a row that finds it, names in row
  and info file as on disk, a mix "ready" only if it is there and whole. `TrackHolds`:
  a packet is placed no later than the network makes it, and no earlier than the drift
  and a frame of silence allow (`place` fills a gap with whole frames, so up to one
  frame of it stays open), wherever the timestamps wrap.
- **Voice.** `CallsHold`, `ImplementsLink`, `CallsSettle`, as in the table. Of two rejoins
  `CallsHold` allows the one case `past.crossed` records, and after the close the updates
  in `past.midway`, each once; `CallsSettle` speaks of calls in which no such step was.
- **Foxhole.** `ReportTells`: what a report lists as changed was changed by its own
  action, an ended one lists all that was, each planned change is in one list, and a
  running report has something that ends it. `StartsAsShown`: nobody is changed whom
  the preview did not show, nothing stopped by another report's page. `RuleSpec`, the
  refinement. `RunsEnd`: at most one change after a Stop, every report ends, the rule
  comes back. `DeskTells`: the change log replays to the
  records, so no note is written over unseen and no approval lost; no Foxhole role is
  ever gone from the server, and each one of a name beyond the first has a purge of its
  own that answers for it: its summary was delivered and calls that role failed or
  lingering, or the purge panicked, died, or lost its reply. `RepliesFit`: every reply fits the limit and
  its count leaves nobody out. `PagesRight`:
  arrows that work lead to pages the store has. `DeskEnds`.
- **Panel.** `StoreHolds`: the log replays to the store, the runtime holds what this
  process wrote last. `SavesAsAsked`: no save over one its form was not shown, no
  channel renamed but as typed, no members dropped but as confirmed, an ended session
  stays ended. `SavesEnd`.
- **Watching.** `ListRight`: a list called complete has every part of the guild that is
  there now, whichever request the parts answered. `AviatorsRight`: only a person ends a
  status (`StatusKept`), and in the end the role follows the milpac. `WatchTells`: the watch calls an
  account down when it is, unless a READY slipped into its logout (`slipped`, until the
  next outage or READY), an outage told is told over, a refused token is told once.
  `UpkeepSettles`: mixes, lists, reports and logins come to their end.

The mutants in `PROJECT.json` show for each property a plausible bug it finds; in the
modules each stands before what it replaces, marked "wrong on purpose".

### Fairness

Goroutines that can run do run, Go's scheduler being fair; calls to the store
and to Discord have time limits, so they return; the gateway delivers what it
has, and the cache catches up; timers fire; a recorder's login goroutine tries again
for ever (`Recorders.logIn`'s loop), failures being bounded by the allowance; a
process that goes down is started again by Docker; the sweeps come hourly. A hung
leave or a hung logout is under no fairness: it may hang for ever. A lost gateway
connection of a recorder need not come back, which is why its watch reports it.
Members, moderators, managers, browsers and faults owe nothing.

## The proofs

`TempVCProofs`: `TypeCorrect`, that `TypeOK` is an invariant for any sets of
members, channels and handlers, and on that base `SpawnsAccounted`
(`InFlightAccounted`) and `NumbersAccounted` (`PendingAccounted`). Neither of these
is inductive: a step that takes
a section off `run[h]` says nothing until one knows that a spawn is held only by
the *last* section a handler has to run. `SpawnInv` adds that (`Plain`), that no
two handlers hold the same channel, that what is held was created, and that a
channel not yet committed was never in flight (Discord does not reuse IDs). Most
actions are then one of a few moves on the last section: drop a section before
it, replace it by another that holds the same spawn, or let it go.

`ViewFollows` (`ViewCurrent`, with `OwnerInside`) and `OwnersFollow` (`OwnersRight`) are
about a channel past its spawn (`EstablishedSpec`, as in `tempvc_lives`), for any members,
handlers, rank saves and hand deletes. The invariant is `LivesInv`: no spawn begins again
(`NoSpawns`), the sweep's list of rows does not fail (`ListsWork`), and each member is
where the diff base has them or has an event to come, the occupants are whom the diff base
puts inside, and an owner is one of them (`Viewed`), until a sweep that is due. The
hypotheses are that channel 1 is one of the channels, and of the allowances:

- `ViewFollows`: none has both a store fault and an outage or a restart. A sweep that
  cannot list the rows leaves the record as stale as the outage made it, until the next.
- `OwnersFollow`: none has an outage or a restart, so no sweep runs. A sweep that takes
  owners from rows older than a handover gives the channel back (`temp_vc.go:1379`).

With spawns (`Spec`) neither is an invariant: a member may enter a channel between its
create and the section that begins to track it, and is not counted.

`RecordKeeps` and `RecordAlwaysMatches` are about the record against Discord and the
store (`RecordMatches`), from the first spawn on (`Spec`), for any members, channels and
handlers. What the three say of one channel is changed by several goroutines, each by a
section at a time, so the invariant (`RecordInv`) says of every section still to run that
it fits the record: one that takes its channel for tracked carries its number, one that
takes it for gone is right (`Works`, `Stored`). On that rest why a sweep may rebuild the
record from the rows it listed before (`Sweeping`: they cover every live channel but those
in flight), why a spawn may leave `inFlight` (`Rowed`, `Settles`: by then its row is
written), and why nobody knows of a channel before its commit (`Fresh`). `Frame` says what
every step leaves alone: it gives the step part, `UntrackedOnlyGone`. That a quiet record
holds no channel that is gone needs `Ghosts`, which names for each such channel what will
take it out: a goroutine about to, an event on the way, a due sweep, Discord's word to the
cache, or a spawn that finds nobody there to keep the channel. The hypotheses, on the
allowances:

- both: no restart and no store fault (a Discord call may be refused or lose its answer). A row that is never written leaves a channel no
  sweep can find; after a restart the record is empty until the rebuild
  (`temp_vc.go:2295`).
- `RecordAlwaysMatches`: at most one of outages, deletes by hand and lost answers
  (`Singly`). TLC finds why, in 17 steps: a spawn's channel is deleted by hand during an
  outage, the sweep that follows keeps it because its spawn is in flight
  (`temp_vc.go:1359`), the spawn then settles, and the record holds a channel that is gone
  until the next sweep. A delete by the code itself whose answer is lost does the same
  with an outage or a delete by hand beside it.

`AccessProofs`: `AccessAlwaysHolds` (the whole of `AccessHolds`), from `LockAlwaysTold`
(`LockTold`), `WaitsAlwaysRight` (`WaitsRight`) and `SlotsAlwaysTell` (`SlotsTell`), for
any members, goroutines, pickers, delays, clocks, windows and disturbances. The three
parts share no state and have an invariant each.

- The lock's, `AccessInv`, must hold in the middle of a change, where `LockTold` says
  nothing. `Plans`: what a goroutine has still to run is a row of sections in which each
  may follow the one before (`Follows`) and which ends as it must; a plan that ends an
  access change belongs to the one goroutine that holds it. `Told` then says of each
  section what the record and Discord have meanwhile: which lock the holder is at work on
  (`Phase`); that the row has the lock or its write is still to come (`RowRight`); whose
  notice is open (`NoticeRight`); that a channel not tracked waits for a sweep (`Whole`);
  that whoever is inside and not in the record has an event or a sweep to come (`Heard`);
  and that whoever is in the record of a channel being locked is in the list the edit
  sends, is on Discord's list already, is held for the end of the change, or is in some
  goroutine's guests still to add (`GuestsRight`, `Covered`). At rest only the second of
  these is left, which is `ListTellsLock`. What `spoilt`, `missed`, `late` and `loose` name
  is in each of these parts, and nothing else is excused.
- The wait's adds that one timer runs at most, of the wait the channel has, and none that
  has fired (`WaitStands`).
- The slots' counts: of the slots of a window those taken, accepted or in flight, are the
  same set, and never more than the limit, refused ones of any age given back in any order.
  Renames accepted with a lost answer are in neither set: the code gives their slots back.

The lock's invariant was checked by TLC on larger instances than the run's before it was
proved. The proof turned up the `missed` members.

`RecordingProofs` begins with the accounts (`Recorders`): `OneWayBack` (`WayBack`), `NoLoginForgotten` (`LoginsHeld`)
and `OutStaysOut` (`OutForGood`), for any number of recorders, from one inductive
invariant that speaks of one recorder at a time. It adds that a login goroutine
past its start has taken the session away, that every number in use is at most
`logins[r]`, so that a new login is unlike every old one, and that only a
shutdown leads to a login being closed at once. A step touches one recorder;
the lemma `Untouched` carries every other one over.

Then comes the runtime: first `RuntimeUsesAccounts`, that
`Recording`'s `Spec` implements `RecordersSpec`, by cases on the step: it is one of
the accounts' own, or takes a recorder offline, or calls a relogin, or is a restart,
or leaves the accounts alone. With it the three properties hold of the whole runtime,
for any number of recordings, channels, goroutines and disturbances.

Last the recordings themselves: `RecordingTypes` (`TypeOK`), `StopsAreRight` (the whole
of `StopsRight`, its action property `EndedOnce` included) and `RowsAreRight`
(`RowsTell`, when no allowance has a store fault: with one, a row is left open by
design). Nearly nothing of this is inductive, because what a section does rests on the
items queued before it. `RecordingInv` therefore speaks of the queues:

- what an item that waits may rely on (`ItemTells`: a leave's recording is over, a row
  to be closed is open, a recovered one is an old start's);
- where it stands in its queue (`PlaceTells`), and that a recording's leave comes
  before its release (`LeaveTells`): no recorder is free while its connection is open;
- that no recording has two items that hold its recorder, close its row or recover it
  (`Once`), nor a recorder two relogins (`OnceRelogin`);
- what the record says of recorder, row and connection in between (`RecTells`,
  `ConnTells`, `RunningTells`, `OwedTells`). `ConnTells` is why `OneConnection` holds: a
  connection whose recording let go of the recorder is through a login older than the
  session in use, for whoever frees a recorder before its leave is over takes it
  offline first;
- that a check is due that will see an empty channel (`EmptyTells`, which becomes
  `EmptyStops` at rest), and that an open row has a goroutine that closes it
  (`RowTells`, which becomes `RowsTell`).

Each part was checked by TLC on both instances of `MCRecording` before it was proved.
A step puts a queue in the place of one goroutine's first item (`Moved`), and most
lemmas say what that does to one part of the invariant; `Kept` says which changes to a
recording leave what others know of it alone. A check of the channels ends several
recordings at once: where each of their items is in the concatenation of their ends
(`EndsInARow`, `FollowsUp`) is proved from a least counterexample (`FirstOf`).

`FoxholeProofs`: `TypesHold` (`TypeOK`), `ReportsHold` (`ReportTells`), `StartsHold`
(`StartsAsShown`), `StopHolds` (`StopStops`, a part of `RunsEnd`) and
`ImplementsRule` (`RuleSpec`), for any number of members, lines, reports and
commands. None is inductive alone. The invariant has seven parts, each kept with the
help of those before it: the types; whose a report is (`OwnInv`: a run past its
insert has the one running report, every other has an end write or a next start to
end it); that each planned change is in exactly one list of the report or still to
do (`WholeInv`, counted, so that a member listed twice would show); what a list says
against what Discord did (`TruthInv`); and what stops a run, whom it may change and
how far it may go after a Stop. That `InNameOrder` exists for every set of members
needs induction on a set's size; the library's needs an operator as parameter, so
`Least` (a set of naturals has a least element, from the well-foundedness of `<`)
takes its place. `ImplementsRule` then goes by cases: most steps stutter; a claim, an
insert, an end write, a release, a command and a crash are each one step of the rule.

`PanelProofs`: `StoreRight` (`StoreHolds`) and `SavesRight` (`SavesAsAsked`), for any
saves, rows, channels, values and versions, and any requests and lookups. A save
may do many things, but each step is of one of a few kinds: it writes a row and its
log entry in one commit, it reads, it renames in Discord, or it moves its form on. The
invariant of saves adds to `StoreTold` that the lock's holder is in a locked place and
only it, that what a form was shown is a version the row once had, that what is
applied to the runtime is what the holder wrote or still has to (`Applies`), and
where channels made in this process stand. That of sessions adds
that a sign-in hands its ID out once, that no session that ended is active, and
that a page is served with what its own check found.

`DeskProofs`: `DeskAlwaysTells` (`DeskTells`), `RepliesAlwaysFit` (`RepliesFit`) and
`PagesAlwaysRight` (`PagesRight`), for any members, saves, command runs, roles, targets,
lines, limits, pages and retention. Again each part has an invariant of its own.

- The records (`RecordsInv`): a save between its statements holds the row locks of what it
  hit, and what it will write is what the locked rows say (`HoldsItsRows`), so that the
  log replays to the records at every commit; lock orders, deadlocks and aborts included.
- The commands (`CommandsInv`): what a purge still to recreate a role has kept of it
  (`RunKeeps`), that a Foxhole role is on the server or in the hands of one run
  (`NeverGone`), and that the roles of a name are one and those that a run answers for, the
  runs each for one: still at work on it, told of it, or cut off (`Counted`).
- The replies have no invariant but their lines' type: that a cut reply fits the limit
  and that its count is the rest's is a lemma on the operators, proved from the least
  number of lines that does not fit (`LeastOf`) instead of by induction on the lines.
- The pages (`PagesInv`): pages that arrows lead to are stored until their date, and a
  press being answered is of the reply it names.

`VoiceProofs`: `ConnImplementsLink` (`ImplementsLink`), that the connection keeps what
`VoiceLink` promises the receiver, for any handlers, servers, gateways and disturbances:
a step of the connection loses a connection that was up, names a cause that was not named,
connects, or is a stutter. With it the parts of `CallsHold` that are about the connection
and its sockets: `OneRejoinAtATime` (`OneRejoin`), `QuietOnceClosed` (`QuietAfterClose`),
`OneSocketOpen` (`OneSocket`). No step is left out for them: the steps that rest on a stale
check are among those the proofs go through. `ConnInv` adds that a handler at work on a
loss has one that counted; that, unless a close crossed a rejoin not yet noted, every rejoin
not cancelled is the one the connection has noted (`OneAtATime`); and that after the close
whoever still sends is in `past.midway` and has not sent before.

`UpkeepProofs` is about the five parts of `MCUpkeep`, each with an
inductive invariant of its own; a step of one leaves the others' variables alone.

- `TrackRight` (`TrackHolds`), for every modulus, packet length, drift and delay that
  `TrackAssumption` admits. It says where the track stands against the speaker's RTP
  clock, and that packets on their way were sent in the order of their
  timestamps; a lemma on `%` (`Wraps`) turns differences modulo 2^32 into
  distances. The proof would not go through without the frame of silence in the
  lower bound: `TrackHolds` had held in the run only because of the sizes there.
- `ListIsRight` (`ListRight`): the list's parts are of the guild whose request is in
  force, and a timer asks only while its wait is.
- `FilesRight` (`FilesTell`), for any speakers and any failures: where the row is by
  how far the recording, recovery and the deletions have got (`Phases`), whose audio
  is on disk (`AudioOnDisk`), that nothing is left once no row finds it (`Cleared`),
  what recovery has found (`FoundSo`), and that the mixer mixes what the row names
  (`MixesRow`).
- `WatchRight` (`WatchTells`), for any number of logins and outages, from seven parts:
  the types; which session a report in hand reads; that nothing is known of a login
  not yet opened; that a refused login is closed for good; which sessions the
  recorder has left; that an outage past is over; and that the account's line is what
  the last handler to come says (`Line`), whatever handlers still wait. A READY that
  slips into a logout is the one exception (`slipped`), until the next outage or READY.
- `StatusRight` (`StatusKept`, the part of `AviatorsRight` on steps), for any number of
  changes by hand, by the forum and by the bot. The invariant says that the events on
  their way follow one another up to how Discord has the role (`Follows`), so a handler
  that takes it for taken was caused by a person or the bot (`CausesTold`); that the
  bot's own update is the first there is, and what the note says (`Noted`); and that a
  job acts on the status it read, which nothing changes under the lock (`Decided`).
- `TypesHold` (`TypesOK`) of all five, and with it what bounds the queue at a winged
  aviator's lock: a pass has one work there at most.

The assumptions are those on the constants (`ConstantsAssumption`,
`RecordersAssumption`, `RecordingAssumption`, `FoxholeAssumption` and the like in the
other modules); TLC evaluates them in the runs. Sets are finite where the code ranges
over one (recorders and recordings), and recorders are numbered as the configuration
lists them. Every invariant used here was first checked by TLC on the run's instance.

Only model-checked:

- What rests on fairness or on `ENABLED`, which TLAPS does not reason about here:
  `RecordSettles`, `EmptyChannelsGo`, `CallsEnd`, `RecordingsSettle`, `CallsSettle`,
  `RunsEnd` (but for `StopStops`), `DeskEnds`, `SavesEnd`, `UpkeepSettles` and the part of
  `AviatorsRight` on what holds in the end.
- `RecordMatches` of `TempVC` with a store fault or a restart, and with more than one of
  outages, deletes by hand and lost answers (see `TempVCProofs`), where it does not hold as
  it stands.
- `CallsHold` as a whole. `FramesInOrder` and `ReportsSteps` are about what folds over the
  held frames and `SelectSeq` over the log compute: induction over data, which needs
  theorems with an operator as parameter.

No module proved about declares a RECURSIVE operator.

## The plan

Done: every module above. What is left, in this order:

1. Proofs. The receiver's `FramesInOrder`, with its folds written as recursive functions.
2. Several hubs at once in `TempVC`, which share the rank ladder and the store and
   nothing else; with it the composition of locks and delays with the record.
3. The acknowledgement and the one edit of an interaction, where a lost edit matters
   beyond `FoxholeCommands` and `PagedLists`.
4. The AWOL accountable-day arithmetic as a pure algorithm against its definition.

## What is not modelled, and why

- Stateless commands (roster, LOA and AWOL lists, milpacs, records): they fetch,
  filter and format, with no state that outlives a request. What they end in, a paged
  reply, is `PagedLists`.
- HTTP routing, cookies, templates, links, lists and filters of the panel's pages;
  telemetry, the command registry, logging.
- Ogg bytes, codecs, the UDP payload and what DAVE does inside: encoding, or the
  library's.
- SQL text, scans and migrations: a call is what it does to its rows, its failing and
  its answer getting lost. Rows are a version and one value in `PanelSaves`.
- The order of steps in `main.go` at start and shutdown: a straight line; its effects
  are in the modules it starts and stops. The failed-start file and the reading of a
  close code off the wire.
- Panics, but for a Foxhole run's and a dial's; time beyond the order of its events,
  but for the modules with a clock.
- Smoke tools and the error reply check: not part of the running bot.

Narrower abstractions, each said again in its module: in `TempVCTimes` outages lose no
event (that is `TempVC`'s subject); in `RecordingFiles` a track file that stays empty
fails the mix, and a `SetMix` that fails leaves "processing" until another restart, as
in the code, so `FilesSettle` excuses both; in `Foxhole` a role the guild lacks and a
store that does not answer are one failure, and a report whose insert lost its answer
says it runs until the next restart; in `FoxholeCommands` a purge cut off by a panic, a
crash or a lost reply tells nobody of the role it left; in `FoxholeRecords` two approvals taken in
opposite orders deadlock and the store aborts one; in `PagedLists` a lost answer of the
save leaves arrows off, and a press may meet the sweep; in `PanelSaves` a lost answer
leaves a channel or a row behind (`leftOver`); in `WingedAviator` a status is promised
to last only if handlers ran in order (`crossed`); in `GatewayWatch` a session whose
open failed and that goes on retrying (`astray`) is not promised a watch.

Some steps are merged that the code makes apart, where no property tells the difference:
in `TempVC` the check that the member is still in the hub and the taking of a number; in
`TempVCTimes` the delete of an empty channel (`TempVC` has it section by section); in
`VoiceConn` the two halves of `recorderConn.Close` before its leave, and two closes of one
gateway; in `VoiceSockets` the reset of a log's start; in `Receiver` a look's reading of
connection and deafening; in `PanelSaves` the preview's count of channels that change
owner. `Recording` has no outage that swallows voice events, and `WingedAviator` no update
that leaves the roles as they were.
