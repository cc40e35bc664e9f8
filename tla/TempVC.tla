------------------------------- MODULE TempVC -------------------------------
(***************************************************************************)
(* The temporary voice channel runtime of commands/temp_vc.go: a member    *)
(* who joins the hub gets a spawned channel and is moved into it, the      *)
(* channel goes when it empties, its ownership is handed over when the     *)
(* owner leaves, and a restart sweep rebuilds the record from the stored   *)
(* rows on every GUILD_CREATE.                                             *)
(*                                                                         *)
(* One action is one critical section of TempVC.mu, one store call or one  *)
(* Discord call: discordgo runs each event's handler on a goroutine of its *)
(* own, so anything may happen between two of them.  A goroutine's         *)
(* remaining work is a sequence of items in run, one per such section.     *)
(*                                                                         *)
(* One hub, enabled, whose delete delay is 0.  Locks and the guest list,   *)
(* the delete delay and the rename window are modules of their own; chat   *)
(* notices, log lines, audit reasons and Sentry captures are left out.     *)
(***************************************************************************)
EXTENDS Naturals, Sequences, FiniteSets

CONSTANTS
  Users,        \* members, a set of numbers: a lower number is a lower user ID
  Channels,     \* the IDs Discord gives to created channels, in rising order
  Handlers,     \* goroutines that handle gateway events at the same time
  Sweep,        \* the goroutine of the restart sweep: sweepMu admits one
  Panel,        \* the goroutine of a panel save
  Hub, Lobby,   \* the hub channel, and any voice channel no hub created
  Out,          \* in no voice channel
  NoOne,        \* no member: the empty user ID
  NoRow,        \* no row stored for a channel
  NoRank,       \* noRankIndex: the rank of a member who is no Cav member
  Ladders,      \* rank ladders a save may bring: each user's seniority
  Allowances    \* how often each kind of disturbance may happen: bounds

Kinds == {"move", "outage", "restart", "handDelete", "rankSave",
          "discordFault", "lostAnswer", "storeFault"}

Spawnable == Channels \cup {Hub, Lobby, Out}
Numbers   == 1 .. (Cardinality(Channels) + Cardinality(Handlers) + 1)
Goroutines == Handlers \cup {Sweep, Panel}

ASSUME ConstantsAssumption ==
  /\ Users \subseteq Nat /\ Channels \subseteq Nat
  /\ IsFiniteSet(Users) /\ IsFiniteSet(Channels) /\ IsFiniteSet(Handlers)
  /\ {Hub, Lobby, Out} \cap Channels = {}
  /\ Hub # Lobby /\ Hub # Out /\ Lobby # Out
  /\ Sweep \notin Handlers /\ Panel \notin Handlers /\ Sweep # Panel
  /\ NoOne \notin Users
  /\ NoRow \notin [owner : Users \cup {NoOne}, number : Nat]
  /\ NoRank \in Nat
  /\ Ladders \subseteq [Users -> Nat] /\ Ladders # {}
  /\ Allowances \subseteq [Kinds -> Nat] /\ Allowances # {}

VARIABLES
  \* Discord, and discordgo's state cache of it
  live,         \* the spawned channels that exist on Discord
  created,      \* every channel Discord ever created: IDs are not reused
  cached,       \* the spawned channels the cache holds
  loc,          \* the cache's voice states: where each member is
  present,      \* VoiceSnapshot.Present: the cache holds the guild
  events,       \* voice state events whose handler has not run: <<user, place>>
  chDeletes,    \* CHANNEL_DELETE events whose handler has not run
  sweeps,       \* GUILD_CREATE events whose handler has not run
  \* the runtime's record, guarded by mu
  userChannel,  \* the diff base: Out for a member with no entry
  tracked,      \* the keys of occupants: what marks a channel as spawned
  occupants, owners, channelIndex,
  pending,      \* numbers reserved for creates in flight
  inFlight, settled, sweepActive,
  ladder,       \* the rank ladder in force
  \* the store
  rows,
  \* goroutines
  run,          \* the sections each goroutine has still to run, in order
  todo,         \* work a sweep or a save repeats per channel
  listed,       \* the sweep's local copy of the rows
  allowed       \* disturbances still to come, by kind

discord == <<live, created, cached, loc, present, events, chDeletes, sweeps>>
record  == <<userChannel, tracked, occupants, owners, channelIndex, pending,
             inFlight, settled, sweepActive, ladder>>
vars == <<discord, record, rows, run, todo, listed, allowed>>

(* A section still to run: op names it, c is its channel, u its member and *)
(* n the number of its channel; 0 and NoOne stand for none.                *)
JoinItem    == [op : {"handleHubJoin", "create"},
                c : {0}, u : Users, n : Nat]
SpawnItem   == [op : {"commit", "moveCheck", "move", "readOwner", "abandonSpawn"},
                c : Channels, u : Users, n : Nat]
ChannelItem == [op : {"writeRow", "deleteIfStillEmpty", "ChannelDelete", "untrack",
                      "deleteRow", "keep", "settleSpawn"},
                c : Channels, u : Users \cup {NoOne}, n : Nat]
SweepItem   == [op : {"list", "rebuild"}, c : {0}, u : {NoOne}, n : {0}]
Item == JoinItem \cup SpawnItem \cup ChannelItem \cup SweepItem

Row == [owner : Users \cup {NoOne}, number : Nat]

TypeOK ==
  /\ live \subseteq Channels /\ created \subseteq Channels
  /\ cached \subseteq Channels
  /\ loc \in [Users -> Spawnable] /\ present \in BOOLEAN
  /\ events \subseteq Users \X Spawnable /\ chDeletes \subseteq Channels
  /\ sweeps \in Nat
  /\ userChannel \in [Users -> Spawnable]
  /\ tracked \subseteq Channels
  /\ occupants \in [Channels -> SUBSET Users]
  /\ owners \in [Channels -> Users \cup {NoOne}]
  /\ channelIndex \in [Channels -> Nat]
  /\ pending \subseteq Nat
  /\ inFlight \subseteq Channels /\ settled \subseteq Channels
  /\ sweepActive \in BOOLEAN
  /\ ladder \in [Users -> Nat]
  /\ rows \in [Channels -> Row \cup {NoRow}]
  /\ run \in [Goroutines -> Seq(Item)]
  /\ todo \in [Goroutines -> SUBSET Item]
  /\ listed \in [Channels -> Row \cup {NoRow}]
  /\ allowed \in [Kinds -> Nat]

----------------------------------------------------------------------------
(* Helpers                                                                 *)

Do(op, c, u, n) == [op |-> op, c |-> c, u |-> u, n |-> n]

(* A disturbance of kind k, one of the bounded number allowed.             *)
Spend(k) == /\ allowed[k] > 0
            /\ allowed' = [allowed EXCEPT ![k] = @ - 1]

Inside(c) == {u \in Users : loc[u] = c}

(* occupants of c that a fresh snapshot of the cache confirms.             *)
Confirmed(c, occ) == {u \in occ[c] : present /\ loc[u] = c}

(* electOwner: the highest rank, then the lowest user ID; no Cav member,   *)
(* no owner.                                                               *)
Best(u, S, lad) == /\ lad[u] < NoRank
                   /\ \A v \in S : \/ lad[u] < lad[v]
                                   \/ lad[u] = lad[v] /\ u <= v
Elect(S, lad) == IF \E u \in S : Best(u, S, lad)
                 THEN CHOOSE u \in S : Best(u, S, lad) ELSE NoOne

(* Wrong on purpose, to test OwnersRight: the owner is never replaced.     *)
ReconciledSticky(c, occ, own) ==
  IF own[c] # NoOne THEN own[c] ELSE Elect(Confirmed(c, occ), ladder)
(* Wrong on purpose, to test OwnersRight: always elects.                   *)
ReconciledBySeniority(c, occ, own) ==
  IF occ[c] = {} \/ ~present THEN own[c] ELSE Elect(Confirmed(c, occ), ladder)

(* reconcileOwnerLocked: the owner channel c has after its occupancy       *)
(* became occ[c].                                                          *)
Reconciled(c, occ, own) ==
  IF \/ occ[c] = {} \/ own[c] \in occ[c] \/ ~present
  THEN own[c]
  ELSE Elect(Confirmed(c, occ), ladder)

StillInHub(u) == present /\ loc[u] = Hub

(* Wrong on purpose, to test ViewCurrent: no stale-event check.            *)
NeverStale(e) == FALSE

(* The cache already shows a later event of this member; a missing guild   *)
(* answers nothing, so the event counts as current.                        *)
Stale(e) == present /\ loc[e[1]] # e[2]

(* Wrong on purpose, to test RecordMatches: creates not counted.           *)
HeldByChannels == {channelIndex[c] : c \in tracked}

(* The numbers no new channel may take, and the one it takes.              *)
Held == {channelIndex[c] : c \in tracked} \cup pending
IsNextNumber(n) == n \notin Held /\ \A m \in 1 .. (n - 1) : m \in Held

(* Wrong on purpose, to test PendingAccounted.                             *)
ReleaseForgotten(n) == UNCHANGED pending

(* releaseChannelIndexLocked.                                              *)
Release(n) == pending' = pending \ {n}

Idle(g) == run[g] = <<>> /\ todo[g] = {}

(* Goroutine g is at a section of the given kind; it goes on with q.       *)
At(g, op) == run[g] # <<>> /\ Head(run[g]).op = op
Goes(g, q) == run' = [run EXCEPT ![g] = q \o Tail(@)]

(* deleteIfStillEmpty was called for a spawn being abandoned, whose caller *)
(* keeps the channel unless the delete went through.                       *)
AfterDelete(q) == IF q # <<>> /\ Head(q).op = "keep" THEN Tail(q) ELSE q

(* Wrong on purpose, to test RecordMatches.                                *)
UntrackOwnerOnly(c) ==
  /\ owners' = [owners EXCEPT ![c] = NoOne]
  /\ UNCHANGED <<tracked, occupants, channelIndex>>

Untrack(c) ==
  /\ tracked' = tracked \ {c}
  /\ occupants' = [occupants EXCEPT ![c] = {}]
  /\ owners' = [owners EXCEPT ![c] = NoOne]
  /\ channelIndex' = [channelIndex EXCEPT ![c] = 0]

Init ==
  /\ live = {} /\ created = {} /\ cached = {}
  /\ loc = [u \in Users |-> Out] /\ present = TRUE
  /\ events = {} /\ chDeletes = {} /\ sweeps = 0
  /\ userChannel = [u \in Users |-> Out]
  /\ tracked = {} /\ occupants = [c \in Channels |-> {}]
  /\ owners = [c \in Channels |-> NoOne]
  /\ channelIndex = [c \in Channels |-> 0]
  /\ pending = {} /\ inFlight = {} /\ settled = {} /\ sweepActive = FALSE
  /\ ladder \in Ladders
  /\ rows = [c \in Channels |-> NoRow]
  /\ run = [g \in Goroutines |-> <<>>] /\ todo = [g \in Goroutines |-> {}]
  /\ listed = [c \in Channels |-> NoRow]
  /\ allowed \in Allowances

----------------------------------------------------------------------------
(* Discord, its gateway and the cache                                      *)

(* A member joins, leaves or switches channel, or toggles a mute (p where  *)
(* they are).  A member whose channel was just deleted is moved out by     *)
(* that delete's own event first.                                          *)
Move(u, p) ==
  /\ Spend("move")
  /\ p \in live \cup {Hub, Lobby, Out} /\ loc[u] \in live \cup {Hub, Lobby, Out}
  /\ ~(p = Out /\ loc[u] = Out)
  /\ loc' = [loc EXCEPT ![u] = p]
  /\ events' = IF present THEN events \cup {<<u, p>>} ELSE events
  /\ UNCHANGED <<live, created, cached, present, chDeletes, sweeps,
                 record, rows, run, todo, listed>>

(* Someone deletes a spawned channel in Discord.                           *)
HandDelete(c) ==
  /\ Spend("handDelete")
  /\ c \in live
  /\ live' = live \ {c}
  /\ UNCHANGED <<created, cached, loc, present, events, chDeletes, sweeps,
                 record, rows, run, todo, listed>>

(* The gateway's CHANNEL_DELETE: the cache drops the channel, and Discord  *)
(* has disconnected whoever was inside.                                    *)
DeleteReachesCache(c) ==
  /\ present
  /\ c \in created \ live
  /\ c \in cached \/ Inside(c) # {}
  /\ cached' = cached \ {c}
  /\ chDeletes' = chDeletes \cup {c}
  /\ loc' = [u \in Users |-> IF loc[u] = c THEN Out ELSE loc[u]]
  /\ events' = events \cup {<<u, Out>> : u \in Inside(c)}
  /\ UNCHANGED <<live, created, present, sweeps, record, rows, run, todo,
                 listed, allowed>>

(* The guild leaves the cache: an outage, or a Ready before GUILD_CREATE.  *)
(* Nothing that happens in the guild until then has an event.              *)
Outage ==
  /\ Spend("outage")
  /\ present /\ present' = FALSE
  /\ UNCHANGED <<live, created, cached, loc, events, chDeletes, sweeps,
                 record, rows, run, todo, listed>>

(* GUILD_CREATE fills the cache with the guild as it is and fires a sweep. *)
GuildCreate ==
  /\ ~present /\ present' = TRUE
  /\ cached' = live
  /\ loc' = [u \in Users |-> IF loc[u] \in created \ live THEN Out ELSE loc[u]]
  /\ sweeps' = sweeps + 1
  /\ UNCHANGED <<live, created, events, chDeletes, record, rows, run, todo,
                 listed, allowed>>

(* The bot stops and starts again: Discord and the store stay, everything  *)
(* in memory is gone, the panel's saved ladder is read back.               *)
Restart ==
  /\ Spend("restart")
  /\ present' = FALSE /\ cached' = {}
  /\ events' = {} /\ chDeletes' = {} /\ sweeps' = 0
  /\ userChannel' = [u \in Users |-> Out]
  /\ tracked' = {} /\ occupants' = [c \in Channels |-> {}]
  /\ owners' = [c \in Channels |-> NoOne]
  /\ channelIndex' = [c \in Channels |-> 0]
  /\ pending' = {} /\ inFlight' = {} /\ settled' = {} /\ sweepActive' = FALSE
  /\ run' = [g \in Goroutines |-> <<>>] /\ todo' = [g \in Goroutines |-> {}]
  /\ listed' = [c \in Channels |-> NoRow]
  /\ UNCHANGED <<live, created, loc, ladder, rows>>

Environment ==
  \/ \E u \in Users, p \in Spawnable : Move(u, p)
  \/ \E c \in Channels : HandDelete(c) \/ DeleteReachesCache(c)
  \/ Outage \/ GuildCreate \/ Restart

----------------------------------------------------------------------------
(* HandleVoiceStateUpdate                                                  *)

(* A stale event is dropped whole.                                         *)
DropStale(h) ==
  /\ Idle(h)
  /\ \E e \in events : Stale(e) /\ events' = events \ {e}
  /\ UNCHANGED <<live, created, cached, loc, present, chDeletes, sweeps,
                 record, rows, run, todo, listed, allowed>>

(* Wrong on purpose, to test ViewCurrent: a switch is no leave.            *)
MovedJoinOnly(u, old, new) ==
  [c \in Channels |-> IF c \in tracked /\ c = new THEN occupants[c] \cup {u}
                     ELSE IF c = old /\ new = Out THEN occupants[c] \ {u}
                     ELSE occupants[c]]

(* The record after member u went from one channel to another.             *)
Moved(u, old, new) ==
  [c \in Channels |->
     IF c \in tracked /\ c # new /\ c = old THEN occupants[c] \ {u}
     ELSE IF c \in tracked /\ c = new THEN occupants[c] \cup {u}
     ELSE occupants[c]]

(* A row write for channel c when its owner becomes another.               *)
Handover(c, own) ==
  IF c \in tracked /\ own[c] # owners[c]
  THEN <<Do("writeRow", c, own[c], channelIndex[c])>> ELSE <<>>

VoiceUpdate(h) ==
  /\ Idle(h)
  /\ \E e \in events :
       LET u   == e[1]
           new == e[2]
           old == userChannel[u]
           occ == Moved(u, old, new)
           own == [c \in Channels |-> IF c \in {old, new} \cap tracked
                                      THEN Reconciled(c, occ, owners)
                                      ELSE owners[c]]
       IN /\ ~Stale(e)
          /\ events' = events \ {e}
          /\ userChannel' = [userChannel EXCEPT ![u] = new]
          /\ IF old = new
             THEN UNCHANGED <<occupants, owners, run>>
             ELSE /\ occupants' = occ /\ owners' = own
                  /\ run' = [run EXCEPT ![h] =
                       Handover(old, own) \o Handover(new, own)
                       \o (IF old \in tracked /\ occ[old] = {}
                           THEN <<Do("deleteIfStillEmpty", old, u, 0)>>
                           ELSE <<>>)
                       \o (IF new = Hub THEN <<Do("handleHubJoin", 0, u, 0)>>
                           ELSE <<>>)]
  /\ UNCHANGED <<live, created, cached, loc, present, chDeletes, sweeps,
                 tracked, channelIndex, pending, inFlight, settled,
                 sweepActive, ladder, rows, todo, listed, allowed>>

(* handleChannelDelete: acts on a tracked channel only.                    *)
ChannelDeleteEvent(h) ==
  /\ Idle(h)
  /\ \E c \in chDeletes :
       /\ chDeletes' = chDeletes \ {c}
       /\ IF c \in tracked
          THEN /\ Untrack(c)
               /\ run' = [run EXCEPT ![h] = <<Do("deleteRow", c, NoOne, 0)>>]
          ELSE UNCHANGED <<tracked, occupants, owners, channelIndex, run>>
  /\ UNCHANGED <<live, created, cached, loc, present, events, sweeps,
                 userChannel, pending, inFlight, settled, sweepActive, ladder,
                 rows, todo, listed, allowed>>

----------------------------------------------------------------------------
(* Store calls and the delete, on any goroutine                            *)

(* writeRow: the upsert, or its failure, which leaves the store alone.     *)
WriteRow(g) ==
  /\ At(g, "writeRow")
  /\ LET i == Head(run[g]) IN
     \/ /\ rows' = [rows EXCEPT ![i.c] = [owner |-> i.u, number |-> i.n]]
        /\ UNCHANGED allowed
     \/ Spend("storeFault") /\ UNCHANGED rows
  /\ Goes(g, <<>>)
  /\ UNCHANGED <<discord, record, todo, listed>>

DeleteRow(g) ==
  /\ At(g, "deleteRow")
  /\ \/ /\ rows' = [rows EXCEPT ![Head(run[g]).c] = NoRow]
        /\ UNCHANGED allowed
     \/ Spend("storeFault") /\ UNCHANGED rows
  /\ Goes(g, <<>>)
  /\ UNCHANGED <<discord, record, todo, listed>>

(* deleteIfStillEmpty up to the call: the record and then the cache must   *)
(* show nobody inside.  An untracked channel counts as deleted.            *)
DeleteIfStillEmpty(g) ==
  /\ At(g, "deleteIfStillEmpty")
  /\ LET c    == Head(run[g]).c
         rest == Tail(run[g])
     IN run' = [run EXCEPT ![g] =
          IF c \notin tracked THEN AfterDelete(rest)
          ELSE IF occupants[c] = {} /\ present /\ Inside(c) = {}
          THEN <<Do("ChannelDelete", c, NoOne, 0)>> \o rest
          ELSE rest]
  /\ UNCHANGED <<discord, record, rows, todo, listed, allowed>>

(* The delete call.  Discord does not care who is inside by now; a channel *)
(* already gone is a success, any other failure leaves it tracked, and so  *)
(* does an answer that is lost, though the channel is gone.                *)
ChannelDelete(g) ==
  /\ At(g, "ChannelDelete")
  /\ LET c == Head(run[g]).c IN
     \/ /\ live' = live \ {c}
        /\ Goes(g, <<Do("untrack", c, NoOne, 0)>>)
        /\ UNCHANGED allowed
     \/ /\ live' = live \ {c} /\ Spend("lostAnswer")
        /\ Goes(g, <<>>)
     \/ /\ c \in live /\ Spend("discordFault")
        /\ Goes(g, <<>>)
        /\ UNCHANGED live
  /\ UNCHANGED <<created, cached, loc, present, events, chDeletes, sweeps,
                 record, rows, todo, listed>>

UntrackDeleted(g) ==
  /\ At(g, "untrack")
  /\ LET c == Head(run[g]).c IN
     /\ Untrack(c)
     /\ run' = [run EXCEPT ![g] = <<Do("deleteRow", c, NoOne, 0)>>
                                   \o AfterDelete(Tail(@))]
  /\ UNCHANGED <<discord, userChannel, pending, inFlight, settled, sweepActive,
                 ladder, rows, todo, listed, allowed>>

----------------------------------------------------------------------------
(* handleHubJoin and abandonSpawn                                          *)

(* The check that the member is still in the hub, and the number taken.    *)
HubJoin(h) ==
  /\ At(h, "handleHubJoin")
  /\ LET u == Head(run[h]).u IN
     IF StillInHub(u)
     THEN \E n \in Numbers :
            /\ IsNextNumber(n)
            /\ pending' = pending \cup {n}
            /\ Goes(h, <<Do("create", 0, u, n)>>)
     ELSE Goes(h, <<>>) /\ UNCHANGED pending
  /\ UNCHANGED <<discord, userChannel, tracked, occupants, owners,
                 channelIndex, inFlight, settled, sweepActive, ladder, rows,
                 todo, listed, allowed>>

(* The create call.  It fails when the category is full, Channels being    *)
(* all it holds, or by a fault: the number is free again.  Its answer may  *)
(* be lost too: the channel is there, and nothing in the record says so.   *)
Create(h) ==
  /\ At(h, "create")
  /\ LET i == Head(run[h]) IN
     \/ \E c \in Channels \ created :
          /\ \A d \in Channels \ created : c <= d
          /\ live' = live \cup {c} /\ created' = created \cup {c}
          /\ cached' = IF present THEN cached \cup {c} ELSE cached
          /\ \/ Goes(h, <<Do("commit", c, i.u, i.n)>>) /\ UNCHANGED <<pending, allowed>>
             \/ Goes(h, <<>>) /\ Release(i.n) /\ Spend("lostAnswer")
     \/ /\ IF Channels \subseteq created THEN UNCHANGED allowed
           ELSE Spend("discordFault")
        /\ Release(i.n)
        /\ Goes(h, <<>>)
        /\ UNCHANGED <<live, created, cached>>
  /\ UNCHANGED <<loc, present, events, chDeletes, sweeps, userChannel, tracked,
                 occupants, owners, channelIndex, inFlight, settled,
                 sweepActive, ladder, rows, todo, listed>>

(* The tracking commit: the creator counts as inside before any event says *)
(* so, and the channel becomes a spawn in flight.                          *)
Commit(h) ==
  /\ At(h, "commit")
  /\ LET i == Head(run[h]) IN
     /\ tracked' = tracked \cup {i.c}
     /\ occupants' = [occupants EXCEPT ![i.c] = {i.u}]
     /\ owners' = [owners EXCEPT ![i.c] = IF ladder[i.u] < NoRank THEN i.u
                                          ELSE @]
     /\ channelIndex' = [channelIndex EXCEPT ![i.c] = i.n]
     /\ Release(i.n)
     /\ inFlight' = inFlight \cup {i.c}
     /\ Goes(h, <<Do("moveCheck", i.c, i.u, i.n)>>)
  /\ UNCHANGED <<discord, userChannel, settled, sweepActive, ladder, rows, todo,
                 listed, allowed>>

MoveCheck(h) ==
  /\ At(h, "moveCheck")
  /\ LET i == Head(run[h]) IN
     Goes(h, <<Do(IF StillInHub(i.u) THEN "move" ELSE "abandonSpawn",
                  i.c, i.u, i.n)>>)
  /\ UNCHANGED <<discord, record, rows, todo, listed, allowed>>

(* The move call: Discord moves a member who is in any voice channel.  A   *)
(* move whose answer is lost counts as refused.                            *)
GuildMemberMove(h) ==
  /\ At(h, "move")
  /\ LET i == Head(run[h])
         moves == i.c \in live /\ loc[i.u] \in live \cup {Hub, Lobby}
     IN \/ /\ moves
           /\ loc' = [loc EXCEPT ![i.u] = i.c]
           /\ events' = IF present /\ loc[i.u] # i.c
                        THEN events \cup {<<i.u, i.c>>} ELSE events
           /\ \/ Goes(h, <<Do("readOwner", i.c, i.u, i.n)>>) /\ UNCHANGED allowed
              \/ Goes(h, <<Do("abandonSpawn", i.c, i.u, i.n)>>) /\ Spend("lostAnswer")
        \/ /\ IF moves THEN Spend("discordFault") ELSE UNCHANGED allowed
           /\ Goes(h, <<Do("abandonSpawn", i.c, i.u, i.n)>>)
           /\ UNCHANGED <<loc, events>>
  /\ UNCHANGED <<live, created, cached, present, chDeletes, sweeps, record,
                 rows, todo, listed>>

(* Wrong on purpose, to test RecordMatches: no first row.                  *)
ReadOwnerNoRow(h) ==
  /\ At(h, "readOwner")
  /\ Goes(h, <<Do("settleSpawn", Head(run[h]).c, NoOne, 0)>>)
  /\ UNCHANGED <<discord, record, rows, todo, listed, allowed>>

(* The row is written with the owner as the record has it by now.          *)
ReadOwner(h) ==
  /\ At(h, "readOwner")
  /\ LET i == Head(run[h]) IN
     Goes(h, <<Do("writeRow", i.c, owners[i.c], i.n),
               Do("settleSpawn", i.c, NoOne, 0)>>)
  /\ UNCHANGED <<discord, record, rows, todo, listed, allowed>>

(* Wrong on purpose, to test RecordMatches: sweepActive unread.            *)
SettleSpawnAtOnce(h) ==
  /\ At(h, "settleSpawn")
  /\ inFlight' = inFlight \ {Head(run[h]).c}
  /\ Goes(h, <<>>)
  /\ UNCHANGED <<discord, userChannel, tracked, occupants, owners,
                 channelIndex, pending, settled, sweepActive, ladder, rows, todo,
                 listed, allowed>>

(* settleSpawn: while a sweep runs, the channel stays in flight until that *)
(* sweep finishes.                                                         *)
SettleSpawn(h) ==
  /\ At(h, "settleSpawn")
  /\ LET c == Head(run[h]).c IN
     \/ c \notin inFlight /\ UNCHANGED <<inFlight, settled>>
     \/ /\ c \in inFlight /\ sweepActive
        /\ settled' = settled \cup {c} /\ UNCHANGED inFlight
     \/ /\ c \in inFlight /\ ~sweepActive
        /\ inFlight' = inFlight \ {c} /\ UNCHANGED settled
  /\ Goes(h, <<>>)
  /\ UNCHANGED <<discord, userChannel, tracked, occupants, owners,
                 channelIndex, pending, sweepActive, ladder, rows, todo, listed,
                 allowed>>

AbandonSpawn(h) ==
  /\ At(h, "abandonSpawn")
  /\ LET i == Head(run[h]) IN
     /\ occupants' = [occupants EXCEPT ![i.c] = @ \ {i.u}]
     /\ Goes(h, <<Do("deleteIfStillEmpty", i.c, i.u, 0),
                  Do("keep", i.c, NoOne, 0), Do("settleSpawn", i.c, NoOne, 0)>>)
  /\ UNCHANGED <<discord, userChannel, tracked, owners, channelIndex, pending,
                 inFlight, settled, sweepActive, ladder, rows, todo, listed,
                 allowed>>

(* The compensating delete was refused: the channel is kept and its owner  *)
(* elected from whoever is inside.                                         *)
Keep(h) ==
  /\ At(h, "keep")
  /\ LET c == Head(run[h]).c
         e == Elect(Confirmed(c, occupants), ladder)
     IN /\ owners' = [owners EXCEPT ![c] = e]
        /\ Goes(h, <<Do("writeRow", c, e, channelIndex[c])>>)
  /\ UNCHANGED <<discord, userChannel, tracked, occupants, channelIndex,
                 pending, inFlight, settled, sweepActive, ladder, rows, todo,
                 listed, allowed>>

----------------------------------------------------------------------------
(* handleGuildCreate: the restart sweep                                    *)

(* Wrong on purpose, to test TypeOK: runs with no GUILD_CREATE.            *)
SweepStartUnasked ==
  /\ Idle(Sweep) /\ ~sweepActive
  /\ sweeps' = sweeps - 1
  /\ sweepActive' = TRUE
  /\ run' = [run EXCEPT ![Sweep] = <<Do("list", 0, NoOne, 0)>>]
  /\ UNCHANGED <<live, created, cached, loc, present, events, chDeletes,
                 userChannel, tracked, occupants, owners, channelIndex, pending,
                 inFlight, settled, ladder, rows, todo, listed, allowed>>

SweepStart ==
  /\ Idle(Sweep) /\ ~sweepActive /\ sweeps > 0
  /\ sweeps' = sweeps - 1
  /\ sweepActive' = TRUE
  /\ run' = [run EXCEPT ![Sweep] = <<Do("list", 0, NoOne, 0)>>]
  /\ UNCHANGED <<live, created, cached, loc, present, events, chDeletes,
                 userChannel, tracked, occupants, owners, channelIndex, pending,
                 inFlight, settled, ladder, rows, todo, listed, allowed>>

(* The list call, off-lock; a failed one ends the sweep.                   *)
ListSpawnedChannels ==
  /\ At(Sweep, "list")
  /\ \/ /\ listed' = rows
        /\ Goes(Sweep, <<Do("rebuild", 0, NoOne, 0)>>)
        /\ UNCHANGED allowed
     \/ Spend("storeFault") /\ Goes(Sweep, <<>>) /\ UNCHANGED listed
  /\ UNCHANGED <<discord, record, rows, todo>>

(* Wrong on purpose, to test RecordMatches: spawns not kept.               *)
KeptNone == {}

(* What the rebuild makes of the listed rows.  A spawn in flight is left   *)
(* as the record has it and its row is not judged.                         *)
Kept     == inFlight \cap tracked
Judged   == {c \in Channels : listed[c] # NoRow} \ inFlight
Restored == Judged \cap cached

(* Wrong on purpose, to test RecordSettles: cache not read.                *)
SweptRecord == occupants

(* The sweep's occupants, and the owners the rows name; a present owner    *)
(* keeps the channel, an absent one counts as having left.                 *)
SweptOccupants == [c \in Channels |-> IF c \in Kept THEN occupants[c]
                                      ELSE IF c \in Restored THEN Inside(c)
                                      ELSE {}]
RowOwners == [c \in Channels |-> IF c \in Kept THEN owners[c]
                                 ELSE IF c \in Restored THEN listed[c].owner
                                 ELSE NoOne]
SweptOwners == [c \in Channels |-> IF c \in Restored
                                   THEN Reconciled(c, SweptOccupants, RowOwners)
                                   ELSE RowOwners[c]]

(* The rebuild, one critical section.  The members in the hub get no diff  *)
(* base, so their next event reads as a join.  What needs a call is done   *)
(* afterwards: rows of channels gone, deletes of empty ones, handovers.    *)
Rebuild ==
  /\ At(Sweep, "rebuild")
  /\ IF ~present
     THEN UNCHANGED <<userChannel, tracked, occupants, owners, channelIndex, todo>>
     ELSE /\ userChannel' = [u \in Users |-> IF loc[u] = Hub THEN Out ELSE loc[u]]
          /\ tracked' = Kept \cup Restored
          /\ occupants' = SweptOccupants
          /\ owners' = SweptOwners
          /\ channelIndex' = [c \in Channels |->
                               IF c \in Kept THEN channelIndex[c]
                               ELSE IF c \in Restored THEN listed[c].number
                               ELSE 0]
          /\ todo' = [todo EXCEPT ![Sweep] =
               {Do("deleteRow", c, NoOne, 0) : c \in Judged \ Restored}
               \cup {Do("deleteIfStillEmpty", c, NoOne, 0) :
                       c \in {d \in Restored : Inside(d) = {}}}
               \cup {Do("writeRow", c, SweptOwners[c], listed[c].number) :
                       c \in {d \in Restored : SweptOwners[d] # RowOwners[d]}}]
  /\ Goes(Sweep, <<>>)
  /\ UNCHANGED <<discord, pending, inFlight, settled, sweepActive, ladder, rows,
                 listed, allowed>>

(* The next call: the rows of gone channels first, then the deletes, then  *)
(* the handovers; a save has row writes only.                              *)
Phase(i) == CASE i.op = "deleteRow" -> 1 [] i.op = "deleteIfStillEmpty" -> 2
              [] OTHER -> 3

NextCall(g) ==
  /\ run[g] = <<>>
  /\ \E i \in todo[g] :
       /\ \A j \in todo[g] : \/ Phase(i) < Phase(j)
                              \/ (Phase(i) = Phase(j) /\ i.c <= j.c)
       /\ run' = [run EXCEPT ![g] = <<i>>]
       /\ todo' = [todo EXCEPT ![g] = @ \ {i}]
  /\ UNCHANGED <<discord, record, rows, listed, allowed>>

(* finishSweep: the spawns that settled during the sweep leave inFlight.   *)
EndSweep(spawns, left) ==
  /\ sweepActive' = FALSE
  /\ inFlight' = spawns /\ settled' = left
  /\ listed' = [c \in Channels |-> NoRow]
  /\ UNCHANGED <<discord, userChannel, tracked, occupants, owners, channelIndex,
                 pending, ladder, rows, run, todo, allowed>>

(* Wrong on purpose: settled not cleared, settled forgotten, and only a    *)
(* sweep that listed a row ends.                                           *)
FinishSweepUncleared ==
  Idle(Sweep) /\ sweepActive /\ EndSweep(inFlight \ settled, settled)
FinishSweepForgetting ==
  Idle(Sweep) /\ sweepActive /\ EndSweep(inFlight, {})
FinishSweepAfterRows ==
  /\ Idle(Sweep) /\ sweepActive /\ \E c \in Channels : listed[c] # NoRow
  /\ EndSweep(inFlight \ settled, {})

FinishSweep == Idle(Sweep) /\ sweepActive /\ EndSweep(inFlight \ settled, {})

(* ApplyRankRoles: the ladder in force changes and every channel with      *)
(* someone inside whose owner is no Cav member any more is handed over.    *)
Ranked(lad) ==
  [c \in Channels |->
     IF \/ c \notin tracked
        \/ occupants[c] = {}
        \/ ~present
        \/ (owners[c] \in occupants[c] /\ lad[owners[c]] < NoRank)
     THEN owners[c]
     ELSE Elect(Confirmed(c, occupants), lad)]

ApplyRankRoles(lad) ==
  /\ Idle(Panel) /\ Spend("rankSave")
  /\ ladder' = lad
  /\ owners' = Ranked(lad)
  /\ todo' = [todo EXCEPT ![Panel] =
                {Do("writeRow", c, Ranked(lad)[c], channelIndex[c]) :
                   c \in {d \in Channels : Ranked(lad)[d] # owners[d]}}]
  /\ UNCHANGED <<discord, userChannel, tracked, occupants, channelIndex, pending,
                 inFlight, settled, sweepActive, rows, run, listed>>

----------------------------------------------------------------------------
Handle(h) == DropStale(h) \/ VoiceUpdate(h) \/ ChannelDeleteEvent(h)

SpawnStep(h) ==
  \/ HubJoin(h) \/ Create(h) \/ Commit(h) \/ MoveCheck(h)
  \/ GuildMemberMove(h) \/ ReadOwner(h) \/ SettleSpawn(h)
  \/ AbandonSpawn(h) \/ Keep(h)

CallStep(g) ==
  \/ WriteRow(g) \/ DeleteRow(g) \/ DeleteIfStillEmpty(g)
  \/ ChannelDelete(g) \/ UntrackDeleted(g)

SweepStep ==
  \/ SweepStart \/ ListSpawnedChannels \/ Rebuild \/ FinishSweep
  \/ NextCall(Sweep) \/ CallStep(Sweep)

PanelStep == NextCall(Panel) \/ CallStep(Panel)

(* Nothing is left for the bot to do.                                      *)
Quiet ==
  /\ events = {} /\ chDeletes = {} /\ sweeps = 0 /\ present
  /\ \A g \in Goroutines : Idle(g)
  /\ ~sweepActive
  /\ \A c \in created \ live : c \notin cached /\ Inside(c) = {}

Rest == Quiet /\ UNCHANGED vars

Next ==
  \/ Environment
  \/ \E h \in Handlers : Handle(h) \/ SpawnStep(h) \/ CallStep(h)
  \/ SweepStep
  \/ PanelStep \/ \E lad \in Ladders : ApplyRankRoles(lad)
  \/ Rest

(* Members, operators and outages owe nothing.  The gateway delivers what  *)
(* it has, Go runs every goroutine that can run, and every call the bot    *)
(* makes returns (store calls and REST calls carry time limits).           *)
Fairness ==
  /\ \A c \in Channels : WF_vars(DeleteReachesCache(c))
  /\ WF_vars(GuildCreate)
  /\ WF_vars(\E h \in Handlers : Handle(h))
  /\ \A h \in Handlers : WF_vars(SpawnStep(h) \/ CallStep(h))
  /\ WF_vars(SweepStep) /\ WF_vars(PanelStep)

Spec == Init /\ [][Next]_vars
FairSpec == Spec /\ Fairness

----------------------------------------------------------------------------
(* Properties                                                              *)

(* The item a goroutine ends on: a spawn is carried there until it settles.*)
Last(h) == run[h][Len(run[h])]

(* Handler h carries a spawn between its tracking commit and its settling, *)
(* or between the number it reserved and that commit.                      *)
Carries(h)  == /\ run[h] # <<>>
               /\ Last(h).op \in {"moveCheck", "move", "readOwner",
                                  "abandonSpawn", "settleSpawn"}
Reserves(h) == /\ run[h] # <<>>
               /\ Last(h).op \in {"create", "commit"}

(* Every spawn in flight has a handler that will settle it, or has settled *)
(* during the sweep that runs, and nothing else is marked: neither can a   *)
(* sweep wipe a spawn whose row is still to come (temp_vc.go:55), nor does *)
(* a marker outlive its spawn and hide the channel from every later sweep. *)
InFlightAccounted ==
  /\ settled \subseteq inFlight
  /\ settled # {} => sweepActive
  /\ \A h \in Handlers : Carries(h) => Last(h).c \in inFlight \ settled
  /\ \A c \in inFlight \ settled : \E h \in Handlers : Carries(h) /\ Last(h).c = c

(* A number is reserved exactly while one create holds it: handleHubJoin   *)
(* releases it on every exit, and no two creates share one.                *)
PendingAccounted ==
  /\ pending = {Last(h).n : h \in {k \in Handlers : Reserves(k)}}
  /\ \A h, k \in Handlers : Reserves(h) /\ Reserves(k) /\ h # k
                            => Last(h).n # Last(k).n

(* No two live channels of a hub carry the same number, across deletes     *)
(* that free one, creates in flight and sweeps that read numbers back from *)
(* rows listed earlier (nextChannelIndexLocked).                           *)
NumbersDistinct ==
  /\ \A c, d \in tracked \cap live : c # d => channelIndex[c] # channelIndex[d]
  /\ \A c \in tracked \cap live : channelIndex[c] \notin pending

(* Once nothing is left to do, every live channel that has a row is in the *)
(* record: no sweep that overlaps a spawn or a handover loses it           *)
(* (temp_vc.go:57), and a restart finds it again by its row.               *)
RowedChannelsTracked == Quiet => {c \in live : rows[c] # NoRow} \subseteq tracked

(* ... every channel in the record has its row, for the next restart to    *)
(* find it by, while the store does not fail.                              *)
TrackedChannelsRowed == Quiet => \A c \in tracked : rows[c] # NoRow

(* ... the record holds no channel that is gone.                           *)
NoGhostTracked == Quiet => tracked \subseteq live

(* Nothing but Discord's word that a channel is gone takes it out of the   *)
(* record, except a restart, which starts a new one (untrackLocked).       *)
UntrackedOnlyGone ==
  [][allowed'["restart"] = allowed["restart"] => (tracked \ tracked') \cap live' = {}]_vars

(* The record matches Discord and the store: the three above whenever all  *)
(* is quiet, the numbers and what leaves the record at every step.         *)
RecordMatches ==
  /\ [](NumbersDistinct /\ RowedChannelsTracked /\ TrackedChannelsRowed /\ NoGhostTracked)
  /\ UntrackedOnlyGone

(* Once nothing is left to do, the diff base knows where each member is,   *)
(* whatever the order the handlers ran in and whichever events were        *)
(* dropped; the members in the hub may be left out (handleGuildCreate).    *)
DiffBaseCurrent ==
  Quiet => \A u \in Users : userChannel[u] = loc[u]
                            \/ (loc[u] = Hub /\ userChannel[u] = Out)

(* ... and a channel's recorded occupants are the members inside.          *)
OccupantsCurrent == Quiet => \A c \in tracked : occupants[c] = Inside(c)

(* What the record says of who is where.                                   *)
ViewCurrent == DiffBaseCurrent /\ OccupantsCurrent

(* ... and the owner of an occupied channel is inside it: an owner who     *)
(* left was handed over whichever handler saw it.                          *)
OwnerInside ==
  Quiet => \A c \in tracked : Inside(c) # {}
                              => owners[c] \in Inside(c) \cup {NoOne}

(* An owner who stays inside and stays a Cav member keeps the channel:     *)
(* "A present owner keeps the channel" (temp_vc.go:1664).                  *)
PresentOwnerKeeps ==
  [][\A c \in tracked \cap tracked' :
       (/\ owners[c] \in occupants[c] \cap occupants'[c] \cap Inside(c)
        /\ ladder'[owners[c]] < NoRank)
       => owners'[c] = owners[c]]_vars

(* Owners: the one inside keeps the channel, and one who left is replaced. *)
OwnersRight == []OwnerInside /\ PresentOwnerKeeps

(* A spawn in flight settles, so sweeps judge its channel again.           *)
SpawnsSettle == \A c \in Channels : c \in inFlight ~> c \notin inFlight

(* A sweep ends, so the next GUILD_CREATE gets its own.                    *)
SweepsEnd == sweepActive ~> ~sweepActive

(* Members stopped moving, calls no longer fail, nothing is under way and  *)
(* the guild left the cache: the sweep of the GUILD_CREATE that follows    *)
(* brings the record and the channels back to what Discord shows, whatever *)
(* was missed before (handleGuildCreate).                                  *)
Calm == \A k \in Kinds \ {"outage", "restart"} : allowed[k] = 0
Healed ==
  /\ Quiet
  /\ tracked = {c \in live : rows[c] # NoRow}
  /\ \A c \in tracked : occupants[c] = Inside(c) /\ Inside(c) # {}
ReconnectHeals ==
  (/\ ~present /\ Calm
   /\ events = {} /\ chDeletes = {} /\ ~sweepActive
   /\ \A h \in Handlers : Idle(h))
  ~> Healed
RecordSettles == SpawnsSettle /\ SweepsEnd /\ ReconnectHeals

(* "A spawned channel is deleted the moment its last occupant leaves, or   *)
(* on a hub with a delete delay once it has stayed empty that long"        *)
(* (temp_vc.go:42): nobody is left to empty it again once all is quiet.    *)
EmptyChannelsGo == Quiet => \A c \in live : Inside(c) # {}

=============================================================================
