----------------------------- MODULE MemberList -----------------------------
(***************************************************************************)
(* The member list (commands/member_list.go): the whole list asked for     *)
(* after each GUILD_CREATE, its parts counted as their handlers run, the   *)
(* request asked again when Discord refuses it or no part comes, and the   *)
(* snapshot the rest of the bot reads.                                     *)
(*                                                                         *)
(* discordgo applies each event to its state as it comes, in order, and    *)
(* starts its handler on a goroutine: the handlers run in any order.  A    *)
(* timer may have fired when it is stopped, and its callback then runs     *)
(* after.  Other guilds' events are left out.                              *)
(***************************************************************************)
EXTENDS Naturals, FiniteSets

CONSTANTS
  Parts,      \* the parts Discord sends the list in
  MaxGuilds,  \* bound: guilds the state holds, one after another
  MaxAsks,    \* bound: requests
  ListSets    \* how often each kind of disturbance may happen: bounds

ListKinds == {"drop", "refuse", "lose", "repeat", "slow"}

ASSUME ListAssumption ==
  /\ IsFiniteSet(Parts) /\ Parts # {} /\ MaxGuilds \in Nat /\ MaxAsks \in Nat
  /\ ListSets \subseteq [ListKinds -> Nat]

VARIABLES
  here,     \* the guild of the state: its number, 0 for a placeholder or none,
            \* the parts applied to it, and members in voice named twice
  guilds,   \* guilds the state has held
  creates,  \* GUILD_CREATE handlers still to run
  list,     \* memberList
  toSend,   \* requests started and not yet sent
  coming,   \* parts Discord will send, by the nonce they answer
  chunks,   \* chunk handlers still to run
  refusals, \* RATE_LIMITED handlers still to run
  armed,    \* timers waiting: stall by sequence, retry by nonce, late by episode
  fired,    \* callbacks of timers still to run
  listLeft  \* disturbances still to come, by kind

listVars == <<here, guilds, creates, list, toSend, coming, chunks, refusals, armed, fired, listLeft>>

Timer(kind, n) == [kind |-> kind, n |-> n]
Answer(n, p) == [nonce |-> n, part |-> p]

ListTypeOK ==
  /\ here.guild \in 0 .. guilds /\ here.parts \subseteq Parts
  /\ guilds \in 0 .. MaxGuilds /\ creates \in 0 .. MaxGuilds
  /\ list.guild \in 0 .. guilds /\ list.nonce \in 0 .. MaxAsks /\ list.seen \subseteq Parts
  /\ list.complete => list.seen = Parts
  /\ toSend \subseteq 1 .. list.nonce /\ \A c \in chunks : c.nonce \in 1 .. list.nonce
  /\ Cardinality({t \in armed : t.kind = "stall"}) <= 1
  /\ listLeft \in [ListKinds -> Nat]

ListInit ==
  /\ here = [guild |-> 0, parts |-> {}, twice |-> FALSE] /\ guilds = 0 /\ creates = 0
  /\ list = [guild |-> 0, nonce |-> 0, seen |-> {}, complete |-> FALSE, retry |-> FALSE,
             stallSeq |-> 0, episode |-> 0, late |-> FALSE]
  /\ toSend = {} /\ coming = {} /\ chunks = {} /\ refusals = {} /\ armed = {} /\ fired = {}
  /\ listLeft \in ListSets

Disturb(k) == listLeft[k] > 0 /\ listLeft' = [listLeft EXCEPT ![k] = @ - 1]

-----------------------------------------------------------------------------
(* Discord and discordgo.                                                  *)

(* GUILD_CREATE: a new guild in the state, its members in voice twice.     *)
GuildCreate ==
  /\ here.guild = 0 /\ guilds < MaxGuilds /\ guilds' = guilds + 1 /\ creates' = creates + 1
  /\ here' = [guild |-> guilds + 1, parts |-> {}, twice |-> TRUE]
  /\ UNCHANGED <<list, toSend, coming, chunks, refusals, armed, fired, listLeft>>
(* An outage's GUILD_DELETE, or a READY after a session lost, which brings *)
(* no answer of the old session any more.                                  *)
GuildGone ==
  /\ here.guild # 0 /\ guilds < MaxGuilds /\ Disturb("drop")
  /\ here' = [guild |-> 0, parts |-> {}, twice |-> FALSE] /\ coming' \in {coming, {}}
  /\ UNCHANGED <<guilds, creates, list, toSend, chunks, refusals, armed, fired>>

(* A part is applied to the state, and its handler starts.                 *)
Part(a) ==
  /\ a \in coming /\ chunks' = chunks \cup {a}
  /\ here' = IF here.guild # 0 THEN [here EXCEPT !.parts = @ \cup {a.part}] ELSE here
  /\ \/ coming' = coming \ {a} /\ UNCHANGED listLeft
     \/ Disturb("repeat") /\ UNCHANGED coming
  /\ UNCHANGED <<guilds, creates, list, toSend, refusals, armed, fired>>
LosePart(a) ==
  /\ a \in coming /\ coming' = coming \ {a} /\ Disturb("lose")
  /\ UNCHANGED <<here, guilds, creates, list, toSend, chunks, refusals, armed, fired>>

(* send: Discord answers with every part, or refuses; or the write fails.  *)
Send(n) ==
  /\ n \in toSend /\ toSend' = toSend \ {n}
  /\ \/ coming' = coming \cup {Answer(n, p) : p \in Parts} /\ UNCHANGED <<refusals, listLeft>>
     \/ Disturb("refuse") /\ refusals' = refusals \cup {n} /\ UNCHANGED coming
     \/ Disturb("lose") /\ UNCHANGED <<coming, refusals>>
  /\ UNCHANGED <<here, guilds, creates, list, chunks, armed, fired>>

(* A stall wait ends with no part left to come, or, seldom, with Discord's *)
(* answer slower than the wait.                                            *)
Answering ==
  \/ list.nonce \in toSend \cup refusals
  \/ \E a \in coming \cup chunks : a.nonce = list.nonce
Fire(t) ==
  /\ t \in armed /\ armed' = armed \ {t} /\ fired' = fired \cup {t}
  /\ IF t.kind = "stall" /\ Answering THEN Disturb("slow") ELSE UNCHANGED listLeft
  /\ UNCHANGED <<here, guilds, creates, list, toSend, coming, chunks, refusals>>

-----------------------------------------------------------------------------
Without(kind) == {t \in armed : t.kind # kind}
(* stopStallLocked and waitForPartLocked, on the list L.                   *)
StallStopped(l) == [l EXCEPT !.stallSeq = @ + 1]
StallWaits(l) == {Timer("stall", l.stallSeq + 1)}

(* Wrong on purpose, to test ListRight: a new request goes on counting.    *)
AskedOn(l) == [l EXCEPT !.nonce = @ + 1, !.complete = FALSE, !.retry = FALSE, !.stallSeq = @ + 1]
(* startRequestLocked                                                      *)
Asked(l) ==
  [l EXCEPT !.nonce = @ + 1, !.seen = {}, !.complete = FALSE, !.retry = FALSE, !.stallSeq = @ + 1]
Asks(l, timers) ==
  /\ list.nonce < MaxAsks /\ list' = Asked(l) /\ toSend' = toSend \cup {list.nonce + 1}
  /\ armed' = {t \in timers : t.kind = "late"} \cup StallWaits(l)

(* guildCreated, at the guild the state holds by then.                     *)
GuildCreated ==
  /\ creates > 0 /\ creates' = creates - 1 /\ here' = [here EXCEPT !.twice = FALSE]
  /\ Asks([list EXCEPT !.guild = here.guild, !.episode = @ + 1, !.late = FALSE],
          Without("late") \cup {Timer("late", list.episode + 1)})
  /\ UNCHANGED <<guilds, coming, chunks, refusals, fired, listLeft>>

(* holdsGuildLocked                                                        *)
HoldsGuild == here.guild # 0 /\ here.guild = list.guild

(* Wrong on purpose, to test ListRight: a part counts whatever it answers. *)
CountsAny(a) == ~list.complete
(* A part counts only for the request in flight.                           *)
Counts(a) == a.nonce = list.nonce /\ ~list.complete

(* chunkArrived                                                            *)
Chunk(a) ==
  /\ a \in chunks /\ chunks' = chunks \ {a}
  /\ IF ~Counts(a) THEN UNCHANGED <<list, armed>>
     ELSE LET seen == list.seen \cup {a.part} IN
          /\ list' = StallStopped([list EXCEPT !.seen = seen, !.complete = seen = Parts])
          /\ armed' = Without("stall") \cup (IF seen = Parts THEN {} ELSE StallWaits(list))
  /\ UNCHANGED <<here, guilds, creates, toSend, coming, refusals, fired, listLeft>>

(* refused                                                                 *)
Refused(n) ==
  /\ n \in refusals /\ refusals' = refusals \ {n}
  /\ IF n # list.nonce \/ list.complete THEN UNCHANGED <<list, armed>>
     ELSE /\ list' = StallStopped([list EXCEPT !.retry = TRUE])
          /\ armed' = Without("stall") \cup {Timer("retry", n)}
  /\ UNCHANGED <<here, guilds, creates, toSend, coming, chunks, fired, listLeft>>

(* Wrong on purpose, to test ListRight: a stall wait stopped too late      *)
(* asks again.                                                             *)
CurrentLate(t) == t.kind = "retry" => list.nonce = t.n /\ list.retry
(* A wait is in force: the refusal's or the stall's the list goes by.      *)
Current(t) ==
  \/ t.kind = "retry" /\ list.nonce = t.n /\ list.retry
  \/ t.kind = "stall" /\ list.stallSeq = t.n /\ ~list.retry

(* retry and stalled, through askAgain.                                    *)
AskAgain(t) ==
  /\ t \in fired /\ t.kind \in {"retry", "stall"} /\ fired' = fired \ {t}
  /\ IF list.complete \/ ~Current(t) \/ ~HoldsGuild THEN UNCHANGED <<list, toSend, armed>>
     ELSE Asks(list, armed)
  /\ UNCHANGED <<here, guilds, creates, coming, chunks, refusals, listLeft>>

(* lateCheck                                                               *)
LateCheck(t) ==
  /\ t \in fired /\ t.kind = "late" /\ fired' = fired \ {t}
  /\ list' = IF t.n # list.episode \/ list.complete \/ ~HoldsGuild THEN list
             ELSE [list EXCEPT !.late = TRUE]
  /\ UNCHANGED <<here, guilds, creates, toSend, coming, chunks, refusals, armed, listLeft>>

(* Wrong on purpose, to test ListRight: the snapshot takes the count for   *)
(* whatever guild the state holds.                                         *)
StatusOfCount ==
  IF here.guild = 0 THEN "no guild" ELSE IF list.complete THEN "complete" ELSE "arriving"
(* snapshot                                                                *)
Status ==
  CASE here.guild = 0 -> "no guild"
    [] here.guild # list.guild -> "arriving"
    [] list.complete /\ HoldsGuild -> "complete"
    [] list.late /\ ~list.complete /\ HoldsGuild -> "late"
    [] list.retry /\ ~list.late /\ ~list.complete /\ HoldsGuild -> "refused"
    [] OTHER -> "arriving"

Gateway == GuildCreate \/ \E a \in coming : Part(a)
Waits == \E t \in fired : AskAgain(t) \/ LateCheck(t)
Handlers ==
  \/ GuildCreated \/ Waits \/ \E t \in armed : Fire(t)
  \/ \E n \in toSend : Send(n)
  \/ \E a \in chunks : Chunk(a)
  \/ \E n \in refusals : Refused(n)
ListNext == GuildGone \/ Gateway \/ Handlers \/ \E a \in coming : LosePart(a)
=============================================================================
