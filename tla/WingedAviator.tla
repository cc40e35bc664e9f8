---------------------------- MODULE WingedAviator ----------------------------
(***************************************************************************)
(* One member and one Winged Aviator role (commands/winged_aviator.go):    *)
(* the role follows the member's milpac, and the status in the store lasts *)
(* until a person takes the role away.                                     *)
(*                                                                         *)
(* Each event's handler, each command and each part of a pass decides      *)
(* under the member's lock, with what it saw of the role before it waited  *)
(* for the lock.  Under it, one action is one store call, one milpac read  *)
(* or one Discord call.                                                    *)
(***************************************************************************)
EXTENDS Naturals, Sequences

CONSTANTS
  MaxWaiting,    \* bound: handlers and commands at the lock
  AviatorSets    \* how often each kind of disturbance may happen: bounds

AviatorKinds == {"hand", "forum", "leave", "command", "store", "milpac", "refuse", "lost",
                 "crash", "drop"}
ASSUME AviatorAssumption == MaxWaiting \in Nat /\ AviatorSets \subseteq [AviatorKinds -> Nat]

VARIABLES
  discord, \* the member: in the server, holding the role; and their milpac
  aviator, \* the store lists them as a winged aviator
  stream,  \* the session's events on their way, in order
  cache,   \* what discordgo's state says of the role: holds, bare, out, unknown
  ready,   \* the member list is complete, with the bot connected
  waiting, \* handlers, commands and parts of a pass at the member's lock
  job,     \* the one that has it
  moving,  \* the note of the bot's own last change
  pass,    \* the passes' goroutine
  crossed,  \* own record: an answer was lost, two handlers ran out of order, or
           \* the bot changed the role with an earlier update to be handled
  aviatorsLeft  \* disturbances still to come, by kind

aviatorVars == <<discord, aviator, stream, cache, ready, waiting, job, moving, pass, crossed,
                 aviatorsLeft>>
session == <<stream, cache, ready>>

(* What waits for the lock: an update says whether the member holds the    *)
(* role, held it, if discordgo knew, and whether any role moved; the       *)
(* others, whether they hold it.  "by" is who caused it: own record.       *)
Work(kind, holds) ==
  [kind |-> kind, holds |-> holds, held |-> FALSE, known |-> FALSE, same |-> FALSE,
   by |-> "none", at |-> "lock", is |-> FALSE, read |-> "unread"]
NoJob == Work("none", FALSE)
NoPass == [at |-> "down", startup |-> FALSE, listed |-> "unknown"]
Update(holds, by) == [kind |-> "update", holds |-> holds, same |-> by = "none", by |-> by]
Event(kind) == [kind |-> kind, holds |-> FALSE, same |-> FALSE, by |-> "none"]

AviatorTypeOK ==
  /\ discord.milpac \in {"none", "active", "discharged"} /\ (discord.holds => discord.inside)
  /\ cache \in {"holds", "bare", "out", "unknown"} /\ moving \in {"none", "holds", "bare"}
  /\ Len(waiting) <= MaxWaiting + 2
  /\ job.at \in {"lock", "status", "milpac", "record", "unrecord", "set"}
  /\ job.kind = "none" <=> job.at = "lock"
  /\ pass.at \in {"down", "poll", "record", "list", "check", "sleep"}
  /\ pass.at = "down" => job = NoJob /\ waiting = <<>> /\ moving = "none" /\ stream = <<>>
  /\ aviatorsLeft \in [AviatorKinds -> Nat]

AviatorInit ==
  /\ \E h, a \in BOOLEAN, p \in {"none", "active", "discharged"} :
       discord = [inside |-> TRUE, holds |-> h, milpac |-> p] /\ aviator = a
  /\ stream = <<>> /\ cache = "unknown" /\ ready = FALSE /\ waiting = <<>> /\ job = NoJob
  /\ moving = "none" /\ pass = [NoPass EXCEPT !.at = "poll", !.startup = TRUE]
  /\ crossed = {} /\ aviatorsLeft \in AviatorSets

Happens(k) == aviatorsLeft[k] > 0 /\ aviatorsLeft' = [aviatorsLeft EXCEPT ![k] = @ - 1]
Running == pass.at # "down"
Sent(e) == stream' = IF Running THEN Append(stream, e) ELSE stream
Told(holds) == IF holds THEN "holds" ELSE "bare"

-----------------------------------------------------------------------------
(* The member, the people with the role's permission and the forum.        *)
Hand ==
  /\ Happens("hand") /\ discord.inside /\ discord' = [discord EXCEPT !.holds = ~@]
  /\ Sent(Update(~discord.holds, "hand"))
  /\ UNCHANGED <<aviator, cache, ready, waiting, job, moving, pass, crossed>>
(* The forum changes the milpac, and moves the member's other roles, or    *)
(* has none to move.                                                       *)
Forum ==
  /\ Happens("forum")
  /\ \E p \in {"active", "discharged"} \ {discord.milpac} : discord' = [discord EXCEPT !.milpac = p]
  /\ \/ discord.inside /\ Sent(Update(discord.holds, "forum"))
     \/ UNCHANGED stream
  /\ UNCHANGED <<aviator, cache, ready, waiting, job, moving, pass, crossed>>
ComeOrGo ==
  /\ IF discord.inside THEN Happens("leave") ELSE UNCHANGED aviatorsLeft
  /\ discord' = [discord EXCEPT !.inside = ~@, !.holds = FALSE]
  /\ Sent(Event(IF discord.inside THEN "leave" ELSE "join"))
  /\ UNCHANGED <<aviator, cache, ready, waiting, job, moving, pass, crossed>>

(* discordgo applies the next event to its state and starts its handler.   *)
Hears ==
  LET e == Head(stream) IN
  /\ stream # <<>> /\ stream' = Tail(stream) /\ Len(waiting) < MaxWaiting
  /\ cache' = IF e.kind = "leave" THEN "out" ELSE Told(e.holds)
  /\ waiting' = CASE e.kind = "leave" -> waiting
                  [] e.kind = "join" -> Append(waiting, Work("join", FALSE))
                  [] OTHER -> Append(waiting,
                       [Work("update", e.holds) EXCEPT !.known = cache \in {"holds", "bare"},
                          !.held = cache = "holds", !.same = e.same, !.by = e.by])
  /\ UNCHANGED <<discord, aviator, ready, job, moving, pass, crossed, aviatorsLeft>>

(* A session lost takes its events with it, and the list comes again.      *)
Drop ==
  /\ Running /\ ready /\ Happens("drop") /\ stream' = <<>> /\ cache' = "unknown" /\ ready' = FALSE
  /\ UNCHANGED <<discord, aviator, waiting, job, moving, pass, crossed>>
ListArrives ==
  /\ Running /\ ~ready /\ stream = <<>> /\ ready' = TRUE
  /\ cache' = IF discord.inside THEN Told(discord.holds) ELSE "out"
  /\ UNCHANGED <<discord, aviator, stream, waiting, job, moving, pass, crossed, aviatorsLeft>>

(* /winged-aviator add and remove, with the role as Discord resolved it.   *)
Command(kind) ==
  /\ Running /\ discord.inside /\ Happens("command") /\ Len(waiting) < MaxWaiting
  /\ waiting' = Append(waiting, Work(kind, discord.holds))
  /\ UNCHANGED <<discord, aviator, session, job, moving, pass, crossed>>

-----------------------------------------------------------------------------
(* The passes: over the member list as read at their start.                *)
PassBegins ==
  /\ pass.at = "poll" /\ ready
  /\ IF pass.startup /\ cache = "holds"
     THEN /\ pass' = [pass EXCEPT !.at = "record", !.listed = cache]
          /\ waiting' = Append(waiting, Work("holder", TRUE))
     ELSE pass' = [pass EXCEPT !.at = "list", !.listed = cache] /\ UNCHANGED waiting
  /\ UNCHANGED <<discord, aviator, session, job, moving, crossed, aviatorsLeft>>
(* ListWingedAviators, and each one in the server to check.                *)
PassLists ==
  /\ pass.at = "list"
  /\ \/ Happens("store") /\ pass' = [pass EXCEPT !.at = "sleep"] /\ UNCHANGED waiting
     \/ /\ UNCHANGED aviatorsLeft
        /\ IF aviator /\ pass.listed \in {"holds", "bare"}
           THEN /\ pass' = [pass EXCEPT !.at = "check"]
                /\ waiting' = Append(waiting, Work("check", pass.listed = "holds"))
           ELSE pass' = [pass EXCEPT !.at = "sleep"] /\ UNCHANGED waiting
  /\ UNCHANGED <<discord, aviator, session, job, moving, crossed>>

(* Wrong on purpose, to test AviatorsRight: no pass comes after the        *)
(* startup's.                                                              *)
NextNever == FALSE /\ pass' = pass
(* An hour on, the next pass: what waited for the lock is long done.       *)
NextPass == pass' = [NoPass EXCEPT !.at = "poll"]
Hourly ==
  /\ pass.at = "sleep" /\ job = NoJob /\ waiting = <<>> /\ stream = <<>> /\ NextPass
  /\ UNCHANGED <<discord, aviator, session, waiting, job, moving, crossed, aviatorsLeft>>

-----------------------------------------------------------------------------
(* Under the lock.                                                         *)
Still(u) == u.known /\ u.held = u.holds

(* Wrong on purpose, to test AviatorsRight: no update counts as the bot's. *)
NoneOwn(u) == FALSE
(* ownChange: the update is the one the bot's own last change caused.      *)
Own(u) == moving # "none" /\ ~Still(u) /\ moving = Told(u.holds)
NoteAfter(u) == IF moving # "none" /\ ~Still(u) /\ (moving = Told(u.holds) \/ u.known)
                THEN "none" ELSE moving

Goes(step) == job' = [job EXCEPT !.at = step]
(* The job is over; the pass goes on after its own.                        *)
Over ==
  /\ job' = NoJob
  /\ pass' = CASE job.kind = "holder" -> [pass EXCEPT !.at = "list"]
               [] job.kind = "check" -> [pass EXCEPT !.at = "sleep"]
               [] OTHER -> pass
On(step) == IF step = "done" THEN Over ELSE Goes(step) /\ UNCHANGED pass

Take(i) ==
  LET w == waiting[i] IN
  /\ job = NoJob
  /\ waiting' = SubSeq(waiting, 1, i - 1) \o SubSeq(waiting, i + 1, Len(waiting))
  /\ moving' = IF w.kind = "update" THEN NoteAfter(w) ELSE moving
  /\ job' = IF w.kind = "update" /\ Own(w) THEN NoJob
            ELSE [w EXCEPT !.at = IF w.kind = "add" THEN "milpac" ELSE "status"]
  /\ crossed' = IF \E k \in 1 .. (i - 1) : waiting[k].kind = "update" /\ w.kind = "update"
               THEN crossed \cup {"order"} ELSE crossed
  /\ UNCHANGED <<discord, aviator, session, pass, aviatorsLeft>>

(* After the status is known, by the kind of job.                          *)
AfterUpdate(j, is) ==
  CASE j.holds /\ ~is -> "record"
    [] j.held /\ ~j.holds /\ is -> "unrecord"
    [] OTHER -> IF ~is \/ (j.known /\ j.same) THEN "done" ELSE "milpac"
AfterAdd(j, is) ==
  CASE j.read = "none" /\ ~is -> "done"
    [] j.holds = (j.read = "discharged") -> "set"
    [] OTHER -> IF is THEN "done" ELSE "record"
AfterRemove(j, is) == IF j.holds THEN "set" ELSE IF is THEN "unrecord" ELSE "done"

(* Wrong on purpose, to test AviatorsRight: a pass checks whoever it       *)
(* listed.                                                                 *)
ListedAnyhow(j, is) == "milpac"
(* A pass and a rejoin check a winged aviator only.                        *)
AfterCheck(j, is) == IF is THEN "milpac" ELSE "done"
AfterStatus(j, is) ==
  CASE j.kind = "update" -> AfterUpdate(j, is)
    [] j.kind = "add" -> AfterAdd(j, is)
    [] j.kind = "remove" -> AfterRemove(j, is)
    [] j.kind = "holder" -> IF is THEN "done" ELSE "record"
    [] OTHER -> AfterCheck(j, is)

(* isWingedAviator: a read that fails counts as no status.                 *)
ReadStatus ==
  /\ job.at = "status"
  /\ \E is \in {aviator, FALSE} :
       /\ IF is # aviator THEN Happens("store") ELSE UNCHANGED aviatorsLeft
       /\ LET next == AfterStatus(job, is) IN
          IF next = "done" THEN Over
          ELSE job' = [job EXCEPT !.at = next, !.is = is] /\ UNCHANGED pass
  /\ UNCHANGED <<discord, aviator, session, waiting, moving, crossed>>

(* readMilpac, and check's choice: a read that fails changes nothing.      *)
ReadMilpac ==
  /\ job.at = "milpac" /\ UNCHANGED <<discord, aviator, session, waiting, moving, crossed>>
  /\ \/ Happens("milpac") /\ Over
     \/ /\ UNCHANGED aviatorsLeft
        /\ IF job.kind = "add" \/ job.holds = (discord.milpac = "discharged")
           THEN /\ job' = [job EXCEPT !.at = IF job.kind = "add" THEN "status" ELSE "set",
                                      !.read = discord.milpac]
                /\ UNCHANGED pass
           ELSE Over

(* record and unrecord: written, refused, or written with the answer lost. *)
Writes(is, next) ==
  /\ UNCHANGED <<discord, session, waiting, moving>>
  /\ \/ aviator' = is /\ On(next) /\ UNCHANGED <<crossed, aviatorsLeft>>
     \/ Happens("store") /\ Over /\ UNCHANGED <<aviator, crossed>>
     \/ aviator' = is /\ Happens("lost") /\ Over /\ UNCHANGED crossed
Record ==
  job.at = "record" /\
  Writes(TRUE, IF job.kind # "update" \/ (job.known /\ job.same) THEN "done" ELSE "milpac")
Unrecord == job.at = "unrecord" /\ Writes(FALSE, "done")

(* The change a job makes: away for a discharge or a remove.               *)
Gives(j) == j.kind # "remove" /\ ~j.holds
AfterSet(j) ==
  CASE j.kind = "add" -> IF j.is THEN "done" ELSE "record"
    [] j.kind = "remove" -> IF j.is THEN "unrecord" ELSE "done"
    [] OTHER -> "done"
(* An earlier update is still to be handled: it can be taken for the bot's *)
(* own or drop the note of it, and the note of its own change is lost.     *)
Crossing ==
  \/ \E k \in DOMAIN stream : stream[k].kind = "update"
  \/ \E k \in DOMAIN waiting : waiting[k].kind = "update"
Crosses(how) == crossed \cup how \cup IF Crossing THEN {"race"} ELSE {}

(* setRole: the note, then Discord's answer; a failure drops the note.     *)
SetRole ==
  LET gives == Gives(job)
      changes == discord.inside /\ discord.holds # gives IN
  /\ job.at = "set" /\ UNCHANGED <<aviator, cache, ready, waiting>>
  /\ \/ /\ discord.inside /\ discord' = [discord EXCEPT !.holds = gives]
        /\ IF changes THEN Sent(Update(gives, "bot")) ELSE UNCHANGED stream
        /\ \/ moving' = Told(gives) /\ On(AfterSet(job)) /\ UNCHANGED aviatorsLeft
              /\ crossed' = Crosses({})
           \/ /\ moving' = "none" /\ Happens("lost") /\ Over
              /\ crossed' = Crosses({"lost"})
     \/ /\ moving' = "none" /\ Over /\ crossed' = Crosses({}) /\ UNCHANGED <<discord, stream>>
        /\ IF discord.inside THEN Happens("refuse") ELSE UNCHANGED aviatorsLeft

-----------------------------------------------------------------------------
(* The process goes down with its handlers and notes, and comes up again.  *)
Down ==
  /\ Running /\ Happens("crash") /\ pass' = NoPass /\ job' = NoJob /\ waiting' = <<>>
  /\ moving' = "none" /\ stream' = <<>> /\ cache' = "unknown" /\ ready' = FALSE
  /\ UNCHANGED <<discord, aviator, crossed>>
Up ==
  /\ ~Running /\ pass' = [NoPass EXCEPT !.at = "poll", !.startup = TRUE]
  /\ UNCHANGED <<discord, aviator, session, waiting, job, moving, crossed, aviatorsLeft>>

JobSteps == ReadStatus \/ ReadMilpac \/ Record \/ Unrecord \/ SetRole
PassSteps == PassBegins \/ PassLists \/ Hourly
Turns == \E i \in DOMAIN waiting : Take(i)
People == Hand \/ Forum \/ ComeOrGo \/ Command("add") \/ Command("remove")
AviatorNext == People \/ Hears \/ Drop \/ ListArrives \/ PassSteps \/ Turns \/ JobSteps \/ Down \/ Up
=============================================================================
