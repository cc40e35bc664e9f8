------------------------------ MODULE MCUpkeep ------------------------------
(***************************************************************************)
(* TLC instance of one recording's files, one speaker's track, the member  *)
(* list, one winged aviator and one recorder account's gateway watch,      *)
(* which share nothing here: a run checks whichever WHICH names.           *)
(***************************************************************************)
EXTENDS RecordingFiles, RecordingTrack, MemberList, WingedAviator, GatewayWatch, TLC

VARIABLE which

AtMost(kinds, f) == [k \in kinds |-> IF k \in DOMAIN f THEN f[k] ELSE 0]
FilesAllowances == {AtMost(FilesKinds, f) : f \in
  {[crash |-> 2, disk |-> 1], [crash |-> 1, delete |-> 1, store |-> 1],
   [crash |-> 1, lost |-> 1, disk |-> 1], [disk |-> 2, delete |-> 1]}}
ListAllowances == {AtMost(ListKinds, f) : f \in
  {[drop |-> 1, lose |-> 1], [drop |-> 1, refuse |-> 1], [refuse |-> 1, slow |-> 1],
   [slow |-> 1, lose |-> 1], [repeat |-> 1, drop |-> 1]}}
AviatorAllowances == {AtMost(AviatorKinds, f) : f \in
  {[crash |-> 1, hand |-> 1, forum |-> 1], [leave |-> 1, forum |-> 1, refuse |-> 1],
   [drop |-> 1, forum |-> 1], [store |-> 1, command |-> 1], [hand |-> 1, command |-> 1],
   [lost |-> 1, forum |-> 1], [milpac |-> 1, hand |-> 1]}}
WatchAllowances == {AtMost(WatchKinds, f) : f \in
  {[drop |-> 1, late |-> 1], [invalid |-> 1, refuse |-> 1, drop |-> 1],
   [fail |-> 1, drop |-> 1, stop |-> 1], [drop |-> 2]}}

all == <<which, filesVars, trackVars, listVars, aviatorVars, watchVars>>
Init ==
  /\ which \in {"files", "track", "list", "aviator", "watch"}
  /\ FilesInit /\ (which # "files" => filesLeft = AtMost(FilesKinds, [crash |-> 2, disk |-> 1]))
  /\ ListInit /\ (which # "list" => listLeft = AtMost(ListKinds, [drop |-> 1, lose |-> 1]))
  /\ AviatorInit
  /\ which # "aviator" =>
       /\ discord.milpac = "none" /\ ~discord.holds /\ ~aviator
       /\ aviatorsLeft = AtMost(AviatorKinds, [drop |-> 1, forum |-> 1])
  /\ WatchInit /\ (which # "watch" => watchLeft = AtMost(WatchKinds, [drop |-> 1, late |-> 1]))
  /\ TrackInit
BesideFiles == <<which, trackVars, listVars, aviatorVars, watchVars>>
BesideTrack == <<which, filesVars, listVars, aviatorVars, watchVars>>
BesideList == <<which, filesVars, trackVars, aviatorVars, watchVars>>
BesideAviator == <<which, filesVars, trackVars, listVars, watchVars>>
BesideWatch == <<which, filesVars, trackVars, listVars, aviatorVars>>
OfFiles(A) == which = "files" /\ A /\ UNCHANGED BesideFiles
OfList(A) == which = "list" /\ A /\ UNCHANGED BesideList
OfAviator(A) == which = "aviator" /\ A /\ UNCHANGED BesideAviator
OfWatch(A) == which = "watch" /\ A /\ UNCHANGED BesideWatch
Next ==
  \/ OfFiles(FilesNext) \/ OfList(ListNext) \/ OfAviator(AviatorNext) \/ OfWatch(WatchNext)
  \/ which = "track" /\ TrackNext /\ UNCHANGED BesideTrack

(* The stop, the mixer, recovery and the deletions run on goroutines of    *)
(* their own, each wait with a deadline; the sweep comes hourly; Docker    *)
(* brings the process up again.  The gateway delivers, each handler and    *)
(* timer runs, and each call under a member's lock has a deadline.  A      *)
(* gateway session that lost its connection need not get it back.          *)
Spec ==
  /\ Init /\ [][Next]_all
  /\ WF_all(OfFiles(Stops)) /\ WF_all(OfFiles(Mixes)) /\ WF_all(OfFiles(Recovers))
  /\ WF_all(OfFiles(Restart)) /\ WF_all(OfFiles(live = "shut" /\ Crash))
  /\ WF_all(OfFiles(BeginDelete("sweep")))
  /\ \A d \in Deleters : WF_all(OfFiles(Removes(d)))
  /\ WF_all(OfList(Gateway)) /\ WF_all(OfList(Handlers))
  /\ WF_all(OfAviator(Hears)) /\ WF_all(OfAviator(ListArrives)) /\ WF_all(OfAviator(Up))
  /\ WF_all(OfAviator(PassSteps)) /\ WF_all(OfAviator(Turns)) /\ WF_all(OfAviator(JobSteps))
  /\ WF_all(OfWatch(EventHandlers)) /\ WF_all(OfWatch(Reports)) /\ WF_all(OfWatch(OwnerSteps))

-----------------------------------------------------------------------------
(* The types of the variables, and nothing of a process outlives it.       *)
TypesOK == FilesTypeOK /\ TrackTypeOK /\ ListTypeOK /\ AviatorTypeOK /\ WatchTypeOK

(* No file is left that no row finds (removeRecording, closeRow, the       *)
(* tracks' close).                                                         *)
NoneUnfound ==
  row.at = "none" => /\ \A u \in Speakers : track[u] = "none"
                     /\ ~info.there /\ ~mixFile.whole /\ ~mixFile.part

(* A row tells what is on disk (closeRow, recoverRecording,                *)
(* keepAudioTracks): a recording running has its row open; a closed row    *)
(* names everyone heard or found, "whole" only whose audio is there, and   *)
(* the info file says what the row says.                                   *)
RowTells ==
  /\ live = "running" => row.at = "open"
  /\ row.at = "stopped" =>
       \A u \in Speakers :
         /\ row.names[u] = "whole" => u \in kept
         /\ u \in kept /\ "unread" \notin spoilt => row.names[u] # "no"
         /\ u \in kept /\ ~begun => track[u] = "audio"
         /\ heard[u] # "no" => row.names[u] # "no"
         /\ u \in recovery.of /\ row.ended = "restart" /\ "unread" \notin spoilt =>
              row.names[u] # "no"
  /\ row.at = "stopped" /\ info.there /\ "info" \notin spoilt =>
       info.names = row.names /\ info.ended = row.ended

(* What a stopped row says of its mix is so (mix, setMix): ready with the  *)
(* mix at its path, of every track on disk; none with no speaker; failed   *)
(* with no track, with one that ffmpeg cannot read, or by ffmpeg.          *)
MixTold ==
  row.at = "stopped" /\ ~begun =>
    /\ row.mix = "ready" => mixFile.whole /\ mixFile.of = OnDisk(row.names)
    /\ row.mix = "none" => row.names = NoList
    /\ row.mix = "failed" =>
         OnDisk(row.names) = {} \/ "ffmpeg" \in spoilt \/ \E u \in Speakers : track[u] = "empty"

(* What the files, the row and the mix of a recording say of each other.   *)
FilesTell == NoneUnfound /\ RowTells /\ MixTold

(* Each mix is built or given up, each recording a process left running is *)
(* closed by the next, and each past its date goes, files and row.  A      *)
(* store call that failed leaves the first two to another restart          *)
(* (recoverLastProcess, sweepRetention).                                   *)
FilesSettle ==
  /\ []<>(row.at = "stopped" /\ row.mix = "processing" => spoilt \cap {"list", "row", "mix"} # {})
  /\ []<>(row.at = "open" /\ row.past => spoilt \cap {"list", "row"} # {})
  /\ []<>(expired => row.at = "none")

(* A track keeps each packet once and in order, no later than its sending  *)
(* and the network make it, and no earlier than the drift and the frame of *)
(* silence a gap leaves unfilled allow, whatever the RTP clock does and    *)
(* wherever it wraps (place).  Its pages never go back, and it ends at the *)
(* recording's end, or with the page already out past it, on a page that   *)
(* holds a packet (end, closeAt).                                          *)
Longest == CHOOSE n \in Lengths : \A m \in Lengths : m <= n
TrackHolds ==
  [][/\ placed' # placed =>
          /\ placed'.n > placed.n
          /\ placed'.at <= placed'.spoken + Longest + MaxDelay
          /\ placed'.at > placed'.spoken - MaxDrift - Silence
     /\ trk'.pageGranule >= trk.pageGranule
     /\ trk'.closed /\ ~trk.closed =>
          /\ trk'.pending
          /\ trk'.granule = IF clock > trk.pageGranule THEN clock ELSE trk.pageGranule]_all

(* A list the snapshot calls complete is whole: every part is in the state *)
(* of the guild the state holds, and each member in it once, whatever      *)
(* order handlers run in and whichever request the parts answer            *)
(* (chunkArrived, guildCreated, snapshot).  The bot asks again only for    *)
(* the wait in force, never for one a part, a refusal or a newer request   *)
(* ended (askAgain).                                                       *)
ListRight ==
  /\ [](Status = "complete" => here.parts = Parts /\ ~here.twice)
  /\ [][list'.nonce # list.nonce /\ creates' = creates =>
          \E t \in fired \ fired' : \/ t.kind = "retry" /\ list.nonce = t.n /\ list.retry
                                    \/ t.kind = "stall" /\ list.stallSeq = t.n /\ ~list.retry]_all

(* A guild's list does come, or the guild goes.                            *)
ListComes == []<>(Status \in {"complete", "no guild"})

(* A status ends only when a person ends it (memberUpdated, ownChange):    *)
(* the bot's own removal of the role never does, unless its answer was     *)
(* lost, handlers ran out of order or an earlier update was still to be    *)
(* handled.  And the bot gives the role only to who is a winged aviator    *)
(* then, whatever list a pass began with, or at /winged-aviator add.       *)
StatusKept ==
  [][/\ aviator /\ ~aviator' /\ crossed = {} => job.kind = "remove" \/ job.by = "hand"
     /\ job.at = "set" /\ Gives(job) /\ ~discord.holds /\ discord'.holds =>
          aviator \/ job.kind = "add"]_all

(* And when all is quiet the role follows the milpac of each winged        *)
(* aviator in the server (pass).                                           *)
AviatorsRight ==
  /\ StatusKept
  /\ <>[](discord.inside /\ aviator /\ which = "aviator" =>
            discord.holds = (discord.milpac # "discharged"))

(* The watch calls the account down whenever it is offline, by choice or   *)
(* not, and only then, once its handlers have run in order, unless a READY *)
(* slipped into a logout, and then until the next outage or READY; an      *)
(* outage Sentry hears of is said over once it is; and a session whose     *)
(* token Discord refused logs in no more, and its refusal is told, by the  *)
(* watch or by the open that failed, unless its recorder has left it       *)
(* (closed, fire, online, CloseSession, failedOpen).                       *)
WatchTells ==
  /\ ~astray /\ ~watch.stoodDown /\ ~slipped =>
       /\ owner.at # "in" => watch.down
       /\ events = <<>> /\ owner.at # "leaving" =>
            watch.down = ~(watch.session # 0 /\ dg[watch.session].conn = "ready")
  /\ \A n \in Outages : reports[n] \in {"checked", "sent"} =>
       n \in backs \/ (watch.down /\ n = watch.outage)
  /\ \A s \in Logins : dg[s].refused =>
       /\ dg[s].conn = "closed"
       /\ \/ s \in told \/ astray \/ dg[s].loggedOut
          \/ s = owner.login /\ owner.at \in {"failed", "stopping", "stopped"}

(* A recorder that logged out is "offline from now until a login's READY,  *)
(* and in a gateway outage all that time" (LogOut): once its logout has    *)
(* let go of its session, and before another login, the watch calls it     *)
(* down.                                                                   *)
LoggedOutIsDown ==
  \A s \in Logins : dg[s].loggedOut /\ s = owner.login /\ watch.session = 0 /\ ~watch.stoodDown => watch.down

StaysLoggedIn(s) == dg[s].loggedOut /\ dg[s].conn \in {"bare", "ready"}
(* An outage that lasts reaches Sentry, and a login the recorder left does *)
(* not stay in (fire, cameBack).                                           *)
WatchSettles ==
  /\ []<>(which = "watch" /\ watch.down /\ ~watch.stoodDown => reports[watch.outage] = "sent")
  /\ \A s \in Logins : []<>~StaysLoggedIn(s)

(* What must settle does: a recording's files and row, the member list, an *)
(* outage and a login.                                                     *)
UpkeepSettles == FilesSettle /\ ListComes /\ WatchSettles
=============================================================================
