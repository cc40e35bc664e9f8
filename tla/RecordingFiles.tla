--------------------------- MODULE RecordingFiles ---------------------------
(***************************************************************************)
(* One recording's row and its files (commands/recording_tracks.go,        *)
(* recording_files.go, recording_mix.go, recording_recovery.go,            *)
(* recording_retention.go, recording_library.go): the tracks as the        *)
(* recorder hears, the info file, the row and the mix at a stop, what a    *)
(* crash leaves and the next process's recovery makes of it, and the       *)
(* deletion by retention and by the panel.                                 *)
(*                                                                         *)
(* One action is one store call, one file written or removed, or one run   *)
(* of ffmpeg, and a process can go down between any two.  A track is empty *)
(* on disk until its first page with audio is written out.  Who may stop   *)
(* a recording, and its recorder, are in Recording.tla.                    *)
(***************************************************************************)
EXTENDS Naturals, FiniteSets

CONSTANTS
  Speakers,    \* those heard in the recording
  FilesSets    \* how often each kind of disturbance may happen: bounds

FilesKinds == {"crash", "disk", "store", "lost", "delete"}
Deleters == {"panel", "sweep"}

ASSUME FilesAssumption == IsFiniteSet(Speakers) /\ FilesSets \subseteq [FilesKinds -> Nat]

VARIABLES
  row,      \* the recording's row
  track,    \* each speaker's track on disk
  info,     \* the info file
  mixFile,  \* the mix at its path, and ffmpeg's temporary file
  live,     \* the recording in this process, and how far its stop has got
  heard,    \* each speaker's track as the writer has it
  mixer,    \* the mixer's goroutine
  recovery, \* recovery's goroutine, at most once a process
  deletes,  \* each deletion under way
  expired,  \* the deletion date has passed
  begun,    \* own record: a deletion has begun
  kept,     \* own record: whose audio reached the disk
  spoilt,   \* own record: what a failure keeps from settling in this process
  filesLeft \* disturbances still to come, by kind

filesVars == <<row, track, info, mixFile, live, heard, mixer, recovery, deletes, expired,
               begun, kept, spoilt, filesLeft>>
files == <<track, info, mixFile>>

NoList == [u \in Speakers |-> "no"]
NoRow == [at |-> "none", mix |-> "", names |-> NoList, ended |-> "", past |-> FALSE,
          stoppedPast |-> FALSE]
NoInfo == [there |-> FALSE, names |-> NoList, ended |-> ""]
NoMix == [whole |-> FALSE, part |-> FALSE, of |-> {}]
Idle == [at |-> "idle", names |-> NoList, of |-> {}, found |-> NoList]

FilesTypeOK ==
  /\ row.at \in {"none", "open", "stopped"}
  /\ row.mix \in {"", "processing", "ready", "failed", "none"}
  /\ row.names \in [Speakers -> {"no", "whole", "lost"}]
  /\ track \in [Speakers -> {"none", "empty", "audio"}] /\ mixFile.of \subseteq Speakers
  /\ heard \in [Speakers -> {"no", "open", "flushed", "closed", "lost"}]
  /\ live \in {"down", "none", "running", "ended", "told", "closed", "shut"}
  /\ mixer.at \in {"idle", "due", "mixing", "mixed", "failed", "none"}
  /\ recovery.at \in {"wait", "tracks", "info", "row", "done"}
  /\ deletes \in [Deleters -> {"idle", "files", "row"}]
  /\ live = "down" => mixer = Idle /\ \A d \in Deleters : deletes[d] = "idle"
  /\ kept \subseteq Speakers /\ filesLeft \in [FilesKinds -> Nat]

FilesInit ==
  /\ row = NoRow /\ track = [u \in Speakers |-> "none"] /\ info = NoInfo /\ mixFile = NoMix
  /\ live = "none" /\ heard = NoList /\ mixer = Idle /\ recovery = [Idle EXCEPT !.at = "wait"]
  /\ deletes = [d \in Deleters |-> "idle"] /\ expired = FALSE /\ begun = FALSE
  /\ kept = {} /\ spoilt = {} /\ filesLeft \in FilesSets

May(k) == filesLeft[k] > 0 /\ filesLeft' = [filesLeft EXCEPT ![k] = @ - 1]
Capture == <<live, heard>>
Deletion == <<deletes, expired, begun>>

-----------------------------------------------------------------------------
(* The recording and its stop.                                             *)

(* Start, as far as the files go: the row is inserted.  A lost answer      *)
(* leaves an open row nobody records.                                      *)
Start ==
  /\ row = NoRow /\ live = "none" /\ ~begun
  /\ row' = [NoRow EXCEPT !.at = "open"]
  /\ \/ live' = "running" /\ UNCHANGED filesLeft
     \/ May("lost") /\ UNCHANGED live
  /\ UNCHANGED <<files, heard, mixer, recovery, Deletion, kept, spoilt>>

(* Wrong on purpose, to test FilesTell: a frame after the tracks' close    *)
(* opens a track.                                                          *)
TakesLate == live = "running" \/ (live # "down" /\ heard # NoList)
(* Frames after close are dropped.                                         *)
Takes == live = "running"

(* A speaker's first frame: the directory and the track are made, or the   *)
(* track counts as lost.                                                   *)
Hear(u) ==
  /\ Takes /\ heard[u] = "no"
  /\ \/ heard' = [heard EXCEPT ![u] = "open"] /\ track' = [track EXCEPT ![u] = "empty"]
        /\ UNCHANGED filesLeft
     \/ May("disk") /\ heard' = [heard EXCEPT ![u] = "lost"] /\ track' \in {track, [track EXCEPT ![u] = "empty"]}
  /\ UNCHANGED <<row, info, mixFile, live, mixer, recovery, Deletion, kept, spoilt>>

(* A flush, or the writer's buffer filling, writes a track's pages out; a  *)
(* write that fails loses the track from then on.                          *)
Flush(u) ==
  /\ live = "running" /\ heard[u] \in {"open", "flushed"}
  /\ \/ /\ heard[u] = "open" /\ heard' = [heard EXCEPT ![u] = "flushed"]
        /\ track' = [track EXCEPT ![u] = "audio"] /\ kept' = kept \cup {u} /\ UNCHANGED filesLeft
     \/ May("disk") /\ heard' = [heard EXCEPT ![u] = "lost"] /\ UNCHANGED <<track, kept>>
  /\ UNCHANGED <<row, info, mixFile, live, mixer, recovery, Deletion, spoilt>>

(* The tracks' close, at a stop or a shutdown: each one not lost is filled *)
(* to the end and closed.                                                  *)
EndTracks(next) ==
  /\ live = "running" /\ live' = next
  /\ \E bad \in SUBSET {u \in Speakers : heard[u] \in {"open", "flushed"}} :
       /\ IF bad = {} THEN UNCHANGED filesLeft ELSE May("disk")
       /\ LET good == {u \in Speakers : heard[u] \in {"open", "flushed"}} \ bad IN
          /\ heard' = [u \in Speakers |-> IF u \in good THEN "closed" ELSE IF u \in bad THEN "lost"
                                          ELSE heard[u]]
          /\ track' = [u \in Speakers |-> IF u \in good THEN "audio" ELSE track[u]]
          /\ kept' = kept \cup good
  /\ UNCHANGED <<row, info, mixFile, mixer, recovery, Deletion, spoilt>>

(* Wrong on purpose, to test FilesTell: a lost track counts as whole.      *)
NamesWhole == [u \in Speakers |-> IF heard[u] = "no" THEN "no" ELSE "whole"]
(* The speakers of a stop, each with whether its track was lost.           *)
NamesHeard ==
  [u \in Speakers |-> IF heard[u] = "no" THEN "no" ELSE IF heard[u] = "lost" THEN "lost" ELSE "whole"]

(* writeRecordingInfo, at a stop and at recovery.                          *)
WritesInfo(names, end) ==
  \/ info' = [there |-> TRUE, names |-> names, ended |-> end] /\ UNCHANGED <<filesLeft, spoilt>>
  \/ May("disk") /\ UNCHANGED info /\ spoilt' = spoilt \cup {"info"}

Tell ==
  /\ live = "ended" /\ live' = "told" /\ WritesInfo(NamesHeard, "stop")
  /\ UNCHANGED <<row, track, mixFile, heard, mixer, recovery, Deletion, kept>>

(* StopRecording closes an open row and sets its mix to processing.        *)
Closed(names, end) ==
  [row EXCEPT !.at = "stopped", !.mix = "processing", !.names = names, !.ended = end,
              !.stoppedPast = FALSE]
(* The answer, and what the caller makes of a failure.                     *)
Closes(names, end, failure) ==
  \/ row.at = "open" /\ row' = Closed(names, end) /\ UNCHANGED <<filesLeft, spoilt>>
  \/ row.at # "open" /\ UNCHANGED <<row, filesLeft>> /\ spoilt' = spoilt \cup failure
  \/ May("store") /\ UNCHANGED row /\ spoilt' = spoilt \cup failure
  \/ row.at = "open" /\ May("lost") /\ row' = Closed(names, end) /\ spoilt' = spoilt \cup failure

(* closeRow: a row that would not close stays open until a restart.        *)
CloseRow ==
  /\ live = "told" /\ live' = "closed" /\ Closes(NamesHeard, "stop", {"row"})
  /\ UNCHANGED <<files, heard, mixer, recovery, Deletion, kept>>

(* startMix after a stop, whatever the row's close answered.               *)
StartMix ==
  /\ live = "closed" /\ live' = "none"
  /\ mixer' = [Idle EXCEPT !.at = "due", !.names = NamesHeard]
  /\ UNCHANGED <<row, files, heard, recovery, Deletion, kept, spoilt, filesLeft>>

-----------------------------------------------------------------------------
(* The mixer.                                                              *)

(* Wrong on purpose, to test FilesTell: ffmpeg is given every speaker's    *)
(* track, on disk or not.                                                  *)
EveryTrack(names) == {u \in Speakers : names[u] # "no"}
(* The tracks of the speakers named that are on disk.                      *)
OnDisk(names) == {u \in Speakers : names[u] # "no" /\ track[u] # "none"}

(* mix: which speakers' tracks are on disk, and ffmpeg's start.  With no   *)
(* speaker there is no mix; with no track on disk it fails.                *)
Mix ==
  LET of == OnDisk(mixer.names) IN
  /\ mixer.at = "due"
  /\ \/ mixer.names = NoList /\ mixer' = [mixer EXCEPT !.at = "none"] /\ UNCHANGED mixFile
     \/ /\ mixer.names # NoList /\ of = {}
        /\ mixer' = [mixer EXCEPT !.at = "failed"] /\ UNCHANGED mixFile
     \/ of # {} /\ mixer' = [mixer EXCEPT !.at = "mixing", !.of = of] 
        /\ mixFile' = [mixFile EXCEPT !.part = TRUE]
  /\ UNCHANGED <<row, track, info, Capture, recovery, Deletion, kept, spoilt, filesLeft>>

(* ffmpeg's end: it mixes no empty track and none gone meanwhile, and the  *)
(* rename needs the temporary file still there.  A failure removes it.     *)
CanMix == mixFile.part /\ \A u \in mixer.of : track[u] = "audio"
MixEnds ==
  /\ mixer.at = "mixing"
  /\ \/ /\ CanMix /\ mixFile' = [whole |-> TRUE, part |-> FALSE, of |-> mixer.of]
        /\ mixer' = [mixer EXCEPT !.at = "mixed"] /\ UNCHANGED <<filesLeft, spoilt>>
     \/ /\ mixFile' = [mixFile EXCEPT !.part = FALSE] /\ mixer' = [mixer EXCEPT !.at = "failed"]
        /\ \/ CanMix /\ May("disk") /\ spoilt' = spoilt \cup {"ffmpeg"}
           \/ ~CanMix /\ UNCHANGED <<filesLeft, spoilt>>
  /\ UNCHANGED <<row, track, info, Capture, recovery, Deletion, kept>>

(* setMix: of a row gone it writes nothing.                                *)
SetMix ==
  LET state == CASE mixer.at = "mixed" -> "ready" [] OTHER -> mixer.at IN
  /\ mixer.at \in {"mixed", "failed", "none"} /\ mixer' = Idle
  /\ \/ row' = (IF row.at = "none" THEN row ELSE [row EXCEPT !.mix = state]) /\ UNCHANGED <<filesLeft, spoilt>>
     \/ May("store") /\ UNCHANGED row /\ spoilt' = spoilt \cup {"mix"}
  /\ UNCHANGED <<files, Capture, recovery, Deletion, kept>>

-----------------------------------------------------------------------------
(* The process goes down at any point, and the next one comes up.  A       *)
(* shutdown first closes the tracks.                                       *)
Shutdown == filesLeft.crash > 0 /\ EndTracks("shut")
Crash ==
  /\ live # "down" /\ May("crash") /\ live' = "down" /\ heard' = NoList /\ mixer' = Idle
  /\ recovery' = [Idle EXCEPT !.at = "wait"] /\ deletes' = [d \in Deleters |-> "idle"]
  /\ UNCHANGED <<row, files, expired, begun, kept, spoilt>>
Restart ==
  /\ live = "down" /\ live' = "none" /\ spoilt' = spoilt \cap {"info", "ffmpeg", "unread"}
  /\ row' = [row EXCEPT !.past = row.at = "open", !.stoppedPast = row.at = "stopped"]
  /\ UNCHANGED <<files, heard, mixer, recovery, Deletion, kept, filesLeft>>

(* Wrong on purpose, to test FilesTell: recovery takes any open row.       *)
AnyLeft == row.at = "open"
(* A row an earlier process left running.                                  *)
LeftRunning == row.at = "open" /\ row.past

(* Wrong on purpose, to test UpkeepSettles: recovery leaves stopped rows.  *)
LeftNever == FALSE
(* One an earlier process stopped and went down before it was mixed.       *)
LeftUnmixed == row.at = "stopped" /\ row.mix = "processing" /\ row.stoppedPast

(* recoverLastProcess, once the member list is there or late.              *)
Recover ==
  /\ live # "down" /\ recovery.at = "wait"
  /\ \/ May("store") /\ recovery' = [recovery EXCEPT !.at = "done"]
        /\ spoilt' = spoilt \cup {"list"} /\ UNCHANGED mixer
     \/ /\ recovery' = [recovery EXCEPT !.at = IF LeftRunning THEN "tracks" ELSE "done"]
        /\ mixer' = IF LeftUnmixed THEN [Idle EXCEPT !.at = "due", !.names = row.names] ELSE mixer
        /\ UNCHANGED <<filesLeft, spoilt>>
  /\ UNCHANGED <<row, files, Capture, Deletion, kept>>

(* Wrong on purpose, to test FilesTell: a removed track's speaker is       *)
(* forgotten.                                                              *)
FoundWhole(u) == IF track[u] = "audio" THEN "whole" ELSE "no"
Found(u) == IF track[u] = "audio" THEN "whole" ELSE "lost"

(* keepAudioTracks, one track of the directory at a time: one with no      *)
(* audio goes, and its speaker is kept with the track lost.                *)
ToRead == {u \in Speakers : track[u] # "none"} \ recovery.of
KeepTrack(u) ==
  /\ recovery.at = "tracks" /\ u \in ToRead
  /\ \/ /\ recovery' = [recovery EXCEPT !.of = @ \cup {u}, !.found[u] = Found(u)]
        /\ \/ /\ track' = IF track[u] = "empty" THEN [track EXCEPT ![u] = "none"] ELSE track
              /\ UNCHANGED filesLeft
           \/ track[u] = "empty" /\ May("disk") /\ UNCHANGED track
        /\ UNCHANGED spoilt
     \/ /\ May("disk") /\ recovery' = [recovery EXCEPT !.of = @ \cup {u}]
        /\ spoilt' = spoilt \cup {"unread"} /\ UNCHANGED track
  /\ UNCHANGED <<row, info, mixFile, Capture, mixer, Deletion, kept>>
KeptTracks ==
  /\ recovery.at = "tracks" /\ ToRead = {} /\ recovery' = [recovery EXCEPT !.at = "info"]
  /\ UNCHANGED <<row, files, Capture, mixer, Deletion, kept, spoilt, filesLeft>>
RecoverInfo ==
  /\ recovery.at = "info" /\ recovery' = [recovery EXCEPT !.at = "row"]
  /\ WritesInfo(recovery.found, "restart")
  /\ UNCHANGED <<row, track, mixFile, Capture, mixer, Deletion, kept>>

(* recoverRecording's close: one that failed leaves the row and builds no  *)
(* mix.                                                                    *)
RecoverRow ==
  /\ recovery.at = "row" /\ recovery' = [recovery EXCEPT !.at = "done"]
  /\ Closes(recovery.found, "restart", {"row"})
  /\ mixer' = IF spoilt' = spoilt THEN [Idle EXCEPT !.at = "due", !.names = recovery.found]
              ELSE mixer
  /\ UNCHANGED <<files, Capture, Deletion, kept>>

-----------------------------------------------------------------------------
(* removeRecording.                                                        *)
Expire ==
  /\ row.at = "stopped" /\ ~expired /\ expired' = TRUE
  /\ UNCHANGED <<row, files, Capture, mixer, recovery, deletes, begun, kept, spoilt, filesLeft>>

(* Wrong on purpose, to test FilesTell: a running recording is deleted.    *)
AnyRow == row.at # "none"
(* Neither retention nor the panel deletes a running recording.            *)
Deletable == row.at = "stopped"

(* Wrong on purpose, to test FilesTell: the row goes first.                *)
RowFirst(step) == CASE step = "begin" -> "row" [] step = "row" -> "files" [] OTHER -> "idle"
(* The order: the row is what finds the files.                             *)
Then(step) == CASE step = "begin" -> "files" [] step = "files" -> "row" [] OTHER -> "idle"

BeginDelete(d) ==
  /\ live # "down" /\ deletes[d] = "idle" /\ Deletable
  /\ IF d = "panel" THEN May("delete") ELSE expired /\ UNCHANGED filesLeft
  /\ deletes' = [deletes EXCEPT ![d] = Then("begin")] /\ begun' = TRUE
  /\ UNCHANGED <<row, files, Capture, mixer, recovery, expired, kept, spoilt>>
RemoveFiles(d) ==
  /\ deletes[d] = "files"
  /\ \/ /\ track' = [u \in Speakers |-> "none"] /\ info' = NoInfo /\ mixFile' = NoMix
        /\ deletes' = [deletes EXCEPT ![d] = Then("files")] /\ UNCHANGED filesLeft
     \/ /\ \E gone \in SUBSET Speakers :
             track' = [u \in Speakers |-> IF u \in gone THEN "none" ELSE track[u]]
        /\ info' \in {info, NoInfo} /\ UNCHANGED mixFile
        /\ deletes' = [deletes EXCEPT ![d] = "idle"] /\ May("disk")
  /\ UNCHANGED <<row, Capture, mixer, recovery, expired, begun, kept, spoilt>>
RemoveRow(d) ==
  /\ deletes[d] = "row"
  /\ \/ row' = NoRow /\ deletes' = [deletes EXCEPT ![d] = Then("row")] /\ UNCHANGED filesLeft
     \/ /\ deletes' = [deletes EXCEPT ![d] = "idle"]
        /\ \/ May("store") /\ UNCHANGED row
           \/ May("lost") /\ row' = NoRow
  /\ UNCHANGED <<files, Capture, mixer, recovery, expired, begun, kept, spoilt>>

Mixes == Mix \/ MixEnds \/ SetMix
Recovers == Recover \/ KeptTracks \/ RecoverInfo \/ RecoverRow \/ \E u \in Speakers : KeepTrack(u)
Stops == Tell \/ CloseRow \/ StartMix
Removes(d) == RemoveFiles(d) \/ RemoveRow(d)
FilesNext ==
  \/ Start \/ EndTracks("ended") \/ Shutdown \/ Crash \/ Restart \/ Expire
  \/ Stops \/ Mixes \/ Recovers
  \/ \E u \in Speakers : Hear(u) \/ Flush(u)
  \/ \E d \in Deleters : BeginDelete(d) \/ Removes(d)
=============================================================================
