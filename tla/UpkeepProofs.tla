---------------------------- MODULE UpkeepProofs ----------------------------
(***************************************************************************)
(* Proofs about what goes on beside a recording and the channels, for      *)
(* every value of the constants: one recorder account's gateway watch, one *)
(* speaker's track, the member list, one winged aviator and one            *)
(* recording's files.  MCUpkeep composes them without shared state, so     *)
(* each has an inductive invariant of its own, kept by its own steps and   *)
(* by any step that leaves its variables alone.                            *)
(***************************************************************************)
EXTENDS MCUpkeep, SequenceTheorems, FiniteSetTheorems, NaturalsInduction, WellFoundedInduction, TLAPS

-----------------------------------------------------------------------------
(* The gateway watch: that it tells the account's outages and refusals as  *)
(* they are, however sessions open, fail, drop, reconnect and are refused. *)

(* A sequence without its k-th element.                                    *)
LeftAt(q, k) == SubSeq(q, 1, k - 1) \o SubSeq(q, k + 1, Len(q))
LEMMA OneOut ==
  ASSUME NEW S, NEW q \in Seq(S), NEW k \in 1 .. Len(q)
  PROVE  /\ LeftAt(q, k) \in Seq(S) /\ Len(LeftAt(q, k)) = Len(q) - 1
         /\ \A i \in 1 .. (k - 1) : LeftAt(q, k)[i] = q[i]
         /\ \A i \in k .. (Len(q) - 1) : LeftAt(q, k)[i] = q[i + 1]
<1> DEFINE a == SubSeq(q, 1, k - 1)
           b == SubSeq(q, k + 1, Len(q))
<1>1. Len(q) \in Nat /\ k \in 1 .. Len(q)
  OBVIOUS
<1>2. a \in Seq(S) /\ Len(a) = k - 1 /\ \A i \in 1 .. (k - 1) : a[i] = q[i]
  BY <1>1
<1>3. /\ b \in Seq(S) /\ Len(b) = Len(q) - k
      /\ \A i \in 1 .. (Len(q) - k) : b[i] = q[k + i]
  BY <1>1
<1>4. LeftAt(q, k) = a \o b
  BY DEF LeftAt
<1> HIDE DEF a, b
<1>5. a \o b \in Seq(S) /\ Len(a \o b) = Len(a) + Len(b)
  BY <1>2, <1>3, ConcatProperties
<1>6. ASSUME NEW i \in 1 .. (k - 1)
      PROVE  (a \o b)[i] = q[i]
  BY <1>1, <1>2, <1>3
<1>7. ASSUME NEW i \in k .. (Len(q) - 1)
      PROVE  (a \o b)[i] = q[i + 1]
  <2> DEFINE j == i - (k - 1)
  <2>1. j \in 1 .. (Len(q) - k) /\ j \in 1 .. Len(b) /\ k + j = i + 1
    BY <1>1, <1>3
  <2>2. i = Len(a) + j /\ Len(a) \in Nat
    BY <1>1, <1>2
  <2> HIDE DEF j
  <2>3. (a \o b)[Len(a) + j] = b[j]
    BY SMTT(30), <1>2, <1>3, <2>1, ConcatProperties
  <2> QED
    BY <1>3, <2>1, <2>2, <2>3
<1>8. LeftAt(q, k) \in Seq(S) /\ Len(LeftAt(q, k)) = Len(q) - 1
  BY <1>1, <1>2, <1>3, <1>4, <1>5
<1> QED
  BY <1>4, <1>6, <1>7, <1>8

-----------------------------------------------------------------------------
(* The gateway watch.  Its invariant has seven parts: the types; which     *)
(* session the watch reads, by where the login stands; what a session not  *)
(* yet opened cannot have; that a refused session is closed for good; what *)
(* is known of each session the recorder has left, or is leaving; the      *)
(* outages past; and what the handlers still to run make of the line.      *)
EventKinds == {"ready", "connect", "disconnect"}
WatchEvent == [kind : EventKinds, of : Logins]
WatchState == [session : 0 .. MaxLogins, down : BOOLEAN, outage : Outages, reported : BOOLEAN,
               stoodDown : BOOLEAN]
Conns == {"none", "opening", "bare", "ready", "retrying", "closed"}
Session == [conn : Conns, up : BOOLEAN, refused : BOOLEAN, reconnects : BOOLEAN,
            loggedOut : BOOLEAN]
Fates == {"none", "set", "checked", "sent", "dropped"}
Owner == [at : {"out", "opening", "failed", "in", "leaving", "stopping", "stopped"},
          login : 0 .. MaxLogins]
WTypes ==
  /\ watch \in WatchState /\ dg \in [Logins -> Session] /\ owner \in Owner
  /\ events \in Seq(WatchEvent) /\ reports \in [Outages -> Fates]
  /\ told \subseteq Logins /\ backs \subseteq Outages /\ astray \in BOOLEAN
  /\ slipped \in BOOLEAN /\ watchLeft \in [WatchKinds -> Nat]

Reads ==
  /\ owner.at \in {"opening", "in", "stopping"} => watch.session = owner.login
  /\ owner.at = "out" => watch.session = 0
  /\ watch.session \in {0, owner.login}
  /\ owner.at # "out" => owner.login > 0
  /\ watch.stoodDown <=> owner.at \in {"stopping", "stopped"}
  /\ owner.at = "opening" => dg[owner.login].conn = "opening"

Fresh == {"none", "opening"}
Used(s) == s < owner.login \/ (s = owner.login /\ owner.at # "opening")
Ahead ==
  /\ \A s \in Logins : ~Used(s) => ~dg[s].refused /\ ~dg[s].loggedOut /\ dg[s].conn \in Fresh
  /\ \A s \in Logins : Used(s) => dg[s].conn \notin Fresh
  /\ \A s \in Logins : dg[s].loggedOut => s # watch.session \/ (owner.at = "leaving" /\ s = owner.login)
  /\ \A i \in DOMAIN events, s \in Logins : events[i].of = s => Used(s)

Out == \A s \in Logins : dg[s].refused => dg[s].conn = "closed" /\ ~dg[s].reconnects

NoReady(s) == \A i \in DOMAIN events : ~(events[i].kind = "ready" /\ events[i].of = s)
Heard(s) == dg[s].up \/ ~NoReady(s)
Parted(s) == dg[s].loggedOut \/ (dg[s].conn = "closed" /\ (dg[s].refused => s \in told))
LeftBefore == \A s \in Logins : s < owner.login => Parted(s)
LeftLast == owner.at = "out" /\ owner.login > 0 => Parted(owner.login)
LeftOpen ==
  /\ owner.at = "leaving" => dg[owner.login].loggedOut
  /\ owner.at = "in" => Heard(owner.login) /\ (dg[owner.login].refused => owner.login \in told)
LeftFailed ==
  owner.at = "failed" =>
    IF watch.session = 0
    THEN dg[owner.login].conn \in {"bare", "ready", "closed"} /\ ~dg[owner.login].reconnects
    ELSE dg[owner.login].conn \in {"bare", "closed"} /\ NoReady(owner.login)
Left == ~astray => LeftBefore /\ LeftLast /\ LeftOpen /\ LeftFailed

Past ==
  /\ \A n \in Outages : n > watch.outage => reports[n] = "none"
  /\ \A n \in Outages : reports[n] \in {"checked", "sent"} =>
       n \in backs \/ (watch.down /\ watch.reported /\ n = watch.outage)

Speaks(i) == events[i].of = watch.session /\ events[i].kind # "connect"
LastSpeaks(i) == Speaks(i) /\ \A k \in DOMAIN events : k > i => ~Speaks(k)
Line ==
  ~astray /\ ~watch.stoodDown =>
    /\ owner.at # "in" => watch.down \/ slipped
    /\ watch.session # 0 /\ owner.at # "leaving" =>
         /\ (\A i \in DOMAIN events : ~Speaks(i)) => slipped \/ watch.down = (dg[watch.session].conn # "ready")
         /\ \A i \in DOMAIN events : LastSpeaks(i) =>
              (events[i].kind = "ready" <=> dg[watch.session].conn = "ready")

WatchInv == WTypes /\ Reads /\ Ahead /\ Out /\ Left /\ Past /\ Line

LEMMA WatchInvInit ==
  ASSUME WatchAssumption, WatchInit
  PROVE  WatchInv
<1>1. /\ watch \in WatchState /\ watch.session = 0 /\ watch.down /\ watch.outage = 1
      /\ ~watch.reported /\ ~watch.stoodDown
  BY DEF WatchAssumption, WatchInit, WatchState, Outages
<1>2. /\ dg \in [Logins -> Session]
      /\ \A s \in Logins : dg[s].conn = "none" /\ ~dg[s].refused /\ ~dg[s].loggedOut
  BY DEF WatchInit, Session, Conns
<1>3. owner \in Owner /\ owner.at = "out" /\ owner.login = 0
  BY DEF WatchAssumption, WatchInit, Owner
<1>4. events = <<>> /\ told = {} /\ backs = {} /\ astray = FALSE /\ slipped = FALSE
  BY DEF WatchInit
<1>5. /\ reports \in [Outages -> Fates]
      /\ \A n \in Outages : reports[n] = IF n = 1 THEN "set" ELSE "none"
  BY DEF WatchInit, Fates
<1>6. WTypes
  <2>1. watchLeft \in [WatchKinds -> Nat]
    BY DEF WatchInit, WatchAssumption
  <2>2. events \in Seq(WatchEvent)
    BY <1>4
  <2> QED
    BY <1>1, <1>2, <1>3, <1>4, <1>5, <2>1, <2>2 DEF WTypes
<1>7. Reads
  BY <1>1, <1>3 DEF Reads
<1>8. \A s \in Logins : ~Used(s)
  BY <1>3 DEF Used, Logins
<1>9. Ahead /\ Out
  BY <1>2, <1>4, <1>8 DEF Ahead, Out, Fresh
<1>10. Left
  BY <1>3 DEF Left, LeftBefore, LeftLast, LeftOpen, LeftFailed, Logins
<1>11. Past
  BY <1>1, <1>5 DEF Past, Outages
<1>12. Line
  BY <1>1, <1>3 DEF Line
<1> QED
  BY <1>6, <1>7, <1>9, <1>10, <1>11, <1>12 DEF WatchInv

LEMMA WatchInvTells ==
  ASSUME WatchAssumption, WatchInv
  PROVE  WatchTypeOK /\ WatchTells
<1> USE DEF WatchInv
<1>1. WatchTypeOK
  BY DEF WTypes, Reads, WatchState, Session, Conns, Owner, Fates, Outages, WatchTypeOK,
         WatchAssumption
<1>2. ASSUME ~astray, ~watch.stoodDown, ~slipped
      PROVE  /\ owner.at # "in" => watch.down
             /\ events = <<>> /\ owner.at # "leaving" =>
                  watch.down = ~(watch.session # 0 /\ dg[watch.session].conn = "ready")
  BY <1>2 DEF Line, WTypes, WatchState, Reads
<1>3. \A n \in Outages : reports[n] \in {"checked", "sent"} =>
        n \in backs \/ (watch.down /\ n = watch.outage)
  BY DEF Past
<1>4. ASSUME NEW s \in Logins, dg[s].refused
      PROVE  /\ dg[s].conn = "closed"
             /\ \/ s \in told \/ astray \/ dg[s].loggedOut
                \/ s = owner.login /\ owner.at \in {"failed", "stopping", "stopped"}
  BY <1>4 DEF Out, Ahead, Left, LeftBefore, Parted, Logins, WTypes, Owner, LeftLast,
     LeftOpen, Used
<1> QED
  BY <1>1, <1>2, <1>3, <1>4 DEF WatchTells

(* What discordgo emits comes after what waits.                            *)
LEMMA EmitsMore ==
  ASSUME NEW s \in Logins, NEW kinds \in Seq(EventKinds), events \in Seq(WatchEvent),
         Emits(s, kinds)
  PROVE  /\ events' \in Seq(WatchEvent) /\ Len(events') = Len(events) + Len(kinds)
         /\ \A i \in 1 .. Len(events) : events'[i] = events[i]
         /\ \A k \in 1 .. Len(kinds) :
              events'[Len(events) + k] = [kind |-> kinds[k], of |-> s]
<1> DEFINE more == [i \in 1 .. Len(kinds) |-> [kind |-> kinds[i], of |-> s]]
<1>1. Len(kinds) \in Nat /\ \A i \in 1 .. Len(kinds) : kinds[i] \in EventKinds
  OBVIOUS
<1>2. \A i \in 1 .. Len(kinds) : [kind |-> kinds[i], of |-> s] \in WatchEvent
  BY <1>1 DEF WatchEvent
<1>3. more \in [1 .. Len(kinds) -> WatchEvent]
  BY <1>2
<1>4. /\ more \in Seq(WatchEvent) /\ Len(more) = Len(kinds)
      /\ \A k \in 1 .. Len(kinds) : more[k] = [kind |-> kinds[k], of |-> s]
  BY <1>1, <1>3, IsASeq
<1>5. events' = events \o more
  BY DEF Emits
<1> HIDE DEF more
<1>6. /\ events \o more \in Seq(WatchEvent) /\ Len(events \o more) = Len(events) + Len(more)
  BY <1>4, ConcatProperties
<1>7. Len(events) \in Nat
  OBVIOUS
<1>8. ASSUME NEW i \in 1 .. Len(events)
      PROVE  (events \o more)[i] = events[i]
  BY <1>1, <1>4, <1>7, ConcatProperties
<1>9. ASSUME NEW k \in 1 .. Len(more)
      PROVE  (events \o more)[Len(events) + k] = more[k]
  BY <1>1, <1>4, <1>7, ConcatProperties
<1> QED
  BY <1>4, <1>5, <1>6, <1>8, <1>9

LEMMA EmitsNone ==
  ASSUME NEW s \in Logins, events \in Seq(WatchEvent), Emits(s, <<>>)
  PROVE  events' = events
<1>1. <<>> \in Seq(EventKinds) /\ Len(<<>>) = 0
  OBVIOUS
<1>2. /\ events' \in Seq(WatchEvent) /\ Len(events') = Len(events)
      /\ \A i \in 1 .. Len(events) : events'[i] = events[i]
  <2>1. events' \in Seq(WatchEvent) /\ Len(events') = Len(events) + 0
    BY <1>1, EmitsMore
  <2>2. \A i \in 1 .. Len(events) : events'[i] = events[i]
    BY <1>1, EmitsMore
  <2> QED
    BY <2>1, <2>2
<1> QED
  BY <1>2, SeqEqual

LEMMA EmitsOne ==
  ASSUME NEW s \in Logins, NEW k \in EventKinds, events \in Seq(WatchEvent), Emits(s, <<k>>)
  PROVE  /\ events' \in Seq(WatchEvent) /\ Len(events') = Len(events) + 1
         /\ \A i \in 1 .. Len(events) : events'[i] = events[i]
         /\ events'[Len(events) + 1] = [kind |-> k, of |-> s]
<1>1. <<k>> \in Seq(EventKinds) /\ Len(<<k>>) = 1 /\ <<k>>[1] = k /\ 1 \in 1 .. Len(<<k>>)
  OBVIOUS
<1>2. /\ events' \in Seq(WatchEvent) /\ Len(events') = Len(events) + Len(<<k>>)
      /\ \A i \in 1 .. Len(events) : events'[i] = events[i]
      /\ \A j \in 1 .. Len(<<k>>) : events'[Len(events) + j] = [kind |-> <<k>>[j], of |-> s]
  BY <1>1, EmitsMore
<1> QED
  BY <1>1, <1>2

LEMMA EmitsTwo ==
  ASSUME NEW s \in Logins, events \in Seq(WatchEvent), Emits(s, <<"ready", "connect">>)
  PROVE  /\ events' \in Seq(WatchEvent) /\ Len(events') = Len(events) + 2
         /\ \A i \in 1 .. Len(events) : events'[i] = events[i]
         /\ events'[Len(events) + 1] = [kind |-> "ready", of |-> s]
         /\ events'[Len(events) + 2] = [kind |-> "connect", of |-> s]
<1> DEFINE ks == <<"ready", "connect">>
<1>1. /\ ks \in Seq(EventKinds) /\ Len(ks) = 2 /\ ks[1] = "ready" /\ ks[2] = "connect"
      /\ 1 \in 1 .. Len(ks) /\ 2 \in 1 .. Len(ks)
  BY DEF EventKinds
<1>2. Emits(s, ks)
  OBVIOUS
<1> HIDE DEF ks
<1>3. /\ events' \in Seq(WatchEvent) /\ Len(events') = Len(events) + Len(ks)
      /\ \A i \in 1 .. Len(events) : events'[i] = events[i]
      /\ \A j \in 1 .. Len(ks) : events'[Len(events) + j] = [kind |-> ks[j], of |-> s]
  BY <1>1, <1>2, EmitsMore
<1> QED
  BY <1>1, <1>3

(* A handler's run takes its event from among those that wait.             *)
LEMMA HandlesOne ==
  ASSUME NEW i \in DOMAIN events, events \in Seq(WatchEvent), Handles(i)
  PROVE  /\ events' \in Seq(WatchEvent) /\ Len(events') = Len(events) - 1
         /\ \A k \in 1 .. (i - 1) : events'[k] = events[k]
         /\ \A k \in i .. (Len(events) - 1) : events'[k] = events[k + 1]
         /\ i \in 1 .. Len(events) /\ DOMAIN events = 1 .. Len(events) /\ Len(events) \in Nat
         /\ i = 1 => astray' = astray
         /\ i # 1 => astray'
<1>1. i \in 1 .. Len(events) /\ DOMAIN events = 1 .. Len(events) /\ Len(events) \in Nat
  OBVIOUS
<1>2. events' = LeftAt(events, i)
  BY DEF Handles, LeftAt
<1>3. /\ LeftAt(events, i) \in Seq(WatchEvent) /\ Len(LeftAt(events, i)) = Len(events) - 1
      /\ \A k \in 1 .. (i - 1) : LeftAt(events, i)[k] = events[k]
      /\ \A k \in i .. (Len(events) - 1) : LeftAt(events, i)[k] = events[k + 1]
  BY <1>1, OneOut
<1>5. (i = 1 => astray' = astray) /\ (i # 1 => astray')
  BY DEF Handles
<1> QED
  BY <1>1, <1>2, <1>3, <1>5

(* A session given another connection is otherwise as it was.              *)
LEMMA ConnSets ==
  ASSUME dg \in [Logins -> Session], NEW s \in Logins, NEW c \in Conns, dg' = Conn(s, c)
  PROVE  /\ dg' \in [Logins -> Session]
         /\ \A t \in Logins : t # s => dg'[t] = dg[t]
         /\ dg'[s].conn = c /\ dg'[s].up = dg[s].up /\ dg'[s].refused = dg[s].refused
         /\ dg'[s].reconnects = dg[s].reconnects /\ dg'[s].loggedOut = dg[s].loggedOut
<1>1. dg[s] \in Session /\ [dg[s] EXCEPT !.conn = c] \in Session
  BY DEF Session
<1>2. dg' = [dg EXCEPT ![s] = [dg[s] EXCEPT !.conn = c]]
  BY DEF Conn
<1>3. dg'[s] = [dg[s] EXCEPT !.conn = c]
  BY <1>2
<1>4. dg' \in [Logins -> Session] /\ \A t \in Logins : t # s => dg'[t] = dg[t]
  BY <1>1, <1>2
<1> QED
  BY <1>1, <1>3, <1>4 DEF Session

(* A connection cut off is closed, or tried again where the session may.   *)
LEMMA CutOffSets ==
  ASSUME dg \in [Logins -> Session], NEW s \in Logins, dg' = CutOff(s, dg)
  PROVE  /\ dg' \in [Logins -> Session]
         /\ \A t \in Logins : t # s => dg'[t] = dg[t]
         /\ dg'[s].conn = IF dg[s].reconnects THEN "retrying" ELSE "closed"
         /\ dg'[s].up = dg[s].up /\ dg'[s].refused = dg[s].refused
         /\ dg'[s].reconnects = dg[s].reconnects /\ dg'[s].loggedOut = dg[s].loggedOut
<1>1. PICK c \in Conns : c = IF dg[s].reconnects THEN "retrying" ELSE "closed"
  BY DEF Conns
<1>2. dg' = Conn(s, c)
  BY <1>1 DEF CutOff, Conn
<1> QED
  BY <1>1, <1>2, ConnSets

LEMMA RefusedSets ==
  ASSUME dg \in [Logins -> Session], NEW s \in Logins, dg' = CutOff(s, RefusedNow(s))
  PROVE  /\ dg' \in [Logins -> Session]
         /\ \A t \in Logins : t # s => dg'[t] = dg[t]
         /\ dg'[s].conn = "closed" /\ dg'[s].up = dg[s].up /\ dg'[s].refused
         /\ ~dg'[s].reconnects /\ dg'[s].loggedOut = dg[s].loggedOut
<1> DEFINE d == [dg[s] EXCEPT !.refused = TRUE, !.reconnects = FALSE]
<1>1. dg[s] \in Session /\ d \in Session
  BY DEF Session
<1>2. /\ d.conn = dg[s].conn /\ d.up = dg[s].up /\ d.refused /\ ~d.reconnects
      /\ d.loggedOut = dg[s].loggedOut
  BY <1>1 DEF Session
<1>3. RefusedNow(s) = [dg EXCEPT ![s] = d]
  BY DEF RefusedNow
<1> HIDE DEF d
<1>4. RefusedNow(s)[s] = d /\ RefusedNow(s) \in [Logins -> Session]
  BY <1>1, <1>3
<1>5. dg' = [RefusedNow(s) EXCEPT ![s] = [d EXCEPT !.conn = "closed"]]
  BY <1>2, <1>4 DEF CutOff
<1>6. [d EXCEPT !.conn = "closed"] \in Session
  BY <1>1 DEF Session, Conns
<1>7. dg'[s] = [d EXCEPT !.conn = "closed"] /\ dg' \in [Logins -> Session]
  BY <1>4, <1>5, <1>6
<1>8. \A t \in Logins : t # s => dg'[t] = dg[t]
  BY <1>3, <1>4, <1>5
<1>9. dg'[s].conn = "closed" /\ dg'[s].up = d.up /\ dg'[s].refused = d.refused
      /\ dg'[s].reconnects = d.reconnects /\ dg'[s].loggedOut = d.loggedOut
  BY <1>1, <1>7 DEF Session
<1> QED
  BY <1>2, <1>7, <1>8, <1>9

(* A session that may reconnect no more, logged out or only given up.      *)
LEMMA GivenUpSets ==
  ASSUME dg \in [Logins -> Session], NEW s \in Logins,
         dg' = [dg EXCEPT ![s].reconnects = FALSE]
  PROVE  /\ dg' \in [Logins -> Session]
         /\ \A t \in Logins : t # s => dg'[t] = dg[t]
         /\ dg'[s].conn = dg[s].conn /\ dg'[s].up = dg[s].up /\ dg'[s].refused = dg[s].refused
         /\ ~dg'[s].reconnects /\ dg'[s].loggedOut = dg[s].loggedOut
<1>1. dg[s] \in Session /\ [dg[s] EXCEPT !.reconnects = FALSE] \in Session
  BY DEF Session
<1>2. dg' = [dg EXCEPT ![s] = [dg[s] EXCEPT !.reconnects = FALSE]]
  OBVIOUS
<1>3. dg'[s] = [dg[s] EXCEPT !.reconnects = FALSE]
  BY <1>2
<1>4. dg' \in [Logins -> Session] /\ \A t \in Logins : t # s => dg'[t] = dg[t]
  BY <1>1, <1>2
<1> QED
  BY <1>1, <1>3, <1>4 DEF Session

LEMMA LoggedOutSets ==
  ASSUME dg \in [Logins -> Session], NEW s \in Logins,
         dg' = [dg EXCEPT ![s].loggedOut = TRUE]
  PROVE  /\ dg' \in [Logins -> Session]
         /\ \A t \in Logins : t # s => dg'[t] = dg[t]
         /\ dg'[s].conn = dg[s].conn /\ dg'[s].up = dg[s].up /\ dg'[s].refused = dg[s].refused
         /\ dg'[s].reconnects = dg[s].reconnects /\ dg'[s].loggedOut
<1>1. /\ dg[s] \in Session
      /\ [dg[s] EXCEPT !.loggedOut = TRUE] \in Session
  BY DEF Session
<1>2. dg' = [dg EXCEPT ![s] = [dg[s] EXCEPT !.loggedOut = TRUE]]
  OBVIOUS
<1>3. dg'[s] = [dg[s] EXCEPT !.loggedOut = TRUE]
  BY <1>2
<1>4. dg' \in [Logins -> Session] /\ \A t \in Logins : t # s => dg'[t] = dg[t]
  BY <1>1, <1>2
<1> QED
  BY <1>1, <1>3, <1>4 DEF Session

LEMMA UpSets ==
  ASSUME dg \in [Logins -> Session], NEW s \in Logins, dg' = [dg EXCEPT ![s].up = TRUE]
  PROVE  /\ dg' \in [Logins -> Session]
         /\ \A t \in Logins : t # s => dg'[t] = dg[t]
         /\ dg'[s].conn = dg[s].conn /\ dg'[s].up /\ dg'[s].refused = dg[s].refused
         /\ dg'[s].reconnects = dg[s].reconnects /\ dg'[s].loggedOut = dg[s].loggedOut
<1>1. dg[s] \in Session /\ [dg[s] EXCEPT !.up = TRUE] \in Session
  BY DEF Session
<1>2. dg' = [dg EXCEPT ![s] = [dg[s] EXCEPT !.up = TRUE]]
  OBVIOUS
<1>3. dg'[s] = [dg[s] EXCEPT !.up = TRUE]
  BY <1>2
<1>4. dg' \in [Logins -> Session] /\ \A t \in Logins : t # s => dg'[t] = dg[t]
  BY <1>1, <1>2
<1> QED
  BY <1>1, <1>3, <1>4 DEF Session

(* An outage that starts is the next, with a report set; one on goes on.   *)
LEMMA OutageStarts ==
  ASSUME WatchAssumption, WTypes, SetsReport(watch)
  PROVE  /\ Started(watch) \in WatchState /\ reports' \in [Outages -> Fates]
         /\ Started(watch).session = watch.session
         /\ Started(watch).stoodDown = watch.stoodDown
         /\ Started(watch).reported = watch.reported
         /\ ~watch.stoodDown => Started(watch).down
         /\ watch.down => Started(watch).down
         /\ \/ Started(watch) = watch /\ reports' = reports
            \/ /\ ~watch.down /\ Started(watch).outage = watch.outage + 1
               /\ \A n \in Outages :
                    reports'[n] = IF n = watch.outage + 1 THEN "set" ELSE reports[n]
<1>1. watch \in WatchState /\ reports \in [Outages -> Fates]
  BY DEF WTypes
<1>2. MaxOutages \in Nat /\ watch.outage \in 1 .. MaxOutages
  BY <1>1 DEF WatchAssumption, WatchState, Outages
<1>3. CASE watch.stoodDown \/ watch.down
  BY <1>1, <1>3 DEF Started, SetsReport
<1>4. CASE ~watch.stoodDown /\ ~watch.down
  <2>1. Started(watch) = [watch EXCEPT !.down = TRUE, !.outage = watch.outage + 1]
    BY <1>4 DEF Started
  <2>2. Started(watch).outage = watch.outage + 1
    BY <1>1, <2>1 DEF WatchState
  <2>3. Started(watch).outage <= MaxOutages
    BY DEF SetsReport
  <2>4. watch.outage + 1 \in Outages
    BY <1>2, <2>2, <2>3 DEF Outages
  <2>5. /\ Started(watch) \in WatchState /\ Started(watch).session = watch.session
        /\ Started(watch).stoodDown = watch.stoodDown
        /\ Started(watch).reported = watch.reported /\ Started(watch).down
    BY <1>1, <2>1, <2>4 DEF WatchState
  <2>6. Started(watch) # watch
    BY <1>2, <2>2
  <2>7. reports' = [reports EXCEPT ![watch.outage + 1] = "set"]
    BY <2>2, <2>6 DEF SetsReport
  <2>8. reports' \in [Outages -> Fates]
    BY <1>1, <2>4, <2>7 DEF Fates
  <2>9. \A n \in Outages : reports'[n] = IF n = watch.outage + 1 THEN "set" ELSE reports[n]
    BY <1>1, <2>7
  <2> QED
    BY <1>4, <2>2, <2>5, <2>8, <2>9
<1> QED
  BY <1>3, <1>4

LEMMA Disturbs ==
  ASSUME WTypes, NEW k \in WatchKinds, Disturbed(k)
  PROVE  watchLeft' \in [WatchKinds -> Nat]
  BY DEF WTypes, Disturbed

(* A handler's bookkeeping, whatever it does.                              *)
LEMMA HandlesTyped ==
  ASSUME WTypes, NEW i \in DOMAIN events, Handles(i)
  PROVE  events' \in Seq(WatchEvent) /\ astray' \in BOOLEAN /\ watchLeft' \in [WatchKinds -> Nat]
         /\ events[i] \in WatchEvent
<1>1. events \in Seq(WatchEvent) /\ astray \in BOOLEAN /\ watchLeft \in [WatchKinds -> Nat]
  BY DEF WTypes
<1>2. events' \in Seq(WatchEvent)
  BY <1>1, HandlesOne
<1>3. events[i] \in WatchEvent
  BY <1>1
<1>4. CASE i = 1
  BY <1>1, <1>2, <1>3, <1>4 DEF Handles
<1>5. CASE i # 1
  BY <1>2, <1>3, <1>5, Disturbs DEF Handles, WatchKinds
<1> QED
  BY <1>4, <1>5

(* The end of a session: its connection, where it has one, and the event.  *)
HasConn(s) == dg[s].conn \in {"bare", "ready"}
LEMMA CloseSets ==
  ASSUME dg \in [Logins -> Session], events \in Seq(WatchEvent), NEW s \in Logins, ClosesConn(s)
  PROVE  /\ dg' \in [Logins -> Session] /\ events' \in Seq(WatchEvent)
         /\ \A t \in Logins : t # s => dg'[t] = dg[t]
         /\ dg'[s].up = dg[s].up /\ dg'[s].refused = dg[s].refused
         /\ dg'[s].reconnects = dg[s].reconnects /\ dg'[s].loggedOut = dg[s].loggedOut
         /\ dg'[s].conn = IF HasConn(s) THEN "closed" ELSE dg[s].conn
         /\ HasConn(s) => /\ Len(events') = Len(events) + 1
                          /\ \A i \in 1 .. Len(events) : events'[i] = events[i]
                          /\ events'[Len(events) + 1] = [kind |-> "disconnect", of |-> s]
         /\ ~HasConn(s) => events' = events
  BY ConnSets, EmitsOne, EmitsNone DEF ClosesConn, HasConn, Conns, EventKinds

LEMMA WTypesStep ==
  ASSUME WatchAssumption, WTypes, Reads, WatchNext
  PROVE  WTypes'
<1>0. /\ watch \in WatchState /\ dg \in [Logins -> Session] /\ owner \in Owner
      /\ events \in Seq(WatchEvent) /\ reports \in [Outages -> Fates]
      /\ told \subseteq Logins /\ backs \subseteq Outages /\ astray \in BOOLEAN
      /\ watchLeft \in [WatchKinds -> Nat] /\ MaxLogins \in Nat /\ watch.outage \in Outages /\ slipped \in BOOLEAN
  BY DEF WTypes, WatchAssumption, WatchState
<1>k. EventKinds = {"ready", "connect", "disconnect"} /\ "invalid" \in WatchKinds
      /\ "fail" \in WatchKinds /\ "drop" \in WatchKinds /\ "refuse" \in WatchKinds
      /\ "stop" \in WatchKinds /\ {"none", "opening", "bare", "ready", "closed"} \subseteq Conns
  BY DEF EventKinds, WatchKinds, Conns
<1>w. Unwatched(watch) \in WatchState
  BY SMTT(60), <1>0 DEF Unwatched, WatchState
<1>o. owner.at # "out" => owner.login \in Logins
  BY <1>0 DEF Reads, Owner, Logins
<1>1. CASE Open
  <2>1. owner.login + 1 \in Logins
    BY <1>0, <1>1 DEF Open, Owner, Logins
  <2>2. dg' \in [Logins -> Session]
    BY <1>0, <1>1, <1>k, <2>1, ConnSets DEF Open
  <2>3. owner' \in Owner
    BY <1>1, <2>1 DEF Open, Owner, Logins
  <2>4. watch' \in WatchState
    <3>1. watch' = [watch EXCEPT !.session = owner.login + 1]
      BY <1>1 DEF Open
    <3>2. owner.login + 1 \in 0 .. MaxLogins
      BY <1>0, <2>1 DEF Logins
    <3> QED
      BY <1>0, <3>1, <3>2 DEF WatchState
  <2> QED
    BY <1>0, <1>1, <2>2, <2>3, <2>4 DEF Open, WTypes
<1>2. CASE OpenEnds
  <2>1. owner.login \in Logins
    BY <1>2, <1>o DEF OpenEnds
  <2>2. dg' \in [Logins -> Session]
    BY ZenonT(60), <1>0, <1>2, <1>k, <2>1, ConnSets, RefusedSets DEF OpenEnds
  <2>3. events' \in Seq(WatchEvent)
    BY ZenonT(60), <1>0, <1>2, <1>k, <2>1, EmitsOne DEF OpenEnds
  <2>4. owner' \in Owner
    BY <1>0, <1>2 DEF OpenEnds, Owner
  <2>5. watchLeft' \in [WatchKinds -> Nat]
    BY <1>0, <1>2, <1>k, Disturbs DEF OpenEnds
  <2> QED
    BY <1>0, <1>2, <2>2, <2>3, <2>4, <2>5 DEF OpenEnds, Reporting, WTypes
<1>3. CASE GiveUp
  BY <1>0, <1>3, <1>o, <1>w, GivenUpSets DEF GiveUp, WTypes
<1>4. CASE CloseFailed
  BY <1>0, <1>4, <1>o, CloseSets DEF CloseFailed, Owner, FailedOpen, Reporting, WTypes
<1>5. CASE LogOut
  <2>1. owner.login \in Logins
    BY <1>5, <1>o DEF LogOut
  <2>2. dg' \in [Logins -> Session]
    BY <1>0, <1>5, <2>1, LoggedOutSets DEF LogOut
  <2>3. Started(watch) \in WatchState /\ reports' \in [Outages -> Fates]
    BY <1>5, OutageStarts DEF LogOut
  <2>4. watch' \in WatchState
    BY <1>5, <2>3 DEF LogOut
  <2>5. owner' \in Owner
    BY <1>0, <1>5 DEF LogOut, Owner
  <2> QED
    BY <1>0, <1>5, <2>2, <2>3, <2>4, <2>5 DEF LogOut, WTypes
<1>6. CASE CloseLeft \/ CloseLast
  BY ZenonT(60), <1>0, <1>6, <1>o, CloseSets DEF CloseLeft, CloseLast, Owner, Reporting, WTypes
<1>7. CASE StandDown
  BY <1>0, <1>7, <1>k, Disturbs DEF StandDown, Owner, WatchState, WTypes
<1>8. ASSUME NEW s \in Logins, ConnLost(s)
      PROVE  WTypes'
  BY <1>0, <1>8, <1>k, CutOffSets, EmitsOne, Disturbs DEF ConnLost, Reporting, WTypes
<1>9. ASSUME NEW s \in Logins, ComeBack(s)
      PROVE  WTypes'
  BY <1>0, <1>9, <1>k, ConnSets, EmitsOne, EmitsTwo, Disturbs DEF ComeBack, Reporting,
     WTypes
<1>10. ASSUME NEW s \in Logins, Identified(s)
       PROVE  WTypes'
  BY <1>0, <1>k, <1>10, ConnSets, EmitsOne DEF Identified, Reporting, WTypes
<1>11. ASSUME NEW s \in Logins, Closed4004(s)
       PROVE  WTypes'
  BY ZenonT(30), <1>0, <1>k, <1>11, RefusedSets, EmitsOne, Disturbs DEF Closed4004, Reporting, WTypes
<1>12. ASSUME NEW i \in DOMAIN events, Online(i)
       PROVE  WTypes'
  <2>1. Handles(i)
    BY <1>12 DEF Online
  <2>2. events' \in Seq(WatchEvent) /\ astray' \in BOOLEAN /\ watchLeft' \in [WatchKinds -> Nat]
        /\ events[i].of \in Logins
    BY <2>1, HandlesTyped DEF WatchEvent
  <2>3. dg' \in [Logins -> Session]
    BY <1>0, <1>12, <2>2, UpSets DEF Online
  <2>4. watch' \in WatchState
    BY <1>0, <1>12 DEF Online, WatchState
  <2>5. backs' \subseteq Outages /\ slipped' \in BOOLEAN
    BY <1>0, <1>12 DEF Online
  <2> QED
    BY <1>0, <1>12, <2>2, <2>3, <2>4, <2>5 DEF Online, WTypes
<1>13. ASSUME NEW i \in DOMAIN events, WentOffline(i)
       PROVE  WTypes'
  BY <1>0, <1>13, HandlesTyped, OutageStarts DEF WentOffline, WTypes
<1>14. ASSUME NEW i \in DOMAIN events, CameBack(i)
       PROVE  WTypes'
  BY <1>0, <1>k, <1>14, HandlesTyped, ConnSets DEF CameBack, WatchEvent, LoggedOutAgain,
     Reporting, WTypes
<1>15. ASSUME NEW n \in Outages, FireReport(n) \/ CaptureError(n)
       PROVE  WTypes'
  <2>1. reports' \in [Outages -> Fates]
    BY <1>0, <1>15 DEF FireReport, CaptureError, Fates
  <2>2. watch' \in WatchState
    BY <1>0, <1>15 DEF FireReport, CaptureError, WatchState
  <2> QED
    BY <1>0, <1>15, <2>1, <2>2 DEF FireReport, CaptureError, WTypes
<1> QED
  BY <1>1, <1>2, <1>3, <1>4, <1>5, <1>6, <1>7, <1>8, <1>9, <1>10, <1>11, <1>12, <1>13, <1>14,
     <1>15
  DEF WatchNext, OwnerSteps, Reports, EventHandlers, Discordgo

(* What waits goes on waiting, with more of one session behind it.         *)
More(s, kinds) ==
  /\ events' \in Seq(WatchEvent) /\ Len(events) \in Nat /\ Len(events') \in Nat
  /\ DOMAIN events = 1 .. Len(events) /\ DOMAIN events' = 1 .. Len(events')
  /\ Len(events) < Len(events')
  /\ \A i \in 1 .. Len(events) : events'[i] = events[i]
  /\ \A i \in DOMAIN events' : i > Len(events) => events'[i].of = s /\ events'[i].kind \in kinds
LEMMA OneMore ==
  ASSUME WTypes, NEW s \in Logins, NEW k \in EventKinds, Emits(s, <<k>>)
  PROVE  /\ More(s, {k}) /\ Len(events') = Len(events) + 1
         /\ events'[Len(events')].of = s /\ events'[Len(events')].kind = k
<1>1. events \in Seq(WatchEvent) /\ Len(events) \in Nat
  BY DEF WTypes
<1>2. /\ events' \in Seq(WatchEvent) /\ Len(events') = Len(events) + 1
      /\ \A i \in 1 .. Len(events) : events'[i] = events[i]
      /\ events'[Len(events) + 1] = [kind |-> k, of |-> s]
  BY <1>1, EmitsOne
<1>3. \A i \in DOMAIN events' : i > Len(events) => i = Len(events) + 1
  BY <1>1, <1>2
<1> QED
  BY SMTT(30), <1>1, <1>2, <1>3 DEF More

LEMMA TwoMore ==
  ASSUME WTypes, NEW s \in Logins, Emits(s, <<"ready", "connect">>)
  PROVE  /\ More(s, {"ready", "connect"}) /\ Len(events') = Len(events) + 2
         /\ events'[Len(events) + 1].kind = "ready" /\ events'[Len(events) + 1].of = s
         /\ events'[Len(events) + 2].kind = "connect" /\ events'[Len(events) + 2].of = s
<1>1. events \in Seq(WatchEvent) /\ Len(events) \in Nat
  BY DEF WTypes
<1>2. /\ events' \in Seq(WatchEvent) /\ Len(events') = Len(events) + 2
      /\ \A i \in 1 .. Len(events) : events'[i] = events[i]
      /\ events'[Len(events) + 1] = [kind |-> "ready", of |-> s]
      /\ events'[Len(events) + 2] = [kind |-> "connect", of |-> s]
  BY <1>1, EmitsTwo
<1>3. \A i \in DOMAIN events' : i > Len(events) => i = Len(events) + 1 \/ i = Len(events) + 2
  BY <1>1, <1>2
<1> QED
  BY <1>1, <1>2, <1>3 DEF More

(* What discordgo and Discord do to a session that has been opened.        *)
SessionMoves(s) == ConnLost(s) \/ ComeBack(s) \/ Identified(s) \/ Closed4004(s)
LEMMA MovesOne ==
  ASSUME WTypes, Out, NEW s \in Logins, SessionMoves(s)
  PROVE  /\ UNCHANGED <<watch, owner, reports, backs, slipped>> /\ told \subseteq told'
         /\ (astray => astray') /\ dg' \in [Logins -> Session]
         /\ \A t \in Logins : t # s => dg'[t] = dg[t]
         /\ dg'[s].up = dg[s].up /\ dg'[s].loggedOut = dg[s].loggedOut
         /\ dg[s].conn \in {"bare", "ready", "retrying"} /\ ~dg[s].refused
         /\ dg'[s].conn \in {"bare", "ready", "retrying", "closed"}
         /\ dg'[s].refused => dg'[s].conn = "closed" /\ ~dg'[s].reconnects
         /\ dg'[s].reconnects => dg[s].reconnects
         /\ More(s, EventKinds)
<1>0. dg \in [Logins -> Session] /\ {"ready", "bare"} \subseteq Conns
      /\ EventKinds = {"ready", "connect", "disconnect"}
  BY DEF WTypes, Conns, EventKinds
<1>1. ASSUME dg[s].conn \in {"bare", "ready", "retrying"}
      PROVE  ~dg[s].refused
  BY <1>1 DEF Out
<1>2. CASE ConnLost(s)
  BY ZenonT(30), <1>0, <1>1, <1>2, OneMore, CutOffSets DEF ConnLost, Reporting, More
<1>3. CASE ComeBack(s)
  BY <1>0, <1>1, <1>3, OneMore, TwoMore, ConnSets DEF ComeBack, Reporting, More
<1>4. CASE Identified(s)
  BY ZenonT(30), <1>0, <1>1, <1>4, OneMore, ConnSets DEF Identified, Reporting, More
<1>5. CASE Closed4004(s)
  BY ZenonT(30), <1>0, <1>1, <1>5, OneMore, RefusedSets DEF Closed4004, Reporting, More
<1> QED
  BY <1>2, <1>3, <1>4, <1>5 DEF SessionMoves

(* What a handler does to the sessions.                                    *)
Handler(i) == Online(i) \/ WentOffline(i) \/ CameBack(i)
LEMMA HandlerRuns ==
  ASSUME WatchAssumption, WTypes, NEW i \in DOMAIN events, Handler(i)
  PROVE  /\ UNCHANGED <<owner, told>> /\ (astray => astray') /\ Handles(i)
         /\ events[i] \in WatchEvent
         /\ watch'.session = watch.session /\ watch'.stoodDown = watch.stoodDown
         /\ dg' \in [Logins -> Session]
         /\ \A t \in Logins :
              /\ dg[t].up => dg'[t].up
              /\ dg'[t].refused = dg[t].refused /\ dg'[t].reconnects = dg[t].reconnects
              /\ dg'[t].loggedOut = dg[t].loggedOut
              /\ \/ dg'[t].conn = dg[t].conn
                 \/ dg[t].loggedOut /\ dg[t].conn \in {"bare", "ready"} /\ dg'[t].conn = "closed"
<1>0. dg \in [Logins -> Session] /\ watch \in WatchState /\ "closed" \in Conns
  BY DEF WTypes, Conns
<1>1. Handles(i) /\ UNCHANGED <<owner, told>>
  BY DEF Handler, Online, WentOffline, CameBack
<1>2. events[i] \in WatchEvent /\ events[i].of \in Logins
  BY <1>1, HandlesTyped DEF WatchEvent
<1>3. astray => astray'
  BY <1>1 DEF Handles
<1>4. CASE Online(i)
  BY ZenonT(60), <1>0, <1>1, <1>2, <1>3, <1>4, UpSets DEF Online, WatchState
<1>5. CASE WentOffline(i)
  BY <1>0, <1>1, <1>2, <1>3, <1>5, OutageStarts DEF WentOffline
<1>6. CASE CameBack(i)
  BY <1>0, <1>1, <1>2, <1>3, <1>6, ConnSets DEF CameBack, Reporting, LoggedOutAgain
<1> QED
  BY <1>4, <1>5, <1>6 DEF Handler

(* The others wait on.                                                     *)
LEMMA OthersWait ==
  ASSUME WTypes, NEW i \in DOMAIN events, Handles(i)
  PROVE  /\ \A k \in DOMAIN events' : \E m \in DOMAIN events : m # i /\ events'[k] = events[m]
         /\ \A m \in DOMAIN events : m # i => \E k \in DOMAIN events' : events'[k] = events[m]
<1>0. events \in Seq(WatchEvent)
  BY DEF WTypes
<1>a. /\ events' \in Seq(WatchEvent) /\ Len(events') = Len(events) - 1
      /\ \A j \in 1 .. (i - 1) : events'[j] = events[j]
      /\ \A j \in i .. (Len(events) - 1) : events'[j] = events[j + 1]
      /\ i \in 1 .. Len(events) /\ DOMAIN events = 1 .. Len(events) /\ Len(events) \in Nat
  BY <1>0, HandlesOne
<1>1. /\ DOMAIN events' = 1 .. (Len(events) - 1)
      /\ \A j \in 1 .. (i - 1) : events'[j] = events[j]
      /\ \A j \in i .. (Len(events) - 1) : events'[j] = events[j + 1]
      /\ i \in 1 .. Len(events) /\ DOMAIN events = 1 .. Len(events) /\ Len(events) \in Nat
  BY <1>a
<1>2. ASSUME NEW k \in DOMAIN events'
      PROVE  \E m \in DOMAIN events : m # i /\ events'[k] = events[m]
  BY <1>1
<1>3. ASSUME NEW m \in DOMAIN events, m # i
      PROVE  \E k \in DOMAIN events' : events'[k] = events[m]
  <2>1. m \in 1 .. Len(events)
    BY <1>1
  <2>2. CASE m < i
    BY <1>1, <2>1, <2>2
  <2>3. CASE m > i
    <3>1. m - 1 \in i .. (Len(events) - 1) /\ m - 1 \in DOMAIN events' /\ (m - 1) + 1 = m
      BY <1>1, <2>1, <2>3
    <3>2. events'[m - 1] = events[(m - 1) + 1]
      BY <1>1, <3>1
    <3> QED
      BY <3>1, <3>2
  <2> QED
    BY <1>1, <1>3, <2>1, <2>2, <2>3
<1> QED
  BY <1>2, <1>3

LEMMA ReportRuns ==
  ASSUME WTypes, NEW n \in Outages, FireReport(n) \/ CaptureError(n)
  PROVE  /\ UNCHANGED <<dg, owner, events, told, backs, astray, slipped>>
         /\ watch'.session = watch.session /\ watch'.stoodDown = watch.stoodDown
         /\ watch'.down = watch.down /\ watch'.outage = watch.outage
         /\ watch.reported => watch'.reported
  BY DEF WTypes, WatchState, FireReport, CaptureError

(* What these steps leave of the login, of the sessions and of what waits. *)
Stays ==
  /\ UNCHANGED owner /\ watch'.session = watch.session /\ watch'.stoodDown = watch.stoodDown
  /\ (astray => astray') /\ told \subseteq told'
OneStays(t) ==
  /\ dg'[t].conn \in Fresh <=> dg[t].conn \in Fresh
  /\ dg[t].conn \in Fresh => dg'[t].conn = dg[t].conn /\ (dg'[t].refused <=> dg[t].refused)
  /\ dg'[t].loggedOut <=> dg[t].loggedOut
  /\ dg'[t].refused => dg'[t].conn = "closed" /\ ~dg'[t].reconnects
  /\ dg[t].conn = "closed" => dg'[t].conn = "closed" /\ (dg'[t].refused <=> dg[t].refused)
  /\ dg'[t].reconnects => dg[t].reconnects
EventOld(i) ==
  \/ \E k \in DOMAIN events : events'[i] = events[k]
  \/ events'[i].of \in Logins /\ dg[events'[i].of].conn \notin Fresh
Beside ==
  \/ \E s \in Logins : SessionMoves(s)
  \/ \E i \in DOMAIN events : Handler(i)
  \/ \E n \in Outages : FireReport(n) \/ CaptureError(n)
(* A step of discordgo, Discord, a handler or a report: the recorder's     *)
(* login, which session the watch reads and what is opening stay.          *)
LEMMA BesideOwner ==
  ASSUME WatchAssumption, WTypes, Out, Beside
  PROVE  Stays /\ (\A t \in Logins : OneStays(t)) /\ (\A i \in DOMAIN events' : EventOld(i))
<1>0. /\ dg \in [Logins -> Session] /\ Fresh = {"none", "opening"}
      /\ \A t \in Logins : dg[t].refused => dg[t].conn = "closed" /\ ~dg[t].reconnects
  BY DEF WTypes, Fresh, Out
<1>1. ASSUME NEW s \in Logins, SessionMoves(s)
      PROVE  Stays /\ (\A t \in Logins : OneStays(t)) /\ (\A i \in DOMAIN events' : EventOld(i))
  <2>1. Stays
    BY <1>1, MovesOne DEF Stays
  <2>2. ASSUME NEW t \in Logins
        PROVE  OneStays(t)
    BY <1>0, <1>1, MovesOne DEF OneStays
  <2>3. ASSUME NEW i \in DOMAIN events'
        PROVE  EventOld(i)
    <3>1. More(s, EventKinds) /\ dg[s].conn \notin Fresh
      BY <1>0, <1>1, MovesOne
    <3>2. i \in 1 .. Len(events) \/ i > Len(events)
      BY <3>1 DEF More
    <3> QED
      BY <3>1, <3>2 DEF More, EventOld
  <2> QED
    BY <2>1, <2>2, <2>3
<1>2. ASSUME NEW i \in DOMAIN events, Handler(i)
      PROVE  Stays /\ (\A t \in Logins : OneStays(t)) /\ (\A k \in DOMAIN events' : EventOld(k))
  BY <1>0, <1>2, HandlerRuns, OthersWait DEF Stays, OneStays, EventOld
<1>3. ASSUME NEW n \in Outages, FireReport(n) \/ CaptureError(n)
      PROVE  Stays /\ (\A t \in Logins : OneStays(t)) /\ (\A i \in DOMAIN events' : EventOld(i))
  BY <1>0, <1>3, ReportRuns DEF Stays, OneStays, EventOld
<1> QED
  BY <1>1, <1>2, <1>3 DEF Beside

LEMMA ReadsStep ==
  ASSUME WatchAssumption, WTypes, Reads, Out, WatchNext
  PROVE  Reads'
<1>0. /\ watch \in WatchState /\ dg \in [Logins -> Session] /\ owner \in Owner
      /\ MaxLogins \in Nat /\ owner.login \in 0 .. MaxLogins
  BY DEF WTypes, WatchAssumption, Owner
<1>1. CASE Open
  BY SMTT(60), <1>0, <1>1, ConnSets DEF Open, Logins, WatchState, Conns, Reads
<1>2. CASE OpenEnds
  BY <1>0, <1>2 DEF OpenEnds, Reporting, Owner, Reads
<1>3. CASE GiveUp
  BY <1>0, <1>3 DEF GiveUp, Unwatched, WatchState, Reads
<1>4. CASE CloseFailed
  BY <1>0, <1>4 DEF CloseFailed, Reporting, Owner, Reads
<1>5. CASE LogOut
  BY <1>0, <1>5, OutageStarts DEF LogOut, Unwatched, Owner, WatchState, Reads
<1>6. CASE CloseLeft
  BY <1>0, <1>6 DEF CloseLeft, Reporting, Owner, Reads
<1>7. CASE CloseLast
  BY <1>0, <1>7 DEF CloseLast, Reporting, Owner, Reads
<1>8. CASE StandDown
  BY <1>0, <1>8 DEF StandDown, Owner, WatchState, Reads
<1>9. CASE Beside
  BY <1>0, <1>9, BesideOwner DEF Reads, Logins, OneStays, Fresh, Stays
<1> QED
  BY <1>1, <1>2, <1>3, <1>4, <1>5, <1>6, <1>7, <1>8, <1>9
  DEF WatchNext, OwnerSteps, Reports, EventHandlers, Discordgo, Beside, SessionMoves, Handler

(* The sessions already opened stay so, and the next joins them.           *)
LEMMA UsedSame ==
  ASSUME owner'.login = owner.login, owner.at # "opening", owner'.at # "opening"
  PROVE  \A s \in Logins : Used(s)' <=> Used(s)
  BY DEF Used

(* A step that ends a session's connection, or lets it go.                 *)
Ends(s) ==
  /\ \A t \in Logins : t # s => dg'[t] = dg[t]
  /\ dg'[s].conn = dg[s].conn \/ dg'[s].conn = "closed"
  /\ dg'[s].refused <=> dg[s].refused
  /\ dg'[s].reconnects => dg[s].reconnects
  /\ \A i \in DOMAIN events' :
       events'[i].of = s \/ \E k \in DOMAIN events : events'[i] = events[k]
LEMMA ClosesEnds ==
  ASSUME WTypes, NEW s \in Logins, ClosesConn(s)
  PROVE  Ends(s)
<1>1. /\ \A t \in Logins : t # s => dg'[t] = dg[t]
      /\ dg'[s].refused = dg[s].refused /\ dg'[s].reconnects = dg[s].reconnects
      /\ dg'[s].conn = dg[s].conn \/ dg'[s].conn = "closed"
  BY CloseSets DEF WTypes
<1>2. CASE HasConn(s)
  <2>0. dg \in [Logins -> Session] /\ events \in Seq(WatchEvent)
    BY DEF WTypes
  <2>1. /\ events' \in Seq(WatchEvent) /\ Len(events') = Len(events) + 1
        /\ \A i \in 1 .. Len(events) : events'[i] = events[i]
        /\ events'[Len(events) + 1] = [kind |-> "disconnect", of |-> s]
    BY <1>2, <2>0, CloseSets
  <2>2. ASSUME NEW i \in DOMAIN events'
        PROVE  events'[i].of = s \/ \E k \in DOMAIN events : events'[i] = events[k]
    BY <2>0, <2>1
  <2> QED
    BY <1>1, <2>2 DEF Ends
<1>3. CASE ~HasConn(s)
  BY <1>1, <1>3, CloseSets DEF WTypes, Ends
<1> QED
  BY <1>2, <1>3 DEF HasConn

LEMMA AheadOutStep ==
  ASSUME WatchAssumption, WTypes, Reads, Ahead, Out, WatchNext
  PROVE  Ahead' /\ Out'
<1>0. /\ watch \in WatchState /\ dg \in [Logins -> Session] /\ owner \in Owner
      /\ MaxLogins \in Nat /\ owner.login \in 0 .. MaxLogins /\ Fresh = {"none", "opening"}
      /\ events \in Seq(WatchEvent) /\ \A s \in Logins : s \in Nat /\ s # 0
  BY DEF WTypes, WatchAssumption, Owner, Fresh, Logins
<1>l. owner.at # "out" => owner.login \in Logins
  BY <1>0 DEF Reads, Logins
<1>1. CASE Open
  <2>1. /\ owner'.at = "opening" /\ owner'.login = owner.login + 1 /\ owner.at = "out"
        /\ owner.login + 1 \in Logins /\ dg' = Conn(owner.login + 1, "opening")
        /\ watch' = [watch EXCEPT !.session = owner.login + 1] /\ events' = events
    BY <1>0, <1>1 DEF Open, Logins
  <2>2. watch'.session = owner.login + 1
    BY <1>0, <2>1 DEF WatchState
  <2>3. /\ \A t \in Logins : t # owner.login + 1 => dg'[t] = dg[t]
        /\ dg'[owner.login + 1].conn = "opening"
        /\ dg'[owner.login + 1].refused = dg[owner.login + 1].refused
        /\ dg'[owner.login + 1].loggedOut = dg[owner.login + 1].loggedOut
    BY <1>0, <2>1, ConnSets DEF Conns
  <2>4. \A s \in Logins : Used(s)' <=> Used(s)
    BY <1>0, <2>1 DEF Used
  <2>5. ~Used(owner.login + 1)
    BY <1>0, <2>1 DEF Used
  <2>6. ~dg[owner.login + 1].refused /\ ~dg[owner.login + 1].loggedOut
    BY <2>1, <2>5 DEF Ahead
  <2>7. ASSUME NEW s \in Logins
        PROVE  /\ ~Used(s)' => ~dg'[s].refused /\ ~dg'[s].loggedOut /\ dg'[s].conn \in Fresh
               /\ Used(s)' => dg'[s].conn \notin Fresh
               /\ dg'[s].loggedOut => s # watch'.session \/ (owner'.at = "leaving" /\ s = owner'.login)
               /\ dg'[s].refused => dg'[s].conn = "closed" /\ ~dg'[s].reconnects
    BY <1>0, <2>2, <2>3, <2>4, <2>5, <2>6 DEF Ahead, Out
  <2>8. ASSUME NEW i \in DOMAIN events', NEW s \in Logins, events'[i].of = s
        PROVE  Used(s)'
    BY <2>1, <2>4, <2>8 DEF Ahead
  <2> QED
    BY <2>7, <2>8 DEF Ahead, Out, Fresh
<1>2. CASE OpenEnds
  <2>1. /\ owner'.at \in {"in", "failed"} /\ owner'.login = owner.login
        /\ owner.at = "opening" /\ watch' = watch /\ dg[owner.login].conn = "opening"
        /\ \/ \E c \in {"ready", "bare", "closed"} : dg' = Conn(owner.login, c)
           \/ dg' = CutOff(owner.login, RefusedNow(owner.login))
        /\ events' = events \/ Emits(owner.login, <<"ready">>)
    BY <1>0, <1>2 DEF OpenEnds, Reporting, Owner
  <2>2. owner.login \in Logins
    BY <1>l, <2>1
  <2>3. /\ \A t \in Logins : t # owner.login => dg'[t] = dg[t]
        /\ dg'[owner.login].conn \in {"ready", "bare", "closed"}
        /\ \/ dg'[owner.login].refused = dg[owner.login].refused
           \/ dg'[owner.login].conn = "closed" /\ ~dg'[owner.login].reconnects
        /\ dg'[owner.login].loggedOut = dg[owner.login].loggedOut
    BY <1>0, <2>1, <2>2, ConnSets, RefusedSets DEF Conns
  <2>4. \A s \in Logins : Used(s)' <=> Used(s) \/ s = owner.login
    BY <1>0, <2>1 DEF Used
  <2>5. ~Used(owner.login)
    BY <1>0, <2>1 DEF Used
  <2>6. ~dg[owner.login].refused /\ ~dg[owner.login].loggedOut
    BY <2>2, <2>5 DEF Ahead
  <2>7. ASSUME NEW s \in Logins
        PROVE  /\ ~Used(s)' => ~dg'[s].refused /\ ~dg'[s].loggedOut /\ dg'[s].conn \in Fresh
               /\ Used(s)' => dg'[s].conn \notin Fresh
               /\ dg'[s].loggedOut => s # watch'.session \/ (owner'.at = "leaving" /\ s = owner'.login)
               /\ dg'[s].refused => dg'[s].conn = "closed" /\ ~dg'[s].reconnects
    BY <1>0, <2>1, <2>3, <2>4, <2>6 DEF Ahead, Out
  <2>8. ASSUME NEW i \in DOMAIN events', NEW s \in Logins, events'[i].of = s
        PROVE  Used(s)'
    <3>1. CASE events' = events
      BY <2>4, <2>8, <3>1 DEF Ahead
    <3>2. CASE Emits(owner.login, <<"ready">>)
      <4>1. More(owner.login, {"ready"})
        BY <2>2, <3>2, OneMore DEF EventKinds
      <4>2. events'[i].of = owner.login \/ (i \in DOMAIN events /\ events'[i] = events[i])
        BY <4>1 DEF More
      <4> QED
        BY <2>4, <2>8, <4>2 DEF Ahead
    <3> QED
      BY <2>1, <3>1, <3>2
  <2> QED
    BY <2>7, <2>8 DEF Ahead, Out, Fresh
<1>3. ASSUME owner.login \in Logins, owner'.login = owner.login, owner.at # "opening",
             owner'.at # "opening", Ends(owner.login),
             /\ watch'.session \in {0, watch.session}
             /\ \A s \in Logins : dg'[s].loggedOut => s # watch'.session \/ (owner'.at = "leaving" /\ s = owner.login)
      PROVE  Ahead' /\ Out'
  <2>1. \A s \in Logins : Used(s)' <=> Used(s)
    BY <1>3, UsedSame
  <2>2. Used(owner.login) /\ dg[owner.login].conn \notin Fresh
    BY <1>3 DEF Used, Ahead
  <2>3. ASSUME NEW s \in Logins
        PROVE  /\ ~Used(s)' => ~dg'[s].refused /\ ~dg'[s].loggedOut /\ dg'[s].conn \in Fresh
               /\ Used(s)' => dg'[s].conn \notin Fresh
               /\ dg'[s].loggedOut => s # watch'.session \/ (owner'.at = "leaving" /\ s = owner'.login)
               /\ dg'[s].refused => dg'[s].conn = "closed" /\ ~dg'[s].reconnects
    BY <1>0, <1>3, <2>1, <2>2 DEF Ahead, Out, Ends
  <2>4. ASSUME NEW i \in DOMAIN events', NEW s \in Logins, events'[i].of = s
        PROVE  Used(s)'
    BY <1>3, <2>1, <2>2, <2>4 DEF Ahead, Ends
  <2> QED
    BY <2>3, <2>4 DEF Ahead, Out, Fresh
<1>4. CASE GiveUp
  <2>1. /\ owner.at \in {"failed", "leaving"} /\ owner' = owner /\ events' = events
        /\ watch' = [watch EXCEPT !.session = 0] /\ owner.login \in Logins
        /\ dg' = [dg EXCEPT ![owner.login].reconnects = FALSE]
    BY <1>4, <1>l DEF GiveUp, Unwatched
  <2>2. watch'.session = 0
    BY <1>0, <2>1 DEF WatchState
  <2>3. Ends(owner.login)
    BY <1>0, <2>1, GivenUpSets DEF Ends
  <2>4. \A s \in Logins : s # watch'.session
    BY <1>0, <2>2
  <2> QED
    BY <1>3, <2>1, <2>2, <2>3, <2>4
<1>5. CASE CloseFailed \/ CloseLeft \/ CloseLast
  <2>1. /\ owner.at \in {"failed", "leaving", "stopping"} /\ watch' = watch
        /\ owner'.login = owner.login /\ owner'.at \in {"out", "stopped"}
        /\ ClosesConn(owner.login) /\ owner.login \in Logins
        /\ owner.at = "leaving" => watch.session # owner.login
    BY <1>0, <1>5, <1>l DEF CloseFailed, CloseLeft, CloseLast, Reporting, Owner
  <2>2. Ends(owner.login)
    BY <2>1, ClosesEnds
  <2>3. \A s \in Logins : dg'[s].loggedOut = dg[s].loggedOut
    BY <1>0, <2>1, CloseSets
  <2>4. \A s \in Logins : dg'[s].loggedOut => s # watch'.session
    BY <2>1, <2>3 DEF Ahead
  <2> QED
    BY <1>3, <2>1, <2>2, <2>4
<1>6. CASE LogOut
  <2>1. /\ owner.at = "in" /\ owner' = [owner EXCEPT !.at = "leaving"] /\ events' = events
        /\ watch' = Started(watch) /\ SetsReport(watch) /\ owner.login \in Logins
        /\ dg' = [dg EXCEPT ![owner.login].loggedOut = TRUE]
    BY <1>6, <1>l DEF LogOut
  <2>2. /\ watch'.session = watch.session /\ owner'.at = "leaving" /\ owner'.login = owner.login
    BY <1>0, <2>1, OutageStarts DEF Owner
  <2>3. /\ \A t \in Logins : t # owner.login => dg'[t] = dg[t]
        /\ Ends(owner.login)
    BY <1>0, <2>1, LoggedOutSets DEF Ends
  <2>4. \A s \in Logins : dg'[s].loggedOut => s # watch'.session \/ s = owner.login
    BY <2>1, <2>2, <2>3 DEF Ahead
  <2> QED
    BY <1>3, <2>1, <2>2, <2>3, <2>4
<1>7. CASE StandDown
  <2>1. /\ owner.at \in {"in", "out"} /\ owner'.at \in {"stopping", "stopped"}
        /\ owner'.login = owner.login /\ owner.login \in Logins /\ UNCHANGED <<dg, events>>
        /\ watch'.session = watch.session
    BY <1>0, <1>7 DEF StandDown, Owner, WatchState, Logins
  <2>2. \A s \in Logins : dg'[s].loggedOut => s # watch'.session
    BY <2>1 DEF Ahead
  <2>3. Ends(owner.login)
    BY <2>1 DEF Ends
  <2> QED
    BY <1>3, <2>1, <2>2, <2>3
<1>8. CASE Beside
  <2>1. Stays /\ (\A t \in Logins : OneStays(t)) /\ (\A i \in DOMAIN events' : EventOld(i))
    BY <1>8, BesideOwner
  <2>2. \A s \in Logins : Used(s)' <=> Used(s)
    BY <2>1 DEF Stays, Used
  <2>3. ASSUME NEW s \in Logins
        PROVE  /\ ~Used(s)' => ~dg'[s].refused /\ ~dg'[s].loggedOut /\ dg'[s].conn \in Fresh
               /\ Used(s)' => dg'[s].conn \notin Fresh
               /\ dg'[s].loggedOut => s # watch'.session \/ (owner'.at = "leaving" /\ s = owner'.login)
               /\ dg'[s].refused => dg'[s].conn = "closed" /\ ~dg'[s].reconnects
    BY <1>0, <2>1, <2>2 DEF Ahead, Out, OneStays, Stays
  <2>4. ASSUME NEW i \in DOMAIN events', NEW s \in Logins, events'[i].of = s
        PROVE  Used(s)'
    BY <2>1, <2>2, <2>4 DEF Ahead, EventOld
  <2> QED
    BY <2>3, <2>4 DEF Ahead, Out, Fresh
<1> QED
  BY <1>1, <1>2, <1>4, <1>5, <1>6, <1>7, <1>8
  DEF WatchNext, OwnerSteps, Reports, EventHandlers, Discordgo, Beside, SessionMoves, Handler

(* What is known of the outages past outlasts each step.                   *)
LEMMA PastStarts ==
  ASSUME WatchAssumption, WTypes, Past, SetsReport(watch), UNCHANGED backs,
         watch'.down = Started(watch).down, watch'.outage = Started(watch).outage,
         watch'.reported = watch.reported
  PROVE  Past'
<1>0. watch.outage \in Nat /\ \A n \in Outages : n \in Nat
  BY DEF WTypes, WatchState, Outages
<1>1. CASE Started(watch) = watch /\ reports' = reports
  BY <1>1 DEF Past
<1>2. CASE /\ ~watch.down /\ Started(watch).outage = watch.outage + 1
           /\ \A n \in Outages : reports'[n] = IF n = watch.outage + 1 THEN "set" ELSE reports[n]
  BY <1>0, <1>2 DEF Past
<1> QED
  BY <1>1, <1>2, OutageStarts

LEMMA PastStep ==
  ASSUME WatchAssumption, WTypes, Past, Out, WatchNext
  PROVE  Past'
<1>0. watch \in WatchState /\ watch.outage \in Nat /\ reports \in [Outages -> Fates]
      /\ \A n \in Outages : n \in Nat
  BY DEF WTypes, WatchState, Outages
<1>1. ASSUME UNCHANGED <<reports, backs>>, watch'.down = watch.down,
             watch'.outage = watch.outage, watch'.reported = watch.reported
      PROVE  Past'
  BY <1>1 DEF Past
<1>2. CASE Open \/ GiveUp \/ StandDown
  BY <1>0, <1>1, <1>2 DEF Open, GiveUp, StandDown, Unwatched, WatchState
<1>3. CASE OpenEnds \/ CloseFailed \/ CloseLeft \/ CloseLast
  BY <1>1, <1>3 DEF OpenEnds, CloseFailed, CloseLeft, CloseLast, Reporting
<1>4. CASE LogOut
  BY <1>4, OutageStarts, PastStarts DEF LogOut, Unwatched, WatchState
<1>5. ASSUME NEW s \in Logins, SessionMoves(s)
      PROVE  Past'
  BY <1>1, <1>5, MovesOne
<1>6. ASSUME NEW i \in DOMAIN events, Online(i)
      PROVE  Past'
  BY <1>0, <1>1, <1>6 DEF Online, WatchState, Past
<1>7. ASSUME NEW i \in DOMAIN events, WentOffline(i)
      PROVE  Past'
  BY <1>1, <1>7, OutageStarts, PastStarts DEF WentOffline
<1>8. ASSUME NEW i \in DOMAIN events, CameBack(i)
      PROVE  Past'
  BY <1>1, <1>8 DEF CameBack, Reporting
<1>9. ASSUME NEW n \in Outages, FireReport(n)
      PROVE  Past'
  BY <1>0, <1>9 DEF FireReport, Past, OutageOn, WatchState
<1>10. ASSUME NEW n \in Outages, CaptureError(n)
       PROVE  Past'
  BY <1>0, <1>10 DEF CaptureError, Past
<1> QED
  BY <1>2, <1>3, <1>4, <1>5, <1>6, <1>7, <1>8, <1>9, <1>10
  DEF WatchNext, OwnerSteps, Reports, EventHandlers, Discordgo, SessionMoves

(* A login the recorder has left stays left.                               *)
LEMMA PartedStays ==
  ASSUME NEW t \in Logins, OneStays(t), told \subseteq told', Parted(t)
  PROVE  Parted(t)'
  BY DEF OneStays, Parted

(* A session known to be up stays so, or its READY still waits.            *)
LEMMA HeardStays ==
  ASSUME WatchAssumption, WTypes, Out, Beside, NEW t \in Logins, Heard(t)
  PROVE  Heard(t)'
<1>1. ASSUME NEW s \in Logins, SessionMoves(s)
      PROVE  Heard(t)'
  BY SMTT(30), <1>1, MovesOne DEF More, NoReady, Heard
<1>2. ASSUME NEW i \in DOMAIN events, Handler(i)
      PROVE  Heard(t)'
  <2>1. Handles(i) /\ (dg[t].up => dg'[t].up)
    BY <1>2, HandlerRuns
  <2>2. CASE dg[t].up
    BY <2>1, <2>2 DEF Heard
  <2>3. CASE \E m \in DOMAIN events : events[m].kind = "ready" /\ events[m].of = t /\ m # i
    BY <2>1, <2>3, OthersWait DEF Heard, NoReady
  <2>4. CASE events[i].kind = "ready" /\ events[i].of = t
    <3>1. Online(i)
      BY <1>2, <2>4 DEF Handler, WentOffline, CameBack
    <3>2. dg \in [Logins -> Session] /\ dg' = [dg EXCEPT ![t].up = TRUE]
      BY <2>4, <3>1 DEF Online, WTypes
    <3>3. dg'[t].up
      BY <3>2, UpSets
    <3> QED
      BY <3>3 DEF Heard
  <2> QED
    BY <2>2, <2>3, <2>4 DEF Heard, NoReady
<1>3. ASSUME NEW n \in Outages, FireReport(n) \/ CaptureError(n)
      PROVE  Heard(t)'
  BY <1>3, ReportRuns DEF Heard, NoReady
<1> QED
  BY <1>1, <1>2, <1>3 DEF Beside

(* Only a close with 4004 refuses, and it is told for a session that was   *)
(* up and watched; a session reconnects only while it may.                 *)
LEMMA OnlyRefused ==
  ASSUME WTypes, Out, NEW s \in Logins, SessionMoves(s)
  PROVE  /\ ~Closed4004(s) => ~dg'[s].refused
         /\ dg'[s].conn = "retrying" => dg[s].reconnects
         /\ Closed4004(s) /\ ~astray' /\ Heard(s) /\ s = watch.session => s \in told'
<1>0. dg \in [Logins -> Session] /\ events \in Seq(WatchEvent) /\ ~dg[s].refused
      /\ {"ready", "bare"} \subseteq Conns
  BY MovesOne DEF WTypes, Conns
<1>1. CASE ConnLost(s)
  BY <1>0, <1>1, CutOffSets, RefusedSets DEF ConnLost, Closed4004
<1>2. CASE ComeBack(s) \/ Identified(s)
  BY <1>0, <1>2, ConnSets, RefusedSets DEF ComeBack, Identified, Closed4004
<1>3. CASE Closed4004(s)
  <2>1. dg'[s].conn = "closed"
    BY <1>0, <1>3, RefusedSets DEF Closed4004
  <2>2. ASSUME ~astray', Heard(s), s = watch.session
        PROVE  s \in told'
    <3>1. ~\E i \in DOMAIN events : events[i] = [kind |-> "ready", of |-> s]
      BY <1>3, <2>2 DEF Closed4004
    <3>2. NoReady(s)
      <4>1. ASSUME NEW i \in DOMAIN events, events[i].kind = "ready", events[i].of = s
            PROVE  FALSE
        <5>1. events[i] \in WatchEvent
          BY <1>0
        <5>2. events[i] = [kind |-> "ready", of |-> s]
          BY <4>1, <5>1 DEF WatchEvent
        <5> QED
          BY <3>1, <5>2
      <4> QED
        BY <4>1 DEF NoReady
    <3>3. Tells(s)
      BY <1>0, <2>2, <3>2 DEF Heard, Tells
    <3> QED
      BY <1>3, <3>3 DEF Closed4004
  <2> QED
    BY <1>3, <2>1, <2>2
<1> QED
  BY <1>1, <1>2, <1>3 DEF SessionMoves

(* A session whose open failed, before its close: nothing has changed it   *)
(* but a refusal; after, it never comes back.                              *)
LEMMA FailedStays ==
  ASSUME WatchAssumption, WTypes, Reads, Out, Beside, LeftFailed, ~astray'
  PROVE  LeftFailed'
<1>s. Stays
  BY BesideOwner
<1>d. dg \in [Logins -> Session]
  BY DEF WTypes
<1>l. owner.at = "failed" => owner.login \in Logins
  BY DEF Reads, WTypes, Owner, Logins
<1>1. ASSUME NEW s \in Logins, SessionMoves(s)
      PROVE  LeftFailed'
  <2>1. /\ \A t \in Logins : t # s => dg'[t] = dg[t]
        /\ dg'[s].conn \in {"bare", "ready", "retrying", "closed"}
        /\ dg'[s].reconnects => dg[s].reconnects
        /\ dg'[s].conn = "retrying" => dg[s].reconnects
        /\ More(s, EventKinds)
    BY <1>1, MovesOne, OnlyRefused
  <2>2. CASE owner.at = "failed" /\ watch.session = 0
    BY <1>l, <1>s, <2>1, <2>2 DEF LeftFailed, Stays
  <2>3. CASE owner.at = "failed" /\ watch.session # 0
    <3>1. dg[owner.login].conn \in {"bare", "closed"} /\ NoReady(owner.login)
          /\ watch.session = owner.login
      BY <2>3 DEF LeftFailed, Reads
    <3>2. CASE s = owner.login
      <4>1. ~ConnLost(s) /\ ~Identified(s) /\ ~ComeBack(s)
        BY <2>3, <3>1, <3>2 DEF ConnLost, Identified, ComeBack, Unclosed
      <4>2. Closed4004(s)
        BY <1>1, <4>1 DEF SessionMoves
      <4>3. dg'[s].conn = "closed" /\ Emits(s, <<"disconnect">>)
        BY <1>d, <4>2, RefusedSets DEF Closed4004
      <4>4. More(s, {"disconnect"})
        BY <4>3, OneMore DEF EventKinds
      <4>5. \A i \in DOMAIN events' : ~(events'[i].kind = "ready" /\ events'[i].of = s)
        BY <3>1, <3>2, <4>4 DEF More, NoReady
      <4> QED
        BY <1>s, <2>3, <3>2, <4>3, <4>5 DEF LeftFailed, Stays, NoReady
    <3>3. CASE s # owner.login
      BY <1>l, <1>s, <2>1, <2>3, <3>1, <3>3 DEF More, NoReady, LeftFailed, Stays
    <3> QED
      BY <3>2, <3>3
  <2> QED
    BY <1>s, <2>2, <2>3 DEF LeftFailed, Stays
<1>2. ASSUME NEW i \in DOMAIN events, Handler(i)
      PROVE  LeftFailed'
  BY <1>2, <1>l, <1>s, HandlerRuns, OthersWait DEF NoReady, LeftFailed, Stays
<1>3. ASSUME NEW n \in Outages, FireReport(n) \/ CaptureError(n)
      PROVE  LeftFailed'
  BY <1>3, <1>s, ReportRuns DEF LeftFailed, Stays, NoReady
<1> QED
  BY <1>1, <1>2, <1>3 DEF Beside

LEMMA LeftStep ==
  ASSUME WatchAssumption, WTypes, Reads, Ahead, Out, Left, WatchNext
  PROVE  Left'
<1> SUFFICES ASSUME ~astray'
             PROVE  LeftBefore' /\ LeftLast' /\ LeftOpen' /\ LeftFailed'
  BY DEF Left
<1>0. /\ watch \in WatchState /\ dg \in [Logins -> Session] /\ owner \in Owner
      /\ MaxLogins \in Nat /\ owner.login \in 0 .. MaxLogins
      /\ \A s \in Logins : s \in Nat /\ s > 0 /\ s <= MaxLogins
  BY DEF WTypes, WatchAssumption, Owner, Logins
<1>l. owner.at # "out" => owner.login \in Logins
  BY <1>0 DEF Reads, Logins
<1>1. CASE Open
  <2>1. /\ owner.at = "out" /\ owner'.at = "opening" /\ owner'.login = owner.login + 1
        /\ owner.login + 1 \in Logins /\ dg' = Conn(owner.login + 1, "opening")
        /\ UNCHANGED <<told, astray>>
    BY <1>0, <1>1 DEF Open, Logins
  <2>2. \A t \in Logins : t # owner.login + 1 => dg'[t] = dg[t]
    BY <1>0, <2>1, ConnSets DEF Conns
  <2>3. ASSUME NEW s \in Logins, s < owner.login + 1
        PROVE  Parted(s)
    BY <1>0, <2>1, <2>3 DEF Left, LeftBefore, LeftLast
  <2>4. ASSUME NEW s \in Logins, s < owner.login + 1
        PROVE  dg'[s] = dg[s]
    BY <1>0, <2>1, <2>2, <2>4
  <2>5. LeftBefore'
    BY <2>1, <2>3, <2>4 DEF LeftBefore, Parted
  <2> QED
    BY <2>1, <2>5 DEF LeftLast, LeftOpen, LeftFailed
<1>2. ASSUME owner.login \in Logins, owner'.login = owner.login, told \subseteq told', ~astray,
             \A t \in Logins : t # owner.login => dg'[t] = dg[t]
      PROVE  LeftBefore'
  BY <1>0, <1>2 DEF Left, LeftBefore, Parted
<1>3. CASE OpenEnds
  <2>1. /\ owner.at = "opening" /\ owner'.login = owner.login /\ watch' = watch
        /\ told' = told /\ astray' = astray /\ owner.login \in Logins
        /\ \/ owner'.at = "in" /\ dg' = Conn(owner.login, "ready")
              /\ Emits(owner.login, <<"ready">>)
           \/ /\ owner'.at = "failed" /\ events' = events
              /\ \/ \E c \in {"bare", "closed"} : dg' = Conn(owner.login, c)
                 \/ dg' = CutOff(owner.login, RefusedNow(owner.login))
    BY <1>0, <1>3, <1>l DEF OpenEnds, Reporting, Owner
  <2>2. ~Used(owner.login)
    BY <1>0, <2>1 DEF Used
  <2>3. ~dg[owner.login].refused /\ NoReady(owner.login)
    BY <2>1, <2>2 DEF Ahead, NoReady
  <2>4. CASE owner'.at = "in" /\ dg' = Conn(owner.login, "ready") /\ Emits(owner.login, <<"ready">>)
    <3>1. /\ \A t \in Logins : t # owner.login => dg'[t] = dg[t]
          /\ dg'[owner.login].refused = dg[owner.login].refused
      BY <1>0, <2>1, <2>4, ConnSets DEF Conns
    <3>2. events'[Len(events')].of = owner.login /\ events'[Len(events')].kind = "ready"
          /\ Len(events') \in DOMAIN events'
      BY <2>1, <2>4, OneMore DEF EventKinds, More
    <3>3. Heard(owner.login)'
      BY <2>1, <3>2 DEF Heard, NoReady
    <3>4. LeftBefore'
      BY <1>2, <2>1, <3>1
    <3> QED
      BY <2>1, <2>3, <2>4, <3>1, <3>3, <3>4 DEF LeftLast, LeftOpen, LeftFailed, Heard, NoReady
  <2>5. CASE owner'.at = "failed" /\ events' = events
    BY <1>0, <1>2, <2>1, <2>3, <2>5, ConnSets, RefusedSets DEF Conns, Reads, LeftLast, LeftOpen,
       LeftFailed, NoReady
  <2> QED
    BY <2>1, <2>4, <2>5
<1>4. CASE GiveUp
  BY <1>0, <1>2, <1>4, <1>l, GivenUpSets DEF GiveUp, Unwatched, WatchState, Left,
     LeftFailed, LeftLast, LeftOpen
<1>5. CASE CloseFailed \/ CloseLeft \/ CloseLast
  <2>1. /\ owner'.login = owner.login /\ owner.login \in Logins /\ astray' = astray
        /\ ClosesConn(owner.login) /\ told \subseteq told' /\ owner'.at \in {"out", "stopped"}
    BY <1>0, <1>5, <1>l DEF CloseFailed, CloseLeft, CloseLast, Reporting, Owner
  <2>2. /\ \A t \in Logins : t # owner.login => dg'[t] = dg[t]
        /\ dg'[owner.login].conn = IF HasConn(owner.login) THEN "closed" ELSE dg[owner.login].conn
        /\ dg'[owner.login].refused = dg[owner.login].refused
        /\ dg'[owner.login].loggedOut = dg[owner.login].loggedOut
    BY <2>1, CloseSets DEF WTypes
  <2>3. LeftBefore'
    BY <1>2, <2>1, <2>2
  <2>4. owner'.at = "out" => Parted(owner.login)'
    BY <1>0, <1>5, <2>1, <2>2 DEF CloseFailed, Left, LeftFailed, Reads, HasConn, Parted,
       FailedOpen, CloseLeft, LeftOpen, CloseLast, Owner
  <2> QED
    BY <2>1, <2>3, <2>4 DEF LeftLast, LeftOpen, LeftFailed, Parted
<1>6. CASE LogOut
  BY <1>0, <1>2, <1>6, <1>l, LoggedOutSets DEF LogOut, Owner, LeftLast, LeftOpen,
     LeftFailed
<1>7. CASE StandDown
  BY <1>0, <1>2, <1>7 DEF StandDown, Owner, Logins, LeftLast, LeftOpen, LeftFailed
<1>8. CASE Beside
  <2>1. Stays /\ \A t \in Logins : OneStays(t)
    BY <1>8, BesideOwner
  <2>2. ~astray /\ owner' = owner /\ told \subseteq told'
    BY <2>1 DEF Stays
  <2>3. LeftBefore /\ LeftLast /\ LeftOpen /\ LeftFailed
    BY <2>2 DEF Left
  <2>4. ASSUME NEW s \in Logins, s < owner'.login
        PROVE  Parted(s)'
    BY <2>1, <2>2, <2>3, <2>4, PartedStays DEF LeftBefore
  <2>5. owner.at = "out" /\ owner.login > 0 => Parted(owner.login)'
    BY <1>0, <2>1, <2>2, <2>3 DEF Logins, LeftLast, Parted, OneStays
  <2>6. owner.at = "leaving" => dg'[owner.login].loggedOut
    BY <1>l, <2>1, <2>3 DEF LeftOpen, OneStays
  <2>7. ASSUME owner.at = "in"
        PROVE  /\ dg'[owner.login].up \/ ~NoReady(owner.login)'
               /\ dg'[owner.login].refused => owner.login \in told'
    <3>1. PICK t \in Logins : t = owner.login
      BY <1>l, <2>7
    <3>2. Heard(t) /\ (dg[t].refused => t \in told)
      BY <2>3, <2>7, <3>1 DEF LeftOpen
    <3>3. Heard(t)'
      BY <1>8, <3>2, HeardStays
    <3>4. dg'[t].refused => t \in told'
      <4>1. CASE dg[t].refused
        BY <2>2, <3>2, <4>1
      <4>2. CASE ~dg[t].refused /\ dg'[t].refused
        <5>1. SessionMoves(t)
          BY <1>8, <4>2, MovesOne, HandlerRuns, ReportRuns DEF Beside
        <5>2. t = watch.session
          BY <2>7, <3>1 DEF Reads
        <5> QED
          BY <3>2, <4>2, <5>1, <5>2, OnlyRefused
      <4> QED
        BY <4>1, <4>2
    <3> QED
      BY <2>2, <3>1, <3>3, <3>4 DEF Heard, NoReady
  <2>8. LeftFailed'
    BY <1>8, <2>3, FailedStays
  <2>9. LeftOpen'
    BY <2>2, <2>6, <2>7 DEF LeftOpen, Heard, NoReady
  <2> QED
    BY <2>2, <2>4, <2>5, <2>8, <2>9 DEF LeftBefore, LeftLast, Parted
<1> QED
  BY <1>1, <1>3, <1>4, <1>5, <1>6, <1>7, <1>8
  DEF WatchNext, OwnerSteps, Reports, EventHandlers, Discordgo, Beside, SessionMoves, Handler

(* The line with a word more of its session last, and with none.           *)
LEMMA LineSpoken ==
  ASSUME NEW j \in DOMAIN events', Speaks(j)', DOMAIN events' \subseteq Nat,
         \A k \in DOMAIN events' : k > j => ~Speaks(k)',
         events'[j].kind = "ready" <=> dg'[watch'.session].conn = "ready",
         owner'.at # "in" => watch'.down \/ slipped'
  PROVE  Line'
  BY DEF LastSpeaks, Line

LEMMA LineSilent ==
  ASSUME NEW s, NEW kinds, More(s, kinds), Line, ~astray, UNCHANGED <<watch, owner, slipped>>,
         \A i \in DOMAIN events' : i > Len(events) => ~Speaks(i)',
         watch.session # 0 =>
           (dg'[watch.session].conn = "ready" <=> dg[watch.session].conn = "ready")
  PROVE  Line'
<1>1. /\ DOMAIN events \subseteq DOMAIN events' /\ DOMAIN events \subseteq Nat
      /\ DOMAIN events' \subseteq Nat
      /\ \A i \in DOMAIN events : events'[i] = events[i] /\ ~(i > Len(events))
      /\ \A i \in DOMAIN events' : i \in DOMAIN events \/ i > Len(events)
  BY DEF More
<1>2. \A i \in DOMAIN events : Speaks(i)' <=> Speaks(i)
  BY <1>1 DEF Speaks
<1>3. ASSUME NEW i \in DOMAIN events', LastSpeaks(i)'
      PROVE  i \in DOMAIN events /\ LastSpeaks(i)
  BY <1>1, <1>2, <1>3 DEF LastSpeaks
<1>4. (\A i \in DOMAIN events' : ~Speaks(i)') => \A i \in DOMAIN events : ~Speaks(i)
  BY <1>1, <1>2
<1>5. ASSUME ~watch'.stoodDown
      PROVE  owner'.at # "in" => watch'.down \/ slipped'
  BY <1>5 DEF Line
<1>6. ASSUME ~watch'.stoodDown, watch'.session # 0, owner'.at # "leaving", \A i \in DOMAIN events' : ~Speaks(i)'
      PROVE  slipped' \/ watch'.down = (dg'[watch'.session].conn # "ready")
  BY <1>4, <1>6 DEF Line
<1>7. ASSUME ~watch'.stoodDown, watch'.session # 0, owner'.at # "leaving", NEW i \in DOMAIN events', LastSpeaks(i)'
      PROVE  events'[i].kind = "ready" <=> dg'[watch'.session].conn = "ready"
  BY <1>1, <1>3, <1>7 DEF Line
<1> QED
  BY <1>5, <1>6, <1>7 DEF Line

(* The first handler's event gone, the rest is as it was.                  *)
LEMMA Shifts ==
  ASSUME WTypes, NEW i \in DOMAIN events, Handles(i), ~astray',
         watch'.session = watch.session
  PROVE  /\ i = 1 /\ ~astray
         /\ \A k \in DOMAIN events' : /\ k + 1 \in DOMAIN events /\ events'[k] = events[k + 1]
                                      /\ LastSpeaks(k)' => LastSpeaks(k + 1)
         /\ (\A k \in DOMAIN events' : ~Speaks(k)') =>
              IF Speaks(i) THEN LastSpeaks(i) ELSE \A k \in DOMAIN events : ~Speaks(k)
<1>0. events \in Seq(WatchEvent)
  BY DEF WTypes
<1>1. /\ events' \in Seq(WatchEvent) /\ Len(events') = Len(events) - 1 /\ i = 1 /\ ~astray
      /\ \A j \in i .. (Len(events) - 1) : events'[j] = events[j + 1]
      /\ DOMAIN events = 1 .. Len(events) /\ Len(events) \in Nat
  BY <1>0, HandlesOne
<1>2. DOMAIN events' = 1 .. (Len(events) - 1)
  BY <1>1
<1>3. \A k \in DOMAIN events' : k + 1 \in DOMAIN events /\ events'[k] = events[k + 1] /\ k \in Nat
  BY <1>1, <1>2
<1>4. \A m \in DOMAIN events : m # 1 => m - 1 \in DOMAIN events' /\ (m - 1) + 1 = m /\ m \in Nat
  BY <1>1, <1>2
<1>5. \A k \in DOMAIN events' : Speaks(k)' <=> Speaks(k + 1)
  BY <1>3 DEF Speaks
<1>6. ASSUME NEW k \in DOMAIN events', LastSpeaks(k)'
      PROVE  LastSpeaks(k + 1)
  <2>1. Speaks(k + 1)
    BY <1>5, <1>6 DEF LastSpeaks
  <2>2. ASSUME NEW m \in DOMAIN events, m > k + 1
        PROVE  ~Speaks(m)
    BY <1>1, <1>3, <1>4, <1>5, <1>6, <2>2 DEF LastSpeaks
  <2> QED
    BY <2>1, <2>2 DEF LastSpeaks
<1>7. ASSUME \A k \in DOMAIN events' : ~Speaks(k)'
      PROVE  \A m \in DOMAIN events : m # 1 => ~Speaks(m)
  BY <1>4, <1>5, <1>7
<1>8. ASSUME \A k \in DOMAIN events' : ~Speaks(k)'
      PROVE  IF Speaks(i) THEN LastSpeaks(i) ELSE \A k \in DOMAIN events : ~Speaks(k)
  BY <1>1, <1>7, <1>8 DEF LastSpeaks
<1> QED
  BY <1>1, <1>3, <1>6, <1>8

(* A login that is not up leaves the account down, whatever waits.         *)
LEMMA NotUp ==
  ASSUME WTypes, Reads, Ahead, Left, ~astray, ~watch.stoodDown, owner.at \notin {"in", "leaving"},
         watch.session # 0, NEW i \in DOMAIN events, Speaks(i)
  PROVE  events[i].kind # "ready"
<1>1. watch.session = owner.login /\ owner.at \in {"opening", "failed"}
  BY DEF Reads, WTypes, Owner
<1>2. owner.login \in Logins /\ events[i].of = owner.login
  BY <1>1 DEF Reads, WTypes, Owner, Logins, Speaks
<1>3. CASE owner.at = "opening"
  BY <1>2, <1>3 DEF Ahead, Used, Logins
<1>4. CASE owner.at = "failed"
  BY <1>2, <1>4 DEF Left, LeftFailed, NoReady
<1> QED
  BY <1>1, <1>3, <1>4

LEMMA LineMoves ==
  ASSUME WTypes, Reads, Out, Line, NEW s \in Logins, SessionMoves(s), ~astray'
  PROVE  Line'
<1>0. dg \in [Logins -> Session] /\ {"ready", "bare"} \subseteq Conns
  BY DEF WTypes, Conns
<1>1. /\ UNCHANGED <<watch, owner, slipped>> /\ ~astray /\ More(s, EventKinds)
      /\ \A t \in Logins : t # s => dg'[t] = dg[t]
  BY MovesOne
<1>l. watch.session # 0 => watch.session \in Logins
  BY DEF WTypes, WatchState, Logins
<1>2. DOMAIN events' \subseteq Nat /\ DOMAIN events' = 1 .. Len(events') /\ Len(events') \in Nat
      /\ Len(events) \in Nat
  BY <1>1 DEF More
<1>3. CASE s # watch.session
  BY <1>1, <1>3, <1>l, LineSilent DEF More, Speaks
<1>4. ASSUME s = watch.session, watch.stoodDown
      PROVE  Line'
  BY <1>1, <1>4 DEF Line
<1>5. ASSUME s = watch.session, ~watch.stoodDown, NEW k \in {"ready", "disconnect"},
             Emits(s, <<k>>), k = "ready" <=> dg'[s].conn = "ready"
      PROVE  Line'
  <2>0. k \in EventKinds
    BY DEF EventKinds
  <2>1. /\ events'[Len(events')].of = s /\ events'[Len(events')].kind = k
        /\ Len(events') = Len(events) + 1
    BY <1>5, <2>0, OneMore
  <2>2. PICK j \in DOMAIN events' : j = Len(events')
    BY <1>2, <2>1
  <2>3. Speaks(j)'
    BY <1>1, <1>5, <2>1, <2>2 DEF Speaks
  <2>4. \A i \in DOMAIN events' : ~(i > j)
    BY <1>2, <2>2
  <2>5. owner'.at # "in" => watch'.down \/ slipped'
    BY <1>1, <1>5 DEF Line
  <2>6. events'[j].kind = "ready" <=> dg'[watch'.session].conn = "ready"
    BY <1>1, <1>5, <2>1, <2>2
  <2> QED
    BY <1>2, <2>3, <2>4, <2>5, <2>6, LineSpoken
<1>6. CASE s = watch.session /\ ~watch.stoodDown /\ ConnLost(s)
  BY <1>0, <1>5, <1>6, CutOffSets DEF ConnLost
<1>7. CASE s = watch.session /\ ~watch.stoodDown /\ Identified(s)
  BY <1>0, <1>5, <1>7, ConnSets DEF Identified
<1>8. CASE s = watch.session /\ ~watch.stoodDown /\ Closed4004(s)
  BY <1>0, <1>5, <1>8, RefusedSets DEF Closed4004
<1>9. CASE s = watch.session /\ ~watch.stoodDown /\ ComeBack(s)
  <2>1. CASE dg' = Conn(s, "bare") /\ Emits(s, <<"connect">>)
    <3>1. dg'[s].conn = "bare" /\ dg[s].conn = "retrying"
      BY <1>0, <1>9, <2>1, ConnSets DEF ComeBack
    <3>2. More(s, {"connect"})
      BY <2>1, OneMore DEF EventKinds
    <3>3. \A i \in DOMAIN events' : i > Len(events) => ~Speaks(i)'
      BY <3>2 DEF More, Speaks
    <3> QED
      BY <1>1, <1>9, <3>1, <3>2, <3>3, LineSilent
  <2>2. CASE dg' = Conn(s, "ready") /\ Emits(s, <<"ready", "connect">>)
    <3>1. dg'[s].conn = "ready"
      BY <1>0, <2>2, ConnSets
    <3>2. /\ Len(events') = Len(events) + 2
          /\ events'[Len(events) + 1].kind = "ready" /\ events'[Len(events) + 1].of = s
          /\ events'[Len(events) + 2].kind = "connect"
      BY <2>2, TwoMore
    <3>3. PICK j \in DOMAIN events' : j = Len(events) + 1
      BY <1>2, <3>2
    <3>4. Speaks(j)'
      BY <1>1, <1>9, <3>2, <3>3 DEF Speaks
    <3>5. \A i \in DOMAIN events' : i > j => ~Speaks(i)'
      BY <1>2, <3>2, <3>3 DEF Speaks
    <3>6. owner'.at # "in" => watch'.down \/ slipped'
      BY <1>1, <1>9 DEF Line
    <3>7. events'[j].kind = "ready" <=> dg'[watch'.session].conn = "ready"
      BY <1>1, <1>9, <3>1, <3>2, <3>3
    <3> QED
      BY <1>2, <3>4, <3>5, <3>6, <3>7, LineSpoken
  <2> QED
    BY <1>9, <2>1, <2>2 DEF ComeBack
<1> QED
  BY <1>3, <1>4, <1>6, <1>7, <1>8, <1>9 DEF SessionMoves

LEMMA LineHandles ==
  ASSUME WatchAssumption, WTypes, Reads, Ahead, Left, Line, NEW i \in DOMAIN events, Handler(i),
         ~astray', ~watch'.stoodDown
  PROVE  Line'
<1>0. watch \in WatchState /\ dg \in [Logins -> Session] /\ watch.down \in BOOLEAN
  BY DEF WTypes, WatchState
<1>1. /\ UNCHANGED owner /\ Handles(i) /\ watch'.session = watch.session /\ ~watch.stoodDown
      /\ \A t \in Logins : \/ dg'[t].conn = dg[t].conn
                           \/ dg[t].loggedOut
  BY HandlerRuns
<1>2. /\ i = 1 /\ ~astray
      /\ \A k \in DOMAIN events' : /\ k + 1 \in DOMAIN events /\ events'[k] = events[k + 1]
                                   /\ LastSpeaks(k)' => LastSpeaks(k + 1)
      /\ (\A k \in DOMAIN events' : ~Speaks(k)') =>
           IF Speaks(i) THEN LastSpeaks(i) ELSE \A k \in DOMAIN events : ~Speaks(k)
  BY <1>1, Shifts
<1>3. watch.session # 0 /\ owner.at # "leaving" => dg'[watch.session].conn = dg[watch.session].conn
  BY <1>0, <1>1 DEF WatchState, Logins, Ahead
<1>4. ASSUME watch.session # 0, owner.at # "leaving", NEW k \in DOMAIN events', LastSpeaks(k)'
      PROVE  events'[k].kind = "ready" <=> dg'[watch'.session].conn = "ready"
  BY <1>1, <1>2, <1>3, <1>4 DEF Line
<1>5. ASSUME ~Speaks(i), watch'.down = watch.down, slipped' = slipped
      PROVE  Line'
  BY <1>1, <1>2, <1>3, <1>4, <1>5 DEF Line
<1>6. ASSUME Speaks(i), watch.session # 0, watch'.down = (events[i].kind # "ready"),
             events[i].kind = "ready" => slipped' = (owner.at = "leaving"), events[i].kind # "ready" => slipped' = FALSE
      PROVE  Line'
  BY <1>1, <1>2, <1>3, <1>4, <1>6, NotUp DEF Line
<1>o. events[i].of \in Logins
  BY <1>1, HandlesTyped DEF WatchEvent
<1>7. CASE Online(i)
  <2>1. CASE Watched(events[i].of)
    <3>1. Speaks(i) /\ events[i].kind = "ready" /\ watch.session # 0
      BY <1>7, <1>o, <2>1 DEF Online, Speaks, Watched, Logins
    <3>2. watch' = [watch EXCEPT !.down = FALSE, !.reported = FALSE]
      BY <1>7, <2>1 DEF Online
    <3>3. watch'.down = FALSE /\ slipped' = (owner.at = "leaving")
      BY <1>0, <1>7, <2>1, <3>2 DEF WatchState, Online
    <3> QED
      BY <1>6, <3>1, <3>3
  <2>2. CASE ~Watched(events[i].of)
    BY <1>5, <1>7, <2>2 DEF Online, Speaks, Watched
  <2> QED
    BY <2>1, <2>2
<1>8. CASE WentOffline(i)
  <2>1. CASE events[i].of = watch.session
    <3>1. Speaks(i) /\ events[i].kind = "disconnect" /\ watch.session # 0
      BY <1>8, <1>o, <2>1 DEF WentOffline, Speaks, Logins
    <3>2. watch' = Started(watch) /\ SetsReport(watch) /\ slipped' = FALSE
      BY <1>8, <2>1 DEF WentOffline
    <3>3. watch'.down = TRUE
      BY <1>0, <1>1, <3>2, OutageStarts DEF WatchState
    <3> QED
      BY <1>6, <3>1, <3>2, <3>3
  <2>2. CASE events[i].of # watch.session
    BY <1>5, <1>8, <2>2 DEF WentOffline, Speaks
  <2> QED
    BY <2>1, <2>2
<1>9. CASE CameBack(i)
  BY <1>5, <1>9 DEF CameBack, Reporting, Speaks
<1> QED
  BY <1>7, <1>8, <1>9 DEF Handler

LEMMA LineStep ==
  ASSUME WatchAssumption, WatchInv, WatchNext
  PROVE  Line'
<1> USE DEF WatchInv
<1> SUFFICES ASSUME ~astray', ~watch'.stoodDown
             PROVE  Line'
  BY DEF Line
<1>0. /\ watch \in WatchState /\ dg \in [Logins -> Session] /\ owner \in Owner
      /\ events \in Seq(WatchEvent) /\ owner.login \in 0 .. MaxLogins /\ MaxLogins \in Nat
  BY DEF WTypes, WatchAssumption, Owner
<1>l. owner.at # "out" => owner.login \in Logins
  BY <1>0 DEF Reads, Logins
<1>n. ASSUME NEW s \in Logins, ~Used(s)
      PROVE  \A i \in DOMAIN events : events[i].of # s
  BY <1>n DEF Ahead
<1>1. CASE Open
  <2>1. /\ owner.at = "out" /\ owner.login + 1 \in Logins /\ UNCHANGED <<events, astray>>
        /\ dg' = Conn(owner.login + 1, "opening")
        /\ watch' = [watch EXCEPT !.session = owner.login + 1]
    BY <1>0, <1>1 DEF Open, Logins
  <2>2. /\ watch'.session = owner.login + 1 /\ watch'.down = watch.down
        /\ watch'.stoodDown = watch.stoodDown
    BY <1>0, <2>1 DEF WatchState
  <2>3. dg'[owner.login + 1].conn = "opening"
    BY <1>0, <2>1, ConnSets DEF Conns
  <2>4. ~Used(owner.login + 1)
    BY <1>0, <2>1 DEF Used
  <2>5. \A i \in DOMAIN events' : ~Speaks(i)'
    BY <1>n, <2>1, <2>2, <2>4 DEF Speaks
  <2>6. watch'.down = TRUE \/ slipped'
    BY <1>0, <1>1, <2>1, <2>2 DEF Line, WatchState, Open
  <2> QED
    BY <2>2, <2>3, <2>5, <2>6 DEF Line, LastSpeaks
<1>2. CASE OpenEnds
  <2>1. /\ owner.at = "opening" /\ watch' = watch /\ astray' = astray /\ owner.login \in Logins
        /\ \/ owner'.at = "in" /\ dg' = Conn(owner.login, "ready")
              /\ Emits(owner.login, <<"ready">>)
           \/ /\ events' = events
              /\ \/ \E c \in {"bare", "closed"} : dg' = Conn(owner.login, c)
                 \/ dg' = CutOff(owner.login, RefusedNow(owner.login))
        /\ slipped' = slipped
    BY <1>0, <1>2, <1>l DEF OpenEnds, Reporting, Owner
  <2>2. watch.session = owner.login /\ (watch.down = TRUE \/ slipped)
    BY <1>0, <2>1 DEF Reads, Line, WatchState
  <2>3. ~Used(owner.login)
    BY <1>0, <2>1 DEF Used
  <2>4. CASE owner'.at = "in" /\ dg' = Conn(owner.login, "ready") /\ Emits(owner.login, <<"ready">>)
    <3>1. dg'[owner.login].conn = "ready"
      BY <1>0, <2>1, <2>4, ConnSets DEF Conns
    <3>2. /\ Len(events') \in DOMAIN events' /\ DOMAIN events' = 1 .. Len(events')
          /\ events'[Len(events')].of = owner.login /\ events'[Len(events')].kind = "ready"
          /\ Len(events') \in Nat
      BY <2>1, <2>4, OneMore DEF EventKinds, More
    <3>3. PICK j \in DOMAIN events' : j = Len(events')
      BY <3>2
    <3>4. Speaks(j)' /\ \A k \in DOMAIN events' : ~(k > j)
      BY <2>1, <2>2, <3>2, <3>3 DEF Speaks
    <3>5. DOMAIN events' \subseteq Nat
      BY <3>2
    <3>6. owner'.at # "in" => watch'.down \/ slipped'
      BY <2>4
    <3>7. events'[j].kind = "ready" <=> dg'[watch'.session].conn = "ready"
      BY <2>1, <2>2, <3>1, <3>2, <3>3
    <3> QED
      BY <3>4, <3>5, <3>6, <3>7, LineSpoken
  <2>5. CASE events' = events /\ (\/ \E c \in {"bare", "closed"} : dg' = Conn(owner.login, c)
                                  \/ dg' = CutOff(owner.login, RefusedNow(owner.login)))
    <3>1. dg'[owner.login].conn \in {"bare", "closed"}
      BY <1>0, <2>1, <2>5, ConnSets, RefusedSets DEF Conns
    <3>2. \A i \in DOMAIN events' : ~Speaks(i)'
      BY <1>n, <2>1, <2>2, <2>3, <2>5 DEF Speaks
    <3> QED
      BY <2>1, <2>2, <3>1, <3>2 DEF Line, LastSpeaks
  <2> QED
    BY <2>1, <2>4, <2>5
<1>3. ASSUME watch'.session = 0, watch'.down \/ slipped'
      PROVE  Line'
  BY <1>3 DEF Line
<1>4. CASE GiveUp
  BY <1>0, <1>3, <1>4 DEF GiveUp, Unwatched, WatchState, Line
<1>5. CASE CloseFailed \/ CloseLeft
  BY <1>3, <1>5 DEF CloseFailed, CloseLeft, Reporting, Reads, Line
<1>6. CASE CloseLast
  BY <1>6 DEF CloseLast, Reporting, Reads
<1>7. CASE LogOut
  BY <1>0, <1>7, OutageStarts DEF LogOut, WatchState, Owner, Line
<1>8. CASE StandDown
  BY <1>0, <1>8 DEF StandDown, WatchState
<1>9. ASSUME NEW s \in Logins, SessionMoves(s)
      PROVE  Line'
  BY <1>9, LineMoves
<1>10. ASSUME NEW i \in DOMAIN events, Handler(i)
       PROVE  Line'
  BY <1>10, LineHandles
<1>11. ASSUME NEW n \in Outages, FireReport(n) \/ CaptureError(n)
       PROVE  Line'
  BY <1>11, ReportRuns DEF Line, LastSpeaks, Speaks
<1> QED
  BY <1>1, <1>2, <1>4, <1>5, <1>6, <1>7, <1>8, <1>9, <1>10, <1>11
  DEF WatchNext, OwnerSteps, Reports, EventHandlers, Discordgo, SessionMoves, Handler

LEMMA WatchInvStep ==
  ASSUME WatchAssumption, WatchInv, WatchNext
  PROVE  WatchInv'
<1>1. WTypes'
  BY WTypesStep DEF WatchInv
<1>2. Reads'
  BY ReadsStep DEF WatchInv
<1>3. Ahead' /\ Out'
  BY AheadOutStep DEF WatchInv
<1>4. Left'
  BY LeftStep DEF WatchInv
<1>5. Past'
  BY PastStep DEF WatchInv
<1>6. Line'
  BY LineStep
<1> QED
  BY <1>1, <1>2, <1>3, <1>4, <1>5, <1>6 DEF WatchInv

LEMMA WatchSteady ==
  ASSUME WatchInv, UNCHANGED watchVars
  PROVE  WatchInv'
  BY DEF WatchInv, watchVars, WTypes, Reads, Ahead, Used, Out, Left, LeftBefore, LeftLast,
         LeftOpen, LeftFailed, Parted, Heard, NoReady, Past, Line, LastSpeaks, Speaks

(* The account's line is told as it is: it is down whenever its account is *)
(* offline and only then, once its handlers have run; an outage Sentry     *)
(* hears of is said over; a refused session logs in no more and its        *)
(* refusal is told, unless its recorder has left it.                       *)
THEOREM WatchRight == Spec => []WatchTells
<1>1. Init => WatchInv
  BY WatchInvInit, WatchAssumption DEF Init
<1>2. WatchInv /\ [Next]_all => WatchInv'
  BY WatchInvStep, WatchSteady, WatchAssumption DEF Next, OfFiles, OfList, OfAviator,
     OfWatch, BesideFiles, BesideList, BesideAviator, BesideTrack, all
<1>3. WatchInv => WatchTells
  BY WatchInvTells, WatchAssumption
<1> QED
  BY <1>1, <1>2, <1>3, PTL DEF Spec

-----------------------------------------------------------------------------
(* The track: where a timestamp of the speaker's stream lies after the     *)
(* stream's base, where the stream and the recording stand by its packets, *)
(* and the types.                                                          *)
Virt(ts) == (ts - speaker.base) % Modulus
VEnd == speaker.until - speaker.stood
SpokenTo == placed.spoken + (trk.granule - placed.at)
Packet == [n : 1 .. MaxSent, ssrc : {1, 2}, len : Lengths, spoken : Nat, ts : 0 .. (Modulus - 1)]
Track == [started : BOOLEAN, ssrc : 0 .. 2, nextTS : 0 .. (Modulus - 1), granule : Nat,
          pageGranule : Nat, pending : BOOLEAN, closed : BOOLEAN]
Speaker == [ssrc : {1, 2}, base : 0 .. (Modulus - 1), stood : Nat, until : Nat]
Placed == [n : 0 .. MaxSent, at : Nat, spoken : Nat]
KTypes ==
  /\ clock \in 0 .. MaxClock /\ sent \in 0 .. MaxSent
  /\ speaker \in Speaker
  /\ net \subseteq Packet /\ trk \in Track
  /\ placed \in Placed
  /\ speaker.stood <= speaker.until /\ speaker.until <= clock

(* A packet on its way is of the stream there is, not late beyond the      *)
(* network's delay, and its timestamp is no further than what was spoken.  *)
OnWay ==
  \A p \in net :
    /\ p.n <= sent /\ p.ssrc = speaker.ssrc /\ clock <= p.spoken + p.len + MaxDelay
    /\ p.spoken + p.len <= speaker.until
    /\ Virt(p.ts) + p.len <= VEnd
    /\ Virt(p.ts) <= p.spoken /\ p.spoken - Virt(p.ts) <= speaker.stood

(* Timestamps grow with the packets, and no faster than the time spoken.   *)
SentInOrder ==
  \A p, q \in net :
    /\ p.n < q.n => /\ Virt(p.ts) + p.len <= Virt(q.ts) /\ p.spoken + p.len <= q.spoken
                    /\ p.spoken - Virt(p.ts) <= q.spoken - Virt(q.ts)
    /\ p.n = q.n => p = q

(* The track is behind the speaker, and its next timestamp parts the       *)
(* packets of its stream that it kept or dropped from those to come.       *)
Behind ==
  /\ trk.started \/ trk.closed \/ (placed.n = 0 /\ trk = NewTrack)
  /\ trk.started /\ ~trk.closed =>
       /\ trk.pageGranule <= trk.granule /\ placed.n <= sent
       /\ trk.ssrc = 1 \/ trk.ssrc = speaker.ssrc
       /\ placed.at < trk.granule /\ trk.granule <= placed.at + Longest
       /\ SpokenTo <= speaker.until
       /\ placed.at <= placed.spoken + Longest + MaxDelay
       /\ \A p \in net : p.n > placed.n => p.spoken >= SpokenTo
       /\ trk.ssrc # speaker.ssrc => \A p \in net : p.n > placed.n
       /\ trk.ssrc = speaker.ssrc =>
            /\ Virt(trk.nextTS) <= VEnd
            /\ Virt(trk.nextTS) <= SpokenTo /\ SpokenTo - Virt(trk.nextTS) <= speaker.stood
            /\ \A p \in net :
                 /\ p.n > placed.n => /\ Virt(p.ts) >= Virt(trk.nextTS)
                                      /\ p.spoken - Virt(p.ts) >= SpokenTo - Virt(trk.nextTS)
                 /\ p.n <= placed.n => Virt(p.ts) + p.len <= Virt(trk.nextTS)
TrackInv == KTypes /\ OnWay /\ SentInOrder /\ Behind

(* What TrackHolds says of a step.                                         *)
TrackStepHolds ==
   /\ placed' # placed =>
          /\ placed'.n > placed.n
          /\ placed'.at <= placed'.spoken + Longest + MaxDelay
          /\ placed'.at > placed'.spoken - MaxDrift - Silence
   /\ trk'.pageGranule >= trk.pageGranule
   /\ trk'.closed /\ ~trk.closed =>
          /\ trk'.pending
          /\ trk'.granule = IF clock > trk.pageGranule THEN clock ELSE trk.pageGranule

(* The remainder of what is less than a whole space away.                  *)
LEMMA Wraps ==
  ASSUME TrackAssumption, NEW x \in Int
  PROVE  /\ x \in 0 .. (Modulus - 1) => x % Modulus = x
         /\ x \in Modulus .. (2 * Modulus - 1) => x % Modulus = x - Modulus
         /\ x \in (-Modulus) .. (-1) => x % Modulus = x + Modulus
  BY DEF TrackAssumption

(* A set of numbers that is not empty has a least one.                     *)
LEMMA Least ==
  ASSUME NEW T \in SUBSET Nat, T # {}
  PROVE  \E x \in T : \A y \in T : x <= y
<1> DEFINE R == {ss \in Nat \X Nat : ss[1] < ss[2]}
<1>1. IsWellFoundedOn(R, Nat)
  BY NatLessThanWellFounded, Zenon DEF OpToRel
<1>2. PICK x \in T : \A y \in T : ~ (<<y, x>> \in R)
  BY <1>1, WFMin
<1>3. \A y \in T : <<y, x>> \in R <=> y < x
  OBVIOUS
<1> HIDE DEF R
<1>4. \A y \in T : y \in Nat /\ ~(y < x)
  BY <1>2, <1>3
<1> QED
  BY <1>4

(* The longest packet is one.                                              *)
LEMMA LongestIs ==
  ASSUME TrackAssumption, Lengths # {}
  PROVE  Longest \in Nat \ {0} /\ \A m \in Lengths : m <= Longest
<1> DEFINE Bare == {S \in SUBSET Lengths : S # {} /\ ~ \E n \in S : \A m \in S : m <= n}
           Sizes == {Cardinality(S) : S \in Bare}
<1>0. Lengths \subseteq Nat \ {0} /\ IsFiniteSet(Lengths)
  BY DEF TrackAssumption
<1>f. ASSUME NEW S \in SUBSET Lengths PROVE IsFiniteSet(S) /\ Cardinality(S) \in Nat
  BY <1>0, FS_Subset, FS_CardinalityType
<1>1. ASSUME NEW S \in Bare PROVE FALSE
  <2>1. Sizes \in SUBSET Nat /\ Sizes # {}
    BY <1>1, <1>f
  <2>2. PICK T \in Bare : \A U \in Bare : Cardinality(T) <= Cardinality(U)
    <3>1. PICK x \in Sizes : \A y \in Sizes : x <= y
      BY <2>1, Least
    <3> QED
      BY <3>1
  <2>3. PICK x \in T : TRUE
    OBVIOUS
  <2>4. /\ T \ {x} \in SUBSET Lengths /\ Cardinality(T) \in Nat
        /\ Cardinality(T \ {x}) = Cardinality(T) - 1
    BY <1>f, FS_RemoveElement
  <2>5. T \ {x} \notin Bare
    <3> DEFINE U == T \ {x}
    <3>1. U \in Bare => Cardinality(T) <= Cardinality(U)
      BY <2>2
    <3>2. Cardinality(U) = Cardinality(T) - 1 /\ Cardinality(T) \in Nat
      BY <2>4
    <3> HIDE DEF U, Bare
    <3>3. U \notin Bare
      BY <3>1, <3>2
    <3> QED
      BY <3>3 DEF U
  <2>6. CASE T \ {x} = {}
    BY <1>0, <2>3, <2>6
  <2>7. CASE T \ {x} # {}
    BY <1>0, <2>3, <2>4, <2>5, <2>7
  <2> QED
    BY <2>6, <2>7
<1>2. \E n \in Lengths : \A m \in Lengths : m <= n
  BY <1>1
<1> QED
  BY <1>0, <1>2 DEF Longest

(* Where a timestamp of the stream lies, counted from its base.            *)
LEMMA VirtIs ==
  ASSUME TrackAssumption, KTypes, NEW ts \in 0 .. (Modulus - 1)
  PROVE  /\ Virt(ts) \in 0 .. (Modulus - 1)
         /\ \/ ts = speaker.base + Virt(ts)
            \/ ts = speaker.base + Virt(ts) - Modulus
<1>1. speaker.base \in 0 .. (Modulus - 1) /\ Modulus \in Nat /\ Modulus > 0
  BY DEF KTypes, TrackAssumption, Speaker
<1> DEFINE x == ts - speaker.base
<1>2. x \in Int /\ (x \in 0 .. (Modulus - 1) \/ x \in (-Modulus) .. (-1)) /\ Virt(ts) = x % Modulus
  BY <1>1 DEF Virt
<1>3. /\ x \in 0 .. (Modulus - 1) => x % Modulus = x
      /\ x \in (-Modulus) .. (-1) => x % Modulus = x + Modulus
  BY <1>2, Wraps
<1>4. Virt(ts) = x \/ Virt(ts) = x + Modulus
  BY <1>2, <1>3
<1> QED
  BY <1>1, <1>2, <1>3, <1>4

(* The timestamp v after the base.                                         *)
LEMMA VirtOf ==
  ASSUME TrackAssumption, KTypes, NEW v \in 0 .. MaxClock
  PROVE  LET ts == (speaker.base + v) % Modulus IN
         ts \in 0 .. (Modulus - 1) /\ Virt(ts) = v
<1>1. /\ speaker.base \in 0 .. (Modulus - 1) /\ Modulus \in Nat /\ Modulus > 2 * MaxClock
      /\ MaxClock \in Nat
  BY DEF KTypes, TrackAssumption, Speaker
<1> DEFINE ts == (speaker.base + v) % Modulus
<1>2. ts = speaker.base + v \/ ts = speaker.base + v - Modulus
  BY <1>1, Wraps
<1>3. ts \in 0 .. (Modulus - 1)
  BY <1>1
<1> HIDE DEF ts
<1>4. Virt(ts) \in 0 .. (Modulus - 1)
      /\ (ts = speaker.base + Virt(ts) \/ ts = speaker.base + Virt(ts) - Modulus)
  BY <1>3, VirtIs
<1>5. Virt(ts) = v
  BY <1>1, <1>2, <1>4
<1> QED
  BY <1>3, <1>5 DEF ts

(* A difference of timestamps read as signed is the distance between them. *)
LEMMA SignedIs ==
  ASSUME TrackAssumption, KTypes, NEW a \in 0 .. (Modulus - 1), NEW b \in 0 .. (Modulus - 1),
         Virt(a) <= MaxClock, Virt(b) <= MaxClock
  PROVE  Signed(a - b) = Virt(a) - Virt(b)
<1>1. /\ speaker.base \in 0 .. (Modulus - 1) /\ Modulus \in Nat /\ Modulus > 2 * MaxClock
      /\ MaxClock \in Nat
  BY DEF KTypes, TrackAssumption, Speaker
<1>2. Virt(a) \in 0 .. (Modulus - 1)
      /\ (a = speaker.base + Virt(a) \/ a = speaker.base + Virt(a) - Modulus)
  BY VirtIs
<1>3. Virt(b) \in 0 .. (Modulus - 1)
      /\ (b = speaker.base + Virt(b) \/ b = speaker.base + Virt(b) - Modulus)
  BY VirtIs
<1> DEFINE x == a - b
           m == x % Modulus
<1>4. x \in Int /\ (x \in 0 .. (Modulus - 1) \/ x \in (-Modulus) .. (-1))
  BY <1>1
<1>5. /\ x \in 0 .. (Modulus - 1) => m = x
      /\ x \in (-Modulus) .. (-1) => m = x + Modulus
  BY <1>4, Wraps
<1>6. Signed(a - b) = IF 2 * m >= Modulus THEN m - Modulus ELSE m
  BY DEF Signed
<1>7. x = Virt(a) - Virt(b) \/ x = Virt(a) - Virt(b) - Modulus \/ x = Virt(a) - Virt(b) + Modulus
  BY <1>1, <1>2, <1>3
<1> HIDE DEF x, m
<1> QED
  BY <1>1, <1>2, <1>3, <1>4, <1>5, <1>6, <1>7

(* What the proofs of the steps start from.                                *)
TrackSays ==
  /\ speaker \in Speaker /\ trk \in Track /\ placed \in Placed /\ net \subseteq Packet
  /\ clock \in 0 .. MaxClock /\ sent \in 0 .. MaxSent
  /\ MaxClock \in Nat /\ MaxSent \in Nat /\ MaxDelay \in Nat /\ MaxDrift \in Nat
  /\ Silence \in Nat \ {0}
  /\ Modulus \in Nat /\ Modulus > 2 * MaxClock /\ Lengths \subseteq Nat \ {0}
  /\ VEnd \in 0 .. MaxClock /\ speaker.until <= clock /\ speaker.stood <= speaker.until
  /\ \A p \in net : /\ p.len \in Nat \ {0} /\ p.spoken \in Nat /\ p.n \in Nat
                    /\ p.ts \in 0 .. (Modulus - 1)
                    /\ Virt(p.ts) \in Nat /\ Virt(p.ts) + p.len <= MaxClock
LEMMA TrackFacts ==
  ASSUME TrackAssumption, TrackInv
  PROVE  TrackSays
<1>1. KTypes /\ OnWay
  BY DEF TrackInv
<1>2. VEnd \in 0 .. MaxClock
  BY <1>1 DEF KTypes, Speaker, VEnd, TrackAssumption
<1>3. ASSUME NEW p \in net
      PROVE  /\ p.len \in Nat \ {0} /\ p.spoken \in Nat /\ p.n \in Nat
             /\ p.ts \in 0 .. (Modulus - 1)
             /\ Virt(p.ts) \in Nat /\ Virt(p.ts) + p.len <= MaxClock
  <2>1. p \in Packet
    BY <1>1 DEF KTypes
  <2>2. p.len \in Nat \ {0} /\ p.spoken \in Nat /\ p.n \in Nat /\ p.ts \in 0 .. (Modulus - 1)
    <3>1. MaxSent \in Nat /\ Lengths \subseteq Nat \ {0}
      BY DEF TrackAssumption
    <3>2. p.n \in 1 .. MaxSent /\ p.len \in Lengths /\ p.spoken \in Nat
          /\ p.ts \in 0 .. (Modulus - 1)
      BY <2>1 DEF Packet
    <3>3. p.n \in Nat /\ p.len \in Nat \ {0}
      <4>1. \A i \in 1 .. MaxSent : i \in Nat
        BY <3>1
      <4> QED
        BY <3>1, <3>2, <4>1
    <3> QED
      BY <3>2, <3>3
  <2>3. Virt(p.ts) \in 0 .. (Modulus - 1) /\ Modulus \in Nat
    BY <1>1, <2>2, VirtIs DEF TrackAssumption
  <2>4. Virt(p.ts) + p.len <= VEnd
    BY <1>1 DEF OnWay
  <2> QED
    BY <1>2, <2>2, <2>3, <2>4 DEF TrackAssumption
<1> QED
  BY <1>1, <1>2, <1>3 DEF TrackSays, KTypes, TrackAssumption

LEMMA TrackInvInit ==
  ASSUME TrackAssumption, TrackInit
  PROVE  TrackInv
  BY DEF TrackInit, TrackAssumption, Speaker, NewTrack, Track, NonePlaced, Placed,
     TrackInv, KTypes, OnWay, SentInOrder, Behind

(* Steps that leave the stream and the track as they are.                  *)
LEMMA TrackTick ==
  ASSUME TrackAssumption, TrackInv, Tick
  PROVE  TrackInv'
<1>1. TrackSays
  BY TrackFacts
<1>2. ASSUME NEW p \in net PROVE clock' <= p.spoken + p.len + MaxDelay
  BY <1>1, <1>2 DEF Tick, Late, TrackSays
<1>3. /\ UNCHANGED <<speaker, sent, net, trk, placed>>
      /\ clock' = clock + 1 /\ clock' \in 0 .. MaxClock
  BY <1>1 DEF Tick, TrackSays
<1>4. KTypes'
  BY <1>1, <1>3 DEF TrackInv, KTypes, TrackSays, Speaker
<1>5. OnWay'
  BY <1>2, <1>3 DEF TrackInv, OnWay, Virt, VEnd
<1>6. SentInOrder' /\ Behind'
  BY <1>3 DEF TrackInv, SentInOrder, Behind, Virt, VEnd, SpokenTo
<1> QED
  BY <1>4, <1>5, <1>6 DEF TrackInv

LEMMA TrackLose ==
  ASSUME TrackAssumption, TrackInv, NEW p \in net, Lose(p)
  PROVE  TrackInv'
BY DEF Lose, TrackInv, KTypes, OnWay, SentInOrder, Behind, Virt, VEnd, SpokenTo

LEMMA TrackPage ==
  ASSUME TrackAssumption, TrackInv, Page
  PROVE  TrackInv' /\ TrackStepHolds
<1>1. TrackSays
  BY TrackFacts
<1>2. /\ trk' \in Track /\ trk'.started = trk.started /\ trk'.ssrc = trk.ssrc
      /\ trk'.nextTS = trk.nextTS
      /\ trk'.granule = trk.granule /\ trk'.pageGranule = trk.granule
      /\ ~trk'.closed /\ ~trk.closed /\ trk.pending
  BY <1>1 DEF TrackSays, Page, Track
<1>3. trk.started
  BY <1>1, <1>2 DEF TrackInv, Behind, NewTrack
<1>4. /\ UNCHANGED <<clock, speaker, sent, net, placed>>
  BY DEF Page
<1>5. trk.granule \in Nat /\ trk.pageGranule \in Nat
  BY <1>1 DEF TrackSays, Track
<1>6. KTypes' /\ OnWay' /\ SentInOrder'
  BY <1>2, <1>4 DEF TrackInv, KTypes, OnWay, SentInOrder, Virt, VEnd
<1>7. Behind'
  BY <1>2, <1>3, <1>4, <1>5 DEF TrackInv, Behind, Virt, VEnd, SpokenTo
<1> QED
  BY <1>2, <1>3, <1>4, <1>5, <1>6, <1>7 DEF TrackInv, TrackStepHolds, Behind

LEMMA TrackClose ==
  ASSUME TrackAssumption, TrackInv, Close
  PROVE  TrackInv' /\ TrackStepHolds
<1>1. TrackSays
  BY TrackFacts
<1> DEFINE t == Ended(trk, clock)
           short == IF clock > trk.granule THEN clock - trk.granule ELSE 0
           frames == (short + Silence - 1) \div Silence
           n == IF frames = 0 /\ ~trk.pending THEN 1 ELSE frames
<1>2. trk.granule \in Nat /\ trk.pageGranule \in Nat /\ trk.pending \in BOOLEAN /\ clock \in Nat
  BY <1>1 DEF TrackSays, Track
<1>3. frames \in Nat /\ n \in Nat
  BY <1>1, <1>2 DEF TrackSays
<1>4. t = [trk EXCEPT !.granule = trk.granule + n * Silence, !.pending = trk.pending \/ n > 0]
  BY DEF Ended
<1>5. n * Silence \in Nat
  BY <1>1, <1>3 DEF TrackSays
<1>6. trk.pending \/ n > 0
  BY <1>2, <1>3
<1> HIDE DEF n, frames, short
<1>7. t \in Track /\ t.pending /\ t.pageGranule = trk.pageGranule /\ t.started = trk.started
  <2>1. trk.granule + n * Silence \in Nat
    BY <1>2, <1>5
  <2> HIDE DEF t
  <2> QED
    BY <1>1, <1>4, <1>6, <2>1 DEF TrackSays, Track
<1>8. trk' = [t EXCEPT !.closed = TRUE, !.granule = ClosedAt(t, clock),
                       !.pageGranule = ClosedAt(t, clock)]
  BY DEF Close
<1> HIDE DEF t
<1>9. ClosedAt(t, clock) = IF clock > trk.pageGranule THEN clock ELSE trk.pageGranule
  BY <1>7 DEF ClosedAt
<1>10. ClosedAt(t, clock) \in Nat /\ ClosedAt(t, clock) >= trk.pageGranule
  BY <1>2, <1>9
<1>11. /\ trk' \in Track /\ trk'.closed /\ trk'.pending /\ trk'.pageGranule = ClosedAt(t, clock)
       /\ trk'.granule = ClosedAt(t, clock)
  BY <1>7, <1>8, <1>10 DEF Track
<1>12. UNCHANGED <<clock, speaker, sent, net, placed>>
  BY DEF Close
<1>13. KTypes' /\ OnWay' /\ SentInOrder'
  BY <1>11, <1>12 DEF TrackInv, KTypes, OnWay, SentInOrder, Virt, VEnd
<1>14. Behind'
  BY <1>11 DEF Behind
<1> QED
  BY <1>9, <1>10, <1>11, <1>12, <1>13, <1>14 DEF TrackInv, TrackStepHolds

LEMMA TrackRejoin ==
  ASSUME TrackAssumption, TrackInv, Rejoin
  PROVE  TrackInv'
<1>1. TrackSays
  BY TrackFacts
<1>2. /\ net = {} /\ net' = {} /\ speaker.ssrc = 1 /\ UNCHANGED <<clock, sent, trk, placed>>
      /\ speaker' \in Speaker /\ speaker'.ssrc = 2 /\ speaker'.stood = 0 /\ speaker'.until = clock
  BY <1>1 DEF Rejoin, TrackSays, Speaker, TrackAssumption
<1>3. KTypes'
  BY <1>1, <1>2 DEF TrackInv, KTypes, TrackSays
<1>4. OnWay' /\ SentInOrder'
  BY <1>2 DEF OnWay, SentInOrder
<1>5. Behind'
  BY <1>1, <1>2 DEF TrackSays, Speaker, SpokenTo, TrackInv, Behind, Placed, Track
<1> QED
  BY <1>3, <1>4, <1>5 DEF TrackInv

(* A packet goes out.                                                      *)
LEMMA TrackSpeak ==
  ASSUME TrackAssumption, TrackInv, NEW len \in Lengths, Speak(len)
  PROVE  TrackInv'
<1>1. TrackSays
  BY TrackFacts
<1>2. PICK stood \in {speaker.stood, speaker.stood + clock - len - speaker.until} :
        /\ speaker' = [speaker EXCEPT !.stood = stood, !.until = clock]
        /\ net' = net \cup {[n |-> sent + 1, ssrc |-> speaker.ssrc, len |-> len,
                             spoken |-> clock - len,
                             ts |-> (speaker.base + clock - len - stood) % Modulus]}
  BY DEF Speak
<1>3. /\ sent' = sent + 1 /\ sent' \in 0 .. MaxSent /\ speaker.until + len <= clock
      /\ len \in Nat \ {0}
      /\ UNCHANGED <<clock, trk, placed>> /\ ~trk.closed
  BY <1>1 DEF Speak, TrackSays
<1>4. /\ speaker.stood \in Nat /\ speaker.until \in Nat /\ speaker.base \in 0 .. (Modulus - 1)
      /\ speaker.ssrc \in {1, 2}
  BY <1>1 DEF TrackSays, Speaker
<1>5. stood \in Nat /\ stood >= speaker.stood /\ stood <= clock - len
  BY <1>1, <1>3, <1>4 DEF TrackSays
<1>6. /\ speaker' \in Speaker /\ speaker'.ssrc = speaker.ssrc /\ speaker'.base = speaker.base
      /\ speaker'.stood = stood /\ speaker'.until = clock
  <2>1. clock \in Nat /\ stood \in Nat
    BY <1>1, <1>5 DEF TrackSays
  <2> QED
    BY <1>1, <1>2, <2>1 DEF TrackSays, Speaker
<1>v. PICK v : v = clock - len - stood
  OBVIOUS
<1>t. PICK ts : ts = (speaker.base + v) % Modulus
  OBVIOUS
<1>q. PICK q : q = [n |-> sent + 1, ssrc |-> speaker.ssrc, len |-> len, spoken |-> clock - len,
                    ts |-> ts]
  OBVIOUS
<1>7. v = clock - stood - len /\ v \in 0 .. MaxClock /\ v >= VEnd /\ VEnd' = v + len
  BY <1>1, <1>3, <1>4, <1>5, <1>6, <1>v DEF TrackSays, VEnd
<1>8. net' = net \cup {q}
  BY <1>1, <1>2, <1>3, <1>4, <1>5, <1>7, <1>q, <1>t DEF TrackSays
<1>9. ts \in 0 .. (Modulus - 1) /\ Virt(ts) = v
  BY <1>7, <1>t, VirtOf DEF TrackInv
<1>10. \A x : Virt(x)' = (x - speaker.base) % Modulus
  BY <1>6 DEF Virt
<1>11. /\ q \in Packet /\ q.n = sent + 1 /\ q.ssrc = speaker.ssrc /\ q.len = len
       /\ q.spoken = clock - len /\ q.ts = ts
  BY <1>1, <1>3, <1>4, <1>9, <1>q DEF Packet, TrackSays
<1>12. KTypes'
  BY <1>1, <1>3, <1>6, <1>8, <1>11, <1>5 DEF TrackInv, KTypes, TrackSays
<1>13. \A p \in net : p.n <= sent /\ p.spoken + p.len <= speaker.until /\ Virt(p.ts) + p.len <= VEnd
                      /\ p.spoken - Virt(p.ts) <= speaker.stood
  BY DEF TrackInv, OnWay
<1>14. \A p \in net : Virt(p.ts)' = Virt(p.ts)
  BY <1>10 DEF Virt
<1>15. Virt(q.ts)' = v
  BY <1>9, <1>10, <1>11 DEF Virt
<1>16. OnWay'
  <2> SUFFICES ASSUME NEW p \in net'
               PROVE  /\ p.n <= sent' /\ p.ssrc = speaker'.ssrc
                      /\ clock' <= p.spoken + p.len + MaxDelay
                      /\ p.spoken + p.len <= speaker'.until
                      /\ Virt(p.ts)' + p.len <= VEnd'
                      /\ Virt(p.ts)' <= p.spoken /\ p.spoken - Virt(p.ts)' <= speaker'.stood
    BY DEF OnWay
  <2>1. CASE p \in net
    BY <1>1, <1>3, <1>4, <1>5, <1>6, <1>7, <1>14, <2>1 DEF TrackInv, OnWay, TrackSays
  <2>2. CASE p = q
    BY <1>1, <1>3, <1>4, <1>5, <1>6, <1>7, <1>11, <1>15, <2>2 DEF TrackSays
  <2> QED
    BY <1>8, <2>1, <2>2
<1>17. SentInOrder'
  <2> DEFINE Keeps(p, r) ==
        /\ p.n < r.n => /\ Virt(p.ts)' + p.len <= Virt(r.ts)' /\ p.spoken + p.len <= r.spoken
                        /\ p.spoken - Virt(p.ts)' <= r.spoken - Virt(r.ts)'
        /\ p.n = r.n => p = r
  <2>1. ASSUME NEW p \in net, NEW r \in net PROVE Keeps(p, r)
    BY <1>14 DEF TrackInv, SentInOrder
  <2>2. ASSUME NEW p \in net PROVE p.n < q.n /\ Keeps(p, q) /\ Keeps(q, p)
    BY <1>1, <1>3, <1>4, <1>5, <1>7, <1>11, <1>13, <1>14, <1>15 DEF TrackSays
  <2>3. Keeps(q, q)
    BY <1>1, <1>11 DEF TrackSays
  <2>4. \A p, r \in net' : Keeps(p, r)
    BY <1>8, <2>1, <2>2, <2>3
  <2> QED
    BY <2>4 DEF SentInOrder
<1>18. Behind'
  <2>1. SpokenTo' = SpokenTo /\ SpokenTo \in Int
    BY <1>1, <1>3 DEF SpokenTo, TrackSays, Track, Placed
  <2>2. trk.started \/ (placed.n = 0 /\ trk = NewTrack)
    BY <1>3 DEF TrackInv, Behind
  <2>3. trk.nextTS \in 0 .. (Modulus - 1) /\ Virt(trk.nextTS)' = Virt(trk.nextTS)
        /\ Virt(trk.nextTS) \in Nat
    BY <1>1, <1>3, <1>6, VirtIs DEF TrackSays, Track, TrackInv, Virt
  <2>4. ASSUME trk.started
        PROVE /\ trk.pageGranule <= trk.granule /\ placed.n <= sent'
              /\ trk.ssrc = 1 \/ trk.ssrc = speaker.ssrc
              /\ placed.at < trk.granule /\ trk.granule <= placed.at + Longest
              /\ SpokenTo <= speaker.until /\ SpokenTo <= clock
              /\ placed.at <= placed.spoken + Longest + MaxDelay
              /\ \A p \in net : p.n > placed.n => p.spoken >= SpokenTo
              /\ trk.ssrc # speaker.ssrc => \A p \in net : p.n > placed.n
              /\ q.spoken >= SpokenTo /\ q.n > placed.n
    BY <1>1, <1>3, <1>4, <1>11, <2>1, <2>4 DEF TrackSays, Placed, TrackInv, Behind
  <2>5. ASSUME trk.started, trk.ssrc = speaker.ssrc
        PROVE /\ Virt(trk.nextTS) <= VEnd'
              /\ Virt(trk.nextTS) <= SpokenTo /\ SpokenTo - Virt(trk.nextTS) <= speaker'.stood
              /\ \A p \in net :
                   /\ p.n > placed.n => /\ Virt(p.ts) >= Virt(trk.nextTS)
                                        /\ p.spoken - Virt(p.ts) >= SpokenTo - Virt(trk.nextTS)
                   /\ p.n <= placed.n => Virt(p.ts) + p.len <= Virt(trk.nextTS)
              /\ v >= Virt(trk.nextTS) /\ q.spoken - v >= SpokenTo - Virt(trk.nextTS)
    <3>1. /\ Virt(trk.nextTS) <= VEnd
          /\ Virt(trk.nextTS) <= SpokenTo /\ SpokenTo - Virt(trk.nextTS) <= speaker.stood
      BY <1>3, <2>5 DEF TrackInv, Behind
    <3>2. q.spoken - v = stood
      BY <1>1, <1>3, <1>4, <1>5, <1>7, <1>11 DEF TrackSays
    <3>3. \A p \in net :
                   /\ p.n > placed.n => /\ Virt(p.ts) >= Virt(trk.nextTS)
                                        /\ p.spoken - Virt(p.ts) >= SpokenTo - Virt(trk.nextTS)
                   /\ p.n <= placed.n => Virt(p.ts) + p.len <= Virt(trk.nextTS)
      BY <1>3, <2>5 DEF TrackInv, Behind
    <3> QED
      BY <1>1, <1>3, <1>4, <1>5, <1>6, <1>7, <2>1, <2>3, <3>1, <3>2, <3>3 DEF TrackSays
  <2>6. UNCHANGED <<trk, placed>> /\ speaker'.ssrc = speaker.ssrc /\ speaker'.until = clock
    BY <1>3, <1>6
  <2>7. \A p \in net' : p \in net \/ p = q
    BY <1>8
  <2>8. CASE ~trk.started
    BY <1>3, <2>2, <2>6, <2>8 DEF Behind, NewTrack
  <2>9. CASE trk.started /\ trk.ssrc = speaker.ssrc
    <3>1. \A p \in net' : p.n > placed.n => p.spoken >= SpokenTo
      BY <2>4, <2>7, <2>9
    <3>2. \A p \in net' :
            /\ p.n > placed.n => /\ Virt(p.ts)' >= Virt(trk.nextTS)
                                 /\ p.spoken - Virt(p.ts)' >= SpokenTo - Virt(trk.nextTS)
            /\ p.n <= placed.n => Virt(p.ts)' + p.len <= Virt(trk.nextTS)
      BY <1>1, <1>11, <1>14, <1>15, <2>4, <2>5, <2>7, <2>9 DEF TrackSays, Placed
    <3> QED
      BY <2>1, <2>3, <2>4, <2>5, <2>6, <2>9, <3>1, <3>2 DEF Behind
  <2>10. CASE trk.started /\ trk.ssrc # speaker.ssrc
    BY <2>1, <2>4, <2>6, <2>7, <2>10 DEF Behind
  <2> QED
    BY <2>8, <2>9, <2>10
<1> QED
  BY <1>12, <1>16, <1>17, <1>18 DEF TrackInv

(* The timestamp after a packet lies where the packet ends.                *)
LEMMA AfterIs ==
  ASSUME TrackAssumption, TrackInv, NEW p \in net
  PROVE  After(p) \in 0 .. (Modulus - 1) /\ Virt(After(p)) = Virt(p.ts) + p.len
<1>1. TrackSays
  BY TrackFacts
<1>2. /\ speaker.base \in 0 .. (Modulus - 1) /\ Modulus \in Nat /\ Modulus > 2 * MaxClock
      /\ MaxClock \in Nat /\ KTypes
  BY <1>1 DEF TrackSays, Speaker, TrackInv
<1>3. /\ p.ts \in 0 .. (Modulus - 1) /\ p.len \in Nat \ {0}
      /\ Virt(p.ts) \in Nat /\ Virt(p.ts) + p.len <= MaxClock
  BY <1>1 DEF TrackSays
<1>4. p.ts = speaker.base + Virt(p.ts) \/ p.ts = speaker.base + Virt(p.ts) - Modulus
  BY <1>2, <1>3, VirtIs
<1> DEFINE a == After(p)
<1>5. a \in 0 .. (Modulus - 1) /\ (a = p.ts + p.len \/ a = p.ts + p.len - Modulus)
  BY <1>2, <1>3, Wraps DEF After
<1> HIDE DEF a
<1>6. Virt(a) \in 0 .. (Modulus - 1)
      /\ (a = speaker.base + Virt(a) \/ a = speaker.base + Virt(a) - Modulus)
  BY <1>2, <1>5, VirtIs
<1>7. Virt(a) = Virt(p.ts) + p.len
  BY <1>2, <1>3, <1>4, <1>5, <1>6
<1> QED
  BY <1>5, <1>7 DEF a

(* The silence of a gap is the gap but for part of a frame.                *)
LEMMA FilledIs ==
  ASSUME TrackAssumption, NEW gap \in Int
  PROVE  /\ Filled(gap) \in Nat /\ Filled(gap) > gap - Silence
         /\ gap <= 0 => Filled(gap) = 0
         /\ gap > 0 => Filled(gap) <= gap
  BY DEF TrackAssumption, Filled

(* A packet dropped leaves the track as it is.                             *)
LEMMA TrackDrop ==
  ASSUME TrackAssumption, TrackInv, NEW p \in net, net' \in {net, net \ {p}},
         UNCHANGED <<clock, speaker, sent, trk, placed>>
  PROVE  TrackInv' /\ TrackStepHolds
  BY TrackFacts DEF TrackInv, KTypes, OnWay, SentInOrder, Behind, Virt, VEnd, SpokenTo,
     TrackSays, Track, TrackStepHolds

(* Where a packet that is kept is placed, by the clock or by its           *)
(* timestamp.                                                              *)
LEMMA KeptFacts ==
  ASSUME TrackAssumption, Lengths # {}, TrackInv, NEW p \in net, ~trk.closed,
         NEW same, same = (trk.started /\ p.ssrc = trk.ssrc),
         NEW rtp, rtp = Signed(p.ts - trk.nextTS), ~(same /\ rtp < 0),
         NEW gap, gap = IF same THEN ByEither(rtp, clock - trk.granule) ELSE clock - trk.granule,
         NEW at, at = trk.granule + Filled(gap)
  PROVE  /\ at \in Nat /\ at >= trk.granule /\ p.n > placed.n
         /\ at <= p.spoken + Longest + MaxDelay
         /\ at > p.spoken - MaxDrift - Silence
<1>1. TrackSays
  BY TrackFacts
<1>2. Longest \in Nat /\ p.len <= Longest
  BY LongestIs DEF TrackInv, KTypes, Packet
<1>3. /\ p.ssrc = speaker.ssrc /\ clock <= p.spoken + p.len + MaxDelay
      /\ p.spoken + p.len <= speaker.until
      /\ p.n <= sent /\ Virt(p.ts) <= p.spoken
  BY DEF TrackInv, OnWay
<1>4. /\ trk.granule \in Nat /\ clock \in Nat /\ MaxDrift \in Nat /\ MaxDelay \in Nat
      /\ Silence \in Nat \ {0}
      /\ placed.n \in Nat /\ placed.at \in Nat /\ placed.spoken \in Nat
      /\ p.len \in Nat \ {0} /\ p.spoken \in Nat /\ p.n \in Nat /\ Virt(p.ts) \in Nat
      /\ speaker.until <= clock /\ speaker.until \in Nat /\ trk.nextTS \in 0 .. (Modulus - 1)
      /\ p.ts \in 0 .. (Modulus - 1) /\ Virt(p.ts) <= MaxClock /\ Modulus \in Nat
  BY <1>1 DEF TrackSays, Track, Placed, Speaker
<1>5. p.spoken < clock
  BY <1>3, <1>4
<1>6. CASE ~trk.started
  <2>1. placed.n = 0 /\ trk.granule = 0 /\ gap = clock
    <3>1. placed.n = 0 /\ trk = NewTrack
      BY <1>6 DEF TrackInv, Behind
    <3>2. trk.granule = 0 /\ ~same
      BY <1>6, <3>1 DEF NewTrack
    <3>3. gap = clock - trk.granule
      BY <3>2
    <3> QED
      BY <1>4, <3>1, <3>2, <3>3
  <2>2. p.n \in 1 .. MaxSent /\ MaxSent \in Nat
    BY <1>1 DEF TrackInv, KTypes, Packet, TrackSays
  <2>3. /\ Filled(gap) \in Nat /\ Filled(gap) > gap - Silence /\ Filled(gap) <= gap
    BY <1>4, <2>1, FilledIs
  <2> QED
    BY <1>2, <1>3, <1>4, <1>5, <2>1, <2>2, <2>3
<1>7. CASE trk.started
  <2>1. /\ SpokenTo = placed.spoken + (trk.granule - placed.at)
        /\ placed.at <= placed.spoken + Longest + MaxDelay
        /\ p.n > placed.n => p.spoken >= SpokenTo
        /\ trk.ssrc # speaker.ssrc => p.n > placed.n
    BY <1>7 DEF TrackInv, Behind, SpokenTo
  <2>2. CASE ~same
    <3>1. p.n > placed.n /\ gap = clock - trk.granule
      BY <1>3, <1>7, <2>1, <2>2
    <3>2. /\ Filled(gap) \in Nat /\ Filled(gap) > gap - Silence
          /\ gap <= 0 => Filled(gap) = 0
          /\ gap > 0 => Filled(gap) <= gap
      BY <1>4, <3>1, FilledIs
    <3> QED
      BY <1>2, <1>3, <1>4, <1>5, <2>1, <3>1, <3>2
  <2>3. CASE same
    <3>1. /\ Virt(trk.nextTS) <= VEnd
          /\ p.n > placed.n => /\ Virt(p.ts) >= Virt(trk.nextTS)
                               /\ p.spoken - Virt(p.ts) >= SpokenTo - Virt(trk.nextTS)
          /\ p.n <= placed.n => Virt(p.ts) + p.len <= Virt(trk.nextTS)
      BY <1>3, <1>7, <2>3 DEF TrackInv, Behind
    <3>2. Virt(trk.nextTS) \in Nat /\ Virt(trk.nextTS) <= MaxClock
      BY <1>1, <1>4, <3>1, VirtIs DEF TrackInv, TrackSays
    <3>3. rtp = Virt(p.ts) - Virt(trk.nextTS)
      BY <1>4, <3>2, SignedIs DEF TrackInv
    <3>4. p.n > placed.n
      BY <1>4, <2>3, <3>1, <3>2, <3>3
    <3>5. gap = IF rtp - (clock - trk.granule) > MaxDrift \/ (clock - trk.granule) - rtp > MaxDrift
                THEN clock - trk.granule ELSE rtp
      BY <2>3 DEF ByEither
    <3>6. gap \in Int
      BY <1>4, <3>2, <3>3, <3>5
    <3>7. /\ Filled(gap) \in Nat /\ Filled(gap) > gap - Silence
          /\ gap <= 0 => Filled(gap) = 0
          /\ gap > 0 => Filled(gap) <= gap
      BY <3>6, FilledIs
    <3>8. CASE gap = clock - trk.granule
      BY <1>2, <1>3, <1>4, <1>5, <2>1, <3>4, <3>7, <3>8
    <3>9. CASE gap = rtp /\ gap >= clock - trk.granule - MaxDrift
      <4>1. p.spoken - Virt(p.ts) >= SpokenTo - Virt(trk.nextTS) /\ p.spoken >= SpokenTo
        BY <2>1, <3>1, <3>4
      <4>2. at = trk.granule + Filled(gap) /\ Filled(gap) \in Nat /\ gap \in Int
        BY <3>6, <3>7
      <4>3. SpokenTo = placed.spoken + (trk.granule - placed.at) /\ SpokenTo \in Int
        BY <1>4, <2>1
      <4>4. placed.at <= placed.spoken + Longest + MaxDelay
        BY <2>1
      <4>5. trk.granule <= p.spoken + Longest + MaxDelay
        BY <1>2, <1>4, <4>1, <4>3, <4>4
      <4>6. trk.granule + gap <= p.spoken + Longest + MaxDelay
        BY <1>2, <1>4, <3>2, <3>3, <3>9, <4>1, <4>3, <4>4
      <4>7. at <= p.spoken + Longest + MaxDelay
        BY <1>2, <1>4, <3>7, <4>2, <4>5, <4>6
      <4>8. at > p.spoken - MaxDrift - Silence
        BY <1>3, <1>4, <1>5, <3>7, <3>9, <4>2
      <4> QED
        BY <1>4, <3>4, <4>2, <4>7, <4>8
    <3> QED
      BY <1>4, <3>2, <3>3, <3>5, <3>8, <3>9
  <2> QED
    BY <2>2, <2>3
<1> QED
  BY <1>6, <1>7

(* A packet that is kept.                                                  *)
LEMMA TrackKeep ==
  ASSUME TrackAssumption, Lengths # {}, TrackInv, NEW p \in net, ~trk.closed,
         net' \in {net, net \ {p}}, UNCHANGED <<clock, speaker, sent>>,
         NEW at \in Nat, at >= trk.granule, p.n > placed.n,
         at <= p.spoken + Longest + MaxDelay,
         at > p.spoken - MaxDrift - Silence,
         trk' = [trk EXCEPT !.started = TRUE, !.ssrc = p.ssrc, !.pending = TRUE,
                            !.nextTS = After(p), !.granule = at + p.len],
         placed' = [n |-> p.n, at |-> at, spoken |-> p.spoken]
  PROVE  TrackInv' /\ TrackStepHolds
<1>1. TrackSays
  BY TrackFacts
<1>2. Longest \in Nat /\ p.len <= Longest
  BY LongestIs DEF TrackInv, KTypes, Packet
<1>3. /\ p.ssrc = speaker.ssrc /\ p.spoken + p.len <= speaker.until /\ p.n <= sent
      /\ Virt(p.ts) + p.len <= VEnd /\ Virt(p.ts) <= p.spoken
      /\ p.spoken - Virt(p.ts) <= speaker.stood
  BY DEF TrackInv, OnWay
<1>4. /\ trk.granule \in Nat /\ trk.pageGranule \in Nat /\ placed.n \in Nat
      /\ p.len \in Nat \ {0} /\ p.spoken \in Nat /\ p.n \in Nat /\ Virt(p.ts) \in Nat
      /\ speaker.ssrc \in {1, 2} /\ sent \in 0 .. MaxSent
  BY <1>1 DEF TrackSays, Track, Placed, Speaker
<1>5. After(p) \in 0 .. (Modulus - 1) /\ Virt(After(p)) = Virt(p.ts) + p.len
  BY AfterIs
<1>6. at + p.len \in Nat /\ p.ssrc \in 0 .. 2
  BY <1>3, <1>4
<1>7. /\ trk' \in Track /\ trk'.started /\ trk'.ssrc = speaker.ssrc /\ trk'.nextTS = After(p)
      /\ trk'.granule = at + p.len /\ trk'.pageGranule = trk.pageGranule /\ ~trk'.closed
  BY <1>1, <1>3, <1>5, <1>6 DEF TrackSays, Track
<1>8. placed' \in Placed /\ placed'.n = p.n /\ placed'.at = at /\ placed'.spoken = p.spoken
  BY <1>1, <1>3, <1>4 DEF TrackSays, Placed
<1>9. net' \subseteq net
  OBVIOUS
<1>10. KTypes'
  BY <1>7, <1>8, <1>9 DEF TrackInv, KTypes
<1>11. OnWay' /\ SentInOrder'
  BY <1>9 DEF TrackInv, OnWay, SentInOrder, Virt, VEnd
<1>12. trk.pageGranule <= trk.granule
  BY <1>4 DEF TrackInv, Behind, NewTrack
<1>13. Behind'
  <2>1. SpokenTo' = p.spoken + p.len
    BY <1>4, <1>7, <1>8 DEF SpokenTo
  <2>2. Virt(trk.nextTS)' = Virt(p.ts) + p.len /\ VEnd' = VEnd
    BY <1>5, <1>7 DEF Virt, VEnd
  <2>3. ASSUME NEW r \in net
        PROVE  /\ r.n > p.n => /\ r.spoken >= p.spoken + p.len
                               /\ Virt(r.ts) >= Virt(p.ts) + p.len
                               /\ r.spoken - Virt(r.ts) >= p.spoken - Virt(p.ts)
               /\ r.n <= p.n => Virt(r.ts) + r.len <= Virt(p.ts) + p.len
    BY <1>1, <1>4 DEF TrackInv, SentInOrder, TrackSays
  <2>4. \A r \in net : Virt(r.ts)' = Virt(r.ts)
    BY DEF Virt
  <2>5. \A r \in net' : r.n > p.n => r.spoken >= p.spoken + p.len
    BY <1>9, <2>3
  <2>6. \A r \in net' :
          /\ r.n > p.n => /\ Virt(r.ts)' >= Virt(p.ts) + p.len
                          /\ r.spoken - Virt(r.ts)' >= p.spoken + p.len - (Virt(p.ts) + p.len)
          /\ r.n <= p.n => Virt(r.ts)' + r.len <= Virt(p.ts) + p.len
    BY <1>4, <1>9, <2>3, <2>4
  <2>7. /\ trk.pageGranule <= at + p.len /\ at < at + p.len /\ at + p.len <= at + Longest
        /\ p.spoken + p.len - (Virt(p.ts) + p.len) <= speaker.stood
        /\ Virt(p.ts) + p.len <= p.spoken + p.len
    BY <1>1, <1>2, <1>3, <1>4, <1>12 DEF TrackSays, Speaker
  <2>8. speaker.ssrc' = speaker.ssrc /\ speaker.until' = speaker.until
        /\ speaker.stood' = speaker.stood /\ sent' = sent
    OBVIOUS
  <2>9. /\ trk'.pageGranule <= trk'.granule /\ placed'.n <= sent'
        /\ trk'.ssrc = 1 \/ trk'.ssrc = speaker'.ssrc
        /\ placed'.at < trk'.granule /\ trk'.granule <= placed'.at + Longest
        /\ SpokenTo' <= speaker'.until
        /\ placed'.at <= placed'.spoken + Longest + MaxDelay
    BY <1>3, <1>7, <1>8, <2>1, <2>7, <2>8
  <2>10. \A r \in net' : r.n > placed'.n => r.spoken >= SpokenTo'
    BY <1>8, <2>1, <2>5
  <2>11. /\ Virt(trk.nextTS)' <= VEnd'
         /\ Virt(trk.nextTS)' <= SpokenTo' /\ SpokenTo' - Virt(trk.nextTS)' <= speaker'.stood
    BY <1>3, <1>4, <2>1, <2>2, <2>7, <2>8
  <2>12. \A r \in net' :
          /\ r.n > placed'.n => /\ Virt(r.ts)' >= Virt(trk.nextTS)'
                                /\ r.spoken - Virt(r.ts)' >= SpokenTo' - Virt(trk.nextTS)'
          /\ r.n <= placed'.n => Virt(r.ts)' + r.len <= Virt(trk.nextTS)'
    BY <1>4, <1>8, <2>1, <2>2, <2>6
  <2>13. trk'.started /\ trk'.ssrc = speaker'.ssrc
    BY <1>7
  <2> QED
    BY <2>9, <2>10, <2>11, <2>12, <2>13 DEF Behind
<1>14. TrackStepHolds
  BY <1>4, <1>7, <1>8 DEF TrackStepHolds
<1> QED
  BY <1>10, <1>11, <1>13, <1>14 DEF TrackInv

LEMMA TrackArrive ==
  ASSUME TrackAssumption, Lengths # {}, TrackInv, NEW p \in net, Arrive(p)
  PROVE  TrackInv' /\ TrackStepHolds
<1>1. ~trk.closed /\ Place(p) /\ net' \in {net, net \ {p}} /\ UNCHANGED <<clock, speaker, sent>>
  BY DEF Arrive
<1> DEFINE same == trk.started /\ p.ssrc = trk.ssrc
           rtp == Signed(p.ts - trk.nextTS)
           gap == IF same THEN ByEither(rtp, clock - trk.granule) ELSE clock - trk.granule
           at == trk.granule + Filled(gap)
<1>2. CASE same /\ rtp < 0
  BY <1>1, <1>2, TrackDrop DEF Place
<1>3. CASE ~(same /\ rtp < 0)
  <2>1. /\ trk' = [trk EXCEPT !.started = TRUE, !.ssrc = p.ssrc, !.pending = TRUE,
                              !.nextTS = After(p), !.granule = at + p.len]
        /\ placed' = [n |-> p.n, at |-> at, spoken |-> p.spoken]
    BY <1>1, <1>3 DEF Place
  <2>2. /\ at \in Nat /\ at >= trk.granule /\ p.n > placed.n
        /\ at <= p.spoken + Longest + MaxDelay
        /\ at > p.spoken - MaxDrift - Silence
    BY <1>1, <1>3, KeptFacts
  <2> HIDE DEF at, rtp, same, gap
  <2> QED
    BY <1>1, <2>1, <2>2, TrackKeep
<1> QED
  BY <1>2, <1>3

(* Every step of the track.                                                *)
LEMMA TrackInvStep ==
  ASSUME TrackAssumption, TrackInv, TrackNext
  PROVE  TrackInv' /\ TrackStepHolds
<1>1. TrackSays
  BY TrackFacts
<1>2. trk.pageGranule >= trk.pageGranule
  BY <1>1 DEF TrackSays, Track
<1>3. ASSUME UNCHANGED <<trk, placed>> PROVE TrackStepHolds
  BY <1>2, <1>3 DEF TrackStepHolds
<1>4. CASE Tick
  BY <1>3, <1>4, TrackTick DEF Tick
<1>5. CASE Rejoin
  BY <1>3, <1>5, TrackRejoin DEF Rejoin
<1>6. CASE Page
  BY <1>6, TrackPage
<1>7. CASE Close
  BY <1>7, TrackClose
<1>8. ASSUME NEW len \in Lengths, Speak(len) PROVE TrackInv' /\ TrackStepHolds
  BY <1>3, <1>8, TrackSpeak DEF Speak
<1>9. ASSUME NEW p \in net, Arrive(p) PROVE TrackInv' /\ TrackStepHolds
  BY <1>9, TrackArrive DEF TrackInv, KTypes, Packet
<1>10. ASSUME NEW p \in net, Lose(p) PROVE TrackInv' /\ TrackStepHolds
  BY <1>3, <1>10, TrackLose DEF Lose
<1> QED
  BY <1>4, <1>5, <1>6, <1>7, <1>8, <1>9, <1>10 DEF TrackNext

(* A step beside the track leaves it as it is.                             *)
LEMMA TrackSteady ==
  ASSUME TrackAssumption, TrackInv, UNCHANGED trackVars
  PROVE  TrackInv' /\ TrackStepHolds
  BY TrackFacts DEF TrackInv, trackVars, KTypes, OnWay, SentInOrder, Behind, Virt, VEnd,
     SpokenTo, TrackSays, Track, TrackStepHolds

LEMMA TrackInvTells ==
  ASSUME TrackAssumption, TrackInv
  PROVE  TrackTypeOK
  BY TrackFacts DEF TrackInv, KTypes, Packet, OnWay, TrackSays, Track, TrackTypeOK

(* A track keeps each packet once and in order, placed within the delay    *)
(* and the drift, and ends at the recording's end (place, end, closeAt):   *)
(* TrackHolds, for every RTP space, packet length, delay and drift.        *)
THEOREM TrackRight == Spec => TrackHolds
<1>1. Init => TrackInv
  BY TrackInvInit, TrackAssumption DEF Init
<1>2. TrackInv /\ [Next]_all => TrackInv' /\ TrackStepHolds
  BY TrackInvStep, TrackSteady, TrackAssumption DEF Next, OfFiles, OfList, OfAviator,
     OfWatch, BesideFiles, BesideList, BesideAviator, BesideWatch, all
<1> QED
  BY <1>1, <1>2, PTL DEF Spec, TrackHolds, TrackStepHolds

-----------------------------------------------------------------------------
(* The member list: the types of the state and the list, the nonces there  *)
(* are, and one stall wait at most.                                        *)
GuildState == [guild : Nat, parts : SUBSET Parts, twice : BOOLEAN]
ListState == [guild : Nat, nonce : Nat, seen : SUBSET Parts, complete : BOOLEAN, retry : BOOLEAN,
              stallSeq : Nat, episode : Nat, late : BOOLEAN]
LTypes ==
  /\ here \in GuildState /\ list \in ListState
  /\ here.guild <= guilds /\ list.guild <= guilds /\ list.nonce <= MaxAsks
  /\ guilds \in 0 .. MaxGuilds /\ creates \in 0 .. guilds
  /\ list.complete => list.seen = Parts
  /\ toSend \subseteq 1 .. list.nonce
  /\ \A a \in coming : a.nonce \in 1 .. list.nonce /\ a.part \in Parts
  /\ \A a \in chunks : a.nonce \in 1 .. list.nonce /\ a.part \in Parts
  /\ \A t, u \in armed : t.kind = "stall" /\ u.kind = "stall" => t = u
  /\ listLeft \in [ListKinds -> Nat]

(* The parts counted for the guild in force were applied to it.            *)
Applied ==
  HoldsGuild =>
    /\ ~here.twice
    /\ list.seen \subseteq here.parts
    /\ \A a \in chunks : a.nonce = list.nonce => a.part \in here.parts
ListInv == LTypes /\ Applied

(* What ListRight says of a state, and of a step.                          *)
ListWhole == Status = "complete" => here.parts = Parts /\ ~here.twice
AsksForTheWait ==
  list'.nonce # list.nonce /\ creates' = creates =>
     \E t \in fired \ fired' : \/ t.kind = "retry" /\ list.nonce = t.n /\ list.retry
                               \/ t.kind = "stall" /\ list.stallSeq = t.n /\ ~list.retry

LEMMA ListInvInit ==
  ASSUME ListAssumption, ListInit
  PROVE  ListInv
  BY DEF ListAssumption, ListInit, GuildState, ListState, ListInv, LTypes, Applied,
     HoldsGuild

(* A new request: nothing answers it yet.                                  *)
LEMMA AskStep ==
  ASSUME ListAssumption, LTypes, NEW l \in ListState, NEW timers, Asks(l, timers),
         l.nonce = list.nonce
  PROVE  /\ list' \in ListState /\ list'.guild = l.guild /\ list'.nonce = list.nonce + 1
         /\ list'.seen = {} /\ list'.nonce <= MaxAsks
         /\ ~list'.complete /\ toSend' \subseteq 1 .. list'.nonce
         /\ \A t, u \in armed' : t.kind = "stall" /\ u.kind = "stall" => t = u
<1>1. list' = Asked(l) /\ list.nonce \in Nat /\ list.nonce < MaxAsks
  BY DEF Asks, LTypes, ListState
<1>2. list' \in ListState /\ list'.guild = l.guild /\ list'.nonce = list.nonce + 1
      /\ list'.seen = {} /\ ~list'.complete
  <2>1. l.nonce + 1 \in Nat /\ l.stallSeq + 1 \in Nat /\ {} \in SUBSET Parts
    BY DEF ListState
  <2>2. list' = [l EXCEPT !.nonce = l.nonce + 1, !.seen = {}, !.complete = FALSE, !.retry = FALSE,
                          !.stallSeq = l.stallSeq + 1]
    BY <1>1 DEF Asked
  <2> QED
    BY <2>1, <2>2 DEF ListState
<1>3. \A t \in armed' : t.kind = "stall" => t = Timer("stall", l.stallSeq + 1)
  BY DEF Asks, StallWaits
<1>4. toSend' \subseteq 1 .. list'.nonce
  <2>1. toSend' = toSend \cup {list.nonce + 1} /\ toSend \subseteq 1 .. list.nonce
    BY DEF Asks, LTypes
  <2>2. \A x \in 1 .. list.nonce : x \in 1 .. (list.nonce + 1)
    BY <1>1
  <2>3. list.nonce + 1 \in 1 .. (list.nonce + 1)
    BY <1>1
  <2> QED
    BY <1>2, <2>1, <2>2, <2>3
<1> QED
  BY <1>1, <1>2, <1>3, <1>4 DEF ListAssumption

LEMMA ListInvStep ==
  ASSUME ListAssumption, ListInv, ListNext
  PROVE  ListInv'
<1>0. LTypes /\ Applied /\ here \in GuildState /\ list \in ListState /\ guilds \in Nat
      /\ creates \in Nat /\ MaxGuilds \in Nat /\ MaxAsks \in Nat
  BY DEF ListInv, LTypes, ListAssumption
<1>d. ASSUME NEW k \in ListKinds, Disturb(k) PROVE listLeft' \in [ListKinds -> Nat]
  BY SMTT(30), <1>0, <1>d DEF LTypes, Disturb
<1>l. listLeft' \in [ListKinds -> Nat]
  <2>1. CASE listLeft' = listLeft
    BY <1>0, <2>1 DEF LTypes
  <2> QED
    BY <1>d, <2>1 DEF ListNext, GuildGone, Gateway, GuildCreate, Part, LosePart, Handlers,
       GuildCreated, Waits, AskAgain, LateCheck, Fire, Send, Chunk, Refused, ListKinds
<1>w. \A x \in 1 .. list.nonce : x \in 1 .. (list.nonce + 1) /\ x # list.nonce + 1
  BY <1>0 DEF ListState
<1>1. CASE GuildCreate
  BY <1>0, <1>1, <1>l DEF GuildCreate, ListInv, LTypes, Applied, HoldsGuild, GuildState, ListState
<1>2. CASE GuildGone
  BY <1>0, <1>2, <1>l DEF GuildGone, ListInv, LTypes, Applied, HoldsGuild, GuildState, ListState
<1>3. ASSUME NEW a \in coming, Part(a) PROVE ListInv'
  BY <1>0, <1>3, <1>l DEF LTypes, Part, GuildState, Applied, HoldsGuild, ListInv
<1>4. ASSUME NEW a \in coming, LosePart(a) PROVE ListInv'
  BY <1>0, <1>4, <1>l DEF LosePart, ListInv, LTypes, Applied, HoldsGuild
<1>5. ASSUME NEW n \in toSend, Send(n) PROVE ListInv'
  BY <1>0, <1>5, <1>l DEF Send, LTypes, Answer, ListInv, Applied, HoldsGuild
<1>6. ASSUME NEW t \in armed, Fire(t) PROVE ListInv'
  BY <1>0, <1>6, <1>l DEF Fire, ListInv, LTypes, Applied, HoldsGuild
<1>7. CASE GuildCreated
  <2> DEFINE l == [list EXCEPT !.guild = here.guild, !.episode = list.episode + 1, !.late = FALSE]
             timers == Without("late") \cup {Timer("late", list.episode + 1)}
  <2>1. Asks(l, timers) /\ creates' = creates - 1 /\ here' = [here EXCEPT !.twice = FALSE]
        /\ creates > 0 /\ UNCHANGED <<guilds, coming, chunks>>
    BY <1>7 DEF GuildCreated
  <2>2. l \in ListState /\ l.nonce = list.nonce /\ l.guild = here.guild
    <3>1. here.guild \in Nat /\ list.episode + 1 \in Nat
      BY <1>0 DEF GuildState, ListState
    <3> QED
      BY <1>0, <3>1 DEF ListState
  <2> HIDE DEF l, timers
  <2>3. /\ list' \in ListState /\ list'.guild = l.guild /\ list'.nonce = list.nonce + 1
        /\ list'.seen = {} /\ list'.nonce <= MaxAsks
        /\ ~list'.complete /\ toSend' \subseteq 1 .. list'.nonce
        /\ \A t, u \in armed' : t.kind = "stall" /\ u.kind = "stall" => t = u
    BY <1>0, <2>1, <2>2, AskStep
  <2>4. here' \in GuildState /\ here'.guild = here.guild /\ ~here'.twice
    BY <1>0, <2>1 DEF GuildState
  <2>5. creates' \in 0 .. guilds'
    BY <1>0, <2>1 DEF LTypes
  <2>6. LTypes'
    BY <1>0, <1>l, <1>w, <2>1, <2>2, <2>3, <2>4, <2>5 DEF LTypes
  <2>7. Applied'
    BY <1>0, <1>w, <2>1, <2>3, <2>4 DEF LTypes, Applied
  <2> QED
    BY <2>6, <2>7 DEF ListInv
<1>8. ASSUME NEW a \in chunks, Chunk(a) PROVE ListInv'
  <2>1. UNCHANGED <<here, guilds, creates, toSend, coming>> /\ chunks' = chunks \ {a}
    BY <1>8 DEF Chunk
  <2>2. CASE ~Counts(a)
    BY <1>0, <1>8, <1>l, <2>1, <2>2 DEF Chunk, ListInv, LTypes, Applied, HoldsGuild
  <2>3. CASE Counts(a)
    <3> DEFINE seen == list.seen \cup {a.part}
    <3>1. /\ list' = StallStopped([list EXCEPT !.seen = seen, !.complete = (seen = Parts)])
          /\ armed' = Without("stall") \cup (IF seen = Parts THEN {} ELSE StallWaits(list))
      BY <1>8, <2>3 DEF Chunk
    <3>2. seen \in SUBSET Parts
      BY <1>0 DEF LTypes, ListState
    <3>3. list.stallSeq + 1 \in Nat
      BY <1>0 DEF ListState
    <3>4. list' = [list EXCEPT !.seen = seen, !.complete = (seen = Parts),
                               !.stallSeq = list.stallSeq + 1]
      BY <1>0, <3>1 DEF StallStopped, ListState
    <3> HIDE DEF seen
    <3>5. /\ list' \in ListState /\ list'.guild = list.guild /\ list'.nonce = list.nonce
          /\ list'.seen = seen /\ list'.complete = (seen = Parts)
      BY <1>0, <3>2, <3>3, <3>4 DEF ListState
    <3>6. \A t, u \in armed' : t.kind = "stall" /\ u.kind = "stall" => t = u
      BY <3>1 DEF Without, StallWaits
    <3>7. Applied'
      BY <1>0, <2>1, <2>3, <3>5 DEF Applied, HoldsGuild, Counts, seen
    <3> QED
      BY <1>0, <1>l, <2>1, <3>5, <3>6, <3>7 DEF ListInv, LTypes
  <2> QED
    BY <2>2, <2>3
<1>9. ASSUME NEW n \in refusals, Refused(n) PROVE ListInv'
  <2>1. UNCHANGED <<here, guilds, creates, toSend, coming, chunks>>
    BY <1>9 DEF Refused
  <2>2. CASE n # list.nonce \/ list.complete
    BY <1>0, <1>9, <1>l, <2>1, <2>2 DEF Refused, ListInv, LTypes, Applied, HoldsGuild
  <2>3. CASE ~(n # list.nonce \/ list.complete)
    <3>1. /\ list' = StallStopped([list EXCEPT !.retry = TRUE])
          /\ armed' = Without("stall") \cup {Timer("retry", n)}
      BY <1>9, <2>3 DEF Refused
    <3>2. list.stallSeq + 1 \in Nat
      BY <1>0 DEF ListState
    <3>3. list' = [list EXCEPT !.retry = TRUE, !.stallSeq = list.stallSeq + 1]
      BY <1>0, <3>1 DEF StallStopped, ListState
    <3>4. /\ list' \in ListState /\ list'.guild = list.guild /\ list'.nonce = list.nonce
          /\ list'.seen = list.seen /\ list'.complete = list.complete
      BY <1>0, <3>2, <3>3 DEF ListState
    <3>5. \A t \in armed' : t.kind # "stall"
      BY <3>1 DEF Without, Timer
    <3> QED
      BY <1>0, <1>l, <2>1, <3>4, <3>5 DEF ListInv, LTypes, Applied, HoldsGuild
  <2> QED
    BY <2>2, <2>3
<1>10. ASSUME NEW t \in fired, AskAgain(t) PROVE ListInv'
  BY <1>0, <1>l, <1>w, <1>10, AskStep DEF AskAgain, ListInv, LTypes, Applied, HoldsGuild
<1>11. ASSUME NEW t \in fired, LateCheck(t) PROVE ListInv'
  BY <1>0, <1>l, <1>11 DEF LateCheck, ListState, ListInv, LTypes, Applied, HoldsGuild
<1> QED
  BY <1>1, <1>2, <1>3, <1>4, <1>5, <1>6, <1>7, <1>8, <1>9, <1>10, <1>11
  DEF ListNext, Gateway, Handlers, Waits

(* A step beside the list leaves it as it is.                              *)
LEMMA ListSteady ==
  ASSUME ListInv, UNCHANGED listVars
  PROVE  ListInv' /\ AsksForTheWait
BY DEF ListInv, listVars, LTypes, Applied, HoldsGuild, AsksForTheWait

LEMMA ListInvTells ==
  ASSUME ListAssumption, ListInv
  PROVE  ListTypeOK /\ ListWhole
<1>1. LTypes /\ Applied
  BY DEF ListInv
<1>2. Cardinality({t \in armed : t.kind = "stall"}) <= 1
  <2> DEFINE S == {t \in armed : t.kind = "stall"}
  <2>0. SUFFICES Cardinality(S) <= 1
    OBVIOUS
  <2>3. \A t, u \in S : t = u
    BY <1>1 DEF LTypes
  <2> HIDE DEF S
  <2>1. CASE S = {}
    BY <2>1, FS_EmptySet
  <2>2. CASE S # {}
    BY <2>2, <2>3, FS_Singleton
  <2> QED
    BY <2>1, <2>2
<1>3. ListTypeOK
  BY <1>1, <1>2 DEF ListTypeOK, LTypes, ListAssumption, GuildState, ListState
<1> QED
  BY <1>1, <1>3 DEF ListWhole, Status, HoldsGuild, Applied, LTypes, GuildState

(* Another request is asked for only as the wait in force ends.            *)
LEMMA AskedForTheWait ==
  ASSUME ListInv, ListNext
  PROVE  AsksForTheWait
<1>s. SUFFICES ASSUME list'.nonce # list.nonce, creates' = creates
               PROVE  \E t \in fired \ fired' :
                         \/ t.kind = "retry" /\ list.nonce = t.n /\ list.retry
                         \/ t.kind = "stall" /\ list.stallSeq = t.n /\ ~list.retry
  BY DEF AsksForTheWait
<1>0. list \in ListState /\ creates \in Nat
  BY DEF ListInv, LTypes
<1>1. ~GuildCreated
  BY <1>0, <1>s DEF GuildCreated
<1>2. ASSUME NEW t \in fired, AskAgain(t)
      PROVE  t \in fired \ fired' /\ Current(t)
  BY <1>2, <1>s DEF AskAgain
<1>3. ASSUME NEW a \in chunks, Chunk(a) PROVE FALSE
  BY <1>0, <1>3, <1>s DEF Chunk, StallStopped, ListState
<1>4. ASSUME NEW n \in refusals, Refused(n) PROVE FALSE
  BY <1>0, <1>4, <1>s DEF Refused, StallStopped, ListState
<1>5. ASSUME NEW t \in fired, LateCheck(t) PROVE FALSE
  BY <1>0, <1>5, <1>s DEF LateCheck, ListState
<1> QED
  BY <1>1, <1>2, <1>3, <1>4, <1>5, <1>s
  DEF ListNext, GuildGone, Gateway, GuildCreate, Part, LosePart, Handlers, Waits, Fire, Send,
      Current

(* A member list called complete is whole, whatever order handlers run in  *)
(* and whichever request the parts answer; and the bot asks again only as  *)
(* the wait in force ends (chunkArrived, guildCreated, snapshot,           *)
(* askAgain).                                                              *)
THEOREM ListIsRight == Spec => ListRight
<1>1. Init => ListInv
  BY ListInvInit, ListAssumption DEF Init
<1>2. ListInv /\ [Next]_all => ListInv' /\ AsksForTheWait
  BY ListInvStep, AskedForTheWait, ListSteady, ListAssumption DEF Next, OfFiles, OfList,
     OfAviator, OfWatch, BesideFiles, BesideTrack, BesideAviator, BesideWatch, all
<1>3. ListInv => ListWhole
  BY ListInvTells, ListAssumption
<1> QED
  BY <1>1, <1>2, <1>3, PTL DEF Spec, ListRight, ListWhole, AsksForTheWait

-----------------------------------------------------------------------------
(* A recording's files.  The invariant has six parts besides what is to be *)
(* shown: the types; where the row is by how far the recording, recovery   *)
(* and the deletions have got; whose audio is on disk; that nothing is on  *)
(* disk once no row finds it; what recovery has found; and what the mixer  *)
(* mixes.                                                                  *)
NameLists == [Speakers -> {"no", "whole", "lost"}]
EndKinds == {"", "stop", "restart"}
Lives == {"down", "none", "running", "ended", "told", "closed", "shut"}
RowState == [at : {"none", "open", "stopped"}, mix : {"", "processing", "ready", "failed", "none"},
             names : NameLists, ended : EndKinds, past : BOOLEAN, stoppedPast : BOOLEAN]
InfoState == [there : BOOLEAN, names : NameLists, ended : EndKinds]
MixState == [whole : BOOLEAN, part : BOOLEAN, of : SUBSET Speakers]
MixerState == [at : {"idle", "due", "mixing", "mixed", "failed", "none"}, names : NameLists,
               of : SUBSET Speakers, found : NameLists]
RecoveryState == [at : {"wait", "tracks", "info", "row", "done"}, names : NameLists,
                  of : SUBSET Speakers, found : NameLists]
TrackStates == {"none", "empty", "audio"}
HeardStates == {"no", "open", "flushed", "closed", "lost"}
FTypes ==
  /\ row \in RowState /\ info \in InfoState /\ mixFile \in MixState
  /\ track \in [Speakers -> TrackStates] /\ heard \in [Speakers -> HeardStates]
  /\ live \in Lives /\ mixer \in MixerState /\ recovery \in RecoveryState
  /\ deletes \in [Deleters -> {"idle", "files", "row"}] /\ expired \in BOOLEAN
  /\ begun \in BOOLEAN /\ kept \subseteq Speakers /\ filesLeft \in [FilesKinds -> Nat]
Gone ==
  live = "down" =>
    /\ mixer = Idle /\ recovery.at = "wait" /\ \A d \in Deleters : deletes[d] = "idle"
    /\ \A u \in Speakers : heard[u] = "no"

Holding == {"running", "ended", "told", "shut"}
Unstarted == row.at = "none" /\ ~begun
Phases ==
  /\ live \in Holding => row.at = "open" /\ ~row.past /\ mixer.at = "idle"
  /\ row.at = "open" /\ row.past =>
       /\ live \in {"none", "down"} /\ \A u \in Speakers : heard[u] = "no"
       /\ recovery.at # "done" => mixer.at = "idle"
  /\ recovery.at \in {"tracks", "info", "row"} => row.at = "open" /\ row.past
  /\ Unstarted => /\ live \in {"none", "down"} /\ mixer.at = "idle" /\ kept = {}
                  /\ \A u \in Speakers : heard[u] = "no"
  /\ begun => row.at # "open"
  /\ \A d \in Deleters : deletes[d] # "idle" => begun

AudioOnDisk ==
  \A u \in Speakers :
    /\ heard[u] \in {"open", "flushed"} => live = "running"
    /\ heard[u] \in {"flushed", "closed"} => u \in kept
    /\ live \in {"running", "ended", "told"} /\ u \in kept => heard[u] # "no"
    /\ track[u] = "audio" => u \in kept
    /\ u \in kept /\ ~begun => track[u] = "audio"

Emptied == row.at = "none" \/ \E d \in Deleters : deletes[d] = "row"
Cleared ==
  Emptied => /\ \A u \in Speakers : track[u] = "none"
             /\ ~info.there /\ ~mixFile.whole /\ ~mixFile.part

FoundSo ==
  /\ \A u \in Speakers : /\ recovery.found[u] = "whole" => u \in kept
                         /\ u \in recovery.of /\ "unread" \notin spoilt => recovery.found[u] # "no"
                         /\ recovery.at \in {"info", "row"} /\ u \in kept => u \in recovery.of
  /\ recovery.at = "row" /\ "info" \notin spoilt =>
       info.names = recovery.found /\ info.ended = "restart"
  /\ live = "told" /\ "info" \notin spoilt => info.names = NamesHeard /\ info.ended = "stop"

Unmixable ==
  OnDisk(row.names) = {} \/ "ffmpeg" \in spoilt \/ \E u \in Speakers : track[u] = "empty"
MixesRow ==
  /\ mixer.at = "mixing" /\ ~begun => mixFile.part
  /\ live = "closed" /\ row.at = "stopped" => row.names = NamesHeard
  /\ row.at = "stopped" /\ ~begun /\ mixer.at # "idle" =>
       /\ mixer.names = row.names
       /\ mixer.at \in {"mixing", "mixed"} => mixer.of = OnDisk(row.names)
       /\ mixer.at = "mixed" => mixFile.whole /\ mixFile.of = mixer.of
       /\ mixer.at = "none" => row.names = NoList
       /\ mixer.at = "failed" => Unmixable

FilesInv ==
  FTypes /\ Gone /\ Phases /\ AudioOnDisk /\ Cleared /\ FoundSo /\ MixesRow /\ RowTells /\ MixTold

(* The blank records, and the names of those heard.                        *)
NotYet == [Idle EXCEPT !.at = "wait"]
DueFor(names) == [Idle EXCEPT !.at = "due", !.names = names]
LEMMA FilesBlank ==
  /\ NoList \in NameLists /\ \A u \in Speakers : NoList[u] = "no"
  /\ NoRow \in RowState /\ NoRow.at = "none" /\ ~NoRow.past
  /\ NoInfo \in InfoState /\ ~NoInfo.there
  /\ NoMix \in MixState /\ ~NoMix.whole /\ ~NoMix.part
  /\ Idle \in MixerState /\ Idle.at = "idle"
  /\ NotYet \in RecoveryState /\ NotYet.at = "wait" /\ NotYet.of = {} /\ NotYet.found = NoList
<1>1. NoList \in NameLists /\ \A u \in Speakers : NoList[u] = "no"
  BY DEF NoList, NameLists
<1>2. NoRow \in RowState /\ NoRow.at = "none" /\ ~NoRow.past
  BY <1>1 DEF NoRow, RowState, EndKinds
<1>3. NoInfo \in InfoState /\ ~NoInfo.there
  BY <1>1 DEF NoInfo, InfoState, EndKinds
<1>4. NoMix \in MixState /\ ~NoMix.whole /\ ~NoMix.part
  BY DEF NoMix, MixState
<1>5. Idle \in MixerState /\ Idle.at = "idle" /\ Idle.of = {} /\ Idle.found = NoList
      /\ Idle.names = NoList
  BY <1>1 DEF Idle, MixerState
<1>6. NotYet = [at |-> "wait", names |-> NoList, of |-> {}, found |-> NoList]
  BY DEF NotYet, Idle
<1>7. NotYet \in RecoveryState /\ NotYet.at = "wait" /\ NotYet.of = {} /\ NotYet.found = NoList
  BY <1>1, <1>6 DEF RecoveryState
<1> QED
  BY <1>1, <1>2, <1>3, <1>4, <1>5, <1>7

LEMMA DueSo ==
  ASSUME NEW names \in NameLists
  PROVE  DueFor(names) \in MixerState /\ DueFor(names).at = "due" /\ DueFor(names).names = names
  BY FilesBlank DEF MixerState, DueFor

LEMMA NamesSo ==
  ASSUME FTypes
  PROVE  /\ NamesHeard \in NameLists
         /\ \A u \in Speakers : /\ NamesHeard[u] = "no" <=> heard[u] = "no"
                                /\ NamesHeard[u] = "whole" <=> heard[u] \notin {"no", "lost"}
  BY DEF NamesHeard, NameLists

LEMMA FilesInvInit ==
  ASSUME FilesAssumption, FilesInit
  PROVE  FilesInv
<1>1. /\ row = NoRow /\ info = NoInfo /\ mixFile = NoMix /\ live = "none" /\ heard = NoList
      /\ mixer = Idle /\ recovery = NotYet /\ expired = FALSE /\ begun = FALSE
      /\ kept = {} /\ spoilt = {} /\ filesLeft \in [FilesKinds -> Nat]
  BY DEF FilesInit, NotYet, FilesAssumption
<1>2. /\ track \in [Speakers -> TrackStates] /\ \A u \in Speakers : track[u] = "none"
  BY DEF FilesInit, TrackStates
<1>3. /\ heard \in [Speakers -> HeardStates] /\ \A u \in Speakers : heard[u] = "no"
  BY <1>1 DEF NoList, HeardStates
<1>4. /\ deletes \in [Deleters -> {"idle", "files", "row"}]
      /\ \A d \in Deleters : deletes[d] = "idle"
  BY DEF FilesInit
<1>5. FTypes
  BY <1>1, <1>2, <1>3, <1>4, FilesBlank DEF FTypes, Lives
<1>6. Gone /\ Phases
  BY <1>1, <1>3, <1>4, FilesBlank DEF Gone, Phases, Holding, Unstarted
<1>7. AudioOnDisk /\ Cleared
  BY <1>1, <1>2, <1>3, FilesBlank DEF AudioOnDisk, Cleared
<1>8. FoundSo
  BY <1>1, FilesBlank DEF FoundSo
<1>9. MixesRow /\ RowTells /\ MixTold
  BY <1>1, FilesBlank DEF MixesRow, RowTells, MixTold
<1> QED
  BY <1>5, <1>6, <1>7, <1>8, <1>9 DEF FilesInv

LEMMA FilesInvTells ==
  ASSUME FilesAssumption, FilesInv
  PROVE  FilesTypeOK /\ FilesTell
<1> USE DEF FilesInv
<1>1. FilesTypeOK
  BY DEF FTypes, Gone, RowState, MixState, MixerState, RecoveryState, NameLists, TrackStates,
         HeardStates, Lives, FilesTypeOK
<1>2. NoneUnfound
  BY DEF Cleared, Emptied, NoneUnfound
<1> QED
  BY <1>1, <1>2 DEF FilesTell

(* What holds while a recording is held, while recovery is at work, and    *)
(* while the row is open.                                                  *)
LEMMA OpenSo ==
  ASSUME FilesInv, row.at = "open"
  PROVE  ~begun /\ ~Emptied /\ (\A d \in Deleters : deletes[d] = "idle")
  BY DEF FilesInv, Phases, Emptied

LEMMA HoldingSo ==
  ASSUME FilesInv, live \in Holding
  PROVE  /\ row.at = "open" /\ ~row.past /\ mixer.at = "idle" /\ ~begun /\ ~Emptied
         /\ recovery.at \notin {"tracks", "info", "row"} /\ \A d \in Deleters : deletes[d] = "idle"
  BY OpenSo DEF FilesInv, Phases

LEMMA RecoveringSo ==
  ASSUME FilesInv, recovery.at \in {"tracks", "info", "row"}
  PROVE  /\ row.at = "open" /\ row.past /\ mixer.at = "idle" /\ live = "none" /\ ~begun /\ ~Emptied
         /\ (\A u \in Speakers : heard[u] = "no") /\ \A d \in Deleters : deletes[d] = "idle"
  BY OpenSo DEF FilesInv, Phases, Gone

LEMMA FilesMay ==
  ASSUME FTypes, NEW k \in FilesKinds, May(k)
  PROVE  filesLeft' \in [FilesKinds -> Nat]
  BY DEF FTypes, May

(* The recording and its stop keep the invariant.                          *)
LEMMA StartKeeps ==
  ASSUME FilesInv, Start
  PROVE  FilesInv'
<1> USE DEF FilesInv
<1>1. /\ row = NoRow /\ live = "none" /\ ~begun /\ row' = [NoRow EXCEPT !.at = "open"]
      /\ live' \in {"running", "none"}
      /\ UNCHANGED <<track, info, mixFile, heard, mixer, recovery, deletes, expired, begun, kept,
                     spoilt>>
  BY DEF Start, files, Deletion
<1>2. row.at = "none" /\ row' \in RowState /\ row'.at = "open" /\ ~row'.past
  BY <1>1, FilesBlank DEF RowState
<1>3. /\ mixer.at = "idle" /\ kept = {} /\ (\A u \in Speakers : heard[u] = "no")
      /\ recovery.at \notin {"tracks", "info", "row"} /\ \A d \in Deleters : deletes[d] = "idle"
  BY <1>1, <1>2 DEF Phases, Unstarted
<1>4. filesLeft' \in [FilesKinds -> Nat]
  BY FilesMay DEF Start, FTypes, FilesKinds
<1>5. FTypes'
  BY <1>1, <1>2, <1>4 DEF FTypes, Lives
<1>6. Gone' /\ Phases'
  BY <1>1, <1>2, <1>3 DEF Gone, Phases, Holding, Unstarted
<1>7. AudioOnDisk' /\ Cleared'
  BY <1>1, <1>2, <1>3 DEF AudioOnDisk, Cleared, Emptied
<1>8. FoundSo' /\ MixesRow' /\ RowTells' /\ MixTold'
  BY <1>1, <1>2, <1>3 DEF FoundSo, MixesRow, RowTells, MixTold
<1> QED
  BY <1>5, <1>6, <1>7, <1>8

LEMMA HearKeeps ==
  ASSUME FilesInv, NEW u \in Speakers, Hear(u)
  PROVE  FilesInv'
<1> USE DEF FilesInv
<1>1. /\ live = "running" /\ heard[u] = "no"
      /\ \E h \in {"open", "lost"} : heard' = [heard EXCEPT ![u] = h]
      /\ track' \in {track, [track EXCEPT ![u] = "empty"]}
      /\ UNCHANGED <<row, info, mixFile, live, mixer, recovery, deletes, expired, begun, kept,
                     spoilt>>
  BY DEF Hear, Takes, Deletion
<1>2. /\ row.at = "open" /\ ~row.past /\ mixer.at = "idle" /\ ~begun /\ ~Emptied
      /\ recovery.at \notin {"tracks", "info", "row"} /\ \A d \in Deleters : deletes[d] = "idle"
  BY <1>1, HoldingSo DEF Holding
<1>3. filesLeft' \in [FilesKinds -> Nat]
  BY FilesMay DEF Hear, FTypes, FilesKinds
<1>4. /\ heard' \in [Speakers -> HeardStates] /\ track' \in [Speakers -> TrackStates]
      /\ heard'[u] \in {"open", "lost"} /\ track'[u] \in {track[u], "empty"}
      /\ \A w \in Speakers : w # u => heard'[w] = heard[w] /\ track'[w] = track[w]
  BY <1>1 DEF FTypes, HeardStates, TrackStates
<1>5. u \notin kept
  BY <1>1 DEF AudioOnDisk
<1>6. FTypes' /\ Gone' /\ Phases'
  BY <1>1, <1>2, <1>3, <1>4 DEF FTypes, Gone, Phases, Unstarted, Holding
<1>7. AudioOnDisk'
  BY <1>1, <1>4, <1>5 DEF AudioOnDisk
<1>8. Cleared' /\ FoundSo'
  BY <1>1, <1>2 DEF Cleared, Emptied, FoundSo
<1>9. MixesRow' /\ RowTells' /\ MixTold'
  BY <1>1, <1>2 DEF MixesRow, RowTells, MixTold
<1> QED
  BY <1>6, <1>7, <1>8, <1>9

LEMMA FlushKeeps ==
  ASSUME FilesInv, NEW u \in Speakers, Flush(u)
  PROVE  FilesInv'
<1> USE DEF FilesInv
<1>1. /\ live = "running" /\ heard[u] \in {"open", "flushed"}
      /\ \/ /\ heard' = [heard EXCEPT ![u] = "flushed"] /\ track' = [track EXCEPT ![u] = "audio"]
            /\ kept' = kept \cup {u}
         \/ heard' = [heard EXCEPT ![u] = "lost"] /\ UNCHANGED <<track, kept>>
      /\ UNCHANGED <<row, info, mixFile, live, mixer, recovery, deletes, expired, begun, spoilt>>
  BY DEF Flush, Deletion
<1>2. /\ row.at = "open" /\ ~row.past /\ mixer.at = "idle" /\ ~begun /\ ~Emptied
      /\ recovery.at \notin {"tracks", "info", "row"} /\ \A d \in Deleters : deletes[d] = "idle"
  BY <1>1, HoldingSo DEF Holding
<1>3. filesLeft' \in [FilesKinds -> Nat]
  BY FilesMay DEF Flush, FTypes, FilesKinds
<1>4. /\ heard' \in [Speakers -> HeardStates] /\ track' \in [Speakers -> TrackStates]
      /\ kept' \subseteq Speakers
      /\ \A w \in Speakers : w # u => /\ heard'[w] = heard[w] /\ track'[w] = track[w]
                                      /\ w \in kept' <=> w \in kept
      /\ \/ heard'[u] = "flushed" /\ track'[u] = "audio" /\ u \in kept'
         \/ heard'[u] = "lost" /\ track'[u] = track[u] /\ kept' = kept
      /\ kept \subseteq kept'
  BY <1>1 DEF FTypes, HeardStates, TrackStates
<1>5. FTypes' /\ Gone' /\ Phases'
  BY <1>1, <1>2, <1>3, <1>4 DEF FTypes, Gone, Phases, Unstarted, Holding
<1>6. AudioOnDisk'
  BY <1>1, <1>4 DEF AudioOnDisk
<1>7. Cleared' /\ FoundSo'
  BY <1>1, <1>2, <1>4 DEF Cleared, Emptied, FoundSo
<1>8. MixesRow' /\ RowTells' /\ MixTold'
  BY <1>1, <1>2 DEF MixesRow, RowTells, MixTold
<1> QED
  BY <1>5, <1>6, <1>7, <1>8

LEMMA EndTracksKeeps ==
  ASSUME FilesInv, NEW next \in {"ended", "shut"}, EndTracks(next)
  PROVE  FilesInv'
<1> USE DEF FilesInv
<1>1. PICK bad \in SUBSET {u \in Speakers : heard[u] \in {"open", "flushed"}} :
        /\ IF bad = {} THEN UNCHANGED filesLeft ELSE May("disk")
        /\ heard' = [u \in Speakers |->
             IF u \in {v \in Speakers : heard[v] \in {"open", "flushed"}} \ bad THEN "closed"
             ELSE IF u \in bad THEN "lost" ELSE heard[u]]
        /\ track' = [u \in Speakers |->
             IF u \in {v \in Speakers : heard[v] \in {"open", "flushed"}} \ bad THEN "audio"
             ELSE track[u]]
        /\ kept' = kept \cup ({v \in Speakers : heard[v] \in {"open", "flushed"}} \ bad)
  BY DEF EndTracks
<1>2. /\ live = "running" /\ live' = next
      /\ UNCHANGED <<row, info, mixFile, mixer, recovery, deletes, expired, begun, spoilt>>
  BY DEF EndTracks, Deletion
<1>3. /\ row.at = "open" /\ ~row.past /\ mixer.at = "idle" /\ ~begun /\ ~Emptied
      /\ recovery.at \notin {"tracks", "info", "row"} /\ \A d \in Deleters : deletes[d] = "idle"
  BY <1>2, HoldingSo DEF Holding
<1>4. filesLeft' \in [FilesKinds -> Nat]
  BY <1>1, FilesMay DEF FTypes, FilesKinds
<1>5. /\ heard' \in [Speakers -> HeardStates] /\ track' \in [Speakers -> TrackStates]
      /\ kept' \subseteq Speakers /\ kept \subseteq kept'
      /\ \A u \in Speakers :
           \/ heard'[u] = "closed" /\ track'[u] = "audio" /\ u \in kept'
           \/ /\ heard'[u] = "lost" /\ track'[u] = track[u] /\ (u \in kept' <=> u \in kept)
              /\ heard[u] \in {"open", "flushed"}
           \/ /\ heard'[u] = heard[u] /\ track'[u] = track[u] /\ (u \in kept' <=> u \in kept)
              /\ heard[u] \notin {"open", "flushed"}
  BY <1>1 DEF FTypes, HeardStates, TrackStates
<1>6. FTypes' /\ Gone' /\ Phases'
  BY <1>2, <1>3, <1>4, <1>5 DEF FTypes, Gone, Phases, Unstarted, Holding, Lives
<1>7. AudioOnDisk'
  BY <1>2, <1>3, <1>5 DEF AudioOnDisk
<1>8. Cleared' /\ FoundSo'
  BY <1>2, <1>3, <1>5 DEF Cleared, Emptied, FoundSo
<1>9. MixesRow' /\ RowTells' /\ MixTold'
  BY <1>2, <1>3 DEF MixesRow, RowTells, MixTold
<1> QED
  BY <1>6, <1>7, <1>8, <1>9

(* writeRecordingInfo writes what it is given, or what fails is noted.     *)
LEMMA WritesSo ==
  ASSUME FTypes, NEW names \in NameLists, NEW end \in EndKinds, WritesInfo(names, end)
  PROVE  /\ info' \in InfoState /\ filesLeft' \in [FilesKinds -> Nat]
         /\ "info" \notin spoilt' => info'.names = names /\ info'.ended = end
         /\ "unread" \in spoilt' <=> "unread" \in spoilt
         /\ "ffmpeg" \in spoilt' <=> "ffmpeg" \in spoilt
<1>1. CASE /\ info' = [there |-> TRUE, names |-> names, ended |-> end]
           /\ UNCHANGED <<filesLeft, spoilt>>
  BY <1>1 DEF InfoState, FTypes
<1>2. CASE May("disk") /\ UNCHANGED info /\ spoilt' = spoilt \cup {"info"}
  BY <1>2, FilesMay DEF FTypes, FilesKinds
<1> QED
  BY <1>1, <1>2 DEF WritesInfo

LEMMA TellKeeps ==
  ASSUME FilesInv, Tell
  PROVE  FilesInv'
<1> USE DEF FilesInv
<1>1. /\ live = "ended" /\ live' = "told" /\ WritesInfo(NamesHeard, "stop")
      /\ UNCHANGED <<row, track, mixFile, heard, mixer, recovery, deletes, expired, begun, kept>>
  BY DEF Tell, Deletion
<1>2. /\ row.at = "open" /\ ~row.past /\ mixer.at = "idle" /\ ~begun /\ ~Emptied
      /\ recovery.at \notin {"tracks", "info", "row"} /\ \A d \in Deleters : deletes[d] = "idle"
  BY <1>1, HoldingSo DEF Holding
<1>3. /\ info' \in InfoState /\ filesLeft' \in [FilesKinds -> Nat]
      /\ "info" \notin spoilt' => info'.names = NamesHeard /\ info'.ended = "stop"
      /\ "unread" \in spoilt' <=> "unread" \in spoilt
  BY <1>1, NamesSo, WritesSo DEF EndKinds
<1>4. FTypes' /\ Gone' /\ Phases'
  BY <1>1, <1>2, <1>3 DEF FTypes, Gone, Phases, Unstarted, Holding, Lives
<1>5. AudioOnDisk' /\ Cleared'
  BY <1>1, <1>2 DEF AudioOnDisk, Cleared, Emptied
<1>6. NamesHeard' = NamesHeard
  BY <1>1 DEF NamesHeard
<1>7. FoundSo'
  BY <1>1, <1>2, <1>3, <1>6 DEF FoundSo
<1>8. MixesRow' /\ RowTells' /\ MixTold'
  BY <1>1, <1>2 DEF MixesRow, RowTells, MixTold
<1> QED
  BY <1>4, <1>5, <1>7, <1>8

(* An open row is closed with the names and the end given, or is as it was *)
(* and the failure noted.                                                  *)
LEMMA ClosesSo ==
  ASSUME FTypes, row.at = "open", NEW names \in NameLists, NEW end \in EndKinds,
         Closes(names, end, {"row"})
  PROVE  /\ row' \in RowState /\ filesLeft' \in [FilesKinds -> Nat]
         /\ \/ row' = row /\ spoilt' = spoilt \cup {"row"}
            \/ /\ row'.at = "stopped" /\ row'.mix = "processing" /\ row'.names = names
               /\ row'.ended = end /\ row'.past = row.past
         /\ \A f \in {"info", "unread", "ffmpeg"} : f \in spoilt' <=> f \in spoilt
<1>1. row \in RowState
  BY DEF FTypes
<1>2. /\ Closed(names, end) \in RowState /\ Closed(names, end).at = "stopped"
      /\ Closed(names, end).mix = "processing" /\ Closed(names, end).names = names
      /\ Closed(names, end).ended = end /\ Closed(names, end).past = row.past
  BY <1>1 DEF Closed, RowState
<1>3. filesLeft' \in [FilesKinds -> Nat]
  BY FilesMay DEF Closes, FTypes, FilesKinds
<1>4. \/ row' = row /\ spoilt' = spoilt \cup {"row"}
      \/ row' = Closed(names, end) /\ spoilt' \in {spoilt, spoilt \cup {"row"}}
  BY DEF Closes
<1> QED
  BY <1>1, <1>2, <1>3, <1>4

LEMMA CloseRowKeeps ==
  ASSUME FilesInv, CloseRow
  PROVE  FilesInv'
<1> USE DEF FilesInv
<1>1. /\ live = "told" /\ live' = "closed" /\ Closes(NamesHeard, "stop", {"row"})
      /\ UNCHANGED <<track, info, mixFile, heard, mixer, recovery, deletes, expired, begun, kept>>
  BY DEF CloseRow, Deletion, files
<1>2. /\ row.at = "open" /\ ~row.past /\ mixer.at = "idle" /\ ~begun /\ ~Emptied
      /\ recovery.at \notin {"tracks", "info", "row"} /\ \A d \in Deleters : deletes[d] = "idle"
  BY <1>1, HoldingSo DEF Holding
<1>n. /\ NamesHeard \in NameLists
      /\ \A u \in Speakers : /\ NamesHeard[u] = "no" <=> heard[u] = "no"
                             /\ NamesHeard[u] = "whole" <=> heard[u] \notin {"no", "lost"}
  BY NamesSo
<1>3. /\ row' \in RowState /\ filesLeft' \in [FilesKinds -> Nat]
      /\ \/ row' = row
         \/ /\ row'.at = "stopped" /\ row'.mix = "processing" /\ row'.names = NamesHeard
            /\ row'.ended = "stop" /\ row'.past = row.past
      /\ \A f \in {"info", "unread", "ffmpeg"} : f \in spoilt' <=> f \in spoilt
  BY <1>1, <1>2, <1>n, ClosesSo DEF EndKinds
<1>4. FTypes' /\ Gone' /\ Phases'
  BY <1>1, <1>2, <1>3 DEF FTypes, Gone, Phases, Unstarted, Holding, Lives
<1>5. AudioOnDisk' /\ Cleared'
  BY <1>1, <1>2, <1>3 DEF AudioOnDisk, Cleared, Emptied
<1>6. NamesHeard' = NamesHeard
  BY <1>1 DEF NamesHeard
<1>7. FoundSo' /\ MixesRow' /\ MixTold'
  BY <1>1, <1>2, <1>3, <1>6 DEF FoundSo, MixesRow, MixTold
<1>8. RowTells'
  BY <1>1, <1>2, <1>3, <1>n DEF AudioOnDisk, FTypes, HeardStates, FoundSo, RowTells
<1> QED
  BY <1>4, <1>5, <1>7, <1>8

LEMMA StartMixKeeps ==
  ASSUME FilesInv, StartMix
  PROVE  FilesInv'
<1> USE DEF FilesInv
<1>1. /\ live = "closed" /\ live' = "none" /\ mixer' = DueFor(NamesHeard)
      /\ UNCHANGED <<row, track, info, mixFile, heard, recovery, deletes, expired, begun, kept,
                     spoilt, filesLeft>>
  BY DEF StartMix, DueFor, Deletion, files
<1>2. mixer' \in MixerState /\ mixer'.at = "due" /\ mixer'.names = NamesHeard
  BY <1>1, NamesSo, DueSo
<1>3. ~Unstarted /\ ~(row.at = "open" /\ row.past)
  BY <1>1 DEF Phases
<1>4. FTypes' /\ Gone' /\ Phases'
  BY <1>1, <1>2, <1>3 DEF FTypes, Gone, Phases, Unstarted, Holding, Lives
<1>5. AudioOnDisk' /\ Cleared' /\ FoundSo'
  BY <1>1 DEF AudioOnDisk, Cleared, Emptied, FoundSo
<1>6. RowTells' /\ MixTold'
  BY <1>1 DEF RowTells, MixTold, OnDisk
<1>7. MixesRow'
  BY <1>1, <1>2 DEF MixesRow
<1> QED
  BY <1>4, <1>5, <1>6, <1>7

(* The mixer keeps the invariant.  It is at work on the row's own names    *)
(* unless that row stayed open, or a deletion has begun.                   *)
LEMMA MixingSo ==
  ASSUME FilesInv, mixer.at # "idle"
  PROVE  /\ live \notin Holding \cup {"down"} /\ ~Unstarted
         /\ recovery.at \notin {"tracks", "info", "row"}
         /\ row.at = "open" /\ row.past => recovery.at = "done"
  BY FilesBlank DEF FilesInv, Gone, Phases

LEMMA MixKeeps ==
  ASSUME FilesInv, Mix
  PROVE  FilesInv'
<1> USE DEF FilesInv
<1>1. /\ mixer.at = "due"
      /\ UNCHANGED <<row, track, info, live, heard, recovery, deletes, expired, begun, kept,
                     spoilt, filesLeft>>
  BY DEF Mix, Capture, Deletion
<1>2. /\ live \notin Holding \cup {"down"} /\ ~Unstarted
      /\ recovery.at \notin {"tracks", "info", "row"}
      /\ row.at = "open" /\ row.past => recovery.at = "done"
  BY <1>1, MixingSo
<1>3. /\ mixer' \in MixerState /\ mixer'.names = mixer.names
      /\ \/ mixer'.at = "none" /\ mixer.names = NoList /\ UNCHANGED mixFile
         \/ mixer'.at = "failed" /\ OnDisk(mixer.names) = {} /\ UNCHANGED mixFile
         \/ /\ mixer'.at = "mixing" /\ mixer'.of = OnDisk(mixer.names)
            /\ OnDisk(mixer.names) # {} /\ mixFile' = [mixFile EXCEPT !.part = TRUE]
  <2>1. mixer \in MixerState /\ OnDisk(mixer.names) \subseteq Speakers
    BY DEF FTypes, OnDisk
  <2> QED
    BY <2>1 DEF Mix, MixerState
<1>4. mixFile' \in MixState /\ mixFile'.whole = mixFile.whole /\ mixFile'.of = mixFile.of
  BY <1>3 DEF FTypes, MixState
<1>5. FTypes' /\ Gone' /\ Phases'
  BY <1>1, <1>2, <1>3, <1>4 DEF FTypes, Gone, Phases, Unstarted
<1>6. AudioOnDisk' /\ FoundSo' /\ RowTells'
  BY <1>1, <1>2 DEF AudioOnDisk, FoundSo, RowTells, Holding
<1>7. Cleared'
  BY <1>1, <1>3 DEF Cleared, OnDisk, Emptied
<1>8. OnDisk(row.names)' = OnDisk(row.names)
  BY <1>1 DEF OnDisk
<1>9. MixTold'
  BY <1>1, <1>4, <1>8 DEF MixTold
<1>10. MixesRow'
  BY <1>1, <1>3, <1>8 DEF FTypes, MixState, MixesRow, NamesHeard, Unmixable
<1> QED
  BY <1>5, <1>6, <1>7, <1>9, <1>10

LEMMA MixEndsKeeps ==
  ASSUME FilesInv, MixEnds
  PROVE  FilesInv'
<1> USE DEF FilesInv
<1>1. /\ mixer.at = "mixing"
      /\ UNCHANGED <<row, track, info, live, heard, recovery, deletes, expired, begun, kept>>
  BY DEF MixEnds, Capture, Deletion
<1>2. /\ live \notin Holding \cup {"down"} /\ ~Unstarted
      /\ recovery.at \notin {"tracks", "info", "row"}
      /\ row.at = "open" /\ row.past => recovery.at = "done"
  BY <1>1, MixingSo
<1>3. /\ mixer' \in MixerState /\ mixer'.names = mixer.names /\ mixer'.of = mixer.of
      /\ \/ /\ mixer'.at = "mixed" /\ CanMix /\ UNCHANGED <<filesLeft, spoilt>>
            /\ mixFile' = [whole |-> TRUE, part |-> FALSE, of |-> mixer.of]
         \/ /\ mixer'.at = "failed" /\ mixFile' = [mixFile EXCEPT !.part = FALSE]
            /\ \/ May("disk") /\ spoilt' = spoilt \cup {"ffmpeg"}
               \/ ~CanMix /\ UNCHANGED <<filesLeft, spoilt>>
  BY DEF FTypes, MixEnds, MixerState
<1>4. filesLeft' \in [FilesKinds -> Nat]
  BY <1>3, FilesMay DEF FTypes, FilesKinds
<1>5. /\ mixFile' \in MixState /\ ~mixFile'.part
      /\ \/ mixer'.at = "mixed" /\ mixFile'.whole /\ mixFile'.of = mixer.of
         \/ mixer'.at = "failed" /\ mixFile'.whole = mixFile.whole /\ mixFile'.of = mixFile.of
  <2>1. mixFile \in MixState /\ mixer.of \in SUBSET Speakers
    BY DEF FTypes, MixerState
  <2>2. CASE mixFile' = [whole |-> TRUE, part |-> FALSE, of |-> mixer.of] /\ mixer'.at = "mixed"
    BY <2>1, <2>2 DEF MixState
  <2>3. CASE mixFile' = [mixFile EXCEPT !.part = FALSE] /\ mixer'.at = "failed"
    BY <2>1, <2>3 DEF MixState
  <2> QED
    BY <1>3, <2>2, <2>3
<1>6. \A f \in {"info", "unread"} : f \in spoilt' <=> f \in spoilt
  BY <1>3
<1>7. FTypes' /\ Gone' /\ Phases'
  BY <1>1, <1>2, <1>3, <1>4, <1>5 DEF FTypes, Gone, Phases, Unstarted
<1>8. NamesHeard' = NamesHeard /\ OnDisk(row.names)' = OnDisk(row.names)
  BY <1>1 DEF NamesHeard, OnDisk
<1>9. AudioOnDisk' /\ FoundSo' /\ RowTells'
  BY <1>1, <1>2, <1>6, <1>8 DEF AudioOnDisk, FoundSo, RowTells, Holding
<1>10. Cleared'
  BY <1>1, <1>3, <1>5 DEF Cleared, CanMix, Emptied
<1>11. row.at = "stopped" /\ ~begun =>
         /\ mixer.of = OnDisk(row.names) /\ mixer.names = row.names /\ mixFile.part
  BY <1>1 DEF MixesRow
<1>12. MixTold'
  BY <1>1, <1>3, <1>5, <1>8, <1>11 DEF MixTold
<1>13. MixesRow'
  BY <1>1, <1>3, <1>5, <1>8, <1>11 DEF MixesRow, CanMix, OnDisk, FTypes, TrackStates,
     Unmixable
<1> QED
  BY <1>7, <1>9, <1>10, <1>12, <1>13

LEMMA SetMixKeeps ==
  ASSUME FilesInv, SetMix
  PROVE  FilesInv'
<1> USE DEF FilesInv
<1>1. /\ mixer.at \in {"mixed", "failed", "none"} /\ mixer' = Idle
      /\ UNCHANGED <<track, info, mixFile, live, heard, recovery, deletes, expired, begun, kept>>
  BY DEF SetMix, Capture, Deletion, files
<1>2. /\ live \notin Holding \cup {"down"} /\ ~Unstarted
  BY <1>1, MixingSo
<1>3. /\ row' \in RowState /\ row'.at = row.at /\ row'.names = row.names /\ row'.past = row.past
      /\ row'.ended = row.ended
      /\ \/ row'.mix = row.mix
         \/ mixer.at = "mixed" /\ row'.mix = "ready"
         \/ mixer.at \in {"failed", "none"} /\ row'.mix = mixer.at
  BY ZenonT(30), <1>1 DEF FTypes, SetMix, RowState
<1>4. filesLeft' \in [FilesKinds -> Nat] /\ spoilt' \in {spoilt, spoilt \cup {"mix"}}
  BY FilesMay DEF SetMix, FTypes, FilesKinds
<1>5. mixer' \in MixerState /\ mixer'.at = "idle"
  BY <1>1, FilesBlank
<1>6. FTypes' /\ Gone' /\ Phases'
  BY <1>1, <1>2, <1>3, <1>4, <1>5 DEF FTypes, Gone, Phases, Unstarted
<1>7. NamesHeard' = NamesHeard /\ OnDisk(row.names)' = OnDisk(row.names)
  BY <1>1, <1>3 DEF NamesHeard, OnDisk
<1>8. AudioOnDisk' /\ FoundSo' /\ RowTells' /\ Cleared'
  BY <1>1, <1>2, <1>3, <1>4, <1>7 DEF AudioOnDisk, FoundSo, RowTells, Cleared, Emptied, Holding
<1>9. MixesRow'
  BY <1>1, <1>3, <1>5, <1>7 DEF MixesRow
<1>10. MixTold'
  BY <1>1, <1>3, <1>4, <1>7 DEF MixesRow, Unmixable, MixTold
<1> QED
  BY <1>6, <1>8, <1>9, <1>10

(* A process that goes down, and the next one, keep the invariant.         *)
LEMMA CrashKeeps ==
  ASSUME FilesInv, Crash
  PROVE  FilesInv'
<1> USE DEF FilesInv
<1>1. /\ live' = "down" /\ heard' = NoList /\ mixer' = Idle /\ recovery' = NotYet
      /\ deletes' = [d \in Deleters |-> "idle"]
      /\ UNCHANGED <<row, track, info, mixFile, expired, begun, kept, spoilt>>
  BY DEF Crash, NotYet, files
<1>2. /\ heard' \in [Speakers -> HeardStates] /\ \A u \in Speakers : heard'[u] = "no"
  BY <1>1 DEF NoList, HeardStates
<1>3. /\ deletes' \in [Deleters -> {"idle", "files", "row"}]
      /\ \A d \in Deleters : deletes'[d] = "idle"
  BY <1>1
<1>4. /\ mixer' \in MixerState /\ mixer'.at = "idle" /\ recovery' \in RecoveryState
      /\ recovery'.at = "wait" /\ recovery'.of = {} /\ \A u \in Speakers : recovery'.found[u] = "no"
  BY <1>1, FilesBlank
<1>5. filesLeft' \in [FilesKinds -> Nat]
  BY FilesMay DEF Crash, FTypes, FilesKinds
<1>6. FTypes' /\ Gone' /\ Phases'
  BY <1>1, <1>2, <1>3, <1>4, <1>5 DEF FTypes, Gone, Phases, Unstarted, Holding, Lives
<1>7. AudioOnDisk' /\ Cleared'
  BY <1>1, <1>2, <1>3 DEF AudioOnDisk, Cleared, Emptied
<1>8. FoundSo' /\ MixesRow' /\ RowTells'
  BY <1>1, <1>2, <1>4 DEF FoundSo, MixesRow, RowTells
<1>9. MixTold'
  BY <1>1 DEF MixTold, OnDisk
<1> QED
  BY <1>6, <1>7, <1>8, <1>9

LEMMA RestartKeeps ==
  ASSUME FilesInv, Restart
  PROVE  FilesInv'
<1> USE DEF FilesInv
<1>1. /\ live = "down" /\ live' = "none"
      /\ UNCHANGED <<track, info, mixFile, heard, mixer, recovery, deletes, expired, begun, kept,
                     filesLeft>>
      /\ \A f \in {"info", "ffmpeg", "unread"} : f \in spoilt' <=> f \in spoilt
  BY DEF Restart, Deletion, files
<1>2. /\ mixer.at = "idle" /\ recovery.at = "wait" /\ (\A d \in Deleters : deletes[d] = "idle")
      /\ \A u \in Speakers : heard[u] = "no"
  BY <1>1, FilesBlank DEF Gone
<1>3. /\ row' \in RowState /\ row'.at = row.at /\ row'.mix = row.mix /\ row'.names = row.names
      /\ row'.ended = row.ended
  BY DEF FTypes, Restart, RowState
<1>4. FTypes' /\ Gone' /\ Phases'
  BY <1>1, <1>2, <1>3 DEF FTypes, Gone, Phases, Unstarted, Holding, Lives
<1>5. AudioOnDisk' /\ Cleared'
  BY <1>1, <1>2, <1>3 DEF AudioOnDisk, Cleared, Emptied
<1>6. FoundSo' /\ MixesRow' /\ RowTells'
  BY <1>1, <1>2, <1>3 DEF FoundSo, MixesRow, RowTells
<1>7. OnDisk(row.names)' = OnDisk(row.names)
  BY <1>1, <1>3 DEF OnDisk
<1>8. MixTold'
  BY <1>1, <1>3, <1>7 DEF MixTold
<1> QED
  BY <1>4, <1>5, <1>6, <1>8

(* Recovery keeps the invariant.                                           *)
LEMMA RecoverKeeps ==
  ASSUME FilesInv, Recover
  PROVE  FilesInv'
<1> USE DEF FilesInv
<1>1. /\ live # "down" /\ recovery.at = "wait"
      /\ UNCHANGED <<row, track, info, mixFile, live, heard, deletes, expired, begun, kept>>
  BY DEF Recover, Capture, Deletion, files
<1>2. /\ recovery' \in RecoveryState /\ recovery'.at \in {"tracks", "done"}
      /\ recovery'.of = recovery.of /\ recovery'.found = recovery.found
      /\ recovery'.at = "tracks" => row.at = "open" /\ row.past
  BY DEF FTypes, Recover, RecoveryState, LeftRunning
<1>3. /\ mixer' \in MixerState
      /\ \/ mixer' = mixer
         \/ row.at = "stopped" /\ mixer'.at = "due" /\ mixer'.names = row.names
  <2>1. mixer \in MixerState /\ row.names \in NameLists
    BY DEF FTypes, RowState
  <2>2. mixer' = mixer \/ (row.at = "stopped" /\ mixer' = DueFor(row.names))
    BY DEF Recover, LeftUnmixed, DueFor
  <2> QED
    BY <2>1, <2>2, DueSo
<1>4. /\ filesLeft' \in [FilesKinds -> Nat] /\ spoilt \subseteq spoilt'
      /\ \A f \in {"info", "ffmpeg", "unread"} : f \in spoilt' <=> f \in spoilt
  BY FilesMay DEF Recover, FTypes, FilesKinds
<1>5. FTypes' /\ Gone'
  BY <1>1, <1>2, <1>3, <1>4 DEF FTypes, Gone
<1>6. Phases'
  BY <1>1, <1>2, <1>3 DEF Phases, Unstarted
<1>7. AudioOnDisk' /\ Cleared'
  BY <1>1 DEF AudioOnDisk, Cleared, Emptied
<1>8. NamesHeard' = NamesHeard /\ OnDisk(row.names)' = OnDisk(row.names)
  BY <1>1 DEF NamesHeard, OnDisk
<1>9. FoundSo' /\ RowTells' /\ MixTold'
  BY <1>1, <1>2, <1>4, <1>8 DEF FoundSo, RowTells, MixTold
<1>10. Unmixable' = Unmixable
  BY <1>1, <1>4, <1>8 DEF Unmixable
<1>11. MixesRow'
  BY <1>1, <1>3, <1>8, <1>10 DEF MixesRow
<1> QED
  BY <1>5, <1>6, <1>7, <1>9, <1>11

LEMMA KeepTrackKeeps ==
  ASSUME FilesInv, NEW u \in Speakers, KeepTrack(u)
  PROVE  FilesInv'
<1> USE DEF FilesInv
<1>1. /\ recovery.at = "tracks"
      /\ UNCHANGED <<row, info, mixFile, live, heard, mixer, deletes, expired, begun, kept>>
  BY DEF KeepTrack, Capture, Deletion
<1>2. /\ row.at = "open" /\ row.past /\ mixer.at = "idle" /\ live = "none" /\ ~begun /\ ~Emptied
      /\ (\A w \in Speakers : heard[w] = "no") /\ \A d \in Deleters : deletes[d] = "idle"
  BY <1>1, RecoveringSo
<1>3. /\ track' \in [Speakers -> TrackStates]
      /\ \A w \in Speakers : track'[w] # track[w] => track[w] = "empty" /\ track'[w] = "none"
  BY DEF KeepTrack, FTypes, TrackStates
<1>4. /\ recovery' \in RecoveryState /\ recovery'.at = "tracks"
      /\ recovery'.of = recovery.of \cup {u}
      /\ \A w \in Speakers : w # u => recovery'.found[w] = recovery.found[w]
      /\ \/ recovery'.found[u] = Found(u)
         \/ recovery'.found = recovery.found /\ "unread" \in spoilt'
      /\ "unread" \in spoilt => "unread" \in spoilt'
  <2>1. recovery \in RecoveryState /\ Found(u) \in {"whole", "lost"}
    BY DEF FTypes, Found
  <2>2. CASE recovery' = [recovery EXCEPT !.of = @ \cup {u}, !.found[u] = Found(u)]
             /\ UNCHANGED spoilt
    BY <1>1, <2>1, <2>2 DEF RecoveryState, NameLists
  <2>3. CASE recovery' = [recovery EXCEPT !.of = @ \cup {u}] /\ spoilt' = spoilt \cup {"unread"}
    BY <1>1, <2>1, <2>3 DEF RecoveryState
  <2> QED
    BY <2>2, <2>3 DEF KeepTrack
<1>5. filesLeft' \in [FilesKinds -> Nat]
  BY FilesMay DEF KeepTrack, FTypes, FilesKinds
<1>6. FTypes' /\ Gone' /\ Phases'
  BY <1>1, <1>2, <1>3, <1>4, <1>5 DEF FTypes, Gone, Phases, Unstarted, Holding
<1>7. AudioOnDisk' /\ Cleared'
  BY <1>1, <1>2, <1>3 DEF AudioOnDisk, Cleared, Emptied
<1>8. FoundSo'
  BY <1>1, <1>2, <1>4 DEF Found, AudioOnDisk, FoundSo
<1>9. MixesRow' /\ RowTells' /\ MixTold'
  BY <1>1, <1>2 DEF MixesRow, RowTells, MixTold
<1> QED
  BY <1>6, <1>7, <1>8, <1>9

LEMMA KeptTracksKeeps ==
  ASSUME FilesInv, KeptTracks
  PROVE  FilesInv'
<1> USE DEF FilesInv
<1>1. /\ recovery.at = "tracks" /\ ToRead = {}
      /\ UNCHANGED <<row, track, info, mixFile, live, heard, mixer, deletes, expired, begun, kept,
                     spoilt, filesLeft>>
  BY DEF KeptTracks, Capture, Deletion, files
<1>2. /\ row.at = "open" /\ row.past /\ mixer.at = "idle" /\ live = "none" /\ ~begun /\ ~Emptied
      /\ (\A w \in Speakers : heard[w] = "no") /\ \A d \in Deleters : deletes[d] = "idle"
  BY <1>1, RecoveringSo
<1>3. /\ recovery' \in RecoveryState /\ recovery'.at = "info"
      /\ recovery'.of = recovery.of /\ recovery'.found = recovery.found
  BY DEF FTypes, KeptTracks, RecoveryState
<1>4. FTypes' /\ Gone' /\ Phases'
  BY <1>1, <1>2, <1>3 DEF FTypes, Gone, Phases, Unstarted, Holding
<1>5. AudioOnDisk' /\ Cleared'
  BY <1>1, <1>2 DEF AudioOnDisk, Cleared, Emptied
<1>6. FoundSo'
  BY <1>1, <1>2, <1>3 DEF AudioOnDisk, ToRead, FoundSo
<1>7. MixesRow' /\ RowTells' /\ MixTold'
  BY <1>1, <1>2 DEF MixesRow, RowTells, MixTold
<1> QED
  BY <1>4, <1>5, <1>6, <1>7

LEMMA RecoverInfoKeeps ==
  ASSUME FilesInv, RecoverInfo
  PROVE  FilesInv'
<1> USE DEF FilesInv
<1>1. /\ recovery.at = "info" /\ WritesInfo(recovery.found, "restart")
      /\ UNCHANGED <<row, track, mixFile, live, heard, mixer, deletes, expired, begun, kept>>
  BY DEF RecoverInfo, Capture, Deletion
<1>2. /\ row.at = "open" /\ row.past /\ mixer.at = "idle" /\ live = "none" /\ ~begun /\ ~Emptied
      /\ (\A w \in Speakers : heard[w] = "no") /\ \A d \in Deleters : deletes[d] = "idle"
  BY <1>1, RecoveringSo
<1>3. /\ recovery' \in RecoveryState /\ recovery'.at = "row"
      /\ recovery'.of = recovery.of /\ recovery'.found = recovery.found
      /\ recovery.found \in NameLists
  BY DEF FTypes, RecoverInfo, RecoveryState
<1>4. /\ info' \in InfoState /\ filesLeft' \in [FilesKinds -> Nat]
      /\ "info" \notin spoilt' => info'.names = recovery.found /\ info'.ended = "restart"
      /\ "unread" \in spoilt' <=> "unread" \in spoilt
  BY <1>1, <1>3, WritesSo DEF EndKinds
<1>5. FTypes' /\ Gone' /\ Phases'
  BY <1>1, <1>2, <1>3, <1>4 DEF FTypes, Gone, Phases, Unstarted, Holding
<1>6. AudioOnDisk' /\ Cleared'
  BY <1>1, <1>2 DEF AudioOnDisk, Cleared, Emptied
<1>7. FoundSo'
  BY <1>1, <1>2, <1>3, <1>4 DEF FoundSo
<1>8. MixesRow' /\ RowTells' /\ MixTold'
  BY <1>1, <1>2 DEF MixesRow, RowTells, MixTold
<1> QED
  BY <1>5, <1>6, <1>7, <1>8

LEMMA RecoverRowKeeps ==
  ASSUME FilesInv, RecoverRow
  PROVE  FilesInv'
<1> USE DEF FilesInv
<1>1. /\ recovery.at = "row" /\ Closes(recovery.found, "restart", {"row"})
      /\ mixer' \in {mixer, DueFor(recovery.found)}
      /\ UNCHANGED <<track, info, mixFile, live, heard, deletes, expired, begun, kept>>
  BY DEF RecoverRow, DueFor, Capture, Deletion, files
<1>2. /\ row.at = "open" /\ row.past /\ mixer.at = "idle" /\ live = "none" /\ ~begun /\ ~Emptied
      /\ (\A w \in Speakers : heard[w] = "no") /\ \A d \in Deleters : deletes[d] = "idle"
  BY <1>1, RecoveringSo
<1>3. /\ recovery' \in RecoveryState /\ recovery'.at = "done"
      /\ recovery'.of = recovery.of /\ recovery'.found = recovery.found
      /\ recovery.found \in NameLists
  BY DEF FTypes, RecoverRow, RecoveryState
<1>4. /\ row' \in RowState /\ filesLeft' \in [FilesKinds -> Nat]
      /\ \/ row' = row
         \/ /\ row'.at = "stopped" /\ row'.mix = "processing" /\ row'.names = recovery.found
            /\ row'.ended = "restart" /\ row'.past
      /\ \A f \in {"info", "unread", "ffmpeg"} : f \in spoilt' <=> f \in spoilt
  BY <1>1, <1>2, <1>3, ClosesSo DEF EndKinds
<1>5. /\ mixer' \in MixerState
      /\ mixer' = mixer \/ (mixer'.at = "due" /\ mixer'.names = recovery.found)
  BY <1>1, <1>3, DueSo DEF FTypes
<1>6. FTypes' /\ Gone' /\ Phases'
  BY <1>1, <1>2, <1>3, <1>4, <1>5 DEF FTypes, Gone, Phases, Unstarted, Holding
<1>7. AudioOnDisk' /\ Cleared'
  BY <1>1, <1>2, <1>4 DEF AudioOnDisk, Cleared, Emptied
<1>8. FoundSo' /\ MixTold' /\ MixesRow'
  BY <1>1, <1>2, <1>3, <1>4, <1>5 DEF FoundSo, MixTold, MixesRow
<1>9. RowTells'
  BY <1>1, <1>2, <1>3, <1>4 DEF AudioOnDisk, FoundSo, RowTells
<1> QED
  BY <1>6, <1>7, <1>8, <1>9

(* The deletions keep the invariant: no row is open once one has begun.    *)
LEMMA ExpireKeeps ==
  ASSUME FilesInv, Expire
  PROVE  FilesInv'
<1> USE DEF FilesInv
<1>1. /\ expired' = TRUE
      /\ UNCHANGED <<row, track, info, mixFile, live, heard, mixer, recovery, deletes, begun, kept,
                     spoilt, filesLeft>>
  BY DEF Expire, files, Capture
<1>2. FTypes' /\ Gone' /\ Phases'
  BY <1>1 DEF FTypes, Gone, Phases, Unstarted
<1>3. NamesHeard' = NamesHeard /\ OnDisk(row.names)' = OnDisk(row.names) /\ Unmixable' = Unmixable
  BY <1>1 DEF NamesHeard, OnDisk, Unmixable
<1>4. AudioOnDisk' /\ Cleared' /\ FoundSo'
  BY <1>1, <1>3 DEF AudioOnDisk, Cleared, Emptied, FoundSo
<1>5. MixesRow' /\ RowTells' /\ MixTold'
  BY <1>1, <1>3 DEF MixesRow, RowTells, MixTold
<1> QED
  BY <1>2, <1>4, <1>5

LEMMA BeginDeleteKeeps ==
  ASSUME FilesInv, NEW d \in Deleters, BeginDelete(d)
  PROVE  FilesInv'
<1> USE DEF FilesInv
<1>1. /\ live # "down" /\ row.at = "stopped" /\ begun' = TRUE
      /\ deletes' = [deletes EXCEPT ![d] = "files"]
      /\ UNCHANGED <<row, track, info, mixFile, live, heard, mixer, recovery, expired, kept,
                     spoilt>>
  BY DEF BeginDelete, Deletable, Then, files, Capture
<1>2. /\ deletes' \in [Deleters -> {"idle", "files", "row"}]
      /\ \A e \in Deleters : deletes'[e] = "row" => deletes[e] = "row"
  BY <1>1 DEF FTypes
<1>3. filesLeft' \in [FilesKinds -> Nat]
  BY FilesMay DEF BeginDelete, FTypes, FilesKinds
<1>4. FTypes' /\ Gone' /\ Phases'
  BY <1>1, <1>2, <1>3 DEF FTypes, Gone, Phases, Unstarted
<1>5. NamesHeard' = NamesHeard
  BY <1>1 DEF NamesHeard
<1>6. AudioOnDisk' /\ Cleared' /\ FoundSo'
  BY <1>1, <1>2, <1>5 DEF AudioOnDisk, Cleared, Emptied, FoundSo
<1>7. MixesRow' /\ RowTells' /\ MixTold'
  BY <1>1, <1>5 DEF MixesRow, RowTells, MixTold
<1> QED
  BY <1>4, <1>6, <1>7

LEMMA DeletingSo ==
  ASSUME FilesInv, NEW d \in Deleters, deletes[d] # "idle"
  PROVE  /\ begun /\ row.at # "open" /\ live \notin Holding
         /\ recovery.at \notin {"tracks", "info", "row"}
  BY DEF FilesInv, Phases

LEMMA RemoveFilesKeeps ==
  ASSUME FilesInv, NEW d \in Deleters, RemoveFiles(d)
  PROVE  FilesInv'
<1> USE DEF FilesInv
<1>1. /\ deletes[d] = "files"
      /\ \/ /\ track' = [u \in Speakers |-> "none"] /\ info' = NoInfo /\ mixFile' = NoMix
            /\ deletes' = [deletes EXCEPT ![d] = "row"]
         \/ /\ \E gone \in SUBSET Speakers :
                 track' = [u \in Speakers |-> IF u \in gone THEN "none" ELSE track[u]]
            /\ info' \in {info, NoInfo} /\ UNCHANGED mixFile
            /\ deletes' = [deletes EXCEPT ![d] = "idle"]
      /\ UNCHANGED <<row, live, heard, mixer, recovery, expired, begun, kept, spoilt>>
  BY DEF RemoveFiles, Then, Capture
<1>2. /\ begun /\ row.at # "open" /\ live \notin Holding
      /\ recovery.at \notin {"tracks", "info", "row"}
  BY <1>1, DeletingSo
<1>3. live # "down"
  BY <1>1 DEF Gone
<1>4. filesLeft' \in [FilesKinds -> Nat]
  BY FilesMay DEF RemoveFiles, FTypes, FilesKinds
<1>5. /\ track' \in [Speakers -> TrackStates]
      /\ \A u \in Speakers : track'[u] \in {track[u], "none"}
  BY <1>1 DEF FTypes, TrackStates
<1>6. /\ info' \in InfoState /\ mixFile' \in MixState
      /\ info' = info \/ ~info'.there
      /\ deletes' \in [Deleters -> {"idle", "files", "row"}]
  BY <1>1, FilesBlank DEF FTypes
<1>7. FTypes' /\ Gone' /\ Phases'
  BY <1>1, <1>2, <1>3, <1>4, <1>5, <1>6 DEF FTypes, Gone, Phases, Unstarted
<1>8. AudioOnDisk'
  BY <1>1, <1>2, <1>5 DEF AudioOnDisk
<1>9. Cleared'
  BY <1>1, <1>5, <1>6, FilesBlank DEF Cleared, Emptied, FTypes
<1>10. NamesHeard' = NamesHeard
  BY <1>1 DEF NamesHeard
<1>11. FoundSo' /\ MixesRow' /\ MixTold'
  BY <1>1, <1>2, <1>10 DEF FoundSo, MixesRow, MixTold, Holding
<1>12. RowTells'
  BY <1>1, <1>2, <1>6 DEF RowTells
<1> QED
  BY <1>7, <1>8, <1>9, <1>11, <1>12

LEMMA RemoveRowKeeps ==
  ASSUME FilesInv, NEW d \in Deleters, RemoveRow(d)
  PROVE  FilesInv'
<1> USE DEF FilesInv
<1>1. /\ deletes[d] = "row" /\ row' \in {row, NoRow} /\ deletes' = [deletes EXCEPT ![d] = "idle"]
      /\ UNCHANGED <<track, info, mixFile, live, heard, mixer, recovery, expired, begun, kept,
                     spoilt>>
  BY DEF RemoveRow, Then, Capture, files
<1>2. /\ begun /\ row.at # "open" /\ live \notin Holding
      /\ recovery.at \notin {"tracks", "info", "row"}
  BY <1>1, DeletingSo
<1>3. live # "down" /\ Emptied
  BY <1>1 DEF Gone, Emptied
<1>4. filesLeft' \in [FilesKinds -> Nat]
  BY FilesMay DEF RemoveRow, FTypes, FilesKinds
<1>5. /\ row' \in RowState /\ row'.at # "open"
      /\ row' = row \/ row'.at = "none"
      /\ deletes' \in [Deleters -> {"idle", "files", "row"}]
  BY <1>1, <1>2, FilesBlank DEF FTypes
<1>6. FTypes' /\ Gone' /\ Phases'
  BY <1>1, <1>2, <1>3, <1>4, <1>5 DEF FTypes, Gone, Phases, Unstarted
<1>7. AudioOnDisk' /\ Cleared'
  BY <1>1, <1>3 DEF AudioOnDisk, Cleared
<1>8. NamesHeard' = NamesHeard
  BY <1>1 DEF NamesHeard
<1>9. FoundSo' /\ MixesRow' /\ MixTold'
  BY <1>1, <1>2, <1>5, <1>8 DEF FoundSo, MixesRow, MixTold, Holding
<1>10. RowTells'
  BY <1>1, <1>2, <1>5 DEF RowTells, Holding
<1> QED
  BY <1>6, <1>7, <1>9, <1>10

LEMMA FilesInvStep ==
  ASSUME FilesInv, FilesNext
  PROVE  FilesInv'
<1>1. ASSUME Start PROVE FilesInv'
  BY <1>1, StartKeeps
<1>2. ASSUME EndTracks("ended") \/ Shutdown PROVE FilesInv'
  BY <1>2, EndTracksKeeps DEF Shutdown
<1>3. ASSUME Crash \/ Restart PROVE FilesInv'
  BY <1>3, CrashKeeps, RestartKeeps
<1>4. ASSUME Expire PROVE FilesInv'
  BY <1>4, ExpireKeeps
<1>5. ASSUME Stops PROVE FilesInv'
  BY <1>5, TellKeeps, CloseRowKeeps, StartMixKeeps DEF Stops
<1>6. ASSUME Mixes PROVE FilesInv'
  BY <1>6, MixKeeps, MixEndsKeeps, SetMixKeeps DEF Mixes
<1>7. ASSUME Recovers PROVE FilesInv'
  BY <1>7, RecoverKeeps, KeptTracksKeeps, RecoverInfoKeeps, RecoverRowKeeps, KeepTrackKeeps
     DEF Recovers
<1>8. ASSUME NEW u \in Speakers, Hear(u) \/ Flush(u) PROVE FilesInv'
  BY <1>8, HearKeeps, FlushKeeps
<1>9. ASSUME NEW d \in Deleters, BeginDelete(d) \/ Removes(d) PROVE FilesInv'
  BY <1>9, BeginDeleteKeeps, RemoveFilesKeeps, RemoveRowKeeps DEF Removes
<1> QED
  BY <1>1, <1>2, <1>3, <1>4, <1>5, <1>6, <1>7, <1>8, <1>9 DEF FilesNext

LEMMA FilesSteady ==
  ASSUME FilesInv, UNCHANGED filesVars
  PROVE  FilesInv'
<1> USE DEF FilesInv
<1>1. UNCHANGED <<row, track, info, mixFile, live, heard, mixer, recovery, deletes, expired, begun,
                  kept, spoilt, filesLeft>>
  BY DEF filesVars
<1>2. FTypes' /\ Gone' /\ Phases'
  BY <1>1 DEF FTypes, Gone, Phases, Unstarted
<1>3. NamesHeard' = NamesHeard /\ OnDisk(row.names)' = OnDisk(row.names) /\ Unmixable' = Unmixable
  BY <1>1 DEF NamesHeard, OnDisk, Unmixable
<1>4. AudioOnDisk' /\ Cleared' /\ FoundSo'
  BY <1>1, <1>3 DEF AudioOnDisk, Cleared, Emptied, FoundSo
<1>5. MixesRow' /\ RowTells' /\ MixTold'
  BY <1>1, <1>3 DEF MixesRow, RowTells, MixTold
<1> QED
  BY <1>2, <1>4, <1>5

(* A row tells what is on disk: no file is left that no row finds, a row   *)
(* closed by a stop or by recovery names everyone heard, with whose audio  *)
(* is there, and says of its mix what became of it, whatever fails and     *)
(* wherever the process goes down (closeRow, recoverRecording,             *)
(* keepAudioTracks, mix, setMix, removeRecording).                         *)
THEOREM FilesRight == Spec => []FilesTell
<1>1. Init => FilesInv
  BY FilesInvInit, FilesAssumption DEF Init
<1>2. FilesInv /\ [Next]_all => FilesInv'
  BY FilesInvStep, FilesSteady DEF Next, OfFiles, OfList, OfAviator, OfWatch, BesideList,
     BesideAviator, BesideWatch, BesideTrack, all
<1>3. FilesInv => FilesTell
  BY FilesInvTells, FilesAssumption
<1> QED
  BY <1>1, <1>2, <1>3, PTL DEF Spec

-----------------------------------------------------------------------------
(* The winged aviator: the types of what waits at the lock, of the job     *)
(* under it and of the events; and a pass has one work under way at most,  *)
(* which is all that comes on top of the bound on what waits.              *)
Works == {"update", "join", "add", "remove", "holder", "check"}
JobStages == {"status", "milpac", "record", "unrecord", "set"}
Causes == {"none", "hand", "forum", "bot"}
Milpacs == {"none", "active", "discharged"}
Waiter == [kind : Works, holds : BOOLEAN, held : BOOLEAN, known : BOOLEAN, same : BOOLEAN,
           by : Causes, at : {"lock"}, is : BOOLEAN, read : {"unread"}]
UnderWay == [kind : Works, holds : BOOLEAN, held : BOOLEAN, known : BOOLEAN, same : BOOLEAN,
             by : Causes, at : JobStages, is : BOOLEAN, read : {"unread"} \cup Milpacs]
StreamEvent == [kind : {"update", "leave", "join"}, holds : BOOLEAN, same : BOOLEAN, by : Causes]
Member == [inside : BOOLEAN, holds : BOOLEAN, milpac : Milpacs]
PassState == [at : {"down", "poll", "record", "list", "check", "sleep"}, startup : BOOLEAN,
              listed : {"holds", "bare", "out", "unknown"}]
ATypes ==
  /\ discord \in Member /\ (discord.holds => discord.inside) /\ aviator \in BOOLEAN
  /\ stream \in Seq(StreamEvent)
  /\ cache \in {"holds", "bare", "out", "unknown"} /\ moving \in {"none", "holds", "bare"}
  /\ waiting \in Seq(Waiter) /\ job \in UnderWay \cup {NoJob} /\ pass \in PassState
  /\ pass.at = "down" => job = NoJob /\ waiting = <<>> /\ moving = "none" /\ stream = <<>>
  /\ aviatorsLeft \in [AviatorKinds -> Nat]
OfPass(w) == w.kind \in {"holder", "check"}
InPass == pass.at \in {"record", "check"}
OneOfPass ==
  /\ OfPass(job) => InPass /\ \A i \in DOMAIN waiting : ~OfPass(waiting[i])
  /\ \A i \in DOMAIN waiting : OfPass(waiting[i]) => InPass
  /\ \A i, k \in DOMAIN waiting : OfPass(waiting[i]) /\ OfPass(waiting[k]) => i = k
Room ==
  /\ Len(waiting) <= MaxWaiting + 1
  /\ Len(waiting) = MaxWaiting + 1 => \E i \in DOMAIN waiting : OfPass(waiting[i])
AviatorInv == ATypes /\ OneOfPass /\ Room

LEMMA AviatorInvInit ==
  ASSUME AviatorAssumption, AviatorInit
  PROVE  AviatorInv
<1>1. discord \in Member /\ discord.inside /\ aviator \in BOOLEAN
  BY DEF AviatorInit, Member, Milpacs
<1>2. pass \in PassState /\ pass.at = "poll"
  BY DEF AviatorInit, NoPass, PassState
<1>3. stream = <<>> /\ waiting = <<>> /\ job = NoJob /\ cache = "unknown" /\ moving = "none"
      /\ aviatorsLeft \in [AviatorKinds -> Nat]
  BY DEF AviatorInit, AviatorAssumption
<1>4. ATypes
  BY <1>1, <1>2, <1>3 DEF ATypes
<1>5. OneOfPass /\ Room
  BY <1>3 DEF OneOfPass, Room, OfPass, NoJob, Work, AviatorAssumption
<1> QED
  BY <1>4, <1>5 DEF AviatorInv

LEMMA AviatorInvTells ==
  ASSUME AviatorAssumption, AviatorInv
  PROVE  AviatorTypeOK
<1>1. NoJob.kind = "none" /\ NoJob.at = "lock"
  BY DEF NoJob, Work
<1>2. job = NoJob \/ (job.kind \in Works /\ job.at \in JobStages)
  BY DEF AviatorInv, ATypes, UnderWay
<1>3. Len(waiting) \in Nat /\ MaxWaiting \in Nat
  BY DEF AviatorInv, ATypes, AviatorAssumption
<1> QED
  BY <1>1, <1>2, <1>3
  DEF AviatorInv, ATypes, Room, Member, Milpacs, PassState, Works, JobStages, AviatorTypeOK

(* What is not a pass's own work joins the queue while there is room.      *)
LEMMA WorkComes ==
  ASSUME AviatorAssumption, AviatorInv, NEW w \in Waiter, ~OfPass(w), Len(waiting) < MaxWaiting,
         waiting' = Append(waiting, w), UNCHANGED <<job, pass>>
  PROVE  waiting' \in Seq(Waiter) /\ OneOfPass' /\ Room'
<1>1. waiting \in Seq(Waiter) /\ Len(waiting) \in Nat /\ MaxWaiting \in Nat
  BY DEF AviatorInv, ATypes, AviatorAssumption
<1>2. /\ waiting' \in Seq(Waiter) /\ Len(waiting') = Len(waiting) + 1
      /\ DOMAIN waiting' = 1 .. (Len(waiting) + 1)
      /\ DOMAIN waiting = 1 .. Len(waiting)
      /\ \A i \in 1 .. Len(waiting) : waiting'[i] = waiting[i]
      /\ waiting'[Len(waiting) + 1] = w
  BY <1>1
<1>3. Room'
  BY <1>1, <1>2 DEF Room
<1>4. \A i \in DOMAIN waiting' : i \in DOMAIN waiting \/ waiting'[i] = w
  BY <1>1, <1>2
<1>5. \A i \in DOMAIN waiting' : OfPass(waiting'[i]) => i \in DOMAIN waiting /\ OfPass(waiting[i])
  BY <1>2, <1>4
<1>6. OneOfPass'
  BY <1>5 DEF AviatorInv, OneOfPass, InPass, OfPass
<1> QED
  BY <1>2, <1>3, <1>6

(* A pass's own work joins it when none is under way.                      *)
LEMMA PassWorkComes ==
  ASSUME AviatorAssumption, AviatorInv, NEW w \in Waiter, OfPass(w), ~InPass, InPass',
         waiting' = Append(waiting, w), UNCHANGED job
  PROVE  waiting' \in Seq(Waiter) /\ OneOfPass' /\ Room'
<1>1. waiting \in Seq(Waiter) /\ Len(waiting) \in Nat /\ MaxWaiting \in Nat
  BY DEF AviatorInv, ATypes, AviatorAssumption
<1>2. /\ waiting' \in Seq(Waiter) /\ Len(waiting') = Len(waiting) + 1
      /\ DOMAIN waiting' = 1 .. (Len(waiting) + 1)
      /\ DOMAIN waiting = 1 .. Len(waiting)
      /\ \A i \in 1 .. Len(waiting) : waiting'[i] = waiting[i]
      /\ waiting'[Len(waiting) + 1] = w
  BY <1>1
<1>3. ~OfPass(job) /\ \A i \in DOMAIN waiting : ~OfPass(waiting[i])
  BY DEF AviatorInv, OneOfPass
<1>4. Len(waiting) <= MaxWaiting
  BY <1>1, <1>3 DEF AviatorInv, Room
<1>5. \A i \in DOMAIN waiting' : OfPass(waiting'[i]) => i = Len(waiting) + 1
  BY <1>1, <1>2, <1>3
<1>6. ~OfPass(job')
  BY <1>3 DEF OfPass
<1>7. OneOfPass'
  BY <1>5, <1>6 DEF OneOfPass, OfPass, InPass
<1>8. Room'
  BY <1>1, <1>2, <1>4 DEF Room, OfPass
<1> QED
  BY <1>2, <1>7, <1>8

(* The next at the lock leaves the queue.                                  *)
LEMMA WorkGoes ==
  ASSUME AviatorAssumption, AviatorInv, NEW i \in DOMAIN waiting, Take(i)
  PROVE  /\ waiting' \in Seq(Waiter) /\ job' \in UnderWay \cup {NoJob} /\ OneOfPass' /\ Room'
         /\ moving' \in {"none", "holds", "bare"}
<1> DEFINE w == waiting[i]
<1>1. /\ waiting \in Seq(Waiter) /\ Len(waiting) \in Nat /\ MaxWaiting \in Nat
      /\ i \in 1 .. Len(waiting) /\ DOMAIN waiting = 1 .. Len(waiting) /\ w \in Waiter
  BY DEF AviatorInv, ATypes, AviatorAssumption
<1>2. /\ waiting' = LeftAt(waiting, i)
      /\ job = NoJob /\ pass' = pass
      /\ \/ w.kind = "update" /\ job' = NoJob
         \/ job' = [w EXCEPT !.at = "milpac"]
         \/ job' = [w EXCEPT !.at = "status"]
  BY DEF Take, LeftAt
<1>l. /\ LeftAt(waiting, i) \in Seq(Waiter) /\ Len(LeftAt(waiting, i)) = Len(waiting) - 1
      /\ \A k \in 1 .. (i - 1) : LeftAt(waiting, i)[k] = waiting[k]
      /\ \A k \in i .. (Len(waiting) - 1) : LeftAt(waiting, i)[k] = waiting[k + 1]
  BY <1>1, OneOut
<1>3. /\ waiting' \in Seq(Waiter) /\ Len(waiting') = Len(waiting) - 1
      /\ \A k \in 1 .. (i - 1) : waiting'[k] = waiting[k]
      /\ \A k \in i .. (Len(waiting) - 1) : waiting'[k] = waiting[k + 1]
  BY <1>2, <1>l
<1>d. w = waiting[i]
  OBVIOUS
<1> HIDE DEF w
<1>4. job' = NoJob \/ (job' \in UnderWay /\ job'.kind = w.kind)
  BY <1>1, <1>2 DEF Waiter, UnderWay, JobStages
<1>5. moving' \in {"none", "holds", "bare"}
  BY DEF Take, NoteAfter, AviatorInv, ATypes
<1>6. DOMAIN waiting' = 1 .. (Len(waiting) - 1)
  BY <1>1, <1>3
<1>7. ASSUME NEW k \in DOMAIN waiting'
      PROVE  \E m \in DOMAIN waiting : /\ m # i /\ waiting'[k] = waiting[m]
                                       /\ m = IF k < i THEN k ELSE k + 1
  BY SMTT(60), <1>1, <1>3, <1>6
<1>8. OneOfPass'
  BY SMTT(30), <1>1, <1>2, <1>4, <1>6, <1>7, <1>d DEF OfPass, NoJob, Work, AviatorInv, OneOfPass,
     InPass
<1>9. Room'
  <2>1. Len(waiting) <= MaxWaiting + 1
    BY DEF AviatorInv, Room
  <2>2. Len(waiting') \in Nat /\ Len(waiting') <= MaxWaiting
    BY <1>1, <1>3, <2>1
  <2> QED
    BY <1>1, <2>2 DEF Room
<1> QED
  BY <1>3, <1>4, <1>5, <1>8, <1>9

(* A job that goes on, or that is over and gives the pass its turn back.   *)
JobMoves ==
  \/ job' \in UnderWay /\ job'.kind = job.kind /\ UNCHANGED pass
  \/ Over
LEMMA JobGoes ==
  ASSUME AviatorInv, job \in UnderWay, UNCHANGED waiting, JobMoves
  PROVE  /\ job' \in UnderWay \cup {NoJob} /\ pass' \in PassState /\ pass'.at # "down"
         /\ OneOfPass' /\ Room'
<1>0. job # NoJob
  BY DEF UnderWay, Works, NoJob, Work
<1>1. pass \in PassState /\ pass.at # "down" /\ ~OfPass(NoJob)
  BY <1>0 DEF AviatorInv, ATypes, OfPass, NoJob, Work
<1>2. Room'
  BY DEF AviatorInv, Room, OfPass
<1>3. ASSUME Over
      PROVE  /\ job' = NoJob /\ pass' \in PassState /\ pass'.at # "down"
             /\ OfPass(job) \/ pass' = pass
  BY <1>1, <1>3 DEF Over, PassState, OfPass
<1>4. OneOfPass'
  BY <1>1, <1>3 DEF AviatorInv, OneOfPass, OfPass, InPass, JobMoves
<1> QED
  BY <1>1, <1>2, <1>3, <1>4 DEF JobMoves

(* What a job's step makes of it.                                          *)
LEMMA StatusSo ==
  ASSUME NEW j, NEW is \in BOOLEAN
  PROVE  AfterStatus(j, is) \in JobStages \cup {"done"}
BY DEF AfterStatus, AfterUpdate, AfterAdd, AfterRemove, AfterCheck, JobStages

LEMMA OnSo ==
  ASSUME job \in UnderWay, NEW step \in JobStages \cup {"done"}, On(step)
  PROVE  JobMoves
  BY DEF On, JobMoves, Goes, UnderWay

LEMMA AviatorHappens ==
  ASSUME AviatorInv, NEW k \in AviatorKinds, Happens(k)
  PROVE  aviatorsLeft' \in [AviatorKinds -> Nat]
  BY DEF AviatorInv, ATypes, Happens

LEMMA JobStep ==
  ASSUME AviatorAssumption, AviatorInv, JobSteps
  PROVE  /\ job \in UnderWay /\ UNCHANGED waiting /\ JobMoves
         /\ aviatorsLeft' \in [AviatorKinds -> Nat] /\ aviator' \in BOOLEAN
<1>1. job \in UnderWay
  <2>1. job.at # "lock"
    BY DEF JobSteps, ReadStatus, ReadMilpac, Record, Unrecord, SetRole
  <2> QED
    BY <2>1 DEF AviatorInv, ATypes, NoJob, Work
<1>2. aviator \in BOOLEAN /\ aviatorsLeft \in [AviatorKinds -> Nat] /\ discord \in Member
  BY DEF AviatorInv, ATypes
<1>3. ASSUME ReadStatus
      PROVE  /\ UNCHANGED waiting /\ JobMoves
             /\ aviatorsLeft' \in [AviatorKinds -> Nat] /\ aviator' \in BOOLEAN
  <2>1. PICK is \in {aviator, FALSE} :
          /\ IF is # aviator THEN Happens("store") ELSE UNCHANGED aviatorsLeft
          /\ IF AfterStatus(job, is) = "done" THEN Over
             ELSE /\ job' = [job EXCEPT !.at = AfterStatus(job, is), !.is = is]
                  /\ UNCHANGED pass
    BY <1>3 DEF ReadStatus
  <2>2. is \in BOOLEAN /\ AfterStatus(job, is) \in JobStages \cup {"done"}
    BY <1>2, <2>1, StatusSo
  <2>3. JobMoves
    BY <1>1, <2>1, <2>2 DEF JobMoves, UnderWay
  <2> QED
    BY <1>2, <1>3, <2>1, <2>3, AviatorHappens DEF ReadStatus, AviatorKinds
<1>4. ASSUME ReadMilpac
      PROVE  /\ UNCHANGED waiting /\ JobMoves
             /\ aviatorsLeft' \in [AviatorKinds -> Nat] /\ aviator' \in BOOLEAN
  <2>1. \/ Over
        \/ /\ UNCHANGED pass
           /\ \E at \in JobStages :
                job' = [job EXCEPT !.at = at, !.read = discord.milpac]
    BY <1>4 DEF ReadMilpac, JobStages
  <2>2. JobMoves
    BY <1>1, <1>2, <2>1 DEF JobMoves, UnderWay, Member
  <2> QED
    BY <1>2, <1>4, <2>2, AviatorHappens DEF ReadMilpac, AviatorKinds
<1>5. ASSUME NEW is \in BOOLEAN, NEW next \in JobStages \cup {"done"}, Writes(is, next)
      PROVE  /\ UNCHANGED waiting /\ JobMoves
             /\ aviatorsLeft' \in [AviatorKinds -> Nat] /\ aviator' \in BOOLEAN
  BY <1>1, <1>2, <1>5, OnSo, AviatorHappens DEF Writes, JobMoves, AviatorKinds
<1>6. ASSUME SetRole
      PROVE  /\ UNCHANGED waiting /\ JobMoves
             /\ aviatorsLeft' \in [AviatorKinds -> Nat] /\ aviator' \in BOOLEAN
  BY <1>1, <1>2, <1>6, OnSo, AviatorHappens DEF AfterSet, JobStages, SetRole, JobMoves,
     AviatorKinds
<1>7. ASSUME Record \/ Unrecord
      PROVE  \E is \in BOOLEAN : \E next \in JobStages \cup {"done"} : Writes(is, next)
  BY <1>7 DEF Record, Unrecord, JobStages
<1> QED
  BY <1>1, <1>3, <1>4, <1>5, <1>6, <1>7 DEF JobSteps

(* What is sent reaches a process that is up.                              *)
LEMMA SentSo ==
  ASSUME AviatorInv, NEW e \in StreamEvent, Sent(e)
  PROVE  stream' \in Seq(StreamEvent) /\ (pass.at = "down" => stream' = stream)
BY DEF AviatorInv, ATypes, Sent, Running

LEMMA UpdateSo ==
  ASSUME NEW holds \in BOOLEAN, NEW by \in Causes
  PROVE  Update(holds, by) \in StreamEvent
BY DEF Update, StreamEvent

(* While the queue, the job and the pass stay, and while no part of a pass *)
(* is under way, they stay right.                                          *)
LEMMA WaitSteady ==
  ASSUME AviatorInv, UNCHANGED <<waiting, job>>, UNCHANGED pass \/ ~InPass
  PROVE  OneOfPass' /\ Room'
<1>1. Room'
  BY DEF AviatorInv, Room, OfPass
<1>0. waiting' = waiting /\ job' = job
  OBVIOUS
<1>2. CASE UNCHANGED pass
  BY <1>0, <1>1, <1>2 DEF AviatorInv, OneOfPass, OfPass, InPass
<1>3. CASE ~InPass
  BY <1>0, <1>1, <1>3 DEF AviatorInv, OneOfPass, OfPass
<1> QED
  BY <1>1, <1>2, <1>3

(* Each step keeps the types, the queue and the pass's turn.               *)
LEMMA PeopleKeep ==
  ASSUME AviatorAssumption, AviatorInv, People
  PROVE  AviatorInv'
<1> USE DEF AviatorInv
<1>1. ASSUME Hand \/ Forum \/ ComeOrGo PROVE AviatorInv'
  <2>1. UNCHANGED <<aviator, cache, ready, waiting, job, moving, pass>>
    BY <1>1 DEF Hand, Forum, ComeOrGo
  <2>2. OneOfPass' /\ Room'
    BY <2>1, WaitSteady
  <2>3. discord \in Member
    BY DEF ATypes
  <2>4. discord' \in Member /\ (discord'.holds => discord'.inside)
    BY <1>1, <2>3 DEF ATypes, Hand, Forum, ComeOrGo, Member, Milpacs
  <2>5. aviatorsLeft' \in [AviatorKinds -> Nat]
    BY <1>1, AviatorHappens DEF ATypes, Hand, Forum, ComeOrGo, AviatorKinds
  <2>6. stream' \in Seq(StreamEvent) /\ (pass.at = "down" => stream' = stream)
    BY ZenonT(60), <1>1, <2>3, UpdateSo, SentSo DEF Hand, Forum, ComeOrGo, Member, Causes, Event,
       StreamEvent, ATypes
  <2> QED
    BY <2>1, <2>2, <2>4, <2>5, <2>6 DEF ATypes
<1>2. ASSUME NEW kind \in {"add", "remove"}, Command(kind) PROVE AviatorInv'
  BY ZenonT(60), <1>2, WorkComes, AviatorHappens DEF Command, Running, session, Work, Waiter, Works,
     Causes, OfPass, ATypes, Member, AviatorKinds
<1> QED
  BY <1>1, <1>2 DEF People

LEMMA HearsKeeps ==
  ASSUME AviatorAssumption, AviatorInv, Hears
  PROVE  AviatorInv'
<1> USE DEF AviatorInv
<1> DEFINE e == Head(stream)
           known == cache \in {"holds", "bare"}
           held == cache = "holds"
           w == [Work("update", e.holds) EXCEPT !.known = known, !.held = held, !.same = e.same,
                   !.by = e.by]
<1>1. /\ stream # <<>> /\ stream' = Tail(stream) /\ Len(waiting) < MaxWaiting
      /\ cache' \in {"out", "holds", "bare"}
      /\ \/ UNCHANGED waiting
         \/ waiting' = Append(waiting, Work("join", FALSE))
         \/ waiting' = Append(waiting, w)
      /\ UNCHANGED <<discord, aviator, ready, job, moving, pass, aviatorsLeft>>
  BY DEF Hears, Told
<1>2. pass.at # "down" /\ e \in StreamEvent /\ stream' \in Seq(StreamEvent)
  BY <1>1 DEF ATypes
<1>k. known \in BOOLEAN /\ held \in BOOLEAN
  OBVIOUS
<1> HIDE DEF known, held
<1>3. w \in Waiter /\ ~OfPass(w)
  BY ZenonT(30), <1>2, <1>k DEF Work, Waiter, Works, Causes, StreamEvent, OfPass
<1>4. Work("join", FALSE) \in Waiter /\ ~OfPass(Work("join", FALSE))
  BY DEF Work, Waiter, Works, Causes, OfPass
<1> HIDE DEF w, e
<1>5. waiting' \in Seq(Waiter) /\ OneOfPass' /\ Room'
  BY <1>1, <1>3, <1>4, WaitSteady, WorkComes DEF ATypes
<1> QED
  BY <1>1, <1>2, <1>5 DEF ATypes

LEMMA PassKeeps ==
  ASSUME AviatorAssumption, AviatorInv, PassSteps
  PROVE  AviatorInv'
<1> USE DEF AviatorInv
<1>1. /\ pass.at \in {"poll", "list", "sleep"} /\ ~InPass
      /\ UNCHANGED <<discord, aviator, stream, cache, ready, job, moving>>
  BY DEF PassSteps, PassBegins, PassLists, Hourly, session, InPass
<1>2. pass' \in PassState /\ pass'.at # "down"
  BY ZenonT(30) DEF ATypes, PassBegins, PassState, PassLists, Hourly, NextPass, NoPass, PassSteps
<1>3. waiting' \in Seq(Waiter) /\ OneOfPass' /\ Room'
  BY ZenonT(30), <1>1, WaitSteady, PassWorkComes DEF ATypes, PassBegins, PassLists, Hourly, PassSteps,
     PassState, InPass, Work, Waiter, Works, Causes, OfPass
<1>4. aviatorsLeft' \in [AviatorKinds -> Nat]
  BY AviatorHappens DEF PassSteps, PassBegins, PassLists, Hourly, ATypes, AviatorKinds
<1> QED
  BY <1>1, <1>2, <1>3, <1>4 DEF ATypes

LEMMA JobKeeps ==
  ASSUME AviatorAssumption, AviatorInv, JobSteps
  PROVE  AviatorInv'
<1> USE DEF AviatorInv
<1>1. /\ job \in UnderWay /\ UNCHANGED waiting /\ JobMoves
      /\ aviatorsLeft' \in [AviatorKinds -> Nat] /\ aviator' \in BOOLEAN
  BY JobStep
<1>2. /\ job' \in UnderWay \cup {NoJob} /\ pass' \in PassState /\ pass'.at # "down"
      /\ OneOfPass' /\ Room'
  BY <1>1, JobGoes
<1>3. /\ cache' = cache /\ moving' \in {"none", "holds", "bare"}
      /\ discord' \in Member /\ (discord'.holds => discord'.inside)
      /\ stream' \in Seq(StreamEvent)
  <2>1. discord \in Member /\ (discord.holds => discord.inside) /\ stream \in Seq(StreamEvent)
        /\ moving \in {"none", "holds", "bare"} /\ Gives(job) \in BOOLEAN
    BY <1>1 DEF ATypes, Gives, UnderWay
  <2>2. ASSUME ReadStatus \/ ReadMilpac \/ Record \/ Unrecord
        PROVE  UNCHANGED <<discord, stream, cache, moving>>
    BY <2>2 DEF ReadStatus, ReadMilpac, Record, Unrecord, Writes, session
  <2>3. ASSUME SetRole
        PROVE  /\ cache' = cache /\ moving' \in {"none", "holds", "bare"}
               /\ discord' \in Member /\ (discord'.holds => discord'.inside)
               /\ stream' \in Seq(StreamEvent)
    BY <2>1, <2>3, UpdateSo, SentSo DEF SetRole, Causes, Member, Told
  <2> QED
    BY <2>1, <2>2, <2>3 DEF JobSteps
<1> QED
  BY <1>1, <1>2, <1>3 DEF ATypes

LEMMA AviatorInvStep ==
  ASSUME AviatorAssumption, AviatorInv, AviatorNext
  PROVE  AviatorInv'
<1> USE DEF AviatorInv
<1>1. ASSUME Drop \/ ListArrives PROVE AviatorInv'
  <2>1. /\ pass.at # "down" /\ cache' \in {"holds", "bare", "out", "unknown"}
        /\ stream' \in {stream, <<>>}
        /\ UNCHANGED <<discord, aviator, waiting, job, moving, pass>>
    BY <1>1 DEF Drop, ListArrives, Running, Told
  <2>2. aviatorsLeft' \in [AviatorKinds -> Nat]
    BY <1>1, AviatorHappens DEF Drop, ListArrives, ATypes, AviatorKinds
  <2>3. OneOfPass' /\ Room'
    BY <2>1, WaitSteady
  <2>4. stream' \in Seq(StreamEvent)
    <3>1. stream \in Seq(StreamEvent)
      BY DEF ATypes
    <3>2. <<>> \in Seq(StreamEvent)
      OBVIOUS
    <3> QED
      BY <2>1, <3>1, <3>2
  <2> QED
    BY <2>1, <2>2, <2>3, <2>4 DEF ATypes
<1>2. ASSUME Turns PROVE AviatorInv'
  <2>1. PICK i \in DOMAIN waiting : Take(i)
    BY <1>2 DEF Turns
  <2>2. /\ waiting' \in Seq(Waiter) /\ job' \in UnderWay \cup {NoJob} /\ OneOfPass' /\ Room'
        /\ moving' \in {"none", "holds", "bare"}
    BY <2>1, WorkGoes
  <2>3. UNCHANGED <<discord, aviator, stream, cache, ready, pass, aviatorsLeft>>
    BY <2>1 DEF Take, session
  <2>4. waiting # <<>>
    BY <2>1
  <2> QED
    BY <2>2, <2>3, <2>4 DEF ATypes
<1>3. ASSUME Down PROVE AviatorInv'
  BY SMTT(30), <1>3, AviatorHappens DEF Down, AviatorKinds, NoPass, PassState, OneOfPass, Room,
     OfPass, NoJob, Work, AviatorAssumption, ATypes
<1>4. ASSUME Up PROVE AviatorInv'
  BY <1>4, WaitSteady DEF Up, Running, session, NoPass, PassState, InPass, ATypes
<1> QED
  BY <1>1, <1>2, <1>3, <1>4, PeopleKeep, HearsKeeps, PassKeeps, JobKeeps DEF AviatorNext

LEMMA AviatorSteady ==
  ASSUME AviatorInv, UNCHANGED aviatorVars
  PROVE  AviatorInv'
  BY WaitSteady DEF aviatorVars, AviatorInv, ATypes

-----------------------------------------------------------------------------
(* The winged aviator's status.  The invariant says what each event, each  *)
(* handler that waits and the job know of the role: the session's events   *)
(* follow one another up to how Discord has it (Follows), a job that takes *)
(* the role for taken was caused by a person or the bot (CausesTold), the  *)
(* bot's own update is the one its note tells of (Noted), and a job acts   *)
(* on the status it read (Decided).                                        *)

(* What an event leaves discordgo's state saying of the role, what Discord *)
(* would say of it, and what the state will say once it has heard all.     *)
Shows(e) == IF e.kind = "leave" THEN "out" ELSE Told(e.holds)
Truth == IF discord.inside THEN Told(discord.holds) ELSE "out"
Before(k) == IF k = 1 THEN cache ELSE Shows(stream[k - 1])
Tip == Before(Len(stream) + 1)

(* A job whose event took the role away, as far as discordgo knew.         *)
Loses(w) == w.held /\ ~w.holds

Follows ==
  /\ Tip \in {"unknown", Truth} /\ (pass.at = "down" => cache = "unknown")
  /\ \A k \in DOMAIN stream : /\ stream[k].kind = "update" => stream[k].by # "none"
                              /\ stream[k].by = "forum" =>
                                   Before(k) \in {"unknown", Told(stream[k].holds)}
Caused(w) == /\ w.kind = "update" => w.by # "none"
             /\ w.by = "forum" => ~Loses(w)
CausesTold == Caused(job) /\ \A i \in DOMAIN waiting : Caused(waiting[i])

(* The bot's own update is the first one on its way or at the lock, and    *)
(* what the note says; and it took the role from nobody with a job begun.  *)
NoUpdate(q) == \A k \in DOMAIN q : q[k].kind # "update"
NoneByBot(q) == \A k \in DOMAIN q : q[k].by # "bot"
OwnFirst(q, note) ==
  \A i \in DOMAIN q : q[i].by = "bot" =>
    /\ q[i].kind = "update" /\ note = Told(q[i].holds)
    /\ \A k \in DOMAIN q : k < i => q[k].kind # "update"
Noted ==
  crossed = {} =>
    /\ job.by = "bot" => ~Loses(job)
    /\ OwnFirst(waiting, moving) /\ OwnFirst(stream, moving)
    /\ NoneByBot(stream) \/ NoUpdate(waiting)

Decided ==
  /\ job.at \in {"milpac", "set"} /\ job.kind \notin {"add", "remove"} => aviator
  /\ job.at = "unrecord" => job.kind = "remove" \/ (job.kind = "update" /\ Loses(job))
StatusInv == Follows /\ CausesTold /\ Noted /\ Decided

LEMMA StatusStart ==
  ASSUME AviatorInit
  PROVE  StatusInv
<1>1. /\ stream = <<>> /\ waiting = <<>> /\ job = NoJob /\ cache = "unknown"
      /\ pass.at = "poll"
  BY DEF AviatorInit, NoPass
<1>2. NoJob.at = "lock" /\ NoJob.by = "none" /\ NoJob.kind = "none"
  BY DEF NoJob, Work
<1>3. Follows
  BY <1>1 DEF Follows, Tip, Before
<1> QED
  BY <1>1, <1>2, <1>3 DEF StatusInv, CausesTold, Caused, Noted, OwnFirst, NoneByBot, Decided

(* An event sent tells how things now are, and follows those before it.    *)
LEMMA SentFollows ==
  ASSUME AviatorInv, Follows, NEW e \in StreamEvent, Sent(e), UNCHANGED cache,
         pass'.at = "down" => pass.at = "down",
         Shows(e) = Truth', e.kind = "update" => e.by # "none",
         e.by = "forum" => Truth = Told(e.holds)
  PROVE  Follows'
  BY DEF AviatorInv, ATypes, Sent, Before, Shows, Tip, Follows, Running, Told

LEMMA SameFollows ==
  ASSUME Follows, UNCHANGED <<stream, cache>>, Truth' = Truth,
         pass'.at = "down" => pass.at = "down"
  PROVE  Follows'
  BY DEF Tip, Before, Shows, Follows, Told

(* A queue less one, with one more, or with a new note.                    *)
LEMMA QueueLess ==
  ASSUME NEW S, NEW q \in Seq(S), NEW k \in 1 .. Len(q), NEW note, NEW r \in Seq(S),
         Len(r) = Len(q) - 1, \A i \in 1 .. (k - 1) : r[i] = q[i],
         \A i \in k .. (Len(q) - 1) : r[i] = q[i + 1]
  PROVE  /\ \A i \in DOMAIN r : \E m \in DOMAIN q : r[i] = q[m]
         /\ OwnFirst(q, note) => OwnFirst(r, note)
         /\ NoUpdate(q) => NoUpdate(r)
         /\ NoneByBot(q) => NoneByBot(r)
         /\ OwnFirst(q, note) /\ q[k].kind = "update"
             /\ (\A m \in 1 .. (k - 1) : q[m].kind # "update") => NoneByBot(r)
<1>1. /\ Len(q) \in Nat /\ k \in Nat /\ DOMAIN q = 1 .. Len(q) /\ DOMAIN r = 1 .. (Len(q) - 1)
  OBVIOUS
<1> DEFINE at(i) == IF i < k THEN i ELSE i + 1
<1>2. ASSUME NEW i \in DOMAIN r
      PROVE  at(i) \in DOMAIN q /\ at(i) # k /\ r[i] = q[at(i)]
  BY <1>1
<1>3. \A i, m \in DOMAIN r : m < i => at(m) < at(i)
  BY <1>1
<1> HIDE DEF at
<1>4. OwnFirst(q, note) => OwnFirst(r, note)
  BY <1>2, <1>3 DEF OwnFirst
<1>5. ASSUME OwnFirst(q, note), q[k].kind = "update",
             \A m \in 1 .. (k - 1) : q[m].kind # "update",
             NEW i \in DOMAIN r, r[i].by = "bot"
      PROVE  FALSE
  <2>1. PICK n \in DOMAIN q : n # k /\ q[n].by = "bot"
    BY <1>2, <1>5
  <2>2. q[n].kind = "update" /\ \A m \in DOMAIN q : m < n => q[m].kind # "update"
    BY <1>5, <2>1 DEF OwnFirst
  <2>3. n < k \/ k < n
    BY <1>1, <2>1
  <2> QED
    BY <1>1, <1>5, <2>2, <2>3
<1>6. (NoUpdate(q) => NoUpdate(r)) /\ (NoneByBot(q) => NoneByBot(r))
  BY <1>2 DEF NoUpdate, NoneByBot
<1> QED
  BY <1>2, <1>4, <1>5, <1>6 DEF NoneByBot

LEMMA QueueMore ==
  ASSUME NEW S, NEW q \in Seq(S), NEW w \in S, NEW note
  PROVE  /\ OwnFirst(q, note)
             /\ (w.by = "bot" => w.kind = "update" /\ note = Told(w.holds) /\ NoUpdate(q)) =>
               OwnFirst(Append(q, w), note)
         /\ NoUpdate(q) /\ w.kind # "update" => NoUpdate(Append(q, w))
         /\ NoneByBot(q) /\ w.by # "bot" => NoneByBot(Append(q, w))
<1>1. /\ DOMAIN Append(q, w) = 1 .. (Len(q) + 1) /\ DOMAIN q = 1 .. Len(q) /\ Len(q) \in Nat
      /\ Append(q, w)[Len(q) + 1] = w /\ \A k \in 1 .. Len(q) : Append(q, w)[k] = q[k]
  OBVIOUS
<1>2. ASSUME OwnFirst(q, note), NEW i \in DOMAIN Append(q, w), Append(q, w)[i].by = "bot",
             w.by = "bot" => w.kind = "update" /\ note = Told(w.holds) /\ NoUpdate(q)
      PROVE  /\ Append(q, w)[i].kind = "update" /\ note = Told(Append(q, w)[i].holds)
             /\ \A k \in DOMAIN Append(q, w) : k < i => Append(q, w)[k].kind # "update"
  BY <1>1, <1>2 DEF OwnFirst, NoUpdate
<1>3. OwnFirst(q, note)
        /\ (w.by = "bot" => w.kind = "update" /\ note = Told(w.holds) /\ NoUpdate(q))
        => OwnFirst(Append(q, w), note)
  BY <1>2 DEF OwnFirst
<1>4. NoUpdate(q) /\ w.kind # "update" => NoUpdate(Append(q, w))
  BY <1>1 DEF NoUpdate
<1>5. NoneByBot(q) /\ w.by # "bot" => NoneByBot(Append(q, w))
  BY <1>1 DEF NoneByBot
<1> QED
  BY <1>3, <1>4, <1>5

LEMMA NoOwn ==
  ASSUME NEW q, NEW note, NEW other
  PROVE  /\ OwnFirst(q, note) /\ NoUpdate(q) => NoneByBot(q)
         /\ NoneByBot(q) => OwnFirst(q, other)
BY DEF OwnFirst, NoUpdate, NoneByBot

(* What others do, and the session's end, leave the bot's updates as they  *)
(* are.                                                                    *)
LEMMA OthersNoted ==
  ASSUME AviatorInv, Noted, UNCHANGED <<waiting, job, moving, crossed>>,
         \/ stream' \in {stream, <<>>}
         \/ \E e \in StreamEvent : e.by # "bot" /\ stream' = Append(stream, e)
  PROVE  Noted'
<1>1. stream \in Seq(StreamEvent)
  BY DEF AviatorInv, ATypes
<1>2. CASE stream' = stream
  BY <1>2 DEF Noted, Loses
<1>3. CASE stream' = <<>>
  BY <1>3 DEF OwnFirst, NoneByBot, Noted, Loses
<1>4. ASSUME NEW e \in StreamEvent, e.by # "bot", stream' = Append(stream, e)
      PROVE  Noted'
  BY <1>1, <1>4, QueueMore DEF Noted, Loses
<1> QED
  BY <1>2, <1>3, <1>4

(* So does work that is no update.                                         *)
LEMMA WorkNoted ==
  ASSUME AviatorInv, Noted, CausesTold, UNCHANGED <<job, moving, crossed, stream>>,
         NEW w \in Waiter, w.kind # "update", w.by = "none", waiting' = Append(waiting, w)
  PROVE  Noted' /\ CausesTold'
<1>1. waiting \in Seq(Waiter)
  BY DEF AviatorInv, ATypes
<1>2. /\ OwnFirst(waiting, moving) => OwnFirst(Append(waiting, w), moving)
      /\ NoUpdate(waiting) => NoUpdate(Append(waiting, w))
  BY <1>1, QueueMore
<1>3. Noted'
  BY <1>2 DEF Noted, Loses
<1>4. /\ DOMAIN waiting' = 1 .. (Len(waiting) + 1) /\ waiting'[Len(waiting) + 1] = w
      /\ \A k \in DOMAIN waiting : waiting'[k] = waiting[k]
      /\ DOMAIN waiting = 1 .. Len(waiting) /\ Len(waiting) \in Nat
  BY <1>1
<1>5. Caused(w)
  BY DEF Caused
<1>6. \A i \in DOMAIN waiting' : Caused(waiting'[i])
  BY <1>4, <1>5 DEF CausesTold
<1>7. Caused(job')
  BY DEF CausesTold, Caused, Loses
<1> QED
  BY <1>3, <1>6, <1>7 DEF CausesTold, Caused, Loses

LEMMA PeopleStatus ==
  ASSUME AviatorInv, StatusInv, Hand \/ Forum \/ ComeOrGo
  PROVE  StatusInv'
<1> USE DEF StatusInv
<1>1. /\ UNCHANGED <<aviator, cache, ready, waiting, job, moving, pass, crossed>>
      /\ discord \in Member /\ (discord.holds => discord.inside)
  BY DEF Hand, Forum, ComeOrGo, AviatorInv, ATypes
<1>2. /\ \/ UNCHANGED stream
         \/ \E e \in StreamEvent : e.by # "bot" /\ Sent(e)
      /\ Follows'
  BY <1>1, SentFollows, SameFollows DEF Member, Update, StreamEvent, Causes, Hand, Shows,
     Truth, Told, Forum, Event, ComeOrGo
<1>3. \/ stream' \in {stream, <<>>}
      \/ \E e \in StreamEvent : e.by # "bot" /\ stream' = Append(stream, e)
  BY <1>2 DEF Sent
<1>4. Noted'
  BY <1>1, <1>3, OthersNoted
<1>5. CausesTold' /\ Decided'
  BY <1>1 DEF CausesTold, Caused, Loses, Decided
<1> QED
  BY <1>2, <1>4, <1>5

LEMMA CommandStatus ==
  ASSUME AviatorInv, StatusInv, NEW kind \in {"add", "remove"}, Command(kind)
  PROVE  StatusInv'
<1> USE DEF StatusInv
<1>1. PICK w : w = Work(kind, discord.holds)
  OBVIOUS
<1>2. /\ waiting' = Append(waiting, w)
      /\ UNCHANGED <<discord, aviator, stream, cache, job, moving, pass, crossed>>
  BY <1>1 DEF Command, session
<1>3. w \in Waiter /\ w.kind # "update" /\ w.by = "none"
  BY <1>1 DEF Work, Waiter, Works, Causes, AviatorInv, ATypes, Member
<1>4. Noted' /\ CausesTold'
  BY <1>2, <1>3, WorkNoted
<1>5. Follows'
  BY <1>2, SameFollows DEF Truth, Told
<1> QED
  BY <1>2, <1>4, <1>5 DEF Decided, Loses

LEMMA PassStatus ==
  ASSUME AviatorInv, StatusInv, PassSteps
  PROVE  StatusInv'
<1> USE DEF StatusInv
<1>1. /\ UNCHANGED <<discord, aviator, stream, cache, job, moving, crossed>>
      /\ pass'.at = "down" => pass.at = "down"
  BY DEF PassSteps, PassBegins, PassLists, Hourly, session, AviatorInv, ATypes, PassState,
     NextPass, NoPass
<1>2. \/ UNCHANGED waiting
      \/ \E kind \in {"holder", "check"}, holds \in BOOLEAN :
           waiting' = Append(waiting, Work(kind, holds))
  BY DEF PassSteps, PassBegins, PassLists, Hourly
<1>3. CASE UNCHANGED waiting
  BY <1>1, <1>3, SameFollows DEF Noted, CausesTold, Caused, Loses, Decided, Truth, Told
<1>4. ASSUME NEW kind \in {"holder", "check"}, NEW holds \in BOOLEAN,
             waiting' = Append(waiting, Work(kind, holds))
      PROVE  StatusInv'
  BY <1>1, <1>4, WorkNoted, SameFollows DEF Work, Waiter, Works, Causes, Truth, Told,
     Decided, Loses
<1> QED
  BY <1>2, <1>3, <1>4

(* discordgo hears the next event: what it knew before tells whether the   *)
(* role was taken.                                                         *)
LEMMA HearsFollows ==
  ASSUME AviatorInv, Follows, Hears
  PROVE  Follows'
<1>1. /\ stream \in Seq(StreamEvent) /\ stream # <<>> /\ stream' = Tail(stream)
      /\ cache' = Shows(Head(stream)) /\ UNCHANGED <<discord, pass>>
  BY DEF Hears, AviatorInv, ATypes, Shows
<1>2. /\ Len(stream) \in Nat /\ Len(stream) >= 1 /\ DOMAIN stream = 1 .. Len(stream)
      /\ Len(stream') = Len(stream) - 1 /\ DOMAIN stream' = 1 .. (Len(stream) - 1)
      /\ \A k \in 1 .. (Len(stream) - 1) : stream'[k] = stream[k + 1]
      /\ Head(stream) = stream[1]
  BY <1>1
<1>3. ASSUME NEW k \in 1 .. Len(stream)
      PROVE  Before(k)' = Before(k + 1)
  BY <1>1, <1>2 DEF Before, Shows
<1>4. Tip' = Tip
  BY <1>2, <1>3 DEF Tip
<1>5. Truth' = Truth /\ pass.at # "down"
  BY <1>1 DEF Truth, Told, AviatorInv, ATypes
<1>6. ASSUME NEW k \in DOMAIN stream'
      PROVE  /\ stream'[k].kind = "update" => stream'[k].by # "none"
             /\ stream'[k].by = "forum" => Before(k)' \in {"unknown", Told(stream'[k].holds)}
  BY <1>2, <1>3 DEF Follows
<1> QED
  BY <1>1, <1>4, <1>5, <1>6 DEF Follows, Told, Shows

LEMMA HearsStatus ==
  ASSUME AviatorInv, StatusInv, Hears
  PROVE  StatusInv'
<1> USE DEF StatusInv
<1>1. PICK e : e = Head(stream)
  OBVIOUS
<1>2. /\ stream \in Seq(StreamEvent) /\ stream # <<>> /\ stream' = Tail(stream)
      /\ waiting \in Seq(Waiter) /\ UNCHANGED <<aviator, job, moving, pass, crossed>>
  BY DEF Hears, AviatorInv, ATypes
<1>3. /\ Len(stream) \in Nat /\ 1 \in 1 .. Len(stream) /\ stream[1] = e /\ e \in StreamEvent
      /\ Tail(stream) \in Seq(StreamEvent) /\ Len(Tail(stream)) = Len(stream) - 1
      /\ \A i \in 1 .. (Len(stream) - 1) : Tail(stream)[i] = stream[i + 1]
      /\ DOMAIN stream = 1 .. Len(stream)
  BY <1>1, <1>2
<1>4. /\ OwnFirst(stream, moving) => OwnFirst(stream', moving)
      /\ NoneByBot(stream) => NoneByBot(stream')
      /\ OwnFirst(stream, moving) /\ e.kind = "update" => NoneByBot(stream')
  <2>1. PICK q \in Seq(StreamEvent), r \in Seq(StreamEvent) : q = stream /\ r = Tail(stream)
    BY <1>2, <1>3
  <2>2. /\ 1 \in 1 .. Len(q) /\ Len(r) = Len(q) - 1 /\ q[1] = e
        /\ \A i \in 1 .. (1 - 1) : r[i] = q[i]
        /\ \A i \in 1 .. (Len(q) - 1) : r[i] = q[i + 1]
        /\ \A m \in 1 .. (1 - 1) : q[m].kind # "update"
    BY <1>3, <2>1
  <2>3. /\ OwnFirst(q, moving) => OwnFirst(r, moving)
        /\ NoneByBot(q) => NoneByBot(r)
        /\ OwnFirst(q, moving) /\ q[1].kind = "update" => NoneByBot(r)
    BY SMTT(60), <2>2, QueueLess
  <2> QED
    BY <1>2, <2>1, <2>2, <2>3
<1>5. Follows'
  BY HearsFollows
<1>6. Decided'
  BY <1>2 DEF Decided, Loses
<1>7. ASSUME NEW w \in Waiter, waiting' = Append(waiting, w), Caused(w),
             w.kind = "update" => e.kind = "update",
             w.by = "bot" => w.kind = "update" /\ w.by = e.by /\ w.holds = e.holds
      PROVE  Noted' /\ CausesTold'
  <2>1. w.by = "bot" /\ crossed = {} => moving = Told(w.holds) /\ NoUpdate(waiting)
    BY <1>3, <1>7 DEF Noted, OwnFirst, NoneByBot
  <2>2. /\ crossed = {} => OwnFirst(Append(waiting, w), moving)
        /\ NoUpdate(waiting) /\ w.kind # "update" => NoUpdate(Append(waiting, w))
    BY <1>2, <1>7, <2>1, QueueMore DEF Noted
  <2>3. crossed = {} => OwnFirst(waiting', moving) /\ OwnFirst(stream', moving)
    BY <1>4, <1>7, <2>2 DEF Noted
  <2>4. crossed = {} => NoneByBot(stream') \/ NoUpdate(waiting')
    BY <1>4, <1>7, <2>2 DEF Noted
  <2>5. Noted'
    BY <1>2, <2>3, <2>4 DEF Noted, Loses
  <2>6. /\ DOMAIN waiting' = 1 .. (Len(waiting) + 1) /\ waiting'[Len(waiting) + 1] = w
        /\ \A k \in DOMAIN waiting : waiting'[k] = waiting[k]
        /\ DOMAIN waiting = 1 .. Len(waiting) /\ Len(waiting) \in Nat
    BY <1>2, <1>7
  <2>7. \A i \in DOMAIN waiting' : Caused(waiting'[i])
    BY <1>7, <2>6 DEF CausesTold
  <2> QED
    BY <1>2, <2>5, <2>7 DEF CausesTold, Caused, Loses
<1>8. CASE e.kind = "leave"
  BY <1>1, <1>2, <1>4, <1>5, <1>6, <1>8 DEF Hears, Noted, CausesTold, Caused, Loses
<1>9. CASE e.kind = "join"
  BY <1>1, <1>5, <1>6, <1>7, <1>9 DEF Hears, Work, Waiter, Works, Causes, Caused
<1>10. CASE e.kind = "update"
  <2>0. PICK known, held : known = (cache \in {"holds", "bare"}) /\ held = (cache = "holds")
    OBVIOUS
  <2>1. PICK w : w = [Work("update", e.holds) EXCEPT !.known = known, !.held = held,
                        !.same = e.same, !.by = e.by]
    OBVIOUS
  <2>2. waiting' = Append(waiting, w)
    BY <1>1, <1>10, <2>0, <2>1 DEF Hears
  <2>b. known \in BOOLEAN /\ held \in BOOLEAN
    BY <2>0
  <2>3. /\ w \in Waiter /\ w.kind = "update" /\ w.by = e.by /\ w.holds = e.holds /\ w.held = held
    BY ZenonT(60), <1>3, <2>b, <2>1 DEF Work, Waiter, Works, Causes, StreamEvent
  <2>4. Caused(w)
    BY <1>3, <1>10, <2>0, <2>3 DEF Follows, Before, Told, Caused, Loses
  <2>5. Noted' /\ CausesTold'
    BY <1>7, <1>10, <2>2, <2>3, <2>4
  <2> QED
    BY <1>5, <1>6, <2>5
<1> QED
  BY <1>3, <1>8, <1>9, <1>10 DEF StreamEvent

(* The next at the lock: an update of the bot's own is the first to come,  *)
(* and the note tells it.                                                  *)
LEMMA TurnStatus ==
  ASSUME AviatorInv, StatusInv, NEW i \in DOMAIN waiting, Take(i)
  PROVE  StatusInv'
<1> USE DEF StatusInv
<1>1. PICK w : w = waiting[i]
  OBVIOUS
<1>2. /\ waiting \in Seq(Waiter) /\ Len(waiting) \in Nat /\ i \in 1 .. Len(waiting)
      /\ w \in Waiter
      /\ DOMAIN waiting = 1 .. Len(waiting)
  BY <1>1 DEF AviatorInv, ATypes
<1>3. /\ waiting' = LeftAt(waiting, i) /\ job = NoJob
      /\ UNCHANGED <<discord, aviator, stream, cache, pass>>
      /\ moving' = (IF w.kind = "update" THEN NoteAfter(w) ELSE moving)
      /\ job' = (IF w.kind = "update" /\ Own(w) THEN NoJob
                 ELSE [w EXCEPT !.at = IF w.kind = "add" THEN "milpac" ELSE "status"])
      /\ crossed' = (IF \E k \in 1 .. (i - 1) : waiting[k].kind = "update" /\ w.kind = "update"
                     THEN crossed \cup {"order"} ELSE crossed)
  BY Zenon, <1>1 DEF Take, LeftAt, session
<1>4. /\ LeftAt(waiting, i) \in Seq(Waiter) /\ Len(LeftAt(waiting, i)) = Len(waiting) - 1
      /\ \A k \in 1 .. (i - 1) : LeftAt(waiting, i)[k] = waiting[k]
      /\ \A k \in i .. (Len(waiting) - 1) : LeftAt(waiting, i)[k] = waiting[k + 1]
  BY <1>2, OneOut
<1>5. /\ \A k \in DOMAIN waiting' : \E m \in DOMAIN waiting : waiting'[k] = waiting[m]
      /\ OwnFirst(waiting, moving) => OwnFirst(waiting', moving)
      /\ NoUpdate(waiting) => NoUpdate(waiting')
      /\ OwnFirst(waiting, moving) /\ w.kind = "update"
          /\ (\A m \in 1 .. (i - 1) : waiting[m].kind # "update") => NoneByBot(waiting')
  <2>0. PICK S, note : S = Waiter /\ note = moving
    OBVIOUS
  <2>1. PICK q \in Seq(S), r \in Seq(S) : q = waiting /\ r = LeftAt(waiting, i)
    BY <1>2, <1>4, <2>0
  <2>k. PICK n \in 1 .. Len(q) : n = i
    BY ZenonT(30), <1>2, <2>1
  <2>2. /\ Len(r) = Len(q) - 1 /\ \A k \in 1 .. (n - 1) : r[k] = q[k]
        /\ \A k \in n .. (Len(q) - 1) : r[k] = q[k + 1]
    BY <1>2, <1>4, <2>1, <2>k
  <2> HIDE DEF StatusInv
  <2>3. \A k \in DOMAIN r : \E m \in DOMAIN q : r[k] = q[m]
    BY SMTT(30), <2>2, QueueLess
  <2>4. OwnFirst(q, note) => OwnFirst(r, note)
    BY <2>2, QueueLess
  <2>5. NoUpdate(q) => NoUpdate(r)
    BY <2>2, QueueLess
  <2>6. OwnFirst(q, note) /\ q[n].kind = "update"
          /\ (\A m \in 1 .. (n - 1) : q[m].kind # "update") => NoneByBot(r)
    BY ZenonT(30), <2>2, QueueLess
  <2> QED
    BY <1>1, <1>3, <2>0, <2>1, <2>k, <2>3, <2>4, <2>5, <2>6
<1>6. NoJob.by = "none" /\ NoJob.kind = "none" /\ NoJob.at = "lock" /\ ~Loses(NoJob)
  BY DEF NoJob, Work, Loses
<1>7. \/ job' = NoJob
      \/ /\ job'.kind = w.kind /\ job'.by = w.by /\ job'.held = w.held /\ job'.holds = w.holds
         /\ job'.at = IF w.kind = "add" THEN "milpac" ELSE "status"
  BY <1>2, <1>3 DEF Waiter
<1>8. CausesTold'
  BY <1>1, <1>5, <1>6, <1>7 DEF CausesTold, Caused, Loses
<1>9. Follows'
  BY <1>3, SameFollows DEF Truth, Told
<1>10. Decided'
  BY <1>6, <1>7 DEF Decided, Loses
<1>11. ASSUME crossed' = {}
       PROVE  /\ job'.by = "bot" => ~Loses(job')
              /\ OwnFirst(waiting', moving') /\ OwnFirst(stream, moving')
              /\ NoneByBot(stream) \/ NoUpdate(waiting')
  <2>1. /\ OwnFirst(waiting, moving) /\ OwnFirst(stream, moving)
        /\ NoneByBot(stream) \/ NoUpdate(waiting)
    BY <1>3, <1>11 DEF Noted
  <2>2. CASE w.kind # "update"
    BY <1>1, <1>3, <1>5, <1>6, <1>7, <2>1, <2>2 DEF OwnFirst
  <2>3. CASE w.kind = "update"
    <3>1. \A m \in 1 .. (i - 1) : waiting[m].kind # "update"
      BY <1>3, <1>11, <2>3
    <3>2. NoneByBot(waiting')
      BY <1>5, <2>1, <2>3, <3>1
    <3>3. NoneByBot(stream)
      BY <1>1, <2>1, <2>3 DEF NoUpdate
    <3>4. OwnFirst(waiting', moving') /\ OwnFirst(stream, moving')
      BY <3>2, <3>3, NoOwn
    <3>5. w.by = "bot" => moving = Told(w.holds)
      BY <1>1, <2>1 DEF OwnFirst
    <3>6. job'.by = "bot" => ~Loses(job')
      BY <1>2, <1>3, <1>6, <1>7, <2>3, <3>5 DEF Own, Still, Told, Loses, Waiter
    <3> QED
      BY <3>3, <3>4, <3>6
  <2> QED
    BY <2>2, <2>3
<1>12. Noted'
  BY <1>3, <1>11 DEF Noted, Loses
<1> QED
  BY <1>8, <1>9, <1>10, <1>12

(* The session's end, the list's coming and the process's.                 *)
LEMMA SessionStatus ==
  ASSUME AviatorInv, StatusInv, Drop \/ ListArrives \/ Down \/ Up
  PROVE  StatusInv'
<1> USE DEF StatusInv
<1>1. ASSUME Drop PROVE StatusInv'
  BY <1>1, OthersNoted DEF Drop, Follows, Tip, Before, CausesTold, Caused, Decided, Loses
<1>2. ASSUME ListArrives PROVE StatusInv'
  BY <1>2, OthersNoted DEF ListArrives, Truth, Running, Told, Follows, Tip, Before,
     CausesTold, Caused, Decided, Loses
<1>3. ASSUME Down PROVE StatusInv'
  BY <1>3 DEF Down, NoJob, Work, Follows, Tip, Before, CausesTold, Caused, Noted,
     OwnFirst, NoneByBot, Decided
<1>4. ASSUME Up PROVE StatusInv'
  BY <1>4, SameFollows, OthersNoted DEF Up, Running, NoPass, session, Truth, Told,
     CausesTold, Caused, Decided, Loses
<1> QED
  BY <1>1, <1>2, <1>3, <1>4

(* A job's step: what it decides follows the status it read or wrote.      *)
LEMMA JobStatus ==
  ASSUME AviatorAssumption, AviatorInv, StatusInv, JobSteps
  PROVE  StatusInv'
<1> USE DEF StatusInv
<1>1. /\ job \in UnderWay /\ UNCHANGED <<waiting, cache>> /\ JobMoves /\ pass.at # "down"
      /\ aviator \in BOOLEAN /\ discord \in Member /\ (discord.holds => discord.inside)
      /\ pass'.at # "down"
  <2>1. job \in UnderWay /\ UNCHANGED waiting /\ JobMoves
    BY JobStep
  <2>2. UNCHANGED cache
    BY DEF JobSteps, ReadStatus, ReadMilpac, Record, Unrecord, Writes, SetRole, session
  <2>3. pass.at # "down"
    BY <2>1 DEF AviatorInv, ATypes, UnderWay, Works, NoJob, Work
  <2>4. pass'.at # "down"
    BY <2>1, JobGoes
  <2> QED
    BY <2>1, <2>2, <2>3, <2>4 DEF AviatorInv, ATypes
<1>2. NoJob.by = "none" /\ NoJob.kind = "none" /\ NoJob.at = "lock" /\ ~Loses(NoJob)
  BY DEF NoJob, Work, Loses
<1>3. \/ job' = NoJob
      \/ /\ job'.kind = job.kind /\ job'.by = job.by /\ job'.held = job.held
         /\ job'.holds = job.holds
         /\ \E at \in JobStages, is \in BOOLEAN, read \in {job.read, discord.milpac} :
              job' = [job EXCEPT !.at = at, !.is = is, !.read = read]
  <2>1. ASSUME NEW step \in JobStages \cup {"done"}, On(step)
        PROVE  \/ job' = NoJob
               \/ \E at \in JobStages, is \in BOOLEAN, read \in {job.read, discord.milpac} :
                    job' = [job EXCEPT !.at = at, !.is = is, !.read = read]
    <3>1. CASE step = "done"
      BY <2>1, <3>1 DEF On, Over
    <3>2. CASE step # "done"
      <4>1. job' = [job EXCEPT !.at = step, !.is = job.is, !.read = job.read]
        BY ZenonT(60), <1>1, <2>1, <3>2 DEF On, Goes, UnderWay
      <4> QED
        BY <1>1, <3>2, <4>1 DEF UnderWay
    <3> QED
      BY <3>1, <3>2
  <2>2. \/ job' = NoJob
        \/ \E at \in JobStages, is \in BOOLEAN, read \in {job.read, discord.milpac} :
             job' = [job EXCEPT !.at = at, !.is = is, !.read = read]
    <3>1. ASSUME ReadStatus
          PROVE  \/ job' = NoJob
                 \/ \E at \in JobStages, is \in BOOLEAN, read \in {job.read, discord.milpac} :
                      job' = [job EXCEPT !.at = at, !.is = is, !.read = read]
      <4>1. PICK is \in {aviator, FALSE} :
              IF AfterStatus(job, is) = "done" THEN Over
              ELSE job' = [job EXCEPT !.at = AfterStatus(job, is), !.is = is]
        BY <3>1 DEF ReadStatus
      <4>2. PICK next : next = AfterStatus(job, is)
        OBVIOUS
      <4>3. is \in BOOLEAN /\ next \in JobStages \cup {"done"}
        BY <1>1, <4>2, StatusSo
      <4>4. CASE next = "done"
        BY <4>1, <4>2, <4>4 DEF Over
      <4>5. CASE next # "done"
        <5>1. job' = [job EXCEPT !.at = next, !.is = is, !.read = job.read]
          BY <1>1, <4>1, <4>2, <4>5 DEF UnderWay
        <5> QED
          BY <4>3, <4>5, <5>1
      <4> QED
        BY <4>4, <4>5
    <3>2. ASSUME ReadMilpac
          PROVE  \/ job' = NoJob
                 \/ \E at \in JobStages, is \in BOOLEAN, read \in {job.read, discord.milpac} :
                      job' = [job EXCEPT !.at = at, !.is = is, !.read = read]
      <4>1. Over \/ \E at \in JobStages : job' = [job EXCEPT !.at = at, !.read = discord.milpac]
        BY <3>2 DEF ReadMilpac, JobStages
      <4>2. ASSUME NEW at \in JobStages, job' = [job EXCEPT !.at = at, !.read = discord.milpac]
            PROVE  job' = [job EXCEPT !.at = at, !.is = job.is, !.read = discord.milpac]
        BY <1>1, <4>2 DEF UnderWay
      <4>3. job.is \in BOOLEAN
        BY <1>1 DEF UnderWay
      <4> QED
        BY <4>1, <4>2, <4>3 DEF Over
    <3>3. ASSUME Record \/ Unrecord \/ SetRole
          PROVE  job' = NoJob \/ \E step \in JobStages \cup {"done"} : On(step)
      BY Zenon, <3>3 DEF Record, Unrecord, Writes, SetRole, Over, AfterSet, JobStages
    <3> QED
      BY Zenon, <2>1, <3>1, <3>2, <3>3 DEF JobSteps
  <2> QED
    BY ZenonT(60), <1>1, <2>2 DEF UnderWay
<1>4. CausesTold'
  BY ZenonT(30), <1>1, <1>2, <1>3 DEF CausesTold, Caused, Loses
<1>5. job'.by = "bot" /\ crossed = {} => ~Loses(job')
  BY <1>2, <1>3 DEF Noted, Loses
<1>6. ASSUME ReadStatus \/ ReadMilpac \/ Record \/ Unrecord
      PROVE  Noted' /\ Follows' /\ (crossed' = crossed)
  BY <1>1, <1>5, <1>6, SameFollows DEF ReadStatus, ReadMilpac, Record, Unrecord, Writes,
     session, Truth, Told, Noted, Loses
<1>7. ASSUME SetRole
      PROVE  Noted' /\ Follows'
  <2>1. PICK gives \in BOOLEAN : gives = Gives(job)
    BY <1>1 DEF Gives, UnderWay
  <2>2. PICK e : e = Update(gives, "bot")
    OBVIOUS
  <2>3. e \in StreamEvent /\ e.by = "bot" /\ e.kind = "update" /\ e.holds = gives
    BY <2>1, <2>2 DEF Update, StreamEvent, Causes
  <2>4. /\ UNCHANGED <<aviator, cache, waiting>>
        /\ \/ /\ discord.inside /\ discord.holds # gives /\ Sent(e)
              /\ discord' = [discord EXCEPT !.holds = gives]
           \/ /\ discord.inside /\ discord.holds = gives /\ UNCHANGED stream
              /\ discord' = [discord EXCEPT !.holds = gives]
           \/ UNCHANGED <<discord, stream>>
        /\ \/ moving' = Told(gives) /\ crossed' = Crosses({})
           \/ moving' = "none" /\ crossed' = Crosses({"lost"})
           \/ moving' = "none" /\ crossed' = Crosses({}) /\ UNCHANGED stream
    BY <1>7, <2>1, <2>2 DEF SetRole
  <2>5. Follows'
    BY <1>1, <2>3, <2>4, SentFollows, SameFollows DEF Shows, Truth, Told, Member, Sent,
       Running
  <2>6. ASSUME crossed' = {}
        PROVE  OwnFirst(waiting, moving') /\ OwnFirst(stream', moving') /\ NoUpdate(waiting)
               /\ crossed = {}
    <3>1. crossed = {} /\ ~Crossing /\ (moving' = Told(gives) \/ UNCHANGED stream)
      BY <2>4, <2>6 DEF Crosses
    <3>2. NoUpdate(stream) /\ NoUpdate(waiting)
      BY <3>1 DEF Crossing, NoUpdate
    <3>3. \A note : OwnFirst(stream, note) /\ OwnFirst(waiting, note)
      BY <3>1, <3>2, NoOwn DEF Noted
    <3>4. CASE UNCHANGED stream
      BY <3>1, <3>2, <3>3, <3>4
    <3>5. CASE moving' = Told(gives) /\ Sent(e)
      BY <1>1, <2>3, <3>1, <3>2, <3>3, <3>5, QueueMore DEF Sent, Running, AviatorInv,
         ATypes
    <3> QED
      BY <2>4, <3>1, <3>4, <3>5
  <2> QED
    BY <1>1, <1>5, <2>5, <2>6 DEF Noted, Loses
<1>8. Decided'
  <2>1. CASE job' = NoJob
    BY <1>2, <2>1 DEF Decided
  <2>2. ASSUME job' # NoJob
        PROVE  Decided'
    <3>1. job'.kind = job.kind /\ job'.held = job.held /\ job'.holds = job.holds
      BY <1>3, <2>2
    <3>2. ASSUME ReadStatus PROVE Decided'
      <4>1. PICK is \in {aviator, FALSE} :
              /\ job' = [job EXCEPT !.at = AfterStatus(job, is), !.is = is]
              /\ AfterStatus(job, is) # "done"
        BY <2>2, <3>2 DEF ReadStatus, Over
      <4>2. PICK next : next = AfterStatus(job, is)
        OBVIOUS
      <4>3. job'.at = next /\ aviator' = aviator /\ is \in BOOLEAN
        BY <1>1, <3>2, <4>1, <4>2 DEF UnderWay, ReadStatus
      <4>4. next \in {"milpac", "set"} /\ job.kind \notin {"add", "remove"} => is
        BY <4>2 DEF AfterStatus, AfterUpdate, AfterCheck
      <4>5. next = "unrecord" => job.kind = "remove" \/ (job.kind = "update" /\ Loses(job))
        BY <4>2 DEF AfterStatus, AfterUpdate, AfterCheck, AfterAdd, Loses
      <4>6. is => aviator
        BY <1>1, <4>1
      <4>7. job'.at \in {"milpac", "set"} /\ job'.kind \notin {"add", "remove"} => aviator'
        BY <3>1, <4>3, <4>4, <4>6
      <4>8. job'.at = "unrecord" => job'.kind = "remove" \/ (job'.kind = "update" /\ Loses(job'))
        BY <3>1, <4>3, <4>5 DEF Loses
      <4> QED
        BY <4>7, <4>8 DEF Decided, Loses
    <3>3. ASSUME ReadMilpac PROVE Decided'
      BY <1>1, <2>2, <3>1, <3>3 DEF ReadMilpac, Over, UnderWay, Decided, Loses
    <3>4. ASSUME Record PROVE Decided'
      BY <1>1, <2>2, <3>4 DEF Record, Writes, On, Goes, Over, UnderWay, Decided
    <3>5. ~Unrecord
      BY <2>2 DEF Unrecord, Writes, On, Over
    <3>6. ASSUME SetRole PROVE Decided'
      BY <1>1, <2>2, <3>1, <3>6 DEF SetRole, On, Over, AfterSet, Goes, UnderWay, Decided
    <3> QED
      BY ZenonT(30), <3>2, <3>3, <3>4, <3>5, <3>6 DEF JobSteps
  <2> QED
    BY <2>1, <2>2
<1> QED
  BY <1>4, <1>6, <1>7, <1>8 DEF JobSteps

(* What StatusKept says of a step.                                         *)
StatusStepRight ==
  /\ aviator /\ ~aviator' /\ crossed = {} => job.kind = "remove" \/ job.by = "hand"
  /\ job.at = "set" /\ Gives(job) /\ ~discord.holds /\ discord'.holds =>
       aviator \/ job.kind = "add"

LEMMA StatusStep ==
  ASSUME AviatorAssumption, AviatorInv, StatusInv, AviatorNext \/ UNCHANGED aviatorVars
  PROVE  StatusInv'
  BY SameFollows, TurnStatus, PeopleStatus, CommandStatus, PassStatus, HearsStatus,
     SessionStatus, JobStatus DEF aviatorVars, StatusInv, Truth, Told, CausesTold, Caused,
     Noted, Decided, Loses, Turns, AviatorNext, People

(* A step that ends a status is a person's doing, and one that gives the   *)
(* role gives it to a winged aviator or at an add.                         *)
LEMMA StatusKeeps ==
  ASSUME AviatorInv, StatusInv, AviatorNext \/ UNCHANGED aviatorVars
  PROVE  StatusStepRight
<1>1. ASSUME aviator, ~aviator', crossed = {}
      PROVE  job.kind = "remove" \/ job.by = "hand"
  <2>1. ~UNCHANGED aviator
    BY <1>1
  <2>2. Record \/ Unrecord
    BY <2>1 DEF AviatorNext, aviatorVars, People, Hand, Forum, ComeOrGo, Command, Hears, Drop,
         ListArrives, PassSteps, PassBegins, PassLists, Hourly, Turns, Take, JobSteps, ReadStatus,
         ReadMilpac, SetRole, Down, Up
  <2>3. job.at = "unrecord"
    BY <1>1, <2>1, <2>2 DEF Record, Unrecord, Writes
  <2>4. CASE job.kind = "update" /\ Loses(job)
    BY <1>1, <2>3, <2>4 DEF AviatorInv, ATypes, UnderWay, Causes, NoJob, Work, StatusInv,
       CausesTold, Caused, Noted
  <2> QED
    BY <2>3, <2>4 DEF StatusInv, Decided
<1>2. job.at = "set" /\ Gives(job) => aviator \/ job.kind = "add"
  BY DEF StatusInv, Decided, Gives
<1> QED
  BY <1>1, <1>2 DEF StatusStepRight

(* The bot ends no status of its own, and gives the role only to a winged  *)
(* aviator or at an add: StatusKept, the step part of AviatorsRight.       *)
THEOREM StatusRight == Spec => StatusKept
<1> DEFINE Inv == AviatorInv /\ StatusInv
<1>1. Init => Inv
  BY AviatorInvInit, AviatorAssumption, StatusStart DEF Init
<1>2. Inv /\ [Next]_all => Inv' /\ StatusStepRight
  BY AviatorInvStep, AviatorSteady, AviatorAssumption, StatusStep, StatusKeeps DEF Next,
     OfFiles, OfList, OfAviator, OfWatch, BesideFiles, BesideTrack, BesideList,
     BesideAviator, BesideWatch, all
<1> HIDE DEF Inv
<1> QED
  BY <1>1, <1>2, PTL DEF Spec, StatusKept, StatusStepRight

-----------------------------------------------------------------------------
(* All five keep their types, and nothing of a process outlives it:        *)
(* TypesOK, which the run checks of each.                                  *)
THEOREM TypesHold == Spec => []TypesOK
<1> DEFINE Inv == FilesInv /\ TrackInv /\ ListInv /\ AviatorInv /\ WatchInv
<1>1. Init => Inv
  BY FilesInvInit, FilesAssumption, TrackInvInit, TrackAssumption, ListInvInit, ListAssumption,
     AviatorInvInit, AviatorAssumption, WatchInvInit, WatchAssumption DEF Init
<1>2. Inv /\ [Next]_all => Inv'
  <2> SUFFICES ASSUME Inv, [Next]_all
               PROVE  Inv'
    OBVIOUS
  <2>1. /\ FilesNext \/ UNCHANGED filesVars
        /\ TrackNext \/ UNCHANGED trackVars
        /\ ListNext \/ UNCHANGED listVars
        /\ AviatorNext \/ UNCHANGED aviatorVars
        /\ WatchNext \/ UNCHANGED watchVars
    BY DEF Next, OfFiles, OfList, OfAviator, OfWatch, BesideFiles, BesideTrack, BesideList,
           BesideAviator, BesideWatch, all
  <2>2. FilesInv'
    BY <2>1, FilesInvStep, FilesSteady
  <2>3. TrackInv'
    BY <2>1, TrackInvStep, TrackSteady, TrackAssumption
  <2>4. ListInv'
    BY <2>1, ListInvStep, ListSteady, ListAssumption
  <2>5. AviatorInv'
    BY <2>1, AviatorInvStep, AviatorSteady, AviatorAssumption
  <2>6. WatchInv'
    BY <2>1, WatchInvStep, WatchSteady, WatchAssumption
  <2> QED
    BY <2>2, <2>3, <2>4, <2>5, <2>6
<1>3. Inv => TypesOK
  BY FilesInvTells, FilesAssumption, TrackInvTells, TrackAssumption, ListInvTells,
     ListAssumption, AviatorInvTells, AviatorAssumption, WatchInvTells, WatchAssumption
  DEF TypesOK
<1> HIDE DEF Inv
<1> QED
  BY <1>1, <1>2, <1>3, PTL DEF Spec
=============================================================================
