---------------------------- MODULE TempVCProofs ----------------------------
(* What holds of the temporary voice channel runtime for every number of   *)
(* members, channels, handlers and disturbances, checked by TLAPS.         *)
EXTENDS MCTempVC, SequenceTheorems, FiniteSetTheorems, TLAPS

----------------------------------------------------------------------------
(* Sections and what they carry                                            *)

SpawnOps   == {"commit", "moveCheck", "move", "readOwner", "abandonSpawn"}
ChannelOps == {"writeRow", "deleteIfStillEmpty", "ChannelDelete", "untrack",
               "deleteRow", "keep", "settleSpawn"}

(* A section that names a channel has one.                                 *)
LEMMA DoChannelItem ==
  ASSUME NEW op \in ChannelOps, NEW c \in Channels, NEW u \in Users \cup {NoOne},
         NEW n \in Nat
  PROVE  Do(op, c, u, n) \in Item /\ Do(op, c, u, n).op = op
  BY DEF Do, Item, ChannelItem, ChannelOps

(* A section that carries a spawn has its channel and its member.          *)
LEMMA DoSpawnItem ==
  ASSUME NEW op \in SpawnOps, NEW c \in Channels, NEW u \in Users, NEW n \in Nat
  PROVE  Do(op, c, u, n) \in Item /\ Do(op, c, u, n).op = op
  BY DEF Do, Item, SpawnItem, SpawnOps

LEMMA DoJoinItem ==
  ASSUME NEW op \in {"handleHubJoin", "create"}, NEW u \in Users, NEW n \in Nat
  PROVE  Do(op, 0, u, n) \in Item /\ Do(op, 0, u, n).op = op
  BY DEF Do, Item, JoinItem

LEMMA DoSweepItem ==
  ASSUME NEW op \in {"list", "rebuild"}
  PROVE  Do(op, 0, NoOne, 0) \in Item /\ Do(op, 0, NoOne, 0).op = op
  BY DEF Do, Item, SweepItem

(* Where a goroutine is tells the type of what it is about to run.         *)
LEMMA HeadItem ==
  ASSUME TypeOK, NEW g \in Goroutines, NEW op, At(g, op)
  PROVE  /\ run[g] \in Seq(Item) /\ run[g] # <<>>
         /\ Head(run[g]) \in Item /\ Head(run[g]).op = op
         /\ Tail(run[g]) \in Seq(Item)
  BY HeadTailProperties DEF TypeOK, At

LEMMA ChannelOpItem ==
  ASSUME NEW i \in Item, i.op \in ChannelOps
  PROVE  i.c \in Channels /\ i.u \in Users \cup {NoOne} /\ i.n \in Nat
  BY DEF Item, JoinItem, SpawnItem, ChannelItem, SweepItem, ChannelOps

LEMMA SpawnOpItem ==
  ASSUME NEW i \in Item, i.op \in SpawnOps
  PROVE  i.c \in Channels /\ i.u \in Users /\ i.n \in Nat
  BY DEF Item, JoinItem, SpawnItem, ChannelItem, SweepItem, SpawnOps

LEMMA JoinOpItem ==
  ASSUME NEW i \in Item, i.op \in {"handleHubJoin", "create"}
  PROVE  i.u \in Users /\ i.n \in Nat
  BY DEF Item, JoinItem, SpawnItem, ChannelItem, SweepItem

(* A goroutine that runs its first section goes on with sections.          *)
LEMMA GoesType ==
  ASSUME TypeOK, NEW g \in Goroutines, run[g] # <<>>, NEW q \in Seq(Item),
         Goes(g, q)
  PROVE  run' \in [Goroutines -> Seq(Item)]
  BY HeadTailProperties, ConcatProperties DEF TypeOK, Goes

LEMMA SetRunType ==
  ASSUME TypeOK, NEW g \in Goroutines, NEW q \in Seq(Item),
         run' = [run EXCEPT ![g] = q]
  PROVE  run' \in [Goroutines -> Seq(Item)]
  BY DEF TypeOK

LEMMA Singleton ==
  ASSUME NEW i \in Item
  PROVE  <<i>> \in Seq(Item)
  OBVIOUS

(* A section about a channel and no member, put before others.             *)
LEMMA ChannelDo ==
  ASSUME NEW op \in ChannelOps, NEW c \in Channels
  PROVE  /\ <<Do(op, c, NoOne, 0)>> \in Seq(Item)
         /\ \A q \in Seq(Item) : <<Do(op, c, NoOne, 0)>> \o q \in Seq(Item)
  BY DoChannelItem, Singleton, ConcatProperties

LEMMA AfterDeleteType ==
  ASSUME NEW q \in Seq(Item)
  PROVE  AfterDelete(q) \in Seq(Item)
  BY HeadTailProperties DEF AfterDelete

----------------------------------------------------------------------------
(* The handover rule elects a member or nobody.                            *)

LEMMA ElectType ==
  ASSUME NEW S \in SUBSET Users, NEW lad
  PROVE  Elect(S, lad) \in Users \cup {NoOne}
  BY DEF Elect

LEMMA ConfirmedType ==
  ASSUME NEW occ, NEW c, occ[c] \in SUBSET Users
  PROVE  Confirmed(c, occ) \in SUBSET Users
  BY DEF Confirmed

LEMMA ReconciledType ==
  ASSUME NEW occ, NEW own, NEW c, own[c] \in Users \cup {NoOne},
         occ[c] \in SUBSET Users
  PROVE  Reconciled(c, occ, own) \in Users \cup {NoOne}
  BY ConfirmedType, ElectType DEF Reconciled

----------------------------------------------------------------------------
(* Type correctness                                                        *)

LEMMA SpendType ==
  ASSUME TypeOK, NEW k \in Kinds, Spend(k)
  PROVE  allowed' \in [Kinds -> Nat]
  BY DEF TypeOK, Spend

LEMMA UntrackType ==
  ASSUME TypeOK, NEW c, Untrack(c)
  PROVE  /\ tracked' \subseteq Channels
         /\ occupants' \in [Channels -> SUBSET Users]
         /\ owners' \in [Channels -> Users \cup {NoOne}]
         /\ channelIndex' \in [Channels -> Nat]
  BY DEF TypeOK, Untrack

(* A bot that just started.                                                *)
LEMMA FreshRecord ==
  ASSUME userChannel' = [u \in Users |-> Out],
         tracked' = {}, occupants' = [c \in Channels |-> {}],
         owners' = [c \in Channels |-> NoOne],
         channelIndex' = [c \in Channels |-> 0]
  PROVE  /\ userChannel' \in [Users -> Spawnable]
         /\ tracked' \subseteq Channels
         /\ occupants' \in [Channels -> SUBSET Users]
         /\ owners' \in [Channels -> Users \cup {NoOne}]
         /\ channelIndex' \in [Channels -> Nat]
  BY DEF Spawnable

LEMMA FreshGoroutines ==
  ASSUME run' = [g \in Goroutines |-> <<>>], todo' = [g \in Goroutines |-> {}],
         listed' = [c \in Channels |-> NoRow]
  PROVE  /\ run' \in [Goroutines -> Seq(Item)]
         /\ todo' \in [Goroutines -> SUBSET Item]
         /\ listed' \in [Channels -> Row \cup {NoRow}]
  BY EmptySeq

LEMMA InitType == Init => TypeOK
<1> SUFFICES ASSUME Init PROVE TypeOK
  OBVIOUS
<1>1. run \in [Goroutines -> Seq(Item)] /\ todo \in [Goroutines -> SUBSET Item]
  BY EmptySeq DEF Init
<1>2. ladder \in [Users -> Nat] /\ allowed \in [Kinds -> Nat]
  BY ConstantsAssumption DEF Init
<1>3. loc \in [Users -> Spawnable] /\ userChannel \in [Users -> Spawnable]
  BY DEF Init, Spawnable
<1> QED
  BY <1>1, <1>2, <1>3 DEF Init, TypeOK

(* Discord, the gateway and the cache touch no runtime state.              *)
LEMMA EnvironmentType == TypeOK /\ Environment => TypeOK'
<1> SUFFICES ASSUME TypeOK, Environment PROVE TypeOK'
  OBVIOUS
<1>1. ASSUME NEW u \in Users, NEW p \in Spawnable, Move(u, p) PROVE TypeOK'
  <2>1. allowed' \in [Kinds -> Nat]
    BY <1>1, SpendType DEF Move, Kinds
  <2> QED
    BY <1>1, <2>1 DEF Move, TypeOK, record
<1>2. ASSUME NEW c \in Channels, HandDelete(c) PROVE TypeOK'
  BY <1>2, SpendType DEF HandDelete, Kinds, TypeOK, record
<1>3. ASSUME NEW c \in Channels, DeleteReachesCache(c) PROVE TypeOK'
  BY <1>3 DEF DeleteReachesCache, TypeOK, record, Inside, Spawnable
<1>4. ASSUME Outage PROVE TypeOK'
  BY <1>4, SpendType DEF Outage, Kinds, TypeOK, record
<1>5. ASSUME GuildCreate PROVE TypeOK'
  BY <1>5 DEF GuildCreate, TypeOK, record, Spawnable
<1>6. ASSUME Restart PROVE TypeOK'
  BY <1>6, SpendType, FreshRecord, FreshGoroutines DEF Restart, Kinds, TypeOK
<1> QED
  BY <1>1, <1>2, <1>3, <1>4, <1>5, <1>6 DEF Environment


(* Store calls and deletes, on any goroutine.                              *)
LEMMA CallStepType ==
  ASSUME TypeOK, NEW g \in Goroutines, CallStep(g)
  PROVE  TypeOK'
<1>1. ASSUME WriteRow(g) PROVE TypeOK'
  <2>1. /\ Head(run[g]).c \in Channels /\ Head(run[g]).u \in Users \cup {NoOne}
        /\ Head(run[g]).n \in Nat /\ run[g] # <<>>
    BY <1>1, HeadItem, ChannelOpItem DEF WriteRow, ChannelOps
  <2>2. run' \in [Goroutines -> Seq(Item)]
    BY <1>1, <2>1, GoesType, EmptySeq DEF WriteRow
  <2>3. rows' \in [Channels -> Row \cup {NoRow}]
    BY SMTT(60), <1>1, <2>1 DEF WriteRow, TypeOK, Row
  <2>4. allowed' \in [Kinds -> Nat]
    BY <1>1, SpendType DEF WriteRow, Kinds, TypeOK
  <2> QED
    BY <1>1, <2>2, <2>3, <2>4 DEF WriteRow, TypeOK, discord, record
<1>2. ASSUME DeleteRow(g) PROVE TypeOK'
  BY <1>2, HeadItem, GoesType, EmptySeq, SpendType DEF DeleteRow, TypeOK, Kinds, discord,
     record
<1>3. ASSUME DeleteIfStillEmpty(g) PROVE TypeOK'
  <2> DEFINE c    == Head(run[g]).c
             rest == Tail(run[g])
  <2>1. rest \in Seq(Item) /\ c \in Channels
    BY <1>3, HeadItem, ChannelOpItem DEF DeleteIfStillEmpty, ChannelOps
  <2>2. <<Do("ChannelDelete", c, NoOne, 0)>> \o rest \in Seq(Item)
    BY <2>1, ChannelDo DEF ChannelOps
  <2>3. AfterDelete(rest) \in Seq(Item)
    BY <2>1, AfterDeleteType
  <2>4. run' \in [Goroutines -> Seq(Item)]
    BY <1>3, <2>1, <2>2, <2>3 DEF DeleteIfStillEmpty, TypeOK
  <2> QED
    BY <1>3, <2>4 DEF DeleteIfStillEmpty, TypeOK, discord, record
<1>4. ASSUME ChannelDelete(g) PROVE TypeOK'
  BY <1>4, HeadItem, ChannelOpItem, ChannelDo, GoesType, EmptySeq, SpendType DEF
     ChannelDelete, ChannelOps, Kinds, TypeOK, record
<1>5. ASSUME UntrackDeleted(g) PROVE TypeOK'
  BY ZenonT(60), <1>5, HeadItem, ChannelOpItem, ChannelDo, AfterDeleteType, UntrackType DEF
     UntrackDeleted, ChannelOps, TypeOK, discord
<1> QED
  BY <1>1, <1>2, <1>3, <1>4, <1>5 DEF CallStep

(* A hub join on its handler, from the number it takes to its settling.    *)
LEMMA SpawnStepType ==
  ASSUME TypeOK, NEW h \in Handlers, SpawnStep(h)
  PROVE  TypeOK'
<1>0. h \in Goroutines
  BY DEF Goroutines
<1>1. ASSUME HubJoin(h) PROVE TypeOK'
  <2> DEFINE u == Head(run[h]).u
  <2>1. u \in Users /\ run[h] # <<>>
    BY <1>0, <1>1, HeadItem, JoinOpItem DEF HubJoin
  <2>2. \/ pending' = pending /\ Goes(h, <<>>)
        \/ \E n \in Numbers : /\ pending' = pending \cup {n}
                              /\ Goes(h, <<Do("create", 0, u, n)>>)
    BY <1>1 DEF HubJoin
  <2>3. Numbers \subseteq Nat
    BY DEF Numbers
  <2>4. \A n \in Numbers : <<Do("create", 0, u, n)>> \in Seq(Item)
    BY <2>1, <2>3, DoJoinItem
  <2>5. pending' \subseteq Nat
    BY <2>2, <2>3 DEF TypeOK
  <2>6. run' \in [Goroutines -> Seq(Item)]
    BY <1>0, <2>1, <2>2, <2>4, GoesType, EmptySeq
  <2> QED
    BY <1>1, <2>5, <2>6 DEF HubJoin, TypeOK, discord
<1>2. ASSUME Create(h) PROVE TypeOK'
  <2> DEFINE i == Head(run[h])
  <2>1. i.u \in Users /\ i.n \in Nat /\ run[h] # <<>>
    BY <1>0, <1>2, HeadItem, JoinOpItem DEF Create
  <2>2. \A c \in Channels : <<Do("commit", c, i.u, i.n)>> \in Seq(Item)
    BY <2>1, DoSpawnItem DEF SpawnOps
  <2>3. run' \in [Goroutines -> Seq(Item)]
    BY <1>0, <1>2, <2>1, <2>2, GoesType, EmptySeq DEF Create
  <2>4. allowed' \in [Kinds -> Nat]
    BY <1>2, SpendType DEF Create, Kinds, TypeOK
  <2>5. /\ live' \subseteq Channels /\ created' \subseteq Channels
        /\ cached' \subseteq Channels /\ pending' \subseteq Nat
    BY <1>2 DEF Create, Release, TypeOK
  <2> QED
    BY <1>2, <2>3, <2>4, <2>5 DEF Create, TypeOK
<1>3. ASSUME Commit(h) PROVE TypeOK'
  <2> DEFINE i == Head(run[h])
  <2>1. i.c \in Channels /\ i.u \in Users /\ i.n \in Nat /\ run[h] # <<>>
    BY <1>0, <1>3, HeadItem, SpawnOpItem DEF Commit, SpawnOps
  <2>2. <<Do("moveCheck", i.c, i.u, i.n)>> \in Seq(Item)
    BY <2>1, DoSpawnItem DEF SpawnOps
  <2>3. run' \in [Goroutines -> Seq(Item)]
    BY <1>0, <1>3, <2>1, <2>2, GoesType DEF Commit
  <2>4. /\ tracked' \subseteq Channels /\ inFlight' \subseteq Channels
        /\ pending' \subseteq Nat
        /\ occupants' \in [Channels -> SUBSET Users]
        /\ owners' \in [Channels -> Users \cup {NoOne}]
        /\ channelIndex' \in [Channels -> Nat]
    BY <1>3, <2>1 DEF Commit, Release, TypeOK
  <2> QED
    BY <1>3, <2>3, <2>4 DEF Commit, TypeOK, discord
<1>4. ASSUME MoveCheck(h) PROVE TypeOK'
  <2> DEFINE i == Head(run[h])
  <2>1. i.c \in Channels /\ i.u \in Users /\ i.n \in Nat /\ run[h] # <<>>
    BY <1>0, <1>4, HeadItem, SpawnOpItem DEF MoveCheck, SpawnOps
  <2>2. \A op \in SpawnOps : <<Do(op, i.c, i.u, i.n)>> \in Seq(Item)
    BY <2>1, DoSpawnItem
  <2>3. run' \in [Goroutines -> Seq(Item)]
    BY <1>0, <1>4, <2>1, <2>2, GoesType DEF MoveCheck, SpawnOps
  <2> QED
    BY <1>4, <2>3 DEF MoveCheck, TypeOK, discord, record
<1>5. ASSUME GuildMemberMove(h) PROVE TypeOK'
  <2> DEFINE i == Head(run[h])
  <2>1. i.c \in Channels /\ i.u \in Users /\ i.n \in Nat /\ run[h] # <<>>
    BY <1>0, <1>5, HeadItem, SpawnOpItem DEF GuildMemberMove, SpawnOps
  <2>2. \A op \in SpawnOps : <<Do(op, i.c, i.u, i.n)>> \in Seq(Item)
    BY <2>1, DoSpawnItem
  <2>3. run' \in [Goroutines -> Seq(Item)]
    BY <1>0, <1>5, <2>1, <2>2, GoesType DEF GuildMemberMove, SpawnOps
  <2>4. allowed' \in [Kinds -> Nat]
    BY <1>5, SpendType DEF GuildMemberMove, Kinds, TypeOK
  <2>5. i.c \in Spawnable
    BY <2>1 DEF Spawnable
  <2>6. loc' \in [Users -> Spawnable]
    BY <1>5, <2>1, <2>5 DEF GuildMemberMove, TypeOK
  <2>7. events' \subseteq Users \X Spawnable
    BY <1>5, <2>1, <2>5 DEF GuildMemberMove, TypeOK
  <2> QED
    BY <1>5, <2>3, <2>4, <2>6, <2>7 DEF GuildMemberMove, TypeOK, record
<1>6. ASSUME ReadOwner(h) PROVE TypeOK'
  <2> DEFINE i == Head(run[h])
             a == Do("writeRow", i.c, owners[i.c], i.n)
             b == Do("settleSpawn", i.c, NoOne, 0)
  <2>1. i.c \in Channels /\ i.n \in Nat /\ run[h] # <<>>
    BY <1>0, <1>6, HeadItem, SpawnOpItem DEF ReadOwner, SpawnOps
  <2>2. a \in Item /\ b \in Item
    BY ZenonT(60), <2>1, DoChannelItem DEF ChannelOps, TypeOK
  <2>3. <<a, b>> \in Seq(Item)
    BY <2>2
  <2>4. run' \in [Goroutines -> Seq(Item)]
    BY <1>0, <1>6, <2>1, <2>3, GoesType DEF ReadOwner
  <2> QED
    BY <1>6, <2>4 DEF ReadOwner, TypeOK, discord, record
<1>7. ASSUME SettleSpawn(h) PROVE TypeOK'
  <2>1. Head(run[h]).c \in Channels /\ run[h] # <<>>
    BY <1>0, <1>7, HeadItem, ChannelOpItem DEF SettleSpawn, ChannelOps
  <2>2. run' \in [Goroutines -> Seq(Item)]
    BY <1>0, <1>7, <2>1, GoesType, EmptySeq DEF SettleSpawn
  <2>3. inFlight' \subseteq Channels /\ settled' \subseteq Channels
    BY <1>7, <2>1 DEF SettleSpawn, TypeOK
  <2> QED
    BY <1>7, <2>2, <2>3 DEF SettleSpawn, TypeOK, discord
<1>8. ASSUME AbandonSpawn(h) PROVE TypeOK'
  <2> DEFINE i == Head(run[h])
             a == Do("deleteIfStillEmpty", i.c, i.u, 0)
             b == Do("keep", i.c, NoOne, 0)
             d == Do("settleSpawn", i.c, NoOne, 0)
  <2>1. i.c \in Channels /\ i.u \in Users /\ run[h] # <<>>
    BY <1>0, <1>8, HeadItem, SpawnOpItem DEF AbandonSpawn, SpawnOps
  <2>2. a \in Item /\ b \in Item /\ d \in Item
    BY <2>1, DoChannelItem DEF ChannelOps
  <2>3. <<a, b, d>> \in Seq(Item)
    BY <2>2
  <2>4. run' \in [Goroutines -> Seq(Item)]
    BY <1>0, <1>8, <2>1, <2>3, GoesType DEF AbandonSpawn
  <2>5. occupants' \in [Channels -> SUBSET Users]
    BY <1>8 DEF AbandonSpawn, TypeOK
  <2> QED
    BY <1>8, <2>4, <2>5 DEF AbandonSpawn, TypeOK, discord
<1>9. ASSUME Keep(h) PROVE TypeOK'
  <2> DEFINE c == Head(run[h]).c
             e == Elect(Confirmed(c, occupants), ladder)
  <2>1. c \in Channels /\ run[h] # <<>>
    BY <1>0, <1>9, HeadItem, ChannelOpItem DEF Keep, ChannelOps
  <2>2. e \in Users \cup {NoOne}
    BY <2>1, ConfirmedType, ElectType DEF TypeOK
  <2>3. <<Do("writeRow", c, e, channelIndex[c])>> \in Seq(Item)
    BY <2>1, <2>2, DoChannelItem DEF ChannelOps, TypeOK
  <2>4. run' \in [Goroutines -> Seq(Item)]
    BY <1>0, <1>9, <2>1, <2>3, GoesType DEF Keep
  <2>5. owners' \in [Channels -> Users \cup {NoOne}]
    BY <1>9, <2>2 DEF Keep, TypeOK
  <2> QED
    BY <1>9, <2>4, <2>5 DEF Keep, TypeOK, discord
<1> QED
  BY <1>1, <1>2, <1>3, <1>4, <1>5, <1>6, <1>7, <1>8, <1>9 DEF SpawnStep

(* A section of the given kind, or none.                                   *)
AtMost(op) == {<<>>} \cup {<<i>> : i \in {k \in Item : k.op = op}}

LEMMA AtMostType ==
  ASSUME NEW op, NEW q \in AtMost(op)
  PROVE  q \in Seq(Item)
  BY Singleton, EmptySeq DEF AtMost

(* What a voice event leaves to be called: row writes, a delete, a hub     *)
(* join, in this order.                                                    *)
LEMMA HandoverType ==
  ASSUME TypeOK, NEW c, NEW own \in [Channels -> Users \cup {NoOne}]
  PROVE  Handover(c, own) \in AtMost("writeRow")
<1>1. CASE c \in tracked
  <2>1. c \in Channels /\ own[c] \in Users \cup {NoOne} /\ channelIndex[c] \in Nat
    BY <1>1 DEF TypeOK
  <2>2. /\ Do("writeRow", c, own[c], channelIndex[c]) \in Item
        /\ Do("writeRow", c, own[c], channelIndex[c]).op = "writeRow"
    BY ZenonT(60), <2>1, DoChannelItem DEF ChannelOps
  <2> QED
    BY <2>2 DEF Handover, AtMost
<1>2. CASE c \notin tracked
  BY <1>2 DEF Handover, AtMost
<1> QED
  BY <1>1, <1>2

LEMMA ConcatFour ==
  ASSUME NEW a \in Seq(Item), NEW b \in Seq(Item), NEW c \in Seq(Item),
         NEW d \in Seq(Item)
  PROVE  a \o b \o c \o d \in Seq(Item)
  BY ConcatProperties

(* What a voice event makes of the record, and what it leaves to be called.*)
LEMMA VoiceUpdateParts ==
  ASSUME TypeOK, NEW h \in Handlers, VoiceUpdate(h)
  PROVE  /\ occupants' \in [Channels -> SUBSET Users]
         /\ owners' \in [Channels -> Users \cup {NoOne}]
         /\ events' \subseteq Users \X Spawnable
         /\ userChannel' \in [Users -> Spawnable]
         /\ \/ run' = run
            \/ \E a, b \in AtMost("writeRow"), d \in AtMost("deleteIfStillEmpty"),
                  j \in AtMost("handleHubJoin") :
                 run' = [run EXCEPT ![h] = a \o b \o d \o j]
<1>1. PICK e \in events :
        LET u   == e[1]
            new == e[2]
            old == userChannel[u]
            occ == Moved(u, old, new)
            own == [c \in Channels |-> IF c \in {old, new} \cap tracked
                                       THEN Reconciled(c, occ, owners)
                                       ELSE owners[c]]
        IN /\ ~Stale(e)
           /\ events' = events \ {e}
           /\ userChannel' = [userChannel EXCEPT ![u] = new]
           /\ IF old = new
              THEN UNCHANGED <<occupants, owners, run>>
              ELSE /\ occupants' = occ /\ owners' = own
                   /\ run' = [run EXCEPT ![h] =
                        Handover(old, own) \o Handover(new, own)
                        \o (IF old \in tracked /\ occ[old] = {}
                            THEN <<Do("deleteIfStillEmpty", old, u, 0)>>
                            ELSE <<>>)
                        \o (IF new = Hub THEN <<Do("handleHubJoin", 0, u, 0)>>
                            ELSE <<>>)]
  BY DEF VoiceUpdate
<1> DEFINE u   == e[1]
           new == e[2]
           old == userChannel[u]
           occ == Moved(u, old, new)
           own == [c \in Channels |-> IF c \in {old, new} \cap tracked
                                      THEN Reconciled(c, occ, owners)
                                      ELSE owners[c]]
           del == IF old \in tracked /\ occ[old] = {}
                  THEN <<Do("deleteIfStillEmpty", old, u, 0)>> ELSE <<>>
           join == IF new = Hub THEN <<Do("handleHubJoin", 0, u, 0)>> ELSE <<>>
<1>2. u \in Users /\ new \in Spawnable
  BY DEF TypeOK
<1>3. occ \in [Channels -> SUBSET Users]
  BY <1>2 DEF Moved, TypeOK
<1>4. own \in [Channels -> Users \cup {NoOne}]
  BY <1>3, ReconciledType DEF TypeOK
<1>5. del \in AtMost("deleteIfStillEmpty")
  BY <1>2, DoChannelItem DEF TypeOK, ChannelOps, AtMost
<1>6. join \in AtMost("handleHubJoin")
  BY <1>2, DoJoinItem DEF AtMost
<1>7. Handover(old, own) \in AtMost("writeRow") /\ Handover(new, own) \in AtMost("writeRow")
  BY Zenon, <1>4, HandoverType
<1>8. \/ UNCHANGED <<occupants, owners, run>>
      \/ /\ occupants' = occ /\ owners' = own
         /\ run' = [run EXCEPT ![h] =
                      Handover(old, own) \o Handover(new, own) \o del \o join]
  BY <1>1
<1>9. /\ occupants' \in [Channels -> SUBSET Users]
      /\ owners' \in [Channels -> Users \cup {NoOne}]
  BY ZenonT(30), <1>3, <1>4, <1>8 DEF TypeOK
<1>10. /\ events' \subseteq Users \X Spawnable
       /\ userChannel' \in [Users -> Spawnable]
  BY <1>1, <1>2 DEF TypeOK
<1>11. \/ run' = run
       \/ \E a, b \in AtMost("writeRow"), d \in AtMost("deleteIfStillEmpty"),
             j \in AtMost("handleHubJoin") :
            run' = [run EXCEPT ![h] = a \o b \o d \o j]
  <2> HIDE DEF own, del, join, old, new
  <2> QED
    BY Zenon, <1>5, <1>6, <1>7, <1>8
<1> QED
  BY <1>9, <1>10, <1>11

(* The gateway events, one handler each.                                   *)
LEMMA HandleType ==
  ASSUME TypeOK, NEW h \in Handlers, Handle(h)
  PROVE  TypeOK'
<1>0. h \in Goroutines
  BY DEF Goroutines
<1>1. ASSUME DropStale(h) PROVE TypeOK'
  BY <1>1 DEF DropStale, TypeOK, record
<1>2. ASSUME VoiceUpdate(h) PROVE TypeOK'
  <2>1. run' \in [Goroutines -> Seq(Item)]
    BY <1>0, <1>2, AtMostType, ConcatFour, SetRunType, VoiceUpdateParts DEF TypeOK
  <2> QED
    BY <1>2, <2>1, VoiceUpdateParts DEF VoiceUpdate, TypeOK
<1>3. ASSUME ChannelDeleteEvent(h) PROVE TypeOK'
  BY <1>0, <1>3, ChannelDo, SetRunType, UntrackType DEF ChannelDeleteEvent, TypeOK,
     ChannelOps
<1> QED
  BY <1>1, <1>2, <1>3 DEF Handle

----------------------------------------------------------------------------
(* The sweep and a panel save                                              *)

LEMMA NextCallType ==
  ASSUME TypeOK, NEW g \in Goroutines, NextCall(g)
  PROVE  TypeOK'
<1>1. PICK i \in todo[g] : /\ run' = [run EXCEPT ![g] = <<i>>]
                           /\ todo' = [todo EXCEPT ![g] = @ \ {i}]
  BY DEF NextCall
<1>2. i \in Item
  BY DEF TypeOK
<1>3. run' \in [Goroutines -> Seq(Item)]
  BY <1>1, <1>2, Singleton, SetRunType
<1>4. todo' \in [Goroutines -> SUBSET Item]
  BY <1>1 DEF TypeOK
<1> QED
  BY <1>3, <1>4 DEF NextCall, TypeOK, discord, record

(* What the rebuild takes over from the listed rows and from the cache.    *)
LEMMA SweptType ==
  ASSUME TypeOK
  PROVE  /\ Kept \subseteq Channels /\ Restored \subseteq Channels
         /\ Judged \subseteq Channels
         /\ \A c \in Judged : listed[c].owner \in Users \cup {NoOne}
                              /\ listed[c].number \in Nat
         /\ SweptOccupants \in [Channels -> SUBSET Users]
         /\ RowOwners \in [Channels -> Users \cup {NoOne}]
         /\ SweptOwners \in [Channels -> Users \cup {NoOne}]
<1>1. Kept \subseteq Channels /\ Restored \subseteq Judged /\ Judged \subseteq Channels
  BY DEF TypeOK, Kept, Restored, Judged
<1>2. \A c \in Judged : /\ listed[c].owner \in Users \cup {NoOne}
                        /\ listed[c].number \in Nat
  BY DEF TypeOK, Judged, Row
<1>3. SweptOccupants \in [Channels -> SUBSET Users]
  BY DEF TypeOK, SweptOccupants, Inside
<1>4. RowOwners \in [Channels -> Users \cup {NoOne}]
  BY <1>1, <1>2 DEF TypeOK, RowOwners
<1>5. \A c \in Channels : Reconciled(c, SweptOccupants, RowOwners) \in Users \cup {NoOne}
  BY <1>3, <1>4, ReconciledType
<1>6. SweptOwners \in [Channels -> Users \cup {NoOne}]
  BY <1>4, <1>5 DEF SweptOwners
<1> QED
  BY <1>1, <1>2, <1>3, <1>4, <1>6

LEMMA RebuildType == TypeOK /\ Rebuild => TypeOK'
<1> SUFFICES ASSUME TypeOK, Rebuild PROVE TypeOK'
  OBVIOUS
<1>1. At(Sweep, "rebuild") /\ Goes(Sweep, <<>>) /\ Sweep \in Goroutines
  BY DEF Rebuild, Goroutines
<1>2. run' \in [Goroutines -> Seq(Item)]
  BY <1>1, HeadItem, GoesType, EmptySeq
<1>3. CASE ~present
  BY <1>2, <1>3 DEF Rebuild, TypeOK, discord
<1>4. CASE present
  <2>1. userChannel' \in [Users -> Spawnable]
    BY <1>4 DEF Rebuild, TypeOK, Spawnable
  <2>2. /\ tracked' \subseteq Channels
        /\ occupants' \in [Channels -> SUBSET Users]
        /\ owners' \in [Channels -> Users \cup {NoOne}]
    BY <1>4, SweptType DEF Rebuild
  <2>3. channelIndex' \in [Channels -> Nat]
    <3>1. \A c \in Restored : listed[c].number \in Nat
      BY SweptType DEF Restored
    <3>2. channelIndex' = [c \in Channels |-> IF c \in Kept THEN channelIndex[c]
                                              ELSE IF c \in Restored
                                              THEN listed[c].number ELSE 0]
      BY <1>4 DEF Rebuild
    <3> QED
      BY <3>1, <3>2 DEF TypeOK
  <2> DEFINE gone   == {Do("deleteRow", c, NoOne, 0) : c \in Judged \ Restored}
             empty  == {Do("deleteIfStillEmpty", c, NoOne, 0) :
                          c \in {d \in Restored : Inside(d) = {}}}
             handed == {Do("writeRow", c, SweptOwners[c], listed[c].number) :
                          c \in {d \in Restored : SweptOwners[d] # RowOwners[d]}}
  <2>4. gone \subseteq Item /\ empty \subseteq Item
    <3>1. \A c \in Channels : /\ Do("deleteRow", c, NoOne, 0) \in Item
                              /\ Do("deleteIfStillEmpty", c, NoOne, 0) \in Item
      BY DoChannelItem DEF ChannelOps
    <3> QED
      BY <3>1, SweptType
  <2>5. handed \subseteq Item
    <3>1. \A c \in Restored : /\ c \in Channels /\ listed[c].number \in Nat
                              /\ SweptOwners[c] \in Users \cup {NoOne}
      BY SweptType DEF Restored
    <3>2. \A c \in Restored : Do("writeRow", c, SweptOwners[c], listed[c].number) \in Item
      BY <3>1, DoChannelItem DEF ChannelOps
    <3> QED
      BY <3>2
  <2>6. todo' = [todo EXCEPT ![Sweep] = gone \cup empty \cup handed]
    BY <1>4 DEF Rebuild
  <2>7. todo' \in [Goroutines -> SUBSET Item]
    BY <2>4, <2>5, <2>6 DEF TypeOK
  <2> QED
    BY <1>2, <2>1, <2>2, <2>3, <2>7 DEF Rebuild, TypeOK, discord
<1> QED
  BY <1>3, <1>4 DEF TypeOK

LEMMA SweepStepType == TypeOK /\ SweepStep => TypeOK'
<1> SUFFICES ASSUME TypeOK, SweepStep PROVE TypeOK'
  OBVIOUS
<1>0. Sweep \in Goroutines
  BY DEF Goroutines
<1>1. ASSUME SweepStart PROVE TypeOK'
  BY SMTT(60), <1>0, <1>1, DoSweepItem, Singleton, SetRunType DEF SweepStart, TypeOK
<1>2. ASSUME ListSpawnedChannels PROVE TypeOK'
  BY ZenonT(30), <1>0, <1>2, DoSweepItem, Singleton, HeadItem, GoesType, EmptySeq, SpendType DEF
     ListSpawnedChannels, TypeOK, Kinds, discord, record
<1>3. ASSUME FinishSweep PROVE TypeOK'
  BY <1>3 DEF FinishSweep, EndSweep, TypeOK, discord
<1> QED
  BY <1>0, <1>1, <1>2, <1>3, RebuildType, NextCallType, CallStepType DEF SweepStep

LEMMA RankedType ==
  ASSUME TypeOK, NEW lad \in Ladders
  PROVE  Ranked(lad) \in [Channels -> Users \cup {NoOne}]
  BY ConfirmedType, ElectType DEF TypeOK, Ranked

LEMMA ApplyRankRolesType ==
  ASSUME TypeOK, NEW lad \in Ladders, ApplyRankRoles(lad)
  PROVE  TypeOK'
<1>1. ladder' \in [Users -> Nat]
  BY ConstantsAssumption DEF ApplyRankRoles
<1>2. owners' \in [Channels -> Users \cup {NoOne}]
  BY RankedType DEF ApplyRankRoles
<1>3. \A c \in Channels : Do("writeRow", c, Ranked(lad)[c], channelIndex[c]) \in Item
  <2>1. \A c \in Channels : /\ Ranked(lad)[c] \in Users \cup {NoOne}
                            /\ channelIndex[c] \in Nat
    BY RankedType DEF TypeOK
  <2> QED
    BY <2>1, DoChannelItem DEF ChannelOps
<1>4. todo' \in [Goroutines -> SUBSET Item]
  BY ZenonT(60), <1>3 DEF ApplyRankRoles, TypeOK
<1>5. allowed' \in [Kinds -> Nat]
  BY SpendType DEF ApplyRankRoles, Kinds
<1> QED
  BY <1>1, <1>2, <1>4, <1>5 DEF ApplyRankRoles, TypeOK, discord

(* Every step keeps the types.                                             *)
LEMMA NextType == TypeOK /\ [Next]_vars => TypeOK'
<1> SUFFICES ASSUME TypeOK, [Next]_vars PROVE TypeOK'
  OBVIOUS
<1>1. Handlers \subseteq Goroutines /\ Panel \in Goroutines
  BY DEF Goroutines
<1>2. ASSUME UNCHANGED vars PROVE TypeOK'
  BY <1>2 DEF TypeOK, vars, discord, record
<1>3. ASSUME Rest PROVE TypeOK'
  BY <1>2, <1>3 DEF Rest
<1>4. ASSUME PanelStep PROVE TypeOK'
  BY <1>1, <1>4, NextCallType, CallStepType DEF PanelStep
<1>5. ASSUME NEW h \in Handlers, Handle(h) \/ SpawnStep(h) \/ CallStep(h) PROVE TypeOK'
  BY <1>1, <1>5, HandleType, SpawnStepType, CallStepType
<1> QED
  BY <1>2, <1>3, <1>4, <1>5, EnvironmentType, SweepStepType, ApplyRankRolesType DEF Next

(* The record, the rows and what each goroutine has still to run stay what *)
(* the code keeps them as, for every number of members and handlers.       *)
THEOREM TypeCorrect == Spec => []TypeOK
<1> QED
  BY InitType, NextType, PTL DEF Spec

----------------------------------------------------------------------------
(* Spawns in flight and reserved numbers: each is accounted for by one     *)
(* handler.  A handler carries its spawn in the last section it has still  *)
(* to run, which is what the proof follows.                                *)


(* The sections a handler ends on, those among them that hold a spawn, and *)
(* those that hold a number reserved for one.                              *)
CarryOps   == {"moveCheck", "move", "readOwner", "abandonSpawn", "settleSpawn"}
ReserveOps == {"create", "commit"}
EndOps     == CarryOps \cup ReserveOps \cup {"handleHubJoin"}

Fin(q)   == q[Len(q)]
Bears(q) == q # <<>> /\ Fin(q).op \in CarryOps \cup ReserveOps
Plain(q) == \A k \in 1 .. (Len(q) - 1) : q[k].op \notin EndOps

(* p and q end on the same spawn or number, or both on none.               *)
Same(p, q) == /\ Bears(p) <=> Bears(q)
              /\ Bears(p) => Fin(q) = Fin(p)

Commits(h) == run[h] # <<>> /\ Last(h).op = "commit"
Holds(h)   == Carries(h) \/ Commits(h)

(* What accounting for the spawns rests on: only the last section holds    *)
(* one, no two handlers hold the same channel, and a channel that is not   *)
(* committed yet was never in flight before, Discord not reusing IDs.      *)
SpawnInv ==
  /\ \A h \in Handlers : Plain(run[h])
  /\ inFlight \subseteq created
  /\ \A h \in Handlers : Holds(h) => Last(h).c \in created
  /\ \A h, k \in Handlers : Holds(h) /\ Holds(k) /\ h # k => Last(h).c # Last(k).c
  /\ \A h \in Handlers : Commits(h) => Last(h).c \notin inFlight
  /\ InFlightAccounted
  /\ PendingAccounted

----------------------------------------------------------------------------
(* Sequences of sections                                                   *)

LEMMA FinTail ==
  ASSUME NEW q \in Seq(Item), q # <<>>
  PROVE  /\ Len(q) = 1 => Fin(q) = Head(q) /\ Tail(q) = <<>>
         /\ Len(q) # 1 => Tail(q) # <<>> /\ Fin(Tail(q)) = Fin(q)
<1>1. Len(q) \in Nat /\ Len(q) >= 1 /\ Len(Tail(q)) = Len(q) - 1 /\ Tail(q) \in Seq(Item)
  BY HeadTailProperties, EmptySeq, LenProperties
<1>2. \A i \in 1 .. Len(Tail(q)) : Tail(q)[i] = q[i + 1]
  BY HeadTailProperties
<1>3. ASSUME Len(q) = 1 PROVE Fin(q) = Head(q) /\ Tail(q) = <<>>
  <2>1. Len(Tail(q)) = 0
    BY <1>1, <1>3
  <2>2. Tail(q) = <<>>
    BY <1>1, <2>1, EmptySeq
  <2>3. Fin(q) = Head(q)
    BY <1>3 DEF Fin
  <2> QED
    BY <2>2, <2>3
<1>4. ASSUME Len(q) # 1 PROVE Tail(q) # <<>> /\ Fin(Tail(q)) = Fin(q)
  <2> DEFINE n == Len(Tail(q))
  <2>1. n \in Nat /\ n # 0 /\ n \in 1 .. n /\ n + 1 = Len(q)
    BY <1>1, <1>4
  <2>2. Tail(q)[n] = q[n + 1]
    BY <1>2, <2>1
  <2>3. Tail(q) # <<>>
    BY <2>1, EmptySeq
  <2>4. Fin(Tail(q)) = Fin(q)
    BY <2>1, <2>2 DEF Fin
  <2> QED
    BY <2>3, <2>4
<1> QED
  BY <1>3, <1>4

(* A section that ends nothing may run first or be put first.              *)
LEMMA SameTail ==
  ASSUME NEW q \in Seq(Item), q # <<>>, Plain(q), Head(q).op \notin EndOps
  PROVE  Same(q, Tail(q)) /\ Plain(Tail(q))
<1>1. Len(q) \in Nat /\ Len(q) >= 1 /\ Len(Tail(q)) = Len(q) - 1 /\ Tail(q) \in Seq(Item)
  BY HeadTailProperties, EmptySeq, LenProperties
<1>2. \A i \in 1 .. Len(Tail(q)) : Tail(q)[i] = q[i + 1]
  BY HeadTailProperties
<1>3. Plain(Tail(q))
  BY <1>1, <1>2 DEF Plain
<1>4. Same(q, Tail(q))
  BY FinTail DEF Same, Bears, EndOps
<1> QED
  BY <1>3, <1>4

LEMMA SameCons ==
  ASSUME NEW q \in Seq(Item), Plain(q), NEW x \in Item, x.op \notin EndOps
  PROVE  Same(q, <<x>> \o q) /\ Plain(<<x>> \o q)
<1> DEFINE p == <<x>> \o q
<1>1. p \in Seq(Item) /\ p # <<>> /\ Head(p) = x /\ Tail(p) = q /\ Len(p) = Len(q) + 1
  BY ConcatProperties
<1>2. \A i \in 1 .. Len(q) : p[i + 1] = q[i]
  BY ConcatProperties
<1>3. p[1] = x /\ Len(q) \in Nat
  BY ConcatProperties
<1>4. Plain(p)
  BY <1>1, <1>2, <1>3 DEF Plain
<1>5. Same(p, q)
  BY <1>1, <1>4, SameTail
<1> QED
  BY <1>4, <1>5 DEF Same

LEMMA SameAfterDelete ==
  ASSUME NEW q \in Seq(Item), Plain(q)
  PROVE  Same(q, AfterDelete(q)) /\ Plain(AfterDelete(q))
  BY SameTail DEF AfterDelete, EndOps, CarryOps, ReserveOps, Same

LEMMA SameTransitive ==
  ASSUME NEW p, NEW q, NEW r, Same(p, q), Same(q, r)
  PROVE  Same(p, r)
  BY DEF Same

(* A handler that runs a section which ends nothing bears what it bore.    *)
LEMMA GoesSame ==
  ASSUME TypeOK, NEW g \in Goroutines, Plain(run[g]), run[g] # <<>>,
         Head(run[g]).op \notin EndOps
  PROVE  /\ Goes(g, <<>>) => Same(run[g], run'[g]) /\ Plain(run'[g])
         /\ \A x \in Item : x.op \notin EndOps /\ Goes(g, <<x>>)
                            => Same(run[g], run'[g]) /\ Plain(run'[g])
<1>1. run[g] \in Seq(Item) /\ Tail(run[g]) \in Seq(Item)
  BY HeadTailProperties DEF TypeOK
<1>2. Same(run[g], Tail(run[g])) /\ Plain(Tail(run[g]))
  BY <1>1, SameTail
<1>3. <<>> \o Tail(run[g]) = Tail(run[g])
  BY <1>1
<1>4. ASSUME Goes(g, <<>>) PROVE Same(run[g], run'[g]) /\ Plain(run'[g])
  BY <1>2, <1>3, <1>4 DEF Goes, TypeOK
<1>5. ASSUME NEW x \in Item, x.op \notin EndOps, Goes(g, <<x>>)
      PROVE  Same(run[g], run'[g]) /\ Plain(run'[g])
  BY <1>1, <1>2, <1>5, SameCons, SameTransitive DEF Goes, TypeOK
<1> QED
  BY <1>4, <1>5

(* A handler at the section it ends on has no other.                       *)
LEMMA LastSection ==
  ASSUME TypeOK, NEW h \in Handlers, Plain(run[h]), NEW op \in EndOps, At(h, op)
  PROVE  /\ Last(h) = Head(run[h]) /\ Last(h).op = op /\ run[h] # <<>>
         /\ \A q \in Seq(Item) : Goes(h, q) => run' = [run EXCEPT ![h] = q]
<1>1. h \in Goroutines /\ run[h] \in Seq(Item) /\ run[h] # <<>>
  BY DEF TypeOK, Goroutines, At
<1>2. Len(run[h]) \in Nat /\ Len(run[h]) >= 1 /\ Head(run[h]) = run[h][1]
  BY <1>1, EmptySeq, LenProperties, HeadTailProperties
<1>3. Len(run[h]) = 1
  <2>1. run[h][1].op \in EndOps
    BY <1>2 DEF At
  <2>2. \A n \in Nat : n >= 1 /\ n # 1 => 1 \in 1 .. (n - 1)
    OBVIOUS
  <2> QED
    BY <1>2, <2>1, <2>2 DEF Plain
<1>4. Fin(run[h]) = Head(run[h]) /\ Tail(run[h]) = <<>>
  BY <1>1, <1>3, FinTail
<1>5. \A q \in Seq(Item) : q \o <<>> = q
  BY ConcatProperties
<1> QED
  BY <1>1, <1>4, <1>5 DEF Goes, Last, Fin, At

----------------------------------------------------------------------------
(* Steps that leave the spawns alone                                       *)

(* Every handler bears what it bore.                                       *)
RunSame == \A h \in Handlers : Same(run[h], run'[h]) /\ Plain(run'[h])

LEMMA Undisturbed ==
  ASSUME SpawnInv, RunSame, UNCHANGED <<created, pending, inFlight, settled>>,
         sweepActive => sweepActive'
  PROVE  SpawnInv'
<1>1. \A h \in Handlers : /\ Carries(h)' <=> Carries(h)
                          /\ Reserves(h)' <=> Reserves(h)
                          /\ Commits(h)' <=> Commits(h)
                          /\ Carries(h) \/ Reserves(h) => Last(h)' = Last(h)
  BY DEF RunSame, Same, Bears, Fin, Last, Carries, Reserves, Commits, CarryOps,
         ReserveOps
<1>2. \A h \in Handlers : Commits(h) => Reserves(h)
  BY DEF Commits, Reserves
<1>3. \A h \in Handlers : /\ Holds(h)' <=> Holds(h)
                          /\ Holds(h) => Last(h)' = Last(h)
  BY <1>1, <1>2 DEF Holds
<1>4. InFlightAccounted'
  BY <1>1 DEF SpawnInv, InFlightAccounted
<1>5. PendingAccounted'
  BY <1>1 DEF SpawnInv, PendingAccounted
<1>6. \A h \in Handlers : Plain(run[h])'
  BY DEF RunSame
<1> QED
  BY <1>1, <1>2, <1>3, <1>4, <1>5, <1>6 DEF SpawnInv

LEMMA SameRefl ==
  ASSUME NEW q
  PROVE  Same(q, q)
  BY DEF Same

(* One goroutine's sections change, and a handler's last one does not.     *)
LEMMA OneMoves ==
  ASSUME TypeOK, SpawnInv, NEW g \in Goroutines, NEW q,
         run' = [run EXCEPT ![g] = q],
         g \in Handlers => Same(run[g], q) /\ Plain(q)
  PROVE  RunSame
<1> SUFFICES ASSUME NEW h \in Handlers
             PROVE  Same(run[h], run'[h]) /\ Plain(run'[h])
  BY DEF RunSame
<1>1. h \in Goroutines /\ Plain(run[h])
  BY DEF Goroutines, SpawnInv
<1>2. CASE h = g
  BY <1>1, <1>2 DEF TypeOK
<1>3. CASE h # g
  BY <1>1, <1>3, SameRefl DEF TypeOK
<1> QED
  BY <1>2, <1>3

LEMMA CallSame ==
  ASSUME TypeOK, SpawnInv, NEW g \in Goroutines, run[g] # <<>>,
         Head(run[g]).op \notin EndOps
  PROVE  /\ Goes(g, <<>>) => RunSame
         /\ \A x \in Item : x.op \notin EndOps /\ Goes(g, <<x>>) => RunSame
  BY ZenonT(30), OneMoves, GoesSame DEF Goes, TypeOK, SpawnInv

(* An item of a channel that no spawn ends in: what a call goes on to.     *)
LEMMA LaterItem ==
  ASSUME NEW op \in ChannelOps, op \notin EndOps, NEW c \in Channels,
         NEW u \in Users \cup {NoOne}, NEW n \in Nat
  PROVE  Do(op, c, u, n) \in Item /\ Do(op, c, u, n).op \notin EndOps
  BY DoChannelItem

(* Those of them that concern nobody.                                      *)
LEMMA LaterItems ==
  ASSUME NEW c \in Channels
  PROVE  /\ Do("ChannelDelete", c, NoOne, 0) \in Item
         /\ Do("ChannelDelete", c, NoOne, 0).op \notin EndOps
         /\ Do("untrack", c, NoOne, 0) \in Item
         /\ Do("untrack", c, NoOne, 0).op \notin EndOps
         /\ Do("deleteRow", c, NoOne, 0) \in Item
         /\ Do("deleteRow", c, NoOne, 0).op \notin EndOps
  BY LaterItem DEF ChannelOps, EndOps, CarryOps, ReserveOps

(* A call leaves what every handler ends on.                               *)
LEMMA CallRuns ==
  ASSUME TypeOK, SpawnInv, NEW g \in Goroutines, CallStep(g)
  PROVE  RunSame
<1>0. g \in Handlers => Plain(run[g])
  BY DEF SpawnInv
<1>1. ASSUME WriteRow(g) PROVE RunSame
  BY <1>1, HeadItem, CallSame DEF WriteRow, EndOps, CarryOps, ReserveOps
<1>2. ASSUME DeleteRow(g) PROVE RunSame
  BY <1>2, HeadItem, CallSame DEF DeleteRow, EndOps, CarryOps, ReserveOps
<1>3. ASSUME DeleteIfStillEmpty(g) PROVE RunSame
  <2> DEFINE c    == Head(run[g]).c
             rest == Tail(run[g])
             x    == Do("ChannelDelete", c, NoOne, 0)
  <2>1. /\ run[g] \in Seq(Item) /\ run[g] # <<>> /\ rest \in Seq(Item)
        /\ c \in Channels /\ Head(run[g]).op \notin EndOps
    BY <1>3, HeadItem, ChannelOpItem
       DEF DeleteIfStillEmpty, ChannelOps, EndOps, CarryOps, ReserveOps
  <2>2. x \in Item /\ x.op \notin EndOps
    BY <2>1, LaterItems
  <2>3. PICK q \in {rest, AfterDelete(rest), <<x>> \o rest} :
          run' = [run EXCEPT ![g] = q]
    BY <1>3 DEF DeleteIfStillEmpty
  <2>4. g \in Handlers => Same(run[g], rest) /\ Plain(rest)
    BY <1>0, <2>1, SameTail
  <2>5. g \in Handlers => Same(rest, AfterDelete(rest)) /\ Plain(AfterDelete(rest))
    BY <2>1, <2>4, SameAfterDelete
  <2>6. g \in Handlers => Same(rest, <<x>> \o rest) /\ Plain(<<x>> \o rest)
    BY <2>1, <2>2, <2>4, SameCons
  <2>7. g \in Handlers => Same(run[g], q) /\ Plain(q)
    <3>1. CASE q = rest
      BY <2>4, <3>1
    <3>2. CASE q = AfterDelete(rest)
      BY <2>4, <2>5, <3>2, SameTransitive
    <3>3. CASE q = <<x>> \o rest
      BY <2>4, <2>6, <3>3, SameTransitive
    <3> QED
      BY <2>3, <3>1, <3>2, <3>3
  <2> QED
    BY <2>3, <2>7, OneMoves
<1>4. ASSUME ChannelDelete(g) PROVE RunSame
  BY <1>4, HeadItem, ChannelOpItem, LaterItems, CallSame DEF ChannelDelete, ChannelOps,
     EndOps, CarryOps, ReserveOps
<1>5. ASSUME UntrackDeleted(g) PROVE RunSame
  <2> DEFINE rest == AfterDelete(Tail(run[g]))
             x    == Do("deleteRow", Head(run[g]).c, NoOne, 0)
  <2>1. /\ run[g] \in Seq(Item) /\ run[g] # <<>> /\ Tail(run[g]) \in Seq(Item)
        /\ Head(run[g]).c \in Channels /\ Head(run[g]).op \notin EndOps
    BY <1>5, HeadItem, ChannelOpItem
       DEF UntrackDeleted, ChannelOps, EndOps, CarryOps, ReserveOps
  <2>2. x \in Item /\ x.op \notin EndOps
    BY <2>1, LaterItems
  <2>3. run' = [run EXCEPT ![g] = <<x>> \o rest]
    BY <1>5 DEF UntrackDeleted, TypeOK
  <2>4. rest \in Seq(Item)
    BY <2>1, AfterDeleteType
  <2>5. g \in Handlers => Same(run[g], Tail(run[g])) /\ Plain(Tail(run[g]))
    BY <1>0, <2>1, SameTail
  <2>6. g \in Handlers => Same(Tail(run[g]), rest) /\ Plain(rest)
    BY <2>1, <2>5, SameAfterDelete
  <2>7. g \in Handlers => Same(rest, <<x>> \o rest) /\ Plain(<<x>> \o rest)
    BY <2>2, <2>4, <2>6, SameCons
  <2>8. g \in Handlers => Same(run[g], <<x>> \o rest) /\ Plain(<<x>> \o rest)
    BY <2>5, <2>6, <2>7, SameTransitive
  <2> QED
    BY <2>3, <2>8, OneMoves
<1> QED
  BY <1>1, <1>2, <1>3, <1>4, <1>5 DEF CallStep

(* A call, on any goroutine, and what an answered delete goes on to.       *)
LEMMA CallStepSpawns ==
  ASSUME TypeOK, SpawnInv, NEW g \in Goroutines, CallStep(g)
  PROVE  SpawnInv'
<1>1. RunSame
  BY CallRuns
<1>2. UNCHANGED <<created, inFlight, settled, sweepActive, pending>>
  BY DEF CallStep, WriteRow, DeleteRow, DeleteIfStillEmpty, ChannelDelete,
     UntrackDeleted, Untrack, discord, record
<1> QED
  BY <1>1, <1>2, Undisturbed

(* A fresh runtime: nothing is in flight, nothing reserved.                *)
LEMMA FreshSpawns ==
  ASSUME \A h \in Handlers : run[h] = <<>>,
         pending = {}, inFlight = {}, settled = {}
  PROVE  SpawnInv
  BY EmptySeq DEF Carries, Reserves, Commits, Plain, InFlightAccounted, PendingAccounted,
     SpawnInv, Holds

LEMMA RunUnchanged ==
  ASSUME SpawnInv, run' = run
  PROVE  RunSame
  BY SameRefl DEF SpawnInv, RunSame

LEMMA EnvironmentSpawns ==
  ASSUME TypeOK, SpawnInv, Environment
  PROVE  SpawnInv'
<1>1. CASE Restart
  BY <1>1, EmptySeq DEF Restart, Goroutines, Carries, Reserves, Commits, Plain,
     InFlightAccounted, PendingAccounted, SpawnInv, Holds
<1>2. CASE ~Restart
  BY <1>2, RunUnchanged, Undisturbed DEF Environment, Move, HandDelete,
     DeleteReachesCache, Outage, GuildCreate, record
<1> QED
  BY <1>1, <1>2

----------------------------------------------------------------------------
(* A gateway event gives an idle handler new sections, which bear nothing  *)

Calls(q) == \A k \in 1 .. Len(q) : q[k].op \notin EndOps

LEMMA AtMostCalls ==
  ASSUME NEW op, op \notin EndOps, NEW q \in AtMost(op)
  PROVE  Calls(q)
  BY EmptySeq DEF AtMost, Calls

LEMMA CallsConcat ==
  ASSUME NEW p \in Seq(Item), NEW q \in Seq(Item), Calls(p), Calls(q)
  PROVE  Calls(p \o q)
  BY ConcatProperties, LenProperties DEF Calls

LEMMA CallsBearNothing ==
  ASSUME NEW q \in Seq(Item), Calls(q)
  PROVE  ~Bears(q) /\ Plain(q)
  BY EmptySeq, LenProperties DEF Calls, Bears, Plain, Fin, EndOps

(* A hub join at the end bears nothing yet.                                *)
LEMMA JoinBearsNothing ==
  ASSUME NEW q \in Seq(Item), Calls(q), NEW j \in AtMost("handleHubJoin")
  PROVE  ~Bears(q \o j) /\ Plain(q \o j)
<1>1. CASE j = <<>>
  BY <1>1, CallsBearNothing, ConcatEmptySeq
<1>2. CASE j # <<>>
  <2>1. PICK i \in Item : j = <<i>> /\ i.op = "handleHubJoin"
    BY <1>2 DEF AtMost
  <2>2. j \in Seq(Item) /\ Len(j) = 1 /\ j[1] = i
    BY <2>1
  <2>3. Len(q) \in Nat /\ Len(q \o j) = Len(q) + 1
    BY <2>2, ConcatProperties, LenProperties
  <2>4. \A k \in 1 .. Len(q) : (q \o j)[k] = q[k]
    BY <2>2, <2>3, ConcatProperties
  <2>5. (q \o j)[Len(q) + 1] = i
    BY <2>2, <2>3, ConcatProperties
  <2>6. ~Bears(q \o j)
    BY <2>1, <2>3, <2>5 DEF Bears, Fin, CarryOps, ReserveOps
  <2>7. Plain(q \o j)
    BY <2>3, <2>4 DEF Plain, Calls
  <2> QED
    BY <2>6, <2>7
<1> QED
  BY <1>1, <1>2

LEMMA HandleSpawns ==
  ASSUME TypeOK, SpawnInv, NEW h \in Handlers, Handle(h)
  PROVE  SpawnInv'
<1>0. h \in Goroutines
  BY DEF Goroutines
<1>1. ASSUME NEW q, ~Bears(q), Plain(q), Idle(h), run' = [run EXCEPT ![h] = q]
      PROVE  RunSame
  BY <1>0, <1>1, OneMoves DEF Idle, Same, Bears
<1>2. CASE DropStale(h)
  BY <1>2, RunUnchanged, Undisturbed DEF DropStale, record
<1>3. CASE VoiceUpdate(h)
  <2>1. \/ run' = run
        \/ \E a, b \in AtMost("writeRow"), d \in AtMost("deleteIfStillEmpty"),
              j \in AtMost("handleHubJoin") :
             run' = [run EXCEPT ![h] = a \o b \o d \o j]
    BY <1>3, VoiceUpdateParts
  <2>2. ASSUME NEW a \in AtMost("writeRow"), NEW b \in AtMost("writeRow"),
               NEW d \in AtMost("deleteIfStillEmpty"),
               NEW j \in AtMost("handleHubJoin"),
               run' = [run EXCEPT ![h] = a \o b \o d \o j]
        PROVE  RunSame
    BY <1>1, <1>3, <2>2, AtMostType, AtMostCalls, CallsConcat, ConcatProperties,
       JoinBearsNothing DEF EndOps, CarryOps, ReserveOps, VoiceUpdate
  <2>3. RunSame
    BY <2>1, <2>2, RunUnchanged
  <2> QED
    BY <1>3, <2>3, Undisturbed DEF VoiceUpdate
<1>4. CASE ChannelDeleteEvent(h)
  <2>1. PICK c \in chDeletes :
          \/ run' = run
          \/ run' = [run EXCEPT ![h] = <<Do("deleteRow", c, NoOne, 0)>>]
    BY <1>4 DEF ChannelDeleteEvent
  <2> DEFINE q == <<Do("deleteRow", c, NoOne, 0)>>
  <2>2. c \in Channels
    BY DEF TypeOK
  <2>3. q \in Seq(Item)
    BY <2>2, ChannelDo DEF ChannelOps
  <2>4. Calls(q)
    BY DEF Calls, Do, EndOps, CarryOps, ReserveOps
  <2>5. ~Bears(q) /\ Plain(q)
    BY <2>3, <2>4, CallsBearNothing
  <2>6. RunSame
    <3> HIDE DEF q
    <3> QED
      BY <1>1, <1>4, <2>1, <2>5, RunUnchanged DEF ChannelDeleteEvent, q
  <2> QED
    BY <1>4, <2>6, Undisturbed DEF ChannelDeleteEvent
<1> QED
  BY <1>2, <1>3, <1>4 DEF Handle

----------------------------------------------------------------------------
(* The sweep and a panel save                                              *)

LEMMA NotHandler ==
  ASSUME TypeOK, SpawnInv, NEW g \in {Sweep, Panel}, NEW q,
         run' = [run EXCEPT ![g] = q]
  PROVE  RunSame
  BY ConstantsAssumption, OneMoves DEF Goroutines

LEMMA NextCallSpawns ==
  ASSUME TypeOK, SpawnInv, NEW g \in {Sweep, Panel}, NextCall(g)
  PROVE  SpawnInv'
  BY NotHandler, Undisturbed DEF NextCall, discord, record

LEMMA SweepStepSpawns ==
  ASSUME TypeOK, SpawnInv, SweepStep
  PROVE  SpawnInv'
<1>1. CASE SweepStart
  BY <1>1, NotHandler, Undisturbed DEF SweepStart
<1>2. CASE ListSpawnedChannels
  BY <1>2, NotHandler, Undisturbed DEF ListSpawnedChannels, Goes, discord, record
<1>3. CASE Rebuild
  BY <1>3, NotHandler, Undisturbed DEF Rebuild, Goes, discord
<1>4. CASE FinishSweep
  BY <1>4 DEF FinishSweep, EndSweep, discord, Carries, Reserves, Commits, Holds, Last,
     Plain, SpawnInv, InFlightAccounted, PendingAccounted
<1>5. CASE NextCall(Sweep)
  BY <1>5, NextCallSpawns
<1>6. CASE CallStep(Sweep)
  BY <1>6, CallStepSpawns DEF Goroutines
<1> QED
  BY <1>1, <1>2, <1>3, <1>4, <1>5, <1>6 DEF SweepStep

----------------------------------------------------------------------------
(* The spawn itself                                                        *)

(* Handler h goes on with q alone, the others as they were.                *)
LEMMA OneGoesOn ==
  ASSUME TypeOK, SpawnInv, NEW h \in Handlers, NEW q,
         run' = [run EXCEPT ![h] = q]
  PROVE  /\ run'[h] = q /\ (q # <<>> => Last(h)' = Fin(q))
         /\ \A k \in Handlers \ {h} :
              /\ Carries(k)' <=> Carries(k)
              /\ Reserves(k)' <=> Reserves(k)
              /\ Commits(k)' <=> Commits(k)
              /\ Holds(k)' <=> Holds(k)
              /\ Last(k)' = Last(k)
              /\ Plain(run[k])'
  BY DEF TypeOK, Goroutines, SpawnInv, Carries, Reserves, Commits, Holds, Last, Fin, Plain

LEMMA FinOfSections ==
  ASSUME NEW a
  PROVE  Fin(<<a>>) = a /\ Plain(<<a>>) /\ <<a>> # <<>>
  BY DEF Fin, Plain

LEMMA FinOfTwo ==
  ASSUME NEW a \in Item, NEW b \in Item, a.op \notin EndOps
  PROVE  <<a, b>> \in Seq(Item) /\ Fin(<<a, b>>) = b /\ Plain(<<a, b>>) /\ <<a, b>> # <<>>
  BY DEF Fin, Plain

LEMMA FinOfThree ==
  ASSUME NEW a \in Item, NEW b \in Item, NEW d \in Item,
         a.op \notin EndOps, b.op \notin EndOps
  PROVE  /\ <<a, b, d>> \in Seq(Item) /\ Fin(<<a, b, d>>) = d
         /\ Plain(<<a, b, d>>) /\ <<a, b, d>> # <<>>
  BY DEF Fin, Plain

(* A carried spawn goes on being carried.                                  *)
LEMMA GoesOnCarrying ==
  ASSUME TypeOK, SpawnInv, NEW h \in Handlers, NEW q, Carries(h),
         run' = [run EXCEPT ![h] = q], q # <<>>, Plain(q),
         Fin(q).op \in CarryOps, Fin(q).c = Last(h).c,
         UNCHANGED <<created, pending, inFlight, settled, sweepActive>>
  PROVE  SpawnInv'
<1>1. /\ Carries(h)' /\ ~Reserves(h) /\ ~Reserves(h)' /\ ~Commits(h) /\ ~Commits(h)'
      /\ Last(h)'.c = Last(h).c /\ Plain(run[h])'
  <2>1. run'[h] = q /\ Last(h)' = Fin(q) /\ Plain(run[h])'
    BY ZenonT(60), OneGoesOn DEF Plain
  <2>2. run[h] # <<>> /\ Last(h).op \in CarryOps
    BY DEF Carries, CarryOps
  <2>3. run'[h] # <<>> /\ Last(h)'.op \in CarryOps /\ Last(h)'.c = Last(h).c
    BY <2>1
  <2>4. Carries(h)'
    BY <2>3 DEF Carries, CarryOps
  <2>5. \A op \in CarryOps : op \notin {"create", "commit"} /\ op # "commit"
    BY DEF CarryOps
  <2>6. ~Reserves(h) /\ ~Commits(h)
    BY <2>2, <2>5 DEF Reserves, Commits
  <2>7. ~Reserves(h)' /\ ~Commits(h)'
    BY <2>3, <2>5 DEF Reserves, Commits
  <2> QED
    BY <2>1, <2>3, <2>4, <2>6, <2>7
<1>2. \A k \in Handlers : /\ Carries(k)' <=> Carries(k)
                          /\ Reserves(k)' <=> Reserves(k)
                          /\ Commits(k)' <=> Commits(k)
                          /\ Last(k)'.c = Last(k).c /\ Plain(run[k])'
                          /\ Reserves(k) => Last(k)'.n = Last(k).n
  BY <1>1, OneGoesOn
<1>3. \A k \in Handlers : Holds(k)' <=> Holds(k)
  BY <1>2 DEF Holds
<1>4. InFlightAccounted'
  BY <1>2 DEF SpawnInv, InFlightAccounted
<1>5. PendingAccounted'
  BY <1>2 DEF SpawnInv, PendingAccounted
<1> QED
  BY <1>2, <1>3, <1>4, <1>5 DEF SpawnInv

LEMMA HubJoinSpawns ==
  ASSUME TypeOK, SpawnInv, NEW h \in Handlers, HubJoin(h)
  PROVE  SpawnInv'
<1> DEFINE u == Head(run[h]).u
<1>1. /\ At(h, "handleHubJoin") /\ h \in Goroutines
      /\ UNCHANGED <<created, inFlight, settled, sweepActive>>
  BY DEF HubJoin, discord, Goroutines
<1>2. /\ Last(h) = Head(run[h]) /\ Last(h).op = "handleHubJoin"
      /\ \A q \in Seq(Item) : Goes(h, q) => run' = [run EXCEPT ![h] = q]
  BY <1>1, LastSection DEF SpawnInv, EndOps
<1>3. ~Carries(h) /\ ~Reserves(h) /\ ~Commits(h) /\ ~Holds(h)
  BY <1>2 DEF Carries, Reserves, Commits, Holds
<1>4. ASSUME Goes(h, <<>>), pending' = pending PROVE SpawnInv'
  <2>1. run' = [run EXCEPT ![h] = <<>>]
    BY <1>2, <1>4, EmptySeq
  <2>2. Same(run[h], <<>>) /\ Plain(<<>>)
    BY <1>3, EmptySeq DEF Same, Bears, Carries, Reserves, Fin, Last, CarryOps,
                          ReserveOps, Plain
  <2>3. RunSame
    BY <1>1, <2>1, <2>2, OneMoves
  <2> QED
    BY <1>1, <1>4, <2>3, Undisturbed
<1>5. ASSUME NEW n \in Numbers, IsNextNumber(n), pending' = pending \cup {n},
             Goes(h, <<Do("create", 0, u, n)>>)
      PROVE  SpawnInv'
  <2> DEFINE x == Do("create", 0, u, n)
  <2>1. n \in Nat /\ n \notin pending
    BY <1>5 DEF Numbers, IsNextNumber, Held
  <2>2. <<x>> \in Seq(Item)
    BY <1>1, <2>1, HeadItem, JoinOpItem, DoJoinItem, Singleton
  <2>3. run' = [run EXCEPT ![h] = <<x>>]
    BY <1>2, <1>5, <2>2
  <2>4. Last(h)' = x /\ Plain(run[h])' /\ run'[h] # <<>>
    BY ZenonT(60), <2>3, FinOfSections, OneGoesOn DEF Plain
  <2>5. Reserves(h)' /\ ~Carries(h)' /\ ~Commits(h)' /\ ~Holds(h)' /\ Last(h)'.n = n
    BY <2>4 DEF Reserves, Carries, Commits, Holds, Last, Do
  <2>6. \A k \in Handlers \ {h} :
          /\ Carries(k)' <=> Carries(k)
          /\ Reserves(k)' <=> Reserves(k)
          /\ Commits(k)' <=> Commits(k)
          /\ Holds(k)' <=> Holds(k)
          /\ Last(k)' = Last(k)
          /\ Plain(run[k])'
    BY <2>3, OneGoesOn
  <2>7. InFlightAccounted'
    BY <1>1, <1>3, <2>5, <2>6 DEF SpawnInv, InFlightAccounted
  <2>8. PendingAccounted'
    BY <1>3, <1>5, <2>1, <2>5, <2>6 DEF SpawnInv, PendingAccounted
  <2> QED
    BY <1>1, <1>3, <2>4, <2>5, <2>6, <2>7, <2>8 DEF SpawnInv
<1> QED
  BY <1>4, <1>5 DEF HubJoin

LEMMA CreateSpawns ==
  ASSUME TypeOK, SpawnInv, NEW h \in Handlers, Create(h)
  PROVE  SpawnInv'
<1> DEFINE i == Head(run[h])
<1>1. /\ At(h, "create") /\ h \in Goroutines
      /\ UNCHANGED <<inFlight, settled, sweepActive>>
  BY DEF Create, Goroutines
<1>2. /\ Last(h) = i /\ Last(h).op = "create"
      /\ \A q \in Seq(Item) : Goes(h, q) => run' = [run EXCEPT ![h] = q]
  BY <1>1, LastSection DEF SpawnInv, EndOps, ReserveOps
<1>3. ~Carries(h) /\ Reserves(h) /\ ~Commits(h) /\ ~Holds(h)
  BY <1>1, <1>2 DEF Carries, Reserves, Commits, Holds, At
<1>4. /\ i.n \in pending
      /\ \A k \in Handlers \ {h} : Reserves(k) => Last(k).n # i.n
  BY <1>2, <1>3 DEF SpawnInv, PendingAccounted
<1>5. ASSUME NEW c \in Channels \ created, created' = created \cup {c},
             pending' = pending, Goes(h, <<Do("commit", c, i.u, i.n)>>)
      PROVE  SpawnInv'
  <2> DEFINE x == Do("commit", c, i.u, i.n)
  <2>1. i.u \in Users /\ i.n \in Nat
    BY <1>1, HeadItem, JoinOpItem
  <2>2. <<x>> \in Seq(Item)
    BY <2>1, DoSpawnItem, Singleton DEF SpawnOps
  <2>3. run' = [run EXCEPT ![h] = <<x>>]
    BY <1>2, <1>5, <2>2
  <2>4. Last(h)' = x /\ Plain(run[h])' /\ run'[h] # <<>>
    BY ZenonT(60), <2>3, FinOfSections, OneGoesOn DEF Plain
  <2>5. /\ Reserves(h)' /\ ~Carries(h)' /\ Commits(h)' /\ Holds(h)'
        /\ Last(h)'.n = i.n /\ Last(h)'.c = c
    BY <2>4 DEF Reserves, Carries, Commits, Holds, Last, Do
  <2>6. \A k \in Handlers \ {h} :
          /\ Carries(k)' <=> Carries(k)
          /\ Reserves(k)' <=> Reserves(k)
          /\ Commits(k)' <=> Commits(k)
          /\ Holds(k)' <=> Holds(k)
          /\ Last(k)' = Last(k)
          /\ Plain(run[k])'
    BY <2>3, OneGoesOn
  <2>7. InFlightAccounted'
    BY <1>1, <1>3, <2>5, <2>6 DEF SpawnInv, InFlightAccounted
  <2>8. PendingAccounted'
    BY <1>2, <1>3, <1>5, <2>5, <2>6 DEF SpawnInv, PendingAccounted
  <2>9. \A k \in Handlers : Holds(k) => Last(k).c # c
    BY <1>5 DEF SpawnInv
  <2>10. c \notin inFlight
    BY <1>5 DEF SpawnInv
  <2> QED
    BY <1>1, <1>3, <1>5, <2>4, <2>5, <2>6, <2>7, <2>8, <2>9, <2>10 DEF SpawnInv
<1>6. ASSUME created \subseteq created', pending' = pending \ {i.n}, Goes(h, <<>>)
      PROVE  SpawnInv'
  <2>1. run' = [run EXCEPT ![h] = <<>>]
    BY <1>2, <1>6, EmptySeq
  <2>2. run'[h] = <<>> /\ Plain(<<>>)
    BY <1>1, <2>1, EmptySeq DEF TypeOK, Plain
  <2>3. ~Reserves(h)' /\ ~Carries(h)' /\ ~Commits(h)' /\ ~Holds(h)' /\ Plain(run[h])'
    BY <2>2 DEF Reserves, Carries, Commits, Holds
  <2>4. \A k \in Handlers \ {h} :
          /\ Carries(k)' <=> Carries(k)
          /\ Reserves(k)' <=> Reserves(k)
          /\ Commits(k)' <=> Commits(k)
          /\ Holds(k)' <=> Holds(k)
          /\ Last(k)' = Last(k)
          /\ Plain(run[k])'
    BY <2>1, OneGoesOn
  <2>5. InFlightAccounted'
    BY <1>1, <1>3, <2>3, <2>4 DEF SpawnInv, InFlightAccounted
  <2>6. PendingAccounted'
    BY <1>2, <1>3, <1>4, <1>6, <2>3, <2>4 DEF SpawnInv, PendingAccounted
  <2> QED
    BY <1>1, <1>3, <1>6, <2>3, <2>4, <2>5, <2>6 DEF SpawnInv
<1> QED
  BY <1>5, <1>6 DEF Create, Release

LEMMA CommitSpawns ==
  ASSUME TypeOK, SpawnInv, NEW h \in Handlers, Commit(h)
  PROVE  SpawnInv'
<1> DEFINE i == Head(run[h])
           x == Do("moveCheck", i.c, i.u, i.n)
<1>1. /\ At(h, "commit") /\ h \in Goroutines /\ Goes(h, <<x>>)
      /\ UNCHANGED <<created, settled, sweepActive>>
      /\ inFlight' = inFlight \cup {i.c} /\ pending' = pending \ {i.n}
  BY DEF Commit, Release, discord, Goroutines
<1>2. /\ Last(h) = i /\ Last(h).op = "commit"
      /\ \A q \in Seq(Item) : Goes(h, q) => run' = [run EXCEPT ![h] = q]
  BY <1>1, LastSection DEF SpawnInv, EndOps, ReserveOps
<1>3. ~Carries(h) /\ Reserves(h) /\ Commits(h) /\ Holds(h)
  BY <1>1, <1>2 DEF Carries, Reserves, Commits, Holds, At
<1>4. /\ \A k \in Handlers \ {h} : Reserves(k) => Last(k).n # i.n
      /\ \A k \in Handlers \ {h} : Holds(k) => Last(k).c # i.c
      /\ i.c \in created /\ i.c \notin inFlight /\ i.c \notin settled
  BY <1>2, <1>3 DEF SpawnInv, PendingAccounted, InFlightAccounted
<1>5. <<x>> \in Seq(Item)
  BY <1>1, HeadItem, SpawnOpItem, DoSpawnItem, Singleton DEF SpawnOps
<1>6. run' = [run EXCEPT ![h] = <<x>>]
  BY <1>1, <1>2, <1>5
<1>7. Last(h)' = x /\ Plain(run[h])' /\ run'[h] # <<>>
  BY ZenonT(60), <1>6, FinOfSections, OneGoesOn DEF Plain
<1>8. ~Reserves(h)' /\ Carries(h)' /\ ~Commits(h)' /\ Holds(h)' /\ Last(h)'.c = i.c
  BY <1>7 DEF Reserves, Carries, Commits, Holds, Last, Do
<1>9. \A k \in Handlers \ {h} :
        /\ Carries(k)' <=> Carries(k)
        /\ Reserves(k)' <=> Reserves(k)
        /\ Commits(k)' <=> Commits(k)
        /\ Holds(k)' <=> Holds(k)
        /\ Last(k)' = Last(k)
        /\ Plain(run[k])'
  BY <1>6, OneGoesOn
<1> HIDE DEF i, x
<1>10. InFlightAccounted'
  BY <1>1, <1>3, <1>4, <1>8, <1>9 DEF SpawnInv, InFlightAccounted
<1>11. PendingAccounted'
  BY <1>1, <1>2, <1>3, <1>4, <1>8, <1>9 DEF SpawnInv, PendingAccounted
<1>12. \A k \in Handlers : Commits(k)' => Last(k)'.c \notin inFlight'
  BY <1>1, <1>4, <1>8, <1>9 DEF SpawnInv, Holds
<1> QED
  BY <1>1, <1>2, <1>3, <1>4, <1>7, <1>8, <1>9, <1>10, <1>11, <1>12 DEF SpawnInv

LEMMA SettleSpawnSpawns ==
  ASSUME TypeOK, SpawnInv, NEW h \in Handlers, SettleSpawn(h)
  PROVE  SpawnInv'
<1> DEFINE c == Head(run[h]).c
<1>1. /\ At(h, "settleSpawn") /\ h \in Goroutines /\ Goes(h, <<>>)
      /\ UNCHANGED <<created, pending, sweepActive>>
  BY DEF SettleSpawn, discord, Goroutines
<1>2. /\ Last(h).c = c /\ Last(h).op = "settleSpawn"
      /\ \A q \in Seq(Item) : Goes(h, q) => run' = [run EXCEPT ![h] = q]
  BY <1>1, LastSection DEF SpawnInv, EndOps, CarryOps
<1>3. Carries(h) /\ ~Reserves(h) /\ ~Commits(h) /\ Holds(h)
  BY <1>1, <1>2 DEF Carries, Reserves, Commits, Holds, At
<1>4. run' = [run EXCEPT ![h] = <<>>]
  BY <1>1, <1>2, EmptySeq
<1>5. run'[h] = <<>> /\ Plain(run[h])'
  BY <1>1, <1>4, EmptySeq DEF TypeOK, Plain
<1>6. ~Reserves(h)' /\ ~Carries(h)' /\ ~Commits(h)' /\ ~Holds(h)'
  BY <1>5 DEF Reserves, Carries, Commits, Holds
<1>7. \A k \in Handlers \ {h} :
        /\ Carries(k)' <=> Carries(k)
        /\ Reserves(k)' <=> Reserves(k)
        /\ Commits(k)' <=> Commits(k)
        /\ Holds(k)' <=> Holds(k)
        /\ Last(k)' = Last(k)
        /\ Plain(run[k])'
  BY <1>4, OneGoesOn
<1>8. c \in inFlight \ settled /\ \A k \in Handlers \ {h} : Holds(k) => Last(k).c # c
  BY <1>2, <1>3 DEF SpawnInv, InFlightAccounted
<1>9. /\ inFlight' \subseteq inFlight /\ settled' \subseteq inFlight'
      /\ inFlight' \ settled' = (inFlight \ settled) \ {c}
      /\ settled' # {} => sweepActive'
  BY <1>1, <1>8 DEF SettleSpawn, SpawnInv, InFlightAccounted
<1> HIDE DEF c
<1>10. InFlightAccounted'
  BY <1>2, <1>6, <1>7, <1>8, <1>9 DEF SpawnInv, InFlightAccounted, Holds
<1>11. PendingAccounted'
  BY <1>1, <1>3, <1>6, <1>7 DEF SpawnInv, PendingAccounted
<1> QED
  BY <1>1, <1>5, <1>6, <1>7, <1>9, <1>10, <1>11 DEF SpawnInv

(* A handler at a carrying section goes on with sections that end on       *)
(* another one for the same channel.                                       *)
LEMMA CarryingSection ==
  ASSUME TypeOK, SpawnInv, NEW h \in Handlers, NEW op \in CarryOps, At(h, op),
         NEW q \in Seq(Item), Goes(h, q), q # <<>>, Plain(q),
         Fin(q).op \in CarryOps, Fin(q).c = Head(run[h]).c,
         UNCHANGED <<created, pending, inFlight, settled, sweepActive>>
  PROVE  SpawnInv'
  BY LastSection, GoesOnCarrying DEF SpawnInv, EndOps, Carries, CarryOps

LEMMA SpawnStepSpawns ==
  ASSUME TypeOK, SpawnInv, NEW h \in Handlers, SpawnStep(h)
  PROVE  SpawnInv'
<1> DEFINE i == Head(run[h])
<1>0. h \in Goroutines
  BY DEF Goroutines
<1>1. CASE MoveCheck(h)
  <2>1. At(h, "moveCheck") /\ i.c \in Channels /\ i.u \in Users /\ i.n \in Nat
    BY <1>0, <1>1, HeadItem, SpawnOpItem DEF MoveCheck, SpawnOps
  <2>2. PICK op \in {"move", "abandonSpawn"} : Goes(h, <<Do(op, i.c, i.u, i.n)>>)
    BY <1>1 DEF MoveCheck
  <2> DEFINE x == Do(op, i.c, i.u, i.n)
  <2>3. x \in Item /\ x.op \in CarryOps /\ x.c = i.c
    BY <2>1, DoSpawnItem DEF SpawnOps, CarryOps, Do
  <2>4. UNCHANGED <<created, pending, inFlight, settled, sweepActive>>
    BY <1>1 DEF MoveCheck, discord, record
  <2> HIDE DEF x
  <2>5. <<x>> \in Seq(Item) /\ Fin(<<x>>) = x /\ Plain(<<x>>) /\ <<x>> # <<>>
    BY <2>3, Singleton, FinOfSections
  <2> QED
    BY <2>1, <2>2, <2>3, <2>4, <2>5, CarryingSection DEF CarryOps, x
<1>2. CASE GuildMemberMove(h)
  <2>1. At(h, "move") /\ i.c \in Channels /\ i.u \in Users /\ i.n \in Nat
    BY <1>0, <1>2, HeadItem, SpawnOpItem DEF GuildMemberMove, SpawnOps
  <2>2. PICK op \in {"readOwner", "abandonSpawn"} : Goes(h, <<Do(op, i.c, i.u, i.n)>>)
    BY <1>2 DEF GuildMemberMove
  <2> DEFINE x == Do(op, i.c, i.u, i.n)
  <2>3. x \in Item /\ x.op \in CarryOps /\ x.c = i.c
    BY <2>1, DoSpawnItem DEF SpawnOps, CarryOps, Do
  <2>4. UNCHANGED <<created, pending, inFlight, settled, sweepActive>>
    BY <1>2 DEF GuildMemberMove, record
  <2> HIDE DEF x
  <2>5. <<x>> \in Seq(Item) /\ Fin(<<x>>) = x /\ Plain(<<x>>) /\ <<x>> # <<>>
    BY <2>3, Singleton, FinOfSections
  <2> QED
    BY <2>1, <2>2, <2>3, <2>4, <2>5, CarryingSection DEF CarryOps, x
<1>3. CASE ReadOwner(h)
  <2> DEFINE a == Do("writeRow", i.c, owners[i.c], i.n)
             b == Do("settleSpawn", i.c, NoOne, 0)
  <2>1. At(h, "readOwner") /\ i.c \in Channels /\ i.n \in Nat
    BY <1>0, <1>3, HeadItem, SpawnOpItem DEF ReadOwner, SpawnOps
  <2>2. Goes(h, <<a, b>>)
    BY <1>3 DEF ReadOwner
  <2>3. a \in Item /\ b \in Item
    BY ZenonT(60), <2>1, DoChannelItem DEF ChannelOps, TypeOK
  <2>4. a.op \notin EndOps /\ b.op \in CarryOps /\ b.c = i.c
    BY DEF Do, EndOps, CarryOps, ReserveOps
  <2>5. UNCHANGED <<created, pending, inFlight, settled, sweepActive>>
    BY <1>3 DEF ReadOwner, discord, record
  <2> HIDE DEF a, b
  <2>6. /\ <<a, b>> \in Seq(Item) /\ Fin(<<a, b>>) = b /\ Plain(<<a, b>>)
        /\ <<a, b>> # <<>>
    BY <2>3, <2>4, FinOfTwo
  <2> QED
    BY <2>1, <2>2, <2>4, <2>5, <2>6, CarryingSection DEF CarryOps
<1>4. CASE AbandonSpawn(h)
  <2> DEFINE a == Do("deleteIfStillEmpty", i.c, i.u, 0)
             b == Do("keep", i.c, NoOne, 0)
             d == Do("settleSpawn", i.c, NoOne, 0)
  <2>1. At(h, "abandonSpawn") /\ i.c \in Channels /\ i.u \in Users
    BY <1>0, <1>4, HeadItem, SpawnOpItem DEF AbandonSpawn, SpawnOps
  <2>2. Goes(h, <<a, b, d>>)
    BY <1>4 DEF AbandonSpawn
  <2>3. a \in Item /\ b \in Item /\ d \in Item
    BY <2>1, DoChannelItem DEF ChannelOps
  <2>4. /\ a.op \notin EndOps /\ b.op \notin EndOps
        /\ d.op \in CarryOps /\ d.c = i.c
    BY DEF Do, EndOps, CarryOps, ReserveOps
  <2>5. UNCHANGED <<created, pending, inFlight, settled, sweepActive>>
    BY <1>4 DEF AbandonSpawn, discord
  <2> HIDE DEF a, b, d
  <2>6. /\ <<a, b, d>> \in Seq(Item) /\ Fin(<<a, b, d>>) = d /\ Plain(<<a, b, d>>)
        /\ <<a, b, d>> # <<>>
    BY <2>3, <2>4, FinOfThree
  <2> QED
    BY <2>1, <2>2, <2>4, <2>5, <2>6, CarryingSection DEF CarryOps
<1>5. CASE Keep(h)
  <2> DEFINE e == Elect(Confirmed(i.c, occupants), ladder)
             x == Do("writeRow", i.c, e, channelIndex[i.c])
  <2>1. i.c \in Channels /\ run[h] # <<>> /\ i.op \notin EndOps
    BY <1>0, <1>5, HeadItem, ChannelOpItem
       DEF Keep, ChannelOps, EndOps, CarryOps, ReserveOps
  <2>2. e \in Users \cup {NoOne} /\ channelIndex[i.c] \in Nat
    BY <2>1, ConfirmedType, ElectType DEF TypeOK
  <2>3. x \in Item /\ x.op \notin EndOps
    BY <2>1, <2>2, LaterItem DEF ChannelOps, EndOps, CarryOps, ReserveOps
  <2>4. Goes(h, <<x>>)
    BY <1>5 DEF Keep
  <2>5. RunSame
    BY <1>0, <2>1, <2>3, <2>4, CallSame
  <2> QED
    BY <1>5, <2>5, Undisturbed DEF Keep, discord
<1> QED
  BY <1>1, <1>2, <1>3, <1>4, <1>5, HubJoinSpawns, CreateSpawns, CommitSpawns,
     SettleSpawnSpawns DEF SpawnStep

----------------------------------------------------------------------------
LEMMA InitSpawns == Init => SpawnInv
  BY FreshSpawns DEF Init, Goroutines

LEMMA NextSpawns == TypeOK /\ SpawnInv /\ [Next]_vars => SpawnInv'
<1> SUFFICES ASSUME TypeOK, SpawnInv, [Next]_vars PROVE SpawnInv'
  OBVIOUS
<1>1. Handlers \subseteq Goroutines /\ Panel \in Goroutines
  BY DEF Goroutines
<1>2. ASSUME UNCHANGED vars PROVE SpawnInv'
  BY <1>2, RunUnchanged, Undisturbed DEF vars, discord, record
<1>3. ASSUME Rest PROVE SpawnInv'
  BY <1>2, <1>3 DEF Rest
<1>4. ASSUME PanelStep PROVE SpawnInv'
  BY <1>1, <1>4, NextCallSpawns, CallStepSpawns DEF PanelStep
<1>5. ASSUME NEW lad \in Ladders, ApplyRankRoles(lad) PROVE SpawnInv'
  BY <1>5, RunUnchanged, Undisturbed DEF ApplyRankRoles, discord
<1>6. ASSUME NEW h \in Handlers, Handle(h) \/ SpawnStep(h) \/ CallStep(h)
      PROVE  SpawnInv'
  BY <1>1, <1>6, HandleSpawns, SpawnStepSpawns, CallStepSpawns
<1> QED
  BY <1>2, <1>3, <1>4, <1>5, <1>6, EnvironmentSpawns, SweepStepSpawns DEF Next

(* A handler's last section is where its spawn is: SpawnInv holds in every *)
(* state the runtime reaches.                                              *)
THEOREM SpawnsFollowed == Spec => []SpawnInv
<1> QED
  BY InitSpawns, NextSpawns, TypeCorrect, PTL DEF Spec

(* Neither can a sweep judge a spawn whose row is still to come, nor does  *)
(* a marker outlive its spawn (temp_vc.go:55), however many spawns, sweeps *)
(* and faults there are.                                                   *)
THEOREM SpawnsAccounted == Spec => []InFlightAccounted
<1>1. SpawnInv => InFlightAccounted
  BY DEF SpawnInv
<1> QED
  BY <1>1, SpawnsFollowed, PTL

(* A reserved number belongs to exactly one create under way               *)
(* (nextChannelIndexLocked, releaseChannelIndexLocked).                    *)
THEOREM NumbersAccounted == Spec => []PendingAccounted
<1>1. SpawnInv => PendingAccounted
  BY DEF SpawnInv
<1> QED
  BY <1>1, SpawnsFollowed, PTL

----------------------------------------------------------------------------
(* A channel's life after its spawn: who the record says is inside, and    *)
(* who owns it.                                                            *)

(* What goroutines run once the category has no room for another spawn.    *)
CalmOps == {"handleHubJoin", "create", "writeRow", "deleteIfStillEmpty",
            "ChannelDelete", "untrack", "deleteRow", "list", "rebuild"}
CalmSeq(q) == \A k \in 1 .. Len(q) : q[k].op \in CalmOps

NoSpawns ==
  /\ Channels \subseteq created /\ inFlight = {}
  /\ \A g \in Goroutines : CalmSeq(run[g]) /\ \A i \in todo[g] : i.op \in CalmOps

(* A sweep that will rebuild the record has still to.                      *)
RebuildDue ==
  sweeps > 0 \/ (run[Sweep] # <<>> /\ Head(run[Sweep]).op \in {"list", "rebuild"})

(* The guild never left the cache, so no sweep was ever due.               *)
Steady ==
  /\ present /\ sweeps = 0 /\ ~sweepActive /\ run[Sweep] = <<>> /\ todo[Sweep] = {}
  /\ allowed["outage"] = 0 /\ allowed["restart"] = 0

(* The diff base is where each member is or has an event to come, each     *)
(* channel's occupants are those the diff base puts there, and its owner,  *)
(* if it has one, is one of them while there are any.                      *)
Based    == \A u \in Users : \/ userChannel[u] = loc[u]
                             \/ loc[u] = Hub /\ userChannel[u] = Out
                             \/ <<u, loc[u]>> \in events
Occupied == \A c \in tracked : \A u \in Users : u \in occupants[c] <=> userChannel[u] = c
Owned    == \A c \in tracked : \/ occupants[c] = {}
                               \/ owners[c] \in occupants[c] \cup {NoOne}
View == Based /\ Occupied /\ Owned

Viewed  == present /\ ~RebuildDue => View
ListsWork == allowed["storeFault"] = 0 \/ Steady
LivesInv == NoSpawns /\ ListsWork /\ Viewed

LEMMA CalmParts ==
  ASSUME NEW q \in Seq(Item), CalmSeq(q), q # <<>>
  PROVE  Head(q).op \in CalmOps /\ CalmSeq(Tail(q)) /\ Tail(q) \in Seq(Item)
<1>1. Len(q) \in Nat /\ Len(q) >= 1 /\ Len(Tail(q)) = Len(q) - 1 /\ Tail(q) \in Seq(Item)
  BY HeadTailProperties, EmptySeq, LenProperties
<1>2. \A i \in 1 .. Len(Tail(q)) : Tail(q)[i] = q[i + 1]
  BY HeadTailProperties
<1>3. Head(q) = q[1]
  BY HeadTailProperties
<1>4. Head(q).op \in CalmOps
  BY <1>1, <1>3 DEF CalmSeq
<1>5. CalmSeq(Tail(q))
  BY <1>1, <1>2 DEF CalmSeq
<1> QED
  BY <1>1, <1>4, <1>5

LEMMA CalmConcat ==
  ASSUME NEW p \in Seq(Item), NEW q \in Seq(Item), CalmSeq(p), CalmSeq(q)
  PROVE  CalmSeq(p \o q)
<1>1. Len(p) \in Nat /\ Len(q) \in Nat /\ Len(p \o q) = Len(p) + Len(q)
  BY ConcatProperties, LenProperties
<1>2. \A i \in 1 .. (Len(p) + Len(q)) :
         (p \o q)[i] = IF i <= Len(p) THEN p[i] ELSE q[i - Len(p)]
  BY ConcatProperties
<1> QED
  BY <1>1, <1>2 DEF CalmSeq

LEMMA CalmSingle ==
  ASSUME NEW i, i.op \in CalmOps
  PROVE  CalmSeq(<<i>>)
  BY DEF CalmSeq

LEMMA CalmNone == CalmSeq(<<>>)
  BY DEF CalmSeq

LEMMA CalmAfterDelete ==
  ASSUME NEW q \in Seq(Item), CalmSeq(q)
  PROVE  AfterDelete(q) = q
  BY CalmParts DEF AfterDelete, CalmOps

(* A goroutine that goes on with calm sections stays calm.                 *)
LEMMA CalmGoes ==
  ASSUME TypeOK, NoSpawns, NEW g \in Goroutines, run[g] # <<>>, NEW q \in Seq(Item),
         CalmSeq(q), run' = [run EXCEPT ![g] = q \o Tail(@)]
  PROVE  \A k \in Goroutines : CalmSeq(run'[k])
  BY CalmParts, CalmConcat DEF TypeOK, NoSpawns

LEMMA CalmSet ==
  ASSUME TypeOK, NoSpawns, NEW g \in Goroutines, NEW q, CalmSeq(q),
         run' = [run EXCEPT ![g] = q]
  PROVE  \A k \in Goroutines : CalmSeq(run'[k])
  BY DEF TypeOK, NoSpawns

LEMMA CalmHead ==
  ASSUME TypeOK, NoSpawns, NEW g \in Goroutines, NEW op, At(g, op)
  PROVE  op \in CalmOps /\ CalmSeq(Tail(run[g]))
  BY CalmParts DEF TypeOK, NoSpawns, At

LEMMA CalmDo ==
  ASSUME NEW op, NEW c, NEW u, NEW n, op \in CalmOps
  PROVE  Do(op, c, u, n).op \in CalmOps /\ CalmSeq(<<Do(op, c, u, n)>>)
  BY CalmSingle DEF Do

(* The steps of a call keep to calm sections.                              *)
LEMMA CallStepCalm ==
  ASSUME TypeOK, NoSpawns, NEW g \in Goroutines, CallStep(g)
  PROVE  NoSpawns'
<1> USE DEF record, discord
<1>0. <<>> \in Seq(Item) /\ CalmSeq(<<>>)
  BY CalmNone
<1>1. CASE WriteRow(g)
  BY <1>0, <1>1, CalmGoes DEF WriteRow, At, Goes, NoSpawns
<1>2. CASE DeleteRow(g)
  BY <1>0, <1>2, CalmGoes DEF DeleteRow, At, Goes, NoSpawns
<1>3. CASE DeleteIfStillEmpty(g)
  <2> DEFINE i == Head(run[g])
             rest == Tail(run[g])
  <2>0. At(g, "deleteIfStillEmpty")
    BY <1>3 DEF DeleteIfStillEmpty
  <2>1. i \in Item /\ i.op = "deleteIfStillEmpty" /\ rest \in Seq(Item)
    BY <2>0, HeadItem
  <2>2. CalmSeq(rest)
    BY <2>0, CalmHead
  <2>3. AfterDelete(rest) = rest
    BY <2>1, <2>2, CalmAfterDelete
  <2>4. i.c \in Channels
    BY <2>1, ChannelOpItem DEF ChannelOps
  <2> DEFINE d == <<Do("ChannelDelete", i.c, NoOne, 0)>>
  <2>5. d \in Seq(Item) /\ CalmSeq(d)
    BY <2>4, ChannelDo, CalmDo DEF ChannelOps, CalmOps
  <2>6. CalmSeq(d \o rest)
    BY <2>1, <2>2, <2>5, CalmConcat
  <2> HIDE DEF d
  <2>7. run' = [run EXCEPT ![g] = rest] \/ run' = [run EXCEPT ![g] = d \o rest]
    BY <1>3, <2>3 DEF DeleteIfStillEmpty, d
  <2>8. \A k \in Goroutines : CalmSeq(run'[k])
    BY <2>2, <2>6, <2>7, CalmSet
  <2> QED
    BY <1>3, <2>8 DEF DeleteIfStillEmpty, NoSpawns
<1>4. CASE ChannelDelete(g)
  <2> DEFINE i == Head(run[g])
             d == <<Do("untrack", i.c, NoOne, 0)>>
  <2>0. At(g, "ChannelDelete") /\ run[g] # <<>>
    BY <1>4 DEF ChannelDelete, At
  <2>1. i \in Item /\ i.op = "ChannelDelete"
    BY <2>0, HeadItem
  <2>2. i.c \in Channels
    BY <2>1, ChannelOpItem DEF ChannelOps
  <2>3. d \in Seq(Item) /\ CalmSeq(d)
    BY <2>2, ChannelDo, CalmDo DEF ChannelOps, CalmOps
  <2> HIDE DEF d
  <2>4. run' = [run EXCEPT ![g] = d \o Tail(@)] \/ run' = [run EXCEPT ![g] = <<>> \o Tail(@)]
    BY <1>4 DEF ChannelDelete, Goes, d
  <2>5. \A k \in Goroutines : CalmSeq(run'[k])
    BY <1>0, <2>0, <2>3, <2>4, CalmGoes
  <2> QED
    BY <1>4, <2>5 DEF ChannelDelete, NoSpawns
<1>5. CASE UntrackDeleted(g)
  <2> DEFINE i == Head(run[g])
             rest == Tail(run[g])
             d == <<Do("deleteRow", i.c, NoOne, 0)>>
  <2>0. At(g, "untrack")
    BY <1>5 DEF UntrackDeleted
  <2>1. i \in Item /\ i.op = "untrack" /\ rest \in Seq(Item)
    BY <2>0, HeadItem
  <2>2. CalmSeq(rest)
    BY <2>0, CalmHead
  <2>3. AfterDelete(rest) = rest
    BY <2>1, <2>2, CalmAfterDelete
  <2>4. i.c \in Channels
    BY <2>1, ChannelOpItem DEF ChannelOps
  <2>5. d \in Seq(Item) /\ CalmSeq(d)
    BY <2>4, ChannelDo, CalmDo DEF ChannelOps, CalmOps
  <2>6. CalmSeq(d \o rest)
    BY <2>1, <2>2, <2>5, CalmConcat
  <2> HIDE DEF d
  <2>7. run' = [run EXCEPT ![g] = d \o rest]
    BY <1>5, <2>3 DEF UntrackDeleted, d
  <2>8. \A k \in Goroutines : CalmSeq(run'[k])
    BY <2>6, <2>7, CalmSet
  <2> QED
    BY <1>5, <2>8 DEF UntrackDeleted, NoSpawns
<1> QED
  BY <1>1, <1>2, <1>3, <1>4, <1>5 DEF CallStep

(* No room is left for a spawn: a hub join ends at its refused create.     *)
LEMMA SpawnStepCalm ==
  ASSUME TypeOK, NoSpawns, NEW h \in Handlers, SpawnStep(h)
  PROVE  /\ NoSpawns'
         /\ HubJoin(h) \/ Create(h)
         /\ UNCHANGED <<loc, present, events, sweeps, userChannel, tracked, occupants,
                        owners, sweepActive, ladder, todo>>
<1> USE DEF record, discord
<1>0. <<>> \in Seq(Item) /\ CalmSeq(<<>>) /\ h \in Goroutines
  BY CalmNone DEF Goroutines
<1>1. HubJoin(h) \/ Create(h)
  <2>1. \A op : At(h, op) => op \in CalmOps
    BY <1>0, CalmHead
  <2>2. ~At(h, "commit") /\ ~At(h, "moveCheck") /\ ~At(h, "move") /\ ~At(h, "readOwner")
        /\ ~At(h, "settleSpawn") /\ ~At(h, "abandonSpawn") /\ ~At(h, "keep")
    BY <2>1 DEF CalmOps
  <2> QED
    BY <2>2 DEF SpawnStep, Commit, MoveCheck, GuildMemberMove, ReadOwner, SettleSpawn, AbandonSpawn, Keep
<1>2. CASE HubJoin(h)
  <2>0. At(h, "handleHubJoin") /\ run[h] # <<>>
    BY <1>2 DEF HubJoin, At
  <2>1. Head(run[h]) \in Item /\ Head(run[h]).op = "handleHubJoin"
    BY <1>0, <2>0, HeadItem
  <2>2. Head(run[h]).u \in Users
    BY <2>1, JoinOpItem
  <2>3. Numbers \subseteq Nat
    BY DEF Numbers
  <2>4. PICK n \in Nat : \/ run' = [run EXCEPT ![h] = <<Do("create", 0, Head(run[h]).u, n)>> \o Tail(@)]
                         \/ run' = [run EXCEPT ![h] = <<>> \o Tail(@)]
    BY <1>2, <2>3 DEF HubJoin, Goes
  <2> DEFINE d == <<Do("create", 0, Head(run[h]).u, n)>>
  <2>5. d \in Seq(Item) /\ CalmSeq(d)
    BY <2>2, DoJoinItem, CalmDo, Singleton DEF CalmOps
  <2> HIDE DEF d
  <2>6. run' = [run EXCEPT ![h] = d \o Tail(@)] \/ run' = [run EXCEPT ![h] = <<>> \o Tail(@)]
    BY <2>4 DEF d
  <2>7. \A k \in Goroutines : CalmSeq(run'[k])
    BY <1>0, <2>0, <2>5, <2>6, CalmGoes
  <2> QED
    BY <1>1, <1>2, <2>7 DEF HubJoin, NoSpawns
<1>3. CASE Create(h)
  BY <1>0, <1>1, <1>3, CalmGoes DEF Create, At, Goes, NoSpawns
<1> QED
  BY <1>1, <1>2, <1>3

LEMMA AtMostCalm ==
  ASSUME NEW op \in CalmOps, NEW q \in AtMost(op)
  PROVE  q \in Seq(Item) /\ CalmSeq(q)
  BY AtMostType, CalmNone, CalmSingle DEF AtMost

LEMMA HandleCalm ==
  ASSUME TypeOK, NoSpawns, NEW h \in Handlers, Handle(h)
  PROVE  NoSpawns'
<1>0. h \in Goroutines
  BY DEF Goroutines
<1>1. CASE DropStale(h)
  BY <1>1 DEF DropStale, NoSpawns, record
<1>2. CASE VoiceUpdate(h)
  <2>1. CASE run' = run
    BY Zenon, <1>2, <2>1 DEF VoiceUpdate, NoSpawns
  <2>2. CASE run' # run
    <3>1. PICK a \in AtMost("writeRow"), b \in AtMost("writeRow"),
               d \in AtMost("deleteIfStillEmpty"), j \in AtMost("handleHubJoin") :
            run' = [run EXCEPT ![h] = a \o b \o d \o j]
      BY <1>2, <2>2, VoiceUpdateParts
    <3>2. /\ a \in Seq(Item) /\ b \in Seq(Item) /\ d \in Seq(Item) /\ j \in Seq(Item)
          /\ CalmSeq(a) /\ CalmSeq(b) /\ CalmSeq(d) /\ CalmSeq(j)
      BY AtMostCalm DEF CalmOps
    <3>3. a \o b \in Seq(Item) /\ CalmSeq(a \o b)
      BY <3>2, CalmConcat, ConcatProperties
    <3>4. (a \o b) \o d \in Seq(Item) /\ CalmSeq((a \o b) \o d)
      BY <3>2, <3>3, CalmConcat, ConcatProperties
    <3>5. CalmSeq(a \o b \o d \o j)
      BY <3>2, <3>4, CalmConcat
    <3>6. \A k \in Goroutines : CalmSeq(run'[k])
      BY <1>0, <3>1, <3>5, CalmSet
    <3> QED
      BY <1>2, <3>6 DEF VoiceUpdate, NoSpawns
  <2> QED
    BY Zenon, <2>1, <2>2
<1>3. CASE ChannelDeleteEvent(h)
  <2>1. PICK c \in chDeletes :
          run' = run \/ run' = [run EXCEPT ![h] = <<Do("deleteRow", c, NoOne, 0)>>]
    BY <1>3 DEF ChannelDeleteEvent
  <2>2. \A k \in Goroutines : CalmSeq(run'[k])
    <3>1. CASE run' = run
      BY <3>1 DEF NoSpawns
    <3>2. CASE run' = [run EXCEPT ![h] = <<Do("deleteRow", c, NoOne, 0)>>]
      <4>1. CalmSeq(<<Do("deleteRow", c, NoOne, 0)>>)
        BY CalmDo DEF CalmOps
      <4> QED
        BY <1>0, <3>2, <4>1, CalmSet
    <3> QED
      BY <2>1, <3>1, <3>2
  <2> QED
    BY <1>3, <2>2 DEF ChannelDeleteEvent, NoSpawns
<1> QED
  BY <1>1, <1>2, <1>3 DEF Handle

LEMMA NextCallCalm ==
  ASSUME TypeOK, NoSpawns, NEW g \in Goroutines, NextCall(g)
  PROVE  NoSpawns'
<1>1. PICK i \in todo[g] : /\ run' = [run EXCEPT ![g] = <<i>>]
                           /\ todo' = [todo EXCEPT ![g] = @ \ {i}]
  BY DEF NextCall
<1>2. CalmSeq(<<i>>)
  BY <1>1, CalmSingle DEF NoSpawns
<1>3. \A k \in Goroutines : CalmSeq(run'[k])
  BY <1>1, <1>2, CalmSet
<1>4. \A k \in Goroutines : todo'[k] \subseteq todo[k]
  BY <1>1 DEF TypeOK
<1> QED
  BY <1>3, <1>4 DEF NextCall, NoSpawns, discord, record

LEMMA SweepStepCalm ==
  ASSUME TypeOK, NoSpawns, SweepStep
  PROVE  NoSpawns'
<1>0. Sweep \in Goroutines /\ <<>> \in Seq(Item) /\ CalmSeq(<<>>)
  BY CalmNone DEF Goroutines
<1>1. CASE SweepStart
  BY <1>0, <1>1, CalmDo, CalmSet DEF CalmOps, SweepStart, NoSpawns
<1>2. CASE ListSpawnedChannels
  <2> DEFINE d == <<Do("rebuild", 0, NoOne, 0)>>
  <2>1. d \in Seq(Item) /\ CalmSeq(d)
    BY DoSweepItem, CalmDo, Singleton DEF CalmOps
  <2> HIDE DEF d
  <2>2. /\ run[Sweep] # <<>>
        /\ \/ run' = [run EXCEPT ![Sweep] = d \o Tail(@)]
           \/ run' = [run EXCEPT ![Sweep] = <<>> \o Tail(@)]
    BY <1>2 DEF ListSpawnedChannels, Goes, At, d
  <2>3. \A k \in Goroutines : CalmSeq(run'[k])
    BY <1>0, <2>1, <2>2, CalmGoes
  <2> QED
    BY <1>2, <2>3 DEF ListSpawnedChannels, NoSpawns, discord, record
<1>3. CASE Rebuild
  <2>1. run[Sweep] # <<>> /\ run' = [run EXCEPT ![Sweep] = <<>> \o Tail(@)]
    BY <1>3 DEF Rebuild, Goes, At
  <2>2. \A k \in Goroutines : CalmSeq(run'[k])
    BY <1>0, <2>1, CalmGoes
  <2>3. \A k \in Goroutines : \A i \in todo'[k] : i.op \in CalmOps
    BY <1>3 DEF Rebuild, TypeOK, NoSpawns, Do, CalmOps
  <2> QED
    BY <1>3, <2>2, <2>3 DEF Rebuild, NoSpawns, discord
<1>4. CASE FinishSweep
  BY <1>4 DEF FinishSweep, EndSweep, NoSpawns, discord
<1>5. CASE NextCall(Sweep)
  BY <1>0, <1>5, NextCallCalm
<1>6. CASE CallStep(Sweep)
  BY <1>0, <1>6, CallStepCalm
<1> QED
  BY <1>1, <1>2, <1>3, <1>4, <1>5, <1>6 DEF SweepStep

LEMMA EnvironmentCalm ==
  ASSUME TypeOK, NoSpawns, Environment
  PROVE  NoSpawns'
  BY CalmNone DEF Restart, NoSpawns, Environment, Move, HandDelete, DeleteReachesCache,
     Outage, GuildCreate, record

LEMMA ApplyRankRolesCalm ==
  ASSUME TypeOK, NoSpawns, NEW lad \in Ladders, ApplyRankRoles(lad)
  PROVE  NoSpawns'
  BY DEF ApplyRankRoles, TypeOK, NoSpawns, Do, CalmOps, discord

(* A handler of either kind is a goroutine of its own.                     *)
LEMMA CalmNext == TypeOK /\ NoSpawns /\ [Next]_vars => NoSpawns'
<1> SUFFICES ASSUME TypeOK, NoSpawns, [Next]_vars PROVE NoSpawns'
  OBVIOUS
<1>0. Handlers \subseteq Goroutines /\ Panel \in Goroutines
  BY DEF Goroutines
<1>1. CASE Environment
  BY <1>1, EnvironmentCalm
<1>2. CASE \E h \in Handlers : Handle(h) \/ SpawnStep(h) \/ CallStep(h)
  BY <1>0, <1>2, HandleCalm, SpawnStepCalm, CallStepCalm
<1>3. CASE SweepStep
  BY <1>3, SweepStepCalm
<1>4. CASE PanelStep
  BY <1>0, <1>4, NextCallCalm, CallStepCalm DEF PanelStep
<1>5. CASE \E lad \in Ladders : ApplyRankRoles(lad)
  BY <1>5, ApplyRankRolesCalm
<1>6. CASE UNCHANGED vars
  BY <1>6 DEF vars, NoSpawns, discord, record
<1> QED
  BY <1>1, <1>2, <1>3, <1>4, <1>5, <1>6 DEF Next, Rest

----------------------------------------------------------------------------
(* Disturbances only run out, and without an outage or a restart no sweep  *)
(* is ever due.                                                            *)
LEMMA AllowedFalls ==
  ASSUME TypeOK, [Next]_vars, NEW k \in Kinds
  PROVE  allowed'[k] \in Nat /\ allowed'[k] <= allowed[k]
<1>0. allowed[k] \in Nat
  BY Zenon DEF TypeOK
<1>1. \/ allowed' = allowed
      \/ \E j \in Kinds : Spend(j)
  BY ZenonT(60) DEF Next, Environment, Move, HandDelete, DeleteReachesCache, Outage, GuildCreate,
     Restart, Handle, DropStale, VoiceUpdate, ChannelDeleteEvent, SpawnStep, HubJoin,
     Create, Commit, MoveCheck, GuildMemberMove, ReadOwner, SettleSpawn, AbandonSpawn,
     Keep, CallStep, WriteRow, DeleteRow, DeleteIfStillEmpty, ChannelDelete,
     UntrackDeleted, SweepStep, SweepStart, ListSpawnedChannels, Rebuild, FinishSweep,
     EndSweep, NextCall, PanelStep, ApplyRankRoles, Rest, vars, Kinds
<1>2. ASSUME NEW j \in Kinds, Spend(j) PROVE allowed'[k] \in Nat /\ allowed'[k] <= allowed[k]
  BY <1>0, <1>2 DEF Spend, TypeOK
<1> QED
  BY <1>0, <1>1, <1>2

LEMMA SteadyNext == TypeOK /\ Steady /\ [Next]_vars => Steady'
<1> SUFFICES ASSUME TypeOK, Steady, [Next]_vars PROVE Steady'
  OBVIOUS
<1>1. /\ allowed'["outage"] = 0 /\ allowed'["restart"] = 0
  BY SMTT(30), AllowedFalls DEF Steady, Kinds, TypeOK
<1> USE DEF discord, record
<1>2. ASSUME NEW g \in Goroutines, g # Sweep,
             UNCHANGED <<present, sweeps, sweepActive>>, run'[Sweep] = run[Sweep],
             todo'[Sweep] = todo[Sweep]
      PROVE  Steady'
  BY <1>1, <1>2 DEF Steady
<1>3. CASE Environment
  <2>1. ~Outage /\ ~Restart /\ ~GuildCreate
    BY DEF Outage, Restart, GuildCreate, Spend, Steady
  <2> QED
    <3>1. UNCHANGED <<present, sweeps, sweepActive, run, todo>>
      BY <1>3, <2>1 DEF Environment, Move, HandDelete, DeleteReachesCache
    <3> QED
      BY <1>1, <3>1 DEF Steady
<1>4. ASSUME NEW h \in Handlers, Handle(h) \/ SpawnStep(h) \/ CallStep(h) PROVE Steady'
  <2>0. h \in Goroutines /\ h # Sweep
    BY ConstantsAssumption DEF Goroutines
  <2>1. UNCHANGED <<present, sweeps, sweepActive, todo>>
    BY ZenonT(60), <1>4 DEF Handle, DropStale, VoiceUpdate, ChannelDeleteEvent, SpawnStep, HubJoin,
       Create, Commit, MoveCheck, GuildMemberMove, ReadOwner, SettleSpawn, AbandonSpawn,
       Keep, CallStep, WriteRow, DeleteRow, DeleteIfStillEmpty, ChannelDelete, UntrackDeleted
  <2>2. run' = run \/ \E q : run' = [run EXCEPT ![h] = q]
    BY Zenon, <1>4 DEF Handle, DropStale, VoiceUpdate, ChannelDeleteEvent, SpawnStep, HubJoin,
       Create, Commit, MoveCheck, GuildMemberMove, ReadOwner, SettleSpawn, AbandonSpawn,
       Keep, CallStep, WriteRow, DeleteRow, DeleteIfStillEmpty, ChannelDelete,
       UntrackDeleted, Goes
  <2>3. run'[Sweep] = run[Sweep]
    BY <2>0, <2>2 DEF TypeOK, Goroutines
  <2> QED
    BY <1>2, <2>0, <2>1, <2>3
<1>5. CASE SweepStep
  <2>1. FALSE
    BY <1>5 DEF SweepStep, SweepStart, ListSpawnedChannels, Rebuild, FinishSweep, NextCall,
       CallStep, WriteRow, DeleteRow, DeleteIfStillEmpty, ChannelDelete, UntrackDeleted,
       At, Steady
  <2> QED
    BY <2>1
<1>6. CASE PanelStep
  BY ZenonT(30), <1>2, <1>6, ConstantsAssumption DEF Goroutines, PanelStep, NextCall, CallStep,
     WriteRow, DeleteRow, DeleteIfStillEmpty, ChannelDelete, UntrackDeleted, Goes, TypeOK
<1>7. CASE \E lad \in Ladders : ApplyRankRoles(lad)
  BY <1>2, <1>7, ConstantsAssumption DEF Goroutines, ApplyRankRoles, TypeOK
<1>8. CASE UNCHANGED vars
  BY <1>8 DEF vars, Steady
<1> QED
  BY <1>3, <1>4, <1>5, <1>6, <1>7, <1>8 DEF Next, Rest

LEMMA ListsWorkNext == TypeOK /\ ListsWork /\ [Next]_vars => ListsWork'
<1>1. TypeOK /\ allowed["storeFault"] = 0 /\ [Next]_vars => allowed'["storeFault"] = 0
  BY SMTT(60), AllowedFalls DEF Kinds, TypeOK
<1> QED
  BY <1>1, SteadyNext DEF ListsWork

----------------------------------------------------------------------------
(* The record's view of who is inside survives every step.                 *)

LEMMA ElectInside ==
  ASSUME NEW S, NEW lad
  PROVE  Elect(S, lad) \in S \cup {NoOne}
  BY DEF Elect

LEMMA ReconciledInside ==
  ASSUME NEW c, NEW occ, NEW own, present
  PROVE  occ[c] = {} \/ Reconciled(c, occ, own) \in occ[c] \cup {NoOne}
  BY ElectInside DEF Confirmed, Reconciled

LEMMA ViewFrame ==
  ASSUME Viewed, present' => present, RebuildDue => RebuildDue',
         UNCHANGED <<loc, userChannel>>, events \subseteq events', tracked' \subseteq tracked,
         \A c \in tracked' : occupants'[c] = occupants[c] /\ owners'[c] = owners[c]
  PROVE  Viewed'
  BY DEF Viewed, View, Based, Occupied, Owned

LEMMA DueKept ==
  ASSUME TypeOK, NEW g \in Goroutines, g # Sweep, run' = run \/ \E q : run' = [run EXCEPT ![g] = q],
         UNCHANGED sweeps
  PROVE  RebuildDue' <=> RebuildDue
  BY DEF TypeOK, Goroutines, RebuildDue

LEMMA VoiceUpdateViewed ==
  ASSUME TypeOK, Viewed, NEW h \in Handlers, VoiceUpdate(h)
  PROVE  Viewed'
<1>1. PICK e \in events :
        LET u   == e[1]
            new == e[2]
            old == userChannel[u]
            occ == Moved(u, old, new)
            own == [c \in Channels |-> IF c \in {old, new} \cap tracked
                                       THEN Reconciled(c, occ, owners)
                                       ELSE owners[c]]
        IN /\ ~Stale(e)
           /\ events' = events \ {e}
           /\ userChannel' = [userChannel EXCEPT ![u] = new]
           /\ IF old = new
              THEN UNCHANGED <<occupants, owners, run>>
              ELSE /\ occupants' = occ /\ owners' = own
                   /\ run' = [run EXCEPT ![h] =
                        Handover(old, own) \o Handover(new, own)
                        \o (IF old \in tracked /\ occ[old] = {}
                            THEN <<Do("deleteIfStillEmpty", old, u, 0)>>
                            ELSE <<>>)
                        \o (IF new = Hub THEN <<Do("handleHubJoin", 0, u, 0)>>
                            ELSE <<>>)]
  BY DEF VoiceUpdate
<1> DEFINE u == e[1]
           new == e[2]
           old == userChannel[u]
<1>2. u \in Users /\ new \in Spawnable /\ e = <<u, new>>
  BY DEF TypeOK
<1>3. UNCHANGED <<loc, present, tracked, sweeps>>
  BY DEF VoiceUpdate
<1>4. run' = run \/ \E q : run' = [run EXCEPT ![h] = q]
  BY <1>1
<1>5. RebuildDue' <=> RebuildDue
  BY <1>3, <1>4, DueKept, ConstantsAssumption DEF Goroutines
<1>6. ASSUME present, View PROVE View'
  <2>1. loc[u] = new
    BY Zenon, <1>1, <1>6 DEF Stale
  <2>2. userChannel' = [userChannel EXCEPT ![u] = new] /\ events' = events \ {e}
    BY <1>1
  <2>3. Based'
    BY <1>2, <1>3, <1>6, <2>1, <2>2 DEF Based, View, TypeOK
  <2>4. CASE old = new
    BY <1>1, <1>2, <1>3, <1>6, <2>2, <2>3, <2>4 DEF TypeOK, View, Occupied, Owned
  <2>5. CASE old # new
    <3>1. /\ occupants' = Moved(u, old, new)
          /\ owners' = [c \in Channels |-> IF c \in {old, new} \cap tracked
                                           THEN Reconciled(c, occupants', owners)
                                           ELSE owners[c]]
      BY <1>1, <2>5
    <3>2. tracked \subseteq Channels
      BY DEF TypeOK
    <3>3. Occupied'
      BY <1>2, <1>3, <1>6, <2>2, <2>5, <3>1, <3>2 DEF View, Occupied, Moved, TypeOK
    <3>4. ASSUME NEW c \in tracked
          PROVE  occupants'[c] = {} \/ owners'[c] \in occupants'[c] \cup {NoOne}
      BY <1>6, <3>1, <3>2, <3>4, ReconciledInside DEF Moved, View, Owned
    <3> QED
      BY ZenonT(30), <1>3, <2>3, <3>3, <3>4 DEF View, Owned
  <2> QED
    BY Zenon, <2>4, <2>5
<1> QED
  BY <1>3, <1>5, <1>6 DEF Viewed

LEMMA HandleViewed ==
  ASSUME TypeOK, Viewed, NEW h \in Handlers, Handle(h)
  PROVE  Viewed'
<1>0. h \in Goroutines /\ h # Sweep
  BY ConstantsAssumption DEF Goroutines
<1>1. CASE DropStale(h)
  BY <1>1 DEF DropStale, Stale, Viewed, View, Based, Occupied, Owned, record, RebuildDue
<1>2. CASE VoiceUpdate(h)
  BY <1>2, VoiceUpdateViewed
<1>3. CASE ChannelDeleteEvent(h)
  BY <1>0, <1>3, DueKept, ViewFrame DEF ChannelDeleteEvent, Untrack, TypeOK
<1> QED
  BY <1>1, <1>2, <1>3 DEF Handle

(* A call leaves the view alone, whichever goroutine makes it.             *)
LEMMA CallStepViewed ==
  ASSUME TypeOK, NoSpawns, Viewed, NEW g \in Goroutines, CallStep(g)
  PROVE  Viewed'
<1>1. /\ UNCHANGED <<loc, present, sweeps, events, userChannel>>
      /\ UNCHANGED <<tracked, occupants, owners>> \/ \E c : Untrack(c)
  BY DEF CallStep, WriteRow, DeleteRow, DeleteIfStillEmpty, ChannelDelete, UntrackDeleted,
     discord, record
<1>2. /\ tracked' \subseteq tracked
      /\ \A d \in tracked' : occupants'[d] = occupants[d] /\ owners'[d] = owners[d]
  BY <1>1 DEF Untrack, TypeOK
<1>3. \E q : run' = [run EXCEPT ![g] = q]
  BY DEF CallStep, WriteRow, DeleteRow, DeleteIfStillEmpty, ChannelDelete, UntrackDeleted, Goes
<1>4. RebuildDue => RebuildDue'
  BY <1>1, <1>3, DueKept DEF CallStep, WriteRow, DeleteRow, DeleteIfStillEmpty,
     ChannelDelete, UntrackDeleted, At, RebuildDue
<1> QED
  BY <1>1, <1>2, <1>4, ViewFrame

LEMMA SpawnStepViewed ==
  ASSUME TypeOK, NoSpawns, Viewed, NEW h \in Handlers, SpawnStep(h)
  PROVE  Viewed'
<1>0. h \in Goroutines /\ h # Sweep
  BY ConstantsAssumption DEF Goroutines
<1>1. UNCHANGED <<loc, present, events, sweeps, userChannel, tracked, occupants, owners>>
  BY SpawnStepCalm
<1>2. \E q : run' = [run EXCEPT ![h] = q]
  BY SpawnStepCalm DEF HubJoin, Create, Goes
<1>3. RebuildDue' <=> RebuildDue
  BY <1>0, <1>1, <1>2, DueKept
<1> QED
  BY <1>1, <1>3, ViewFrame

LEMMA NextCallViewed ==
  ASSUME TypeOK, Viewed, NEW g \in Goroutines, NextCall(g)
  PROVE  Viewed'
  BY DueKept, ViewFrame DEF NextCall, discord, record, RebuildDue

(* The rebuild makes the view afresh.                                      *)
LEMMA RebuildViewed ==
  ASSUME TypeOK, NoSpawns, Rebuild
  PROVE  Viewed'
<1>1. present' = present /\ loc' = loc /\ events' = events
  BY DEF Rebuild, discord
<1>2. CASE ~present
  BY <1>1, <1>2 DEF Viewed
<1>3. CASE present
  <2>1. /\ userChannel' = [u \in Users |-> IF loc[u] = Hub THEN Out ELSE loc[u]]
        /\ tracked' = Kept \cup Restored
        /\ occupants' = SweptOccupants /\ owners' = SweptOwners
    BY <1>3 DEF Rebuild
  <2>2. Kept = {} /\ Restored \subseteq Channels
    BY SweptType DEF Kept, NoSpawns
  <2>3. Based'
    BY <1>1, <2>1 DEF Based
  <2>4. \A c \in Restored : occupants'[c] = Inside(c)
    BY <2>1, <2>2 DEF SweptOccupants
  <2>5. Occupied'
    <3>1. ASSUME NEW c \in Restored, NEW u \in Users
          PROVE  u \in occupants'[c] <=> userChannel'[u] = c
      BY <2>1, <2>2, <2>4, ConstantsAssumption DEF Inside
    <3>2. tracked' = Restored
      BY <2>1, <2>2
    <3> QED
      BY <3>1, <3>2 DEF Occupied
  <2>6. ASSUME NEW c \in Restored
        PROVE  occupants'[c] = {} \/ owners'[c] \in occupants'[c] \cup {NoOne}
    BY <1>3, <2>1, <2>2, ReconciledInside DEF SweptOwners
  <2>7. Owned'
    BY <2>1, <2>2, <2>6 DEF Owned
  <2> QED
    BY <2>3, <2>5, <2>7 DEF View, Viewed
<1> QED
  BY <1>2, <1>3

LEMMA SweepStepViewed ==
  ASSUME TypeOK, LivesInv, SweepStep
  PROVE  Viewed'
<1>0. Sweep \in Goroutines
  BY DEF Goroutines
<1>1. CASE SweepStart
  BY <1>0, <1>1 DEF SweepStart, TypeOK, Do, Viewed, RebuildDue
<1>2. CASE ListSpawnedChannels
  <2>1. ~Spend("storeFault")
    BY <1>2 DEF ListSpawnedChannels, LivesInv, ListsWork, Steady, At, Spend
  <2>2. run'[Sweep] = <<Do("rebuild", 0, NoOne, 0)>> \o Tail(run[Sweep])
    BY <1>0, <1>2, <2>1 DEF ListSpawnedChannels, TypeOK, Goes
  <2>3. Tail(run[Sweep]) \in Seq(Item)
    BY <1>0, <1>2, HeadItem DEF ListSpawnedChannels
  <2>4. <<Do("rebuild", 0, NoOne, 0)>> \in Seq(Item) /\ Do("rebuild", 0, NoOne, 0) \in Item
    BY DoSweepItem, Singleton
  <2>5. /\ Len(run'[Sweep]) >= 1 /\ run'[Sweep][1] = Do("rebuild", 0, NoOne, 0)
        /\ run'[Sweep] \in Seq(Item)
    BY <2>2, <2>3, <2>4, ConcatProperties, LenProperties
  <2>6. run'[Sweep] # <<>> /\ Head(run'[Sweep]).op = "rebuild"
    BY <2>5, HeadTailProperties, EmptySeq DEF Do
  <2> QED
    BY <2>6 DEF Viewed, RebuildDue
<1>3. CASE Rebuild
  BY <1>3, RebuildViewed DEF LivesInv
<1>4. CASE FinishSweep
  BY <1>4, ViewFrame DEF FinishSweep, EndSweep, discord, LivesInv, RebuildDue
<1>5. CASE NextCall(Sweep)
  BY <1>0, <1>5, NextCallViewed DEF LivesInv
<1>6. CASE CallStep(Sweep)
  BY <1>0, <1>6, CallStepViewed DEF LivesInv
<1> QED
  BY <1>1, <1>2, <1>3, <1>4, <1>5, <1>6 DEF SweepStep

LEMMA EnvironmentViewed ==
  ASSUME TypeOK, Viewed, Environment
  PROVE  Viewed'
<1>1. CASE \E u \in Users, p \in Spawnable : Move(u, p)
  BY <1>1 DEF Move, TypeOK, record, Based, Viewed, View, Occupied, Owned, RebuildDue
<1>2. CASE \E c \in Channels : HandDelete(c)
  BY <1>2, ViewFrame DEF HandDelete, record, RebuildDue
<1>3. CASE \E c \in Channels : DeleteReachesCache(c)
  BY <1>3 DEF DeleteReachesCache, Inside, Viewed, View, Based, Occupied, Owned, record,
     RebuildDue
<1>4. CASE Outage \/ Restart
  BY <1>4 DEF Outage, Restart, Viewed
<1>5. CASE GuildCreate
  BY <1>5 DEF GuildCreate, Viewed, RebuildDue, TypeOK
<1> QED
  BY <1>1, <1>2, <1>3, <1>4, <1>5 DEF Environment

LEMMA ApplyRankRolesViewed ==
  ASSUME TypeOK, Viewed, NEW lad \in Ladders, ApplyRankRoles(lad)
  PROVE  Viewed'
  BY ElectInside DEF ApplyRankRoles, discord, TypeOK, Confirmed, Ranked, Owned, Viewed,
     View, Based, Occupied, RebuildDue

LEMMA LivesNext == TypeOK /\ LivesInv /\ [Next]_vars => LivesInv'
<1> SUFFICES ASSUME TypeOK, LivesInv, [Next]_vars PROVE LivesInv'
  OBVIOUS
<1>0. Handlers \subseteq Goroutines /\ Panel \in Goroutines /\ NoSpawns /\ Viewed
  BY DEF Goroutines, LivesInv
<1>1. Viewed'
  <2>1. CASE Environment
    BY <1>0, <2>1, EnvironmentViewed
  <2>2. CASE \E h \in Handlers : Handle(h) \/ SpawnStep(h) \/ CallStep(h)
    BY <1>0, <2>2, HandleViewed, SpawnStepViewed, CallStepViewed
  <2>3. CASE SweepStep
    BY <2>3, SweepStepViewed
  <2>4. CASE PanelStep
    BY <1>0, <2>4, NextCallViewed, CallStepViewed DEF PanelStep
  <2>5. CASE \E lad \in Ladders : ApplyRankRoles(lad)
    BY <1>0, <2>5, ApplyRankRolesViewed
  <2>6. CASE UNCHANGED vars
    BY <1>0, <2>6, ViewFrame DEF vars, discord, record, RebuildDue
  <2> QED
    BY <2>1, <2>2, <2>3, <2>4, <2>5, <2>6 DEF Next, Rest
<1> QED
  BY <1>0, <1>1, CalmNext, ListsWorkNext DEF LivesInv

----------------------------------------------------------------------------
(* A channel spawned some time ago, members inside, no room for another.   *)
LEMMA EstablishedStart ==
  ASSUME 1 \in Channels, EstablishedInit,
         \A f \in Allowances : \/ f["storeFault"] = 0
                               \/ f["outage"] = 0 /\ f["restart"] = 0
  PROVE  TypeOK /\ LivesInv
<1>1. PICK S \in (SUBSET Users) \ {{}}, o \in Users \cup {NoOne} :
        /\ ladder \in Ladders
        /\ IF o = NoOne THEN \A u \in S : ladder[u] >= NoRank
           ELSE o \in S /\ ladder[o] < NoRank
        /\ live = {1} /\ created = Channels /\ cached = {1}
        /\ loc = [u \in Users |-> IF u \in S THEN 1 ELSE Out] /\ present = TRUE
        /\ events = {} /\ chDeletes = {} /\ sweeps = 0
        /\ userChannel = loc
        /\ tracked = {1} /\ occupants = [c \in Channels |-> IF c = 1 THEN S ELSE {}]
        /\ owners = [c \in Channels |-> IF c = 1 THEN o ELSE NoOne]
        /\ channelIndex = [c \in Channels |-> IF c = 1 THEN 1 ELSE 0]
        /\ pending = {} /\ inFlight = {} /\ settled = {} /\ sweepActive = FALSE
        /\ rows = [c \in Channels |->
                     IF c = 1 THEN [owner |-> o, number |-> 1] ELSE NoRow]
        /\ run = [g \in Goroutines |-> <<>>] /\ todo = [g \in Goroutines |-> {}]
        /\ listed = [c \in Channels |-> NoRow]
        /\ allowed \in Allowances
  BY DEF EstablishedInit
<1>2. Out # 1 /\ Hub # 1 /\ Out \in Spawnable /\ 1 \in Spawnable
  BY ConstantsAssumption DEF Spawnable
<1>3. TypeOK
  <2>1. <<>> \in Seq(Item)
    OBVIOUS
  <2>2. [owner |-> o, number |-> 1] \in Row
    BY DEF Row
  <2>3. run \in [Goroutines -> Seq(Item)] /\ todo \in [Goroutines -> SUBSET Item]
    BY <1>1, <2>1
  <2>4. loc \in [Users -> Spawnable] /\ rows \in [Channels -> Row \cup {NoRow}]
    BY <1>1, <1>2, <2>2
  <2> QED
    BY <1>1, <2>3, <2>4, ConstantsAssumption DEF TypeOK
<1>4. NoSpawns
  BY <1>1, CalmNone DEF NoSpawns
<1>5. View
  BY <1>1, <1>2 DEF View, Based, Occupied, Owned
<1>6. ListsWork
  BY <1>1 DEF Goroutines, ListsWork, Steady
<1> QED
  BY <1>3, <1>4, <1>5, <1>6 DEF LivesInv, Viewed

(* What the record says of a channel after its spawn - who is inside, who  *)
(* owns it - follows every member, rank save, delete, outage and restart,  *)
(* as long as a sweep that is due can list the rows (HandleVoiceStateUpdate*)
(* and handleGuildCreate).                                                 *)
THEOREM ViewFollows ==
  ASSUME 1 \in Channels,
         \A f \in Allowances : \/ f["storeFault"] = 0
                               \/ f["outage"] = 0 /\ f["restart"] = 0
  PROVE  EstablishedSpec => [](ViewCurrent /\ OwnerInside)
<1>1. EstablishedInit => TypeOK /\ LivesInv
  BY EstablishedStart
<1>2. TypeOK /\ LivesInv /\ [Next]_vars => (TypeOK /\ LivesInv)'
  BY NextType, LivesNext
<1>3. ASSUME TypeOK, LivesInv PROVE ViewCurrent /\ OwnerInside
  <2>1. ASSUME Quiet PROVE /\ View /\ events = {}
                           /\ \A c \in tracked : occupants[c] = Inside(c)
    <3>1. present /\ ~RebuildDue /\ events = {}
      BY <2>1 DEF Quiet, RebuildDue, Idle, Goroutines
    <3>2. View
      BY <1>3, <3>1 DEF LivesInv, Viewed
    <3>3. ASSUME NEW c \in tracked, NEW u \in Users PROVE u \in occupants[c] <=> loc[u] = c
      BY <1>3, <3>1, <3>2, ConstantsAssumption DEF TypeOK, View, Based, Occupied
    <3>4. \A c \in tracked : occupants[c] \subseteq Users
      BY <1>3 DEF TypeOK
    <3> QED
      BY <3>1, <3>2, <3>3, <3>4 DEF Inside
  <2> QED
    BY <2>1 DEF ViewCurrent, DiffBaseCurrent, OccupantsCurrent, OwnerInside, View, Based, Owned
<1> QED
  BY <1>1, <1>2, <1>3, PTL DEF EstablishedSpec

(* One step leaves a present Cav owner the channel, while no sweep reads   *)
(* owners back from rows.                                                  *)
LEMMA PresentOwnerStep ==
  ASSUME TypeOK, NoSpawns, Steady, [Next]_vars, NEW c \in tracked \cap tracked',
         owners[c] \in occupants[c] \cap occupants'[c], ladder'[owners[c]] < NoRank
  PROVE  owners'[c] = owners[c]
<1>0. c \in Channels
  BY DEF TypeOK
<1>1. CASE Environment
  BY Zenon, <1>1 DEF Restart, Spend, Steady, Environment, Move, HandDelete, DeleteReachesCache,
     Outage, GuildCreate, record
<1>2. ASSUME NEW h \in Handlers, Handle(h) PROVE owners'[c] = owners[c]
  <2>1. CASE DropStale(h)
    BY <2>1 DEF DropStale, record
  <2>2. CASE VoiceUpdate(h)
    BY Zenon, <1>0, <2>2 DEF VoiceUpdate, Reconciled
  <2>3. CASE ChannelDeleteEvent(h)
    BY <1>0, <2>3 DEF ChannelDeleteEvent, Untrack, TypeOK
  <2> QED
    BY <1>2, <2>1, <2>2, <2>3 DEF Handle
<1>3. ASSUME NEW h \in Handlers, SpawnStep(h) PROVE owners'[c] = owners[c]
  BY <1>3, SpawnStepCalm
<1>4. ASSUME NEW g \in Goroutines, CallStep(g) PROVE owners'[c] = owners[c]
  BY <1>0, <1>4 DEF CallStep, WriteRow, DeleteRow, DeleteIfStillEmpty, ChannelDelete,
     UntrackDeleted, record, Untrack, TypeOK
<1>5. CASE SweepStep
  <2>1. FALSE
    BY <1>5 DEF SweepStep, SweepStart, ListSpawnedChannels, Rebuild, FinishSweep, NextCall,
       CallStep, WriteRow, DeleteRow, DeleteIfStillEmpty, ChannelDelete, UntrackDeleted,
       At, Steady
  <2> QED
    BY <2>1
<1>6. ASSUME NextCall(Panel) PROVE owners'[c] = owners[c]
  BY <1>6 DEF NextCall, record
<1>7. ASSUME NEW lad \in Ladders, ApplyRankRoles(lad) PROVE owners'[c] = owners[c]
  BY <1>0, <1>7 DEF ApplyRankRoles, Ranked
<1>8. CASE UNCHANGED vars
  BY <1>8 DEF vars, record
<1> QED
  BY <1>1, <1>2, <1>3, <1>4, <1>5, <1>6, <1>7, <1>8 DEF Next, Rest, PanelStep, Goroutines

(* The owner of a channel is inside it whenever all is quiet, and one who  *)
(* stays inside and stays a Cav member keeps it (temp_vc.go:1664), however *)
(* many members, handlers and rank saves there are.                        *)
THEOREM OwnersFollow ==
  ASSUME 1 \in Channels, \A f \in Allowances : f["outage"] = 0 /\ f["restart"] = 0
  PROVE  EstablishedSpec => OwnersRight
<1>1. EstablishedInit => TypeOK /\ NoSpawns /\ Steady
  BY EstablishedStart DEF EstablishedInit, Steady, Goroutines, LivesInv
<1>2. TypeOK /\ NoSpawns /\ Steady /\ [Next]_vars => (TypeOK /\ NoSpawns /\ Steady)'
  BY NextType, CalmNext, SteadyNext
<1>3. TypeOK /\ NoSpawns /\ Steady /\ [Next]_vars =>
        [\A c \in tracked \cap tracked' :
           (/\ owners[c] \in occupants[c] \cap occupants'[c] \cap Inside(c)
            /\ ladder'[owners[c]] < NoRank)
           => owners'[c] = owners[c]]_vars
  BY PresentOwnerStep
<1>4. EstablishedSpec => PresentOwnerKeeps
  BY <1>1, <1>2, <1>3, PTL DEF EstablishedSpec, PresentOwnerKeeps
<1>5. EstablishedSpec => []OwnerInside
  <2>1. EstablishedSpec => [](ViewCurrent /\ OwnerInside)
    BY ViewFollows
  <2> QED
    BY <2>1, PTL
<1> QED
  BY <1>4, <1>5 DEF OwnersRight

----------------------------------------------------------------------------
(* The record against Discord and the store, while the process lives and   *)
(* the store answers.  What the three say of a channel agrees as long as   *)
(* every section still to run says so too, so the invariant is about the   *)
(* sections left to each goroutine, those of its queue and those it has    *)
(* still to queue.                                                         *)

(* The sections of a queue, and those goroutine g has still to run.        *)
Seen(q) == {q[k] : k \in 1 .. Len(q)}
Work(g) == todo[g] \cup Seen(run[g])

(* Sections about a channel the record has, or had: those that take it for *)
(* a tracked one, and those that take it for one that is gone.             *)
PastOps == {"moveCheck", "move", "readOwner", "abandonSpawn", "settleSpawn",
            "writeRow", "deleteIfStillEmpty", "ChannelDelete", "untrack",
            "deleteRow", "keep"}
RowOps  == {"moveCheck", "move", "readOwner", "abandonSpawn", "writeRow"}
GoneOps == {"untrack", "deleteRow"}

Known(c) == \/ c \in tracked \cup inFlight
            \/ rows[c] # NoRow \/ listed[c] # NoRow
            \/ \E g \in Goroutines : \E i \in Work(g) : i.op \in PastOps /\ i.c = c

(* If channel c lives, the record has it and n is its number.              *)
Numbered(c, n) == c \in live => c \in tracked /\ n = channelIndex[c]
Fits(i) == /\ i.op \in RowOps  => Numbered(i.c, i.n)
           /\ i.op \in GoneOps => i.c \notin live
           /\ i.op = "keep"    => Numbered(i.c, channelIndex[i.c])

(* The cache shows what lives while the guild is in it, and a delete event *)
(* is about a channel that is gone.                                        *)
Cached  == /\ live \cup cached \cup tracked \cup chDeletes \subseteq created
           /\ present => live \subseteq cached
           /\ chDeletes \cap live = {}
(* Nobody knows of a channel before its commit.                            *)
Fresh   == \A h \in Handlers : Commits(h) => ~Known(Last(h).c)
Works   == \A g \in Goroutines : \A i \in Work(g) :
             i.op \in PastOps => i.c \in created /\ Fits(i)
(* A row, read or not, is about a channel the record has or one that is    *)
(* gone, and what a sweep has read of a live channel is still stored.      *)
Stored  == \A c \in Channels :
             /\ rows[c] # NoRow => c \in created /\ Numbered(c, rows[c].number)
             /\ listed[c] # NoRow => c \in created /\ Numbered(c, listed[c].number)
             /\ c \in live /\ listed[c] # NoRow => rows[c] # NoRow
(* A live channel in the record has its row, or its spawn is to write it.  *)
Rowed   == /\ inFlight \cap live \subseteq tracked
           /\ \A c \in tracked \cap live : c \in inFlight \ settled \/ rows[c] # NoRow

(* A handler about to settle its spawn has written the row, or has the     *)
(* write, or the keep that leads to it, before that.                       *)
Settling(h)  == run[h] # <<>> /\ Last(h).op = "settleSpawn"
SettlesOf(h) == Settling(h) =>
  /\ \A i \in Seen(run[h]) : i.c = Last(h).c
  /\ \/ Last(h).c \notin live \/ rows[Last(h).c] # NoRow
     \/ \E i \in Seen(run[h]) : i.op \in {"keep", "writeRow"}
Settles  == \A h \in Handlers : SettlesOf(h)

(* What a sweep has listed covers every live channel but those in flight,  *)
(* which is why it may rebuild the record from it.                         *)
Sweeping  == /\ ~sweepActive => Idle(Sweep)
             /\ (\E i \in Work(Sweep) : i.op = "rebuild") =>
                  \A c \in tracked \cap live : c \in inFlight \/ listed[c] # NoRow
Faultless == allowed["restart"] = 0 /\ allowed["storeFault"] = 0

RecordInv == /\ Faultless /\ Cached /\ Fresh /\ Works /\ Stored /\ Rowed
             /\ Settles /\ Sweeping /\ NumbersDistinct

(* Ghosts: what still takes a channel that is gone out of the record.  A   *)
(* goroutine is about to, its event is on the way, a sweep is due, Discord *)
(* has yet to tell the cache, or the spawn that made it finds nobody there *)
(* to keep it.                                                             *)
Untracks(c) == \E g \in Goroutines : At(g, "untrack") /\ Head(run[g]).c = c
SweepDue    == ~present \/ RebuildDue
Doomed(c)   == \E h \in Handlers :
                 /\ run[h] # <<>> /\ Last(h).c = c
                 /\ \/ /\ Last(h).op \in {"moveCheck", "move", "abandonSpawn"}
                       /\ occupants[c] \subseteq {Last(h).u}
                    \/ /\ Last(h).op = "settleSpawn" /\ occupants[c] = {}
                       /\ Head(run[h]).op \in {"deleteIfStillEmpty", "ChannelDelete"}
Told      == Steady /\ allowed["lostAnswer"] = 0
Leaves(c) == \/ Untracks(c)
             \/ c \in chDeletes
             \/ SweepDue /\ c \notin inFlight
             \/ (c \in cached \/ Inside(c) # {}) /\ (Steady \/ c \notin inFlight)
             \/ Told /\ Doomed(c)
Apart  == /\ Steady \/ allowed["handDelete"] = 0
          /\ allowed["lostAnswer"] = 0 \/ (Steady /\ allowed["handDelete"] = 0)
Ghosts == /\ Apart
          /\ \A c \in tracked \ live : Leaves(c)
          /\ \A h \in Handlers : Commits(h) /\ Last(h).c \notin live => Told

----------------------------------------------------------------------------
(* Sections that a goroutine has still to run, as a set                    *)

LEMMA SeenNone ==
  Seen(<<>>) = {}
  BY DEF Seen

LEMMA SeenSome ==
  ASSUME NEW a
  PROVE  Seen(<<a>>) = {a}
  BY DEF Seen

LEMMA SeenTwo ==
  ASSUME NEW a \in Item, NEW b \in Item
  PROVE  Seen(<<a, b>>) = {a, b}
  BY DEF Seen

LEMMA SeenThree ==
  ASSUME NEW a \in Item, NEW b \in Item, NEW d \in Item
  PROVE  Seen(<<a, b, d>>) = {a, b, d}
  BY DEF Seen

LEMMA SeenConcat ==
  ASSUME NEW p \in Seq(Item), NEW q \in Seq(Item)
  PROVE  Seen(p \o q) = Seen(p) \cup Seen(q)
<1>1. /\ Len(p) \in Nat /\ Len(q) \in Nat /\ Len(p \o q) = Len(p) + Len(q)
      /\ \A i \in 1 .. (Len(p) + Len(q)) :
           (p \o q)[i] = IF i <= Len(p) THEN p[i] ELSE q[i - Len(p)]
  BY ConcatProperties, LenProperties
<1>2. ASSUME NEW k \in 1 .. Len(p \o q) PROVE (p \o q)[k] \in Seen(p) \cup Seen(q)
  BY SMTT(30), <1>1, <1>2 DEF Seen
<1>3. ASSUME NEW k \in 1 .. Len(p) PROVE p[k] \in Seen(p \o q)
  BY <1>1, <1>3 DEF Seen
<1>4. ASSUME NEW k \in 1 .. Len(q) PROVE q[k] \in Seen(p \o q)
  <2>1. k + Len(p) \in 1 .. Len(p \o q) /\ (p \o q)[k + Len(p)] = q[k]
    BY <1>1, <1>4
  <2> QED
    BY <2>1 DEF Seen
<1> QED
  BY <1>2, <1>3, <1>4 DEF Seen

(* The first section and those after it.                                   *)
LEMMA SeenParts ==
  ASSUME NEW q \in Seq(Item), q # <<>>
  PROVE  /\ Seen(q) = {Head(q)} \cup Seen(Tail(q))
         /\ Tail(q) \in Seq(Item) /\ Head(q) \in Item
<1>1. /\ Len(q) \in Nat /\ Len(q) >= 1 /\ Len(Tail(q)) = Len(q) - 1 /\ Head(q) = q[1]
      /\ Tail(q) \in Seq(Item) /\ Head(q) \in Item
  BY HeadTailProperties, EmptySeq, LenProperties
<1>2. \A i \in 1 .. Len(Tail(q)) : Tail(q)[i] = q[i + 1]
  BY HeadTailProperties
<1>3. ASSUME NEW k \in 1 .. Len(q) PROVE q[k] \in {Head(q)} \cup Seen(Tail(q))
  BY <1>1, <1>2, <1>3 DEF Seen
<1>4. ASSUME NEW k \in 1 .. Len(Tail(q)) PROVE Tail(q)[k] \in Seen(q)
  BY <1>1, <1>2, <1>4 DEF Seen
<1>5. Head(q) \in Seen(q)
  BY <1>1 DEF Seen
<1> QED
  BY <1>1, <1>3, <1>4, <1>5 DEF Seen

(* The last section is one of them.                                        *)
LEMMA SeenFin ==
  ASSUME NEW q \in Seq(Item), q # <<>>
  PROVE  Fin(q) \in Seen(q) /\ Seen(q) \subseteq Item
  BY EmptySeq, LenProperties, ElementOfSeq DEF Seen, Fin

(* Only a channel that was gone from the record loses its next section.    *)
LEMMA SeenAfterDelete ==
  ASSUME NEW q \in Seq(Item)
  PROVE  /\ AfterDelete(q) \in Seq(Item) /\ Seen(AfterDelete(q)) \subseteq Seen(q)
  BY SeenParts DEF AfterDelete

(* A handler holds no commit but in its last section.                      *)
LEMMA CommitLast ==
  ASSUME TypeOK, SpawnInv, NEW h \in Handlers, NEW i \in Seen(run[h]), i.op \in EndOps
  PROVE  run[h] # <<>> /\ Last(h) = i
<1>1. h \in Goroutines /\ run[h] \in Seq(Item) /\ Plain(run[h])
  BY DEF TypeOK, SpawnInv, Goroutines
<1>2. PICK k \in 1 .. Len(run[h]) : i = run[h][k]
  BY DEF Seen
<1>3. Len(run[h]) \in Nat /\ run[h] # <<>>
  BY <1>1, <1>2, LenProperties, EmptySeq
<1>4. k = Len(run[h])
  BY <1>1, <1>2, <1>3 DEF Plain
<1> QED
  BY <1>2, <1>3, <1>4 DEF Last

(* What a goroutine that goes on has still to run.                         *)
LEMMA WorkGoes ==
  ASSUME TypeOK, NEW g \in Goroutines, run[g] # <<>>, NEW q \in Seq(Item), Goes(g, q)
  PROVE  /\ run' = [run EXCEPT ![g] = q \o Tail(run[g])]
         /\ run'[g] = q \o Tail(run[g]) /\ run'[g] \in Seq(Item)
         /\ Seen(run'[g]) = Seen(q) \cup Seen(Tail(run[g]))
         /\ Seen(run[g]) = {Head(run[g])} \cup Seen(Tail(run[g]))
         /\ Head(run[g]) \in Item /\ Tail(run[g]) \in Seq(Item)
<1>1. run[g] \in Seq(Item)
  BY DEF TypeOK
<1>2. /\ Seen(run[g]) = {Head(run[g])} \cup Seen(Tail(run[g]))
      /\ Head(run[g]) \in Item /\ Tail(run[g]) \in Seq(Item)
  BY <1>1, SeenParts
<1>3. run' = [run EXCEPT ![g] = q \o Tail(run[g])] /\ run'[g] = q \o Tail(run[g])
  BY DEF Goes, TypeOK
<1>4. Seen(q \o Tail(run[g])) = Seen(q) \cup Seen(Tail(run[g]))
  BY <1>2, SeenConcat
<1>5. q \o Tail(run[g]) \in Seq(Item)
  BY <1>2, ConcatProperties
<1> QED
  BY <1>2, <1>3, <1>4, <1>5

(* A channel that is gone stays gone, and one that lives keeps its place   *)
(* and its number in the record.                                           *)
Frame ==
  /\ created \subseteq created'
  /\ live' \ live \subseteq created' \ created
  /\ \A c \in tracked \cap live' : c \in tracked' /\ channelIndex'[c] = channelIndex[c]

(* Every step but those of a channel's beginning and end leaves alone what *)
(* the frame is about.                                                     *)
Still == UNCHANGED <<live, created, tracked, channelIndex>>

LEMMA StillFrame ==
  ASSUME Still
  PROVE  Frame
  BY DEF Still, Frame

LEMMA MostStill ==
  ASSUME [Next]_vars, Faultless
  PROVE  \/ Still
         \/ \E c \in Channels : HandDelete(c)
         \/ \E h \in Handlers : ChannelDeleteEvent(h) \/ Create(h) \/ Commit(h)
         \/ \E g \in Goroutines : ChannelDelete(g) \/ UntrackDeleted(g)
         \/ Rebuild
<1>0. Handlers \subseteq Goroutines /\ Sweep \in Goroutines /\ Panel \in Goroutines
  BY DEF Goroutines
<1>1. CASE Environment
  BY SMTT(60), <1>1 DEF Restart, Spend, Faultless, Environment, Move, DeleteReachesCache, Outage,
     GuildCreate, Still, record
<1>2. ASSUME NEW h \in Handlers, Handle(h)
      PROVE  Still \/ ChannelDeleteEvent(h)
  BY ZenonT(30), <1>2 DEF Handle, DropStale, VoiceUpdate, Still, record
<1>3. ASSUME NEW h \in Handlers, SpawnStep(h)
      PROVE  Still \/ Create(h) \/ Commit(h)
  BY <1>3 DEF SpawnStep, HubJoin, MoveCheck, GuildMemberMove, ReadOwner, SettleSpawn,
     AbandonSpawn, Keep, Still, record, discord
<1>4. ASSUME NEW g \in Goroutines, CallStep(g)
      PROVE  Still \/ ChannelDelete(g) \/ UntrackDeleted(g)
  BY <1>4 DEF CallStep, WriteRow, DeleteRow, DeleteIfStillEmpty, Still, record, discord
<1>5. ASSUME NEW g \in Goroutines, NextCall(g) PROVE Still
  BY <1>5 DEF NextCall, Still, record, discord
<1>6. CASE SweepStart \/ ListSpawnedChannels \/ FinishSweep
  BY <1>6 DEF SweepStart, ListSpawnedChannels, FinishSweep, EndSweep, Still, record, discord
<1>7. ASSUME NEW lad \in Ladders, ApplyRankRoles(lad) PROVE Still
  BY <1>7 DEF ApplyRankRoles, Still, discord
<1>8. CASE UNCHANGED vars
  BY <1>8 DEF vars, Still, record, discord
<1> QED
  BY <1>0, <1>1, <1>2, <1>3, <1>4, <1>5, <1>6, <1>7, <1>8 DEF Next, SweepStep, PanelStep, Rest

(* A section to run is one of the goroutine's works.                       *)
LEMMA HeadWork ==
  ASSUME TypeOK, NEW g \in Goroutines, NEW op, At(g, op)
  PROVE  /\ Head(run[g]) \in Work(g) /\ Head(run[g]) \in Item /\ Head(run[g]).op = op
         /\ Head(run[g]) \in Seen(run[g])
  BY HeadItem, SeenParts DEF At, Work

LEMMA KnownCreated ==
  ASSUME TypeOK, SpawnInv, RecordInv, NEW c \in Channels, Known(c)
  PROVE  c \in created
  BY DEF RecordInv, Stored, TypeOK, Cached, SpawnInv, Works, Known

(* The channel of a commit is in nobody's record yet.                      *)
LEMMA CommitFresh ==
  ASSUME TypeOK, SpawnInv, RecordInv, NEW h \in Handlers, At(h, "commit")
  PROVE  /\ Last(h) = Head(run[h]) /\ Commits(h) /\ ~Known(Last(h).c)
         /\ Last(h).c \in Channels /\ Last(h).u \in Users /\ Last(h).n \in Nat
         /\ \A q \in Seq(Item) : Goes(h, q) => run' = [run EXCEPT ![h] = q]
         /\ Last(h).c \in created
<1>0. h \in Goroutines /\ Plain(run[h]) /\ "commit" \in EndOps
  BY DEF Goroutines, SpawnInv, EndOps, ReserveOps
<1>1. /\ Last(h) = Head(run[h]) /\ Last(h).op = "commit" /\ run[h] # <<>>
      /\ \A q \in Seq(Item) : Goes(h, q) => run' = [run EXCEPT ![h] = q]
  BY <1>0, LastSection
<1>2. Head(run[h]) \in Item /\ Head(run[h]).op \in SpawnOps
  BY <1>0, <1>1, HeadWork DEF SpawnOps
<1>3. Commits(h) /\ Holds(h)
  BY <1>1 DEF Commits, Holds
<1> QED
  BY <1>1, <1>2, <1>3, SpawnOpItem DEF RecordInv, Fresh, SpawnInv

(* The rebuild keeps every channel that lives: it is in flight, or listed, *)
(* and the cache holds it.                                                 *)
LEMMA RebuildKeeps ==
  ASSUME TypeOK, SpawnInv, RecordInv, Rebuild, NEW c \in tracked \cap live
  PROVE  c \in tracked' /\ channelIndex'[c] = channelIndex[c]
  BY ZenonT(30), HeadWork DEF Rebuild, Goroutines, RecordInv, Cached, Sweeping, TypeOK, Stored,
     Numbered, Kept, Restored, Judged

LEMMA FrameStep ==
  ASSUME TypeOK, SpawnInv, RecordInv, [Next]_vars
  PROVE  Frame
<1>0. Faultless /\ Handlers \subseteq Goroutines
  BY DEF RecordInv, Goroutines
<1>1. ASSUME NEW c \in Channels, HandDelete(c) PROVE Frame
  BY <1>1 DEF HandDelete, record, Frame
<1>2. ASSUME NEW c \in Channels, c \notin live, Untrack(c), UNCHANGED <<live, created>>
      PROVE  Frame
  BY <1>2 DEF Untrack, Frame, TypeOK
<1>3. ASSUME NEW h \in Handlers, ChannelDeleteEvent(h) PROVE Frame
  BY <1>2, <1>3 DEF ChannelDeleteEvent, RecordInv, Cached, TypeOK, Frame
<1>4. ASSUME NEW h \in Handlers, Create(h) PROVE Frame
  BY <1>4 DEF Create, Frame
<1>5. ASSUME NEW h \in Handlers, Commit(h) PROVE Frame
  BY <1>5, CommitFresh DEF Commit, discord, Known, Frame, TypeOK
<1>6. ASSUME NEW g \in Goroutines, ChannelDelete(g) PROVE Frame
  BY <1>6 DEF ChannelDelete, record, Frame
<1>7. ASSUME NEW g \in Goroutines, UntrackDeleted(g) PROVE Frame
  BY <1>2, <1>7, HeadWork, ChannelOpItem DEF UntrackDeleted, RecordInv, Works, Fits,
     GoneOps, PastOps, ChannelOps, discord
<1>8. ASSUME Rebuild PROVE Frame
  BY <1>8, RebuildKeeps DEF Rebuild, discord, Frame
<1> QED
  BY <1>0, <1>1, <1>3, <1>4, <1>5, <1>6, <1>7, <1>8, MostStill, StillFrame

(* What holds of a channel Discord has created holds after a step.         *)
LEMMA NumberStays ==
  ASSUME Frame, NEW c \in created, NEW n, Numbered(c, n)
  PROVE  Numbered(c, n)' /\ c \in created' /\ (c \notin live => c \notin live')
  BY DEF Frame, Numbered

LEMMA FitsStays ==
  ASSUME Frame, NEW i, i.c \in created, Fits(i)
  PROVE  Fits(i)' /\ i.c \in created'
  BY NumberStays DEF Fits, Frame, Numbered

----------------------------------------------------------------------------
(* What a step adds to the work there is                                   *)

(* Goroutine g alone has more to do, of what S holds.                      *)
Gains(g, S) ==
  /\ \A k \in Goroutines \ {g} : run'[k] = run[k] /\ todo'[k] = todo[k]
  /\ Work(g)' \subseteq Work(g) \cup S
  /\ g \in Handlers => Seen(run'[g]) \subseteq Seen(run[g]) \cup S

LEMMA SetGains ==
  ASSUME TypeOK, NEW g \in Goroutines, NEW q, run' = [run EXCEPT ![g] = q], todo' = todo,
         NEW S, Seen(q) \subseteq Seen(run[g]) \cup S
  PROVE  Gains(g, S)
  BY DEF TypeOK, Gains, Work

LEMMA GoesGains ==
  ASSUME TypeOK, NEW g \in Goroutines, run[g] # <<>>, NEW q \in Seq(Item), Goes(g, q),
         todo' = todo
  PROVE  Gains(g, Seen(q))
<1>1. /\ run' = [run EXCEPT ![g] = q \o Tail(run[g])]
      /\ Seen(q \o Tail(run[g])) \subseteq Seen(q) \cup Seen(run[g])
  BY WorkGoes
<1> QED
  BY <1>1, SetGains

LEMMA NoGains ==
  ASSUME TypeOK, NEW g \in Goroutines, UNCHANGED <<run, todo>>
  PROVE  Gains(g, {})
  BY DEF Gains, Work

(* Handler h commits channel c.                                            *)
Committing(h, c) == Commit(h) /\ Last(h).c = c

(* A new section is about a channel known of, or being committed, and fits.*)
Newly(i) == i.op \in PastOps =>
              /\ i.c \in Channels
              /\ Known(i.c) \/ \E h \in Handlers : Committing(h, i.c)
              /\ Fits(i)'

(* What goroutine g has more to do, if anything, is new so.                *)
Gained(g) == \E S : /\ Gains(g, S)
                    /\ \A i \in S : /\ Newly(i)
                                    /\ i.op = "commit"  => i.c \in created' \ created
                                    /\ i.op = "rebuild" => ListSpawnedChannels

(* A known channel's section that names its number, or its end.            *)
LEMMA NewlyPlain ==
  ASSUME NEW i, i.op \notin RowOps, i.op \notin GoneOps, i.op # "keep", i.c \in Channels, Known(i.c)
  PROVE  Newly(i)
  BY DEF Newly, Fits

LEMMA NewlyRow ==
  ASSUME Frame, NEW i, i.op \in RowOps, i.c \in Channels, Known(i.c), i.c \in created,
         Numbered(i.c, i.n)
  PROVE  Newly(i)
  BY NumberStays DEF RowOps, GoneOps, Newly, Fits

LEMMA NewlyGone ==
  ASSUME Frame, NEW i, i.op \in GoneOps, i.c \in Channels, Known(i.c), i.c \notin live'
  PROVE  Newly(i)
  BY DEF RowOps, GoneOps, Newly, Fits

LEMMA NewlyKeep ==
  ASSUME Frame, NEW i, i.op = "keep", i.c \in Channels, Known(i.c), i.c \in created,
         i.c \in live => i.c \in tracked
  PROVE  Newly(i)
  BY DEF RowOps, GoneOps, Numbered, Frame, Newly, Fits

LEMMA NewlyOther ==
  ASSUME NEW i, i.op \notin PastOps
  PROVE  Newly(i)
  BY DEF Newly

(* The section that runs: its channel is known, and it fits.               *)
LEMMA RunsKnown ==
  ASSUME TypeOK, SpawnInv, RecordInv, NEW g \in Goroutines, NEW op \in PastOps, At(g, op)
  PROVE  LET i == Head(run[g]) IN
         /\ i.c \in Channels /\ Known(i.c) /\ i.c \in created /\ Fits(i)
         /\ i.op = op /\ i.n \in Nat /\ i.u \in Users \cup {NoOne}
         /\ i \in Item /\ i \in Seen(run[g])
<1> DEFINE i == Head(run[g])
<1>1. i \in Work(g) /\ i \in Item /\ i.op = op /\ i \in Seen(run[g])
  BY HeadWork
<1>2. i.op \in ChannelOps \/ i.op \in SpawnOps
  BY <1>1 DEF PastOps, ChannelOps, SpawnOps
<1>3. i.c \in Channels /\ i.n \in Nat /\ i.u \in Users \cup {NoOne}
  BY <1>1, <1>2, ChannelOpItem, SpawnOpItem
<1>4. Known(i.c)
  BY <1>1 DEF Known
<1>5. Fits(i) /\ i.c \in created
  BY <1>1 DEF RecordInv, Works
<1> QED
  BY <1>1, <1>3, <1>4, <1>5

LEMMA TrackedKnown ==
  ASSUME TypeOK, SpawnInv, RecordInv, NEW c \in tracked
  PROVE  c \in Channels /\ c \in created /\ Known(c) /\ Numbered(c, channelIndex[c])
  BY DEF Known, RecordInv, Cached, Numbered, TypeOK

LEMMA DoParts ==
  ASSUME NEW op, NEW c, NEW u, NEW n
  PROVE  /\ Do(op, c, u, n).op = op /\ Do(op, c, u, n).c = c
         /\ Do(op, c, u, n).u = u /\ Do(op, c, u, n).n = n
  BY DEF Do

LEMMA DoNobody ==
  ASSUME NEW op \in ChannelOps, NEW c \in Channels, NEW x, x = Do(op, c, NoOne, 0)
  PROVE  x \in Item /\ x.op = op /\ x.c = c
  BY DoChannelItem, DoParts

LEMMA DoChannel ==
  ASSUME NEW op \in ChannelOps, NEW c \in Channels, NEW u \in Users \cup {NoOne},
         NEW n \in Nat, NEW x, x = Do(op, c, u, n)
  PROVE  x \in Item /\ x.op = op /\ x.c = c /\ x.u = u /\ x.n = n
  BY DoChannelItem, DoParts

(* The calls.                                                              *)
LEMMA CallWork ==
  ASSUME TypeOK, SpawnInv, RecordInv, Frame, NEW g \in Goroutines, CallStep(g)
  PROVE  Gained(g)
<1>0. <<>> \in Seq(Item) /\ Seen(<<>>) = {}
  BY SeenNone
<1>1. CASE WriteRow(g)
  BY <1>0, <1>1, GoesGains DEF WriteRow, At, Gained
<1>2. CASE DeleteRow(g)
  BY <1>0, <1>2, GoesGains DEF DeleteRow, At, Gained
<1>3. CASE DeleteIfStillEmpty(g)
  <2>0. PICK c : c = Head(run[g]).c
    OBVIOUS
  <2> DEFINE x == Do("ChannelDelete", c, NoOne, 0)
             rest == Tail(run[g])
  <2>1. At(g, "deleteIfStillEmpty") /\ todo' = todo /\ run[g] # <<>> /\ run[g] \in Seq(Item)
    BY <1>3 DEF DeleteIfStillEmpty, TypeOK, At
  <2>2. c \in Channels /\ Known(c)
    BY <2>0, <2>1, RunsKnown DEF PastOps
  <2>3. x \in Item /\ Newly(x) /\ x.op \notin {"commit", "rebuild"}
    BY <2>2, LaterItems, DoParts, NewlyPlain DEF RowOps, GoneOps
  <2>4. rest \in Seq(Item) /\ Seen(rest) \subseteq Seen(run[g])
    BY <2>1, SeenParts
  <2>5. AfterDelete(rest) \in Seq(Item) /\ Seen(AfterDelete(rest)) \subseteq Seen(run[g])
    BY <2>4, SeenAfterDelete
  <2>6. Seen(<<x>> \o rest) \subseteq Seen(run[g]) \cup {x}
    <3>1. <<x>> \in Seq(Item)
      BY <2>3
    <3>2. Seen(<<x>> \o rest) = Seen(<<x>>) \cup Seen(rest)
      BY <2>4, <3>1, SeenConcat
    <3> QED
      BY <2>4, <3>2, SeenSome
  <2>7. PICK q : run' = [run EXCEPT ![g] = q] /\ q \in {AfterDelete(rest), <<x>> \o rest, rest}
    BY <1>3, <2>0 DEF DeleteIfStillEmpty
  <2>8. Seen(q) \subseteq Seen(run[g]) \cup {x}
    BY <2>4, <2>5, <2>6, <2>7
  <2>9. Gains(g, {x})
    BY <2>1, <2>7, <2>8, SetGains
  <2> QED
    BY <2>3, <2>9 DEF Gained
<1>4. CASE ChannelDelete(g)
  <2>0. PICK c : c = Head(run[g]).c
    OBVIOUS
  <2> DEFINE x == Do("untrack", c, NoOne, 0)
  <2>1. At(g, "ChannelDelete") /\ todo' = todo /\ run[g] # <<>>
    BY <1>4 DEF ChannelDelete, At
  <2>2. c \in Channels /\ Known(c)
    BY <2>0, <2>1, RunsKnown DEF PastOps
  <2>3. x \in Item /\ x.op = "untrack" /\ x.c = c /\ <<x>> \in Seq(Item) /\ Seen(<<x>>) = {x}
    BY <2>2, LaterItems, DoParts, SeenSome
  <2>4. \/ Goes(g, <<x>>) /\ c \notin live'
        \/ Goes(g, <<>>)
    BY <1>4, <2>0 DEF ChannelDelete
  <2>5. CASE Goes(g, <<x>>) /\ c \notin live'
    <3>1. Gains(g, {x})
      BY <2>1, <2>3, <2>5, GoesGains
    <3>2. Newly(x)
      BY <2>2, <2>3, <2>5, NewlyGone DEF GoneOps
    <3> QED
      BY <2>3, <3>1, <3>2 DEF Gained
  <2>6. CASE Goes(g, <<>>)
    BY <1>0, <2>1, <2>6, GoesGains DEF Gained
  <2> QED
    BY <2>4, <2>5, <2>6
<1>5. CASE UntrackDeleted(g)
  <2>0. PICK c : c = Head(run[g]).c
    OBVIOUS
  <2> DEFINE x == Do("deleteRow", c, NoOne, 0)
             rest == AfterDelete(Tail(run[g]))
  <2>1. At(g, "untrack") /\ todo' = todo /\ run[g] # <<>> /\ run[g] \in Seq(Item) /\ live' = live
    BY <1>5 DEF UntrackDeleted, TypeOK, At, discord
  <2>2. c \in Channels /\ Known(c) /\ c \notin live
    BY <2>0, <2>1, RunsKnown DEF PastOps, Fits, GoneOps
  <2>3. x \in Item /\ x.op = "deleteRow" /\ x.c = c /\ <<x>> \in Seq(Item) /\ Seen(<<x>>) = {x}
    BY <2>2, LaterItems, DoParts, SeenSome
  <2>4. rest \in Seq(Item) /\ Seen(rest) \subseteq Seen(run[g])
    BY ZenonT(60), <2>1, SeenParts, SeenAfterDelete
  <2>5. run' = [run EXCEPT ![g] = <<x>> \o rest]
    BY <1>5, <2>0 DEF UntrackDeleted, TypeOK
  <2>6. Seen(<<x>> \o rest) = {x} \cup Seen(rest)
    BY <2>3, <2>4, SeenConcat
  <2>7. Gains(g, {x})
    BY <2>1, <2>4, <2>5, <2>6, SetGains
  <2>8. Newly(x)
    BY <2>1, <2>2, <2>3, NewlyGone DEF GoneOps
  <2> QED
    BY <2>3, <2>7, <2>8 DEF Gained
<1> QED
  BY <1>1, <1>2, <1>3, <1>4, <1>5 DEF CallStep

LEMMA GoesNone ==
  ASSUME TypeOK, NEW g \in Goroutines, run[g] # <<>>, Goes(g, <<>>), todo' = todo
  PROVE  Gained(g)
<1>1. <<>> \in Seq(Item) /\ Seen(<<>>) = {}
  BY SeenNone
<1>2. Gains(g, {})
  BY <1>1, GoesGains
<1> QED
  BY <1>2 DEF Gained

LEMMA GoesOne ==
  ASSUME TypeOK, NEW g \in Goroutines, run[g] # <<>>, NEW x \in Item, Goes(g, <<x>>),
         todo' = todo, Newly(x), x.op = "commit" => x.c \in created' \ created,
         x.op = "rebuild" => ListSpawnedChannels
  PROVE  Gained(g)
<1>1. <<x>> \in Seq(Item) /\ Seen(<<x>>) = {x}
  BY SeenSome
<1>2. Gains(g, {x})
  BY <1>1, GoesGains
<1> QED
  BY <1>2 DEF Gained

(* The steps of a spawn.                                                   *)
LEMMA HubJoinWork ==
  ASSUME TypeOK, NEW h \in Handlers, HubJoin(h)
  PROVE  Gained(h)
<1>a. PICK u : u = Head(run[h]).u
  OBVIOUS
<1>0. h \in Goroutines /\ At(h, "handleHubJoin") /\ todo' = todo
  BY DEF HubJoin, Goroutines
<1>1. run[h] # <<>> /\ u \in Users
  BY <1>a, <1>0, HeadItem, JoinOpItem
<1>2. CASE Goes(h, <<>>)
  BY <1>0, <1>1, <1>2, GoesNone
<1>3. ASSUME NEW n \in Numbers, Goes(h, <<Do("create", 0, u, n)>>) PROVE Gained(h)
  <2>1. n \in Nat
    BY ConstantsAssumption, FS_CardinalityType DEF Numbers
  <2>2. Do("create", 0, u, n) \in Item /\ Do("create", 0, u, n).op = "create"
    BY <1>1, <2>1, DoJoinItem
  <2>3. Newly(Do("create", 0, u, n))
    BY <2>2, NewlyOther DEF PastOps
  <2> QED
    BY <1>0, <1>1, <1>3, <2>2, <2>3, GoesOne
<1> QED
  BY <1>a, <1>2, <1>3 DEF HubJoin

LEMMA CreateWork ==
  ASSUME TypeOK, NEW h \in Handlers, Create(h)
  PROVE  Gained(h)
<1>a. PICK i : i = Head(run[h])
  OBVIOUS
<1>0. h \in Goroutines /\ At(h, "create") /\ todo' = todo
  BY DEF Create, Goroutines
<1>1. run[h] # <<>> /\ i.u \in Users /\ i.n \in Nat
  BY <1>a, <1>0, HeadItem, JoinOpItem
<1>2. CASE Goes(h, <<>>)
  BY <1>0, <1>1, <1>2, GoesNone
<1>3. ASSUME NEW c \in Channels \ created, created' = created \cup {c},
             Goes(h, <<Do("commit", c, i.u, i.n)>>)
      PROVE  Gained(h)
  BY <1>0, <1>1, <1>3, DoSpawnItem, DoParts, NewlyOther, GoesOne DEF SpawnOps, PastOps
<1> QED
  BY <1>a, <1>2, <1>3 DEF Create

LEMMA CommitWork ==
  ASSUME TypeOK, SpawnInv, RecordInv, Frame, NEW h \in Handlers, Commit(h)
  PROVE  Gained(h)
<1>a. PICK i : i = Head(run[h])
  OBVIOUS
<1> DEFINE x == Do("moveCheck", i.c, i.u, i.n)
<1>0. h \in Goroutines /\ At(h, "commit") /\ todo' = todo
  BY DEF Commit, Goroutines
<1>1. /\ run[h] # <<>> /\ i.c \in Channels /\ i.u \in Users /\ i.n \in Nat
      /\ Last(h).c = i.c
  BY <1>a, <1>0, CommitFresh DEF Commits
<1>2. x \in Item /\ x.op = "moveCheck" /\ x.c = i.c /\ x.n = i.n
  BY SMTT(30), <1>1, DoSpawnItem, DoParts DEF SpawnOps
<1>3. Goes(h, <<x>>) /\ i.c \in tracked' /\ channelIndex'[i.c] = i.n
  BY <1>a, <1>1 DEF Commit, TypeOK
<1>4. Committing(h, i.c)
  BY <1>1 DEF Committing
<1>5. Fits(x)'
  BY <1>2, <1>3 DEF GoneOps, Numbered, Fits
<1>6. Newly(x)
  BY <1>1, <1>2, <1>4, <1>5 DEF Newly
<1> QED
  BY <1>0, <1>1, <1>2, <1>3, <1>6, GoesOne

(* A spawn's next section names the number of the one before.              *)
LEMMA SpawnGoesOn ==
  ASSUME TypeOK, SpawnInv, RecordInv, Frame, NEW h \in Handlers,
         NEW op \in {"moveCheck", "move"}, At(h, op), todo' = todo,
         NEW next \in {"move", "abandonSpawn", "readOwner"},
         LET i == Head(run[h]) IN Goes(h, <<Do(next, i.c, i.u, i.n)>>)
  PROVE  Gained(h)
<1>a. PICK i : i = Head(run[h])
  OBVIOUS
<1> DEFINE x == Do(next, i.c, i.u, i.n)
<1>0. h \in Goroutines /\ run[h] # <<>> /\ op \in PastOps /\ op \in RowOps
  BY DEF Goroutines, At, PastOps, RowOps
<1>1. /\ i.c \in Channels /\ Known(i.c) /\ i.c \in created /\ Fits(i) /\ i.op = op
      /\ i \in Item /\ i.n \in Nat
  BY <1>a, <1>0, RunsKnown
<1>2. i.u \in Users /\ next \in SpawnOps /\ next \in RowOps /\ next \notin {"commit", "rebuild"}
  BY <1>1, SpawnOpItem DEF SpawnOps, RowOps
<1>3. x \in Item /\ x.op = next /\ x.c = i.c /\ x.n = i.n
  BY <1>1, <1>2, DoSpawnItem, DoParts
<1>4. Numbered(x.c, x.n)
  BY <1>0, <1>1, <1>3 DEF Fits
<1>5. Newly(x)
  BY <1>1, <1>2, <1>3, <1>4, NewlyRow
<1> QED
  BY <1>a, <1>0, <1>2, <1>3, <1>5, GoesOne

LEMMA ReadOwnerWork ==
  ASSUME TypeOK, SpawnInv, RecordInv, Frame, NEW h \in Handlers, ReadOwner(h)
  PROVE  Gained(h)
<1>a. PICK i : i = Head(run[h])
  OBVIOUS
<1> DEFINE x == Do("writeRow", i.c, owners[i.c], i.n)
           y == Do("settleSpawn", i.c, NoOne, 0)
<1>0. /\ h \in Goroutines /\ At(h, "readOwner") /\ run[h] # <<>> /\ todo' = todo
      /\ Goes(h, <<x, y>>)
  BY ZenonT(30), <1>a DEF ReadOwner, Goroutines, At
<1>1. /\ i.c \in Channels /\ Known(i.c) /\ i.c \in created /\ Fits(i) /\ i.op = "readOwner"
      /\ i.n \in Nat
  BY <1>a, <1>0, RunsKnown DEF PastOps
<1>2. /\ owners[i.c] \in Users \cup {NoOne} /\ NoOne \in Users \cup {NoOne} /\ 0 \in Nat
      /\ "writeRow" \in ChannelOps /\ "settleSpawn" \in ChannelOps
  BY <1>1 DEF TypeOK, ChannelOps
<1>3. x \in Item /\ x.op = "writeRow" /\ x.c = i.c /\ x.n = i.n
  BY <1>1, <1>2, DoChannel
<1>4. y \in Item /\ y.op = "settleSpawn" /\ y.c = i.c
  BY <1>1, <1>2, DoChannel
<1>5. Newly(x) /\ x.op # "commit"
  <2>1. "writeRow" \in RowOps /\ "readOwner" \in RowOps
    BY DEF RowOps
  <2>2. Numbered(i.c, i.n)
    BY <1>1, <2>1 DEF Fits
  <2> HIDE DEF x
  <2>3. Numbered(x.c, x.n)
    BY <1>3, <2>2
  <2>4. Newly(x)
    BY <1>1, <1>3, <2>1, <2>3, NewlyRow
  <2> QED BY <1>3, <2>4
<1>6. Newly(y) /\ y.op # "commit"
  BY <1>1, <1>4, NewlyPlain DEF RowOps, GoneOps
<1> HIDE DEF x, y
<1>7. <<x, y>> \in Seq(Item) /\ Seen(<<x, y>>) = {x, y}
  BY <1>3, <1>4, SeenTwo
<1>8. Gains(h, {x, y})
  BY <1>0, <1>7, GoesGains
<1> QED
  BY <1>3, <1>4, <1>5, <1>6, <1>8 DEF Gained

LEMMA AbandonSpawnWork ==
  ASSUME TypeOK, SpawnInv, RecordInv, Frame, NEW h \in Handlers, AbandonSpawn(h)
  PROVE  Gained(h)
<1>a. PICK i : i = Head(run[h])
  OBVIOUS
<1> DEFINE x == Do("deleteIfStillEmpty", i.c, i.u, 0)
           y == Do("keep", i.c, NoOne, 0)
           z == Do("settleSpawn", i.c, NoOne, 0)
<1>0. /\ h \in Goroutines /\ At(h, "abandonSpawn") /\ run[h] # <<>> /\ todo' = todo
      /\ Goes(h, <<x, y, z>>)
  BY <1>a DEF AbandonSpawn, Goroutines, At
<1>1. /\ i.c \in Channels /\ Known(i.c) /\ i.u \in Users \cup {NoOne}
      /\ i.op = "abandonSpawn" /\ Fits(i) /\ i.c \in created
  BY <1>a, <1>0, RunsKnown DEF PastOps
<1>2. /\ NoOne \in Users \cup {NoOne} /\ 0 \in Nat
      /\ "deleteIfStillEmpty" \in ChannelOps /\ "keep" \in ChannelOps
      /\ "settleSpawn" \in ChannelOps
  BY DEF ChannelOps
<1>3. x \in Item /\ x.op = "deleteIfStillEmpty" /\ x.c = i.c
  BY <1>1, <1>2, DoChannel
<1>4. y \in Item /\ y.op = "keep" /\ y.c = i.c
  BY <1>1, <1>2, DoNobody
<1>5. z \in Item /\ z.op = "settleSpawn" /\ z.c = i.c
  BY <1>1, <1>2, DoNobody
<1> HIDE DEF x, y, z
<1>6. Newly(x) /\ Newly(y) /\ Newly(z) /\ "commit" \notin {x.op, y.op, z.op}
  BY <1>1, <1>3, <1>4, <1>5, NewlyPlain, NewlyKeep DEF RowOps, GoneOps, Fits, Numbered
<1>7. <<x, y, z>> \in Seq(Item) /\ Seen(<<x, y, z>>) = {x, y, z}
  BY <1>3, <1>4, <1>5, SeenThree
<1>8. Gains(h, {x, y, z})
  BY <1>0, <1>7, GoesGains
<1> QED
  BY <1>3, <1>4, <1>5, <1>6, <1>8 DEF Gained

(* A carried channel that lives is in the record.                          *)
LEMMA CarriedTracked ==
  ASSUME TypeOK, SpawnInv, RecordInv, NEW h \in Handlers, Carries(h), Last(h).c \in live
  PROVE  Last(h).c \in tracked \cap inFlight
  BY DEF SpawnInv, InFlightAccounted, RecordInv, Rowed

LEMMA KeepWork ==
  ASSUME TypeOK, SpawnInv, RecordInv, Frame, NEW h \in Handlers, Keep(h)
  PROVE  Gained(h)
<1>a. PICK i, e, n : /\ i = Head(run[h]) /\ e = Elect(Confirmed(i.c, occupants), ladder)
                     /\ n = channelIndex[i.c]
  OBVIOUS
<1> DEFINE x == Do("writeRow", i.c, e, n)
<1>0. /\ h \in Goroutines /\ At(h, "keep") /\ run[h] # <<>> /\ todo' = todo
      /\ Goes(h, <<x>>)
  BY Zenon, <1>a DEF Keep, Goroutines, At
<1>1. /\ i.c \in Channels /\ Known(i.c) /\ i.c \in created /\ Fits(i) /\ i.op = "keep"
  BY <1>a, <1>0, RunsKnown DEF PastOps
<1>2. e \in Users \cup {NoOne} /\ n \in Nat /\ "writeRow" \in ChannelOps /\ "writeRow" \in RowOps
  BY <1>1, <1>a, ElectInside DEF Confirmed, TypeOK, ChannelOps, RowOps
<1>3. x \in Item /\ x.op = "writeRow" /\ x.c = i.c /\ x.n = n
  BY <1>1, <1>2, DoChannel
<1> HIDE DEF x
<1>4. Numbered(x.c, x.n)
  BY <1>a, <1>1, <1>3 DEF Fits
<1>5. Newly(x)
  BY ZenonT(30), <1>1, <1>2, <1>3, <1>4, NewlyRow
<1> QED
  BY <1>0, <1>3, <1>5, GoesOne

LEMMA SpawnWork ==
  ASSUME TypeOK, SpawnInv, RecordInv, Frame, NEW h \in Handlers, SpawnStep(h)
  PROVE  Gained(h)
  BY SpawnGoesOn, GoesNone, HubJoinWork, CreateWork, CommitWork, ReadOwnerWork,
     AbandonSpawnWork, KeepWork DEF MoveCheck, GuildMemberMove, SettleSpawn, At,
     Goroutines, SpawnStep

(* The handlers of events.                                                 *)
LEMMA HandoverWork ==
  ASSUME TypeOK, SpawnInv, RecordInv, Frame, NEW c, NEW own \in [Channels -> Users \cup {NoOne}]
  PROVE  /\ Handover(c, own) \in Seq(Item)
         /\ \A i \in Seen(Handover(c, own)) : i \in Item /\ Newly(i) /\ i.op = "writeRow"
<1>1. CASE c \in tracked /\ own[c] # owners[c]
  <2>0. PICK n : n = channelIndex[c]
    OBVIOUS
  <2>a. PICK x : x = Do("writeRow", c, own[c], n)
    OBVIOUS
  <2>1. c \in Channels /\ c \in created /\ Known(c) /\ Numbered(c, n)
    BY <1>1, <2>0, TrackedKnown
  <2>2. own[c] \in Users \cup {NoOne} /\ n \in Nat /\ "writeRow" \in ChannelOps /\ "writeRow" \in RowOps
    BY <2>0, <2>1 DEF TypeOK, ChannelOps, RowOps
  <2>3. x \in Item /\ x.op = "writeRow" /\ x.c = c /\ x.n = n
    BY <2>a, <2>1, <2>2, DoChannel
  <2>4. Newly(x)
    BY <2>1, <2>2, <2>3, NewlyRow
  <2>5. Handover(c, own) = <<x>> /\ Seen(<<x>>) = {x} /\ <<x>> \in Seq(Item)
    BY <1>1, <2>0, <2>a, <2>3, SeenSome DEF Handover
  <2> QED
    BY <2>3, <2>4, <2>5
<1>2. CASE ~(c \in tracked /\ own[c] # owners[c])
  BY <1>2, SeenNone DEF Handover
<1> QED
  BY <1>1, <1>2

(* A queue of new sections, none of them a commit.                         *)
News(q) == q \in Seq(Item) /\ \A i \in Seen(q) : Newly(i) /\ i.op \notin {"commit", "rebuild"}

LEMMA NewsNone == News(<<>>)
  BY SeenNone DEF News

LEMMA NewsOne ==
  ASSUME NEW x \in Item, Newly(x), x.op \notin {"commit", "rebuild"}
  PROVE  News(<<x>>)
  BY SeenSome DEF News

LEMMA NewsConcat ==
  ASSUME NEW p, NEW q, News(p), News(q)
  PROVE  News(p \o q)
  BY SeenConcat, ConcatProperties DEF News

LEMMA VoiceUpdateWork ==
  ASSUME TypeOK, SpawnInv, RecordInv, Frame, NEW h \in Handlers, VoiceUpdate(h)
  PROVE  Gained(h)
<1>0. h \in Goroutines /\ todo' = todo
  BY Zenon DEF VoiceUpdate, Goroutines
<1>1. PICK e \in events :
        LET u   == e[1]
            new == e[2]
            old == userChannel[u]
            occ == Moved(u, old, new)
            own == [c \in Channels |-> IF c \in {old, new} \cap tracked
                                       THEN Reconciled(c, occ, owners)
                                       ELSE owners[c]]
        IN /\ ~Stale(e)
           /\ events' = events \ {e}
           /\ userChannel' = [userChannel EXCEPT ![u] = new]
           /\ IF old = new
              THEN UNCHANGED <<occupants, owners, run>>
              ELSE /\ occupants' = occ /\ owners' = own
                   /\ run' = [run EXCEPT ![h] =
                        Handover(old, own) \o Handover(new, own)
                        \o (IF old \in tracked /\ occ[old] = {}
                            THEN <<Do("deleteIfStillEmpty", old, u, 0)>>
                            ELSE <<>>)
                        \o (IF new = Hub THEN <<Do("handleHubJoin", 0, u, 0)>>
                            ELSE <<>>)]
  BY DEF VoiceUpdate
<1>2. PICK u, new, old, occ, own :
        /\ u = e[1] /\ new = e[2] /\ old = userChannel[u] /\ occ = Moved(u, old, new)
        /\ own = [c \in Channels |-> IF c \in {old, new} \cap tracked
                                     THEN Reconciled(c, occ, owners)
                                     ELSE owners[c]]
  OBVIOUS
<1> DEFINE del  == IF old \in tracked /\ occ[old] = {}
                   THEN <<Do("deleteIfStillEmpty", old, u, 0)>> ELSE <<>>
           join == IF new = Hub THEN <<Do("handleHubJoin", 0, u, 0)>> ELSE <<>>
<1>3. u \in Users
  BY <1>2 DEF TypeOK
<1>4. own \in [Channels -> Users \cup {NoOne}]
  BY <1>2, <1>3, ReconciledType DEF Moved, TypeOK
<1>5. News(Handover(old, own)) /\ News(Handover(new, own))
  BY <1>4, HandoverWork DEF News
<1>6. ASSUME NEW d \in {<<Do("deleteIfStillEmpty", old, u, 0)>>, <<>>}, 
             old \in tracked \/ d = <<>>
      PROVE  News(d)
  BY <1>3, <1>6, NewsNone, TrackedKnown, DoChannel, NewlyPlain, NewsOne DEF ChannelOps,
     RowOps, GoneOps
<1>7. ASSUME NEW j \in {<<Do("handleHubJoin", 0, u, 0)>>, <<>>}
      PROVE  News(j)
  BY <1>3, DoJoinItem, NewlyOther, NewsOne, NewsNone DEF PastOps
<1>8. CASE run' = run
  BY <1>0, <1>8, NoGains DEF Gained
<1>9. ASSUME NEW a, NEW b, NEW d, NEW j, News(a), News(b), News(d), News(j),
             run' = [run EXCEPT ![h] = a \o b \o d \o j]
      PROVE  Gained(h)
  BY <1>0, <1>9, NewsConcat, SetGains DEF Gained, News
<1>10. ASSUME old # new PROVE Gained(h)
  <2>1. PICK a, b, d, j : /\ a = Handover(old, own) /\ b = Handover(new, own)
                          /\ d = del /\ j = join
    OBVIOUS
  <2>2. run' = [run EXCEPT ![h] = Handover(old, own) \o Handover(new, own) \o del \o join]
    BY ZenonT(30), <1>1, <1>2, <1>10
  <2>3. /\ d \in {<<Do("deleteIfStillEmpty", old, u, 0)>>, <<>>}
        /\ old \in tracked \/ d = <<>>
        /\ j \in {<<Do("handleHubJoin", 0, u, 0)>>, <<>>}
    BY <2>1
  <2>4. News(d) /\ News(j) /\ News(a) /\ News(b)
    BY <1>5, <1>6, <1>7, <2>1, <2>3
  <2>5. run' = [run EXCEPT ![h] = a \o b \o d \o j]
    BY <2>1, <2>2
  <2> QED
    BY <1>9, <2>4, <2>5
<1>11. old = new => run' = run
  BY <1>1, <1>2
<1> QED
  BY Zenon, <1>8, <1>10, <1>11

LEMMA HandleWork ==
  ASSUME TypeOK, SpawnInv, RecordInv, Frame, NEW h \in Handlers, Handle(h)
  PROVE  Gained(h)
<1>0. h \in Goroutines
  BY DEF Goroutines
<1>1. CASE DropStale(h)
  BY <1>0, <1>1, NoGains DEF DropStale, record, Gained
<1>2. CASE ChannelDeleteEvent(h)
  <2>1. PICK c \in chDeletes :
          IF c \in tracked THEN run' = [run EXCEPT ![h] = <<Do("deleteRow", c, NoOne, 0)>>]
          ELSE run' = run
    BY <1>2 DEF ChannelDeleteEvent
  <2>2. todo' = todo /\ live' = live /\ c \notin live /\ c \in Channels
    BY <1>2 DEF ChannelDeleteEvent, RecordInv, Cached, TypeOK
  <2>3. CASE run' = run
    BY <1>0, <2>2, <2>3, NoGains DEF Gained
  <2>4. CASE c \in tracked
    <3>1. PICK x : x = Do("deleteRow", c, NoOne, 0)
      OBVIOUS
    <3>2. x \in Item /\ x.op = "deleteRow" /\ x.c = c
      BY <2>2, <3>1, DoNobody DEF ChannelOps
    <3>3. Newly(x)
      BY <2>2, <2>4, <3>2, NewlyGone, TrackedKnown DEF GoneOps
    <3>4. News(<<x>>)
      BY <3>2, <3>3, NewsOne
    <3>5. Gains(h, Seen(<<x>>))
      BY <1>0, <2>1, <2>2, <2>4, <3>1, SetGains
    <3> QED
      BY <3>4, <3>5 DEF Gained, News
  <2> QED
    BY <2>1, <2>3, <2>4
<1> QED
  BY <1>1, <1>2, VoiceUpdateWork DEF Handle

(* The sweep and a panel save.                                             *)
LEMMA NextCallWork ==
  ASSUME TypeOK, NEW g \in Goroutines, g \notin Handlers, NextCall(g)
  PROVE  Gained(g)
<1>1. PICK i \in todo[g] : /\ run' = [run EXCEPT ![g] = <<i>>]
                           /\ todo' = [todo EXCEPT ![g] = @ \ {i}]
  BY DEF NextCall
<1>2. /\ run'[g] = <<i>> /\ todo'[g] = todo[g] \ {i}
      /\ \A k \in Goroutines \ {g} : run'[k] = run[k] /\ todo'[k] = todo[k]
  BY <1>1 DEF TypeOK
<1>3. Work(g)' \subseteq Work(g)
  BY <1>1, <1>2, SeenSome DEF Work
<1>4. Gains(g, {})
  BY <1>2, <1>3 DEF Gains
<1> QED
  BY <1>4 DEF Gained

(* A row the sweep listed is of a channel known of.                        *)
LEMMA ListedKnown ==
  ASSUME TypeOK, SpawnInv, RecordInv, NEW c \in Judged
  PROVE  /\ c \in Channels /\ Known(c) /\ c \in created /\ listed[c] \in Row
         /\ Numbered(c, listed[c].number) /\ listed[c].number \in Nat
  BY DEF Judged, Known, TypeOK, Row, RecordInv, Stored

LEMMA RebuildWork ==
  ASSUME TypeOK, SpawnInv, RecordInv, Frame, Rebuild
  PROVE  Gained(Sweep)
<1>0. /\ Sweep \in Goroutines /\ run[Sweep] # <<>> /\ Goes(Sweep, <<>>) /\ Sweep \notin Handlers
      /\ live' = live
  BY ConstantsAssumption DEF Goroutines, Rebuild, At, discord
<1>1. CASE todo' = todo
  BY <1>0, <1>1, GoesNone
<1>2. CASE present
  <2>1. PICK S : S =
          {Do("deleteRow", c, NoOne, 0) : c \in Judged \ Restored}
          \cup {Do("deleteIfStillEmpty", c, NoOne, 0) : c \in {d \in Restored : Inside(d) = {}}}
          \cup {Do("writeRow", c, SweptOwners[c], listed[c].number) :
                  c \in {d \in Restored : SweptOwners[d] # RowOwners[d]}}
    OBVIOUS
  <2>2. todo' = [todo EXCEPT ![Sweep] = S]
    BY <1>2, <2>1 DEF Rebuild
  <2>3. ASSUME NEW x \in S PROVE Newly(x) /\ x.op \notin {"commit", "rebuild"}
    BY <1>0, <1>2, <2>1, ListedKnown, DoParts, NewlyGone, NewlyPlain, NewlyRow DEF
       Restored, RecordInv, Cached, GoneOps, RowOps
  <2>4. /\ run'[Sweep] = <<>> \o Tail(run[Sweep]) /\ todo'[Sweep] = S
        /\ \A k \in Goroutines \ {Sweep} : run'[k] = run[k] /\ todo'[k] = todo[k]
    BY <1>0, <2>2 DEF Goes, TypeOK
  <2>5. Seen(run'[Sweep]) \subseteq Seen(run[Sweep])
    <3>1. <<>> \in Seq(Item) /\ Seen(<<>>) = {}
      BY SeenNone
    <3> QED
      BY ZenonT(60), <1>0, <3>1, WorkGoes
  <2>6. Gains(Sweep, S)
    BY <1>0, <2>4, <2>5 DEF Gains, Work
  <2> QED
    BY <2>3, <2>6 DEF Gained
<1> QED
  BY <1>1, <1>2 DEF Rebuild

LEMMA SweepWork ==
  ASSUME TypeOK, SpawnInv, RecordInv, Frame, SweepStep
  PROVE  Gained(Sweep)
<1>0. Sweep \in Goroutines /\ Sweep \notin Handlers
  BY ConstantsAssumption DEF Goroutines
<1>1. CASE SweepStart
  BY <1>0, <1>1, DoSweepItem, NewsOne, NewlyOther, SetGains DEF PastOps, SweepStart,
     Gained, News
<1>2. CASE ListSpawnedChannels
  BY <1>0, <1>2, DoSweepItem, NewlyOther, GoesOne, GoesNone DEF PastOps,
     ListSpawnedChannels, At
<1>3. CASE FinishSweep
  BY <1>0, <1>3, NoGains DEF FinishSweep, EndSweep, Gained
<1> QED
  BY <1>0, <1>1, <1>2, <1>3, RebuildWork, NextCallWork, CallWork DEF SweepStep

LEMMA RankWork ==
  ASSUME TypeOK, SpawnInv, RecordInv, Frame, NEW lad \in Ladders, ApplyRankRoles(lad)
  PROVE  Gained(Panel)
<1>0. Panel \in Goroutines /\ Panel \notin Handlers
  BY ConstantsAssumption DEF Goroutines
<1>1. PICK S : S = {Do("writeRow", c, Ranked(lad)[c], channelIndex[c]) :
                      c \in {d \in Channels : Ranked(lad)[d] # owners[d]}}
  OBVIOUS
<1>2. todo' = [todo EXCEPT ![Panel] = S] /\ run' = run
  BY <1>1 DEF ApplyRankRoles
<1>3. ASSUME NEW x \in S PROVE Newly(x) /\ x.op \notin {"commit", "rebuild"}
  <2>1. PICK c \in Channels : /\ Ranked(lad)[c] # owners[c]
                              /\ x = Do("writeRow", c, Ranked(lad)[c], channelIndex[c])
    BY <1>1
  <2>2. c \in tracked
    BY <2>1 DEF Ranked
  <2>3. x.op = "writeRow" /\ x.c = c /\ x.n = channelIndex[c]
    BY <2>1, DoParts
  <2>4. Numbered(x.c, x.n) /\ x.op \in RowOps /\ x.c \in Channels /\ Known(x.c) /\ x.c \in created
    BY <2>2, <2>3, TrackedKnown DEF RowOps
  <2> QED
    BY <2>3, <2>4, NewlyRow
<1>4. Gains(Panel, S)
  BY <1>0, <1>2 DEF Gains, Work, TypeOK
<1> QED
  BY <1>3, <1>4 DEF Gained

(* Whatever the step, one goroutine at most has more to do.                *)
LEMMA WorkStep ==
  ASSUME TypeOK, SpawnInv, RecordInv, Frame, [Next]_vars
  PROVE  \E g \in Goroutines : Gained(g)
<1>0. /\ Handlers \subseteq Goroutines /\ Sweep \in Goroutines
      /\ Panel \in Goroutines /\ Panel \notin Handlers
  BY ConstantsAssumption DEF Goroutines
<1>1. CASE Environment
  BY <1>0, <1>1, NoGains DEF Restart, Spend, RecordInv, Faultless, Environment, Move,
     HandDelete, DeleteReachesCache, Outage, GuildCreate, Gained
<1>2. CASE UNCHANGED vars
  BY <1>0, <1>2, NoGains DEF Gained, vars
<1>3. ASSUME NEW h \in Handlers, Handle(h) \/ SpawnStep(h) \/ CallStep(h)
      PROVE  Gained(h)
  BY <1>0, <1>3, HandleWork, SpawnWork, CallWork
<1>4. CASE PanelStep
  BY <1>0, <1>4, NextCallWork, CallWork DEF PanelStep
<1> QED
  BY <1>0, <1>1, <1>2, <1>3, <1>4, SweepWork, RankWork DEF Next, Rest

----------------------------------------------------------------------------
(* The parts of the record's invariant, step by step                       *)

(* Who changes the rows, the sweep's copy of them and what is in flight.   *)
RecordStill == UNCHANGED <<rows, listed, inFlight, settled, sweepActive>>

LEMMA MostRecordStill ==
  ASSUME [Next]_vars, Faultless
  PROVE  \/ RecordStill
         \/ \E h \in Handlers : Commit(h) \/ SettleSpawn(h)
         \/ \E g \in Goroutines : WriteRow(g) \/ DeleteRow(g)
         \/ SweepStart \/ ListSpawnedChannels \/ FinishSweep
<1>0. Handlers \subseteq Goroutines /\ Sweep \in Goroutines /\ Panel \in Goroutines
  BY DEF Goroutines
<1> USE DEF RecordStill
<1>1. CASE Environment
  BY <1>1 DEF Restart, Spend, Faultless, Environment, Move, HandDelete,
     DeleteReachesCache, Outage, GuildCreate, record
<1>2. ASSUME NEW h \in Handlers, Handle(h) PROVE RecordStill
  BY ZenonT(30), <1>2 DEF Handle, DropStale, VoiceUpdate, ChannelDeleteEvent, record
<1>3. ASSUME NEW h \in Handlers, SpawnStep(h)
      PROVE  RecordStill \/ Commit(h) \/ SettleSpawn(h)
  BY <1>3 DEF SpawnStep, HubJoin, Create, MoveCheck, GuildMemberMove, ReadOwner,
     AbandonSpawn, Keep, record
<1>4. ASSUME NEW g \in Goroutines, CallStep(g)
      PROVE  RecordStill \/ WriteRow(g) \/ DeleteRow(g)
  BY <1>4 DEF CallStep, DeleteIfStillEmpty, ChannelDelete, UntrackDeleted, record
<1>5. ASSUME NEW g \in Goroutines, NextCall(g) PROVE RecordStill
  BY <1>5 DEF NextCall, record
<1>6. CASE Rebuild
  BY <1>6 DEF Rebuild
<1>7. ASSUME NEW lad \in Ladders, ApplyRankRoles(lad) PROVE RecordStill
  BY <1>7 DEF ApplyRankRoles
<1>8. CASE UNCHANGED vars
  BY <1>8 DEF vars, record
<1> QED
  BY <1>0, <1>1, <1>2, <1>3, <1>4, <1>5, <1>6, <1>7, <1>8 DEF Next, SweepStep, PanelStep, Rest

(* A spawn is carried by its handler alone.                                *)
LEMMA CommittingCreated ==
  ASSUME TypeOK, SpawnInv, RecordInv, NEW h \in Handlers, NEW c, Committing(h, c)
  PROVE  /\ c \in created /\ Commits(h) /\ ~Known(c) /\ c = Last(h).c /\ c \in Channels
         /\ At(h, "commit")
  BY CommitFresh DEF Committing, Commit

(* New work is about a channel Discord created.                            *)
LEMMA NewlyCreated ==
  ASSUME TypeOK, SpawnInv, RecordInv, Frame, NEW i, Newly(i), i.op \in PastOps
  PROVE  i.c \in created /\ i.c \in created' /\ Fits(i)'
  BY KnownCreated, CommittingCreated DEF Newly, Frame

LEMMA WorksStep ==
  ASSUME TypeOK, SpawnInv, RecordInv, Frame, [Next]_vars
  PROVE  Works'
<1> SUFFICES ASSUME NEW k \in Goroutines, NEW i \in Work(k)', i.op \in PastOps
             PROVE  i.c \in created' /\ Fits(i)'
  BY DEF Works
<1>1. PICK g \in Goroutines : Gained(g)
  BY WorkStep
<1>2. PICK S : /\ Gains(g, S)
               /\ \A j \in S : /\ Newly(j)
                               /\ j.op = "commit"  => j.c \in created' \ created
                               /\ j.op = "rebuild" => ListSpawnedChannels
  BY <1>1 DEF Gained
<1>3. CASE i \in Work(k)
  BY <1>3, FitsStays DEF RecordInv, Works
<1>4. CASE i \notin Work(k)
  BY <1>2, <1>4, NewlyCreated DEF Gains, Work
<1> QED
  BY <1>3, <1>4

(* A step makes no channel known but the one it commits.                   *)
LEMMA KnownStep ==
  ASSUME TypeOK, SpawnInv, RecordInv, Frame, [Next]_vars, NEW c \in Channels, Known(c)'
  PROVE  Known(c) \/ \E h \in Handlers : Committing(h, c)
<1>0. Faultless
  BY DEF RecordInv
<1>1. CASE c \in tracked'
  <2>1. CASE Still
    BY <1>1, <2>1 DEF Still, Known
  <2>2. ASSUME NEW h \in Handlers, Commit(h)
        PROVE  Known(c) \/ Committing(h, c)
    BY <1>1, <2>2, CommitFresh DEF Commit, Committing, Known
  <2>3. CASE Rebuild
    BY <1>1, <2>3 DEF Rebuild, Kept, Restored, Judged, Known
  <2>4. ASSUME tracked' \subseteq tracked PROVE Known(c)
    BY <1>1, <2>4 DEF Known
  <2>5. ASSUME NEW h \in Handlers, ChannelDeleteEvent(h) \/ Create(h)
        PROVE  tracked' \subseteq tracked
    BY <2>5 DEF ChannelDeleteEvent, Untrack, Create
  <2>6. ASSUME NEW g \in Goroutines, ChannelDelete(g) \/ UntrackDeleted(g)
        PROVE  tracked' \subseteq tracked
    BY <2>6 DEF ChannelDelete, UntrackDeleted, Untrack, record
  <2>7. ASSUME NEW d \in Channels, HandDelete(d) PROVE tracked' \subseteq tracked
    BY <2>7 DEF HandDelete, record
  <2> QED
    BY <1>0, <2>1, <2>2, <2>3, <2>4, <2>5, <2>6, <2>7, MostStill
<1>2. CASE c \in inFlight' \/ rows'[c] # NoRow \/ listed'[c] # NoRow
  <2>1. CASE RecordStill
    BY <1>2, <2>1 DEF RecordStill, Known
  <2>2. ASSUME NEW h \in Handlers, Commit(h)
        PROVE  Known(c) \/ Committing(h, c)
    BY <1>2, <2>2, CommitFresh DEF Commit, Committing, Known
  <2>3. ASSUME NEW h \in Handlers, SettleSpawn(h) PROVE Known(c)
    BY Zenon, <1>2, <2>3 DEF SettleSpawn, Known
  <2>4. ASSUME NEW g \in Goroutines, WriteRow(g) PROVE Known(c)
    BY ZenonT(60), <1>2, <2>4, RunsKnown DEF WriteRow, record, PastOps, TypeOK, Known
  <2>5. ASSUME NEW g \in Goroutines, DeleteRow(g) PROVE Known(c)
    BY <1>2, <2>5 DEF DeleteRow, record, TypeOK, Known
  <2>6. ASSUME SweepStart \/ ListSpawnedChannels \/ FinishSweep PROVE Known(c)
    BY <1>2, <2>6 DEF SweepStart, ListSpawnedChannels, FinishSweep, EndSweep, record, Known
  <2> QED
    BY <1>0, <2>1, <2>2, <2>3, <2>4, <2>5, <2>6, MostRecordStill
<1>3. CASE \E k \in Goroutines : \E i \in Work(k)' : i.op \in PastOps /\ i.c = c
  BY <1>3, WorkStep DEF Known, Gained, Gains, Work, Newly
<1> QED
  BY <1>1, <1>2, <1>3 DEF Known

LEMMA FreshStep ==
  ASSUME TypeOK, TypeOK', SpawnInv, RecordInv, Frame, [Next]_vars
  PROVE  Fresh'
<1> SUFFICES ASSUME NEW h \in Handlers, Commits(h)', Known(Last(h).c)'
             PROVE  FALSE
  BY DEF Fresh
<1>0. h \in Goroutines
  BY DEF Goroutines
<1>1. PICK i : i = Last(h)'
  OBVIOUS
<1>2. i \in Seen(run'[h]) /\ i.op = "commit" /\ i \in Item
  BY <1>0, <1>1, SeenFin DEF TypeOK, Commits, Last, Fin
<1>3. i.c \in Channels
  BY <1>2, SpawnOpItem DEF SpawnOps
<1>4. Known(i.c)'
  BY <1>1
<1>5. Known(i.c) \/ \E k \in Handlers : Committing(k, i.c)
  BY <1>3, <1>4, KnownStep
<1>6. i.c \in created
  BY <1>3, <1>5, KnownCreated, CommittingCreated
<1>7. CASE i \in Seen(run[h])
  <2>1. Last(h) = i /\ Commits(h)
    BY <1>2, <1>7, CommitLast DEF EndOps, ReserveOps, Commits
  <2>2. ~Known(i.c)
    BY <2>1 DEF RecordInv, Fresh
  <2>3. PICK k \in Handlers : Committing(k, i.c)
    BY <1>5, <2>2
  <2>4. Commits(k) /\ Last(k).c = Last(h).c
    BY <2>1, <2>3, CommittingCreated
  <2>5. k = h
    BY <2>1, <2>4 DEF SpawnInv, Holds
  <2>6. Commit(h) /\ At(h, "commit")
    BY <2>3, <2>5 DEF Committing, Commit
  <2>7. PICK x : x = Do("moveCheck", Last(h).c, Last(h).u, Last(h).n)
    OBVIOUS
  <2>8. x \in Item /\ x.op = "moveCheck"
    BY <2>6, <2>7, CommitFresh, DoSpawnItem DEF SpawnOps
  <2>9. run' = [run EXCEPT ![h] = <<x>>]
    BY <2>6, <2>7, <2>8, CommitFresh, Singleton DEF Commit
  <2>10. run'[h] = <<x>>
    BY <1>0, <2>9 DEF TypeOK
  <2> QED
    BY <1>2, <2>8, <2>10, SeenSome
<1>8. CASE i \notin Seen(run[h])
  BY <1>0, <1>2, <1>6, <1>8, WorkStep DEF Gained, Gains
<1> QED
  BY <1>7, <1>8

(* A row is never lost while its channel lives.                            *)
LEMMA RowsStep ==
  ASSUME TypeOK, SpawnInv, RecordInv, Frame, [Next]_vars, NEW c \in Channels
  PROVE  /\ \/ rows'[c] = rows[c]
            \/ rows'[c] = NoRow /\ c \notin live /\ c \in created
            \/ c \in created /\ \E n : rows'[c].number = n /\ Numbered(c, n)
         /\ c \in live /\ rows[c] # NoRow => rows'[c] # NoRow
<1>0. Faultless
  BY DEF RecordInv
<1>1. CASE RecordStill
  BY <1>1 DEF RecordStill
<1>2. ASSUME NEW h \in Handlers, Commit(h) \/ SettleSpawn(h) PROVE rows' = rows
  BY <1>2 DEF Commit, SettleSpawn
<1>3. CASE SweepStart \/ ListSpawnedChannels \/ FinishSweep
  BY <1>3 DEF SweepStart, ListSpawnedChannels, FinishSweep, EndSweep
<1>4. ASSUME NEW g \in Goroutines, WriteRow(g)
      PROVE  \/ rows'[c] = rows[c]
             \/ c \in created /\ rows'[c] # NoRow /\ \E n : rows'[c].number = n /\ Numbered(c, n)
  <2>0. PICK i : i = Head(run[g])
    OBVIOUS
  <2>1. At(g, "writeRow")
    BY <1>4 DEF WriteRow
  <2>2. i.c \in Channels /\ i.c \in created /\ Fits(i) /\ i.op = "writeRow"
        /\ i.n \in Nat /\ i.u \in Users \cup {NoOne}
    BY <2>0, <2>1, RunsKnown DEF PastOps
  <2>3. Numbered(i.c, i.n)
    BY <2>2 DEF Fits, RowOps
  <2>4. rows' = [rows EXCEPT ![i.c] = [owner |-> i.u, number |-> i.n]] \/ rows' = rows
    BY <1>4, <2>0 DEF WriteRow
  <2>5. [owner |-> i.u, number |-> i.n] # NoRow /\ [owner |-> i.u, number |-> i.n].number = i.n
    BY <2>2, ConstantsAssumption
  <2>6. CASE c = i.c
    BY <2>2, <2>3, <2>4, <2>5, <2>6 DEF TypeOK
  <2>7. CASE c # i.c
    BY <2>4, <2>7 DEF TypeOK
  <2> QED
    BY <2>6, <2>7
<1>5. ASSUME NEW g \in Goroutines, DeleteRow(g)
      PROVE  \/ rows'[c] = rows[c]
             \/ rows'[c] = NoRow /\ c \notin live /\ c \in created
  <2>1. At(g, "deleteRow") /\ (rows' = rows \/ rows' = [rows EXCEPT ![Head(run[g]).c] = NoRow])
    BY ZenonT(30), <1>5 DEF DeleteRow
  <2>2. Head(run[g]).c \notin live /\ Head(run[g]).c \in created
    BY <2>1, RunsKnown DEF PastOps, Fits, GoneOps
  <2>3. rows'[c] = rows[c] \/ (rows'[c] = NoRow /\ c = Head(run[g]).c)
    BY <2>1 DEF TypeOK
  <2> QED
    BY <2>2, <2>3
<1> QED
  BY <1>0, <1>1, <1>2, <1>3, <1>4, <1>5, MostRecordStill

LEMMA ListedStep ==
  ASSUME [Next]_vars, Faultless, NEW c \in Channels
  PROVE  \/ listed'[c] = listed[c] \/ listed'[c] = NoRow
         \/ ListSpawnedChannels /\ listed' = rows /\ rows' = rows
<1>1. CASE RecordStill
  BY <1>1 DEF RecordStill
<1>2. ASSUME NEW h \in Handlers, Commit(h) \/ SettleSpawn(h) PROVE listed' = listed
  BY <1>2 DEF Commit, SettleSpawn
<1>3. ASSUME NEW g \in Goroutines, WriteRow(g) \/ DeleteRow(g) PROVE listed' = listed
  BY <1>3 DEF WriteRow, DeleteRow
<1>4. CASE SweepStart \/ ListSpawnedChannels \/ FinishSweep
  BY <1>4 DEF SweepStart, ListSpawnedChannels, FinishSweep, EndSweep
<1> QED
  BY <1>1, <1>2, <1>3, <1>4, MostRecordStill

(* A channel Discord created that lives after a step lived before it.      *)
LEMMA LivedBefore ==
  ASSUME Frame, NEW c \in created, c \in live'
  PROVE  c \in live /\ c \in created'
  BY DEF Frame

LEMMA StoredStep ==
  ASSUME TypeOK, SpawnInv, RecordInv, Frame, [Next]_vars
  PROVE  Stored'
<1> SUFFICES ASSUME NEW c \in Channels
    PROVE  /\ (rows[c] # NoRow => c \in created /\ Numbered(c, rows[c].number))'
           /\ (listed[c] # NoRow => c \in created /\ Numbered(c, listed[c].number))'
           /\ (c \in live /\ listed[c] # NoRow => rows[c] # NoRow)'
  BY DEF Stored
<1>0. Faultless /\ Stored
  BY DEF RecordInv
<1>1. PICK r, l, r2, l2 : r = rows[c] /\ l = listed[c] /\ r2 = rows'[c] /\ l2 = listed'[c]
  OBVIOUS
<1>2. /\ r # NoRow => c \in created /\ Numbered(c, r.number)
      /\ l # NoRow => c \in created /\ Numbered(c, l.number)
      /\ c \in live /\ l # NoRow => r # NoRow
  BY <1>0, <1>1 DEF Stored
<1>3. /\ r2 = r \/ r2 = NoRow \/ (c \in created /\ Numbered(c, r2.number))
      /\ c \in live /\ r # NoRow => r2 # NoRow
  BY <1>1, RowsStep
<1>4. l2 = l \/ l2 = NoRow \/ (l2 = r /\ r2 = r)
  BY <1>0, <1>1, ListedStep
<1>5. r2 # NoRow => c \in created /\ Numbered(c, r2.number)
  BY <1>2, <1>3
<1>6. l2 # NoRow => c \in created /\ Numbered(c, l2.number)
  BY <1>2, <1>4
<1>7. r2 # NoRow => c \in created' /\ Numbered(c, r2.number)'
  BY <1>5, NumberStays
<1>8. l2 # NoRow => c \in created' /\ Numbered(c, l2.number)'
  BY <1>6, NumberStays
<1>9. c \in live' /\ l2 # NoRow => r2 # NoRow
  BY <1>2, <1>3, <1>4, <1>6, LivedBefore
<1>10. /\ Numbered(c, r2.number)' => Numbered(c, rows[c].number)'
       /\ Numbered(c, l2.number)' => Numbered(c, listed[c].number)'
  BY <1>1 DEF Numbered
<1> QED
  BY <1>1, <1>7, <1>8, <1>9, <1>10

(* What enters the record, and what leaves it while its channel lives.     *)
LEMMA TrackedStep ==
  ASSUME TypeOK, SpawnInv, RecordInv, Frame, [Next]_vars, NEW c \in tracked', c \in live'
  PROVE  \/ c \in tracked /\ c \in live
         \/ \E h \in Handlers : Committing(h, c)
<1>0. Faultless
  BY DEF RecordInv
<1>1. CASE c \in tracked
  BY <1>1, LivedBefore DEF RecordInv, Cached
<1>2. CASE c \notin tracked
  <2>1. ASSUME NEW h \in Handlers, Commit(h) PROVE Committing(h, c)
    BY <1>2, <2>1, CommitFresh DEF Commit, Committing
  <2>2. ~Rebuild
    BY <1>2, ListedKnown DEF Rebuild, Kept, discord, Restored, Numbered
  <2>3. ~(tracked' \subseteq tracked)
    BY <1>2
  <2>4. ~Still /\ \A d \in Channels : ~HandDelete(d)
    BY <2>3 DEF Still, HandDelete, record
  <2>5. ASSUME NEW h \in Handlers, ChannelDeleteEvent(h) \/ Create(h)
        PROVE  FALSE
    BY <2>3, <2>5 DEF ChannelDeleteEvent, Untrack, Create
  <2>6. ASSUME NEW g \in Goroutines, ChannelDelete(g) \/ UntrackDeleted(g)
        PROVE  FALSE
    BY <2>3, <2>6 DEF ChannelDelete, UntrackDeleted, Untrack, record
  <2> QED
    BY <1>0, <2>1, <2>2, <2>4, <2>5, <2>6, MostStill
<1> QED
  BY <1>1, <1>2

(* The handler at the section it ends on has nothing else to run.          *)
LEMMA EndsAlone ==
  ASSUME TypeOK, SpawnInv, NEW h \in Handlers, NEW op \in EndOps, At(h, op)
  PROVE  Seen(run[h]) = {Last(h)} /\ Last(h) = Head(run[h]) /\ Last(h).op = op
<1>1. h \in Goroutines /\ run[h] \in Seq(Item) /\ run[h] # <<>> /\ Plain(run[h])
  BY DEF TypeOK, Goroutines, SpawnInv, At
<1>2. Last(h) = Head(run[h]) /\ Last(h).op = op
  BY <1>1, LastSection
<1>3. Len(run[h]) \in Nat /\ Len(run[h]) >= 1 /\ run[h][1] = Head(run[h])
  BY <1>1, EmptySeq, LenProperties, HeadTailProperties
<1>4. ASSUME Len(run[h]) # 1 PROVE FALSE
  <2>1. \A n \in Nat : n >= 1 /\ n # 1 => 1 \in 1 .. (n - 1)
    OBVIOUS
  <2>2. run[h][1].op \in EndOps
    BY <1>2, <1>3
  <2> QED
    BY <1>1, <1>3, <1>4, <2>1, <2>2 DEF Plain
<1>5. Seen(run[h]) = {run[h][1]}
  BY <1>3, <1>4 DEF Seen
<1> QED
  BY <1>2, <1>3, <1>5

(* A spawn that settles has its row by then.                               *)
LEMMA SettlesRowed ==
  ASSUME TypeOK, SpawnInv, RecordInv, NEW h \in Handlers, At(h, "settleSpawn")
  PROVE  Last(h) = Head(run[h]) /\ (Last(h).c \notin live \/ rows[Last(h).c] # NoRow)
  BY EndsAlone DEF EndOps, CarryOps, At, RecordInv, Settles, SettlesOf, Settling

LEMMA InFlightStep ==
  ASSUME TypeOK, SpawnInv, RecordInv, [Next]_vars, NEW c \in Channels
  PROVE  /\ c \in inFlight' => c \in inFlight \/ \E h \in Handlers : Committing(h, c)
         /\ c \in inFlight \ settled =>
              \/ c \in inFlight' \ settled'
              \/ c \notin live \/ rows[c] # NoRow
         /\ c \in inFlight /\ sweepActive /\ ~FinishSweep => c \in inFlight'
<1>0. Faultless /\ settled \subseteq inFlight
  BY DEF RecordInv, SpawnInv, InFlightAccounted
<1>1. CASE RecordStill
  BY <1>1 DEF RecordStill
<1>2. ASSUME NEW h \in Handlers, Commit(h)
      PROVE  /\ c \in inFlight' => c \in inFlight \/ Committing(h, c)
             /\ inFlight \subseteq inFlight' /\ settled' = settled
  BY <1>2, CommitFresh DEF Commit, Committing
<1>3. ASSUME NEW h \in Handlers, SettleSpawn(h)
      PROVE  /\ inFlight' \subseteq inFlight
             /\ c \in inFlight \ settled =>
                  \/ c \in inFlight' \ settled'
                  \/ c \notin live \/ rows[c] # NoRow
             /\ sweepActive => inFlight' = inFlight
  BY <1>3, SettlesRowed DEF SettleSpawn
<1>4. ASSUME NEW g \in Goroutines, WriteRow(g) \/ DeleteRow(g)
      PROVE  UNCHANGED <<inFlight, settled>>
  BY <1>4 DEF WriteRow, DeleteRow, record
<1>5. CASE SweepStart \/ ListSpawnedChannels
  BY <1>5 DEF SweepStart, ListSpawnedChannels, record
<1>6. CASE FinishSweep
  BY <1>6 DEF FinishSweep, EndSweep
<1> QED
  BY <1>0, <1>1, <1>2, <1>3, <1>4, <1>5, <1>6, MostRecordStill

LEMMA RowedStep ==
  ASSUME TypeOK, TypeOK', SpawnInv, RecordInv, Frame, [Next]_vars
  PROVE  Rowed'
<1>0. Rowed
  BY ZenonT(30) DEF RecordInv
<1>1. ASSUME NEW h \in Handlers, NEW c, Committing(h, c)
      PROVE  c \in tracked' /\ c \in inFlight' \ settled'
  BY <1>1, CommittingCreated, CommitFresh DEF Committing, Known, SpawnInv,
     InFlightAccounted, Commit
<1>2. ASSUME NEW c \in inFlight', c \in live' PROVE c \in tracked'
  BY <1>0, <1>1, <1>2, LivedBefore, InFlightStep DEF TypeOK, SpawnInv, Rowed, Frame
<1>3. ASSUME NEW c \in tracked', c \in live' PROVE c \in inFlight' \ settled' \/ rows'[c] # NoRow
  BY <1>0, <1>1, <1>3, InFlightStep, RowsStep, TrackedStep DEF TypeOK, Rowed
<1> QED
  BY <1>2, <1>3 DEF Rowed

----------------------------------------------------------------------------
(* A spawn that settles has its row                                        *)

LEMMA SettlingHolds ==
  ASSUME TypeOK, SpawnInv, NEW h \in Handlers, Settling(h)
  PROVE  /\ Carries(h) /\ Holds(h) /\ Last(h).c \in created /\ Last(h).c \in Channels
         /\ Last(h).c \in inFlight \ settled
  BY DEF Settling, Carries, Holds, SpawnInv, InFlightAccounted, TypeOK

(* Handler h keeps the end of its sections, and what it drops of them is   *)
(* no row still to come of a channel that lives.                           *)
LEMMA SettleOn ==
  ASSUME TypeOK, SpawnInv, RecordInv, Frame, [Next]_vars, NEW h \in Handlers,
         Same(run[h], run'[h]), Settling(h)',
         NEW S, Seen(run'[h]) \subseteq Seen(run[h]) \cup S,
         \A i \in S : i.c = Head(run[h]).c /\ Head(run[h]) \in Seen(run[h]),
         Settling(h) => \A i \in Seen(run[h]) :
           i.op \in {"keep", "writeRow"} =>
             \/ \E j \in Seen(run'[h]) : j.op \in {"keep", "writeRow"}
             \/ i.c \notin live' \/ rows'[i.c] # NoRow
  PROVE  SettlesOf(h)'
<1>1. Settling(h) /\ Last(h)' = Last(h)
  BY DEF Same, Bears, Settling, Last, Fin, CarryOps
<1>2. Last(h).c \in created /\ Last(h).c \in Channels
  BY <1>1, SettlingHolds
<1>3. /\ \A i \in Seen(run[h]) : i.c = Last(h).c
      /\ \/ Last(h).c \notin live \/ rows[Last(h).c] # NoRow
         \/ \E i \in Seen(run[h]) : i.op \in {"keep", "writeRow"}
  BY <1>1 DEF RecordInv, Settles, SettlesOf, Settling
<1>4. \A i \in Seen(run'[h]) : i.c = Last(h).c
  BY <1>3
<1>5. \/ Last(h).c \notin live' \/ rows'[Last(h).c] # NoRow
      \/ \E i \in Seen(run'[h]) : i.op \in {"keep", "writeRow"}
  BY <1>1, <1>2, <1>3, RowsStep DEF Frame
<1>6. PICK l : l = Last(h)
  OBVIOUS
<1>7. Last(h)' = l
  BY <1>1, <1>6
<1>8. /\ \A i \in Seen(run[h])' : i.c = l.c
      /\ \/ l.c \notin live' \/ rows'[l.c] # NoRow
         \/ \E i \in Seen(run[h])' : i.op \in {"keep", "writeRow"}
  BY <1>4, <1>5, <1>6
<1> QED
  BY <1>7, <1>8 DEF SettlesOf

LEMMA SettleIdle ==
  ASSUME TypeOK, SpawnInv, RecordInv, Frame, [Next]_vars, NEW h \in Handlers,
         run'[h] = run[h]
  PROVE  SettlesOf(h)'
<1> SUFFICES ASSUME Settling(h)' PROVE SettlesOf(h)'
  BY DEF SettlesOf
<1>1. Same(run[h], run'[h])
  BY SameRefl
<1>2. PICK S : S = {}
  OBVIOUS
<1>3. Seen(run'[h]) \subseteq Seen(run[h]) \cup S
  OBVIOUS
<1>4. \A i \in S : i.c = Head(run[h]).c /\ Head(run[h]) \in Seen(run[h])
  BY <1>2
<1>5. \A i \in Seen(run[h]) : i.op \in {"keep", "writeRow"} =>
        \E j \in Seen(run'[h]) : j.op \in {"keep", "writeRow"}
  OBVIOUS
<1> QED
  BY <1>1, <1>3, <1>4, <1>5, SettleOn

LEMMA CallSettles ==
  ASSUME TypeOK, SpawnInv, RecordInv, Frame, [Next]_vars, NEW h \in Handlers, CallStep(h)
  PROVE  SettlesOf(h)'
<1> SUFFICES ASSUME Settling(h)' PROVE SettlesOf(h)'
  BY DEF SettlesOf
<1>0. h \in Goroutines /\ allowed["storeFault"] = 0 /\ <<>> \in Seq(Item) /\ Seen(<<>>) = {}
  BY SeenNone DEF Goroutines, RecordInv, Faultless
<1>1. Same(run[h], run'[h])
  BY <1>0, CallRuns DEF RunSame
<1>2. run[h] # <<>> /\ run[h] \in Seq(Item)
  BY <1>0 DEF CallStep, WriteRow, DeleteRow, DeleteIfStillEmpty, ChannelDelete, UntrackDeleted,
     At, TypeOK
<1>3. PICK i, rest : i = Head(run[h]) /\ rest = Tail(run[h])
  OBVIOUS
<1>4. Seen(run[h]) = {i} \cup Seen(rest) /\ rest \in Seq(Item) /\ i \in Seen(run[h])
  BY <1>2, <1>3, SeenParts
<1>5. ASSUME Settling(h) PROVE \A j \in Seen(run[h]) : j.c = Last(h).c
  BY <1>5 DEF RecordInv, Settles, SettlesOf, Settling
<1>6. ASSUME \A j \in Seen(run'[h]) : j \in Seen(run[h]) \/ j.c = i.c,
             Settling(h) => \A k \in Seen(run[h]) :
               k.op \in {"keep", "writeRow"} =>
                 \/ \E j \in Seen(run'[h]) : j.op \in {"keep", "writeRow"}
                 \/ k.c \notin live' \/ rows'[k.c] # NoRow
      PROVE  SettlesOf(h)'
  <2>1. PICK S : S = Seen(run'[h]) \ Seen(run[h])
    OBVIOUS
  <2>2. /\ Seen(run'[h]) \subseteq Seen(run[h]) \cup S
        /\ \A j \in S : j.c = Head(run[h]).c /\ Head(run[h]) \in Seen(run[h])
    BY <1>3, <1>4, <1>6, <2>1
  <2> QED
    BY <1>1, <1>6, <2>2, SettleOn
<1>7. CASE WriteRow(h)
  <2>1. At(h, "writeRow") /\ Goes(h, <<>>)
    BY <1>7 DEF WriteRow
  <2>2. Seen(run'[h]) = Seen(rest)
    BY ZenonT(30), <1>0, <1>2, <1>3, <2>1, WorkGoes
  <2>3. i.c \in Channels /\ i.n \in Nat /\ i.u \in Users \cup {NoOne}
    BY <1>0, <1>3, <2>1, RunsKnown DEF PastOps
  <2>4. rows' = [rows EXCEPT ![i.c] = [owner |-> i.u, number |-> i.n]]
    BY <1>0, <1>3, <1>7 DEF WriteRow, Spend
  <2>5. rows'[i.c] # NoRow
    BY <2>3, <2>4, ConstantsAssumption DEF TypeOK
  <2> QED
    BY <1>4, <1>6, <2>2, <2>5
<1>8. CASE DeleteRow(h)
  <2>1. At(h, "deleteRow") /\ Goes(h, <<>>) /\ i.op = "deleteRow"
    BY <1>3, <1>8 DEF DeleteRow, At
  <2>2. Seen(run'[h]) = Seen(rest)
    BY ZenonT(30), <1>0, <1>2, <1>3, <2>1, WorkGoes
  <2> QED
    BY <1>4, <1>6, <2>1, <2>2
<1>9. CASE DeleteIfStillEmpty(h)
  <2>1. At(h, "deleteIfStillEmpty") /\ i.op = "deleteIfStillEmpty" /\ live' = live
    BY <1>3, <1>9 DEF DeleteIfStillEmpty, At, discord
  <2>2. i.c \in Channels
    BY <1>0, <1>3, <2>1, RunsKnown DEF PastOps
  <2>3. PICK x : x = Do("ChannelDelete", i.c, NoOne, 0)
    OBVIOUS
  <2>4. x \in Item /\ x.c = i.c /\ <<x>> \in Seq(Item) /\ Seen(<<x>>) = {x}
    BY <2>2, <2>3, LaterItems, DoParts, SeenSome
  <2>5. Seen(<<x>> \o rest) = {x} \cup Seen(rest)
    BY <1>4, <2>4, SeenConcat
  <2>6. \/ run' = [run EXCEPT ![h] = rest] \/ run' = [run EXCEPT ![h] = <<x>> \o rest]
        \/ i.c \notin tracked /\ run' = [run EXCEPT ![h] = AfterDelete(rest)]
    BY <1>3, <1>9, <2>3 DEF DeleteIfStillEmpty
  <2>7. \/ run'[h] = rest \/ run'[h] = <<x>> \o rest
        \/ i.c \notin tracked /\ run'[h] = AfterDelete(rest)
    BY <1>0, <2>6 DEF TypeOK
  <2>8. CASE run'[h] = rest \/ run'[h] = <<x>> \o rest
    BY <1>4, <1>6, <2>1, <2>4, <2>5, <2>8
  <2>9. CASE i.c \notin tracked /\ run'[h] = AfterDelete(rest)
    BY <1>4, <1>5, <1>6, <2>1, <2>9, SeenAfterDelete, SettlingHolds, CarriedTracked
  <2> QED
    BY <2>7, <2>8, <2>9
<1>10. CASE ChannelDelete(h)
  <2>1. At(h, "ChannelDelete") /\ i.op = "ChannelDelete"
    BY <1>3, <1>10 DEF ChannelDelete, At
  <2>2. i.c \in Channels
    BY <1>0, <1>3, <2>1, RunsKnown DEF PastOps
  <2>3. PICK x : x = Do("untrack", i.c, NoOne, 0)
    OBVIOUS
  <2>4. x \in Item /\ x.c = i.c /\ <<x>> \in Seq(Item) /\ Seen(<<x>>) = {x}
    BY <2>2, <2>3, LaterItems, DoParts, SeenSome
  <2>5. Goes(h, <<>>) \/ Goes(h, <<x>>)
    BY <1>3, <1>10, <2>3 DEF ChannelDelete
  <2>6. Seen(run'[h]) = Seen(rest) \/ Seen(run'[h]) = {x} \cup Seen(rest)
    BY ZenonT(60), <1>0, <1>2, <1>3, <2>4, <2>5, WorkGoes
  <2> QED
    BY <1>4, <1>6, <2>1, <2>4, <2>6
<1>11. CASE UntrackDeleted(h)
  <2>1. At(h, "untrack") /\ live' = live
    BY <1>11 DEF UntrackDeleted, discord
  <2>2. i.c \in Channels /\ i.c \notin live
    BY <1>0, <1>3, <2>1, RunsKnown DEF PastOps, Fits, GoneOps
  <2>3. PICK x : x = Do("deleteRow", i.c, NoOne, 0)
    OBVIOUS
  <2>4. x \in Item /\ x.c = i.c /\ <<x>> \in Seq(Item) /\ Seen(<<x>>) = {x}
    BY <2>2, <2>3, LaterItems, DoParts, SeenSome
  <2>5. AfterDelete(rest) \in Seq(Item) /\ Seen(AfterDelete(rest)) \subseteq Seen(rest)
    BY <1>4, SeenAfterDelete
  <2>6. Seen(<<x>> \o AfterDelete(rest)) = {x} \cup Seen(AfterDelete(rest))
    BY <2>4, <2>5, SeenConcat
  <2>7. run'[h] = <<x>> \o AfterDelete(rest)
    BY <1>0, <1>3, <1>11, <2>3 DEF UntrackDeleted, TypeOK
  <2>8. ASSUME Settling(h), NEW k \in Seen(run[h]) PROVE k.c \notin live'
    BY <1>4, <1>5, <2>1, <2>2, <2>8
  <2> QED
    BY <1>4, <1>6, <2>4, <2>5, <2>6, <2>7, <2>8
<1> QED
  BY <1>7, <1>8, <1>9, <1>10, <1>11 DEF CallStep

(* A handler that goes on ends on what it goes on to.                      *)
LEMMA EndsGoOn ==
  ASSUME TypeOK, SpawnInv, NEW h \in Handlers, NEW op \in EndOps, At(h, op),
         NEW q \in Seq(Item), Goes(h, q)
  PROVE  run'[h] = q /\ Last(h)' = Fin(q)
  BY LastSection DEF Goroutines, SpawnInv, TypeOK, Last, Fin

LEMMA EndsLone ==
  ASSUME TypeOK, SpawnInv, NEW h \in Handlers, NEW op \in EndOps, At(h, op),
         NEW x, Goes(h, <<x>>)
  PROVE  run'[h] = <<x>> /\ Last(h)' = x
<1>1. h \in Goroutines /\ run[h] \in Seq(Item) /\ run[h] # <<>> /\ Plain(run[h])
  BY DEF TypeOK, Goroutines, SpawnInv, At
<1>2. Head(run[h]).op \in EndOps
  BY DEF At
<1>3. Len(run[h]) \in Nat /\ Len(run[h]) >= 1 /\ run[h][1] = Head(run[h])
  BY <1>1, EmptySeq, LenProperties, HeadTailProperties
<1>4. Len(run[h]) = 1
  BY <1>1, <1>2, <1>3 DEF Plain
<1>5. Tail(run[h]) = <<>>
  BY <1>1, <1>4, FinTail
<1>6. <<x>> \in Seq({x}) /\ <<x>> \o <<>> = <<x>>
  BY ConcatProperties
<1>7. run'[h] = <<x>>
  BY <1>1, <1>5, <1>6 DEF Goes, TypeOK
<1> QED
  BY <1>7 DEF Last

(* A handler whose next section is the one it ends on, and no settling.    *)
LEMMA SettlesNotYet ==
  ASSUME TypeOK, SpawnInv, NEW h \in Handlers, NEW op \in EndOps, At(h, op),
         \/ Goes(h, <<>>)
         \/ \E next \in EndOps \ {"settleSpawn"} : \E c, u, n :
              Goes(h, <<Do(next, c, u, n)>>)
  PROVE  ~Settling(h)'
<1>1. CASE Goes(h, <<>>)
  <2>1. <<>> \in Seq(Item)
    OBVIOUS
  <2>2. run'[h] = <<>>
    BY <1>1, <2>1, EndsGoOn
  <2> QED
    BY <2>2 DEF Settling
<1>2. ASSUME NEW next \in EndOps \ {"settleSpawn"}, NEW c, NEW u, NEW n,
             Goes(h, <<Do(next, c, u, n)>>)
      PROVE  ~Settling(h)'
  BY <1>2, EndsLone, DoParts DEF Settling
<1> QED
  BY <1>1, <1>2

(* A channel that is kept goes on to its row.                              *)
LEMMA KeepGoes ==
  ASSUME TypeOK, SpawnInv, RecordInv, NEW h \in Handlers, Keep(h)
  PROVE  \E x : /\ x \in Item /\ x.op = "writeRow" /\ x.c = Head(run[h]).c
                /\ Head(run[h]) \in Seen(run[h])
                /\ Seen(run'[h]) \subseteq Seen(run[h]) \cup {x} /\ x \in Seen(run'[h])
                /\ Same(run[h], run'[h])
<1>0. h \in Goroutines /\ At(h, "keep") /\ run[h] # <<>> /\ Head(run[h]).op = "keep"
  BY DEF Goroutines, Keep, At
<1>1. PICK i, e, n : i = Head(run[h]) /\ e = Elect(Confirmed(i.c, occupants), ladder)
                     /\ n = channelIndex[i.c]
  OBVIOUS
<1>2. i.c \in Channels /\ i \in Seen(run[h])
  BY <1>0, <1>1, RunsKnown DEF PastOps
<1>3. PICK x : x = Do("writeRow", i.c, e, n)
  OBVIOUS
<1>4. x \in Item /\ x.op = "writeRow" /\ x.c = i.c
  <2>1. occupants[i.c] \subseteq Users /\ n \in Nat /\ "writeRow" \in ChannelOps
    BY <1>1, <1>2 DEF TypeOK, ChannelOps
  <2>2. Confirmed(i.c, occupants) \subseteq Users
    BY <2>1 DEF Confirmed
  <2>3. e \in Users \cup {NoOne}
    BY <1>1, <2>2, ElectType
  <2>4. "writeRow" \in ChannelOps /\ n \in Nat
    BY <2>1
  <2>5. Do("writeRow", i.c, e, n) \in Item
    BY <1>2, <2>3, <2>4, DoChannelItem
  <2> QED
    BY <1>3, <2>5, DoParts
<1>5. Goes(h, <<x>>)
  BY <1>1, <1>3 DEF Keep
<1>6. <<x>> \in Seq(Item) /\ Seen(<<x>>) = {x}
  BY <1>4, SeenSome
<1>7. /\ Seen(run'[h]) = {x} \cup Seen(Tail(run[h]))
      /\ Seen(run[h]) = {i} \cup Seen(Tail(run[h]))
  BY <1>0, <1>1, <1>5, <1>6, WorkGoes
<1>8. Same(run[h], run'[h])
  BY <1>0, <1>4, <1>5, GoesSame DEF SpawnInv, EndOps, CarryOps, ReserveOps
<1> QED
  BY <1>1, <1>2, <1>4, <1>7, <1>8

LEMMA SpawnSettles ==
  ASSUME TypeOK, SpawnInv, RecordInv, Frame, [Next]_vars, NEW h \in Handlers, SpawnStep(h)
  PROVE  SettlesOf(h)'
<1>0. /\ h \in Goroutines
      /\ \A op \in {"handleHubJoin", "create", "commit", "moveCheck", "move", "readOwner",
                    "abandonSpawn", "settleSpawn"} : op \in EndOps
  BY DEF Goroutines, EndOps, CarryOps, ReserveOps
<1> DEFINE On == \/ Goes(h, <<>>)
                 \/ \E next \in EndOps \ {"settleSpawn"} : \E c, u, n :
                      Goes(h, <<Do(next, c, u, n)>>)
<1>1. ASSUME NEW op \in EndOps, At(h, op), On PROVE SettlesOf(h)'
  BY <1>1, SettlesNotYet DEF SettlesOf
<1>2. CASE HubJoin(h)
  BY <1>0, <1>1, <1>2 DEF HubJoin
<1>3. CASE Create(h)
  BY <1>0, <1>1, <1>3 DEF Create
<1>4. CASE Commit(h)
  BY <1>0, <1>1, <1>4 DEF Commit
<1>5. CASE MoveCheck(h)
  BY <1>0, <1>1, <1>5 DEF MoveCheck
<1>6. CASE GuildMemberMove(h)
  BY <1>0, <1>1, <1>6 DEF GuildMemberMove
<1>7. CASE SettleSpawn(h)
  BY <1>0, <1>1, <1>7 DEF SettleSpawn
<1>8. CASE ReadOwner(h)
  <2>1. At(h, "readOwner")
    BY <1>8 DEF ReadOwner
  <2>2. PICK i : i = Head(run[h])
    OBVIOUS
  <2>3. i.c \in Channels /\ i.n \in Nat
    BY <1>0, <2>1, <2>2, RunsKnown DEF PastOps
  <2>4. PICK x, y : /\ x = Do("writeRow", i.c, owners[i.c], i.n)
                    /\ y = Do("settleSpawn", i.c, NoOne, 0)
    OBVIOUS
  <2>5. /\ x \in Item /\ x.op = "writeRow" /\ x.c = i.c
        /\ y \in Item /\ y.op = "settleSpawn" /\ y.c = i.c
    <3>1. owners[i.c] \in Users \cup {NoOne} /\ "writeRow" \in ChannelOps
          /\ "settleSpawn" \in ChannelOps
      BY <2>3 DEF TypeOK, ChannelOps
    <3> QED
      BY <2>3, <2>4, <3>1, DoChannel, DoNobody
  <2>6. Goes(h, <<x, y>>)
    BY <1>8, <2>2, <2>4 DEF ReadOwner
  <2>7. x.op \notin EndOps
    BY <2>5 DEF EndOps, CarryOps, ReserveOps
  <2>8. run'[h] = <<x, y>> /\ Last(h)' = y
    BY <1>0, <2>1, <2>5, <2>6, <2>7, FinOfTwo, EndsGoOn
  <2>9. Seen(run[h])' = {x, y}
    BY <2>5, <2>8, SeenTwo
  <2> QED
    BY <2>5, <2>8, <2>9 DEF SettlesOf
<1>9. CASE AbandonSpawn(h)
  <2>1. At(h, "abandonSpawn")
    BY <1>9 DEF AbandonSpawn
  <2>2. PICK i : i = Head(run[h])
    OBVIOUS
  <2>3. i.c \in Channels /\ i.u \in Users \cup {NoOne} /\ 0 \in Nat
    BY <1>0, <2>1, <2>2, RunsKnown DEF PastOps
  <2>4. PICK x, y, z : /\ x = Do("deleteIfStillEmpty", i.c, i.u, 0)
                       /\ y = Do("keep", i.c, NoOne, 0)
                       /\ z = Do("settleSpawn", i.c, NoOne, 0)
    OBVIOUS
  <2>5. /\ x \in Item /\ x.op = "deleteIfStillEmpty" /\ x.c = i.c
        /\ y \in Item /\ y.op = "keep" /\ y.c = i.c
        /\ z \in Item /\ z.op = "settleSpawn" /\ z.c = i.c
    BY <2>3, <2>4, DoChannel, DoNobody DEF ChannelOps
  <2>6. Goes(h, <<x, y, z>>)
    BY <1>9, <2>2, <2>4 DEF AbandonSpawn
  <2>7. x.op \notin EndOps /\ y.op \notin EndOps
    BY <2>5 DEF EndOps, CarryOps, ReserveOps
  <2>8. run'[h] = <<x, y, z>> /\ Last(h)' = z
    <3>1. <<x, y, z>> \in Seq(Item) /\ Fin(<<x, y, z>>) = z /\ "abandonSpawn" \in EndOps
      BY <1>0, <2>5, <2>7, FinOfThree
    <3> QED
      BY <2>1, <2>6, <3>1, EndsGoOn
  <2>9. Seen(run[h])' = {x, y, z}
    BY <2>5, <2>8, SeenThree
  <2> QED
    BY <2>5, <2>8, <2>9 DEF SettlesOf
<1>10. CASE Keep(h)
  <2> SUFFICES ASSUME Settling(h)' PROVE SettlesOf(h)'
    BY DEF SettlesOf
  <2>1. PICK x : /\ x \in Item /\ x.op = "writeRow" /\ x.c = Head(run[h]).c
                 /\ Head(run[h]) \in Seen(run[h])
                 /\ Seen(run'[h]) \subseteq Seen(run[h]) \cup {x} /\ x \in Seen(run'[h])
                 /\ Same(run[h], run'[h])
    BY <1>10, KeepGoes
  <2>2. PICK S : S = {x}
    OBVIOUS
  <2>3. /\ Seen(run'[h]) \subseteq Seen(run[h]) \cup S
        /\ \A j \in S : j.c = Head(run[h]).c /\ Head(run[h]) \in Seen(run[h])
    BY <2>1, <2>2
  <2>4. \E j \in Seen(run'[h]) : j.op \in {"keep", "writeRow"}
    BY <2>1
  <2> QED
    BY <2>1, <2>3, <2>4, SettleOn
<1> QED
  BY <1>2, <1>3, <1>4, <1>5, <1>6, <1>7, <1>8, <1>9, <1>10 DEF SpawnStep

(* An event's handler takes up no spawn.                                   *)
LEMMA HandleSettles ==
  ASSUME TypeOK, SpawnInv, SpawnInv', RecordInv, Frame, [Next]_vars, NEW h \in Handlers,
         Handle(h)
  PROVE  SettlesOf(h)'
<1> SUFFICES ASSUME Settling(h)' PROVE FALSE
  BY Zenon DEF SettlesOf
<1>0. h \in Goroutines /\ Idle(h) /\ UNCHANGED <<inFlight, settled>>
      /\ (run' = run \/ \E q : run' = [run EXCEPT ![h] = q])
  BY Zenon DEF Goroutines, Handle, DropStale, VoiceUpdate, ChannelDeleteEvent, record
<1>1. \A k \in Handlers \ {h} : run'[k] = run[k]
  BY <1>0 DEF TypeOK, Goroutines
<1>2. PICK c : c = Last(h)'.c
  OBVIOUS
<1>3. Carries(h)' /\ Holds(h)'
  BY DEF Settling, Carries, Holds
<1>4. c \in inFlight \ settled
  BY <1>0, <1>2, <1>3 DEF SpawnInv, InFlightAccounted
<1>5. PICK k \in Handlers : Carries(k) /\ Last(k).c = c
  BY <1>4 DEF SpawnInv, InFlightAccounted
<1>6. k # h
  BY <1>0, <1>5 DEF Carries, Idle
<1>7. Holds(k)' /\ Last(k)'.c = c
  BY <1>1, <1>5, <1>6 DEF Carries, Holds, Last
<1> QED
  BY <1>2, <1>3, <1>6, <1>7 DEF SpawnInv

(* Whose sections a step changes.                                          *)
LEMMA WhoRuns ==
  ASSUME [Next]_vars, Faultless, TypeOK, NEW h \in Handlers
  PROVE  run'[h] = run[h] \/ Handle(h) \/ SpawnStep(h) \/ CallStep(h)
<1>0. /\ Handlers \subseteq Goroutines /\ Sweep \in Goroutines /\ Panel \in Goroutines
      /\ Sweep \notin Handlers /\ Panel \notin Handlers
  BY ConstantsAssumption DEF Goroutines
<1>1. CASE Environment
  BY <1>1 DEF Restart, Spend, Faultless, Environment, Move, HandDelete,
     DeleteReachesCache, Outage, GuildCreate
<1>2. ASSUME NEW g \in Goroutines, g # h, run' = run \/ \E q : run' = [run EXCEPT ![g] = q]
      PROVE  run'[h] = run[h]
  BY Zenon, <1>0, <1>2 DEF TypeOK
<1>3. ASSUME NEW k \in Handlers, Handle(k) \/ SpawnStep(k)
      PROVE  run' = run \/ \E q : run' = [run EXCEPT ![k] = q]
  BY ZenonT(30), <1>3 DEF Handle, DropStale, VoiceUpdate, ChannelDeleteEvent, SpawnStep, HubJoin, Create,
     Commit, MoveCheck, GuildMemberMove, ReadOwner, SettleSpawn, AbandonSpawn, Keep, Goes
<1>4. ASSUME NEW g \in Goroutines, CallStep(g)
      PROVE  run' = run \/ \E q : run' = [run EXCEPT ![g] = q]
  BY <1>4 DEF CallStep, WriteRow, DeleteRow, DeleteIfStillEmpty, ChannelDelete,
     UntrackDeleted, Goes
<1>5. CASE SweepStep \/ PanelStep
  BY <1>0, <1>2, <1>4, <1>5 DEF NextCall, SweepStart, ListSpawnedChannels, Rebuild,
     FinishSweep, EndSweep, Goes, SweepStep, PanelStep
<1>6. ASSUME NEW lad \in Ladders, ApplyRankRoles(lad) PROVE run' = run
  BY <1>6 DEF ApplyRankRoles
<1>7. ASSUME NEW k \in Handlers, Handle(k) \/ SpawnStep(k) \/ CallStep(k)
      PROVE  run'[h] = run[h] \/ Handle(h) \/ SpawnStep(h) \/ CallStep(h)
  BY <1>0, <1>2, <1>3, <1>4, <1>7
<1>8. CASE UNCHANGED vars
  BY <1>8 DEF vars
<1> QED
  BY <1>1, <1>5, <1>6, <1>7, <1>8 DEF Next, Rest

LEMMA SettlesStep ==
  ASSUME TypeOK, SpawnInv, SpawnInv', RecordInv, Frame, [Next]_vars
  PROVE  Settles'
  BY WhoRuns, SettleIdle, HandleSettles, SpawnSettles, CallSettles DEF RecordInv, Settles,
     SettlesOf, Settling

----------------------------------------------------------------------------
(* A sweep that will rebuild has every channel that lives at hand          *)

LEMMA SweepGains ==
  ASSUME TypeOK, SpawnInv, RecordInv, Frame, [Next]_vars,
         NEW i \in Work(Sweep)', i.op = "rebuild"
  PROVE  (\E j \in Work(Sweep) : j.op = "rebuild") \/ ListSpawnedChannels
  BY WorkStep DEF Goroutines, Gained, Gains, Work

(* Only a list and a sweep's end change what the sweep has listed.         *)
LEMMA ListedKeeps ==
  ASSUME [Next]_vars, Faultless, ~ListSpawnedChannels, ~FinishSweep
  PROVE  listed' = listed
<1>1. CASE RecordStill
  BY <1>1 DEF RecordStill
<1>2. ASSUME NEW h \in Handlers, Commit(h) \/ SettleSpawn(h) PROVE listed' = listed
  BY <1>2 DEF Commit, SettleSpawn
<1>3. ASSUME NEW g \in Goroutines, WriteRow(g) \/ DeleteRow(g) PROVE listed' = listed
  BY <1>3 DEF WriteRow, DeleteRow
<1>4. CASE SweepStart
  BY <1>4 DEF SweepStart
<1> QED
  BY <1>1, <1>2, <1>3, <1>4, MostRecordStill

(* A sweep that is not under way has nothing to run.                       *)
LEMMA SweepIdle ==
  ASSUME TypeOK, SpawnInv, RecordInv, [Next]_vars, ~sweepActive'
  PROVE  Idle(Sweep)'
<1>0. /\ Sweep \in Goroutines /\ Sweep \notin Handlers /\ Panel # Sweep
      /\ Panel \in Goroutines /\ Handlers \subseteq Goroutines
      /\ ~sweepActive => Idle(Sweep)
  BY ConstantsAssumption DEF Goroutines, RecordInv, Sweeping
<1>1. ~Restart
  BY DEF Restart, Spend, RecordInv, Faultless
<1>2. ASSUME NEW g \in Goroutines, g # Sweep, sweepActive' = sweepActive,
             run' = run \/ \E q : run' = [run EXCEPT ![g] = q],
             todo' = todo \/ \E q : todo' = [todo EXCEPT ![g] = q]
      PROVE  Idle(Sweep)'
  BY <1>0, <1>2 DEF TypeOK, Idle
<1>3. CASE Environment
  BY <1>0, <1>1, <1>3 DEF Environment, Move, HandDelete, DeleteReachesCache, Outage,
     GuildCreate, record, Idle
<1>4. ASSUME NEW k \in Handlers, Handle(k) \/ SpawnStep(k) PROVE Idle(Sweep)'
  <2>1. /\ UNCHANGED <<sweepActive, todo>>
        /\ run' = run \/ \E q : run' = [run EXCEPT ![k] = q]
    BY ZenonT(30), <1>4 DEF Handle, DropStale, VoiceUpdate, ChannelDeleteEvent, SpawnStep, HubJoin, Create,
       Commit, MoveCheck, GuildMemberMove, ReadOwner, SettleSpawn, AbandonSpawn, Keep, Goes,
       record
  <2> QED
    BY Zenon, <1>0, <1>2, <2>1
<1>5. ASSUME NEW g \in Goroutines, g # Sweep, CallStep(g) \/ NextCall(g) PROVE Idle(Sweep)'
  BY <1>2, <1>5 DEF CallStep, WriteRow, DeleteRow, DeleteIfStillEmpty, ChannelDelete,
     UntrackDeleted, Goes, NextCall, record
<1>6. CASE SweepStep
  <2>1. CASE SweepStart
    BY <2>1 DEF SweepStart
  <2>2. CASE FinishSweep
    BY <2>2 DEF FinishSweep, EndSweep, Idle
  <2>3. CASE ListSpawnedChannels \/ Rebuild \/ NextCall(Sweep) \/ CallStep(Sweep)
    BY <1>0, <2>3 DEF ListSpawnedChannels, Rebuild, NextCall, CallStep, WriteRow,
       DeleteRow, DeleteIfStillEmpty, ChannelDelete, UntrackDeleted, record, Idle, At
  <2> QED
    BY <1>6, <2>1, <2>2, <2>3 DEF SweepStep
<1>7. ASSUME NEW lad \in Ladders, ApplyRankRoles(lad) PROVE Idle(Sweep)'
  BY <1>0, <1>2, <1>7 DEF ApplyRankRoles
<1>8. CASE UNCHANGED vars
  BY <1>0, <1>8 DEF vars, record, Idle
<1> QED
  BY <1>0, <1>3, <1>4, <1>5, <1>6, <1>7, <1>8 DEF Next, PanelStep, Rest

LEMMA SweepingStep ==
  ASSUME TypeOK, TypeOK', SpawnInv, RecordInv, Frame, [Next]_vars
  PROVE  Sweeping'
<1>0. /\ Faultless /\ Sweep \in Goroutines
      /\ ~sweepActive => Idle(Sweep)
      /\ (\E i \in Work(Sweep) : i.op = "rebuild") =>
           \A c \in tracked \cap live : c \in inFlight \/ listed[c] # NoRow
      /\ \A c \in tracked \cap live : c \in inFlight \ settled \/ rows[c] # NoRow
  BY DEF RecordInv, Sweeping, Goroutines, Rowed
<1>1. ASSUME NEW i \in Work(Sweep)', i.op = "rebuild", NEW c \in tracked', c \in live'
      PROVE  c \in inFlight' \/ listed'[c] # NoRow
  <2>1. c \in Channels
    BY ZenonT(30), <1>1 DEF TypeOK
  <2>2. CASE \E h \in Handlers : Committing(h, c)
    BY <2>2, CommittingCreated, CommitFresh DEF Committing, Commit
  <2>3. CASE c \in tracked /\ c \in live /\ ListSpawnedChannels
    BY <1>0, <2>3 DEF ListSpawnedChannels, Spend, Faultless, record
  <2>4. CASE /\ c \in tracked /\ c \in live
             /\ \E j \in Work(Sweep) : j.op = "rebuild"
             /\ ~ListSpawnedChannels
    BY <1>0, <2>1, <2>4, SeenNone, InFlightStep, ListedKeeps DEF Work, Idle, FinishSweep
  <2> QED
    BY <1>1, <2>2, <2>3, <2>4, TrackedStep, SweepGains
<1> QED
  BY <1>1, SweepIdle DEF Sweeping

----------------------------------------------------------------------------
(* The cache, the numbers and the invariant as a whole                     *)

LEMMA CachedStep ==
  ASSUME TypeOK, TypeOK', SpawnInv, RecordInv, Frame, [Next]_vars
  PROVE  Cached'
<1>0. /\ live \subseteq created /\ cached \subseteq created /\ chDeletes \subseteq created
      /\ present => live \subseteq cached
      /\ chDeletes \cap live = {} /\ created \subseteq created'
      /\ live' \ live \subseteq created' \ created
  BY DEF RecordInv, Cached, Frame
<1>1. live' \subseteq created'
  BY <1>0
<1>2. ASSUME NEW c \in tracked' PROVE c \in created'
  BY <1>0, <1>2, KnownStep, KnownCreated, CommittingCreated DEF TypeOK, Known
<1>3. \/ UNCHANGED <<live, created, cached, present, chDeletes>>
      \/ Environment
      \/ \E h \in Handlers : Create(h) \/ ChannelDeleteEvent(h)
      \/ \E g \in Goroutines : ChannelDelete(g)
  <2>0. Handlers \subseteq Goroutines /\ Sweep \in Goroutines /\ Panel \in Goroutines
    BY Zenon DEF Goroutines
  <2>1. ASSUME NEW h \in Handlers, Handle(h) \/ SpawnStep(h)
        PROVE  \/ UNCHANGED <<live, created, cached, present, chDeletes>>
               \/ Create(h) \/ ChannelDeleteEvent(h)
    BY Zenon, <2>1 DEF Handle, DropStale, VoiceUpdate, SpawnStep, HubJoin, Commit, MoveCheck,
       GuildMemberMove, ReadOwner, SettleSpawn, AbandonSpawn, Keep, discord
  <2>2. ASSUME NEW g \in Goroutines, CallStep(g) \/ NextCall(g)
        PROVE  UNCHANGED <<live, created, cached, present, chDeletes>> \/ ChannelDelete(g)
    BY <2>2 DEF CallStep, WriteRow, DeleteRow, DeleteIfStillEmpty, UntrackDeleted, NextCall,
       discord
  <2>3. CASE SweepStart \/ ListSpawnedChannels \/ Rebuild \/ FinishSweep
    BY <2>3 DEF SweepStart, ListSpawnedChannels, Rebuild, FinishSweep, EndSweep, discord
  <2>4. ASSUME NEW lad \in Ladders, ApplyRankRoles(lad)
        PROVE  UNCHANGED <<live, created, cached, present, chDeletes>>
    BY <2>4 DEF ApplyRankRoles, discord
  <2>5. CASE UNCHANGED vars
    BY <2>5 DEF vars, discord
  <2> QED
    BY <2>0, <2>1, <2>2, <2>3, <2>4, <2>5 DEF Next, SweepStep, PanelStep, Rest
<1> DEFINE Rests == /\ cached' \cup chDeletes' \subseteq created'
                    /\ present' => live' \subseteq cached'
                    /\ chDeletes' \cap live' = {}
<1>4. CASE UNCHANGED <<live, created, cached, present, chDeletes>>
  BY <1>0, <1>1, <1>2, <1>4 DEF Cached
<1>5. CASE Environment
  BY <1>0, <1>1, <1>2, <1>5 DEF Restart, Spend, RecordInv, Faultless, HandDelete,
     DeleteReachesCache, GuildCreate, Outage, Move, Environment, Cached
<1>6. ASSUME NEW h \in Handlers, Create(h) PROVE Rests
  BY <1>0, <1>6 DEF Create
<1>7. ASSUME NEW h \in Handlers, ChannelDeleteEvent(h) PROVE Rests
  BY <1>0, <1>7 DEF ChannelDeleteEvent
<1>8. ASSUME NEW g \in Goroutines, ChannelDelete(g) PROVE Rests
  BY <1>0, <1>8 DEF ChannelDelete
<1> QED
  BY <1>1, <1>2, <1>3, <1>4, <1>5, <1>6, <1>7, <1>8 DEF Cached

(* Numbers are reserved by a hub join alone, and one that is free.         *)
LEMMA PendingStep ==
  ASSUME [Next]_vars, Faultless
  PROVE  \/ pending' \subseteq pending
         \/ /\ UNCHANGED <<tracked, channelIndex>>
            /\ \E n : n \notin Held /\ pending' = pending \cup {n}
<1>0. Handlers \subseteq Goroutines /\ Sweep \in Goroutines /\ Panel \in Goroutines
  BY DEF Goroutines
<1>1. ~Restart
  BY DEF Restart, Spend, Faultless
<1>2. CASE Environment
  BY Zenon, <1>1, <1>2 DEF Environment, Move, HandDelete, DeleteReachesCache, Outage, GuildCreate,
     record
<1>3. ASSUME NEW h \in Handlers, Handle(h) \/ Create(h) \/ Commit(h) \/ MoveCheck(h)
                 \/ GuildMemberMove(h) \/ ReadOwner(h) \/ SettleSpawn(h)
                 \/ AbandonSpawn(h) \/ Keep(h)
      PROVE  pending' \subseteq pending
  BY Zenon, <1>3 DEF Handle, DropStale, VoiceUpdate, ChannelDeleteEvent, Create, Commit, MoveCheck,
     GuildMemberMove, ReadOwner, SettleSpawn, AbandonSpawn, Keep, Release, record
<1>4. ASSUME NEW h \in Handlers, HubJoin(h)
      PROVE  \/ pending' \subseteq pending
             \/ /\ UNCHANGED <<tracked, channelIndex>>
                /\ \E n : n \notin Held /\ pending' = pending \cup {n}
  BY <1>4 DEF HubJoin, IsNextNumber
<1>5. ASSUME NEW g \in Goroutines, CallStep(g) \/ NextCall(g) PROVE pending' = pending
  BY <1>5 DEF CallStep, WriteRow, DeleteRow, DeleteIfStillEmpty, ChannelDelete,
     UntrackDeleted, NextCall, record
<1>6. CASE SweepStart \/ ListSpawnedChannels \/ Rebuild \/ FinishSweep
  BY <1>6 DEF SweepStart, ListSpawnedChannels, Rebuild, FinishSweep, EndSweep, record
<1>7. ASSUME NEW lad \in Ladders, ApplyRankRoles(lad) PROVE pending' = pending
  BY <1>7 DEF ApplyRankRoles
<1>8. CASE UNCHANGED vars
  BY <1>8 DEF vars, record
<1> QED
  BY <1>0, <1>2, <1>3, <1>4, <1>5, <1>6, <1>7, <1>8
  DEF Next, SpawnStep, SweepStep, PanelStep, Rest

(* A committed channel takes the number reserved for it.                   *)
LEMMA CommitNumber ==
  ASSUME TypeOK, SpawnInv, RecordInv, NEW h \in Handlers, NEW c, Committing(h, c)
  PROVE  /\ channelIndex'[c] \in pending /\ pending' = pending \ {channelIndex'[c]}
         /\ c \notin tracked /\ tracked' = tracked \cup {c}
<1>1. c \in Channels /\ ~Known(c) /\ c = Last(h).c /\ At(h, "commit") /\ Commit(h) /\ Commits(h)
  BY CommittingCreated DEF Committing
<1>2. Last(h) = Head(run[h])
  BY <1>1, CommitFresh
<1>3. PICK i : i = Head(run[h])
  OBVIOUS
<1>4. /\ channelIndex' = [channelIndex EXCEPT ![i.c] = i.n] /\ pending' = pending \ {i.n}
      /\ tracked' = tracked \cup {i.c}
  BY <1>1, <1>3 DEF Commit, Release
<1>5. channelIndex'[c] = i.n
  BY <1>1, <1>2, <1>3, <1>4 DEF TypeOK
<1>6. Reserves(h) /\ i.n = Last(h).n
  BY <1>1, <1>2, <1>3 DEF Commits, Reserves
<1>7. i.n \in pending
  BY <1>6 DEF SpawnInv, PendingAccounted
<1>8. c \notin tracked
  BY <1>1 DEF Known
<1> QED
  BY <1>1, <1>2, <1>3, <1>4, <1>5, <1>7, <1>8

LEMMA NumbersStep ==
  ASSUME TypeOK, TypeOK', SpawnInv, RecordInv, Frame, [Next]_vars
  PROVE  NumbersDistinct'
<1>0. /\ Faultless
      /\ \A c, d \in tracked \cap live : c # d => channelIndex[c] # channelIndex[d]
      /\ \A c \in tracked \cap live : channelIndex[c] \notin pending
  BY DEF RecordInv, NumbersDistinct
<1>1. ASSUME NEW c \in tracked' \cap live'
      PROVE  \/ c \in tracked \cap live /\ channelIndex'[c] = channelIndex[c]
             \/ \E h \in Handlers : Committing(h, c)
  BY <1>1, TrackedStep DEF Frame
<1>2. ASSUME NEW c \in tracked' \cap live', NEW h \in Handlers, Committing(h, c)
      PROVE  /\ channelIndex'[c] \in pending /\ pending' = pending \ {channelIndex'[c]}
             /\ c \notin tracked /\ tracked' = tracked \cup {c}
  BY <1>2, CommitNumber
<1>3. ASSUME NEW c \in tracked' \cap live', NEW d \in tracked' \cap live', c # d
      PROVE  channelIndex'[c] # channelIndex'[d]
  BY <1>0, <1>1, <1>2, <1>3
<1>4. ASSUME NEW c \in tracked' \cap live' PROVE channelIndex'[c] \notin pending'
  BY <1>0, <1>1, <1>2, PendingStep DEF Held
<1> QED
  BY <1>3, <1>4 DEF NumbersDistinct

LEMMA RecordNext ==
  ASSUME TypeOK, SpawnInv, RecordInv, [Next]_vars
  PROVE  RecordInv' /\ Frame
<1>1. Frame /\ TypeOK' /\ SpawnInv'
  BY FrameStep, NextType, NextSpawns
<1>2. Faultless'
  BY AllowedFalls DEF Kinds, RecordInv, Faultless
<1> QED
  BY <1>1, <1>2, CachedStep, FreshStep, WorksStep, StoredStep, RowedStep, SettlesStep,
     SweepingStep, NumbersStep DEF RecordInv

LEMMA RecordStart ==
  ASSUME Init, Faultless
  PROVE  RecordInv
<1>1. \A g \in Goroutines : Work(g) = {} /\ Idle(g) /\ run[g] = <<>>
  BY SeenNone DEF Init, Work, Idle
<1>2. Handlers \subseteq Goroutines /\ Sweep \in Goroutines
  BY DEF Goroutines
<1>3. Cached
  BY DEF Init, Cached
<1>4. Fresh /\ Works /\ Settles
  BY <1>1, <1>2 DEF Fresh, Works, Settles, SettlesOf, Settling, Commits
<1>5. Stored
  BY DEF Init, Stored
<1>6. Rowed /\ NumbersDistinct
  BY DEF Init, Rowed, NumbersDistinct
<1>7. Sweeping
  BY <1>1, <1>2 DEF Sweeping
<1> QED
  BY <1>3, <1>4, <1>5, <1>6, <1>7 DEF RecordInv

----------------------------------------------------------------------------
(* A channel that is gone leaves the record                                *)

(* What runs when nothing restarts the bot.                                *)
LEMMA StepsOf ==
  ASSUME [Next]_vars, Faultless
  PROVE  \/ \E u \in Users, p \in Spawnable : Move(u, p)
         \/ \E c \in Channels : HandDelete(c) \/ DeleteReachesCache(c)
         \/ Outage \/ GuildCreate
         \/ \E h \in Handlers : Handle(h) \/ SpawnStep(h)
         \/ \E g \in Goroutines : CallStep(g)
         \/ \E g \in {Sweep, Panel} : NextCall(g)
         \/ SweepStart \/ ListSpawnedChannels \/ Rebuild \/ FinishSweep
         \/ \E lad \in Ladders : ApplyRankRoles(lad)
         \/ UNCHANGED vars
  BY DEF Restart, Spend, Faultless, Next, Environment, SweepStep, PanelStep, Rest,
     Goroutines

(* Of a channel that is gone but in the record: it is no new one, and no   *)
(* step puts it in flight.                                                 *)
LEMMA GhostStays ==
  ASSUME TypeOK, SpawnInv, RecordInv, Frame, [Next]_vars, NEW c \in tracked, c \notin live
  PROVE  /\ c \in Channels /\ c \in created /\ Known(c) /\ c \notin live'
         /\ \A h \in Handlers : ~Committing(h, c)
         /\ c \notin inFlight => c \notin inFlight'
  BY TrackedKnown, CommittingCreated, InFlightStep DEF Frame

(* A goroutine at an untrack does that next.                               *)
LEMMA UntrackWaits ==
  ASSUME TypeOK, [Next]_vars, Faultless, NEW g \in Goroutines, At(g, "untrack")
  PROVE  run'[g] = run[g] \/ UntrackDeleted(g)
<1>0. /\ run[g] # <<>> /\ Head(run[g]).op = "untrack"
      /\ Handlers \subseteq Goroutines /\ Sweep \in Goroutines /\ Panel \in Goroutines
  BY DEF At, Goroutines
<1>1. ASSUME NEW k \in Goroutines, k # g, run' = run \/ \E q : run' = [run EXCEPT ![k] = q]
      PROVE  run'[g] = run[g]
  BY <1>1 DEF TypeOK
<1>2. ASSUME NEW k \in Handlers, Handle(k) \/ SpawnStep(k) PROVE run'[g] = run[g]
  <2>1. k # g
    BY ZenonT(60), <1>0, <1>2 DEF Handle, DropStale, VoiceUpdate, ChannelDeleteEvent, Idle, SpawnStep,
       HubJoin, Create, Commit, MoveCheck, GuildMemberMove, ReadOwner, SettleSpawn,
       AbandonSpawn, Keep, At
  <2>2. run' = run \/ \E q : run' = [run EXCEPT ![k] = q]
    BY ZenonT(30), <1>2 DEF Handle, DropStale, VoiceUpdate, ChannelDeleteEvent, SpawnStep, HubJoin,
       Create, Commit, MoveCheck, GuildMemberMove, ReadOwner, SettleSpawn, AbandonSpawn,
       Keep, Goes
  <2> QED
    BY Zenon, <1>0, <1>1, <2>1, <2>2
<1>3. ASSUME NEW k \in Goroutines, CallStep(k) \/ NextCall(k)
      PROVE  run'[g] = run[g] \/ UntrackDeleted(g)
  BY <1>0, <1>1, <1>3 DEF CallStep, WriteRow, DeleteRow, DeleteIfStillEmpty,
     ChannelDelete, NextCall, At, UntrackDeleted, Goes
<1>4. CASE SweepStart \/ ListSpawnedChannels \/ Rebuild \/ FinishSweep
  BY <1>0, <1>1, <1>4 DEF SweepStart, ListSpawnedChannels, Rebuild, FinishSweep, Idle, At,
     EndSweep, Goes
<1>5. ASSUME \/ \E u \in Users, p \in Spawnable : Move(u, p)
             \/ \E c \in Channels : HandDelete(c) \/ DeleteReachesCache(c)
             \/ Outage \/ GuildCreate
             \/ \E lad \in Ladders : ApplyRankRoles(lad)
             \/ UNCHANGED vars
      PROVE  run'[g] = run[g]
  BY <1>5 DEF Move, HandDelete, DeleteReachesCache, Outage, GuildCreate, ApplyRankRoles, vars
<1> QED
  BY <1>0, <1>2, <1>3, <1>4, <1>5, StepsOf

LEMMA UntracksOn ==
  ASSUME TypeOK, [Next]_vars, Faultless, NEW c \in Channels, Untracks(c), c \in tracked'
  PROVE  Untracks(c)'
<1>1. PICK g \in Goroutines : At(g, "untrack") /\ Head(run[g]).c = c
  BY DEF Untracks
<1>2. ~UntrackDeleted(g)
  BY <1>1 DEF UntrackDeleted, Untrack
<1>3. run'[g] = run[g]
  BY <1>1, <1>2, UntrackWaits
<1>4. At(g, "untrack")' /\ Head(run'[g]).c = c
  BY <1>1, <1>3 DEF At
<1> QED
  BY <1>4 DEF Untracks

LEMMA DeletesOn ==
  ASSUME TypeOK, [Next]_vars, Faultless, NEW c \in tracked, c \in chDeletes, c \in tracked'
  PROVE  c \in chDeletes'
<1>1. ASSUME NEW h \in Handlers, Handle(h) PROVE c \in chDeletes'
  BY ZenonT(30), <1>1 DEF ChannelDeleteEvent, Untrack, DropStale, VoiceUpdate, Handle
<1>2. ASSUME NEW h \in Handlers, SpawnStep(h) PROVE chDeletes' = chDeletes
  BY <1>2 DEF SpawnStep, HubJoin, Create, Commit, MoveCheck, GuildMemberMove, ReadOwner,
     SettleSpawn, AbandonSpawn, Keep, discord
<1>3. ASSUME NEW g \in Goroutines, CallStep(g) PROVE chDeletes' = chDeletes
  BY <1>3 DEF CallStep, WriteRow, DeleteRow, DeleteIfStillEmpty, ChannelDelete,
     UntrackDeleted, discord
<1>4. CASE SweepStart \/ ListSpawnedChannels \/ Rebuild \/ FinishSweep
           \/ \E g \in {Sweep, Panel} : NextCall(g)
  BY <1>4 DEF SweepStart, ListSpawnedChannels, Rebuild, FinishSweep, EndSweep, NextCall, discord
<1>5. CASE \/ \E u \in Users, p \in Spawnable : Move(u, p)
           \/ \E d \in Channels : HandDelete(d) \/ DeleteReachesCache(d)
           \/ Outage \/ GuildCreate
           \/ \E lad \in Ladders : ApplyRankRoles(lad)
           \/ UNCHANGED vars
  BY <1>5 DEF Move, HandDelete, DeleteReachesCache, Outage, GuildCreate, ApplyRankRoles, vars,
     discord
<1> QED
  BY Zenon, <1>1, <1>2, <1>3, <1>4, <1>5, StepsOf

(* A sweep that is due stays due until it has rebuilt.                     *)
LEMMA DueOn ==
  ASSUME TypeOK, [Next]_vars, Faultless, SweepDue, ~Rebuild
  PROVE  SweepDue'
<1>0. /\ Sweep \in Goroutines /\ Sweep \notin Handlers /\ Panel # Sweep
      /\ Panel \in Goroutines /\ Handlers \subseteq Goroutines
  BY ConstantsAssumption DEF Goroutines
<1>1. ASSUME present' = present, sweeps' = sweeps, run'[Sweep] = run[Sweep] PROVE SweepDue'
  BY <1>1 DEF SweepDue, RebuildDue
<1>2. ASSUME \/ \E u \in Users, p \in Spawnable : Move(u, p)
             \/ \E d \in Channels : HandDelete(d) \/ DeleteReachesCache(d)
             \/ \E lad \in Ladders : ApplyRankRoles(lad)
             \/ UNCHANGED vars \/ FinishSweep
      PROVE  SweepDue'
  BY <1>1, <1>2 DEF Move, HandDelete, DeleteReachesCache, ApplyRankRoles, vars, discord,
     FinishSweep, EndSweep
<1>3. CASE Outage
  BY <1>3 DEF Outage, SweepDue
<1>4. CASE GuildCreate
  BY <1>4 DEF GuildCreate, SweepDue, RebuildDue, TypeOK
<1>5. ASSUME NEW g \in Goroutines, g # Sweep, UNCHANGED <<present, sweeps>>,
             run' = run \/ \E q : run' = [run EXCEPT ![g] = q]
      PROVE  SweepDue'
  BY <1>0, <1>1, <1>5 DEF TypeOK
<1>6. ASSUME NEW h \in Handlers, Handle(h) \/ SpawnStep(h) PROVE SweepDue'
  <2>1. /\ UNCHANGED <<present, sweeps>>
        /\ run' = run \/ \E q : run' = [run EXCEPT ![h] = q]
    BY ZenonT(30), <1>6 DEF Handle, DropStale, VoiceUpdate, ChannelDeleteEvent, SpawnStep, HubJoin,
       Create, Commit, MoveCheck, GuildMemberMove, ReadOwner, SettleSpawn, AbandonSpawn,
       Keep, Goes, discord
  <2> QED
    BY Zenon, <1>0, <1>5, <2>1
<1>7. ASSUME NEW g \in Goroutines, CallStep(g) \/ NextCall(g) PROVE SweepDue'
  BY <1>5, <1>7 DEF CallStep, WriteRow, DeleteRow, DeleteIfStillEmpty, ChannelDelete,
     UntrackDeleted, NextCall, Goes, discord, At, SweepDue, RebuildDue
<1>8. CASE SweepStart
  BY <1>0, <1>8 DEF SweepStart, TypeOK, Do, SweepDue, RebuildDue
<1>9. CASE ListSpawnedChannels
  <2>1. ~Spend("storeFault")
    BY DEF Spend, Faultless
  <2>2. run'[Sweep] = <<Do("rebuild", 0, NoOne, 0)>> \o Tail(run[Sweep])
    BY <1>0, <1>9, <2>1 DEF ListSpawnedChannels, TypeOK, Goes
  <2>3. Tail(run[Sweep]) \in Seq(Item)
    BY <1>0, <1>9, HeadItem DEF ListSpawnedChannels
  <2>4. <<Do("rebuild", 0, NoOne, 0)>> \in Seq(Item) /\ Do("rebuild", 0, NoOne, 0) \in Item
    BY DoSweepItem, Singleton
  <2>5. /\ Len(run'[Sweep]) >= 1 /\ run'[Sweep][1] = Do("rebuild", 0, NoOne, 0)
        /\ run'[Sweep] \in Seq(Item)
    BY <2>2, <2>3, <2>4, ConcatProperties, LenProperties
  <2>6. run'[Sweep] # <<>> /\ Head(run'[Sweep]).op = "rebuild"
    BY <2>5, HeadTailProperties, EmptySeq DEF Do
  <2> QED
    BY <2>6 DEF SweepDue, RebuildDue
<1> QED
  BY <1>0, <1>2, <1>3, <1>4, <1>6, <1>7, <1>8, <1>9, StepsOf

(* The cache drops a channel that is gone by its delete event, or all at   *)
(* once with the guild.                                                    *)
LEMMA CachedOn ==
  ASSUME TypeOK, SpawnInv, RecordInv, Frame, [Next]_vars, NEW c \in tracked, c \notin live,
         c \in cached \/ Inside(c) # {}
  PROVE  \/ c \in cached' \/ Inside(c)' # {}
         \/ c \in chDeletes'
         \/ GuildCreate
<1>0. /\ c \in Channels /\ c \in created /\ Faultless
      /\ c \notin live \cup {Hub, Lobby, Out}
  BY GhostStays, ConstantsAssumption DEF RecordInv
<1>1. ASSUME cached \subseteq cached', \A u \in Users : loc[u] = c => loc'[u] = c
      PROVE  c \in cached' \/ Inside(c)' # {}
  BY <1>1 DEF Inside
<1>2. ASSUME NEW u \in Users, NEW p \in Spawnable, Move(u, p)
      PROVE  c \in cached' \/ Inside(c)' # {}
  BY <1>0, <1>1, <1>2 DEF Move, TypeOK
<1>3. ASSUME NEW d \in Channels, DeleteReachesCache(d)
      PROVE  c \in cached' \/ Inside(c)' # {} \/ c \in chDeletes'
  BY Zenon, <1>3 DEF DeleteReachesCache, Inside
<1>4. ASSUME NEW h \in Handlers, SpawnStep(h)
      PROVE  c \in cached' \/ Inside(c)' # {}
  BY ZenonT(30), <1>0, <1>1, <1>4 DEF GuildMemberMove, TypeOK, SpawnStep, HubJoin, Create, Commit,
     MoveCheck, ReadOwner, SettleSpawn, AbandonSpawn, Keep, discord
<1>5. ASSUME \/ \E h \in Handlers : Handle(h)
             \/ \E g \in Goroutines : CallStep(g)
             \/ \E g \in {Sweep, Panel} : NextCall(g)
      PROVE  c \in cached' \/ Inside(c)' # {}
  BY Zenon, <1>1, <1>5 DEF Handle, DropStale, VoiceUpdate, ChannelDeleteEvent, CallStep, WriteRow,
     DeleteRow, DeleteIfStillEmpty, ChannelDelete, UntrackDeleted, NextCall, discord
<1>6. ASSUME \/ \E d \in Channels : HandDelete(d)
             \/ Outage
             \/ SweepStart \/ ListSpawnedChannels \/ Rebuild \/ FinishSweep
             \/ \E lad \in Ladders : ApplyRankRoles(lad)
             \/ UNCHANGED vars
      PROVE  c \in cached' \/ Inside(c)' # {}
  BY <1>1, <1>6 DEF HandDelete, Outage, SweepStart, ListSpawnedChannels, Rebuild, FinishSweep,
     EndSweep, ApplyRankRoles, vars, discord
<1> QED
  BY <1>0, <1>2, <1>3, <1>4, <1>5, <1>6, StepsOf

(* Who is inside a channel that is gone: nobody new, unless the cache      *)
(* still shows them there.                                                 *)
LEMMA GhostEmpties ==
  ASSUME TypeOK, SpawnInv, RecordInv, Frame, [Next]_vars, Steady,
         NEW c \in tracked, c \notin live
  PROVE  occupants'[c] \subseteq occupants[c] \/ Inside(c)' # {}
<1>0. /\ c \in Channels /\ Faultless /\ \A h \in Handlers : ~Committing(h, c)
      /\ present /\ run[Sweep] = <<>>
  BY GhostStays DEF RecordInv, Steady
<1>1. ASSUME NEW h \in Handlers, Handle(h)
      PROVE  occupants'[c] \subseteq occupants[c] \/ Inside(c)' # {}
  <2>1. CASE DropStale(h)
    BY <2>1 DEF DropStale, record
  <2>2. CASE ChannelDeleteEvent(h)
    BY ZenonT(30), <1>0, <2>2 DEF ChannelDeleteEvent, Untrack, TypeOK
  <2>3. CASE VoiceUpdate(h)
    <3>1. PICK e \in events :
            /\ ~Stale(e)
            /\ \/ occupants' = occupants
               \/ occupants' = Moved(e[1], userChannel[e[1]], e[2])
      BY <2>3 DEF VoiceUpdate
    <3>2. e[1] \in Users /\ loc[e[1]] = e[2] /\ loc' = loc
      BY <1>0, <2>3, <3>1 DEF TypeOK, Stale, VoiceUpdate
    <3>3. CASE e[2] = c
      BY <3>2, <3>3 DEF Inside
    <3>4. CASE e[2] # c
      BY <1>0, <3>1, <3>4 DEF Moved
    <3> QED
      BY <3>3, <3>4
  <2> QED
    BY <1>1, <2>1, <2>2, <2>3 DEF Handle
<1>2. ASSUME NEW h \in Handlers, SpawnStep(h) PROVE occupants'[c] \subseteq occupants[c]
  <2>1. CASE Commit(h)
    BY <1>0, <2>1, CommitFresh DEF Commit, Committing, TypeOK
  <2>2. CASE AbandonSpawn(h)
    BY <1>0, <2>2 DEF AbandonSpawn, TypeOK
  <2>3. CASE ~Commit(h) /\ ~AbandonSpawn(h)
    BY <1>2, <2>3 DEF SpawnStep, HubJoin, Create, MoveCheck, GuildMemberMove, ReadOwner,
       SettleSpawn, Keep, record
  <2> QED
    BY ZenonT(30), <2>1, <2>2, <2>3
<1>3. ASSUME NEW g \in Goroutines, CallStep(g) PROVE occupants'[c] \subseteq occupants[c]
  BY <1>0, <1>3 DEF UntrackDeleted, Untrack, TypeOK, CallStep, WriteRow, DeleteRow,
     DeleteIfStillEmpty, ChannelDelete, record
<1>4. ~Rebuild
  BY <1>0 DEF Rebuild, At
<1>5. ASSUME \/ \E u \in Users, p \in Spawnable : Move(u, p)
             \/ \E d \in Channels : HandDelete(d) \/ DeleteReachesCache(d)
             \/ Outage \/ GuildCreate
             \/ \E g \in {Sweep, Panel} : NextCall(g)
             \/ SweepStart \/ ListSpawnedChannels \/ FinishSweep
             \/ \E lad \in Ladders : ApplyRankRoles(lad)
             \/ UNCHANGED vars
      PROVE  occupants' = occupants
  BY <1>5 DEF Move, HandDelete, DeleteReachesCache, Outage, GuildCreate, NextCall, SweepStart,
     ListSpawnedChannels, FinishSweep, EndSweep, ApplyRankRoles, vars, record
<1> QED
  BY <1>0, <1>1, <1>2, <1>3, <1>4, <1>5, StepsOf

(* A spawn that is abandoned goes on to its delete.                        *)
LEMMA AbandonGoes ==
  ASSUME TypeOK, SpawnInv, RecordInv, NEW h \in Handlers, AbandonSpawn(h)
  PROVE  /\ run'[h] # <<>> /\ Head(run'[h]).op = "deleteIfStillEmpty"
         /\ Last(h)'.op = "settleSpawn" /\ Last(h)'.c = Last(h).c
         /\ Last(h) = Head(run[h])
<1>0. /\ h \in Goroutines /\ At(h, "abandonSpawn") /\ "abandonSpawn" \in EndOps
      /\ Plain(run[h])
  BY DEF Goroutines, AbandonSpawn, EndOps, CarryOps, SpawnInv
<1>1. PICK i : i = Head(run[h])
  OBVIOUS
<1>2. i.c \in Channels /\ i.u \in Users \cup {NoOne} /\ 0 \in Nat /\ Last(h) = i
  BY <1>0, <1>1, RunsKnown, LastSection DEF PastOps
<1>3. PICK x, y, z : /\ x = Do("deleteIfStillEmpty", i.c, i.u, 0)
                     /\ y = Do("keep", i.c, NoOne, 0)
                     /\ z = Do("settleSpawn", i.c, NoOne, 0)
  OBVIOUS
<1>4. /\ x \in Item /\ x.op = "deleteIfStillEmpty"
      /\ y \in Item /\ y.op = "keep"
      /\ z \in Item /\ z.op = "settleSpawn" /\ z.c = i.c
  BY <1>2, <1>3, DoChannel, DoNobody DEF ChannelOps
<1>5. Goes(h, <<x, y, z>>)
  BY <1>1, <1>3 DEF AbandonSpawn
<1>6. x.op \notin EndOps /\ y.op \notin EndOps
  BY <1>4 DEF EndOps, CarryOps, ReserveOps
<1>7. <<x, y, z>> \in Seq(Item) /\ Fin(<<x, y, z>>) = z
  BY <1>4, <1>6, FinOfThree
<1>8. run'[h] = <<x, y, z>> /\ Last(h)' = z
  BY <1>0, <1>5, <1>7, EndsGoOn
<1> QED
  BY <1>1, <1>2, <1>4, <1>8

(* A spawn whose channel is gone comes to its delete, which takes the      *)
(* channel out of the record.                                              *)
LEMMA DoomedOn ==
  ASSUME TypeOK, SpawnInv, RecordInv, Frame, [Next]_vars, Told,
         NEW c \in tracked, c \notin live, c \in tracked', Doomed(c)
  PROVE  Doomed(c)' \/ Inside(c)' # {} \/ Untracks(c)'
<1> SUFFICES ASSUME Inside(c)' = {} PROVE Doomed(c)' \/ Untracks(c)'
  OBVIOUS
<1>0. /\ c \in Channels /\ Faultless /\ occupants'[c] \subseteq occupants[c] /\ present
      /\ ~Spend("lostAnswer")
  BY GhostStays, GhostEmpties DEF RecordInv, Steady, Told, Spend
<1>1. PICK h \in Handlers :
        /\ run[h] # <<>> /\ Last(h).c = c
        /\ \/ /\ Last(h).op \in {"moveCheck", "move", "abandonSpawn"}
              /\ occupants[c] \subseteq {Last(h).u}
           \/ /\ Last(h).op = "settleSpawn" /\ occupants[c] = {}
              /\ Head(run[h]).op \in {"deleteIfStillEmpty", "ChannelDelete"}
  BY DEF Doomed
<1>2. h \in Goroutines /\ Plain(run[h]) /\ Bears(run[h]) /\ Fin(run[h]) = Last(h)
  BY <1>1 DEF Goroutines, SpawnInv, Bears, CarryOps, Last, Fin
<1>3. ASSUME run'[h] # <<>>, Last(h)'.c = c,
             \/ /\ Last(h)'.op \in {"moveCheck", "move", "abandonSpawn"}
                /\ occupants'[c] \subseteq {Last(h)'.u}
             \/ /\ Last(h)'.op = "settleSpawn" /\ occupants'[c] = {}
                /\ Head(run'[h]).op \in {"deleteIfStillEmpty", "ChannelDelete"}
      PROVE  Doomed(c)'
  BY <1>3 DEF Doomed
<1>4. CASE run'[h] = run[h]
  BY ZenonT(30), <1>0, <1>1, <1>3, <1>4 DEF Last
<1>5. ~Handle(h)
  BY <1>1 DEF Handle, DropStale, VoiceUpdate, ChannelDeleteEvent, Idle
<1>6. ASSUME Same(run[h], run'[h]) PROVE run'[h] # <<>> /\ Last(h)' = Last(h)
  BY <1>2, <1>6 DEF Same, Bears, Last, Fin
<1>7. CASE CallStep(h)
  <2>1. run'[h] # <<>> /\ Last(h)' = Last(h)
    BY <1>2, <1>6, <1>7, CallRuns DEF RunSame
  <2>2. CASE Last(h).op \in {"moveCheck", "move", "abandonSpawn"}
    BY <1>0, <1>1, <1>3, <2>1, <2>2
  <2>3. CASE /\ Last(h).op = "settleSpawn" /\ occupants[c] = {}
             /\ Head(run[h]).op \in {"deleteIfStillEmpty", "ChannelDelete"}
    <3>1. Head(run[h]) \in Seen(run[h]) /\ run[h] \in Seq(Item) /\ Tail(run[h]) \in Seq(Item)
      BY <1>1, <1>2, SeenParts DEF TypeOK
    <3>2. Head(run[h]).c = c
      BY <1>1, <2>3, <3>1 DEF RecordInv, Settles, SettlesOf, Settling
    <3>3. CASE DeleteIfStillEmpty(h)
      <4>1. PICK x : x = Do("ChannelDelete", c, NoOne, 0)
        OBVIOUS
      <4>2. x \in Item /\ x.op = "ChannelDelete" /\ <<x>> \in Seq(Item)
        BY <1>0, <4>1, LaterItems, DoParts
      <4>3. Inside(c) = {}
        BY <3>3 DEF DeleteIfStillEmpty, discord, Inside
      <4>4. run'[h] = <<x>> \o Tail(run[h])
        BY <1>0, <1>2, <2>3, <3>2, <3>3, <4>1, <4>3 DEF DeleteIfStillEmpty, TypeOK
      <4>5. Head(run'[h]) = x
        BY <3>1, <4>2, <4>4, ConcatProperties
      <4> QED
        BY <1>0, <1>1, <1>3, <2>1, <2>3, <4>2, <4>5
    <3>4. CASE ChannelDelete(h)
      <4>1. PICK x : x = Do("untrack", c, NoOne, 0)
        OBVIOUS
      <4>2. x \in Item /\ x.op = "untrack" /\ x.c = c /\ <<x>> \in Seq(Item)
        BY <1>0, <4>1, LaterItems, DoParts
      <4>3. Goes(h, <<x>>)
        BY <1>0, <3>2, <3>4, <4>1 DEF ChannelDelete
      <4>4. run'[h] = <<x>> \o Tail(run[h])
        BY <1>2, <4>3 DEF Goes, TypeOK
      <4>5. Head(run'[h]) = x
        BY <3>1, <4>2, <4>4, ConcatProperties
      <4> QED
        BY <1>2, <2>1, <4>2, <4>5 DEF Untracks, At
    <3> QED
      BY <1>7, <2>3, <3>3, <3>4 DEF CallStep, WriteRow, DeleteRow, UntrackDeleted, At
  <2> QED
    BY <1>1, <2>2, <2>3
<1>8. CASE SpawnStep(h)
  <2>0. /\ \A op \in EndOps : At(h, op) => Last(h) = Head(run[h]) /\ Last(h).op = op
        /\ {"handleHubJoin", "create", "commit", "moveCheck", "move", "readOwner",
            "settleSpawn"} \subseteq EndOps
    BY <1>2, LastSection DEF EndOps, CarryOps, ReserveOps
  <2>1. ~(HubJoin(h) \/ Create(h) \/ Commit(h) \/ ReadOwner(h))
    BY <1>1, <2>0 DEF HubJoin, Create, Commit, ReadOwner
  <2>2. ~SettleSpawn(h)
    BY <1>1, <2>0 DEF At, SettleSpawn
  <2>3. CASE MoveCheck(h)
    BY <1>0, <1>1, <1>3, <2>0, <2>3, EndsLone, DoParts DEF MoveCheck
  <2>4. CASE GuildMemberMove(h)
    BY SMTT(30), <1>0, <1>1, <1>3, <2>0, <2>4, EndsLone, DoParts DEF GuildMemberMove
  <2>5. CASE AbandonSpawn(h)
    BY <1>0, <1>1, <1>3, <2>5, AbandonGoes DEF AbandonSpawn, At, TypeOK
  <2>6. CASE Keep(h)
    BY <1>0, <1>1, <1>3, <1>6, <2>6, KeepGoes DEF Keep, At
  <2> QED
    BY <1>8, <2>1, <2>2, <2>3, <2>4, <2>5, <2>6 DEF SpawnStep
<1> QED
  BY <1>0, <1>4, <1>5, <1>7, <1>8, WhoRuns

(* How a channel that lives is gone: by hand, or by a delete call whose    *)
(* goroutine then takes it out of the record.                              *)
LEMMA Dies ==
  ASSUME TypeOK, SpawnInv, RecordInv, Frame, [Next]_vars, NEW c \in live, c \notin live'
  PROVE  \/ HandDelete(c)
         \/ Untracks(c)' /\ Known(c)
         \/ Spend("lostAnswer") /\ Known(c) /\ UNCHANGED <<tracked, cached>>
<1>0. c \in Channels /\ Faultless /\ live' # live
  BY DEF TypeOK, RecordInv
<1>1. ASSUME NEW g \in Goroutines, CallStep(g)
      PROVE  \/ Untracks(c)' /\ Known(c)
             \/ Spend("lostAnswer") /\ Known(c) /\ UNCHANGED <<tracked, cached>>
  <2>1. ChannelDelete(g)
    BY <1>0, <1>1 DEF CallStep, WriteRow, DeleteRow, DeleteIfStillEmpty, UntrackDeleted, discord
  <2>2. At(g, "ChannelDelete") /\ run[g] # <<>> /\ run[g] \in Seq(Item)
    BY <2>1 DEF ChannelDelete, At, TypeOK
  <2>3. /\ Head(run[g]).c = c
        /\ \/ Goes(g, <<Do("untrack", c, NoOne, 0)>>)
           \/ Spend("lostAnswer") /\ UNCHANGED <<tracked, cached>>
    BY <1>0, <2>1 DEF ChannelDelete, record
  <2>4. Known(c)
    BY <2>2, <2>3, RunsKnown DEF PastOps
  <2>5. PICK x : x = Do("untrack", c, NoOne, 0)
    OBVIOUS
  <2>6. x \in Item /\ x.op = "untrack" /\ x.c = c /\ <<x>> \in Seq(Item)
    BY <1>0, <2>5, LaterItems, DoParts
  <2>7. ASSUME Goes(g, <<x>>) PROVE Untracks(c)'
    <3>1. run'[g] = <<x>> \o Tail(run[g]) /\ Tail(run[g]) \in Seq(Item)
      BY <2>2, <2>7, HeadTailProperties DEF Goes, TypeOK
    <3>2. Head(run'[g]) = x /\ run'[g] # <<>>
      BY <2>6, <3>1, ConcatProperties
    <3> QED
      BY <2>6, <3>2 DEF Untracks, At
  <2> QED
    BY <2>3, <2>4, <2>5, <2>7
<1>2. ASSUME NEW d \in Channels, HandDelete(d) PROVE c = d
  BY <1>0, <1>2 DEF HandDelete
<1>3. ASSUME NEW h \in Handlers, Handle(h) \/ SpawnStep(h) PROVE FALSE
  <2>1. CASE Create(h)
    BY Zenon, <1>0, <2>1 DEF Create
  <2>2. CASE ~Create(h)
    BY Zenon, <1>0, <1>3, <2>2 DEF Handle, DropStale, VoiceUpdate, ChannelDeleteEvent, SpawnStep,
       HubJoin, Commit, MoveCheck, GuildMemberMove, ReadOwner, SettleSpawn, AbandonSpawn,
       Keep, discord
  <2> QED
    BY <2>1, <2>2
<1>4. ASSUME \/ \E u \in Users, p \in Spawnable : Move(u, p)
             \/ \E d \in Channels : DeleteReachesCache(d)
             \/ Outage \/ GuildCreate
             \/ \E g \in {Sweep, Panel} : NextCall(g)
             \/ SweepStart \/ ListSpawnedChannels \/ Rebuild \/ FinishSweep
             \/ \E lad \in Ladders : ApplyRankRoles(lad)
             \/ UNCHANGED vars
      PROVE  FALSE
  BY <1>0, <1>4 DEF Move, DeleteReachesCache, Outage, GuildCreate, NextCall, SweepStart,
     ListSpawnedChannels, Rebuild, FinishSweep, EndSweep, ApplyRankRoles, vars, discord
<1> QED
  BY <1>0, <1>1, <1>2, <1>3, <1>4, StepsOf

(* A channel gone before its commit enters the record with its doom.       *)
LEMMA CommitDoomed ==
  ASSUME TypeOK, SpawnInv, RecordInv, NEW h \in Handlers, NEW c, Committing(h, c)
  PROVE  Doomed(c)'
<1>1. c = Last(h).c /\ At(h, "commit") /\ Commit(h) /\ c \in Channels
  BY CommittingCreated DEF Committing
<1>2. Last(h) = Head(run[h]) /\ "commit" \in EndOps /\ h \in Goroutines
  BY <1>1, CommitFresh DEF EndOps, ReserveOps, Goroutines
<1>3. PICK i : i = Last(h)
  OBVIOUS
<1>4. PICK x : x = Do("moveCheck", i.c, i.u, i.n)
  OBVIOUS
<1>5. Goes(h, <<x>>)
  BY <1>1, <1>2, <1>3, <1>4 DEF Commit
<1>6. run'[h] = <<x>> /\ Last(h)' = x
  BY <1>1, <1>2, <1>5, EndsLone
<1>7. x.op = "moveCheck" /\ x.c = c /\ x.u = i.u /\ <<x>> # <<>>
  BY <1>1, <1>3, <1>4, DoParts
<1>8. occupants'[c] = {i.u}
  BY <1>1, <1>2, <1>3 DEF Commit, TypeOK
<1> QED
  BY <1>6, <1>7, <1>8 DEF Doomed

LEMMA GhostLeaves ==
  ASSUME TypeOK, SpawnInv, RecordInv, Frame, [Next]_vars, Ghosts,
         NEW c \in tracked, c \notin live, c \in tracked'
  PROVE  Leaves(c)'
<1>1. Leaves(c) /\ Faultless
  BY DEF Ghosts, RecordInv
<1>2. c \in Channels /\ (c \notin inFlight => c \notin inFlight') /\ (Steady => Steady')
  BY GhostStays, SteadyNext
<1>3. CASE Untracks(c)
  BY <1>1, <1>2, <1>3, UntracksOn DEF Leaves
<1>4. CASE c \in chDeletes
  BY <1>1, <1>4, DeletesOn DEF Leaves
<1>5. CASE SweepDue /\ c \notin inFlight
  BY <1>1, <1>2, <1>5, DueOn DEF Leaves, Rebuild, discord, SweepDue, Kept, Restored
<1>6. CASE (c \in cached \/ Inside(c) # {}) /\ (Steady \/ c \notin inFlight)
  <2>1. \/ c \in cached' \/ Inside(c)' # {}
        \/ c \in chDeletes'
        \/ GuildCreate
    BY <1>6, CachedOn
  <2>2. CASE GuildCreate
    BY <1>2, <1>6, <2>2 DEF GuildCreate, Steady, SweepDue, RebuildDue, TypeOK, Leaves
  <2> QED
    BY <1>2, <1>6, <2>1, <2>2 DEF Leaves
<1>7. CASE Told /\ Doomed(c)
  <2>1. Told'
    BY <1>2, <1>7, AllowedFalls DEF Told, Kinds
  <2> QED
    BY <1>2, <1>7, <2>1, DoomedOn DEF Leaves, Told
<1> QED
  BY <1>1, <1>3, <1>4, <1>5, <1>6, <1>7 DEF Leaves

LEMMA NewGhostLeaves ==
  ASSUME TypeOK, SpawnInv, RecordInv, Frame, [Next]_vars, Ghosts,
         NEW c \in tracked', c \notin live', c \notin tracked \/ c \in live
  PROVE  Leaves(c)'
<1>0. /\ Faultless /\ (Steady => Steady') /\ (Told => Told') /\ Apart
      /\ (Steady \/ allowed["handDelete"] = 0)
  BY SteadyNext, AllowedFalls DEF RecordInv, Ghosts, Told, Kinds, Apart
<1>1. CASE c \in live
  <2>1. CASE Untracks(c)'
    BY <2>1 DEF Leaves
  <2>2. CASE Steady /\ UNCHANGED cached /\ c \in tracked
    BY <1>0, <1>1, <2>2 DEF RecordInv, Cached, Steady, Leaves
  <2>3. CASE HandDelete(c)
    BY <1>0, <2>2, <2>3 DEF HandDelete, Spend, record
  <2>4. CASE Spend("lostAnswer") /\ UNCHANGED <<tracked, cached>>
    BY <1>0, <2>2, <2>4 DEF Spend, Apart
  <2> QED
    BY <1>1, <2>1, <2>3, <2>4, Dies
<1>2. CASE c \notin tracked /\ c \notin live
  <2>1. ASSUME NEW h \in Handlers, Commit(h) PROVE Leaves(c)'
    BY <1>0, <1>2, <2>1, CommitFresh, CommitDoomed DEF Commit, Committing, Ghosts, Leaves
  <2>2. CASE Rebuild
    BY <1>2, <2>2 DEF Rebuild, Kept, discord, Restored, Judged, Leaves
  <2>3. ~(tracked' \subseteq tracked)
    BY <1>2
  <2>4. ~Still /\ \A d \in Channels : ~HandDelete(d)
    BY <2>3 DEF Still, HandDelete, record
  <2>5. ASSUME NEW h \in Handlers, ChannelDeleteEvent(h) \/ Create(h)
        PROVE  FALSE
    BY <2>3, <2>5 DEF ChannelDeleteEvent, Untrack, Create
  <2>6. ASSUME NEW g \in Goroutines, ChannelDelete(g) \/ UntrackDeleted(g)
        PROVE  FALSE
    BY <2>3, <2>6 DEF ChannelDelete, UntrackDeleted, Untrack, record
  <2> QED
    BY ZenonT(30), <1>0, <2>1, <2>2, <2>4, <2>5, <2>6, MostStill
<1> QED
  BY <1>1, <1>2

LEMMA CreatedLives ==
  ASSUME [Next]_vars, Faultless, NEW c \in created' \ created
  PROVE  c \in live'
<1>1. created' # created
  OBVIOUS
<1>2. ~Still /\ ~Rebuild
  BY <1>1 DEF Still, Rebuild, discord
<1>3. \A d \in Channels : ~HandDelete(d)
  BY <1>1 DEF HandDelete
<1>4. ASSUME NEW h \in Handlers, ChannelDeleteEvent(h) \/ Create(h) \/ Commit(h)
      PROVE  c \in live'
  BY <1>1, <1>4 DEF ChannelDeleteEvent, Create, Commit, discord
<1>5. ASSUME NEW g \in Goroutines, ChannelDelete(g) \/ UntrackDeleted(g) PROVE FALSE
  BY <1>1, <1>5 DEF ChannelDelete, UntrackDeleted, discord
<1> QED
  BY <1>2, <1>3, <1>4, <1>5, MostStill

(* A channel whose creation is all there is lives as it is committed,      *)
(* unless it was deleted by hand in between.                               *)
LEMMA CommitsLive ==
  ASSUME TypeOK, TypeOK', SpawnInv, RecordInv, Frame, [Next]_vars, Ghosts,
         NEW h \in Handlers, Commits(h)', Last(h)'.c \notin live'
  PROVE  Told'
<1>0. /\ Faultless /\ (Told => Told') /\ h \in Goroutines
      /\ allowed["handDelete"] > 0 => Told
  <2>1. Faultless /\ h \in Goroutines /\ Apart
    BY DEF RecordInv, Ghosts, Goroutines
  <2>2. Told => Told'
    BY SteadyNext, AllowedFalls DEF Told, Kinds
  <2>3. allowed["handDelete"] > 0 => Told
    BY <2>1 DEF Apart, Told
  <2> QED
    BY <2>1, <2>2, <2>3
<1>1. PICK i : i = Last(h)'
  OBVIOUS
<1>2. i \in Seen(run'[h]) /\ i.op = "commit"
  BY <1>0, <1>1, SeenFin DEF TypeOK, Commits, Last, Fin
<1>3. CASE i \in Seen(run[h])
  BY <1>0, <1>1, <1>2, <1>3, CommitLast, Dies DEF EndOps, ReserveOps, Commits, Ghosts,
     RecordInv, Fresh, HandDelete, Spend
<1>4. CASE i \notin Seen(run[h])
  BY <1>0, <1>1, <1>2, <1>4, WorkStep, CreatedLives DEF Gained, Gains
<1> QED
  BY <1>3, <1>4

LEMMA GhostsStep ==
  ASSUME TypeOK, SpawnInv, RecordInv, [Next]_vars, Ghosts
  PROVE  Ghosts'
<1>1. Frame /\ TypeOK'
  BY FrameStep, NextType
<1>2. Apart'
  BY <1>1, AllowedFalls, SteadyNext DEF Kinds, Ghosts, Apart
<1>3. ASSUME NEW c \in tracked', c \notin live' PROVE Leaves(c)'
  BY <1>1, <1>3, GhostLeaves, NewGhostLeaves
<1>4. ASSUME NEW h \in Handlers, Commits(h)', Last(h)'.c \notin live' PROVE Told'
  BY <1>1, <1>4, CommitsLive
<1> QED
  BY <1>2, <1>3, <1>4 DEF Ghosts

(* No two of the disturbances whose ghosts only each other's absence clears. *)
Singly(f) == \/ f["outage"] = 0 /\ f["handDelete"] = 0
             \/ f["outage"] = 0 /\ f["lostAnswer"] = 0
             \/ f["handDelete"] = 0 /\ f["lostAnswer"] = 0

LEMMA GhostsStart ==
  ASSUME Init, Faultless, Singly(allowed)
  PROVE  Ghosts
<1>1. \A g \in Goroutines : run[g] = <<>> /\ todo[g] = {}
  BY DEF Init
<1>2. tracked = {} /\ present /\ sweeps = 0 /\ ~sweepActive
  BY DEF Init
<1>3. Apart
  BY <1>1, <1>2 DEF Steady, Faultless, Goroutines, Apart, Singly
<1>4. \A h \in Handlers : ~Commits(h)
  BY <1>1 DEF Commits, Goroutines
<1> QED
  BY <1>2, <1>3, <1>4 DEF Ghosts

(* With nothing left to do, nothing is still on its way to a ghost.        *)
LEMMA QuietLives ==
  ASSUME TypeOK, RecordInv, Ghosts, Quiet
  PROVE  tracked \subseteq live
  BY DEF Quiet, Idle, Goroutines, Ghosts, RecordInv, Cached, Untracks, At, Doomed,
     SweepDue, RebuildDue, Leaves

LEMMA QuietRowed ==
  ASSUME TypeOK, SpawnInv, RecordInv, Quiet, NEW c \in tracked \cap live
  PROVE  rows[c] # NoRow
  BY DEF Quiet, Idle, Carries, Goroutines, SpawnInv, InFlightAccounted, RecordInv, Rowed

LEMMA RecordSays ==
  ASSUME TypeOK, RecordInv
  PROVE  NumbersDistinct /\ RowedChannelsTracked
  BY DEF TypeOK, RecordInv, Stored, Numbered, RowedChannelsTracked

(* No sweep that overlaps a spawn or a handover loses a channel that has   *)
(* its row, no two live channels share a number, and nothing but Discord's *)
(* word that a channel is gone takes it out of the record                  *)
(* (temp_vc.go:57, untrackLocked, nextChannelIndexLocked): however many    *)
(* members, handlers, outages and deletes by hand there are, while the     *)
(* process lives and the store answers.                                    *)
THEOREM RecordKeeps ==
  ASSUME \A f \in Allowances : f["restart"] = 0 /\ f["storeFault"] = 0
  PROVE  Spec => [](NumbersDistinct /\ RowedChannelsTracked) /\ UntrackedOnlyGone
<1>1. Init => TypeOK /\ SpawnInv /\ RecordInv
  BY InitType, InitSpawns, RecordStart DEF Init, Faultless
<1>2. TypeOK /\ SpawnInv /\ RecordInv /\ [Next]_vars => (TypeOK /\ SpawnInv /\ RecordInv)'
  BY NextType, NextSpawns, RecordNext
<1>3. TypeOK /\ SpawnInv /\ RecordInv => NumbersDistinct /\ RowedChannelsTracked
  BY RecordSays
<1>4. TypeOK /\ SpawnInv /\ RecordInv /\ [Next]_vars =>
        [allowed'["restart"] = allowed["restart"] => (tracked \ tracked') \cap live' = {}]_vars
  BY RecordNext DEF Frame
<1> QED
  BY <1>1, <1>2, <1>3, <1>4, PTL DEF Spec, UntrackedOnlyGone

(* The record matches Discord and the store: besides what RecordKeeps      *)
(* says, once all is quiet it holds no channel that is gone and each one   *)
(* it holds has its row for the next restart (HandleChannelDelete,         *)
(* deleteIfStillEmpty, handleGuildCreate, settleSpawn).  An outage may     *)
(* swallow the event of a delete by hand or of one whose answer is lost,   *)
(* which the next sweep makes good except for a spawn in flight; and a     *)
(* spawn whose channel was deleted by hand may lose the answer of its own  *)
(* delete: so there is at most one kind of the three.                      *)
THEOREM RecordAlwaysMatches ==
  ASSUME \A f \in Allowances : /\ f["restart"] = 0 /\ f["storeFault"] = 0
                               /\ Singly(f)
  PROVE  Spec => RecordMatches
<1>1. Init => TypeOK /\ SpawnInv /\ RecordInv /\ Ghosts
  BY InitType, InitSpawns, RecordStart, GhostsStart DEF Init, Faultless
<1>2. TypeOK /\ SpawnInv /\ RecordInv /\ Ghosts /\ [Next]_vars =>
        (TypeOK /\ SpawnInv /\ RecordInv /\ Ghosts)'
  BY NextType, NextSpawns, RecordNext, GhostsStep
<1>3. TypeOK /\ SpawnInv /\ RecordInv /\ Ghosts => TrackedChannelsRowed /\ NoGhostTracked
  BY QuietLives, QuietRowed DEF TrackedChannelsRowed, NoGhostTracked
<1>4. Spec => [](TrackedChannelsRowed /\ NoGhostTracked)
  BY <1>1, <1>2, <1>3, PTL DEF Spec
<1>5. Spec => [](NumbersDistinct /\ RowedChannelsTracked) /\ UntrackedOnlyGone
  BY RecordKeeps
<1> QED
  BY <1>4, <1>5, PTL DEF RecordMatches

=============================================================================
