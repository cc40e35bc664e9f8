------------------------------ MODULE MCTempVC ------------------------------
(* Small instances of TempVC: two members, a category with room for one or *)
(* two channels, two event handlers at a time.  Each run takes one of the  *)
(* budgets below: how much of each kind of disturbance it sees.            *)
EXTENDS TempVC, TLC

(* Handlers are interchangeable; members are not, their IDs break ties.    *)
HandlerSymmetry == Permutations(Handlers)

(* Ladders: a member's seniority, NoRank for one who is no Cav member.     *)
AllCav  == {[u \in Users |-> u - 1]}
TwoLadders == AllCav \cup {[u \in Users |-> IF u = 1 THEN NoRank ELSE 0]}
SomeCav == {[u \in Users |-> IF u \in S THEN NoRank - u ELSE NoRank] :
              S \in (SUBSET Users) \ {{}}}

(* Disturbances: n moves, and with them some of each other kind.           *)
Moves(n, others) == "move" :> n @@ others @@ [k \in Kinds |-> 0]
Nothing == [k \in {} |-> 0]

Spawns == {Moves(3, Nothing), Moves(2, "outage" :> 2),
           Moves(3, "discordFault" :> 1), Moves(2, "handDelete" :> 1),
           Moves(2, "rankSave" :> 1), Moves(3, "lostAnswer" :> 1)}
Lives  == {Moves(3, Nothing), Moves(2, "rankSave" :> 1),
           Moves(2, "storeFault" :> 1), Moves(2, "lostAnswer" :> 1)}
Reconnects == {Moves(2, "outage" :> 1), Moves(1, "outage" :> 1 @@ "storeFault" :> 1),
               Moves(1, "restart" :> 1), Moves(1, "discordFault" :> 1),
               Moves(1, "lostAnswer" :> 1)}
MovesOnly  == {Moves(4, Nothing)}

(* A spawned channel with members inside and no room for another: what     *)
(* happens to a channel after its spawn, without the spawns.  Its owner is *)
(* any Cav member inside, none only if there is none.                      *)
EstablishedInit ==
  \E S \in (SUBSET Users) \ {{}}, o \in Users \cup {NoOne} :
    /\ ladder \in Ladders
    /\ IF o = NoOne THEN \A u \in S : ladder[u] >= NoRank
       ELSE o \in S /\ ladder[o] < NoRank
    /\ live = {1} /\ created = Channels /\ cached = {1}
    /\ loc = [u \in Users |-> IF u \in S THEN 1 ELSE Out] /\ present = TRUE
    /\ events = {} /\ chDeletes = {} /\ sweeps = 0
    /\ userChannel = loc
    /\ tracked = {1} /\ occupants = [c \in Channels |-> IF c = 1 THEN S ELSE {}]
    /\ owners = [c \in Channels |-> IF c = 1 THEN o ELSE NoOne]
    /\ channelIndex = [c \in Channels |-> IF c = 1 THEN 1 ELSE 0]
    /\ pending = {} /\ inFlight = {} /\ settled = {} /\ sweepActive = FALSE
    /\ rows = [c \in Channels |->
                 IF c = 1 THEN [owner |-> o, number |-> 1] ELSE NoRow]
    /\ run = [g \in Goroutines |-> <<>>] /\ todo = [g \in Goroutines |-> {}]
    /\ listed = [c \in Channels |-> NoRow]
    /\ allowed \in Allowances

EstablishedSpec     == EstablishedInit /\ [][Next]_vars
EstablishedFairSpec == EstablishedSpec /\ Fairness
=============================================================================
