--------------------------- MODULE FoxholeReplies ---------------------------
(***************************************************************************)
(* The replies of the bulk commands, cut to Discord's limits:              *)
(* buildBulkAddSummary, buildAddedMembersEmbed (commands/foxhole.go) and   *)
(* clampToDiscordMessageLimit (foxhole_bulkadd_internal.go).  A line is    *)
(* its length in bytes.                                                    *)
(***************************************************************************)
EXTENDS Naturals, Sequences

CONSTANTS
  Limit,        \* the most bytes Discord takes
  NoteLength,   \* bytes of "... and  more.", its number left out
  Base,         \* the digits there are: 10 in the code
  MarkerLength, \* bytes of "... (truncated)"
  LineLengths,  \* how long lines are
  MostLines     \* lines of a reply: a bound

ASSUME RepliesAssumption ==
  /\ {Limit, NoteLength, MarkerLength, MostLines} \subseteq Nat /\ LineLengths \subseteq Nat \ {0}
  /\ Base \in Nat \ {0, 1} /\ MostLines < Base * Base * Base
  /\ NoteLength + 3 <= Limit /\ MarkerLength <= Limit

VARIABLE lines
repliesVars == <<lines>>

(* The note of n lines left out: as long as n has digits, three at most    *)
(* for a reply of MostLines (the most a bulk add fails with is 100).       *)
Note(n) == NoteLength + (IF n < Base THEN 1 ELSE IF n < Base * Base THEN 2 ELSE 3)
SumOf(q) ==
  LET sum[i \in 0 .. Len(q)] == IF i = 0 THEN 0 ELSE sum[i - 1] + q[i] IN sum[Len(q)]
Joined(q) == IF q = <<>> THEN 0 ELSE SumOf(q) + Len(q) - 1
First(q, n) == SubSeq(q, 1, n)
(* How many lines are kept when those that do not fit are at stop: all of  *)
(* those before the first.                                                 *)
KeptWhile(q, stop) ==
  IF stop = {} THEN Len(q) ELSE (CHOOSE i \in stop : \A j \in stop : i <= j) - 1

(* Wrong on purpose, to test RepliesFit: the count line is not counted in. *)
SummaryBlind(q) ==
  LET kept == IF Joined(q) <= Limit THEN Len(q)
              ELSE KeptWhile(q, {i \in DOMAIN q : Joined(First(q, i)) > Limit})
  IN [kept |-> kept, more |-> Len(q) - kept]

(* A bulk add's summary: whole when it fits, else the lines that fit with  *)
(* the count of the rest after them.                                       *)
Summary(q) ==
  LET kept == IF Joined(q) <= Limit THEN Len(q)
              ELSE KeptWhile(q, {i \in DOMAIN q :
                     Joined(First(q, i)) + 1 + Note(Len(q) - i + 1) > Limit})
  IN [kept |-> kept, more |-> Len(q) - kept]
SummaryLength(q) ==
  LET s == Summary(q) IN
    Joined(First(q, s.kept))
      + (IF s.more = 0 THEN 0 ELSE Note(s.more) + (IF s.kept = 0 THEN 0 ELSE 1))

(* The embed of the members added: each on a line of its own, named while  *)
(* the count of those after them still fits.                               *)
Embed(q) ==
  LET kept == KeptWhile(q, {i \in DOMAIN q :
                SumOf(First(q, i)) + i + (IF i = Len(q) THEN 0 ELSE Note(Len(q) - i)) > Limit})
  IN [kept |-> kept, more |-> Len(q) - kept]
EmbedLength(q) ==
  LET e == Embed(q) IN SumOf(First(q, e.kept)) + e.kept + (IF e.more = 0 THEN 0 ELSE Note(e.more))

(* The roster add's summary: whole lines, then the marker.                 *)
Clamp(q) ==
  IF Joined(q) <= Limit THEN Len(q)
  ELSE KeptWhile(q, {i \in DOMAIN q : SumOf(First(q, i)) + i + MarkerLength + 1 > Limit})
ClampLength(q) ==
  LET kept == Clamp(q) IN
    IF kept = Len(q) THEN Joined(q)
    ELSE Joined(First(q, kept)) + (IF kept = 0 THEN 0 ELSE 1) + MarkerLength

RepliesInit == lines = <<>>
RepliesNext == Len(lines) < MostLines /\ \E n \in LineLengths : lines' = Append(lines, n)

(* Every reply fits what Discord takes, so that the edit that carries it   *)
(* does not fail, and its count leaves nobody out.                         *)
RepliesFit ==
  /\ SummaryLength(lines) <= Limit /\ EmbedLength(lines) <= Limit
  /\ (lines # <<>> => ClampLength(lines) <= Limit)
  /\ lines # <<>> => Summary(lines).kept + Summary(lines).more = Len(lines)
=============================================================================
