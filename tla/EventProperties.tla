---------------------------- MODULE EventProperties ----------------------------
(***************************************************************************)
(* What the life of an event promises: see EventLifecycle.                 *)
(***************************************************************************)
EXTENDS EventLifecycle

(* Every variable has its type, and a participant is a user that exists.   *)
TypeOK ==
  /\ status \in Statuses \cup {"absent", "deleted"}
  /\ {startTime, endTime, clock} \subseteq 0..(MaxTime + 1)
  /\ owned \in BOOLEAN /\ rooms \in Nat
  /\ accounts \subseteq Users /\ participants \subseteq accounts
  /\ lock \in Crons \cup {NoCron}
  /\ inbox \in [Crons -> [Users -> [Kinds -> Nat]]]
  /\ unpublished \in [Kinds -> Nat]
  /\ pc \in [Crons -> CronPC] /\ tick \in [Crons -> Tick]
  /\ req \in [Organizers -> [pc : ReqPC, seen : Statuses \cup {"absent"}]]
  /\ {edits, failures} \subseteq Nat
  /\ moves \in [{"published", "started", "opened", "closed"} -> Nat]

TickHoldsRow(c) ==
  /\ lock = c <=> tick[c].open \/ tick[c].close
  /\ tick[c].open => MayOpen(tick[c].now)
  /\ tick[c].close => \/ MayClose(tick[c].now)
                      \/ tick[c].open /\ endTime < tick[c].now

(* The tick that matched the row keeps it locked until it ends, and what   *)
(* its WHERE clauses found stays true until it commits: no organizer and   *)
(* no other tick changes the row in between (SyncCtfStatus).               *)
MatchedRowIsLocked == \A c \in Crons : TickHoldsRow(c)

(* A commit of the cron job opens only a published event whose start time  *)
(* has passed and ends only one whose end time has passed: whatever the    *)
(* organizers did since the tick began, it never reopens an ended event,   *)
(* shows a draft or revives a deleted one (SyncCtfStatus).                 *)
CronOnlyForward ==
  [][\A c \in Crons :
       CommitTick(c) =>
         \/ status' = status
         \/ status' = "active" /\ MayOpen(clock)
         \/ status' = "ended" /\ endTime < clock /\ (MayClose(clock) \/ MayOpen(clock))]_vars

(* However many cron jobs overlap, an event is opened at most once for     *)
(* each time it was published, and ended by them at most once for each     *)
(* time it became active.                                                  *)
MovesFollowEdits ==
  /\ moves.opened <= moves.published
  /\ moves.closed <= moves.opened + moves.started

(* What may empty a tick's announcement between its SELECT and its UPDATE. *)
Interventions == edits + IF status = "deleted" THEN 1 ELSE 0

(* A cron job reads whom to tell before it knows whether it moves the      *)
(* event.  However many jobs overlap and whatever organizers do meanwhile, *)
(* one job tells a user of a start no more often than the jobs opened the  *)
(* event and organizers changed it, and of an end likewise: a tick that    *)
(* failed is tried again without telling twice, and each announcement of a *)
(* move that does not come has a change by hand of its own (SyncCtfStatus). *)
NoticesBounded ==
  \A c \in Crons, u \in Users :
    /\ inbox[c][u]["start"] <= moves.opened + Interventions
    /\ inbox[c][u]["end"] <= moves.closed + Interventions

(* An event whose start time has passed is opened, unless organizers       *)
(* change it first (SyncCtfStatus every three seconds).                    *)
StartsOnTime ==
  (status = "published" /\ startTime < clock) ~> (status # "published" \/ startTime >= clock)

(* And one whose end time has passed is ended.                             *)
EndsOnTime ==
  (status = "active" /\ endTime < clock) ~> (status # "active" \/ endTime >= clock)
-----------------------------------------------------------------------------
(* Violated.  A failed tick leaves nothing behind (README.md: a failure at *)
(* any step rolls back the entire operation).                              *)
FailureLeavesNothing ==
  (\A c \in Crons : pc[c] = "idle") => \A k \in Kinds : unpublished[k] = 0

(* Violated.  A participant is told exactly once that the event becomes    *)
(* active, under cron overlap too (README.md, CTF Lifecycle Automation).   *)
ToldOnce ==
  \A c, d \in Crons, u \in Users :
    c # d => inbox[c][u]["start"] + inbox[d][u]["start"] <= moves.opened
=============================================================================
