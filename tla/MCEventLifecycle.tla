--------------------------- MODULE MCEventLifecycle ---------------------------
(***************************************************************************)
(* The small instance of EventLifecycle for TLC.  A behaviour is either    *)
(* that of one cron job alone, which fails or dies once, while the event   *)
(* is created and its users register, withdraw and are deleted; or that of *)
(* all cron jobs and organizers around a published event with its          *)
(* participants.  Together, with every step of both, the instance would be *)
(* too large for the temporal properties.                                  *)
(***************************************************************************)
EXTENDS EventProperties

VARIABLE crew  \* the cron jobs and the requests of this behaviour

allVars == <<vars, crew>>

Alone == {CHOOSE c \in Crons : TRUE}

(* An event that has been created and published, and that all have joined. *)
Published ==
  /\ status = "published" /\ startTime \in Times /\ endTime \in Times /\ clock = 0
  /\ owned = TRUE /\ rooms = 1
  /\ participants = Users /\ accounts = Users
  /\ lock = NoCron
  /\ inbox = [c \in Crons |-> [u \in Users |-> [k \in Kinds |-> 0]]]
  /\ unpublished = [k \in Kinds |-> 0]
  /\ pc = [c \in Crons |-> "idle"] /\ tick = [c \in Crons |-> NoTick]
  /\ req = [o \in Organizers |-> NoReq]
  /\ edits = 0 /\ failures = 0
  /\ moves = [published |-> 1, started |-> 0, opened |-> 0, closed |-> 0]

ScheduledInit ==
  \/ crew = Alone /\ Init
  \/ crew = Crons \cup Organizers /\ Published

ScheduledNext ==
  /\ UNCHANGED crew
  /\ \/ \E c \in Crons \cap crew : SyncCtfStatus(c)
     \/ \E o \in Organizers \cap crew : Organize(o)
     \/ Pass
     \/ /\ crew = Alone
        /\ \/ \E c \in crew : FailTick(c)
           \/ Crash
           \/ \E isOpen \in BOOLEAN, start, end \in Times : CreateEvent(isOpen, start, end)
           \/ \E u \in Users : ChangeParticipants(u) \/ DeleteUser(u)

(* The fairness of EventLifecycle, for the cron jobs that are at work.     *)
ScheduledFairness ==
  \A c \in Crons :
    /\ WF_allVars(/\ c \in crew /\ UNCHANGED crew
                  /\ SyncCtfStatus(c) \/ (~ Deliverable(c) /\ FailTick(c)))
    /\ SF_allVars(c \in crew /\ UNCHANGED crew /\ UpdateActive(c))
    /\ SF_allVars(c \in crew /\ UNCHANGED crew /\ UpdateEnded(c))

ScheduledSpec == ScheduledInit /\ [][ScheduledNext]_allVars /\ ScheduledFairness
=============================================================================
