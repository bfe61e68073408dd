--------------------------- MODULE LeaderTakeover ---------------------------
(***************************************************************************)
(* Who leads the hosts of a Walnut: its primary (the Mac), or, while it is *)
(* away, its cloud companion. Each host's daemon keeps a leader book       *)
(* (src/src/providers/leader-core.ts): who leads it, under which number,   *)
(* and whether it heard the primary lately. The primary describes the      *)
(* Walnut to a host it connects to, and takes the lead back                *)
(* (core/leader/primary-leader.ts). The companion asks every host it       *)
(* reaches, and decides (core/leader/backup-leader.ts, takeover.ts).       *)
(*                                                                         *)
(* Time is abstract: `silent' and `quiet' say that a window of takeoverMs  *)
(* has passed since the primary was last heard, which may happen as soon   *)
(* as it can not be heard.                                                 *)
(***************************************************************************)
EXTENDS Naturals

CONSTANTS
  Host,
  NONE,
  MaxAway,      \* bound: times the primary sleeps or restarts, or a link drops
  MaxMishaps,   \* bound: restarts of a daemon or the companion, messages that
                \* fail, and changes of the user's permission
  MaxSends      \* bound: commands of the companion

ASSUME LeaderAssumption ==
  MaxAway \in Nat /\ MaxMishaps \in Nat /\ MaxSends \in Nat

ASSUME NoneAssumption == NONE \notin Host \X Nat

VARIABLES
  (* the hosts *)
  rec,       \* each host's record of this Walnut, on its disk as well
  silent,    \* it has not heard the primary for takeoverMs
  (* the primary *)
  awake,
  allowed,   \* the user lets the companion lead
  link,      \* its connection to each host: down, or up
  bound,     \* the host knows whose connection that is
  todo,      \* what the connection has to do next
  told,      \* the holder a configure was answered
  (* the companion *)
  quiet,     \* it has not heard the primary's heartbeat for takeoverMs
  notice,    \* the primary said it restarts, and its window lasts
  leading,   \* the number under which it leads each host (0: it does not)
  tick,      \* its decision round: idle, asking, claiming
  quietThen, \* what it knew of the heartbeat when the round began
  reports,   \* what each host answered
  claims,    \* the claims still to send: host and number
  waiting,   \* the claim it waits for
  answer,    \* the answer to it
  (* what is on the way *)
  flight,    \* claims it no longer waits for
  sent,      \* commands: host and number
  obeyed,    \* auxiliary: those carried out since the primary last took the lead
  ended,     \* auxiliary: leads the primary took back
  used       \* the bounded events so far

hosts == <<rec, silent>>
primary == <<awake, allowed, link, bound, todo, told>>
view == <<quiet, notice>>
round == <<tick, quietThen, reports, claims, waiting, answer>>
companion == <<view, leading, round>>
wires == <<flight, sent, obeyed>>
vars == <<hosts, primary, companion, wires, ended, used>>

Unknown == [epoch |-> 0, holder |-> "primary", backup |-> FALSE]
Record == [epoch : Nat, holder : {"primary", "backup"}, backup : BOOLEAN]
Report ==
  [says : {"pending", "absent", "none", "lead"},
   epoch : Nat, holder : {"primary", "backup"}, heard : BOOLEAN]
NoLead(says) == [says |-> says, epoch |-> 0, holder |-> "primary", heard |-> FALSE]
Lead == Host \X Nat

Unasked == [h \in Host |-> NoLead("absent")]

TypeOK ==
  /\ rec \in [Host -> Record]
  /\ silent \in [Host -> BOOLEAN]
  /\ awake \in BOOLEAN /\ allowed \in BOOLEAN
  /\ link \in [Host -> {"down", "up"}] /\ bound \in [Host -> BOOLEAN]
  /\ todo \in [Host -> {"handover", "configure", "told", "claim", "done"}]
  /\ told \in [Host -> {"primary", "backup"}]
  /\ quiet \in BOOLEAN /\ notice \in BOOLEAN /\ quietThen \in BOOLEAN
  /\ leading \in [Host -> Nat]
  /\ tick \in {"idle", "asking", "claiming"}
  /\ reports \in [Host -> Report]
  /\ claims \in SUBSET Lead /\ waiting \in Lead \cup {NONE}
  /\ answer \in {"none", "granted", "refused"}
  /\ flight \in SUBSET Lead /\ sent \in SUBSET Lead
  /\ obeyed \in SUBSET Lead /\ ended \in SUBSET Lead
  /\ used \in [away : Nat, mishaps : Nat, sends : Nat]

Init ==
  /\ rec = [h \in Host |-> Unknown]
  /\ silent = [h \in Host |-> FALSE]
  /\ awake = TRUE /\ allowed \in BOOLEAN
  /\ link = [h \in Host |-> "down"] /\ bound = [h \in Host |-> FALSE]
  /\ todo = [h \in Host |-> "handover"] /\ told = [h \in Host |-> "primary"]
  /\ quiet = FALSE /\ notice = FALSE /\ quietThen = FALSE
  /\ leading = [h \in Host |-> 0]
  /\ tick = "idle" /\ reports = Unasked
  /\ claims = {} /\ waiting = NONE /\ answer = "none"
  /\ flight = {} /\ sent = {} /\ obeyed = {} /\ ended = {}
  /\ used = [away |-> 0, mishaps |-> 0, sends |-> 0]

Use(what, max) == used[what] < max /\ used' = [used EXCEPT ![what] = @ + 1]

-----------------------------------------------------------------------------
(* A host's book *)

Known(h) == rec[h].epoch > 0

\* The record and its file.
Write(h, r) == rec' = [rec EXCEPT ![h] = r]

NoteHeard(h) == silent' = [silent EXCEPT ![h] = FALSE]

\* Mutant: the number stays when the primary takes the lead back.
TakenBackSame(h) == [rec[h] EXCEPT !.holder = "primary"]

\* primaryClaim, of a lead the companion holds.
TakenBack(h) == [rec[h] EXCEPT !.holder = "primary", !.epoch = @ + 1]

\* Mutant: a number the host already gave out will do.
GrantsAgain(h, e) == rec[h].backup /\ e >= rec[h].epoch /\ silent[h]

\* backupClaim.
Grants(h, e) == rec[h].backup /\ e > rec[h].epoch /\ silent[h]

\* Mutant: the number is not looked at.
FenceHolder(h, e) == rec[h].holder = "backup"

\* fence: a command of the companion is honoured only from the current lead.
Fence(h, e) == rec[h].holder = "backup" /\ rec[h].epoch = e

\* backupLead.
BackupLead(h) == rec[h].holder = "backup" /\ rec[h].backup

Connected(h) == link[h] = "up" /\ bound[h]

\* Mutant: the record itself is reported.
WitnessedRaw(h) == rec[h]

\* What a host tells the companion: nothing of a Walnut that does not let it lead.
Witnessed(h) ==
  IF rec[h].backup
    THEN [says |-> "lead", epoch |-> rec[h].epoch, holder |-> rec[h].holder,
          heard |-> ~silent[h]]
    ELSE NoLead("none")

\* A window passes in which the primary could not be heard.
Silence(h) ==
  /\ ~silent[h] /\ ~(awake /\ Connected(h))
  /\ silent' = [silent EXCEPT ![h] = TRUE]
  /\ UNCHANGED <<rec, primary, companion, wires, ended, used>>

\* The daemon starts again from its book, and counts its silence from there.
RestartDaemon(h) ==
  /\ Use("mishaps", MaxMishaps)
  /\ NoteHeard(h)
  /\ link' = [link EXCEPT ![h] = "down"] /\ bound' = [bound EXCEPT ![h] = FALSE]
  /\ UNCHANGED <<rec, awake, allowed, todo, told, companion, wires, ended>>

-----------------------------------------------------------------------------
(* The primary *)

Working(h) == awake /\ link[h] = "up"

Connect(h) ==
  /\ awake /\ link[h] = "down"
  /\ link' = [link EXCEPT ![h] = "up"]
  /\ todo' = [todo EXCEPT ![h] = "handover"]
  /\ UNCHANGED <<hosts, awake, allowed, bound, told, companion, wires, ended, used>>

Disconnect(h) ==
  /\ link[h] = "up" /\ Use("away", MaxAway)
  /\ link' = [link EXCEPT ![h] = "down"] /\ bound' = [bound EXCEPT ![h] = FALSE]
  /\ UNCHANGED <<hosts, awake, allowed, todo, told, companion, wires, ended>>

\* What the host did alone is taken back, and it gets its copy, which names the
\* Walnut of the connection.
Handover(h) ==
  /\ Working(h) /\ todo[h] = "handover"
  /\ bound' = [bound EXCEPT ![h] = TRUE]
  /\ todo' = [todo EXCEPT ![h] = "configure"]
  /\ UNCHANGED <<hosts, awake, allowed, link, told, companion, wires, ended, used>>

\* leader.configure: a first one starts at number 1, later ones change the permission.
Configure(h) ==
  /\ Working(h) /\ todo[h] = "configure"
  /\ Write(h, [rec[h] EXCEPT !.backup = allowed, !.epoch = IF Known(h) THEN @ ELSE 1])
  /\ NoteHeard(h)
  /\ told' = [told EXCEPT ![h] = rec[h].holder]
  /\ todo' = [todo EXCEPT ![h] = "told"]
  /\ UNCHANGED <<awake, allowed, link, bound, companion, wires, ended, used>>

\* Its answer: take the lead back if the companion holds it.
Learn(h) ==
  /\ Working(h) /\ todo[h] = "told"
  /\ todo' = [todo EXCEPT ![h] = IF told[h] = "backup" THEN "claim" ELSE "done"]
  /\ told' = [told EXCEPT ![h] = "primary"]
  /\ UNCHANGED <<hosts, awake, allowed, link, bound, companion, wires, ended, used>>

\* leader.claim on the primary's connection.
Claim(h) ==
  /\ Working(h) /\ todo[h] = "claim" /\ Known(h)
  /\ IF rec[h].holder = "primary"
       THEN UNCHANGED <<rec, obeyed, ended>>
       ELSE /\ Write(h, TakenBack(h))
            /\ ended' = ended \cup {<<h, rec[h].epoch>>}
            /\ obeyed' = {c \in obeyed : c[1] # h}
  /\ NoteHeard(h)
  /\ todo' = [todo EXCEPT ![h] = "done"]
  /\ UNCHANGED <<awake, allowed, link, bound, told, companion, flight, sent, used>>

\* A frame, a ping or a pong of a primary the host knows.
Hear(h) ==
  /\ awake /\ Connected(h) /\ silent[h]
  /\ NoteHeard(h)
  /\ UNCHANGED <<rec, primary, companion, wires, ended, used>>

Nudged(h) == BackupLead(h)

\* Heard while the companion leads: leader-lost, and the round runs again. One
\* that arrives during a round is overwritten when the round ends.
Nudge(h) ==
  /\ awake /\ Connected(h) /\ ~silent[h] /\ todo[h] = "done" /\ Nudged(h)
  /\ todo' = [todo EXCEPT ![h] = "handover"]
  /\ UNCHANGED <<hosts, awake, allowed, link, bound, told, companion, wires, ended, used>>

\* A sleeping Mac keeps its connections.
Sleep ==
  /\ awake /\ Use("away", MaxAway) /\ awake' = FALSE
  /\ UNCHANGED <<hosts, allowed, link, bound, todo, told, companion, wires, ended>>

Wake ==
  /\ ~awake /\ awake' = TRUE
  /\ UNCHANGED <<hosts, allowed, link, bound, todo, told, companion, wires, ended, used>>

\* A planned restart, announced to the companion.
Restart ==
  /\ awake /\ Use("away", MaxAway) /\ awake' = FALSE
  /\ link' = [h \in Host |-> "down"] /\ bound' = [h \in Host |-> FALSE]
  /\ quiet' = FALSE /\ notice' = TRUE
  /\ UNCHANGED <<hosts, allowed, todo, told, leading, round, wires, ended>>

\* The user changes the permission: every connected host is told.
Allow ==
  /\ awake /\ Use("mishaps", MaxMishaps) /\ allowed' = ~allowed
  /\ todo' = [h \in Host |-> IF link[h] = "up" /\ todo[h] = "done" THEN "handover" ELSE todo[h]]
  /\ UNCHANGED <<hosts, awake, link, bound, told, companion, wires, ended>>

-----------------------------------------------------------------------------
(* The companion *)

\* The heartbeat gets through, or a window passes without one.
Heartbeat ==
  /\ awake /\ (quiet \/ notice) /\ quiet' = FALSE /\ notice' = FALSE
  /\ UNCHANGED <<hosts, primary, leading, round, wires, ended, used>>

Quiet ==
  /\ ~quiet /\ quiet' = TRUE
  /\ IF awake THEN Use("away", MaxAway) ELSE UNCHANGED used
  /\ UNCHANGED <<hosts, primary, notice, leading, round, wires, ended>>

NoticeEnds ==
  /\ notice /\ notice' = FALSE
  /\ UNCHANGED <<hosts, primary, quiet, leading, round, wires, ended, used>>

Led == {h \in Host : leading[h] > 0}

\* tickOnce: it asks every host it reaches, on what it knows of the heartbeat now.
Tick ==
  /\ tick = "idle" /\ (Led # {} \/ (quiet /\ ~notice))
  /\ tick' = "asking" /\ quietThen' = quiet
  /\ reports' = [h \in Host |-> NoLead("pending")]
  /\ UNCHANGED <<hosts, primary, view, leading, claims, waiting, answer, wires, ended, used>>

\* A host tells what it knows; its answer may fail, or it is not there to ask.
Witness(h) ==
  /\ tick = "asking" /\ reports[h].says = "pending"
  /\ \/ reports' = [reports EXCEPT ![h] = Witnessed(h)] /\ UNCHANGED used
     \/ /\ \E r \in {"none", "absent"} : reports' = [reports EXCEPT ![h] = NoLead(r)]
        /\ Use("mishaps", MaxMishaps)
  /\ UNCHANGED <<hosts, primary, view, leading, tick, quietThen, claims, waiting, answer,
                 wires, ended>>

\* Mutant: only a host that does not say is given up.
LostByNone == {h \in Led : reports[h].says = "none"}

\* decideTakeover: a host that took its lead back, or does not say, is given up.
Lost ==
  {h \in Led : \/ reports[h].says = "none"
               \/ /\ reports[h].says = "lead"
                  /\ reports[h].holder = "primary" \/ reports[h].epoch > leading[h]}

\* The hosts not led yet that would agree to it.
Candidates == {h \in Host \ Led : reports[h].says = "lead"}

Decide ==
  /\ tick = "asking" /\ \A h \in Host : reports[h].says # "pending"
  /\ LET claim == /\ Lost = {} /\ quietThen /\ ~notice /\ Candidates # {}
                  /\ \A h \in Candidates : ~reports[h].heard
     IN /\ tick' = IF claim THEN "claiming" ELSE "idle"
        /\ claims' = IF claim THEN {<<h, reports[h].epoch + 1>> : h \in Candidates} ELSE {}
        /\ reports' = IF claim THEN reports ELSE Unasked
  /\ quietThen' = FALSE
  /\ leading' = [h \in Host |-> IF h \in Lost THEN 0 ELSE leading[h]]
  /\ UNCHANGED <<hosts, primary, view, waiting, answer, wires, ended, used>>

\* One claim after another.
AskLead(c) ==
  /\ tick = "claiming" /\ waiting = NONE /\ c \in claims
  /\ claims' = claims \ {c} /\ waiting' = c
  /\ UNCHANGED <<hosts, primary, view, leading, tick, quietThen, reports, answer, wires,
                 ended, used>>

Given(c) == Write(c[1], [rec[c[1]] EXCEPT !.holder = "backup", !.epoch = c[2]])

\* leader.claim over the bridge.
AnswerClaim ==
  /\ waiting # NONE /\ answer = "none"
  /\ IF Grants(waiting[1], waiting[2])
       THEN Given(waiting) /\ answer' = "granted"
       ELSE UNCHANGED rec /\ answer' = "refused"
  /\ UNCHANGED <<silent, primary, view, leading, tick, quietThen, reports, claims,
                 waiting, wires, ended, used>>

\* One that was given up reaches the host all the same.
LateClaim(c) ==
  /\ c \in flight /\ flight' = flight \ {c}
  /\ IF Grants(c[1], c[2]) THEN Given(c) ELSE UNCHANGED rec
  /\ UNCHANGED <<silent, primary, companion, sent, obeyed, ended, used>>

HearAnswer ==
  /\ waiting # NONE /\ answer # "none"
  /\ leading' = IF answer = "granted" THEN [leading EXCEPT ![waiting[1]] = waiting[2]] ELSE leading
  /\ waiting' = NONE /\ answer' = "none"
  /\ UNCHANGED <<hosts, primary, view, tick, quietThen, reports, claims, wires, ended, used>>

\* The companion stops waiting; what it asked may still be on the way.
NotHeard ==
  /\ waiting' = NONE /\ answer' = "none"
  /\ \/ UNCHANGED flight
     \/ waiting # NONE /\ answer = "none" /\ flight' = flight \cup {waiting}

GiveUpClaim ==
  /\ waiting # NONE /\ Use("mishaps", MaxMishaps)
  /\ NotHeard
  /\ UNCHANGED <<hosts, primary, view, leading, tick, quietThen, reports, claims, sent,
                 obeyed, ended>>

EndRound ==
  /\ tick = "claiming" /\ claims = {} /\ waiting = NONE
  /\ tick' = "idle" /\ reports' = Unasked
  /\ UNCHANGED <<hosts, primary, view, leading, quietThen, claims, waiting, answer, wires,
                 ended, used>>

\* A delivery, a setting or a control, under the lead it holds.
Send(h) ==
  /\ h \in Led /\ Use("sends", MaxSends)
  /\ sent' = sent \cup {<<h, leading[h]>>}
  /\ UNCHANGED <<hosts, primary, companion, flight, obeyed, ended>>

\* The host carries it out or refuses it, and a refusal that is heard in time
\* ends the lead (lostHost).
Command(c) ==
  /\ c \in sent /\ sent' = sent \ {c}
  /\ IF Fence(c[1], c[2])
       THEN obeyed' = obeyed \cup {c} /\ UNCHANGED leading
       ELSE /\ leading' \in {leading, [leading EXCEPT ![c[1]] = 0]}
            /\ UNCHANGED obeyed
  /\ UNCHANGED <<hosts, primary, view, round, flight, ended, used>>

\* It starts again knowing no lead, and counts its quiet from there.
RestartCompanion ==
  /\ Use("mishaps", MaxMishaps)
  /\ quiet' = FALSE /\ notice' = FALSE
  /\ leading' = [h \in Host |-> 0]
  /\ tick' = "idle" /\ claims' = {} /\ quietThen' = FALSE /\ reports' = Unasked
  /\ NotHeard
  /\ UNCHANGED <<hosts, primary, sent, obeyed, ended>>

-----------------------------------------------------------------------------

OfPrimary ==
  \/ \E h \in Host : \/ Connect(h) \/ Handover(h) \/ Configure(h) \/ Learn(h)
                      \/ Claim(h) \/ Hear(h) \/ Nudge(h)
  \/ Wake \/ Heartbeat

OfCompanion ==
  \/ Tick \/ Decide \/ AnswerClaim \/ HearAnswer \/ EndRound
  \/ \E h \in Host : Witness(h)
  \/ \E c \in claims : AskLead(c)

\* What may happen, and need not.
Mishap ==
  \/ \E h \in Host : Silence(h) \/ RestartDaemon(h) \/ Disconnect(h)
  \/ Sleep \/ Restart \/ Allow \/ Quiet \/ NoticeEnds
  \/ GiveUpClaim \/ RestartCompanion
  \/ \E c \in flight : LateClaim(c)

Next ==
  \/ OfPrimary \/ OfCompanion \/ Mishap
  \/ \E h \in Host : Send(h)
  \/ \E c \in sent : Command(c)

Spec == Init /\ [][Next]_vars

\* The Mac comes back, and its connections, its heartbeat and what the hosts
\* hear of it go on; so do the companion's rounds.
FairSpec ==
  /\ Spec
  /\ WF_vars(Wake) /\ WF_vars(Heartbeat)
  /\ \A h \in Host :
       /\ WF_vars(Connect(h)) /\ WF_vars(Handover(h)) /\ WF_vars(Configure(h))
       /\ WF_vars(Learn(h)) /\ WF_vars(Claim(h)) /\ WF_vars(Hear(h)) /\ WF_vars(Nudge(h))
       /\ WF_vars(Witness(h))
  /\ WF_vars(Tick) /\ WF_vars(Decide) /\ WF_vars(AnswerClaim) /\ WF_vars(HearAnswer)
  /\ WF_vars(EndRound) /\ WF_vars(\E c \in claims : AskLead(c))

-----------------------------------------------------------------------------
(* Properties *)

\* The companion never leads a host that did not give it that lead, under the
\* number it thinks: what a host holds is that lead or a later one.
LeadIsReal ==
  \A h \in Led :
    /\ rec[h].epoch >= leading[h]
    /\ rec[h].epoch = leading[h] => rec[h].holder = "backup"

\* No command of a lead the primary took back is carried out, however late it
\* arrives and whoever leads by then (fence).
NoOldLead == obeyed \cap ended = {}

Book == INSTANCE FencedLead
  WITH lead <- [h \in Host |-> [epoch |-> rec[h].epoch, holder |-> rec[h].holder]]

\* The hosts' books implement FencedLead: numbers only grow, and each lead of
\* the companion has one of its own.
IsALead == Book!Spec

\* Once the Mac stays and no message is lost any more, it leads every host and
\* the companion knows that it leads none.
LeadReturns == <>[](\A h \in Host : rec[h].holder = "primary" /\ leading[h] = 0)

\* What the code says of the permission: a change reaches every host at once,
\* not on the next reconnect (primary-leader.ts, watchBackupLeaderSetting).
SettingReaches ==
  \A h \in Host : awake /\ Connected(h) /\ todo[h] = "done" => rec[h].backup = allowed

\* What takeover.ts says of a host the companion reaches: one that still hears
\* the primary is enough to wait.
OneHearingHostIsEnough ==
  tick = "claiming" => \A h \in Host : reports[h].says = "lead" => ~reports[h].heard
=============================================================================
