------------------------ MODULE LeaderTakeoverProofs ------------------------
(***************************************************************************)
(* For any number of hosts, absences, restarts, changes of mind and lost   *)
(* messages: the companion only ever thinks it leads what a host gave it,  *)
(* no command of a lead the primary took back is carried out, and the      *)
(* hosts' books implement FencedLead.                                      *)
(*                                                                         *)
(* The argument is one fact about a step (BookMoves): a host's number and  *)
(* holder stay as they are, or the number grows. What is past therefore    *)
(* stays past (Passed), and what was given can only be outgrown (Real);    *)
(* both are stated of what the companion knows, what it is about to hear,  *)
(* and every lead that ended.                                              *)
(***************************************************************************)
EXTENDS LeaderTakeover, TLAPS

\* Host h gave number e to the companion, and gave out none since, or a later one.
Real(h, e) == rec[h].epoch >= e /\ (rec[h].epoch = e => rec[h].holder = "backup")

Passed(h, e) == rec[h].epoch > e

\* What the companion was granted, heard of or not.
Granted ==
  /\ LeadIsReal
  /\ answer = "granted" => waiting # NONE /\ Real(waiting[1], waiting[2])

EndedPassed == \A c \in ended : Passed(c[1], c[2])

IInv == TypeOK /\ Granted /\ EndedPassed /\ NoOldLead

LEMMA UseType ==
  ASSUME TypeOK, NEW what \in {"away", "mishaps", "sends"}, NEW max \in Nat, Use(what, max)
  PROVE  used' \in [away : Nat, mishaps : Nat, sends : Nat]
BY DEF TypeOK, Use

\* Whoever waits for a claim waits for one of a host and a number.
LEMMA ClaimType ==
  ASSUME TypeOK, NEW c \in Lead
  PROVE  c[1] \in Host /\ c[2] \in Nat /\ c = <<c[1], c[2]>>
BY DEF Lead

LEMMA NoLeadType ==
  ASSUME NEW says \in {"pending", "absent", "none", "lead"}
  PROVE  NoLead(says) \in Report
BY DEF NoLead, Report

LEMMA WriteType ==
  ASSUME TypeOK, NEW h \in Host, NEW r \in Record, Write(h, r)
  PROVE  rec' \in [Host -> Record] /\ rec' = [rec EXCEPT ![h] = r]
BY DEF TypeOK, Write

LEMMA RecordTypes ==
  ASSUME TypeOK, NEW h \in Host
  PROVE  /\ TakenBack(h) \in Record
         /\ \A e \in Nat : [rec[h] EXCEPT !.holder = "backup", !.epoch = e] \in Record
         /\ \A b \in BOOLEAN :
              [rec[h] EXCEPT !.backup = b, !.epoch = IF Known(h) THEN @ ELSE 1] \in Record
PROOF
<1>0. rec[h] \in Record
  BY DEF TypeOK
<1>1. TakenBack(h) \in Record
  <2>1. rec[h].epoch + 1 \in Nat
    BY <1>0 DEF Record
  <2>2. \A e \in Nat : [rec[h] EXCEPT !.holder = "primary", !.epoch = e] \in Record
    BY <1>0 DEF Record
  <2>3. TakenBack(h) = [rec[h] EXCEPT !.holder = "primary", !.epoch = rec[h].epoch + 1]
    BY <1>0 DEF TakenBack, Record
  <2> QED BY <2>1, <2>2, <2>3
<1>2. \A e \in Nat : [rec[h] EXCEPT !.holder = "backup", !.epoch = e] \in Record
  BY <1>0 DEF Record
<1>3. ASSUME NEW b \in BOOLEAN, NEW e \in Nat
      PROVE  [rec[h] EXCEPT !.backup = b, !.epoch = e] \in Record
  BY <1>0 DEF Record
<1>4. (IF Known(h) THEN rec[h].epoch ELSE 1) \in Nat
  BY <1>0 DEF Record
<1> QED BY <1>0, <1>1, <1>2, <1>3, <1>4 DEF Record

LEMMA InitIInv == Init => IInv
PROOF
<1>1. Unknown \in Record
  BY DEF Unknown, Record
<1>2. Unasked \in [Host -> Report]
  BY NoLeadType DEF Unasked
<1>3. Init => TypeOK
  <2>1. [away |-> 0, mishaps |-> 0, sends |-> 0] \in [away : Nat, mishaps : Nat, sends : Nat]
    OBVIOUS
  <2>2. ASSUME Init
        PROVE  /\ claims \in SUBSET Lead /\ flight \in SUBSET Lead /\ sent \in SUBSET Lead
               /\ obeyed \in SUBSET Lead /\ ended \in SUBSET Lead
    BY <2>2 DEF Init
  <2>3. ASSUME Init
        PROVE  /\ rec \in [Host -> Record] /\ reports \in [Host -> Report]
               /\ leading \in [Host -> Nat]
    BY <1>1, <1>2, <2>3 DEF Init
  <2>4. ASSUME Init
        PROVE  /\ awake \in BOOLEAN /\ allowed \in BOOLEAN
               /\ quiet \in BOOLEAN /\ notice \in BOOLEAN /\ quietThen \in BOOLEAN
    BY <2>4 DEF Init
  <2>5. ASSUME Init
        PROVE  /\ silent \in [Host -> BOOLEAN] /\ bound \in [Host -> BOOLEAN]
               /\ link \in [Host -> {"down", "up"}] /\ told \in [Host -> {"primary", "backup"}]
               /\ todo \in [Host -> {"handover", "configure", "told", "claim", "done"}]
    BY <2>5 DEF Init
  <2>6. ASSUME Init
        PROVE  /\ tick \in {"idle", "asking", "claiming"} /\ waiting \in Lead \cup {NONE}
               /\ answer \in {"none", "granted", "refused"}
    BY <2>6 DEF Init
  <2> QED BY <2>1, <2>2, <2>3, <2>4, <2>5, <2>6 DEF Init, TypeOK
<1>4. Init => Granted /\ EndedPassed /\ NoOldLead
  BY DEF Init, Granted, LeadIsReal, Led, EndedPassed, NoOldLead
<1> QED BY <1>3, <1>4 DEF IInv

-----------------------------------------------------------------------------
(* Types *)

LEMMA HostSteps ==
  ASSUME TypeOK, NEW h \in Host, Silence(h) \/ RestartDaemon(h)
  PROVE  TypeOK'
PROOF
<1>1. CASE Silence(h)
  BY <1>1 DEF Silence, TypeOK, primary, companion, view, round, wires
<1>2. CASE RestartDaemon(h)
  <2>1. used' \in [away : Nat, mishaps : Nat, sends : Nat]
    BY <1>2, UseType, LeaderAssumption DEF RestartDaemon
  <2> QED BY <1>2, <2>1 DEF RestartDaemon, NoteHeard, TypeOK, companion, view, round, wires
<1> QED BY <1>1, <1>2

LEMMA LinkSteps ==
  ASSUME TypeOK, NEW h \in Host,
         Connect(h) \/ Disconnect(h) \/ Handover(h) \/ Learn(h) \/ Hear(h) \/ Nudge(h)
  PROVE  TypeOK'
PROOF
<1>1. CASE Connect(h)
  BY <1>1 DEF Connect, TypeOK, hosts, companion, view, round, wires
<1>2. CASE Disconnect(h)
  <2>1. used' \in [away : Nat, mishaps : Nat, sends : Nat]
    BY <1>2, UseType, LeaderAssumption DEF Disconnect
  <2> QED BY <1>2, <2>1 DEF Disconnect, TypeOK, hosts, companion, view, round, wires
<1>3. CASE Handover(h)
  BY <1>3 DEF Handover, TypeOK, hosts, companion, view, round, wires
<1>4. CASE Learn(h)
  BY <1>4 DEF Learn, TypeOK, hosts, companion, view, round, wires
<1>5. CASE Hear(h)
  BY <1>5 DEF Hear, NoteHeard, TypeOK, primary, companion, view, round, wires
<1>6. CASE Nudge(h)
  BY <1>6 DEF Nudge, TypeOK, hosts, companion, view, round, wires
<1> QED BY <1>1, <1>2, <1>3, <1>4, <1>5, <1>6

LEMMA ConfigureStep ==
  ASSUME TypeOK, NEW h \in Host, Configure(h)
  PROVE  TypeOK'
PROOF
<1>1. rec' \in [Host -> Record]
  BY WriteType, RecordTypes DEF Configure, TypeOK
<1>2. rec[h].holder \in {"primary", "backup"}
  BY DEF TypeOK, Record
<1> QED BY <1>1, <1>2 DEF Configure, NoteHeard, TypeOK, companion, view, round, wires

LEMMA ClaimStep ==
  ASSUME TypeOK, NEW h \in Host, Claim(h)
  PROVE  TypeOK'
PROOF
<1>1. rec' \in [Host -> Record]
  BY WriteType, RecordTypes DEF Claim, TypeOK
<1>2. <<h, rec[h].epoch>> \in Lead
  BY DEF TypeOK, Record, Lead
<1>3. ended' \in SUBSET Lead /\ obeyed' \in SUBSET Lead
  BY <1>2 DEF Claim, TypeOK
<1> QED BY <1>1, <1>3 DEF Claim, NoteHeard, TypeOK, companion, view, round, wires

LEMMA PrimarySteps ==
  ASSUME TypeOK, Sleep \/ Wake \/ Restart \/ Allow \/ Heartbeat \/ Quiet \/ NoticeEnds
  PROVE  TypeOK'
PROOF
<1>1. Sleep \/ Restart \/ Allow \/ Quiet => used' \in [away : Nat, mishaps : Nat, sends : Nat]
  BY UseType, LeaderAssumption DEF Sleep, Restart, Allow, Quiet, TypeOK
<1>2. CASE Sleep
  BY <1>1, <1>2 DEF Sleep, TypeOK, hosts, companion, view, round, wires
<1>3. CASE Wake
  BY <1>3 DEF Wake, TypeOK, hosts, companion, view, round, wires
<1>4. CASE Restart
  BY <1>1, <1>4 DEF Restart, TypeOK, hosts, round, wires
<1>5. CASE Allow
  BY <1>1, <1>5 DEF Allow, TypeOK, hosts, companion, view, round, wires
<1>6. CASE Heartbeat
  BY <1>6 DEF Heartbeat, TypeOK, hosts, primary, round, wires
<1>7. CASE Quiet
  BY <1>1, <1>7 DEF Quiet, TypeOK, hosts, primary, round, wires
<1>8. CASE NoticeEnds
  BY <1>8 DEF NoticeEnds, TypeOK, hosts, primary, round, wires
<1> QED BY <1>2, <1>3, <1>4, <1>5, <1>6, <1>7, <1>8

LEMMA AskingSteps ==
  ASSUME TypeOK, Tick \/ Decide \/ EndRound \/ (\E h \in Host : Witness(h))
  PROVE  TypeOK'
PROOF
<1>0. Unasked \in [Host -> Report]
  BY NoLeadType DEF Unasked
<1>1. CASE Tick
  <2>1. reports' \in [Host -> Report]
    BY <1>1, NoLeadType DEF Tick
  <2> QED BY <1>1, <2>1 DEF Tick, TypeOK, hosts, primary, view, wires
<1>2. CASE Decide
  <2>1. reports' \in [Host -> Report] /\ tick' \in {"idle", "asking", "claiming"}
    BY <1>0, <1>2 DEF Decide, TypeOK
  <2>2. \A h \in Candidates : <<h, reports[h].epoch + 1>> \in Lead
    <3>1. \A r \in Report : r.epoch + 1 \in Nat
      BY DEF Report
    <3>2. \A h \in Host : reports[h].epoch + 1 \in Nat
      BY <3>1 DEF TypeOK
    <3> QED BY <3>2 DEF Candidates, Lead
  <2>3. claims' \in SUBSET Lead
    BY <1>2, <2>2 DEF Decide
  <2>4. leading' \in [Host -> Nat]
    BY <1>2 DEF Decide, TypeOK
  <2> QED BY <1>2, <2>1, <2>3, <2>4 DEF Decide, TypeOK, hosts, primary, view, wires
<1>3. CASE EndRound
  BY <1>0, <1>3 DEF EndRound, TypeOK, hosts, primary, view, wires
<1>4. CASE \E h \in Host : Witness(h)
  <2>1. PICK h \in Host : Witness(h)
    BY <1>4
  <2>2. Witnessed(h) \in Report
    BY NoLeadType DEF Witnessed, TypeOK, Record, Report
  <2>3. reports' \in [Host -> Report]
    BY <2>1, <2>2, NoLeadType DEF Witness, TypeOK
  <2>4. used' \in [away : Nat, mishaps : Nat, sends : Nat]
    BY <2>1, UseType, LeaderAssumption DEF Witness, TypeOK
  <2> QED BY <2>1, <2>3, <2>4 DEF Witness, TypeOK, hosts, primary, view, wires
<1> QED BY <1>1, <1>2, <1>3, <1>4

\* What a host was asked for it is given, under the number asked.
LEMMA GivenType ==
  ASSUME TypeOK, NEW c \in Lead, Given(c)
  PROVE  rec' \in [Host -> Record]
BY WriteType, RecordTypes, ClaimType DEF Given

LEMMA ClaimingSteps ==
  ASSUME TypeOK,
         \/ \E c \in claims : AskLead(c)
         \/ \E c \in flight : LateClaim(c)
         \/ AnswerClaim \/ HearAnswer \/ GiveUpClaim
  PROVE  TypeOK'
PROOF
<1>0. waiting # NONE => waiting \in Lead
  BY DEF TypeOK
<1>1. CASE \E c \in claims : AskLead(c)
  BY <1>1 DEF AskLead, TypeOK, hosts, primary, view, wires
<1>2. CASE \E c \in flight : LateClaim(c)
  <2>1. PICK c \in flight : LateClaim(c)
    BY <1>2
  <2>2. rec' \in [Host -> Record]
    BY <2>1, GivenType DEF LateClaim, TypeOK
  <2>3. flight' \in SUBSET Lead
    BY <2>1 DEF LateClaim, TypeOK
  <2> QED BY <2>1, <2>2, <2>3 DEF LateClaim, TypeOK, primary, companion, view, round
<1>3. CASE AnswerClaim
  <2>1. rec' \in [Host -> Record]
    BY <1>0, <1>3, GivenType DEF AnswerClaim, TypeOK
  <2> QED BY <1>3, <2>1 DEF AnswerClaim, TypeOK, primary, view, wires
<1>4. CASE HearAnswer
  <2>1. waiting[1] \in Host /\ waiting[2] \in Nat
    BY <1>0, <1>4, ClaimType DEF HearAnswer
  <2>2. leading' \in [Host -> Nat]
    BY <1>4, <2>1 DEF HearAnswer, TypeOK
  <2> QED BY <1>4, <2>2 DEF HearAnswer, TypeOK, hosts, primary, view, wires
<1>5. CASE GiveUpClaim
  <2>1. used' \in [away : Nat, mishaps : Nat, sends : Nat]
    BY <1>5, UseType, LeaderAssumption DEF GiveUpClaim
  <2> QED BY <1>0, <1>5, <2>1 DEF GiveUpClaim, NotHeard, TypeOK, hosts, primary, view
<1> QED BY <1>1, <1>2, <1>3, <1>4, <1>5

LEMMA CommandSteps ==
  ASSUME TypeOK, RestartCompanion \/ (\E h \in Host : Send(h)) \/ (\E c \in sent : Command(c))
  PROVE  TypeOK'
PROOF
<1>1. CASE RestartCompanion
  <2>1. used' \in [away : Nat, mishaps : Nat, sends : Nat]
    BY <1>1, UseType, LeaderAssumption DEF RestartCompanion
  <2>2. Unasked \in [Host -> Report]
    BY NoLeadType DEF Unasked
  <2> QED BY <1>1, <2>1, <2>2 DEF RestartCompanion, NotHeard, TypeOK, hosts, primary
<1>2. CASE \E h \in Host : Send(h)
  <2>1. PICK h \in Host : Send(h)
    BY <1>2
  <2>2. used' \in [away : Nat, mishaps : Nat, sends : Nat]
    BY <2>1, UseType, LeaderAssumption DEF Send
  <2>3. sent' \in SUBSET Lead
    BY <2>1 DEF Send, TypeOK, Lead
  <2> QED BY <2>1, <2>2, <2>3 DEF Send, TypeOK, hosts, primary, companion, view, round
<1>3. CASE \E c \in sent : Command(c)
  <2>1. PICK c \in sent : Command(c)
    BY <1>3
  <2>2. c \in Lead /\ c[1] \in Host
    BY ClaimType DEF TypeOK
  <2>3. leading' \in [Host -> Nat]
    BY <2>1, <2>2 DEF Command, TypeOK
  <2>4. obeyed' \in SUBSET Lead
    BY <2>1, <2>2 DEF Command, TypeOK
  <2> QED BY <2>1, <2>3, <2>4 DEF Command, TypeOK, hosts, primary, view, round
<1> QED BY <1>1, <1>2, <1>3

LEMMA TypeStep == ASSUME TypeOK, [Next]_vars PROVE TypeOK'
PROOF
<1>1. CASE UNCHANGED vars
  BY <1>1 DEF vars, hosts, primary, companion, view, round, wires, TypeOK
<1>2. CASE Next
  BY <1>2, HostSteps, LinkSteps, ConfigureStep, ClaimStep, PrimarySteps, AskingSteps,
     ClaimingSteps, CommandSteps DEF Next, OfPrimary, OfCompanion, Mishap
<1> QED BY <1>1, <1>2

-----------------------------------------------------------------------------
(* What a step does to the books *)

Grows(h) == rec'[h].epoch > rec[h].epoch

LEMMA ChangedFields ==
  ASSUME NEW r \in Record, NEW e \in Nat, NEW x \in {"primary", "backup"}, NEW b \in BOOLEAN
  PROVE  /\ [r EXCEPT !.holder = x, !.epoch = e].epoch = e
         /\ [r EXCEPT !.holder = x, !.epoch = e].holder = x
         /\ [r EXCEPT !.backup = b, !.epoch = e].epoch = e
         /\ [r EXCEPT !.backup = b, !.epoch = e].holder = r.holder
         /\ r.epoch \in Nat /\ r.epoch + 1 \in Nat
         /\ r.holder = "primary" \/ r.holder = "backup"
BY DEF Record

\* A configure of a host that knows the Walnut changes the permission only; of
\* one that does not, it makes number 1.
LEMMA ConfigureMoves ==
  ASSUME TypeOK, NEW h \in Host, Configure(h)
  PROVE  /\ \A g \in Host \ {h} : rec'[g] = rec[g]
         /\ rec'[h].holder = rec[h].holder
         /\ rec'[h].epoch = IF rec[h].epoch = 0 THEN 1 ELSE rec[h].epoch
PROOF
<1>. DEFINE e == IF Known(h) THEN rec[h].epoch ELSE 1
<1>1. rec[h] \in Record /\ h \in DOMAIN rec /\ allowed \in BOOLEAN
  BY DEF TypeOK
<1>2. rec[h].epoch \in Nat /\ e \in Nat /\ e = IF rec[h].epoch = 0 THEN 1 ELSE rec[h].epoch
  BY <1>1, ChangedFields DEF Known
<1>3. rec'[h] = [rec[h] EXCEPT !.backup = allowed, !.epoch = e]
  BY <1>1 DEF Configure, Write
<1>4. \A g \in Host \ {h} : rec'[g] = rec[g]
  BY DEF Configure, Write, TypeOK
<1>. HIDE DEF e
<1>5. rec'[h].epoch = e /\ rec'[h].holder = rec[h].holder
  BY <1>1, <1>2, <1>3, ChangedFields
<1> QED BY <1>2, <1>4, <1>5

LEMMA ClaimMoves ==
  ASSUME TypeOK, NEW h \in Host, Claim(h), rec[h].holder # "primary"
  PROVE  /\ \A g \in Host \ {h} : rec'[g] = rec[g]
         /\ rec[h].holder = "backup" /\ rec'[h].holder = "primary"
         /\ rec'[h].epoch = rec[h].epoch + 1
         /\ ended' = ended \cup {<<h, rec[h].epoch>>}
         /\ obeyed' = {c \in obeyed : c[1] # h}
PROOF
<1>1. rec[h] \in Record /\ h \in DOMAIN rec
  BY DEF TypeOK
<1>2. rec'[h] = [rec[h] EXCEPT !.holder = "primary", !.epoch = rec[h].epoch + 1]
  BY <1>1 DEF Claim, Write, TakenBack, Record
<1>3. rec'[h].epoch = rec[h].epoch + 1 /\ rec'[h].holder = "primary" /\ rec[h].holder = "backup"
  <2>1. rec[h].epoch + 1 \in Nat /\ rec[h].holder \in {"primary", "backup"}
    BY <1>1, ChangedFields
  <2>2. \A e \in Nat : /\ [rec[h] EXCEPT !.holder = "primary", !.epoch = e].epoch = e
                       /\ [rec[h] EXCEPT !.holder = "primary", !.epoch = e].holder = "primary"
    BY <1>1, ChangedFields
  <2> QED BY <1>2, <2>1, <2>2
<1>4. \A g \in Host \ {h} : rec'[g] = rec[g]
  BY DEF Claim, Write, TypeOK
<1> QED BY <1>3, <1>4 DEF Claim

LEMMA GivenMoves ==
  ASSUME TypeOK, NEW c \in Lead, Grants(c[1], c[2]), Given(c)
  PROVE  /\ \A g \in Host \ {c[1]} : rec'[g] = rec[g]
         /\ rec'[c[1]].holder = "backup" /\ rec'[c[1]].epoch = c[2]
         /\ c[2] > rec[c[1]].epoch
PROOF
<1>1. c[1] \in Host /\ c[2] \in Nat
  BY ClaimType
<1>2. rec[c[1]] \in Record /\ c[1] \in DOMAIN rec
  BY <1>1 DEF TypeOK
<1>3. rec'[c[1]] = [rec[c[1]] EXCEPT !.holder = "backup", !.epoch = c[2]]
  BY <1>2 DEF Given, Write
<1>4. rec'[c[1]].epoch = c[2] /\ rec'[c[1]].holder = "backup"
  BY <1>1, <1>2, <1>3, ChangedFields
<1>5. \A g \in Host \ {c[1]} : rec'[g] = rec[g]
  BY <1>1 DEF Given, Write, TypeOK
<1> QED BY <1>4, <1>5 DEF Grants

\* Every other step leaves the books alone.
Elsewhere ==
  \/ \E h \in Host : \/ Silence(h) \/ RestartDaemon(h) \/ Connect(h) \/ Disconnect(h)
                     \/ Handover(h) \/ Learn(h) \/ Hear(h) \/ Nudge(h) \/ Witness(h) \/ Send(h)
                     \/ Claim(h) /\ rec[h].holder = "primary"
  \/ Sleep \/ Wake \/ Restart \/ Allow \/ Heartbeat \/ Quiet \/ NoticeEnds
  \/ Tick \/ Decide \/ EndRound \/ HearAnswer \/ GiveUpClaim \/ RestartCompanion
  \/ \E c \in claims : AskLead(c)
  \/ \E c \in sent : Command(c)
  \/ \E c \in flight : LateClaim(c) /\ ~Grants(c[1], c[2])
  \/ AnswerClaim /\ ~Grants(waiting[1], waiting[2])
  \/ UNCHANGED vars

LEMMA StepCases ==
  ASSUME [Next]_vars
  PROVE  \/ \E h \in Host : Configure(h)
         \/ \E h \in Host : Claim(h) /\ rec[h].holder # "primary"
         \/ \E c \in flight : LateClaim(c) /\ Grants(c[1], c[2])
         \/ AnswerClaim /\ Grants(waiting[1], waiting[2])
         \/ Elsewhere
BY DEF Next, OfPrimary, OfCompanion, Mishap, Elsewhere

LEMMA ElsewhereRec == Elsewhere => rec' = rec
PROOF
<1>1. ASSUME NEW h \in Host,
             \/ Silence(h) \/ RestartDaemon(h) \/ Connect(h) \/ Disconnect(h)
             \/ Handover(h) \/ Learn(h) \/ Hear(h) \/ Nudge(h) \/ Witness(h) \/ Send(h)
             \/ Claim(h) /\ rec[h].holder = "primary"
      PROVE  rec' = rec
  BY <1>1 DEF Silence, RestartDaemon, Connect, Disconnect, Handover, Learn, Hear, Nudge,
     Witness, Send, Claim, hosts
<1>2. ASSUME \/ Sleep \/ Wake \/ Restart \/ Allow \/ Heartbeat \/ Quiet \/ NoticeEnds
             \/ Tick \/ Decide \/ EndRound \/ HearAnswer \/ GiveUpClaim \/ RestartCompanion
      PROVE  rec' = rec
  BY <1>2 DEF Sleep, Wake, Restart, Allow, Heartbeat, Quiet, NoticeEnds, Tick, Decide,
     EndRound, HearAnswer, GiveUpClaim, RestartCompanion, hosts
<1>3. ASSUME \/ \E c \in claims : AskLead(c)
             \/ \E c \in sent : Command(c)
             \/ \E c \in flight : LateClaim(c) /\ ~Grants(c[1], c[2])
             \/ AnswerClaim /\ ~Grants(waiting[1], waiting[2])
             \/ UNCHANGED vars
      PROVE  rec' = rec
  BY <1>3 DEF AskLead, Command, LateClaim, AnswerClaim, vars, hosts
<1> QED BY <1>1, <1>2, <1>3 DEF Elsewhere

\* A host's number and holder stay as they are, or the number grows.
LEMMA BookMoves ==
  ASSUME TypeOK, [Next]_vars, NEW h \in Host
  PROVE  Grows(h) \/ (rec'[h].epoch = rec[h].epoch /\ rec'[h].holder = rec[h].holder)
PROOF
<1>0. rec[h].epoch \in Nat
  BY DEF TypeOK, Record
<1>1. CASE \E g \in Host : Configure(g)
  BY <1>0, <1>1, ConfigureMoves DEF Grows
<1>2. CASE \E g \in Host : Claim(g) /\ rec[g].holder # "primary"
  BY <1>0, <1>2, ClaimMoves DEF Grows
<1>3. CASE \E c \in flight : LateClaim(c) /\ Grants(c[1], c[2])
  <2>1. PICK c \in flight : LateClaim(c) /\ Grants(c[1], c[2])
    BY <1>3
  <2> QED BY <2>1, GivenMoves, ClaimType DEF LateClaim, TypeOK, Grows
<1>4. CASE AnswerClaim /\ Grants(waiting[1], waiting[2])
  <2>1. waiting \in Lead
    BY <1>4 DEF AnswerClaim, TypeOK
  <2> QED BY <1>4, <2>1, GivenMoves, ClaimType DEF AnswerClaim, Grows
<1>5. CASE Elsewhere
  BY <1>5, ElsewhereRec
<1> QED BY <1>1, <1>2, <1>3, <1>4, <1>5, StepCases

LEMMA EpochTypes ==
  ASSUME TypeOK, [Next]_vars, NEW h \in Host
  PROVE  rec[h].epoch \in Nat /\ rec'[h].epoch \in Nat
PROOF
<1>1. TypeOK'
  BY TypeStep
<1> QED BY <1>1 DEF TypeOK, Record

\* So what is past stays past, and what was given is at most outgrown.
LEMMA PastStays ==
  ASSUME TypeOK, [Next]_vars, NEW h \in Host, NEW e \in Nat
  PROVE  (Passed(h, e) => Passed(h, e)') /\ (Real(h, e) => Real(h, e)')
BY BookMoves, EpochTypes DEF Passed, Real, Grows

-----------------------------------------------------------------------------
(* What the companion thinks *)

LEMMA LeadStays ==
  ASSUME TypeOK, Granted, [Next]_vars, NEW h \in Host, leading[h] > 0
  PROVE  \A e \in Nat : e = leading[h] => Real(h, e)'
PROOF
<1>1. Real(h, leading[h])
  BY DEF Granted, LeadIsReal, Led, Real
<1>2. \A e \in Nat : Real(h, e) => Real(h, e)'
  BY PastStays
<1> QED BY <1>1, <1>2

\* Only an answer makes it think it leads a host.
LEMMA LeadingMoves ==
  ASSUME TypeOK, [Next]_vars, ~HearAnswer, NEW h \in Host
  PROVE  leading'[h] = leading[h] \/ leading'[h] = 0
PROOF
<1>1. CASE \E g \in Host : Configure(g) \/ Claim(g)
  BY <1>1 DEF Configure, Claim, companion
<1>2. CASE \E g \in Host : Silence(g) \/ RestartDaemon(g) \/ Connect(g) \/ Disconnect(g)
  BY <1>2 DEF Silence, RestartDaemon, Connect, Disconnect, companion
<1>3. CASE \E g \in Host : Handover(g) \/ Learn(g) \/ Hear(g) \/ Nudge(g) \/ Witness(g) \/ Send(g)
  BY <1>3 DEF Handover, Learn, Hear, Nudge, Witness, Send, companion
<1>4. CASE Sleep \/ Wake \/ Restart \/ Allow \/ Heartbeat \/ Quiet \/ NoticeEnds
  BY <1>4 DEF Sleep, Wake, Restart, Allow, Heartbeat, Quiet, NoticeEnds, companion
<1>5. CASE Tick \/ EndRound \/ GiveUpClaim \/ AnswerClaim
  BY <1>5 DEF Tick, EndRound, GiveUpClaim, AnswerClaim
<1>6. CASE (\E c \in claims : AskLead(c)) \/ (\E c \in flight : LateClaim(c))
  BY <1>6 DEF AskLead, LateClaim, companion
<1>7. CASE Decide \/ RestartCompanion
  BY <1>7 DEF Decide, RestartCompanion
<1>8. CASE \E c \in sent : Command(c)
  BY <1>8 DEF Command, TypeOK
<1>9. CASE UNCHANGED vars
  BY <1>9 DEF vars, companion
<1> QED BY <1>1, <1>2, <1>3, <1>4, <1>5, <1>6, <1>7, <1>8, <1>9
       DEF Next, OfPrimary, OfCompanion, Mishap

\* A grant is told of as it is made, and kept until it is heard or given up.
LEMMA AnswerMoves ==
  ASSUME [Next]_vars, answer' = "granted"
  PROVE  \/ AnswerClaim /\ Grants(waiting[1], waiting[2])
         \/ answer = "granted" /\ waiting' = waiting
         \/ answer = "granted" /\ \E c \in claims : AskLead(c)
PROOF
<1>1. CASE \E g \in Host : \/ Configure(g) \/ Claim(g) \/ Silence(g) \/ RestartDaemon(g)
                           \/ Connect(g) \/ Disconnect(g)
  BY <1>1 DEF Configure, Claim, Silence, RestartDaemon, Connect, Disconnect, companion, round
<1>3. CASE \E g \in Host : Handover(g) \/ Learn(g) \/ Hear(g) \/ Nudge(g) \/ Witness(g) \/ Send(g)
  BY <1>3 DEF Handover, Learn, Hear, Nudge, Witness, Send, companion, round
<1>4. CASE Sleep \/ Wake \/ Restart \/ Allow \/ Heartbeat \/ Quiet \/ NoticeEnds
  BY <1>4 DEF Sleep, Wake, Restart, Allow, Heartbeat, Quiet, NoticeEnds, companion, round
<1>5. CASE Tick \/ Decide \/ EndRound \/ GiveUpClaim \/ HearAnswer \/ RestartCompanion
  BY <1>5 DEF Tick, Decide, EndRound, GiveUpClaim, HearAnswer, RestartCompanion, NotHeard
<1>6. CASE (\E c \in claims : AskLead(c)) \/ (\E c \in flight : LateClaim(c))
  BY <1>6 DEF AskLead, LateClaim, companion, round
<1>7. CASE AnswerClaim
  BY <1>7 DEF AnswerClaim
<1>8. CASE \E c \in sent : Command(c)
  BY <1>8 DEF Command, round
<1>9. CASE UNCHANGED vars
  BY <1>9 DEF vars, companion, round
<1> QED BY <1>1, <1>3, <1>4, <1>5, <1>6, <1>7, <1>8, <1>9
       DEF Next, OfPrimary, OfCompanion, Mishap

LEMMA GrantedStep ==
  ASSUME TypeOK, Granted, [Next]_vars
  PROVE  Granted'
PROOF
<1>0. waiting # NONE => waiting \in Lead /\ waiting[1] \in Host /\ waiting[2] \in Nat
  BY ClaimType DEF TypeOK
<1>1. LeadIsReal'
  <2>0. leading \in [Host -> Nat] /\ leading' \in [Host -> Nat]
    BY TypeStep DEF TypeOK
  <2>1. ASSUME NEW h \in Host, NEW e \in Nat, e = leading'[h], e > 0
        PROVE  Real(h, e)'
    <3>1. CASE leading'[h] = leading[h] \/ leading'[h] = 0
      BY <2>0, <2>1, <3>1, LeadStays
    <3>2. CASE ~(leading'[h] = leading[h] \/ leading'[h] = 0)
      <4>1. HearAnswer
        BY <3>2, LeadingMoves
      <4>2. answer = "granted" /\ waiting # NONE /\ h = waiting[1] /\ e = waiting[2]
        BY <1>0, <2>0, <2>1, <3>2, <4>1 DEF HearAnswer
      <4>3. Real(h, e)
        BY <4>2 DEF Granted
      <4> QED BY <4>3, PastStays
    <3> QED BY <3>1, <3>2
  <2>2. \A h \in Host : leading'[h] > 0 =>
          /\ rec'[h].epoch >= leading'[h]
          /\ rec'[h].epoch = leading'[h] => rec'[h].holder = "backup"
    BY <2>0, <2>1 DEF Real
  <2> QED BY <2>2 DEF LeadIsReal, Led
<1>2. ASSUME answer' = "granted"
      PROVE  waiting' # NONE /\ Real(waiting[1], waiting[2])'
  <2>1. CASE AnswerClaim /\ Grants(waiting[1], waiting[2])
    <3>1. Given(waiting) /\ waiting' = waiting /\ waiting # NONE
      BY <2>1 DEF AnswerClaim
    <3> QED BY <1>0, <2>1, <3>1, GivenMoves DEF Real
  <2>2. CASE answer = "granted" /\ waiting' = waiting
    <3>1. waiting # NONE /\ Real(waiting[1], waiting[2])
      BY <2>2 DEF Granted
    <3>2. \A h \in Host, e \in Nat : Real(h, e) => Real(h, e)'
      BY PastStays
    <3>3. waiting[1] \in Host /\ waiting[2] \in Nat
      BY <1>0, <3>1
    <3> QED BY <2>2, <3>1, <3>2, <3>3 DEF Real
  <2>3. CASE answer = "granted" /\ \E c \in claims : AskLead(c)
    BY <2>3 DEF Granted, AskLead
  <2> QED BY <1>2, <2>1, <2>2, <2>3, AnswerMoves
<1> QED BY <1>1, <1>2 DEF Granted, Real

-----------------------------------------------------------------------------
(* What the hosts carry out *)

LEMMA EndedMoves ==
  ASSUME [Next]_vars
  PROVE  \/ \E h \in Host : Claim(h) /\ rec[h].holder # "primary"
         \/ ended' = ended /\ \E c \in sent : Command(c)
         \/ ended' = ended /\ obeyed' = obeyed
PROOF
<1>1. CASE \E g \in Host : \/ Configure(g) \/ Silence(g) \/ RestartDaemon(g)
                           \/ Connect(g) \/ Disconnect(g) \/ Claim(g)
  BY <1>1 DEF Configure, Claim, Silence, RestartDaemon, Connect, Disconnect, wires
<1>3. CASE \E g \in Host : Handover(g) \/ Learn(g) \/ Hear(g) \/ Nudge(g) \/ Witness(g) \/ Send(g)
  BY <1>3 DEF Handover, Learn, Hear, Nudge, Witness, Send, wires
<1>4. CASE Sleep \/ Wake \/ Restart \/ Allow \/ Heartbeat \/ Quiet \/ NoticeEnds
  BY <1>4 DEF Sleep, Wake, Restart, Allow, Heartbeat, Quiet, NoticeEnds, wires
<1>5. CASE Tick \/ Decide \/ EndRound \/ GiveUpClaim \/ HearAnswer \/ RestartCompanion \/ AnswerClaim
  BY <1>5 DEF Tick, Decide, EndRound, GiveUpClaim, HearAnswer, RestartCompanion, AnswerClaim, wires
<1>6. CASE (\E c \in claims : AskLead(c)) \/ (\E c \in flight : LateClaim(c))
  BY <1>6 DEF AskLead, LateClaim, wires
<1>8. CASE \E c \in sent : Command(c)
  BY <1>8 DEF Command
<1>9. CASE UNCHANGED vars
  BY <1>9 DEF vars, wires
<1> QED BY <1>1, <1>3, <1>4, <1>5, <1>6, <1>8, <1>9
       DEF Next, OfPrimary, OfCompanion, Mishap

LEMMA EndedStep ==
  ASSUME TypeOK, EndedPassed, NoOldLead, [Next]_vars
  PROVE  EndedPassed' /\ NoOldLead'
PROOF
<1>0. \A c \in ended : c[1] \in Host /\ c[2] \in Nat /\ Passed(c[1], c[2])'
  BY ClaimType, PastStays DEF TypeOK, EndedPassed
<1>1. CASE \E h \in Host : Claim(h) /\ rec[h].holder # "primary"
  <2>1. PICK h \in Host : Claim(h) /\ rec[h].holder # "primary"
    BY <1>1
  <2>2. /\ ended' = ended \cup {<<h, rec[h].epoch>>}
        /\ obeyed' = {c \in obeyed : c[1] # h}
        /\ rec'[h].epoch = rec[h].epoch + 1
    BY <2>1, ClaimMoves
  <2>3. rec[h].epoch \in Nat
    BY DEF TypeOK, Record
  <2>4. EndedPassed'
    BY <1>0, <2>2, <2>3 DEF EndedPassed, Passed
  <2>5. NoOldLead'
    BY <2>2 DEF NoOldLead
  <2> QED BY <2>4, <2>5
<1>2. CASE ended' = ended /\ \E c \in sent : Command(c)
  <2>1. PICK c \in sent : Command(c)
    BY <1>2
  <2>2. Fence(c[1], c[2]) => c \notin ended
    <3>1. c[1] \in Host /\ rec[c[1]].epoch \in Nat
      BY ClaimType DEF TypeOK, Record
    <3> QED BY <3>1 DEF Fence, EndedPassed, Passed
  <2>3. NoOldLead'
    BY <1>2, <2>1, <2>2 DEF Command, NoOldLead
  <2> QED BY <1>0, <1>2, <2>3 DEF EndedPassed
<1>3. CASE ended' = ended /\ obeyed' = obeyed
  BY <1>0, <1>3 DEF EndedPassed, NoOldLead
<1> QED BY <1>1, <1>2, <1>3, EndedMoves

\* The inductive invariant holds of every behaviour of the program.
THEOREM InvHolds == Spec => []IInv
PROOF
<1>1. IInv /\ [Next]_vars => IInv'
  BY TypeStep, GrantedStep, EndedStep DEF IInv
<1> QED BY <1>1, InitIInv, PTL DEF Spec

\* Books, rounds, claims and commands keep their types.
THEOREM TypesHold == Spec => []TypeOK
BY InvHolds, PTL DEF IInv

\* The companion never leads a host that did not give it that lead, however
\* its claims and their answers cross with the primary's.
THEOREM LeadsAreReal == Spec => []LeadIsReal
BY InvHolds, PTL DEF IInv, Granted

\* No command of a lead the primary took back is carried out after that.
THEOREM OldLeadsAreFenced == Spec => []NoOldLead
BY InvHolds, PTL DEF IInv

-----------------------------------------------------------------------------
(* The refinement *)

\* The books as FencedLead has them.
Books == [h \in Host |-> [epoch |-> rec[h].epoch, holder |-> rec[h].holder]]

LEMMA ConfigureRefines ==
  ASSUME TypeOK, NEW h \in Host, Configure(h)
  PROVE  [Book!Next]_(Book!vars)
PROOF
<1>1. obeyed' = obeyed
  BY DEF Configure, wires
<1>2. CASE rec[h].epoch = 0
  <2>1. Books' = [Books EXCEPT ![h].epoch = 1]
    BY <1>2, ConfigureMoves DEF Books
  <2>2. Book!Describe(h)
    BY <1>1, <1>2, <2>1 DEF Book!Describe, Books
  <2> QED BY <2>2 DEF Book!Next
<1>3. CASE rec[h].epoch # 0
  <2>1. Books' = Books
    BY <1>3, ConfigureMoves DEF Books
  <2> QED BY <1>1, <2>1 DEF Book!vars, Books
<1> QED BY <1>2, <1>3

LEMMA ClaimRefines ==
  ASSUME TypeOK, NEW h \in Host, Claim(h), rec[h].holder # "primary"
  PROVE  [Book!Next]_(Book!vars)
PROOF
<1>1. Books' = [Books EXCEPT ![h] = [epoch |-> @.epoch + 1, holder |-> "primary"]]
  BY ClaimMoves DEF Books
<1>2. Book!TakeBack(h)
  BY <1>1, ClaimMoves DEF Book!TakeBack, Books
<1> QED BY <1>2 DEF Book!Next

LEMMA GivenRefines ==
  ASSUME TypeOK, NEW c \in Lead, Grants(c[1], c[2]), Given(c), obeyed' = obeyed
  PROVE  [Book!Next]_(Book!vars)
PROOF
<1>1. c[1] \in Host /\ c[2] \in Nat
  BY ClaimType
<1>2. Books' = [Books EXCEPT ![c[1]] = [epoch |-> Books'[c[1]].epoch, holder |-> "backup"]]
  BY <1>1, GivenMoves DEF Books
<1>3. Books'[c[1]].epoch = c[2] /\ c[2] > Books[c[1]].epoch
  BY <1>1, GivenMoves DEF Books
<1>4. Book!TakeOver(c[1])
  BY <1>1, <1>2, <1>3 DEF Book!TakeOver, Books
<1> QED BY <1>1, <1>4 DEF Book!Next

LEMMA CommandRefines ==
  ASSUME TypeOK, NEW c \in sent, Command(c), rec' = rec
  PROVE  [Book!Next]_(Book!vars)
PROOF
<1>1. c[1] \in Host /\ c = <<c[1], c[2]>>
  BY ClaimType DEF TypeOK
<1>2. Books' = Books
  BY DEF Books
<1>3. CASE Fence(c[1], c[2])
  <2>1. Book!Obey(c[1])
    BY <1>1, <1>2, <1>3 DEF Command, Fence, Book!Obey, Books
  <2> QED BY <1>1, <2>1 DEF Book!Next
<1>4. CASE ~Fence(c[1], c[2])
  BY <1>2, <1>4 DEF Command, Book!vars, Books
<1> QED BY <1>3, <1>4

\* The books of the hosts implement FencedLead: each lead of the companion has
\* a number of its own, and its commands are carried out while it lasts.
THEOREM ImplementsFencedLead == Spec => IsALead
PROOF
<1>. SUFFICES Spec => Book!Spec
  BY DEF IsALead
<1>1. Init => Book!Init
  BY DEF Init, Unknown, Book!Init
<1>2. TypeOK /\ [Next]_vars => [Book!Next]_(Book!vars)
  <2>. SUFFICES ASSUME TypeOK, [Next]_vars PROVE [Book!Next]_(Book!vars)
    OBVIOUS
  <2>1. CASE \E h \in Host : Configure(h)
    BY <2>1, ConfigureRefines
  <2>2. CASE \E h \in Host : Claim(h) /\ rec[h].holder # "primary"
    BY <2>2, ClaimRefines
  <2>3. CASE \E c \in flight : LateClaim(c) /\ Grants(c[1], c[2])
    BY <2>3, GivenRefines DEF LateClaim, TypeOK
  <2>4. CASE AnswerClaim /\ Grants(waiting[1], waiting[2])
    BY <2>4, GivenRefines DEF AnswerClaim, TypeOK, wires
  <2>5. CASE Elsewhere
    <3>1. rec' = rec
      BY <2>5, ElsewhereRec
    <3>2. CASE \E c \in sent : Command(c)
      BY <3>1, <3>2, CommandRefines
    <3>3. CASE obeyed' = obeyed
      BY <3>1, <3>3 DEF Book!vars
    <3>4. ~(\E h \in Host : Claim(h) /\ rec[h].holder # "primary")
        => (\E c \in sent : Command(c)) \/ obeyed' = obeyed
      BY EndedMoves
    <3> QED BY <2>2, <3>2, <3>3, <3>4
  <2> QED BY <2>1, <2>2, <2>3, <2>4, <2>5, StepCases
<1>3. Spec => []TypeOK
  BY TypesHold
<1> QED BY <1>1, <1>2, <1>3, PTL DEF Spec, Book!Spec
=============================================================================
