------------------------- MODULE MediaChoiceProofs -------------------------
(***************************************************************************)
(* For any number of pages, checks and saves under way, any media and any  *)
(* number of clicks: choices made by hand hold, a special label is used by *)
(* request only, and saves that land in order store what is shown.         *)
(***************************************************************************)
EXTENDS MediaChoice, TLAPS

-----------------------------------------------------------------------------
(***************************************************************************)
(* What the operators return.                                              *)
(***************************************************************************)

\* A label belongs to one medium.
LEMMA OneMedium ==
  ASSUME NEW m \in Media, NEW n \in Media, NEW l \in m, l \in n PROVE m = n
<1>1. l \in m \cap n
  OBVIOUS
<1>2. m \cap n # {} => m = n
  BY RollAssumption DEF RollAssumption
<1> QED BY <1>1, <1>2

\* A roll is a set of labels.
LEMMA MediaAreLabels == \A roll \in Rolls : roll \subseteq Labels
BY RollAssumption DEF RollAssumption, Rolls

\* The server resolves a roll to one of its labels.
LEMMA ResolveIsOne ==
  ASSUME NEW roll \in Rolls, NEW s, s.memory \in PerMedium, s.preferred \in PerMedium
  PROVE  Resolve(roll, s) \in Choice /\ (roll # {} => Resolve(roll, s) \in roll)
<1>1. CASE roll = {}
  BY <1>1 DEF Resolve, Choice
<1>2. CASE roll # {}
  <2>1. roll \in Media /\ roll \subseteq Labels
    BY <1>2, MediaAreLabels DEF Rolls
  <2>2. Plain[roll] \in roll
    BY <2>1, RollAssumption DEF RollAssumption
  <2>3. s.preferred[roll] \in roll \cup {None} /\ s.memory[roll] \in roll \cup {None}
    BY <2>1 DEF PerMedium
  <2>4. ASSUME \E l \in roll : s.owned \cap roll = {l}
        PROVE  (CHOOSE l \in roll : s.owned \cap roll = {l}) \in roll
    BY <2>4
  <2>5. Resolve(roll, s) \in roll
    BY <1>2, <2>2, <2>3, <2>4 DEF Resolve
  <2> QED BY <1>2, <2>1, <2>5 DEF Choice
<1> QED BY <1>1, <1>2

\* What the server says of a roll is a report.
LEMMA ReportedIsReport ==
  ASSUME NEW roll \in Rolls, NEW s \in Settings
  PROVE  Reported(roll, s) \in Report
<1>1. s.memory \in PerMedium /\ s.preferred \in PerMedium
  BY DEF Settings
<1>2. Resolve(roll, s) \in Choice
  BY <1>1, ResolveIsOne
<1>3. PlannedSwitch(roll, s) \in Choice
  BY <1>2 DEF PlannedSwitch, Choice
<1> QED BY <1>2, <1>3 DEF Reported, Report

\* So is a page that has heard nothing.
LEMMA NothingIsReport == Nothing \in Report
BY DEF Nothing, Report, Rolls, Choice

\* What a page takes to be loaded is part of the reported roll.
LEMMA LoadedAreLabels ==
  ASSUME NEW p \in Page
  PROVE  /\ Loaded(p) \subseteq p.report.roll
         /\ p.report.roll \in Rolls
         /\ Loaded(p) \subseteq Labels
<1>1. p.report.roll \in Rolls
  BY DEF Page, Report
<1>2. Loaded(p) \subseteq p.report.roll
  BY DEF Loaded, Narrowed
<1> QED BY <1>1, <1>2, MediaAreLabels

\* A page would switch to a label, or to none.
LEMMA TargetIsChoice ==
  ASSUME NEW p \in Page
  PROVE  Target(p) \in Choice
<1>1. p.report.to \in Choice /\ p.report.resolved \in Choice
  BY DEF Page, Report
<1>2. Loaded(p) \subseteq Labels
  BY LoadedAreLabels
<1>3. ASSUME \E l \in Loaded(p) : Loaded(p) = {l}
      PROVE  (CHOOSE l \in Loaded(p) : Loaded(p) = {l}) \in Loaded(p)
  BY <1>3
<1> QED BY <1>1, <1>2, <1>3 DEF Target, Choice

\* Remembering a label leaves a memory of labels of their media.
LEMMA RememberedIsMemory ==
  ASSUME NEW p \in Page, NEW l
  PROVE  Remembered(p, l) \in PerMedium
<1>1. p.memory \in [Media -> Choice] /\ \A m \in Media : p.memory[m] \in m \cup {None}
  BY DEF Page, PerMedium
<1>2. \A m \in Media : m \subseteq Labels
  BY RollAssumption DEF RollAssumption
<1>3. ASSUME NEW m \in Media
      PROVE  Remembered(p, l)[m] \in Choice /\ Remembered(p, l)[m] \in m \cup {None}
  BY <1>1, <1>2, <1>3 DEF Remembered, Choice
<1>4. Remembered(p, l) = [m \in Media |-> Remembered(p, l)[m]]
  BY DEF Remembered
<1> QED BY <1>3, <1>4 DEF PerMedium

\* A change of the label leaves a page.
LEMMA ChangedIsPage ==
  ASSUME NEW p \in Page, NEW l \in Labels, NEW automatic \in BOOLEAN
  PROVE  Changed(p, l, automatic) \in Page
<1>1. Remembered(p, l) \in PerMedium
  BY RememberedIsMemory
<1>2. Loaded(p) \in SUBSET Labels
  BY LoadedAreLabels
<1>3. (IF automatic THEN NotHeld ELSE Loaded(p)) \in (SUBSET Labels) \cup {NotHeld}
  BY <1>2
<1> QED BY <1>1, <1>3 DEF Changed, Page

\* So does an automatic switch, and it has a label to go to.
LEMMA SwitchedIsPage ==
  ASSUME NEW p \in Page, Switches(p)
  PROVE  Switched(p) \in Page /\ Target(p) \in Labels
<1>1. Target(p) \in Labels
  BY TargetIsChoice DEF Switches, Choice
<1> QED BY <1>1, ChangedIsPage DEF Switched

\* So does a pick from the list.
LEMMA PickedIsPage ==
  ASSUME NEW p \in Page, NEW l \in Labels
  PROVE  Picked(p, l) \in Page
<1>1. Changed(p, l, FALSE) \in Page
  BY ChangedIsPage
<1>2. (IF p.choice # l THEN Changed(p, l, FALSE) ELSE p) \in Page
  BY <1>1
<1> DEFINE q == IF p.choice # l THEN Changed(p, l, FALSE) ELSE p
<1>3. q \in Page
  BY <1>2
<1> HIDE DEF q
<1>4. [q EXCEPT !.open = FALSE] \in Page
  BY <1>3 DEF Page
<1> QED BY <1>4 DEF Picked, q

\* So does loading one.
LEMMA OpenedIsPage ==
  ASSUME NEW s \in Settings
  PROVE  Opened(s) \in Page
<1>1. s.memory \in PerMedium /\ s.label \in Labels
  BY DEF Settings
<1>2. Seeded(s.memory, s.label) \in PerMedium
  BY <1>1 DEF Seeded, PerMedium, Choice
<1> QED BY <1>2, NothingIsReport DEF Opened, Page, Settings, NotHeld

\* What a page saves is a save.
LEMMA SaveOfIsSave ==
  ASSUME NEW t \in Tabs, NEW p \in Page, NEW l \in Choice, NEW stage \in {"reading", "sent"}
  PROVE  SaveOf(t, p, l, stage) \in Save
BY DEF SaveOf, Save, Page
-----------------------------------------------------------------------------
(***************************************************************************)
(* Types.                                                                  *)
(***************************************************************************)

SavesTyped ==
  /\ saves \in [Saves -> Save \cup {Idle}]
  /\ last \in Saves \cup {None}
  /\ savedBy \in Tabs \cup {None}
  /\ fromJob \subseteq Tabs

\* Beginning a save keeps the types.
LEMMA BeginTypes ==
  ASSUME SavesTyped, NEW save \in Save, Begin(save)
  PROVE  SavesTyped'
<1>1. PICK s \in Saves : saves' = [saves EXCEPT ![s] = save] /\ last' = s
  BY DEF Begin
<1>2. saves' \in [Saves -> Save \cup {Idle}]
  BY <1>1 DEF SavesTyped
<1>3. last' \in Saves \cup {None} /\ fromJob' \subseteq Tabs
  BY <1>1 DEF Begin, SavesTyped
<1>4. savedBy' \in Tabs \cup {None}
  BY DEF Begin
<1> QED BY <1>2, <1>3, <1>4 DEF SavesTyped

\* So does beginning two.
LEMMA BeginBothTypes ==
  ASSUME SavesTyped, NEW first \in Save, NEW second \in Save, BeginBoth(first, second)
  PROVE  SavesTyped'
<1>1. PICK s \in Saves, z \in Saves :
        saves' = [saves EXCEPT ![s] = first, ![z] = second] /\ last' = z
  BY DEF BeginBoth
<1>2. saves' \in [Saves -> Save \cup {Idle}]
  BY <1>1 DEF SavesTyped
<1> QED BY <1>1, <1>2 DEF SavesTyped, BeginBoth

\* So does a handler's last call, switch or no switch.
LEMMA FollowTypes ==
  ASSUME SavesTyped, tab \in [Tabs -> Page], NEW t \in Tabs, NEW p \in Page, Follow(t, p)
  PROVE  tab' \in [Tabs -> Page] /\ SavesTyped'
<1>1. CASE ~Switches(p) /\ tab' = [tab EXCEPT ![t] = p] /\ BeginNone
  BY <1>1 DEF BeginNone, SavesTyped, landing
<1>2. CASE /\ Switches(p)
           /\ tab' = [tab EXCEPT ![t] = Switched(p)]
           /\ Begin(SaveOf(t, Switched(p), Target(p), "reading"))
  <2>1. Switched(p) \in Page /\ Target(p) \in Choice
    BY <1>2, SwitchedIsPage DEF Choice
  <2>2. SaveOf(t, Switched(p), Target(p), "reading") \in Save
    BY <2>1, SaveOfIsSave
  <2> QED BY <1>2, <2>1, <2>2, BeginTypes
<1> QED BY <1>1, <1>2 DEF Follow

\* So does asking for a check.
LEMMA AskTypes ==
  ASSUME TypeOK, NEW t \in Tabs, Ask(t)
  PROVE  checks' \in [Checks -> Check \cup {Idle}]
<1>1. PICK c \in Checks : checks' = [checks EXCEPT ![c] =
        [stage |-> "asked", tab |-> t, decides |-> [roll \in Rolls |-> Reported(roll, stored)]]]
  BY DEF Ask
<1>2. [roll \in Rolls |-> Reported(roll, stored)] \in [Rolls -> Report]
  BY ReportedIsReport DEF TypeOK
<1>3. [stage |-> "asked", tab |-> t,
       decides |-> [roll \in Rolls |-> Reported(roll, stored)]] \in Check
  BY <1>2 DEF Check
<1> QED BY <1>1, <1>3 DEF TypeOK

\* Types at the start.
LEMMA InitTypes == Init => TypeOK
<1> SUFFICES ASSUME Init PROVE TypeOK
  OBVIOUS
<1> USE RollAssumption DEF RollAssumption
<1>1. stored \in Settings
  <2>1. [m \in Media |-> None] \in PerMedium
    <3> DEFINE f == [m \in Media |-> None]
    <3>1. f \in [Media -> Choice] /\ \A m \in Media : f[m] \in m \cup {None}
      BY DEF Choice
    <3> QED BY <3>1 DEF PerMedium
  <2>2. stored.label \in Labels /\ stored \in
          [label : Labels, auto : BOOLEAN, owned : {{}},
           memory : {[m \in Media |-> None]}, preferred : {[m \in Media |-> None]}]
    BY DEF Init
  <2> QED BY <2>1, <2>2 DEF Settings
<1>2. Opened(stored) \in Page
  BY <1>1, OpenedIsPage
<1>3. meant \subseteq Labels
  BY <1>1 DEF Init, Settings
<1>4. tab \in [Tabs -> Page]
  BY <1>2 DEF Init
<1>5. checks \in [Checks -> Check \cup {Idle}] /\ saves \in [Saves -> Save \cup {Idle}]
  BY DEF Init
<1>6. /\ printer \in Rolls /\ cache \in Rolls \cup {None}
      /\ last \in Saves \cup {None} /\ savedBy \in Tabs \cup {None} /\ fromJob \subseteq Tabs
  BY Zenon DEF Init
<1>7. swaps \in 0 .. MaxSwaps /\ acts \in 0 .. MaxActs
  BY DEF Init
<1>8. said \in [Tabs -> [label : Labels, key : SUBSET Labels, changed : BOOLEAN] \cup {None}]
  BY DEF Init
<1> QED BY <1>1, <1>3, <1>4, <1>5, <1>6, <1>7, <1>8 DEF TypeOK
\* What is said of a choice.
SaidTyped == said \in [Tabs -> [label : Labels, key : SUBSET Labels, changed : BOOLEAN] \cup {None}]

\* Types on a page's actions.
LEMMA PageTypes ==
  ASSUME TypeOK, NEW t \in Tabs, OnPage(t) PROVE TypeOK'
<1> DEFINE p == tab[t]
<1> USE DEF TypeOK
<1>0. p \in Page /\ SavesTyped /\ stored \in Settings /\ SaidTyped /\ None \in Choice
  BY DEF SavesTyped, SaidTyped, Choice
<1>1. ASSUME Act PROVE swaps' \in 0 .. MaxSwaps /\ acts' \in 0 .. MaxActs
  BY <1>1, RollAssumption DEF Act, RollAssumption
<1>2. CASE Reload(t)
  <2>1. tab' \in [Tabs -> Page]
    BY <1>2, <1>0, OpenedIsPage DEF Reload
  <2>2. checks' \in [Checks -> Check \cup {Idle}]
    <3>1. ASSUME NEW c \in Checks, checks[c] # Idle
          PROVE  [checks[c] EXCEPT !.tab = None] \in Check
      BY <3>1 DEF Check
    <3> QED BY <3>1, <1>2 DEF Reload
  <2>3. saves' \in [Saves -> Save \cup {Idle}]
    <3>1. ASSUME NEW s \in Saves, saves[s] # Idle
          PROVE  [saves[s] EXCEPT !.tab = None] \in Save
      BY <3>1 DEF Save
    <3> QED BY <3>1, <1>2 DEF Reload
  <2>4. /\ last' \in Saves \cup {None} /\ fromJob' \subseteq Tabs
        /\ SaidTyped'
    BY <1>2, <1>0 DEF Reload, SaidTyped
  <2> QED BY <1>1, <1>2, <2>1, <2>2, <2>3, <2>4 DEF Reload, SaidTyped
<1>3. CASE OpenList(t)
  <2>1. [p EXCEPT !.open = TRUE] \in Page
    BY <1>0 DEF Page
  <2>2. checks' \in [Checks -> Check \cup {Idle}]
    BY <1>3, AskTypes DEF OpenList
  <2> QED BY <1>3, <2>1, <2>2 DEF OpenList, bounds, landing
<1>4. CASE CloseList(t)
  <2>1. [p EXCEPT !.open = FALSE] \in Page
    BY <1>0 DEF Page
  <2>2. tab' \in [Tabs -> Page] /\ SavesTyped'
    BY <1>4, <1>0, <2>1, FollowTypes DEF CloseList
  <2> QED BY <1>4, <2>2 DEF CloseList, SavesTyped, bounds, landing
<1>5. CASE SetAuto(t)
  <2> DEFINE q == [p EXCEPT !.auto = ~@, !.held = NotHeld]
  <2>1. q \in Page
    BY <1>0 DEF Page
  <2>2. SaveOf(t, q, None, "reading") \in Save
    BY <1>0, <2>1, SaveOfIsSave
  <2> HIDE DEF q
  <2>3. tab' \in [Tabs -> Page] /\ SavesTyped'
    <3>1. CASE ~Switches(q) /\ tab' = [tab EXCEPT ![t] = q]
               /\ Begin(SaveOf(t, q, None, "reading"))
      BY <1>0, <2>1, <2>2, <3>1, BeginTypes
    <3>2. CASE /\ Switches(q) /\ tab' = [tab EXCEPT ![t] = Switched(q)]
               /\ BeginBoth(SaveOf(t, q, None, "reading"),
                            SaveOf(t, Switched(q), Target(q), "reading"))
      <4>1. Switched(q) \in Page /\ Target(q) \in Choice
        BY <2>1, <3>2, SwitchedIsPage DEF Choice
      <4>2. SaveOf(t, Switched(q), Target(q), "reading") \in Save
        BY <4>1, SaveOfIsSave
      <4> QED BY <1>0, <2>2, <3>2, <4>1, <4>2, BeginBothTypes
    <3> QED BY <1>5, <3>1, <3>2 DEF SetAuto, q
  <2>4. SaidTyped'
    BY <1>0, <1>5 DEF SetAuto, SaidTyped
  <2> QED BY <1>1, <1>5, <2>3, <2>4 DEF SetAuto, SavesTyped, SaidTyped
<1>6. CASE SaveForm(t)
  <2>1. SaveOf(t, p, p.choice, "sent") \in Save
    BY <1>0, SaveOfIsSave DEF Page, Choice
  <2>2. SavesTyped'
    BY <1>0, <1>6, <2>1, BeginTypes DEF SaveForm
  <2> QED BY <1>1, <1>6, <2>2 DEF SaveForm, SavesTyped
<1>7. CASE Poll(t)
  BY <1>7, AskTypes DEF Poll, bounds, landing
<1>10. ASSUME NEW l \in Labels, OpenJob(t, l) PROVE TypeOK'
  <2>1. tab' \in [Tabs -> Page]
    <3>1. [p EXCEPT !.choice = l] \in Page
      BY <1>0 DEF Page
    <3> QED BY <1>10, <3>1 DEF OpenJob
  <2>2. SaidTyped' /\ meant' \subseteq Labels /\ fromJob' \subseteq Tabs
    BY <1>0, <1>10 DEF OpenJob, SaidTyped
  <2> QED BY <1>1, <1>10, <2>1, <2>2 DEF OpenJob, SaidTyped, request
<1>8. ASSUME NEW l \in Labels, Pick(t, l) PROVE TypeOK'
  <2> DEFINE q == Picked(p, l)
  <2>1. q \in Page
    BY <1>0, PickedIsPage
  <2>2. SaveOf(t, q, l, "reading") \in Save
    BY <2>1, SaveOfIsSave DEF Choice
  <2> HIDE DEF q
  <2>3. tab' \in [Tabs -> Page] /\ SavesTyped'
    <3>1. CASE tab' = [tab EXCEPT ![t] = q] /\ Begin(SaveOf(t, q, l, "reading"))
      BY <1>0, <2>1, <2>2, <3>1, BeginTypes
    <3>2. CASE Follow(t, q)
      BY <1>0, <2>1, <3>2, FollowTypes
    <3> QED BY <1>8, <3>1, <3>2 DEF Pick, q
  <2>4. SaidTyped'
    <3>1. Loaded(p) \in SUBSET Labels
      BY <1>0, LoadedAreLabels
    <3> QED BY <1>0, <1>8, <3>1 DEF Pick, SaidTyped
  <2>5. meant' \subseteq Labels
    BY <1>8 DEF Pick
  <2> QED BY <1>1, <1>8, <2>3, <2>4, <2>5 DEF Pick, SavesTyped, SaidTyped
<1>9. ASSUME NEW l \in Ownable, ToggleOwned(t, l) PROVE TypeOK'
  <2> DEFINE q == [p EXCEPT !.owned = IF l \in p.owned THEN p.owned \ {l}
                                     ELSE p.owned \cup {l}]
  <2>0. l \in Labels
    BY RollAssumption DEF RollAssumption
  <2>1. q \in Page
    BY <1>0, <2>0 DEF Page
  <2>2. SaveOf(t, q, None, "reading") \in Save
    BY <1>0, <2>1, SaveOfIsSave
  <2> HIDE DEF q
  <2>3. tab' \in [Tabs -> Page] /\ SavesTyped'
    <3>1. CASE ~Switches(q) /\ tab' = [tab EXCEPT ![t] = q]
               /\ Begin(SaveOf(t, q, None, "reading"))
      BY <1>0, <2>1, <2>2, <3>1, BeginTypes
    <3>2. CASE /\ Switches(q) /\ tab' = [tab EXCEPT ![t] = Switched(q)]
               /\ BeginBoth(SaveOf(t, Switched(q), Target(q), "reading"),
                            SaveOf(t, Switched(q), None, "reading"))
      <4>1. Switched(q) \in Page /\ Target(q) \in Choice
        BY <2>1, <3>2, SwitchedIsPage DEF Choice
      <4>2. /\ SaveOf(t, Switched(q), Target(q), "reading") \in Save
            /\ SaveOf(t, Switched(q), None, "reading") \in Save
        BY <1>0, <4>1, SaveOfIsSave
      <4> QED BY <1>0, <3>2, <4>1, <4>2, BeginBothTypes
    <3> QED BY <1>9, <3>1, <3>2 DEF ToggleOwned, q
  <2>4. SaidTyped' /\ meant' \subseteq Labels
    BY <1>0, <1>9, <2>0 DEF ToggleOwned, SaidTyped
  <2> QED BY <1>1, <1>9, <2>3, <2>4 DEF ToggleOwned, SavesTyped, SaidTyped
<1> QED BY <1>2, <1>3, <1>4, <1>5, <1>6, <1>7, <1>8, <1>9, <1>10 DEF OnPage
\* Types when a page takes an answer.
LEMMA TakeTypes ==
  ASSUME TypeOK, NEW c \in Checks, checks[c] # Idle, NEW report \in Report, Take(c, report)
  PROVE  TypeOK'
<1> DEFINE t == checks[c].tab
           p == [tab[t] EXCEPT !.report = report]
<1>0. checks[c] \in Check /\ SavesTyped
  BY DEF TypeOK, SavesTyped
<1>1. t \in Tabs
  BY <1>0 DEF Take, Check
<1>2. tab[t] \in Page /\ p \in Page
  BY <1>1 DEF TypeOK, Page
<1> HIDE DEF t, p
<1>3. Follow(t, p)
  BY DEF Take, t, p
<1>4. tab' \in [Tabs -> Page] /\ SavesTyped'
  BY <1>0, <1>1, <1>2, <1>3, FollowTypes DEF TypeOK
<1>5. SaidTyped'
  BY DEF Take, TypeOK, SaidTyped, t, p
<1>6. checks' \in [Checks -> Check \cup {Idle}]
  BY DEF Take, TypeOK
<1> QED BY <1>4, <1>5, <1>6 DEF Take, TypeOK, SavesTyped, SaidTyped, bounds, landing

\* Types on the steps of a check.
LEMMA CheckTypes ==
  ASSUME TypeOK, NEW c \in Checks, OfCheck(c) PROVE TypeOK'
<1>0. checks[c].stage # "idle" => checks[c] \in Check /\ checks[c] # Idle
  BY DEF TypeOK, Idle
<1>1. CASE Probe(c)
  <2>1. checks[c].decides \in [Rolls -> Report] /\ checks[c].tab \in Tabs \cup {None}
    BY <1>0, <1>1 DEF Probe, Check
  <2>2. checks[c].decides[printer] \in Report
    BY <2>1 DEF TypeOK
  <2>3. \A r \in Report :
          [stage |-> "answered", tab |-> checks[c].tab, report |-> r] \in Check
    BY <2>1 DEF Check
  <2>4. checks' \in [Checks -> Check \cup {Idle}]
    BY <1>1, <2>2, <2>3, NothingIsReport DEF Probe, TypeOK
  <2>5. cache' \in Rolls \cup {None}
    BY <1>1 DEF Probe, TypeOK
  <2> QED BY <1>1, <2>4, <2>5 DEF Probe, TypeOK, bounds, landing
<1>2. CASE Apply(c)
  <2>1. checks[c].report \in Report
    BY <1>0, <1>2 DEF Apply, Check
  <2> QED BY <1>0, <1>2, <2>1, TakeTypes DEF Apply
<1>3. CASE CheckFails(c)
  BY <1>0, <1>3, NothingIsReport, TakeTypes DEF CheckFails
<1>4. CASE NobodyListens(c)
  BY <1>4 DEF NobodyListens, TypeOK, bounds, landing
<1> QED BY <1>1, <1>2, <1>3, <1>4 DEF OfCheck

\* Types on the steps of a save.
LEMMA SaveTypes ==
  ASSUME TypeOK, SavesAgree, NEW s \in Saves, OfSave(s) PROVE TypeOK'
<1>0. saves[s].stage # "idle" => saves[s] \in Save /\ saves[s] # Idle
  BY DEF TypeOK, Idle
<1>1. CASE Send(s)
  <2>1. saves[s] \in Save /\ saves[s].tab \in Tabs
    BY <1>0, <1>1 DEF Send, SavesAgree, SavesComplete, Save
  <2>2. tab[saves[s].tab].choice \in Labels
    BY <2>1 DEF TypeOK, Page
  <2>3. \A l \in Choice : [saves[s] EXCEPT !.stage = "sent", !.label = l] \in Save
    BY <2>1 DEF Save
  <2>4. saves' = [saves EXCEPT ![s] = [saves[s] EXCEPT !.stage = "sent",
           !.label = IF saves[s].label = None THEN tab[saves[s].tab].choice ELSE saves[s].label]]
    BY <1>1 DEF Send
  <2>5. (IF saves[s].label = None THEN tab[saves[s].tab].choice ELSE saves[s].label) \in Choice
    BY <2>1, <2>2 DEF Save, Choice
  <2>6. saves' \in [Saves -> Save \cup {Idle}]
    BY <2>3, <2>4, <2>5 DEF TypeOK
  <2>7. fromJob' \subseteq Tabs
    BY <1>1 DEF Send, TypeOK
  <2> QED BY <1>1, <2>6, <2>7 DEF Send, TypeOK, bounds
<1>2. ASSUME Finish(s), savedBy' \in Tabs \cup {None} PROVE SavesTyped'
  BY <1>2 DEF Finish, TypeOK, SavesTyped
<1>3. CASE Land(s)
  <2> DEFINE body == saves[s]
  <2>1. /\ body \in Save /\ body.label \in Labels /\ body.tab \in Tabs \cup {None}
        /\ body.auto \in BOOLEAN /\ body.owned \subseteq Labels /\ body.memory \in PerMedium
    BY <1>0, <1>3 DEF Land, SavesAgree, SavesComplete, Save, Choice
  <2>2. PICK roll \in Rolls :
          /\ cache' \in {roll, cache}
          /\ stored' = [stored EXCEPT !.label = body.label, !.auto = body.auto,
               !.owned = body.owned,
               !.memory = IF body.auto /\ body.label # stored.label
                          THEN Recorded(body.memory, roll, body.label) ELSE body.memory]
    BY <1>3 DEF Land, TypeOK, Rolls
  <2>3. Recorded(body.memory, roll, body.label) \in PerMedium
    <3>1. CASE ~(Ambiguous(roll) /\ body.label \in roll)
      BY <2>1, <3>1 DEF Recorded
    <3>2. CASE Ambiguous(roll) /\ body.label \in roll /\ roll \in Media
      <4>1. [body.memory EXCEPT ![roll] = body.label] \in PerMedium
        BY <2>1, <3>2 DEF PerMedium, Choice
      <4> QED BY <3>2, <4>1 DEF Recorded
    <3>3. CASE Ambiguous(roll) /\ roll \notin Media
      BY <3>3 DEF Ambiguous, Rolls
    <3> QED BY <3>1, <3>2, <3>3
  <2>4. stored' \in Settings
    BY <2>1, <2>2, <2>3 DEF TypeOK, Settings
  <2>5. cache' \in Rolls \cup {None}
    BY <2>2 DEF TypeOK
  <2>6. SavesTyped'
    BY <1>2, <1>3, <2>1 DEF Land
  <2> QED BY <1>3, <2>4, <2>5, <2>6 DEF Land, TypeOK, SavesTyped, bounds, landing
<1>4. CASE SaveFails(s)
  BY <1>2, <1>4 DEF SaveFails, TypeOK, SavesTyped, bounds, landing
<1> QED BY <1>1, <1>3, <1>4 DEF OfSave
\* Types on every step.
LEMMA StepTypes == TypeOK /\ SavesAgree /\ [Next]_vars => TypeOK'
<1> SUFFICES ASSUME TypeOK, SavesAgree, [Next]_vars PROVE TypeOK'
  OBVIOUS
<1>1. CASE \E roll \in Rolls : Swap(roll)
  <2>1. swaps' \in 0 .. MaxSwaps
    BY <1>1, RollAssumption DEF Swap, TypeOK, RollAssumption
  <2> QED BY <1>1, <2>1 DEF Swap, TypeOK, landing
<1>2. ASSUME NEW m \in Media, NEW l \in Labels, Declare(m, l) PROVE TypeOK'
  <2>1. acts' \in 0 .. MaxActs /\ swaps' = swaps
    BY <1>2, RollAssumption DEF Declare, Act, TypeOK, RollAssumption
  <2>2. [stored.preferred EXCEPT ![m] = l] \in PerMedium
    BY <1>2 DEF Declare, TypeOK, Settings, PerMedium, Choice
  <2>3. stored' \in Settings
    BY <1>2, <2>2 DEF Declare, TypeOK, Settings
  <2>4. meant' \subseteq Labels
    BY <1>2 DEF Declare, TypeOK
  <2> QED BY <1>2, <2>1, <2>3, <2>4 DEF Declare, TypeOK, request, landing
<1>3. CASE \E t \in Tabs : OnPage(t)
  BY <1>3, PageTypes
<1>4. CASE \E c \in Checks : OfCheck(c)
  BY <1>4, CheckTypes
<1>5. CASE \E s \in Saves : OfSave(s)
  BY <1>5, SaveTypes
<1>6. CASE UNCHANGED vars
  BY <1>6 DEF vars, TypeOK
<1> QED BY <1>1, <1>2, <1>3, <1>4, <1>5, <1>6 DEF Next
\* A choice that counts is one of labels of the page it was made on.
SaidChoice == [label : Labels, key : SUBSET Labels, changed : BOOLEAN] \cup {None}
-----------------------------------------------------------------------------
(***************************************************************************)
(* Choices made by hand.                                                   *)
(***************************************************************************)

\* Automatic mode does not switch against a choice that holds it off.
LEMMA FollowHolds ==
  ASSUME tab \in [Tabs -> Page], NEW t \in Tabs, NEW p \in Page, NEW choice,
         Follow(t, p), HeldAt(p, choice)
  PROVE  HeldAt(tab'[t], choice) /\ \A u \in Tabs \ {t} : tab'[u] = tab[u]
<1>1. CASE ~Switches(p) /\ tab' = [tab EXCEPT ![t] = p]
  BY <1>1
<1>2. CASE Switches(p) /\ tab' = [tab EXCEPT ![t] = Switched(p)]
  <2>1. Loaded(p) # {} /\ p.held # Loaded(p)
    BY <1>2 DEF Switches, Matches
  <2>2. choice # None => ~choice.changed
    BY <2>1 DEF HeldAt
  <2>3. Loaded(Switched(p)) = Loaded(p)
    BY DEF Loaded, Switched, Changed, Page
  <2>4. HeldAt(Switched(p), choice)
    BY <2>2, <2>3 DEF HeldAt
  <2> QED BY <1>2, <2>4
<1> QED BY <1>1, <1>2 DEF Follow

\* One page's choices; the other pages are as they were.
LEMMA HeldOnPage ==
  ASSUME TypeOK, Held, NEW t \in Tabs, OnPage(t)
  PROVE  Held'
<1> DEFINE p == tab[t]
<1> SUFFICES /\ HeldAt(tab'[t], said'[t])
             /\ \A u \in Tabs \ {t} : tab'[u] = tab[u] /\ said'[u] = said[u]
  BY DEF Held
<1>0. /\ p \in Page /\ HeldAt(p, said[t])
      /\ tab \in [Tabs -> Page] /\ said \in [Tabs -> SaidChoice]
      /\ \A q : HeldAt(q, None)
  BY DEF TypeOK, Held, HeldAt, SaidChoice
<1>1. CASE Reload(t)
  BY <1>0, <1>1 DEF Reload
<1>2. CASE OpenList(t)
  <2>1. HeldAt([p EXCEPT !.open = TRUE], said[t])
    BY <1>0 DEF HeldAt, Loaded, Page
  <2> QED BY <1>0, <1>2, <2>1 DEF OpenList
<1>3. CASE CloseList(t)
  <2> DEFINE q == [p EXCEPT !.open = FALSE]
  <2>1. q \in Page /\ HeldAt(q, said[t])
    BY <1>0 DEF HeldAt, Loaded, Page
  <2>2. Follow(t, q) /\ said' = said
    BY <1>3 DEF CloseList
  <2> HIDE DEF q
  <2> QED BY <1>0, <2>1, <2>2, FollowHolds
<1>4. CASE SetAuto(t)
  <2>1. said'[t] = None /\ \A u \in Tabs \ {t} : tab'[u] = tab[u] /\ said'[u] = said[u]
    BY <1>0, <1>4 DEF SetAuto
  <2> QED BY <1>0, <2>1
<1>8. ASSUME NEW l \in Labels, OpenJob(t, l)
      PROVE  /\ HeldAt(tab'[t], said'[t])
             /\ \A u \in Tabs \ {t} : tab'[u] = tab[u] /\ said'[u] = said[u]
  <2>1. said'[t] = None /\ \A u \in Tabs \ {t} : tab'[u] = tab[u] /\ said'[u] = said[u]
    BY <1>0, <1>8 DEF OpenJob
  <2> QED BY <1>0, <2>1
<1>5. CASE SaveForm(t) \/ Poll(t)
  BY <1>0, <1>5 DEF SaveForm, Poll
<1>6. ASSUME NEW l \in Ownable, ToggleOwned(t, l)
      PROVE  /\ HeldAt(tab'[t], said'[t])
             /\ \A u \in Tabs \ {t} : tab'[u] = tab[u] /\ said'[u] = said[u]
  <2>1. said'[t] = None /\ \A u \in Tabs \ {t} : tab'[u] = tab[u] /\ said'[u] = said[u]
    BY <1>0, <1>6 DEF ToggleOwned
  <2> QED BY <1>0, <2>1
<1>7. ASSUME NEW l \in Labels, Pick(t, l)
      PROVE  /\ HeldAt(tab'[t], said'[t])
             /\ \A u \in Tabs \ {t} : tab'[u] = tab[u] /\ said'[u] = said[u]
  <2> DEFINE q == Picked(p, l)
             choice == IF Loaded(p) = {} THEN None
                       ELSE [label |-> l, key |-> Loaded(p), changed |-> l # p.choice]
  <2>1. said' = [said EXCEPT ![t] = choice]
    BY <1>7 DEF Pick
  <2>2. Loaded(q) = Loaded(p)
    BY <1>0 DEF Picked, Changed, Loaded, Page
  <2>3. l # p.choice => q.choice = l /\ q.held = Loaded(p)
    BY <1>0 DEF Picked, Changed, Page
  <2>4. HeldAt(q, choice)
    <3>1. CASE Loaded(p) = {}
      BY <3>1 DEF HeldAt
    <3>2. CASE Loaded(p) # {}
      <4>1. /\ choice.label = l /\ choice.key = Loaded(p)
            /\ choice.changed = (l # p.choice)
        BY <3>2
      <4> HIDE DEF choice, q
      <4> QED BY <2>2, <2>3, <3>2, <4>1 DEF HeldAt
    <3> QED BY <3>1, <3>2
  <2>5. q \in Page
    BY <1>0, PickedIsPage
  <2>6. (tab' = [tab EXCEPT ![t] = q]) \/ Follow(t, q)
    BY <1>7 DEF Pick
  <2> HIDE DEF q, choice
  <2>7. CASE tab' = [tab EXCEPT ![t] = q]
    BY <1>0, <2>1, <2>4, <2>7
  <2>8. CASE Follow(t, q)
    BY <1>0, <2>1, <2>4, <2>5, <2>8, FollowHolds
  <2> QED BY <2>6, <2>7, <2>8
<1> QED BY <1>1, <1>2, <1>3, <1>4, <1>5, <1>6, <1>7, <1>8 DEF OnPage

\* An answer of another roll ends a choice, any other leaves it.
LEMMA HeldOnTake ==
  ASSUME TypeOK, Held, NEW c \in Checks, checks[c] # Idle, NEW report \in Report, Take(c, report)
  PROVE  Held'
<1> DEFINE t == checks[c].tab
           p == [tab[t] EXCEPT !.report = report]
           choice == IF said[t] # None /\ Loaded(p) \notin {{}, said[t].key} THEN None ELSE said[t]
<1>1. t \in Tabs
  BY DEF TypeOK, Take, Check
<1>2. p \in Page /\ HeldAt(tab[t], said[t])
  BY <1>1 DEF TypeOK, Held, Page
<1>3. HeldAt(p, choice)
  BY <1>1, <1>2 DEF HeldAt, TypeOK, Page
<1>4. Follow(t, p) /\ said' = [said EXCEPT ![t] = choice]
  BY DEF Take
<1> HIDE DEF t, p, choice
<1>5. /\ HeldAt(tab'[t], said'[t])
      /\ \A u \in Tabs \ {t} : tab'[u] = tab[u] /\ said'[u] = said[u]
  BY <1>1, <1>2, <1>3, <1>4, FollowHolds DEF TypeOK
<1> QED BY <1>5 DEF Held

\* No step moves a page that a choice by hand holds.
LEMMA StepHeld == TypeOK /\ Held /\ [Next]_vars => Held'
<1> SUFFICES ASSUME TypeOK, Held, [Next]_vars PROVE Held'
  OBVIOUS
<1>1. CASE \/ \E roll \in Rolls : Swap(roll)
           \/ \E m \in Media, l \in Labels : Declare(m, l)
           \/ \E s \in Saves : OfSave(s)
           \/ UNCHANGED vars
  BY <1>1 DEF Swap, Declare, OfSave, Send, Land, SaveFails, vars, Held
<1>2. CASE \E t \in Tabs : OnPage(t)
  BY <1>2, HeldOnPage
<1>3. ASSUME NEW c \in Checks, OfCheck(c) PROVE Held'
  <2>0. checks[c].stage # "idle" => checks[c] \in Check /\ checks[c] # Idle
    BY DEF TypeOK, Idle
  <2>1. CASE Probe(c) \/ NobodyListens(c)
    BY <2>1 DEF Probe, NobodyListens, Held
  <2>2. CASE Apply(c)
    <3>1. checks[c].report \in Report
      BY <2>0, <2>2 DEF Apply, Check
    <3> QED BY <2>0, <2>2, <3>1, HeldOnTake DEF Apply
  <2>3. CASE CheckFails(c)
    BY <2>0, <2>3, NothingIsReport, HeldOnTake DEF CheckFails
  <2> QED BY <1>3, <2>1, <2>2, <2>3 DEF OfCheck
<1> QED BY <1>1, <1>2, <1>3 DEF Next
-----------------------------------------------------------------------------
(***************************************************************************)
(* Special labels.                                                         *)
(***************************************************************************)

\* The plain variant of a medium, and no label, need nobody to name them.
LEMMA PlainIsMeant ==
  ASSUME NEW named
  PROVE  IsMeant(None, named) /\ \A m \in Media : IsMeant(Plain[m], named)
<1>1. ~Special(None)
  BY RollAssumption DEF RollAssumption, Special
<1>2. ASSUME NEW m \in Media PROVE ~Special(Plain[m])
  <2>1. Plain[m] \in m
    BY RollAssumption DEF RollAssumption
  <2>2. ASSUME NEW n \in Media, Plain[m] \in n PROVE Plain[m] = Plain[n]
    BY <2>1, <2>2, OneMedium
  <2> QED BY <2>2 DEF Special
<1> QED BY <1>1, <1>2 DEF IsMeant

\* More labels were named later on.
LEMMA MeantGrows ==
  ASSUME NEW named, NEW later, named \subseteq later
  PROVE  /\ \A l : IsMeant(l, named) => IsMeant(l, later)
         /\ \A r : ReportIsMeant(r, named) => ReportIsMeant(r, later)
         /\ \A s : SettingsAreMeant(s, named) => SettingsAreMeant(s, later)
         /\ \A s : StoredIsMeant(s, named) => StoredIsMeant(s, later)
         /\ \A p : PageIsMeant(p, named) => PageIsMeant(p, later)
         /\ \A c : CheckIsMeant(c, named) => CheckIsMeant(c, later)
         /\ \A s : SaveIsMeant(s, named) => SaveIsMeant(s, later)
<1>1. \A l : IsMeant(l, named) => IsMeant(l, later)
  BY DEF IsMeant
<1>2. \A r : ReportIsMeant(r, named) => ReportIsMeant(r, later)
  BY <1>1 DEF ReportIsMeant
<1>3. \A s : SettingsAreMeant(s, named) => SettingsAreMeant(s, later)
  BY <1>1 DEF SettingsAreMeant
<1>4. \A s : StoredIsMeant(s, named) => StoredIsMeant(s, later)
  BY <1>1, <1>3 DEF StoredIsMeant
<1>5. \A p : PageIsMeant(p, named) => PageIsMeant(p, later)
  BY <1>1, <1>2 DEF PageIsMeant
<1>6. \A c : CheckIsMeant(c, named) => CheckIsMeant(c, later)
  BY <1>2 DEF CheckIsMeant
<1>7. \A s : SaveIsMeant(s, named) => SaveIsMeant(s, later)
  BY <1>3 DEF SaveIsMeant
<1> QED BY <1>1, <1>2, <1>3, <1>4, <1>5, <1>6, <1>7

\* What the server makes of a roll was named if its settings were.
LEMMA ReportedIsMeant ==
  ASSUME NEW named, NEW roll \in Rolls, NEW s \in Settings, StoredIsMeant(s, named)
  PROVE  ReportIsMeant(Reported(roll, s), named)
<1>1. IsMeant(None, named) /\ \A m \in Media : IsMeant(Plain[m], named)
  BY PlainIsMeant
<1>2. IsMeant(Resolve(roll, s), named)
  <2>1. CASE roll = {}
    BY <1>1, <2>1 DEF Resolve
  <2>2. CASE roll \in Media
    <3>1. /\ IsMeant(s.preferred[roll], named) /\ IsMeant(s.memory[roll], named)
          /\ IsMeant(Plain[roll], named)
      BY <1>1, <2>2 DEF StoredIsMeant, SettingsAreMeant
    <3>2. ASSUME \E l \in roll : s.owned \cap roll = {l}
          PROVE  IsMeant(CHOOSE l \in roll : s.owned \cap roll = {l}, named)
      <4> DEFINE l == CHOOSE x \in roll : s.owned \cap roll = {x}
      <4>1. l \in s.owned
        BY <3>2
      <4>2. s.owned \subseteq named
        BY DEF StoredIsMeant, SettingsAreMeant
      <4> QED BY <4>1, <4>2 DEF IsMeant
    <3> QED BY <1>1, <3>1, <3>2 DEF Resolve
  <2> QED BY <2>1, <2>2 DEF Rolls
<1>3. IsMeant(PlannedSwitch(roll, s), named)
  BY <1>1, <1>2 DEF PlannedSwitch
<1> QED BY <1>2, <1>3 DEF Reported, ReportIsMeant

\* Nor does a page that has heard nothing.
LEMMA NothingIsMeant ==
  ASSUME NEW named PROVE ReportIsMeant(Nothing, named)
BY PlainIsMeant DEF Nothing, ReportIsMeant

\* The one label left of a roll is owned, or the plain variant.
LEMMA OnlyIsMeant ==
  ASSUME NEW named, NEW p \in Page, PageIsMeant(p, named), NEW l, Loaded(p) = {l}
  PROVE  IsMeant(l, named)
<1> DEFINE roll == p.report.roll
<1>1. CASE Ambiguous(roll) /\ p.owned \cap roll # {}
  <2>1. l \in p.owned
    BY <1>1 DEF Loaded, Narrowed
  <2> QED BY <2>1 DEF PageIsMeant, IsMeant
<1>2. CASE ~(Ambiguous(roll) /\ p.owned \cap roll # {})
  <2>1. roll = {l}
    BY <1>2 DEF Loaded, Narrowed
  <2>2. roll \in Media
    BY <2>1, LoadedAreLabels DEF Rolls
  <2>3. Plain[roll] \in roll
    BY <2>2, RollAssumption DEF RollAssumption
  <2>4. l = Plain[roll]
    BY <2>1, <2>3
  <2> QED BY <2>2, <2>4, PlainIsMeant
<1> QED BY <1>1, <1>2

\* A page switches to labels somebody named or to plain ones.
LEMMA TargetIsMeant ==
  ASSUME NEW named, NEW p \in Page, PageIsMeant(p, named)
  PROVE  IsMeant(Target(p), named)
<1>1. ASSUME \E l \in Loaded(p) : Loaded(p) = {l}
      PROVE  IsMeant(CHOOSE l \in Loaded(p) : Loaded(p) = {l}, named)
  <2> DEFINE l == CHOOSE x \in Loaded(p) : Loaded(p) = {x}
  <2>1. Loaded(p) = {l}
    BY <1>1
  <2> HIDE DEF l
  <2>2. IsMeant(l, named)
    BY <2>1, OnlyIsMeant
  <2> QED BY <2>2 DEF l
<1>2. IsMeant(p.report.to, named) /\ IsMeant(p.report.resolved, named)
  BY DEF PageIsMeant, ReportIsMeant
<1>3. IsMeant(None, named)
  BY PlainIsMeant
<1>4. ASSUME Loaded(p) # {} PROVE IsMeant(p.memory[p.report.roll], named)
  <2>1. p.report.roll \in Media
    BY <1>4, LoadedAreLabels DEF Rolls
  <2> QED BY <2>1 DEF PageIsMeant
<1> QED BY <1>1, <1>2, <1>3, <1>4 DEF Target

\* A page changed to such a label holds nothing else.
LEMMA ChangedIsMeant ==
  ASSUME NEW named, NEW p \in Page, NEW l \in Labels, NEW automatic \in BOOLEAN,
         PageIsMeant(p, named), IsMeant(l, named)
  PROVE  PageIsMeant(Changed(p, l, automatic), named)
<1> DEFINE q == Changed(p, l, automatic)
<1>1. q.choice = l /\ q.owned = p.owned /\ q.memory = Remembered(p, l) /\ q.report = p.report
  BY DEF Changed, Page
<1>2. ASSUME NEW m \in Media PROVE IsMeant(Remembered(p, l)[m], named)
  BY DEF Remembered, PageIsMeant
<1> HIDE DEF q
<1>3. PageIsMeant(q, named)
  BY <1>1, <1>2 DEF PageIsMeant
<1> QED BY <1>3 DEF q

\* Nor does one that switched.
LEMMA SwitchedIsMeant ==
  ASSUME NEW named, NEW p \in Page, PageIsMeant(p, named), Switches(p)
  PROVE  PageIsMeant(Switched(p), named) /\ IsMeant(Target(p), named)
<1>1. IsMeant(Target(p), named) /\ Target(p) \in Labels
  BY TargetIsMeant, SwitchedIsPage
<1> QED BY <1>1, ChangedIsMeant DEF Switched

\* Nor one whose user picked a label, which names it.
LEMMA PickedIsMeant ==
  ASSUME NEW named, NEW p \in Page, NEW l \in Labels,
         PageIsMeant(p, named), IsMeant(l, named)
  PROVE  PageIsMeant(Picked(p, l), named)
<1> DEFINE q == IF p.choice # l THEN Changed(p, l, FALSE) ELSE p
<1>1. q \in Page /\ PageIsMeant(q, named)
  BY ChangedIsPage, ChangedIsMeant
<1> HIDE DEF q
<1>2. PageIsMeant([q EXCEPT !.open = FALSE], named)
  BY <1>1 DEF PageIsMeant, Page
<1> QED BY <1>2 DEF Picked, q

\* Nor one loaded from such settings.
LEMMA OpenedIsMeant ==
  ASSUME NEW named, NEW s \in Settings, SettingsAreMeant(s, named)
  PROVE  PageIsMeant(Opened(s), named)
<1> DEFINE q == Opened(s)
<1>1. /\ q.choice = s.label /\ q.owned = s.owned
      /\ q.memory = Seeded(s.memory, s.label) /\ q.report = Nothing
  BY DEF Opened
<1>2. ASSUME NEW m \in Media PROVE IsMeant(Seeded(s.memory, s.label)[m], named)
  BY DEF Seeded, SettingsAreMeant
<1> HIDE DEF q
<1>3. PageIsMeant(q, named)
  BY <1>1, <1>2, NothingIsMeant DEF PageIsMeant, SettingsAreMeant
<1> QED BY <1>3 DEF q

\* What such a page saves holds nothing else.
LEMMA SaveOfIsMeant ==
  ASSUME NEW named, NEW t, NEW p, NEW l, NEW stage, PageIsMeant(p, named), IsMeant(l, named)
  PROVE  SaveIsMeant(SaveOf(t, p, l, stage), named)
<1> DEFINE s == SaveOf(t, p, l, stage)
<1>1. s.label = l /\ s.owned = p.owned /\ s.memory = p.memory
  BY DEF SaveOf
<1> HIDE DEF s
<1>2. SettingsAreMeant(s, named)
  BY <1>1 DEF SettingsAreMeant, PageIsMeant
<1> QED BY <1>2 DEF SaveIsMeant, s

\* A save begun with labels that were named.
LEMMA BeginIsMeant ==
  ASSUME NEW named, saves \in [Saves -> Save \cup {Idle}],
         \A s \in Saves : SaveIsMeant(saves[s], named),
         NEW first, SaveIsMeant(first, named), NEW second, SaveIsMeant(second, named),
         Begin(first) \/ BeginBoth(first, second)
  PROVE  \A s \in Saves : SaveIsMeant(saves'[s], named)
<1>1. CASE Begin(first)
  <2>1. PICK s \in Saves : saves' = [saves EXCEPT ![s] = first]
    BY <1>1 DEF Begin
  <2> QED BY <2>1
<1>2. CASE BeginBoth(first, second)
  <2>1. PICK s \in Saves, z \in Saves : saves' = [saves EXCEPT ![s] = first, ![z] = second]
    BY <1>2 DEF BeginBoth
  <2> QED BY <2>1
<1> QED BY <1>1, <1>2

\* A handler's last call leaves pages and saves so.
LEMMA FollowIsMeant ==
  ASSUME NEW named, saves \in [Saves -> Save \cup {Idle}], tab \in [Tabs -> Page],
         \A s \in Saves : SaveIsMeant(saves[s], named),
         \A u \in Tabs : PageIsMeant(tab[u], named),
         NEW t \in Tabs, NEW p \in Page, PageIsMeant(p, named), Follow(t, p)
  PROVE  /\ \A s \in Saves : SaveIsMeant(saves'[s], named)
         /\ \A u \in Tabs : PageIsMeant(tab'[u], named)
<1>1. CASE ~Switches(p) /\ tab' = [tab EXCEPT ![t] = p] /\ BeginNone
  BY <1>1 DEF BeginNone
<1>2. CASE /\ Switches(p)
           /\ tab' = [tab EXCEPT ![t] = Switched(p)]
           /\ Begin(SaveOf(t, Switched(p), Target(p), "reading"))
  <2>1. PageIsMeant(Switched(p), named) /\ IsMeant(Target(p), named)
    BY <1>2, SwitchedIsMeant
  <2>2. SaveIsMeant(SaveOf(t, Switched(p), Target(p), "reading"), named)
    BY <2>1, SaveOfIsMeant
  <2>3. \A s \in Saves : SaveIsMeant(saves'[s], named)
    BY <1>2, <2>2, BeginIsMeant
  <2> QED BY <1>2, <2>1, <2>3
<1> QED BY <1>1, <1>2 DEF Follow

\* What the server decides on asking is so.
LEMMA AskIsMeant ==
  ASSUME TypeOK, EverythingIsMeant, NEW t \in Tabs, Ask(t)
  PROVE  \A c \in Checks : CheckIsMeant(checks'[c], meant)
<1> DEFINE check == [stage |-> "asked", tab |-> t,
                     decides |-> [roll \in Rolls |-> Reported(roll, stored)]]
<1>1. PICK c \in Checks : checks' = [checks EXCEPT ![c] = check]
  BY DEF Ask
<1>2. \A roll \in Rolls : ReportIsMeant(Reported(roll, stored), meant)
  BY ReportedIsMeant DEF TypeOK, EverythingIsMeant
<1>3. CheckIsMeant(check, meant)
  BY <1>2 DEF CheckIsMeant
<1> HIDE DEF check
<1> QED BY <1>1, <1>3 DEF TypeOK, EverythingIsMeant

\* What is named on a page gets to its saves, and to nothing else.
LEMMA PageIsMeantStep ==
  ASSUME TypeOK, EverythingIsMeant, NEW t \in Tabs, OnPage(t)
  PROVE  EverythingIsMeant'
<1> DEFINE p == tab[t]
<1>0. /\ p \in Page /\ PageIsMeant(p, meant) /\ stored \in Settings
      /\ tab \in [Tabs -> Page] /\ saves \in [Saves -> Save \cup {Idle}]
      /\ StoredIsMeant(stored, meant)
      /\ \A u \in Tabs : PageIsMeant(tab[u], meant)
      /\ \A c \in Checks : CheckIsMeant(checks[c], meant)
      /\ \A s \in Saves : SaveIsMeant(saves[s], meant)
  BY DEF TypeOK, EverythingIsMeant
<1>1. CASE Reload(t)
  <2>1. PageIsMeant(Opened(stored), meant)
    BY <1>0, OpenedIsMeant DEF StoredIsMeant
  <2>2. \A u \in Tabs : PageIsMeant(tab'[u], meant)
    BY <1>0, <1>1, <2>1 DEF Reload
  <2>3. ASSUME NEW c \in Checks PROVE CheckIsMeant(checks'[c], meant)
    <3>1. checks[c] \in Check => CheckIsMeant([checks[c] EXCEPT !.tab = None], meant)
      BY <1>0 DEF CheckIsMeant, Check
    <3> QED BY <1>0, <1>1, <3>1 DEF Reload, TypeOK
  <2>4. ASSUME NEW s \in Saves PROVE SaveIsMeant(saves'[s], meant)
    <3>1. SaveIsMeant(Idle, meant)
      BY DEF SaveIsMeant
    <3>2. saves[s] \in Save => SaveIsMeant([saves[s] EXCEPT !.tab = None], meant)
      <4> SUFFICES ASSUME saves[s] \in Save, saves[s] # Idle
                   PROVE  SettingsAreMeant([saves[s] EXCEPT !.tab = None], meant)
        BY DEF SaveIsMeant, Save, Idle
      <4>1. SettingsAreMeant(saves[s], meant)
        BY <1>0 DEF SaveIsMeant
      <4> QED BY <4>1 DEF SettingsAreMeant, Save
    <3> QED BY <1>0, <1>1, <3>1, <3>2 DEF Reload
  <2> QED BY <1>0, <1>1, <2>2, <2>3, <2>4 DEF Reload, EverythingIsMeant
<1>2. CASE OpenList(t)
  <2>1. PageIsMeant([p EXCEPT !.open = TRUE], meant)
    BY <1>0 DEF PageIsMeant, Page
  <2>2. \A c \in Checks : CheckIsMeant(checks'[c], meant)
    BY <1>0, <1>2, AskIsMeant DEF OpenList
  <2> QED BY <1>0, <1>2, <2>1, <2>2 DEF OpenList, EverythingIsMeant
<1>3. CASE CloseList(t)
  <2> DEFINE q == [p EXCEPT !.open = FALSE]
  <2>1. q \in Page /\ PageIsMeant(q, meant)
    BY <1>0 DEF PageIsMeant, Page
  <2>2. Follow(t, q)
    BY <1>3 DEF CloseList
  <2> HIDE DEF q
  <2>3. /\ \A s \in Saves : SaveIsMeant(saves'[s], meant)
        /\ \A u \in Tabs : PageIsMeant(tab'[u], meant)
    BY <1>0, <2>1, <2>2, FollowIsMeant
  <2> QED BY <1>0, <1>3, <2>3 DEF CloseList, EverythingIsMeant
<1>4. CASE SetAuto(t)
  <2> DEFINE q == [p EXCEPT !.auto = ~@, !.held = NotHeld]
             save == SaveOf(t, q, None, "reading")
             other == SaveOf(t, Switched(q), Target(q), "reading")
  <2>1. q \in Page /\ PageIsMeant(q, meant)
    BY <1>0 DEF PageIsMeant, Page
  <2>2. SaveIsMeant(save, meant)
    BY <2>1, SaveOfIsMeant, PlainIsMeant
  <2>3. Switches(q) => PageIsMeant(Switched(q), meant) /\ SaveIsMeant(other, meant)
    BY <2>1, SwitchedIsMeant, SaveOfIsMeant
  <2>4. \/ tab' = [tab EXCEPT ![t] = q] /\ Begin(save)
        \/ Switches(q) /\ tab' = [tab EXCEPT ![t] = Switched(q)] /\ BeginBoth(save, other)
    BY <1>4 DEF SetAuto
  <2> HIDE DEF q, save, other
  <2>5. \A s \in Saves : SaveIsMeant(saves'[s], meant)
    BY <1>0, <2>2, <2>3, <2>4, BeginIsMeant
  <2>6. \A u \in Tabs : PageIsMeant(tab'[u], meant)
    BY <1>0, <2>1, <2>3, <2>4
  <2> QED BY <1>0, <1>4, <2>5, <2>6 DEF SetAuto, EverythingIsMeant
<1>5. CASE SaveForm(t)
  <2>1. SaveIsMeant(SaveOf(t, p, p.choice, "sent"), meant)
    BY <1>0, SaveOfIsMeant DEF PageIsMeant
  <2>2. \A s \in Saves : SaveIsMeant(saves'[s], meant)
    BY <1>0, <1>5, <2>1, BeginIsMeant DEF SaveForm
  <2> QED BY <1>0, <1>5, <2>2 DEF SaveForm, EverythingIsMeant
<1>6. CASE Poll(t)
  BY <1>0, <1>6, AskIsMeant DEF Poll, EverythingIsMeant
<1>7. ASSUME NEW l \in Labels, meant' = meant \cup {l}
      PROVE  /\ PageIsMeant(p, meant') /\ StoredIsMeant(stored, meant') /\ IsMeant(l, meant')
             /\ \A u \in Tabs : PageIsMeant(tab[u], meant')
             /\ \A c \in Checks : CheckIsMeant(checks[c], meant')
             /\ \A s \in Saves : SaveIsMeant(saves[s], meant')
  BY <1>0, <1>7, MeantGrows DEF IsMeant
<1>8. ASSUME NEW l \in Labels, Pick(t, l) PROVE EverythingIsMeant'
  <2> DEFINE q == Picked(p, l)
             save == SaveOf(t, q, l, "reading")
  <2>0. meant' = meant \cup {l} /\ stored' = stored /\ checks' = checks
    BY <1>8 DEF Pick
  <2>1. q \in Page /\ PageIsMeant(q, meant')
    BY <1>0, <1>7, <2>0, PickedIsPage, PickedIsMeant
  <2>2. SaveIsMeant(save, meant')
    BY <1>7, <2>0, <2>1, SaveOfIsMeant
  <2>3. (tab' = [tab EXCEPT ![t] = q] /\ Begin(save)) \/ Follow(t, q)
    BY <1>8 DEF Pick
  <2> HIDE DEF q, save
  <2>4. CASE tab' = [tab EXCEPT ![t] = q] /\ Begin(save)
    <3>1. \A s \in Saves : SaveIsMeant(saves'[s], meant')
      BY <1>0, <1>7, <2>0, <2>2, <2>4, BeginIsMeant
    <3> QED BY <1>0, <1>7, <2>0, <2>1, <2>4, <3>1 DEF EverythingIsMeant
  <2>5. CASE Follow(t, q)
    <3>1. /\ \A s \in Saves : SaveIsMeant(saves'[s], meant')
          /\ \A u \in Tabs : PageIsMeant(tab'[u], meant')
      BY <1>0, <1>7, <2>0, <2>1, <2>5, FollowIsMeant
    <3> QED BY <1>7, <2>0, <3>1 DEF EverythingIsMeant
  <2> QED BY <2>3, <2>4, <2>5
<1>10. ASSUME NEW l \in Labels, OpenJob(t, l) PROVE EverythingIsMeant'
  <2> DEFINE q == [p EXCEPT !.choice = l]
  <2>0. l \in meant' /\ stored' = stored /\ checks' = checks /\ saves' = saves
    BY <1>10 DEF OpenJob, request
  <2>1. PageIsMeant(q, meant')
    <3>1. PageIsMeant(p, meant')
      BY <1>7, <1>10 DEF OpenJob
    <3>2. /\ q.choice = l /\ q.owned = p.owned /\ q.memory = p.memory /\ q.report = p.report
      BY <1>0 DEF Page
    <3> HIDE DEF q
    <3> QED BY <2>0, <3>1, <3>2 DEF PageIsMeant, IsMeant
  <2>2. tab' = [tab EXCEPT ![t] = q]
    BY <1>10 DEF OpenJob
  <2> HIDE DEF q
  <2>3. \A u \in Tabs : PageIsMeant(tab'[u], meant')
    BY <1>0, <1>7, <1>10, <2>1, <2>2 DEF OpenJob
  <2> QED BY <1>7, <1>10, <2>0, <2>3 DEF OpenJob, EverythingIsMeant
<1>9. ASSUME NEW l \in Ownable, ToggleOwned(t, l) PROVE EverythingIsMeant'
  <2> DEFINE q == [p EXCEPT !.owned = IF l \in p.owned THEN p.owned \ {l}
                                     ELSE p.owned \cup {l}]
             save == SaveOf(t, q, None, "reading")
             first == SaveOf(t, Switched(q), Target(q), "reading")
             second == SaveOf(t, Switched(q), None, "reading")
  <2>0. l \in Labels /\ meant' = meant \cup {l} /\ stored' = stored /\ checks' = checks
    BY <1>9, RollAssumption DEF ToggleOwned, RollAssumption
  <2>1. q \in Page /\ PageIsMeant(q, meant')
    <3>1. q \in Page
      BY <1>0, <2>0 DEF Page
    <3>2. PageIsMeant(p, meant')
      BY <1>7, <2>0
    <3>3. q.owned \subseteq p.owned \cup {l}
      BY <1>0 DEF Page
    <3>4. /\ q.choice = p.choice /\ q.memory = p.memory /\ q.report = p.report
      BY <1>0 DEF Page
    <3> HIDE DEF q
    <3> QED BY <2>0, <3>1, <3>2, <3>3, <3>4 DEF PageIsMeant
  <2>2. SaveIsMeant(save, meant')
    BY <2>1, SaveOfIsMeant, PlainIsMeant
  <2>3. Switches(q) => /\ PageIsMeant(Switched(q), meant')
                       /\ SaveIsMeant(first, meant') /\ SaveIsMeant(second, meant')
    BY <2>1, SwitchedIsMeant, SaveOfIsMeant, PlainIsMeant
  <2>4. \/ tab' = [tab EXCEPT ![t] = q] /\ Begin(save)
        \/ Switches(q) /\ tab' = [tab EXCEPT ![t] = Switched(q)] /\ BeginBoth(first, second)
    BY <1>9 DEF ToggleOwned
  <2> HIDE DEF q, save, first, second
  <2>5. \A s \in Saves : SaveIsMeant(saves'[s], meant')
    BY <1>0, <1>7, <2>0, <2>2, <2>3, <2>4, BeginIsMeant
  <2>6. \A u \in Tabs : PageIsMeant(tab'[u], meant')
    BY <1>0, <1>7, <2>0, <2>1, <2>3, <2>4
  <2> QED BY <1>7, <2>0, <2>5, <2>6 DEF EverythingIsMeant
<1> QED BY <1>1, <1>2, <1>3, <1>4, <1>5, <1>6, <1>8, <1>9, <1>10 DEF OnPage

\* A page that takes such a report stays so.
LEMMA TakeIsMeant ==
  ASSUME TypeOK, EverythingIsMeant, NEW c \in Checks, checks[c] # Idle,
         NEW report \in Report, ReportIsMeant(report, meant), Take(c, report)
  PROVE  EverythingIsMeant'
<1> DEFINE t == checks[c].tab
           p == [tab[t] EXCEPT !.report = report]
<1>1. t \in Tabs
  BY DEF TypeOK, Take, Check
<1>2. p \in Page /\ PageIsMeant(p, meant)
  BY <1>1 DEF TypeOK, EverythingIsMeant, PageIsMeant, Page
<1>3. Follow(t, p)
  BY DEF Take
<1> HIDE DEF t, p
<1>4. /\ \A s \in Saves : SaveIsMeant(saves'[s], meant)
      /\ \A u \in Tabs : PageIsMeant(tab'[u], meant)
  BY <1>1, <1>2, <1>3, FollowIsMeant DEF TypeOK, EverythingIsMeant
<1>5. \A d \in Checks : CheckIsMeant(checks'[d], meant)
  <2>1. CheckIsMeant(Idle, meant)
    BY DEF CheckIsMeant, Idle
  <2> QED BY <2>1 DEF Take, TypeOK, EverythingIsMeant
<1> QED BY <1>4, <1>5 DEF Take, EverythingIsMeant

\* Every step of a check keeps that.
LEMMA CheckIsMeantStep ==
  ASSUME TypeOK, EverythingIsMeant, NEW c \in Checks, OfCheck(c)
  PROVE  EverythingIsMeant'
<1>0. /\ checks[c].stage # "idle" => checks[c] \in Check /\ checks[c] # Idle
      /\ CheckIsMeant(checks[c], meant) /\ CheckIsMeant(Idle, meant)
  BY DEF TypeOK, Idle, EverythingIsMeant, CheckIsMeant
<1>1. CASE Probe(c)
  <2>1. ReportIsMeant(checks[c].decides[printer], meant)
    BY <1>0, <1>1 DEF Probe, CheckIsMeant, TypeOK
  <2>2. ASSUME NEW r, ReportIsMeant(r, meant)
        PROVE  CheckIsMeant([stage |-> "answered", tab |-> checks[c].tab, report |-> r], meant)
    BY <2>2 DEF CheckIsMeant
  <2>3. \A d \in Checks : CheckIsMeant(checks'[d], meant)
    BY <1>1, <2>1, <2>2, NothingIsMeant DEF Probe, TypeOK, EverythingIsMeant
  <2> QED BY <1>1, <2>3 DEF Probe, EverythingIsMeant
<1>2. CASE Apply(c)
  <2>1. checks[c].report \in Report /\ ReportIsMeant(checks[c].report, meant)
    BY <1>0, <1>2 DEF Apply, Check, CheckIsMeant
  <2> QED BY <1>0, <1>2, <2>1, TakeIsMeant DEF Apply
<1>3. CASE CheckFails(c)
  BY <1>0, <1>3, NothingIsReport, NothingIsMeant, TakeIsMeant DEF CheckFails
<1>4. CASE NobodyListens(c)
  BY <1>0, <1>4 DEF NobodyListens, EverythingIsMeant, TypeOK
<1> QED BY <1>1, <1>2, <1>3, <1>4 DEF OfCheck

\* A save stores what it was given, or what its page shows.
LEMMA SaveIsMeantStep ==
  ASSUME TypeOK, SavesAgree, EverythingIsMeant, NEW s \in Saves, OfSave(s)
  PROVE  EverythingIsMeant'
<1>0. /\ saves[s].stage # "idle" => saves[s] \in Save /\ saves[s] # Idle
      /\ SaveIsMeant(saves[s], meant) /\ SaveIsMeant(Idle, meant)
  BY DEF TypeOK, Idle, EverythingIsMeant, SaveIsMeant
<1>1. CASE Send(s)
  <2> DEFINE l == IF saves[s].label = None THEN tab[saves[s].tab].choice ELSE saves[s].label
             sent == [saves[s] EXCEPT !.stage = "sent", !.label = l]
  <2>1. saves[s] \in Save /\ saves[s].tab \in Tabs /\ SettingsAreMeant(saves[s], meant)
    BY <1>0, <1>1 DEF Send, SavesAgree, SavesComplete, Save, SaveIsMeant
  <2>2. IsMeant(l, meant)
    BY <2>1 DEF EverythingIsMeant, PageIsMeant, SettingsAreMeant
  <2> HIDE DEF l
  <2>3. /\ sent.label = l /\ sent.owned = saves[s].owned /\ sent.memory = saves[s].memory
    BY <2>1 DEF Save
  <2>4. saves' = [saves EXCEPT ![s] = sent]
    BY <1>1 DEF Send, l
  <2> HIDE DEF sent
  <2>5. SaveIsMeant(sent, meant)
    BY <2>1, <2>2, <2>3 DEF SaveIsMeant, SettingsAreMeant
  <2> QED BY <1>1, <2>4, <2>5 DEF Send, EverythingIsMeant, TypeOK
<1>2. ASSUME Finish(s)
      PROVE  \A z \in Saves : SaveIsMeant(saves'[z], meant)
  BY <1>0, <1>2 DEF Finish, EverythingIsMeant, TypeOK
<1>3. CASE Land(s)
  <2> DEFINE body == saves[s]
  <2>1. body \in Save /\ SettingsAreMeant(body, meant)
    BY <1>0, <1>3 DEF Land, SaveIsMeant
  <2>2. PICK roll \in Rolls :
          stored' = [stored EXCEPT !.label = body.label, !.auto = body.auto,
               !.owned = body.owned,
               !.memory = IF body.auto /\ body.label # stored.label
                          THEN Recorded(body.memory, roll, body.label) ELSE body.memory]
    BY <1>3 DEF Land, TypeOK, Rolls
  <2>3. ASSUME NEW m \in Media PROVE IsMeant(Recorded(body.memory, roll, body.label)[m], meant)
    <3>1. body.memory \in [Media -> Choice]
      BY <2>1 DEF Save, PerMedium
    <3>2. IsMeant(body.memory[m], meant) /\ IsMeant(body.label, meant)
      BY <2>1 DEF SettingsAreMeant
    <3> QED BY <3>1, <3>2 DEF Recorded
  <2>4. /\ stored'.label = body.label /\ stored'.owned = body.owned
        /\ stored'.preferred = stored.preferred
        /\ stored'.memory \in {body.memory, Recorded(body.memory, roll, body.label)}
    BY <2>2 DEF TypeOK, Settings
  <2> HIDE DEF body
  <2>5. SettingsAreMeant(stored', meant)
    BY <2>1, <2>3, <2>4 DEF SettingsAreMeant
  <2>6. StoredIsMeant(stored', meant)
    BY <2>4, <2>5 DEF StoredIsMeant, EverythingIsMeant
  <2>7. \A z \in Saves : SaveIsMeant(saves'[z], meant)
    BY <1>2, <1>3 DEF Land
  <2> QED BY <1>3, <2>6, <2>7 DEF Land, EverythingIsMeant
<1>4. CASE SaveFails(s)
  BY <1>2, <1>4 DEF SaveFails, EverythingIsMeant
<1> QED BY <1>1, <1>3, <1>4 DEF OfSave

\* Every step does.
LEMMA StepIsMeant ==
  TypeOK /\ SavesAgree /\ EverythingIsMeant /\ [Next]_vars => EverythingIsMeant'
<1> SUFFICES ASSUME TypeOK, SavesAgree, EverythingIsMeant, [Next]_vars
             PROVE  EverythingIsMeant'
  OBVIOUS
<1>1. CASE (\E roll \in Rolls : Swap(roll)) \/ UNCHANGED vars
  BY <1>1 DEF Swap, vars, EverythingIsMeant
<1>2. ASSUME NEW m \in Media, NEW l \in Labels, Declare(m, l) PROVE EverythingIsMeant'
  <2>1. /\ meant' = meant \cup {l} /\ tab' = tab /\ checks' = checks /\ saves' = saves
        /\ stored' = [stored EXCEPT !.preferred[m] = l]
    BY <1>2 DEF Declare, request
  <2>2. IsMeant(l, meant')
    BY <2>1 DEF IsMeant
  <2>3. StoredIsMeant(stored, meant')
    BY <2>1, MeantGrows DEF EverythingIsMeant
  <2>4. /\ stored'.label = stored.label /\ stored'.owned = stored.owned
        /\ stored'.memory = stored.memory
        /\ stored'.preferred = [stored.preferred EXCEPT ![m] = l]
    BY <2>1 DEF TypeOK, Settings
  <2>5. stored.preferred \in [Media -> Choice]
    BY DEF TypeOK, Settings, PerMedium
  <2>6. StoredIsMeant(stored', meant')
    BY <2>2, <2>3, <2>4, <2>5 DEF StoredIsMeant, SettingsAreMeant
  <2> QED BY <2>1, <2>6, MeantGrows DEF EverythingIsMeant
<1>3. CASE \E t \in Tabs : OnPage(t)
  BY <1>3, PageIsMeantStep
<1>4. CASE \E c \in Checks : OfCheck(c)
  BY <1>4, CheckIsMeantStep
<1>5. CASE \E s \in Saves : OfSave(s)
  BY <1>5, SaveIsMeantStep
<1> QED BY <1>1, <1>2, <1>3, <1>4, <1>5 DEF Next

\* Nothing but named and plain labels is there at first.
LEMMA InitIsMeant == Init => EverythingIsMeant
<1> SUFFICES ASSUME Init PROVE EverythingIsMeant
  OBVIOUS
<1>1. TypeOK
  BY InitTypes
<1>2. IsMeant(None, meant)
  BY PlainIsMeant
<1>3. StoredIsMeant(stored, meant)
  <2>1. stored.label \in meant /\ stored.owned = {}
    BY DEF Init
  <2>2. \A m \in Media : stored.memory[m] = None /\ stored.preferred[m] = None
    BY DEF Init
  <2> QED BY <1>2, <2>1, <2>2 DEF StoredIsMeant, SettingsAreMeant, IsMeant
<1>4. PageIsMeant(Opened(stored), meant)
  BY <1>1, <1>3, OpenedIsMeant DEF TypeOK, StoredIsMeant
<1>5. SaveIsMeant(Idle, meant) /\ CheckIsMeant(Idle, meant)
  BY DEF SaveIsMeant, CheckIsMeant, Idle
<1> QED BY <1>3, <1>4, <1>5 DEF Init, EverythingIsMeant
-----------------------------------------------------------------------------
(***************************************************************************)
(* Saves.                                                                  *)
(***************************************************************************)

Landed == SavesAgree /\ ShownIsStored

\* What a page shows and saves, unlike what it remembers or knows of the printer.
ShowsAsBefore(q, p) == q.choice = p.choice /\ q.auto = p.auto /\ q.owned = p.owned

\* Nothing is begun, and the pages and the server show what they showed.
LEMMA NothingBegun ==
  ASSUME Landed, BeginNone, stored' = stored, tab \in [Tabs -> Page], savedBy \in Tabs \cup {None},
         saves \in [Saves -> Save \cup {Idle}], last \in Saves \cup {None},
         \A t \in Tabs : ShowsAsBefore(tab'[t], tab[t])
  PROVE  Landed'
<1>1. saves' = saves /\ last' = last /\ savedBy' = savedBy /\ fromJob' = fromJob
  BY DEF BeginNone, landing
<1>2. LastAgrees'
  <2>1. ASSUME last # None, saves[last].tab # None
        PROVE  Agrees(saves[last], tab'[saves[last].tab], saves[last].tab \in fromJob)
    <3>1. saves[last].tab \in Tabs
      BY <2>1 DEF Save, Landed, SavesAgree, LastAgrees
    <3> QED BY <2>1, <3>1 DEF Landed, SavesAgree, LastAgrees, Agrees, ShowsAsBefore
  <2> QED BY <1>1, <2>1 DEF Landed, SavesAgree, LastAgrees
<1>3. SavesComplete'
  BY <1>1 DEF Landed, SavesAgree, SavesComplete
<1>4. ShownIsStored'
  BY <1>1 DEF Landed, ShownIsStored, ShowsAsBefore
<1> QED BY <1>2, <1>3, <1>4 DEF Landed, SavesAgree

\* What a save needs when it is begun.
Sound(save, t, p) ==
  /\ save # Idle /\ save.tab = t /\ Agrees(save, p, FALSE)
  /\ save.stage = "sent" => save.label # None

\* A save begun with what its page shows keeps what is shown stored.
LEMMA OneBegun ==
  ASSUME Landed, TypeOK, NEW t \in Tabs, NEW q, NEW save, Sound(save, t, q),
         tab' = [tab EXCEPT ![t] = q], Begin(save)
  PROVE  Landed'
<1>1. PICK s \in Saves : saves' = [saves EXCEPT ![s] = save] /\ last' = s
  BY DEF Begin
<1>2. savedBy' = None
  BY DEF Begin
<1>3. tab'[t] = q /\ t # None
  BY RollAssumption DEF TypeOK, RollAssumption
<1>4. saves'[s] = save /\ save.tab = t
  BY <1>1 DEF TypeOK, Sound
<1>5. Agrees(save, q, t \in fromJob')
  BY DEF Sound, Agrees
<1>6. LastAgrees'
  BY <1>1, <1>2, <1>3, <1>4, <1>5 DEF LastAgrees, Sound
<1>7. SavesComplete'
  BY <1>1, <1>3, <1>4 DEF Sound, Landed, SavesAgree, SavesComplete, TypeOK
<1> QED BY <1>2, <1>6, <1>7 DEF Landed, SavesAgree, ShownIsStored

\* So do two, the second of which counts.
LEMMA TwoBegun ==
  ASSUME Landed, TypeOK, NEW t \in Tabs, NEW first, NEW second, NEW p, NEW q,
         Sound(first, t, p), Sound(second, t, q),
         tab' = [tab EXCEPT ![t] = q], BeginBoth(first, second)
  PROVE  Landed'
<1>1. PICK s \in Saves, z \in Saves :
        s # z /\ saves' = [saves EXCEPT ![s] = first, ![z] = second] /\ last' = z
  BY DEF BeginBoth
<1>2. savedBy' = None
  BY DEF BeginBoth
<1>3. tab'[t] = q /\ t # None
  BY RollAssumption DEF TypeOK, RollAssumption
<1>4. /\ saves'[z] = second /\ saves'[s] = first
      /\ \A y \in Saves \ {s, z} : saves'[y] = saves[y]
  BY <1>1 DEF TypeOK
<1>5. Agrees(second, q, t \in fromJob')
  BY DEF Sound, Agrees
<1>6. LastAgrees'
  BY <1>1, <1>2, <1>3, <1>4, <1>5 DEF LastAgrees, Sound
<1>7. SavesComplete'
  BY <1>3, <1>4 DEF Sound, Landed, SavesAgree, SavesComplete
<1> QED BY <1>2, <1>6, <1>7 DEF Landed, SavesAgree, ShownIsStored

\* A save made of a page says what the page shows.
LEMMA SaveOfIsSound ==
  ASSUME NEW t, NEW p, NEW l, NEW stage \in {"reading", "sent"},
         l = None \/ l = p.choice, stage = "sent" => l # None
  PROVE  Sound(SaveOf(t, p, l, stage), t, p)
<1> DEFINE s == SaveOf(t, p, l, stage)
<1>1. /\ s.tab = t /\ s.label = l /\ s.auto = p.auto /\ s.owned = p.owned /\ s.stage = stage
  BY DEF SaveOf
<1>2. s # Idle
  BY <1>1 DEF Idle
<1> HIDE DEF s
<1>3. Sound(s, t, p)
  BY <1>1, <1>2 DEF Sound, Agrees
<1> QED BY <1>3 DEF s

\* What a page shows once it has switched.
LEMMA SwitchedShows ==
  ASSUME NEW p \in Page
  PROVE  Switched(p).choice = Target(p) /\ Switched(p).auto = p.auto /\ Switched(p).owned = p.owned
BY DEF Switched, Changed, Page

\* A handler's last call keeps what is shown stored.
LEMMA FollowLands ==
  ASSUME Landed, TypeOK, NEW t \in Tabs, NEW p \in Page, ShowsAsBefore(p, tab[t]),
         Follow(t, p), stored' = stored
  PROVE  Landed'
<1>1. CASE ~Switches(p) /\ tab' = [tab EXCEPT ![t] = p] /\ BeginNone
  <2>1. \A u \in Tabs : ShowsAsBefore(tab'[u], tab[u])
    BY <1>1 DEF TypeOK, ShowsAsBefore
  <2> QED BY <1>1, <2>1, NothingBegun DEF TypeOK
<1>2. CASE /\ tab' = [tab EXCEPT ![t] = Switched(p)]
           /\ Begin(SaveOf(t, Switched(p), Target(p), "reading"))
  <2>1. Sound(SaveOf(t, Switched(p), Target(p), "reading"), t, Switched(p))
    BY SwitchedShows, SaveOfIsSound
  <2> QED BY <1>2, <2>1, OneBegun
<1> QED BY <1>1, <1>2 DEF Follow

\* So does every step of a page's user.
LEMMA LandedOnPage ==
  ASSUME Landed, TypeOK, NEW t \in Tabs, OnPage(t)
  PROVE  Landed'
<1> DEFINE p == tab[t]
<1>0. /\ p \in Page /\ tab \in [Tabs -> Page] /\ saves \in [Saves -> Save \cup {Idle}]
      /\ savedBy \in Tabs \cup {None} /\ last \in Saves \cup {None}
  BY DEF TypeOK
<1>1. ASSUME BeginNone, stored' = stored, tab' = tab PROVE Landed'
  BY <1>0, <1>1, NothingBegun DEF ShowsAsBefore
<1>2. CASE Reload(t)
  <2>1. /\ tab' = [tab EXCEPT ![t] = Opened(stored)] /\ stored' = stored
        /\ savedBy' = savedBy /\ fromJob' = fromJob \ {t}
        /\ last' \in {last, None}
        /\ last # None /\ saves[last].tab = t /\ saves[last].stage = "reading" => last' = None
    BY <1>2 DEF Reload
  <2>2. ASSUME NEW s \in Saves
        PROVE  \/ /\ saves'[s] = Idle
                  /\ saves[s] = Idle \/ (saves[s].tab = t /\ saves[s].stage = "reading")
               \/ saves'[s] = saves[s] /\ saves[s].tab # t
               \/ /\ saves'[s].tab = None /\ saves'[s].stage = saves[s].stage
                  /\ saves'[s].label = saves[s].label /\ saves[s] # Idle
                  /\ saves'[s].stage = "sent"
    <3>1. saves'[s] = IF saves[s] = Idle \/ saves[s].tab # t THEN saves[s]
                      ELSE IF saves[s].stage = "reading" THEN Idle
                      ELSE [saves[s] EXCEPT !.tab = None]
      BY <1>2 DEF Reload
    <3>2. CASE saves[s] = Idle \/ saves[s].tab # t
      BY <3>1, <3>2
    <3>3. CASE saves[s] # Idle /\ saves[s].tab = t /\ saves[s].stage = "reading"
      BY <3>1, <3>3
    <3>4. CASE saves[s] # Idle /\ saves[s].tab = t /\ saves[s].stage # "reading"
      <4>1. saves[s] \in Save /\ saves[s].stage = "sent"
        BY <1>0, <3>4 DEF Save
      <4>2. saves'[s] = [saves[s] EXCEPT !.tab = None]
        BY <3>1, <3>4
      <4> QED BY <3>4, <4>1, <4>2 DEF Save
    <3> QED BY <3>2, <3>3, <3>4
  <2>3. LastAgrees'
    <3> SUFFICES ASSUME last' # None
                 PROVE  /\ saves'[last] # Idle /\ savedBy' = None
                        /\ saves'[last].tab # None =>
                             Agrees(saves'[last], tab'[saves'[last].tab],
                                    saves'[last].tab \in fromJob')
      BY <2>1 DEF LastAgrees
    <3>1. /\ last \in Saves /\ last # None /\ saves[last] # Idle /\ savedBy = None
          /\ ~(saves[last].tab = t /\ saves[last].stage = "reading")
      BY <1>0, <2>1 DEF Landed, SavesAgree, LastAgrees
    <3>2. CASE saves'[last] = saves[last] /\ saves[last].tab # t
      <4>1. saves[last].tab # None => /\ tab'[saves[last].tab] = tab[saves[last].tab]
                                      /\ saves[last].tab \in fromJob' <=> saves[last].tab \in fromJob
        BY <1>0, <2>1, <3>1, <3>2 DEF Save
      <4> QED BY <2>1, <3>1, <3>2, <4>1 DEF Landed, SavesAgree, LastAgrees
    <3>3. CASE saves'[last].tab = None /\ saves'[last].stage = "sent"
      BY <2>1, <3>1, <3>3 DEF Idle
    <3> QED BY <2>2, <3>1, <3>2, <3>3
  <2>4. SavesComplete'
    BY <2>2 DEF Landed, SavesAgree, SavesComplete
  <2>5. ASSUME savedBy # None
        PROVE  /\ savedBy \notin fromJob' => stored.label = tab'[savedBy].choice
               /\ stored.auto = tab'[savedBy].auto /\ stored.owned = tab'[savedBy].owned
    <3>1. CASE savedBy = t
      BY <1>0, <2>1, <3>1 DEF Opened
    <3>2. CASE savedBy # t
      BY <1>0, <2>1, <2>5, <3>2 DEF Landed, ShownIsStored
    <3> QED BY <3>1, <3>2
  <2> QED BY <2>1, <2>3, <2>4, <2>5 DEF Landed, SavesAgree, ShownIsStored
<1>3. CASE OpenList(t)
  <2>1. \A u \in Tabs : ShowsAsBefore(tab'[u], tab[u])
    BY <1>0, <1>3 DEF OpenList, ShowsAsBefore, Page
  <2> QED BY <1>0, <1>3, <2>1, NothingBegun DEF OpenList, BeginNone
<1>4. CASE CloseList(t)
  <2> DEFINE q == [p EXCEPT !.open = FALSE]
  <2>1. q \in Page /\ ShowsAsBefore(q, tab[t])
    BY <1>0 DEF Page, ShowsAsBefore
  <2>2. Follow(t, q) /\ stored' = stored
    BY <1>4 DEF CloseList
  <2> HIDE DEF q
  <2> QED BY <2>1, <2>2, FollowLands
<1>5. CASE SetAuto(t)
  <2> DEFINE q == [p EXCEPT !.auto = ~@, !.held = NotHeld]
             save == SaveOf(t, q, None, "reading")
             other == SaveOf(t, Switched(q), Target(q), "reading")
  <2>1. q \in Page
    BY <1>0 DEF Page
  <2>2. Sound(save, t, q)
    BY SaveOfIsSound
  <2>3. Sound(other, t, Switched(q))
    BY <2>1, SwitchedShows, SaveOfIsSound
  <2>4. \/ tab' = [tab EXCEPT ![t] = q] /\ Begin(save)
        \/ tab' = [tab EXCEPT ![t] = Switched(q)] /\ BeginBoth(save, other)
    BY <1>5 DEF SetAuto
  <2> HIDE DEF q, save, other
  <2> QED BY <2>2, <2>3, <2>4, OneBegun, TwoBegun
<1>6. CASE SaveForm(t)
  <2>1. p.choice # None
    BY <1>0, RollAssumption DEF Page, RollAssumption
  <2>2. Sound(SaveOf(t, p, p.choice, "sent"), t, p)
    BY <2>1, SaveOfIsSound
  <2>3. tab' = [tab EXCEPT ![t] = p] /\ Begin(SaveOf(t, p, p.choice, "sent"))
    BY <1>0, <1>6 DEF SaveForm
  <2> HIDE DEF p
  <2> QED BY <2>2, <2>3, OneBegun
<1>7. CASE Poll(t)
  BY <1>1, <1>7 DEF Poll, BeginNone
<1>10. ASSUME NEW l \in Labels, OpenJob(t, l) PROVE Landed'
  <2>1. /\ tab' = [tab EXCEPT ![t].choice = l] /\ fromJob' = fromJob \cup {t}
        /\ stored' = stored /\ saves' = saves /\ last' = last /\ savedBy' = savedBy
    BY <1>10 DEF OpenJob, request
  <2>2. /\ tab'[t].auto = p.auto /\ tab'[t].owned = p.owned
        /\ \A u \in Tabs \ {t} : tab'[u] = tab[u]
    BY <1>0, <2>1 DEF Page
  <2>3. LastAgrees'
    <3> SUFFICES ASSUME last # None, saves[last].tab # None
                 PROVE  Agrees(saves[last], tab'[saves[last].tab], saves[last].tab \in fromJob')
      BY <2>1 DEF LastAgrees, Landed, SavesAgree
    <3>1. /\ saves[last].tab \in Tabs
          /\ Agrees(saves[last], tab[saves[last].tab], saves[last].tab \in fromJob)
      BY <1>0 DEF Save, LastAgrees, Landed, SavesAgree
    <3> QED BY <2>1, <2>2, <3>1 DEF Agrees
  <2>4. SavesComplete'
    BY <2>1 DEF Landed, SavesAgree, SavesComplete
  <2>5. ShownIsStored'
    BY <1>0, <2>1, <2>2 DEF Landed, ShownIsStored
  <2> QED BY <2>3, <2>4, <2>5 DEF Landed, SavesAgree
<1>8. ASSUME NEW l \in Labels, Pick(t, l) PROVE Landed'
  <2> DEFINE q == Picked(p, l)
  <2>1. q \in Page
    BY <1>0, PickedIsPage
  <2>2. CASE l # p.choice /\ tab' = [tab EXCEPT ![t] = q] /\ Begin(SaveOf(t, q, l, "reading"))
    <3>1. q.choice = l
      BY <1>0, <2>2 DEF Picked, Changed, Page
    <3> HIDE DEF q
    <3>2. Sound(SaveOf(t, q, l, "reading"), t, q)
      BY <3>1, SaveOfIsSound
    <3> QED BY <2>2, <3>2, OneBegun
  <2>3. CASE l = p.choice /\ Follow(t, q)
    <3>1. ShowsAsBefore(q, tab[t])
      BY <1>0, <2>3 DEF Picked, Page, ShowsAsBefore
    <3>2. stored' = stored
      BY <1>8 DEF Pick
    <3> HIDE DEF q
    <3> QED BY <2>1, <2>3, <3>1, <3>2, FollowLands
  <2> QED BY <1>8, <2>2, <2>3 DEF Pick
<1>9. ASSUME NEW l \in Ownable, ToggleOwned(t, l) PROVE Landed'
  <2> DEFINE q == [p EXCEPT !.owned = IF l \in p.owned THEN p.owned \ {l}
                                     ELSE p.owned \cup {l}]
             save == SaveOf(t, q, None, "reading")
             first == SaveOf(t, Switched(q), Target(q), "reading")
             second == SaveOf(t, Switched(q), None, "reading")
  <2>0. l \in Labels
    BY RollAssumption DEF RollAssumption
  <2>1. q \in Page
    BY <1>0, <2>0 DEF Page
  <2>2. Sound(save, t, q) /\ Sound(second, t, Switched(q))
    BY SaveOfIsSound
  <2>3. Sound(first, t, Switched(q))
    BY <2>1, SwitchedShows, SaveOfIsSound
  <2>4. \/ tab' = [tab EXCEPT ![t] = q] /\ Begin(save)
        \/ tab' = [tab EXCEPT ![t] = Switched(q)] /\ BeginBoth(first, second)
    BY <1>9 DEF ToggleOwned
  <2> HIDE DEF q, save, first, second
  <2> QED BY <2>2, <2>3, <2>4, OneBegun, TwoBegun
<1> QED BY <1>2, <1>3, <1>4, <1>5, <1>6, <1>7, <1>8, <1>9, <1>10 DEF OnPage

\* So does taking an answer.
LEMMA LandedOnTake ==
  ASSUME Landed, TypeOK, NEW c \in Checks, checks[c] # Idle, NEW report \in Report, Take(c, report)
  PROVE  Landed'
<1> DEFINE t == checks[c].tab
           p == [tab[t] EXCEPT !.report = report]
<1>1. t \in Tabs
  BY DEF TypeOK, Take, Check
<1>2. p \in Page /\ ShowsAsBefore(p, tab[t])
  BY <1>1 DEF TypeOK, Page, ShowsAsBefore
<1>3. Follow(t, p) /\ stored' = stored
  BY DEF Take
<1> HIDE DEF t, p
<1> QED BY <1>1, <1>2, <1>3, FollowLands

\* So does every step of a save.
LEMMA LandedOnSave ==
  ASSUME Landed, TypeOK, NEW s \in Saves, OfSave(s)
  PROVE  Landed'
<1>0. /\ saves[s].stage # "idle" => saves[s] \in Save /\ saves[s] # Idle
      /\ saves \in [Saves -> Save \cup {Idle}]
  BY DEF TypeOK, Idle
<1>1. CASE Send(s)
  <2> DEFINE l == IF saves[s].label = None THEN tab[saves[s].tab].choice ELSE saves[s].label
             sent == [saves[s] EXCEPT !.stage = "sent", !.label = l]
  <2>1. saves[s] \in Save /\ saves[s] # Idle /\ saves[s].tab \in Tabs
    BY <1>0, <1>1 DEF Send, Landed, SavesAgree, SavesComplete, Save
  <2>2. saves' = [saves EXCEPT ![s] = sent]
    BY <1>1 DEF Send
  <2>3. l # None /\ tab[saves[s].tab] \in Page
    BY <2>1, RollAssumption DEF TypeOK, Page, RollAssumption
  <2>4. /\ sent.label = l /\ sent.tab = saves[s].tab /\ sent.stage = "sent"
        /\ sent.auto = saves[s].auto /\ sent.owned = saves[s].owned
    BY <2>1 DEF Save
  <2>5. /\ tab' = tab /\ stored' = stored /\ last' = last /\ savedBy' = savedBy
        /\ fromJob' = IF s = last /\ saves[s].label = None THEN fromJob \ {saves[s].tab}
                      ELSE fromJob
    BY <1>1 DEF Send
  <2>6. Agrees(saves[s], tab[saves[s].tab], saves[s].tab \in fromJob) =>
          Agrees(sent, tab[sent.tab], saves[s].label # None /\ saves[s].tab \in fromJob)
    BY <2>4 DEF Agrees
  <2> HIDE DEF sent, l
  <2>7. sent # Idle
    BY <2>4 DEF Idle
  <2>8. LastAgrees'
    <3>1. CASE s = last
      <4>1. /\ savedBy = None
            /\ Agrees(saves[s], tab[saves[s].tab], saves[s].tab \in fromJob)
        BY <1>0, <2>1, <3>1, RollAssumption
        DEF Landed, SavesAgree, LastAgrees, RollAssumption
      <4>2. Agrees(sent, tab[sent.tab], saves[s].label # None /\ saves[s].tab \in fromJob)
        BY <2>6, <4>1
      <4>3. Agrees(sent, tab'[sent.tab], sent.tab \in fromJob')
        BY <2>4, <2>5, <3>1, <4>2 DEF Agrees
      <4> QED BY <1>0, <2>2, <2>5, <2>7, <3>1, <4>1, <4>3 DEF LastAgrees
    <3>2. CASE s # last
      <4>1. last # None => saves'[last] = saves[last]
        BY <1>0, <2>2, <3>2 DEF TypeOK
      <4> QED BY <2>5, <3>2, <4>1 DEF Landed, SavesAgree, LastAgrees
    <3> QED BY <3>1, <3>2
  <2>9. SavesComplete'
    BY <1>0, <2>2, <2>3, <2>4 DEF Landed, SavesAgree, SavesComplete, l
  <2>10. ShownIsStored'
    <3>1. savedBy # None => s # last
      BY <2>1, RollAssumption DEF Landed, SavesAgree, LastAgrees, RollAssumption
    <3> QED BY <2>5, <3>1 DEF Landed, ShownIsStored
  <2> QED BY <2>8, <2>9, <2>10 DEF Landed, SavesAgree
<1>2. ASSUME Finish(s), tab' = tab, savedBy' \in {savedBy, None} \/ s = last
      PROVE  SavesAgree'
  <2>1. /\ saves' = [saves EXCEPT ![s] = Idle] /\ fromJob' = fromJob
        /\ last' = IF s = last THEN None ELSE last
    BY <1>2 DEF Finish
  <2>2. LastAgrees'
    <3>1. last' # None => s # last /\ saves'[last] = saves[last]
      BY <1>0, <2>1 DEF TypeOK
    <3> QED BY <1>2, <2>1, <3>1 DEF Landed, SavesAgree, LastAgrees
  <2>3. SavesComplete'
    BY <1>0, <2>1 DEF Landed, SavesAgree, SavesComplete
  <2> QED BY <2>2, <2>3 DEF SavesAgree
<1>3. CASE Land(s)
  <2> DEFINE body == saves[s]
  <2>1. /\ body \in Save /\ body # Idle /\ body.label # None
        /\ Finish(s) /\ tab' = tab /\ savedBy' = IF s = last THEN body.tab ELSE None
    BY <1>0, <1>3 DEF Land, Landed, SavesAgree, SavesComplete
  <2>2. /\ stored'.label = body.label /\ stored'.auto = body.auto
        /\ stored'.owned = body.owned
    BY <1>3 DEF Land, TypeOK, Settings
  <2>3. SavesAgree'
    BY <1>2, <2>1
  <2>4. savedBy' # None => /\ savedBy' = body.tab
                           /\ Agrees(body, tab[body.tab], body.tab \in fromJob)
    BY <2>1, RollAssumption DEF Landed, SavesAgree, LastAgrees, RollAssumption
  <2>5. fromJob' = fromJob
    BY <2>1 DEF Finish
  <2> HIDE DEF body
  <2>6. ShownIsStored'
    BY <2>1, <2>2, <2>4, <2>5 DEF ShownIsStored, Agrees
  <2> QED BY <2>3, <2>6 DEF Landed
<1>4. CASE SaveFails(s)
  <2>1. Finish(s) /\ UNCHANGED <<tab, stored, savedBy>>
    BY <1>4 DEF SaveFails
  <2>2. SavesAgree'
    BY <1>2, <2>1
  <2>3. ShownIsStored'
    BY <2>1 DEF Finish, Landed, ShownIsStored
  <2> QED BY <2>2, <2>3 DEF Landed
<1> QED BY <1>1, <1>3, <1>4 DEF OfSave

\* So does every step.
LEMMA StepLanded == TypeOK /\ Landed /\ [Next]_vars => Landed'
<1> SUFFICES ASSUME TypeOK, Landed, [Next]_vars PROVE Landed'
  OBVIOUS
<1>0. ASSUME UNCHANGED <<tab, saves, landing>>,
             stored'.label = stored.label, stored'.auto = stored.auto,
             stored'.owned = stored.owned
      PROVE  Landed'
  <2>1. LastAgrees' /\ SavesComplete'
    BY <1>0 DEF landing, Landed, SavesAgree, LastAgrees, SavesComplete
  <2>2. ShownIsStored'
    BY <1>0 DEF landing, Landed, ShownIsStored
  <2> QED BY <2>1, <2>2 DEF Landed, SavesAgree
<1>1. CASE (\E roll \in Rolls : Swap(roll)) \/ UNCHANGED vars
  BY <1>0, <1>1 DEF Swap, vars, landing
<1>2. ASSUME NEW m \in Media, NEW l \in Labels, Declare(m, l) PROVE Landed'
  BY <1>0, <1>2 DEF Declare, request, TypeOK, Settings
<1>3. CASE \E t \in Tabs : OnPage(t)
  BY <1>3, LandedOnPage
<1>4. ASSUME NEW c \in Checks, OfCheck(c) PROVE Landed'
  <2>0. checks[c].stage # "idle" => checks[c] \in Check /\ checks[c] # Idle
    BY DEF TypeOK, Idle
  <2>1. CASE Probe(c) \/ NobodyListens(c)
    BY <1>0, <2>1 DEF Probe, NobodyListens
  <2>2. CASE Apply(c)
    <3>1. checks[c].report \in Report
      BY <2>0, <2>2 DEF Apply, Check
    <3> QED BY <2>0, <2>2, <3>1, LandedOnTake DEF Apply
  <2>3. CASE CheckFails(c)
    BY <2>0, <2>3, NothingIsReport, LandedOnTake DEF CheckFails
  <2> QED BY <1>4, <2>1, <2>2, <2>3 DEF OfCheck
<1>5. CASE \E s \in Saves : OfSave(s)
  BY <1>5, LandedOnSave
<1> QED BY <1>1, <1>2, <1>3, <1>4, <1>5 DEF Next
-----------------------------------------------------------------------------
(***************************************************************************)
(* Together.                                                               *)
(***************************************************************************)

\* The invariant holds at first.
LEMMA InitIInv == Init => IInv
<1> SUFFICES ASSUME Init PROVE IInv
  OBVIOUS
<1>1. TypeOK /\ EverythingIsMeant
  BY InitTypes, InitIsMeant
<1>2. Held
  BY DEF Init, Held, HeldAt
<1>3. SavesAgree /\ ShownIsStored
  BY DEF Init, SavesAgree, LastAgrees, SavesComplete, ShownIsStored
<1> QED BY <1>1, <1>2, <1>3 DEF IInv

\* Every step keeps it.
LEMMA StepIInv == IInv /\ [Next]_vars => IInv'
BY StepTypes, StepHeld, StepIsMeant, StepLanded DEF IInv, Landed

\* The inductive invariant of pages, checks and saves.
THEOREM Invariant == Spec => []IInv
BY InitIInv, StepIInv, PTL DEF Spec

\* Everything has its type.
THEOREM TypeCorrect == Spec => []TypeOK
<1>1. IInv => TypeOK
  BY DEF IInv
<1> QED BY <1>1, Invariant, PTL

\* Automatic mode does not undo a choice made by hand
\* (autoSwitchSuppressedFor, performAutoSwitchIfNeeded).
THEOREM ManualChoiceIsKept == Spec => []ManualChoiceHolds
<1>1. IInv => ManualChoiceHolds
  BY DEF IInv, Held, HeldAt, ManualChoiceHolds
<1> QED BY <1>1, Invariant, PTL

\* A special label is in use only after somebody named it (resolve_media,
\* autoSwitchTarget, rememberMediaChoice, record_label_choice).
THEOREM SpecialOnlyIfMeant == Spec => []SpecialIsMeant
<1>1. IInv => SpecialIsMeant
  BY DEF IInv, EverythingIsMeant, StoredIsMeant, SettingsAreMeant, PageIsMeant, SpecialIsMeant
<1> QED BY <1>1, Invariant, PTL

\* Saves that land in the order they were begun in leave what their page shows, a
\* job opened since apart (putSettingsPatch, applySettingsToForm).
THEOREM WhatIsShownIsStored == Spec => []ShownIsStored
<1>1. IInv => ShownIsStored
  BY DEF IInv
<1> QED BY <1>1, Invariant, PTL
=============================================================================
