---------------------------- MODULE MediaChoice ----------------------------
(***************************************************************************)
(* Which label type the application prints for: the browser tabs that show *)
(* and change it, the status checks that tell them which roll is in the    *)
(* printer, automatic switching, and the settings the server keeps.  One   *)
(* action is one handler of the page, which runs to completion, or one     *)
(* step of a request on the server; answers and saves of a tab may be late *)
(* and overtake each other.                                                *)
(***************************************************************************)
EXTENDS FiniteSets, Naturals

CONSTANTS
  Tabs,         \* open pages
  Labels,       \* label identifiers
  Media,        \* the media, each the set of labels the printer cannot tell apart
  Plain,        \* the plain variant of each medium
  Checks,       \* room for that many status checks under way
  Saves,        \* room for that many saves under way
  None,
  Configured,   \* bound: the labels the server may be set to at first
  Ownable,      \* bound: the labels somebody puts on the owned list
  MaxSwaps,     \* bound: how often the roll is changed
  MaxActs       \* bound: how often somebody clicks something

\* MEDIA_EQUIVALENTS and the labels that are media of their own.
RollAssumption ==
  /\ Labels = UNION Media
  /\ \A m, n \in Media : m \cap n # {} => m = n
  /\ Plain \in [Media -> Labels]
  /\ \A m \in Media : Plain[m] \in m
  /\ None \notin Labels \cup Media \cup Tabs \cup Saves
  /\ Configured \subseteq Labels /\ Ownable \subseteq Labels
  /\ MaxSwaps \in Nat /\ MaxActs \in Nat

ASSUME RollAssumption

VARIABLES
  printer,      \* the roll in the printer, {} when there is none
  cache,        \* the server's reading of the roll, None when it has none
  stored,       \* the settings on the server
  tab,          \* what each page holds
  checks,       \* status checks under way
  saves,        \* saves under way
  swaps, acts,  \* how often the bounds above were used
  meant,        \* history: labels somebody named, in whatever setting
  said,         \* history: the choice made by hand on each page that still counts
  last,         \* history: the save begun last, while it is under way
  savedBy,      \* history: the page whose save was begun last, and landed last
  fromJob       \* history: pages that show the label of an opened job, not saved since

request == <<checks, saves>>
bounds == <<swaps, acts>>
landing == <<last, savedBy, fromJob>>
vars == <<printer, cache, stored, tab, checks, saves, swaps, acts,
          meant, said, last, savedBy, fromJob>>

Rolls == Media \cup {{}}
Choice == Labels \cup {None}
PerMedium == {f \in [Media -> Choice] : \A m \in Media : f[m] \in m \cup {None}}
Ambiguous(m) == m # {} /\ m # {Plain[m]}

Settings == [label : Labels, auto : BOOLEAN, owned : SUBSET Labels,
             memory : PerMedium, preferred : PerMedium]
Report == [roll : Rolls, resolved : Choice, to : Choice]
Nothing == [roll |-> {}, resolved |-> None, to |-> None]
NotHeld == None

\* What a page holds: #label-size, the three mirrored settings, the report as
\* the printer gave it, autoSwitchSuppressedFor, and whether the list is open.
Page == [choice : Labels, auto : BOOLEAN, owned : SUBSET Labels, memory : PerMedium,
         report : Report, held : (SUBSET Labels) \cup {NotHeld}, open : BOOLEAN]

Idle == [stage |-> "idle"]
Check == [stage : {"asked"}, tab : Tabs \cup {None}, decides : [Rolls -> Report]]
         \cup [stage : {"answered"}, tab : Tabs \cup {None}, report : Report]
Save == [stage : {"reading", "sent"}, tab : Tabs \cup {None}, label : Choice,
         auto : BOOLEAN, owned : SUBSET Labels, memory : PerMedium]

TypeOK ==
  /\ printer \in Rolls
  /\ cache \in Rolls \cup {None}
  /\ stored \in Settings
  /\ tab \in [Tabs -> Page]
  /\ checks \in [Checks -> Check \cup {Idle}]
  /\ saves \in [Saves -> Save \cup {Idle}]
  /\ swaps \in 0 .. MaxSwaps /\ acts \in 0 .. MaxActs
  /\ meant \subseteq Labels
  /\ said \in [Tabs -> [label : Labels, key : SUBSET Labels, changed : BOOLEAN] \cup {None}]
  /\ last \in Saves \cup {None}
  /\ savedBy \in Tabs \cup {None}
  /\ fromJob \subseteq Tabs
-----------------------------------------------------------------------------
(***************************************************************************)
(* The server's decision.                                                  *)
(***************************************************************************)

\* Mutant of Resolve: the plain variant is not put first.
ResolveSpecial(roll, s) ==
  IF roll = {} THEN None
  ELSE IF ~Ambiguous(roll) THEN Plain[roll]
  ELSE IF s.preferred[roll] # None THEN s.preferred[roll]
  ELSE IF s.memory[roll] # None THEN s.memory[roll]
  ELSE CHOOSE l \in roll : l # Plain[roll]

\* Which of a roll's labels it comes down to: the declared preference, the
\* memory, the owned list when it leaves one, the plain variant.
Resolve(roll, s) ==
  IF roll = {} THEN None
  ELSE IF ~Ambiguous(roll) THEN Plain[roll]
  ELSE IF s.preferred[roll] # None THEN s.preferred[roll]
  ELSE IF s.memory[roll] # None THEN s.memory[roll]
  ELSE IF \E l \in roll : s.owned \cap roll = {l}
       THEN CHOOSE l \in roll : s.owned \cap roll = {l}
  ELSE Plain[roll]

\* What automatic mode wants done: a switch, or nothing.
PlannedSwitch(roll, s) ==
  IF s.auto /\ s.label \notin roll THEN Resolve(roll, s) ELSE None

Reported(roll, s) ==
  [roll |-> roll, resolved |-> Resolve(roll, s), to |-> PlannedSwitch(roll, s)]
-----------------------------------------------------------------------------
(***************************************************************************)
(* What a page makes of it.                                                *)
(***************************************************************************)

\* The reported labels that are on the list of owned media, when that narrows
\* an ambiguity and leaves something.
Narrowed(roll, owned) ==
  IF Ambiguous(roll) /\ owned \cap roll # {} THEN owned \cap roll ELSE roll

Loaded(p) == Narrowed(p.report.roll, p.owned)

Matches(p) == Loaded(p) = {} \/ p.choice \in Loaded(p)

\* The label an automatic switch would move to, None when nothing decides.
Target(p) ==
  LET info == Loaded(p)
      medium == p.report.roll
  IN  IF \E l \in info : info = {l} THEN CHOOSE l \in info : info = {l}
      ELSE IF p.report.to # None THEN p.report.to
      ELSE IF p.report.resolved \in info THEN p.report.resolved
      ELSE IF info # {} /\ p.memory[medium] \in info THEN p.memory[medium]
      ELSE None

Switches(p) ==
  /\ p.auto /\ ~p.open
  /\ ~Matches(p)
  /\ p.held # Loaded(p)
  /\ Target(p) \notin {None, p.choice}

\* Only an ambiguous medium is remembered, and only when it is in the printer.
Remembered(p, l) ==
  [m \in Media |-> IF Ambiguous(m) /\ l \in m /\ l \in Loaded(p) THEN l ELSE p.memory[m]]

\* Mutant of Changed: held off is the report as the printer gave it.
ChangedHoldsRaw(p, l, automatic) ==
  [p EXCEPT !.choice = l,
            !.held = IF automatic THEN NotHeld ELSE p.report.roll,
            !.memory = Remembered(p, l)]

\* The "change" event of #label-size.
Changed(p, l, automatic) ==
  [p EXCEPT !.choice = l,
            !.held = IF automatic THEN NotHeld ELSE Loaded(p),
            !.memory = Remembered(p, l)]

Switched(p) == Changed(p, Target(p), TRUE)

\* A choice by hand: it changes the label if it is another one, and closes the list.
Picked(p, l) ==
  [(IF p.choice # l THEN Changed(p, l, FALSE) ELSE p) EXCEPT !.open = FALSE]

\* The label type already in use answers for its own medium, if nothing else does.
Seeded(memory, l) ==
  [m \in Media |-> IF Ambiguous(m) /\ l \in m /\ memory[m] = None THEN l ELSE memory[m]]

\* A page that has just loaded the settings.
Opened(s) ==
  [choice |-> s.label, auto |-> s.auto, owned |-> s.owned,
   memory |-> Seeded(s.memory, s.label), report |-> Nothing,
   held |-> NotHeld, open |-> FALSE]
-----------------------------------------------------------------------------
(***************************************************************************)
(* Saves.  A save reads the settings and then writes them; the keys of the *)
(* media block are those of the call, the label that of the call when one  *)
(* was chosen and else what the page shows once the settings were read.    *)
(***************************************************************************)

SaveOf(t, p, l, stage) ==
  [stage |-> stage, tab |-> t, label |-> l,
   auto |-> p.auto, owned |-> p.owned, memory |-> p.memory]

\* One save, or two in the order they were begun, one of them about the label.
Begin(save) ==
  /\ \E s \in Saves :
       /\ saves[s] = Idle
       /\ saves' = [saves EXCEPT ![s] = save]
       /\ last' = s
  /\ savedBy' = None
  /\ fromJob' = IF save.label = None THEN fromJob ELSE fromJob \ {save.tab}

BeginBoth(first, second) ==
  /\ \E s, z \in Saves :
       /\ s # z /\ saves[s] = Idle /\ saves[z] = Idle
       /\ saves' = [saves EXCEPT ![s] = first, ![z] = second]
       /\ last' = z
  /\ savedBy' = None
  /\ fromJob' = fromJob \ {first.tab}

BeginNone == UNCHANGED <<saves, landing>>

\* The page's state becomes p, unless automatic mode switches at once.
Follow(t, p) ==
  \/ /\ ~Switches(p)
     /\ tab' = [tab EXCEPT ![t] = p]
     /\ BeginNone
  \/ /\ Switches(p)
     /\ tab' = [tab EXCEPT ![t] = Switched(p)]
     /\ Begin(SaveOf(t, Switched(p), Target(p), "reading"))

\* A status check reads the settings before it asks the printer: what it will say
\* of each roll is decided.
Ask(t) ==
  \E c \in Checks :
    /\ checks[c] = Idle
    /\ checks' = [checks EXCEPT ![c] =
                    [stage |-> "asked", tab |-> t, decides |-> [roll \in Rolls |-> Reported(roll, stored)]]]

Act == acts < MaxActs /\ acts' = acts + 1 /\ UNCHANGED swaps
-----------------------------------------------------------------------------
Init ==
  /\ printer \in Rolls
  /\ cache = None
  /\ stored \in [label : Configured, auto : {TRUE}, owned : {{}},
                 memory : {[m \in Media |-> None]}, preferred : {[m \in Media |-> None]}]
  /\ tab = [t \in Tabs |-> Opened(stored)]
  /\ checks = [c \in Checks |-> Idle]
  /\ saves = [s \in Saves |-> Idle]
  /\ swaps = 0 /\ acts = 0
  /\ meant = {stored.label}
  /\ said = [t \in Tabs |-> None]
  /\ last = None /\ savedBy = None /\ fromJob = {}

\* Somebody changes the roll, or takes it out.
Swap(roll) ==
  /\ swaps < MaxSwaps /\ roll # printer
  /\ printer' = roll
  /\ swaps' = swaps + 1
  /\ UNCHANGED <<cache, stored, tab, checks, saves, acts, meant, said, landing>>

\* A client of the API declares a preference for a medium.
Declare(m, l) ==
  /\ Act /\ Ambiguous(m) /\ l \in m
  /\ stored' = [stored EXCEPT !.preferred[m] = l]
  /\ meant' = meant \cup {l}
  /\ UNCHANGED <<printer, cache, tab, request, said, landing>>

\* A page is loaded again; what it asked for before finds nobody.
Reload(t) ==
  /\ Act
  /\ tab' = [tab EXCEPT ![t] = Opened(stored)]
  /\ checks' = [c \in Checks |->
       IF checks[c] # Idle /\ checks[c].tab = t
         THEN [checks[c] EXCEPT !.tab = None] ELSE checks[c]]
  /\ saves' = [s \in Saves |->
       IF saves[s] = Idle \/ saves[s].tab # t THEN saves[s]
       ELSE IF saves[s].stage = "reading" THEN Idle
       ELSE [saves[s] EXCEPT !.tab = None]]
  /\ last' = IF last # None /\ saves[last].tab = t /\ saves[last].stage = "reading"
             THEN None ELSE last
  /\ fromJob' = fromJob \ {t}
  /\ said' = [said EXCEPT ![t] = None]
  /\ UNCHANGED <<printer, cache, stored, meant, savedBy>>

\* openJob: the form is filled from a job printed before, the label with it.  No
\* "change" event: nothing is saved, remembered or held off, and a switch has to
\* wait for the next answer.
OpenJob(t, l) ==
  /\ Act
  /\ l # tab[t].choice
  /\ tab' = [tab EXCEPT ![t].choice = l]
  /\ fromJob' = fromJob \cup {t}
  /\ meant' = meant \cup {l}
  /\ said' = [said EXCEPT ![t] = None]
  /\ UNCHANGED <<printer, cache, stored, request, last, savedBy>>

\* The list is opened; the one in the top bar asks the printer again as it does.
OpenList(t) ==
  /\ ~tab[t].open
  /\ tab' = [tab EXCEPT ![t].open = TRUE]
  /\ checks' = checks \/ Ask(t)
  /\ UNCHANGED <<printer, cache, stored, saves, bounds, meant, said, landing>>

\* Escape, or a click elsewhere: a switch held back takes its turn.
CloseList(t) ==
  /\ tab[t].open
  /\ Follow(t, [tab[t] EXCEPT !.open = FALSE])
  /\ UNCHANGED <<printer, cache, stored, checks, bounds, meant, said>>

\* A label is picked by hand, in the open list or with a button of the mismatch
\* warning.  Picking the one already shown changes nothing and closes the list.
Pick(t, l) ==
  /\ Act
  /\ tab[t].open \/ (~Matches(tab[t]) /\ l \in Loaded(tab[t]))
  /\ LET p == Picked(tab[t], l)
     IN  \/ /\ l # tab[t].choice
            /\ tab' = [tab EXCEPT ![t] = p]
            /\ Begin(SaveOf(t, p, l, "reading"))
         \/ /\ l = tab[t].choice
            /\ Follow(t, p)
  /\ meant' = meant \cup {l}
  /\ said' = [said EXCEPT ![t] =
       IF Loaded(tab[t]) = {} THEN None
       ELSE [label |-> l, key |-> Loaded(tab[t]), changed |-> l # tab[t].choice]]
  /\ UNCHANGED <<printer, cache, stored, checks>>

\* setMediaAutoSwitch: an earlier choice no longer holds it off, and the roll in
\* the printer now is acted upon.
SetAuto(t) ==
  /\ Act
  /\ LET p == [tab[t] EXCEPT !.auto = ~@, !.held = NotHeld]
         save == SaveOf(t, p, None, "reading")
     IN  \/ /\ ~Switches(p)
            /\ tab' = [tab EXCEPT ![t] = p]
            /\ Begin(save)
         \/ /\ Switches(p)
            /\ tab' = [tab EXCEPT ![t] = Switched(p)]
            /\ BeginBoth(save, SaveOf(t, Switched(p), Target(p), "reading"))
  /\ said' = [said EXCEPT ![t] = None]
  /\ UNCHANGED <<printer, cache, stored, checks, meant>>

\* toggleOwnedMedium: the roll in the printer is decided anew, then the list saved.
ToggleOwned(t, l) ==
  /\ Act
  /\ LET owned == tab[t].owned
         p == [tab[t] EXCEPT !.owned = IF l \in owned THEN owned \ {l} ELSE owned \cup {l}]
     IN  \/ /\ ~Switches(p)
            /\ tab' = [tab EXCEPT ![t] = p]
            /\ Begin(SaveOf(t, p, None, "reading"))
         \/ /\ Switches(p)
            /\ tab' = [tab EXCEPT ![t] = Switched(p)]
            /\ BeginBoth(SaveOf(t, Switched(p), Target(p), "reading"),
                         SaveOf(t, Switched(p), None, "reading"))
  /\ meant' = meant \cup {l}
  /\ said' = [said EXCEPT ![t] = None]
  /\ UNCHANGED <<printer, cache, stored, checks>>

\* The Settings form is saved: it reads nothing first.
SaveForm(t) ==
  /\ Act
  /\ Begin(SaveOf(t, tab[t], tab[t].choice, "sent"))
  /\ UNCHANGED <<printer, cache, stored, tab, checks, meant, said>>

\* The poll, a re-check after the roll disappeared, the refresh button.
Poll(t) ==
  /\ Ask(t)
  /\ UNCHANGED <<printer, cache, stored, tab, saves, bounds, meant, said, landing>>

\* The printer answers the server, which keeps the reading; or it does not, and
\* the server forgets the one it had.
Probe(c) ==
  /\ checks[c].stage = "asked"
  /\ \/ /\ cache' = printer
        /\ checks' = [checks EXCEPT ![c] =
             [stage |-> "answered", tab |-> checks[c].tab,
              report |-> checks[c].decides[printer]]]
     \/ /\ cache' = None
        /\ checks' = [checks EXCEPT ![c] =
             [stage |-> "answered", tab |-> checks[c].tab, report |-> Nothing]]
  /\ UNCHANGED <<printer, stored, tab, saves, bounds, meant, said, landing>>

\* applyPrinterStatusMedia: the page takes an answer, or "nothing known" when the
\* check failed.
Take(c, report) ==
  LET t == checks[c].tab
      p == [tab[t] EXCEPT !.report = report]
  IN  /\ t # None
      /\ Follow(t, p)
      /\ said' = [said EXCEPT ![t] =
           IF @ # None /\ Loaded(p) \notin {{}, @.key} THEN None ELSE @]
      /\ checks' = [checks EXCEPT ![c] = Idle]
      /\ UNCHANGED <<printer, cache, stored, bounds, meant>>

Apply(c) == checks[c].stage = "answered" /\ Take(c, checks[c].report)

CheckFails(c) == checks[c].stage # "idle" /\ Take(c, Nothing)

\* The page that asked was loaded again meanwhile.
NobodyListens(c) ==
  /\ checks[c].stage = "answered" /\ checks[c].tab = None
  /\ checks' = [checks EXCEPT ![c] = Idle]
  /\ UNCHANGED <<printer, cache, stored, tab, saves, bounds, meant, said, landing>>

\* Mutant of Send: the stored label goes before the one the page shows.
SendBaseFirst(s) ==
  /\ saves[s].stage = "reading"
  /\ saves' = [saves EXCEPT ![s].stage = "sent",
                            ![s].label = IF @ = None THEN stored.label ELSE @]
  /\ fromJob' = IF s = last /\ saves[s].label = None THEN fromJob \ {saves[s].tab} ELSE fromJob
  /\ UNCHANGED <<printer, cache, stored, tab, checks, bounds, meant, said, last, savedBy>>

\* putSettingsPatch has read the settings, or could not, and writes.
Send(s) ==
  /\ saves[s].stage = "reading"
  /\ saves' = [saves EXCEPT ![s].stage = "sent",
                            ![s].label = IF @ = None THEN tab[saves[s].tab].choice ELSE @]
  /\ fromJob' = IF s = last /\ saves[s].label = None THEN fromJob \ {saves[s].tab} ELSE fromJob
  /\ UNCHANGED <<printer, cache, stored, tab, checks, bounds, meant, said, last, savedBy>>

\* record_label_choice: a new label that the roll in the printer can be is
\* remembered for it, as far as the server's reading goes.
Recorded(memory, roll, l) ==
  IF Ambiguous(roll) /\ l \in roll THEN [memory EXCEPT ![roll] = l] ELSE memory

\* The page shows what is stored when its save was the last to begin, and until
\* an earlier one lands after it.
Finish(s) ==
  /\ saves' = [saves EXCEPT ![s] = Idle]
  /\ last' = IF s = last THEN None ELSE last
  /\ UNCHANGED fromJob

\* The server merges the body onto what is stored.  Only a changed label with
\* automatic mode on asks for the roll: the reading that is kept for
\* MEDIA_CACHE_TTL_SECONDS, when it is no older, and else the printer.
Land(s) ==
  LET body == saves[s]
      asks == body.auto /\ body.label # stored.label
  IN  /\ body.stage = "sent"
      /\ \E roll \in IF asks THEN {printer, {}} \cup ({cache} \ {None}) ELSE {{}} :
           /\ cache' = IF asks THEN roll ELSE cache
           /\ stored' = [stored EXCEPT !.label = body.label, !.auto = body.auto,
                !.owned = body.owned,
                !.memory = IF asks THEN Recorded(body.memory, roll, body.label)
                           ELSE body.memory]
      /\ Finish(s)
      /\ savedBy' = IF s = last THEN body.tab ELSE None
      /\ UNCHANGED <<printer, tab, checks, bounds, meant, said>>

SaveFails(s) ==
  /\ saves[s].stage = "sent"
  /\ Finish(s)
  /\ UNCHANGED <<printer, cache, stored, tab, checks, bounds, meant, said, savedBy>>

OnPage(t) ==
  \/ Reload(t) \/ OpenList(t) \/ CloseList(t) \/ SetAuto(t) \/ SaveForm(t) \/ Poll(t)
  \/ \E l \in Labels : Pick(t, l) \/ OpenJob(t, l)
  \/ \E l \in Ownable : ToggleOwned(t, l)

OfCheck(c) == Probe(c) \/ Apply(c) \/ CheckFails(c) \/ NobodyListens(c)

OfSave(s) == Send(s) \/ Land(s) \/ SaveFails(s)

Next ==
  \/ \E roll \in Rolls : Swap(roll)
  \/ \E m \in Media, l \in Labels : Declare(m, l)
  \/ \E t \in Tabs : OnPage(t)
  \/ \E c \in Checks : OfCheck(c)
  \/ \E s \in Saves : OfSave(s)

Spec == Init /\ [][Next]_vars
-----------------------------------------------------------------------------
(***************************************************************************)
(* Properties.                                                             *)
(***************************************************************************)

\* A choice made by hand while a roll is reported is not undone by automatic
\* mode until the printer reports another roll or the user changes the mode or
\* the owned list, whatever the answers on their way say and however often the
\* roll disappears and comes back ("a manual choice holds automatic switching
\* off until the printer reports something else").
ManualChoiceHolds ==
  \A t \in Tabs : said[t] # None /\ said[t].changed => tab[t].choice = said[t].label

\* The same of every choice, of the label already shown too.  It does not hold: no
\* "change" event, nothing held off, and the list closing is a switch's turn.
EveryChoiceHolds ==
  \A t \in Tabs : said[t] # None => tab[t].choice = said[t].label

Special(l) == \E m \in Media : l \in m /\ l # Plain[m]
IsMeant(l, named) == Special(l) => l \in named

\* No page, and not the server, comes to print for the special variant of a
\* medium (red ink, a wider raster) unless somebody once named it: configured it,
\* picked it, listed it as owned or declared it preferred.
SpecialIsMeant ==
  IsMeant(stored.label, meant) /\ \A t \in Tabs : IsMeant(tab[t].choice, meant)

\* What the last page to save shows is what the server prints for ("Saved. The app
\* prints for ..."), however its saves overlap each other and other pages', unless
\* one that was begun earlier lands after it.  An opened job shows its label without
\* saving it, until the next save about anything takes it along.
ShownIsStored ==
  savedBy # None =>
    LET p == tab[savedBy]
    IN  /\ savedBy \notin fromJob => stored.label = p.choice
        /\ stored.auto = p.auto /\ stored.owned = p.owned

\* Why they hold.  A choice that counts was made of what the report is held off for.
HeldAt(p, choice) ==
  choice # None =>
    /\ choice.key # {} /\ Loaded(p) \in {{}, choice.key}
    /\ choice.changed => p.choice = choice.label /\ p.held = choice.key
Held == \A t \in Tabs : HeldAt(tab[t], said[t])

\* Every place a page or the server takes a label from holds labels that were named.
ReportIsMeant(r, named) == IsMeant(r.resolved, named) /\ IsMeant(r.to, named)
SettingsAreMeant(s, named) ==
  /\ IsMeant(s.label, named) /\ s.owned \subseteq named
  /\ \A m \in Media : IsMeant(s.memory[m], named)
StoredIsMeant(s, named) ==
  SettingsAreMeant(s, named) /\ \A m \in Media : IsMeant(s.preferred[m], named)
PageIsMeant(p, named) ==
  /\ IsMeant(p.choice, named) /\ p.owned \subseteq named
  /\ \A m \in Media : IsMeant(p.memory[m], named)
  /\ ReportIsMeant(p.report, named)
CheckIsMeant(c, named) ==
  /\ c.stage = "asked" => \A roll \in Rolls : ReportIsMeant(c.decides[roll], named)
  /\ c.stage = "answered" => ReportIsMeant(c.report, named)
SaveIsMeant(s, named) == s # Idle => SettingsAreMeant(s, named)
EverythingIsMeant ==
  /\ StoredIsMeant(stored, meant)
  /\ \A t \in Tabs : PageIsMeant(tab[t], meant)
  /\ \A c \in Checks : CheckIsMeant(checks[c], meant)
  /\ \A s \in Saves : SaveIsMeant(saves[s], meant)

\* The save begun last says what its page shows, ...
Agrees(s, p, job) ==
  /\ job \/ s.label = None \/ s.label = p.choice
  /\ s.auto = p.auto /\ s.owned = p.owned
LastAgrees ==
  last # None =>
    /\ saves[last] # Idle /\ savedBy = None
    /\ LET t == saves[last].tab
       IN  t # None => Agrees(saves[last], tab[t], t \in fromJob)

\* ... and a save has its label when it is sent, and its page until then.
SavesComplete ==
  \A s \in Saves : saves[s] # Idle =>
    /\ saves[s].stage = "sent" => saves[s].label # None
    /\ saves[s].stage = "reading" => saves[s].tab # None

SavesAgree == LastAgrees /\ SavesComplete

IInv == TypeOK /\ Held /\ EverythingIsMeant /\ SavesAgree /\ ShownIsStored
=============================================================================
