------------------------- MODULE SettingsStoreProofs -------------------------
(* What TLAPS proves of the settings store, for every set of settings,      *)
(* threads and inodes.                                                      *)
EXTENDS SettingsStore, TLAPS

\* Loading always answers settings.
LEMMA StoredIsSettings == TypeOK => Stored \in Settings
  BY StoreAssumption DEF StoreAssumption, TypeOK, Stored

\* Merging changes into settings gives settings.
LEMMA MergeIsSettings ==
  ASSUME NEW s \in Settings, NEW D \in SUBSET Keys, NEW d \in [D -> Values]
  PROVE  Merge(s, d) \in Settings
  BY DEF Merge, Settings

\* A finished save has put a file in place: the part of the bearings that the
\* types need.
Placed == \A t \in Threads : pc[t] \in {"replaced", "refreshing"} => file # None

\* Types are correct initially.
LEMMA TypeInit == Init => TypeOK /\ Placed
<1> SUFFICES ASSUME Init PROVE TypeOK /\ Placed
  OBVIOUS
<1>1. clashed \in BOOLEAN
  BY Zenon DEF Init
<1>2. beside \in [Threads -> SUBSET Keys] /\ asked \in [Threads -> SUBSET Keys]
  BY DEF Init
<1>3. answer \in [Threads -> BOOLEAN \cup {None}]
  BY Zenon DEF Init
<1> QED
  BY <1>1, <1>2, <1>3, StoreAssumption DEF StoreAssumption, Init, TypeOK, Placed, Settings

\* What saves under way name are settings.
LEMMA ConcurrentKeys == TypeOK => Concurrent \subseteq Keys
<1> SUFFICES ASSUME TypeOK, NEW u \in UnderWay PROVE Named(u) \subseteq Keys
  BY DEF Concurrent
<1> QED
  BY DEF TypeOK, Named, UnderWay, Threads

\* What a call of update_settings writes to the saving thread's variables.
LEMMA BeginType ==
  ASSUME TypeOK, Placed, NEW t \in Threads, NEW named \in SUBSET Keys,
         NEW since \in SUBSET Keys, NEW d, Merge(Stored, d) \in Settings,
         Begin(t, named, d, since)
  PROVE  TypeOK' /\ Placed'
<1>1. PICK h \in [{} -> Values] \cup [HookKeys -> Values] :
        /\ goal' = [goal EXCEPT ![t] = Merged(d, h)]
        /\ asked' = [asked EXCEPT ![t] = named \cup DOMAIN h]
        /\ Joins(t, named \cup DOMAIN h, since)
  BY DEF Begin
<1>2. \E D \in SUBSET Keys : h \in [D -> Values]
  BY StoreAssumption DEF StoreAssumption
<1>3. Merged(d, h) \in Settings
  BY <1>2, MergeIsSettings DEF Merged
<1>4. goal' \in [Threads -> Settings]
  BY <1>1, <1>3 DEF TypeOK
<1>5. asked' \in [Threads -> SUBSET Keys]
  BY <1>1, <1>2 DEF TypeOK
<1>6. pc' = [pc EXCEPT ![t] = "merged"]
  BY DEF Begin, Goto
<1>7. UNCHANGED <<file, tmp, content, mtime, clock, cached, cachedAt, lock, fd, stamp, clashed,
                 crashes>>
  BY DEF Begin, disk, cache
<1>8. updates' \in Nat /\ got' \in [Threads -> Settings \cup {None}]
  BY DEF Begin, TypeOK
<1>9. answer' \in [Threads -> BOOLEAN \cup {None}]
  BY Zenon DEF Begin, TypeOK
<1>10. Placed'
  BY <1>6, <1>7 DEF Placed, TypeOK
<1>11. beside' \in [Threads -> SUBSET Keys]
  BY <1>1, <1>2, ConcurrentKeys DEF Joins, TypeOK
<1> QED
  BY <1>4, <1>5, <1>6, <1>7, <1>8, <1>9, <1>10, <1>11 DEF TypeOK

\* update_settings keeps the types, with a request's changes or a snapshot.
LEMMA UpdateType ==
  ASSUME TypeOK, Placed, NEW t \in Threads, Update(t) \/ UpdateFromSnapshot(t)
  PROVE  TypeOK' /\ Placed'
<1>1. CASE Update(t)
  <2>1. PICK d \in Changes : Begin(t, DOMAIN d, d, {})
    BY <1>1 DEF Update
  <2>2. PICK D \in SUBSET Keys : d \in [D -> Values]
    BY DEF Changes
  <2> QED
    BY <2>1, <2>2, StoredIsSettings, MergeIsSettings, BeginType
<1>2. CASE UpdateFromSnapshot(t)
  <2>1. PICK d \in Changes : Begin(t, DOMAIN d, Merge(got[t], d), beside[t])
    BY <1>2 DEF UpdateFromSnapshot
  <2>2. PICK D \in SUBSET Keys : d \in [D -> Values]
    BY DEF Changes
  <2>3. Merge(got[t], d) \in Settings
    BY <1>2, <2>2, MergeIsSettings DEF UpdateFromSnapshot, TypeOK
  <2>4. Merge(Stored, Merge(got[t], d)) \in Settings
    BY <2>3, StoredIsSettings, MergeIsSettings DEF Settings
  <2> QED
    BY <2>1, <2>2, <2>4, BeginType DEF TypeOK
<1> QED
  BY <1>1, <1>2

\* A write keeps the inodes' types.
LEMMA WriteType ==
  ASSUME TypeOK, NEW i, NEW what \in Settings \cup {Empty, Torn}, Write(i, what)
  PROVE  /\ content' \in [Inodes -> Settings \cup {Empty, Torn}]
         /\ mtime' \in [Inodes -> Nat]
         /\ clock' \in Nat
<1>1. clock' \in Nat
  BY DEF Write, TypeOK
<1>2. content' \in [Inodes -> Settings \cup {Empty, Torn}]
  BY DEF Write, TypeOK
<1>3. mtime' \in [Inodes -> Nat]
  BY <1>1 DEF Write, TypeOK
<1> QED
  BY <1>1, <1>2, <1>3

\* Every step of a save keeps the types.
LEMMA SaveType ==
  ASSUME TypeOK, Placed, NEW t \in Threads, Save(t)
  PROVE  TypeOK' /\ Placed'
<1> USE DEF disk, cache, bounds, history, Goto
<1>0. goal[t] \in Settings
  BY DEF TypeOK
<1>a. ASSUME NEW ok \in BOOLEAN, Answer(t, ok)
      PROVE  /\ answer' \in [Threads -> BOOLEAN \cup {None}]
             /\ goal' \in [Threads -> Settings]
             /\ asked' \in [Threads -> SUBSET Keys]
             /\ beside' \in [Threads -> SUBSET Keys]
             /\ pc' = [pc EXCEPT ![t] = "idle"]
  <2>1. answer' \in [Threads -> BOOLEAN \cup {None}]
    BY <1>a, Zenon DEF Answer, TypeOK
  <2> QED
    BY <1>a, <2>1, StoreAssumption DEF StoreAssumption, Answer, TypeOK
<1>b. ASSUME Enters PROVE clashed' \in BOOLEAN /\ beside' = beside
  BY <1>b DEF Enters
<1>1. CASE Refuse(t)
  BY <1>1, <1>a DEF Refuse, TypeOK, Placed
<1>2. CASE Open(t)
  <2>1. PICK i \in Target : Write(i, Empty) /\ tmp' = i /\ fd' = [fd EXCEPT ![t] = i]
    BY <1>2 DEF Open
  <2>2. i \in Inodes
    BY <2>1 DEF Target, TypeOK
  <2>3. /\ content' \in [Inodes -> Settings \cup {Empty, Torn}]
        /\ mtime' \in [Inodes -> Nat]
        /\ clock' \in Nat
    BY <2>1, WriteType
  <2> QED
    BY <1>2, <1>b, <2>1, <2>2, <2>3 DEF Open, TypeOK, Placed
<1>3. CASE Dump(t) \/ DumpFails(t)
  <2>1. \E what \in Settings \cup {Empty, Torn} : Write(fd[t], what)
    BY <1>0, <1>3 DEF Dump, DumpFails
  <2>2. /\ content' \in [Inodes -> Settings \cup {Empty, Torn}]
        /\ mtime' \in [Inodes -> Nat]
        /\ clock' \in Nat
    BY <2>1, WriteType
  <2>3. pc' = [pc EXCEPT ![t] = "dumped"] \/ pc' = [pc EXCEPT ![t] = "failed"]
    BY <1>3 DEF Dump, DumpFails
  <2>4. UNCHANGED <<file, tmp, cached, cachedAt, lock, goal, asked, fd, answer, stamp, got,
                   beside, clashed, updates, crashes>>
    BY <1>3 DEF Dump, DumpFails, saving
  <2> QED
    BY <2>2, <2>3, <2>4 DEF TypeOK, Placed
<1>4. CASE Replace(t)
  BY <1>4 DEF Replace, TypeOK, Placed
<1>5. CASE ReplaceFails(t)
  BY <1>5 DEF ReplaceFails, TypeOK, Placed, saving
<1>6. CASE CleanUp(t)
  <2>1. fd' \in [Threads -> Inodes \cup {None}] /\ tmp' = None
    BY <1>6 DEF CleanUp, TypeOK
  <2> QED
    BY <1>6, <1>a, <2>1 DEF CleanUp, TypeOK, Placed
<1>7. CASE RefreshSettings(t)
  BY <1>7, StoredIsSettings DEF RefreshSettings, TypeOK, Placed, saving
<1>8. CASE RefreshStamp(t)
  <2>2. mtime[file] \in Nat
    BY <1>8 DEF RefreshStamp, Placed, TypeOK
  <2> QED
    BY <1>8, <1>a, <2>2 DEF RefreshStamp, TypeOK, Placed
<1>9. CASE OpenFails(t)
  BY <1>9, <1>b DEF OpenFails, TypeOK, Placed, saving
<1> QED
  BY <1>1, <1>2, <1>3, <1>4, <1>5, <1>6, <1>7, <1>8, <1>9 DEF Save

\* Reading the settings keeps the types.
LEMMA GetType ==
  ASSUME TypeOK, Placed, NEW t \in Threads, Get(t)
  PROVE  TypeOK' /\ Placed'
<1> USE DEF disk, cache, bounds, history, Goto, saving, TypeOK, Placed
<1>a. ASSUME NEW x \in Settings \cup {None}, Hands(t, x)
      PROVE  got' \in [Threads -> Settings \cup {None}] /\ beside' \in [Threads -> SUBSET Keys]
  BY <1>a, ConcurrentKeys DEF Hands
<1>1. CASE GetDefaults(t)
  BY <1>1, <1>a, StoredIsSettings DEF GetDefaults
<1>2. CASE GetCached(t)
  BY <1>2, <1>a DEF GetCached
<1>3. CASE GetMisses(t)
  BY <1>3 DEF GetMisses
<1>4. CASE GetLoads(t)
  BY <1>4, <1>a, StoredIsSettings DEF GetLoads
<1> QED
  BY <1>1, <1>2, <1>3, <1>4 DEF Get

\* Every step keeps the types.
LEMMA TypeStep == TypeOK /\ Placed /\ [Next]_vars => TypeOK' /\ Placed'
<1> SUFFICES ASSUME TypeOK, Placed, [Next]_vars PROVE TypeOK' /\ Placed'
  OBVIOUS
<1>1. ASSUME NEW t \in Savers, Update(t) \/ UpdateFromSnapshot(t) \/ Save(t)
      PROVE  TypeOK' /\ Placed'
  BY <1>1, UpdateType, SaveType DEF Threads
<1>2. ASSUME NEW t \in Readers, Get(t) PROVE TypeOK' /\ Placed'
  BY <1>2, GetType DEF Threads
<1>3. CASE Crash
  BY <1>3, StoreAssumption DEF StoreAssumption, Crash, disk, TypeOK, Placed
<1>4. CASE UNCHANGED vars
  BY <1>4 DEF vars, disk, cache, saving, history, bounds, TypeOK, Placed
<1> QED
  BY <1>1, <1>2, <1>3, <1>4 DEF Next

\* The types are correct in every reachable state.
THEOREM TypeCorrect == Spec => []TypeOK
<1>1. Init => TypeOK /\ Placed
  BY TypeInit
<1>2. (TypeOK /\ Placed) /\ [Next]_vars => (TypeOK /\ Placed)'
  BY TypeStep
<1> QED
  BY <1>1, <1>2, PTL DEF Spec

-----------------------------------------------------------------------------
(* Settings that do not validate never reach the file, whatever the number *)
(* of saves under way: they are stopped before anything is opened.         *)

\* A step of a saving thread writes nothing invalid.
LEMMA ValidSave ==
  ASSUME TypeOK, NothingInvalidWritten, NEW t \in Savers, Save(t)
  PROVE  NothingInvalidWritten'
<1> USE StoreAssumption DEF StoreAssumption, disk, cache, bounds, saving, Goto, TypeOK,
                            NothingInvalidWritten, Threads
<1>1. CASE Refuse(t) \/ CleanUp(t) \/ RefreshStamp(t)
  <2>1. content' = content /\ pc' = [pc EXCEPT ![t] = "idle"]
        /\ \A u \in Threads : u # t => goal'[u] = goal[u]
    BY <1>1 DEF Refuse, CleanUp, RefreshStamp, Answer
  <2> QED
    BY <2>1
<1>2. CASE Open(t) \/ OpenFails(t)
  BY <1>2 DEF Open, OpenFails, Accepts, Write
<1>3. CASE Dump(t)
  BY <1>3 DEF Dump, Write
<1>4. CASE DumpFails(t)
  BY <1>4 DEF DumpFails, Write
<1>5. CASE Replace(t) \/ ReplaceFails(t) \/ RefreshSettings(t)
  BY <1>5 DEF Replace, ReplaceFails, RefreshSettings
<1> QED
  BY <1>1, <1>2, <1>3, <1>4, <1>5 DEF Save

\* Nothing invalid is ever written, by any step.
LEMMA ValidStep ==
  TypeOK /\ NothingInvalidWritten /\ [Next]_vars => NothingInvalidWritten'
<1> SUFFICES ASSUME TypeOK, NothingInvalidWritten, [Next]_vars PROVE NothingInvalidWritten'
  OBVIOUS
<1>1. ASSUME NEW t \in Savers, NEW named, NEW d, NEW since, Begin(t, named, d, since)
      PROVE  NothingInvalidWritten'
  <2>1. pc' = [pc EXCEPT ![t] = "merged"] /\ content' = content
    BY <1>1 DEF Begin, Goto, disk
  <2>2. \A s \in Threads : s # t => goal'[s] = goal[s]
    BY <1>1 DEF Begin, TypeOK
  <2> QED
    BY <2>1, <2>2 DEF NothingInvalidWritten, TypeOK, Threads
<1>2. ASSUME NEW t \in Savers, Update(t) \/ UpdateFromSnapshot(t)
      PROVE  NothingInvalidWritten'
  BY <1>1, <1>2 DEF Update, UpdateFromSnapshot
<1>3. ASSUME NEW t \in Readers, Get(t) PROVE NothingInvalidWritten'
  BY <1>3 DEF Get, GetDefaults, GetCached, GetMisses, GetLoads, disk, saving, Goto,
              NothingInvalidWritten, TypeOK, Threads
<1>4. CASE Crash
  BY <1>4 DEF Crash, disk, NothingInvalidWritten, Threads
<1>5. CASE UNCHANGED vars
  BY <1>5 DEF vars, disk, saving, NothingInvalidWritten
<1> QED
  BY <1>2, <1>3, <1>4, <1>5, ValidSave DEF Next

\* The settings file never holds settings that _validate_settings raises on.
THEOREM OnlyValidStored == Spec => []FileIsValid
<1>1. Init => NothingInvalidWritten
  BY StoreAssumption DEF StoreAssumption, Init, NothingInvalidWritten, Threads
<1>2. TypeOK /\ NothingInvalidWritten => FileIsValid
  BY StoreAssumption DEF StoreAssumption, TypeOK, NothingInvalidWritten, FileIsValid, Stored
<1> QED
  BY <1>1, <1>2, ValidStep, TypeCorrect, PTL DEF Spec

-----------------------------------------------------------------------------
(* Any number of saves, as long as no two of them were between open() and   *)
(* os.replace at once: the temporary file is then its writer's own, and what *)
(* saves do to each other's settings and to the cache is bounded.           *)

\* What the steps below may use: the invariant, and that nothing has clashed.
Calm == IInv /\ ~clashed

\* The part of the invariant that speaks of files.
Files == NeverTorn /\ OwnTemporary

\* Nothing that has clashed is forgotten.
LEMMA ClashStays == [Next]_vars /\ clashed => clashed'
<1> SUFFICES ASSUME [Next]_vars, clashed PROVE clashed'
  OBVIOUS
<1>1. ASSUME NEW t, Save(t) PROVE clashed'
  BY <1>1 DEF Save, Refuse, Open, OpenFails, Enters, Dump, DumpFails, Replace, ReplaceFails,
              CleanUp, RefreshSettings, RefreshStamp, history
<1>2. ASSUME NEW t, Update(t) \/ UpdateFromSnapshot(t) \/ Get(t) PROVE clashed'
  BY <1>2 DEF Update, UpdateFromSnapshot, Begin, Get, GetDefaults, GetCached, GetMisses,
              GetLoads, history
<1>3. CASE Crash \/ UNCHANGED vars
  BY <1>3 DEF Crash, vars, history
<1> QED
  BY <1>1, <1>2, <1>3 DEF Next

\* Steps that leave the files alone, and let no save into its writing, keep
\* the files in order.
LEMMA FilesStay ==
  ASSUME Calm, UNCHANGED <<file, tmp, content, mtime>>,
         \A u \in Savers : pc'[u] \in {"opened", "dumped"} =>
           pc[u] = pc'[u] /\ fd'[u] = fd[u] /\ goal'[u] = goal[u],
         Writing' \subseteq Writing
  PROVE  Files'
<1>1. NeverTorn'
  BY DEF Calm, IInv, Orderly, NeverTorn
<1>2. OwnTemporary'
  BY DEF Calm, IInv, Orderly, OwnTemporary
<1> QED
  BY <1>1, <1>2 DEF Files

\* Steps that leave what is stored alone keep what saves and snapshots say of it.
LEMMA RestStays ==
  ASSUME Calm, Stored' = Stored,
         UnderWay' \subseteq UnderWay,
         \A u \in UnderWay' : goal'[u] = goal[u] /\ asked'[u] = asked[u] /\ beside'[u] = beside[u],
         \A u \in Savers : pc'[u] \in {"merged", "opened", "dumped"} =>
           pc[u] \in {"merged", "opened", "dumped"},
         \A u \in Savers : got'[u] # None =>
           got'[u] = got[u] /\ pc'[u] \in {"idle", "loading"} /\ beside'[u] = beside[u]
  PROVE  KeepsRest'
<1>1. \A u \in UnderWay' : Named(u)' = Named(u)
  BY DEF Named
<1>2. Concurrent' \subseteq Concurrent
  BY <1>1 DEF Concurrent
<1>3. ASSUME NEW t \in Savers, pc'[t] \in {"merged", "opened", "dumped"}, NEW k \in Keys \ Named(t)'
      PROVE  goal'[t][k] = Stored'[k]
  <2>1. t \in UnderWay'
    BY <1>3 DEF UnderWay
  <2> QED
    BY <1>1, <1>3, <2>1 DEF Calm, IInv, Orderly, KeepsRest
<1>4. ASSUME NEW t \in Savers, got'[t] # None
      PROVE  /\ pc'[t] \in {"idle", "loading"}
             /\ Concurrent' \subseteq beside'[t]
             /\ \A k \in Keys \ beside'[t] : got'[t][k] = Stored'[k]
  BY <1>2, <1>4 DEF Calm, IInv, Orderly, KeepsRest
<1>5. ASSUME NEW t \in UnderWay' PROVE Concurrent' \subseteq Named(t)'
  <2>1. t \in UnderWay /\ t \in Savers
    BY DEF UnderWay
  <2> QED
    BY <1>1, <1>2, <2>1 DEF Calm, IInv, Orderly, KeepsRest
<1> QED
  BY <1>3, <1>4, <1>5 DEF KeepsRest

\* Steps that leave the file and the cache alone keep the cache behind the file.
LEMMA CacheStays ==
  ASSUME Calm, Stored' = Stored, UNCHANGED <<file, cached, cachedAt>>,
         file # None => mtime'[file] = mtime[file],
         \A u \in Threads : stamp'[u] # None => file # None /\ stamp'[u] <= mtime[file],
         \A u \in Savers : pc'[u] = "refreshing" => pc[u] = "refreshing",
         Refreshing \subseteq Refreshing'
  PROVE  CacheFollows'
<1>1. Behind => Behind'
  BY DEF Behind
<1>2. Hit' => file = None \/ Hit
  BY DEF Hit
<1> QED
  BY <1>1, <1>2 DEF Calm, IInv, Orderly, CacheFollows

\* What is to be refreshed stays so while the saves that have replaced the file
\* stay where they are.
LEMMA RefreshingStays ==
  ASSUME \A u \in Savers : pc[u] = "replaced" =>
           pc'[u] = "replaced" /\ asked'[u] = asked[u] /\ beside[u] \subseteq beside'[u]
  PROVE  Refreshing \subseteq Refreshing'
<1>1. ASSUME NEW u \in Savers, pc[u] = "replaced", NEW k \in Named(u)
      PROVE  k \in Refreshing'
  <2>1. pc'[u] = "replaced" /\ k \in Named(u)'
    BY <1>1 DEF Named
  <2> QED
    BY <2>1 DEF Refreshing
<1> QED
  BY <1>1 DEF Refreshing

-----------------------------------------------------------------------------
(* One lemma for each kind of step.                                         *)

\* The bearings survive every step, whatever clashes.
LEMMA BearingsStep == IInv /\ [Next]_vars => Bearings'
<1> SUFFICES ASSUME IInv, [Next]_vars PROVE Bearings'
  OBVIOUS
<1> USE StoreAssumption DEF StoreAssumption, IInv, TypeOK, Bearings, Goto, Threads
<1>1. \A u \in Threads : pc'[u] \in {"replaced", "refreshing"} => file' # None
  BY TypeStep DEF Placed
<1>2. \A u \in Threads : pc'[u] \in {"refreshing", "loading"} => lock' = u
  <2>1. ASSUME NEW t \in Savers, Update(t) \/ UpdateFromSnapshot(t)
        PROVE  \A u \in Threads : pc'[u] \in {"refreshing", "loading"} => lock' = u
    BY <2>1 DEF Update, UpdateFromSnapshot, Begin, cache
  <2>2. ASSUME NEW t \in Savers, Save(t)
        PROVE  \A u \in Threads : pc'[u] \in {"refreshing", "loading"} => lock' = u
    <3>1. CASE RefreshSettings(t)
      BY <3>1 DEF RefreshSettings
    <3>2. CASE RefreshStamp(t)
      BY <3>2 DEF RefreshStamp, Answer
    <3>3. CASE Refuse(t) \/ Open(t) \/ OpenFails(t) \/ Dump(t) \/ DumpFails(t) \/ Replace(t)
               \/ ReplaceFails(t) \/ CleanUp(t)
      BY <3>3 DEF Refuse, Open, OpenFails, Dump, DumpFails, Replace, ReplaceFails, CleanUp,
                  Answer, cache
    <3> QED
      BY <2>2, <3>1, <3>2, <3>3 DEF Save
  <2>3. ASSUME NEW t \in Readers, Get(t)
        PROVE  \A u \in Threads : pc'[u] \in {"refreshing", "loading"} => lock' = u
    BY <2>3 DEF Get, GetDefaults, GetCached, GetMisses, GetLoads, cache
  <2>4. CASE Crash \/ UNCHANGED vars
    BY <2>4 DEF Crash, vars, cache
  <2> QED
    BY <2>1, <2>2, <2>3, <2>4 DEF Next
<1>3. \A i \in Inodes : mtime'[i] <= clock'
  <2>1. ASSUME NEW i, NEW what, Write(i, what) PROVE \A j \in Inodes : mtime'[j] <= clock'
    BY <2>1 DEF Write
  <2>2. ASSUME NEW t \in Savers, Open(t) \/ Dump(t) \/ DumpFails(t)
        PROVE  \A j \in Inodes : mtime'[j] <= clock'
    BY <2>1, <2>2 DEF Open, Dump, DumpFails
  <2>3. CASE UNCHANGED <<mtime, clock>>
    BY <2>3
  <2>4. ASSUME NEW t \in Savers, Save(t), ~(Open(t) \/ Dump(t) \/ DumpFails(t))
        PROVE  UNCHANGED <<mtime, clock>>
    BY <2>4 DEF Save, Refuse, OpenFails, Replace, ReplaceFails, CleanUp, RefreshSettings,
                RefreshStamp, disk
  <2>5. ASSUME ~\E t \in Savers : Save(t) PROVE UNCHANGED <<mtime, clock>>
    BY <2>5 DEF Next, Update, UpdateFromSnapshot, Begin, Get, GetDefaults, GetCached,
                GetMisses, GetLoads, Crash, disk, vars
  <2> QED
    BY <2>2, <2>3, <2>4, <2>5
<1> QED
  BY <1>1, <1>2, <1>3

\* A write to an inode that is not the settings file changes nothing stored.
LEMMA WriteElsewhere ==
  ASSUME IInv, NEW i \in Inodes, i # file, NEW what, Write(i, what), file' = file
  PROVE  /\ Stored' = Stored
         /\ file # None => content'[file] = content[file] /\ mtime'[file] = mtime[file]
         /\ content'[i] = what
         /\ file # None => mtime[file] < mtime'[i]
<1>1. file # None => content'[file] = content[file] /\ mtime'[file] = mtime[file]
  BY DEF Write, IInv, TypeOK
<1>2. file # None => mtime[file] < mtime'[i]
  BY DEF Write, IInv, TypeOK, Bearings
<1>3. content'[i] = what
  BY DEF Write, IInv, TypeOK
<1>4. Stored' = Stored
  BY <1>1 DEF Stored
<1> QED
  BY <1>1, <1>2, <1>3, <1>4

\* open(), of a save that gets there alone.
LEMMA OpenStep ==
  ASSUME Calm, ~clashed', NEW t \in Savers, Open(t)
  PROVE  Orderly'
<1> USE DEF Goto, Threads
<1>1. PICK i \in Target : Write(i, Empty) /\ tmp' = i /\ fd' = [fd EXCEPT ![t] = i]
  BY DEF Open
<1>2. i \in Inodes /\ i # file
  BY <1>1 DEF Target, InUse, Calm, IInv, Orderly, OwnTemporary, TypeOK
<1>3. /\ Writing = {} /\ pc[t] = "merged" /\ beside' = beside
      /\ UNCHANGED <<file, cached, cachedAt, goal, asked, stamp, got>>
  BY DEF Open, Accepts, Enters, cache
<1>4. t \in Threads /\ pc'[t] = "opened" /\ \A u \in Threads : u # t => pc'[u] = pc[u]
  BY DEF Open, Calm, IInv, TypeOK
<1>5. /\ Stored' = Stored
      /\ file # None => content'[file] = content[file] /\ mtime'[file] = mtime[file]
      /\ content'[i] = Empty
      /\ file # None => mtime[file] < mtime'[i]
  BY <1>1, <1>2, <1>3, WriteElsewhere DEF Calm
<1>6. Files'
  <2>1. \A u \in Savers : u # t => pc'[u] \notin {"opened", "dumped", "failed"}
    BY <1>3, <1>4 DEF Writing
  <2>2. fd'[t] = i /\ pc'[t] = "opened" /\ i # None
    BY <1>1, <1>2, <1>4, StoreAssumption DEF StoreAssumption, Calm, IInv, TypeOK
  <2>3. NeverTorn'
    BY <1>3, <1>5 DEF NeverTorn, Calm, IInv, Orderly
  <2>4. OwnTemporary'
    BY <1>1, <1>2, <1>3, <1>5, <2>1, <2>2 DEF OwnTemporary, Writing
  <2> QED
    BY <2>3, <2>4 DEF Files
<1>7. CacheFollows'
  <2>1. Refreshing \subseteq Refreshing'
    BY <1>3, <1>4, RefreshingStays
  <2> QED
    BY <1>3, <1>4, <1>5, <2>1, CacheStays DEF Calm, IInv, Orderly, CacheFollows
<1>8. KeepsRest'
  <2>1. UnderWay' \subseteq UnderWay
    BY <1>3, <1>4 DEF UnderWay
  <2>2. \A u \in Savers : got[u] # None => pc'[u] \in {"idle", "loading"}
    BY <1>3, <1>4 DEF Calm, IInv, Orderly, KeepsRest
  <2> QED
    BY <1>3, <1>4, <1>5, <2>1, <2>2, RestStays
<1> QED
  BY <1>6, <1>7, <1>8 DEF Files, Orderly

\* A makedirs() or open() that fails, of a save that gets there alone.
LEMMA OpenFailsStep ==
  ASSUME Calm, ~clashed', NEW t \in Savers, OpenFails(t)
  PROVE  Orderly'
<1> USE DEF Goto, Threads
<1>1. /\ Writing = {} /\ pc[t] = "merged" /\ beside' = beside
      /\ UNCHANGED <<file, tmp, content, mtime, cached, cachedAt, fd, goal, asked, stamp, got>>
  BY DEF OpenFails, Accepts, Enters, disk, cache, saving
<1>2. t \in Threads /\ pc'[t] = "failed" /\ \A u \in Threads : u # t => pc'[u] = pc[u]
  BY DEF OpenFails, Calm, IInv, TypeOK
<1>3. Stored' = Stored
  BY <1>1 DEF Stored
<1>4. Files'
  <2>1. \A u \in Savers : u # t => pc'[u] \notin {"opened", "dumped", "failed"}
    BY <1>1, <1>2 DEF Writing
  <2> QED
    BY <1>1, <1>2, <2>1 DEF Files, NeverTorn, OwnTemporary, Writing, Calm, IInv, Orderly
<1>5. CacheFollows'
  <2>1. Refreshing \subseteq Refreshing'
    BY <1>1, <1>2, RefreshingStays
  <2> QED
    BY <1>1, <1>2, <1>3, <2>1, CacheStays DEF Calm, IInv, Orderly, CacheFollows
<1>6. KeepsRest'
  <2>1. UnderWay' \subseteq UnderWay
    BY <1>1, <1>2 DEF UnderWay
  <2>2. \A u \in Savers : got[u] # None => pc'[u] \in {"idle", "loading"}
    BY <1>1, <1>2 DEF Calm, IInv, Orderly, KeepsRest
  <2> QED
    BY <1>1, <1>2, <1>3, <2>1, <2>2, RestStays
<1> QED
  BY <1>4, <1>5, <1>6 DEF Files, Orderly

\* The one flush, and one that fails.
LEMMA DumpStep ==
  ASSUME Calm, NEW t \in Savers, Dump(t) \/ DumpFails(t)
  PROVE  Orderly' /\ Stored' = Stored
<1> USE DEF Goto, Threads
<1>1. /\ t \in Writing /\ pc[t] = "opened" /\ tmp = fd[t] /\ file # fd[t]
      /\ content[tmp] = Empty /\ fd[t] \in Inodes
  BY DEF Dump, DumpFails, Writing, Calm, IInv, TypeOK, Orderly, OwnTemporary
<1>2. \A u \in Savers : u # t => pc[u] \notin {"opened", "dumped", "failed"}
  BY <1>1 DEF Writing, Calm, IInv, Orderly, OwnTemporary
<1>3. PICK what : Write(fd[t], what)
  BY DEF Dump, DumpFails
<1>4. /\ UNCHANGED <<file, tmp, cached, cachedAt, fd, goal, asked, beside, stamp, got>>
      /\ t \in Threads /\ pc'[t] \in {"dumped", "failed"}
      /\ \A u \in Threads : u # t => pc'[u] = pc[u]
  BY DEF Dump, DumpFails, cache, saving, history, Calm, IInv, TypeOK
<1>5. /\ Stored' = Stored
      /\ file # None => content'[file] = content[file] /\ mtime'[file] = mtime[file]
      /\ content'[fd[t]] = what
      /\ file # None => mtime[file] < mtime'[fd[t]]
  BY <1>1, <1>3, <1>4, WriteElsewhere DEF Calm
<1>6. pc'[t] = "dumped" => content'[tmp] = goal[t]
  <2>1. CASE Dump(t)
    BY <1>1, <2>1 DEF Dump, Write, Calm, IInv, TypeOK
  <2>2. CASE DumpFails(t)
    BY <2>2, <1>4 DEF DumpFails, Calm, IInv, TypeOK
  <2> QED
    BY <2>1, <2>2
<1>7. Files'
  BY <1>1, <1>2, <1>4, <1>5, <1>6
     DEF Files, NeverTorn, OwnTemporary, Writing, Calm, IInv, Orderly
<1>8. CacheFollows'
  <2>1. Refreshing \subseteq Refreshing'
    BY <1>1, <1>4, RefreshingStays
  <2> QED
    BY <1>4, <1>5, <2>1, CacheStays DEF Calm, IInv, Orderly, CacheFollows
<1>9. KeepsRest'
  <2>1. UnderWay' \subseteq UnderWay
    BY <1>1, <1>4 DEF UnderWay
  <2>2. \A u \in Savers : got[u] # None => pc'[u] \in {"idle", "loading"}
    BY <1>1, <1>4 DEF Calm, IInv, Orderly, KeepsRest
  <2> QED
    BY <1>1, <1>4, <1>5, <2>1, <2>2, RestStays
<1> QED
  BY <1>5, <1>7, <1>8, <1>9 DEF Files, Orderly

\* os.replace: the save's own settings are the file's from now on, and what
\* they change is named by it or beside it.
LEMMA ReplaceStep ==
  ASSUME Calm, NEW t \in Savers, Replace(t)
  PROVE  /\ Orderly' /\ Stored' = goal[t]
         /\ \A k \in Keys \ Named(t) : Stored'[k] = Stored[k]
<1> USE DEF Goto, Threads
<1>1. /\ t \in Writing /\ t \in UnderWay /\ pc[t] = "dumped" /\ tmp = fd[t] /\ file # fd[t]
      /\ content[tmp] = goal[t] /\ fd[t] \in Inodes /\ goal[t] \in Settings
      /\ file # None => mtime[file] < mtime[tmp]
  BY DEF Replace, Writing, UnderWay, Calm, IInv, TypeOK, Orderly, OwnTemporary
<1>2. \A u \in Savers : u # t => pc[u] \notin {"opened", "dumped", "failed"}
  BY <1>1 DEF Writing, Calm, IInv, Orderly, OwnTemporary
<1>3. /\ UNCHANGED <<content, mtime, cached, cachedAt, goal, asked, beside, stamp, got>>
      /\ file' = tmp /\ tmp' = None
      /\ t \in Threads /\ pc'[t] = "replaced"
      /\ \A u \in Threads : u # t => pc'[u] = pc[u]
  BY DEF Replace, cache, history, Calm, IInv, TypeOK
<1>4. file' \in Inodes /\ file' # None
  BY <1>1, <1>3, StoreAssumption DEF StoreAssumption
<1>5. Stored' = goal[t]
  BY <1>1, <1>3, <1>4, StoreAssumption DEF StoreAssumption, Stored
<1>6. \A k \in Keys \ Named(t) : Stored'[k] = Stored[k]
  BY <1>1, <1>5 DEF Calm, IInv, Orderly, KeepsRest
<1>7. Files'
  BY <1>1, <1>2, <1>3, <1>4 DEF Files, NeverTorn, OwnTemporary, Writing, Calm, IInv, Orderly
<1>8. Refreshing \cup Named(t) \subseteq Refreshing'
  <2>1. Refreshing \subseteq Refreshing'
    BY <1>1, <1>3, RefreshingStays
  <2>2. Named(t) \subseteq Refreshing'
    BY <1>3 DEF Refreshing, Named
  <2> QED
    BY <2>1, <2>2
<1>9. CacheFollows'
  <2>1. Behind => Behind'
    BY <1>3, <1>6, <1>8 DEF Behind
  <2>2. cachedAt # None => cachedAt <= mtime'[file'] /\ cachedAt # mtime'[file']
    BY <1>1, <1>3, <1>4 DEF Calm, IInv, TypeOK, Orderly, CacheFollows
  <2>3. \A u \in Threads : stamp'[u] # None => stamp'[u] <= mtime'[file']
    BY <1>1, <1>3, <1>4 DEF Calm, IInv, TypeOK, Orderly, CacheFollows
  <2>4. ~Hit'
    BY <1>3, <1>4, <2>2, StoreAssumption DEF StoreAssumption, Hit, Calm, IInv, TypeOK
  <2>5. \A u \in Savers : pc'[u] = "refreshing" => pc[u] = "refreshing"
    BY <1>3
  <2> QED
    BY <1>3, <1>4, <2>1, <2>2, <2>3, <2>4, <2>5 DEF CacheFollows, Calm, IInv, Orderly
<1>10. KeepsRest'
  <2>1. UnderWay' = UnderWay
    BY <1>1, <1>3 DEF UnderWay
  <2>2. \A u \in Threads : Named(u)' = Named(u)
    BY <1>3 DEF Named
  <2>3. Concurrent' = Concurrent /\ Named(t) \subseteq Concurrent
    BY <1>1, <2>1, <2>2 DEF Concurrent, UnderWay
  <2>4. ASSUME NEW u \in Savers, pc'[u] \in {"merged", "opened", "dumped"},
               NEW k \in Keys \ Named(u)'
        PROVE  goal'[u][k] = Stored'[k]
    <3>1. u # t /\ u \in UnderWay /\ pc[u] \in {"merged", "opened", "dumped"}
      BY <1>3, <2>4 DEF UnderWay
    <3>2. k \in Keys \ Named(u) /\ k \in Keys \ Named(t)
      BY <2>2, <2>3, <2>4, <3>1 DEF Calm, IInv, Orderly, KeepsRest
    <3> QED
      BY <1>3, <1>6, <3>1, <3>2 DEF Calm, IInv, Orderly, KeepsRest
  <2>5. ASSUME NEW u \in Savers, got'[u] # None
        PROVE  /\ pc'[u] \in {"idle", "loading"}
               /\ Concurrent' \subseteq beside'[u]
               /\ \A k \in Keys \ beside'[u] : got'[u][k] = Stored'[k]
    <3>1. u # t /\ Concurrent \subseteq beside[u] /\ pc[u] \in {"idle", "loading"}
      BY <1>1, <1>3, <2>5 DEF Calm, IInv, Orderly, KeepsRest
    <3> QED
      BY <1>3, <1>6, <2>3, <2>5, <3>1 DEF Calm, IInv, Orderly, KeepsRest
  <2>6. \A u \in UnderWay' : Concurrent' \subseteq Named(u)'
    BY <2>1, <2>2, <2>3 DEF UnderWay, Calm, IInv, Orderly, KeepsRest
  <2> QED
    BY <2>4, <2>5, <2>6 DEF KeepsRest
<1> QED
  BY <1>5, <1>6, <1>7, <1>9, <1>10 DEF Files, Orderly

\* A call that returns, with nothing stored by this step, keeps what the others
\* say of the file.
LEMMA AnswerKeepsRest ==
  ASSUME Calm, NEW t \in Savers, pc[t] # "idle", pc[t] # "loading",
         NEW ok, Answer(t, ok), Stored' = Stored, got' = got
  PROVE  KeepsRest'
<1> USE DEF Goto, Threads
<1>1. /\ t \in Threads /\ pc'[t] = "idle"
      /\ \A u \in Threads : u # t => /\ pc'[u] = pc[u] /\ goal'[u] = goal[u]
                                     /\ asked'[u] = asked[u] /\ beside'[u] = beside[u]
  BY DEF Answer, Calm, IInv, TypeOK
<1>2. UnderWay' \subseteq UnderWay /\ t \notin UnderWay'
  BY <1>1 DEF UnderWay
<1>3. got[t] = None
  BY DEF Calm, IInv, Orderly, KeepsRest
<1>4. \A u \in Savers : got[u] # None => u # t /\ pc'[u] \in {"idle", "loading"}
  BY <1>1, <1>3 DEF Calm, IInv, Orderly, KeepsRest
<1>5. \A u \in UnderWay' : goal'[u] = goal[u] /\ asked'[u] = asked[u] /\ beside'[u] = beside[u]
  BY <1>1, <1>2 DEF UnderWay
<1>6. \A u \in Savers : got'[u] # None =>
        got'[u] = got[u] /\ pc'[u] \in {"idle", "loading"} /\ beside'[u] = beside[u]
  BY <1>1, <1>4
<1>7. \A u \in Savers : pc'[u] \in {"merged", "opened", "dumped"} =>
        pc[u] \in {"merged", "opened", "dumped"}
  BY <1>1
<1> QED
  BY <1>2, <1>5, <1>6, <1>7, RestStays

\* A save that is refused has touched nothing.
LEMMA RefuseStep ==
  ASSUME Calm, NEW t \in Savers, Refuse(t)
  PROVE  Orderly' /\ Stored' = Stored
<1> USE DEF Goto, Threads
<1>1. /\ UNCHANGED <<file, tmp, content, mtime, cached, cachedAt, fd, stamp, got>>
      /\ Answer(t, FALSE) /\ pc[t] = "merged"
  BY DEF Refuse, disk, cache
<1>2. /\ t \in Threads /\ pc'[t] = "idle"
      /\ \A u \in Threads : u # t => /\ pc'[u] = pc[u] /\ goal'[u] = goal[u]
                                     /\ asked'[u] = asked[u] /\ beside'[u] = beside[u]
  BY <1>1 DEF Answer, Calm, IInv, TypeOK
<1>3. Stored' = Stored
  BY <1>1 DEF Stored
<1>4. Files'
  BY <1>1, <1>2, FilesStay DEF Writing
<1>5. CacheFollows'
  <2>1. Refreshing \subseteq Refreshing'
    BY <1>1, <1>2, RefreshingStays
  <2> QED
    BY <1>1, <1>2, <1>3, <2>1, CacheStays DEF Calm, IInv, Orderly, CacheFollows
<1>6. KeepsRest'
  BY <1>1, <1>3, AnswerKeepsRest
<1> QED
  BY <1>3, <1>4, <1>5, <1>6 DEF Files, Orderly

\* A replace that fails leaves its writer to clean up.
LEMMA ReplaceFailsStep ==
  ASSUME Calm, NEW t \in Savers, ReplaceFails(t)
  PROVE  Orderly' /\ Stored' = Stored
<1> USE DEF Goto, Threads
<1>1. /\ UNCHANGED <<file, tmp, content, mtime, cached, cachedAt, fd, goal, asked, beside, stamp, got>>
      /\ pc[t] = "dumped"
  BY DEF ReplaceFails, disk, cache, saving, history
<1>2. t \in Threads /\ pc'[t] = "failed" /\ \A u \in Threads : u # t => pc'[u] = pc[u]
  BY DEF ReplaceFails, Calm, IInv, TypeOK
<1>3. Stored' = Stored
  BY <1>1 DEF Stored
<1>4. Files'
  BY <1>1, <1>2, FilesStay DEF Writing
<1>5. CacheFollows'
  <2>1. Refreshing \subseteq Refreshing'
    BY <1>1, <1>2, RefreshingStays
  <2> QED
    BY <1>1, <1>2, <1>3, <2>1, CacheStays DEF Calm, IInv, Orderly, CacheFollows
<1>6. KeepsRest'
  <2>1. UnderWay' \subseteq UnderWay
    BY <1>1, <1>2 DEF UnderWay
  <2>2. \A u \in Savers : got[u] # None => pc'[u] \in {"idle", "loading"}
    BY <1>1, <1>2 DEF Calm, IInv, Orderly, KeepsRest
  <2> QED
    BY <1>1, <1>2, <1>3, <2>1, <2>2, RestStays
<1> QED
  BY <1>3, <1>4, <1>5, <1>6 DEF Files, Orderly

\* The clean-up removes the temporary file, which is nobody else's.
LEMMA CleanUpStep ==
  ASSUME Calm, NEW t \in Savers, CleanUp(t)
  PROVE  Orderly' /\ Stored' = Stored
<1> USE DEF Goto, Threads
<1>1. /\ UNCHANGED <<file, content, mtime, cached, cachedAt, stamp, got>>
      /\ tmp' = None /\ Answer(t, FALSE) /\ pc[t] = "failed"
  BY DEF CleanUp, cache
<1>2. /\ t \in Threads /\ pc'[t] = "idle"
      /\ \A u \in Threads : u # t => /\ pc'[u] = pc[u] /\ goal'[u] = goal[u]
                                     /\ asked'[u] = asked[u] /\ beside'[u] = beside[u]
  BY <1>1 DEF Answer, Calm, IInv, TypeOK
<1>3. Stored' = Stored
  BY <1>1 DEF Stored
<1>4. Files'
  <2>1. \A u \in Savers : pc'[u] \notin {"opened", "dumped", "failed"}
    BY <1>1, <1>2 DEF Writing, Calm, IInv, Orderly, OwnTemporary
  <2> QED
    BY <1>1, <2>1 DEF Files, NeverTorn, OwnTemporary, Writing, Calm, IInv, Orderly
<1>5. CacheFollows'
  <2>1. Refreshing \subseteq Refreshing'
    BY <1>1, <1>2, RefreshingStays
  <2> QED
    BY <1>1, <1>2, <1>3, <2>1, CacheStays DEF Calm, IInv, Orderly, CacheFollows
<1>6. KeepsRest'
  BY <1>1, <1>3, AnswerKeepsRest
<1> QED
  BY <1>3, <1>4, <1>5, <1>6 DEF Files, Orderly

\* The settings the cache is refreshed with are the file's of that moment.
LEMMA RefreshSettingsStep ==
  ASSUME Calm, NEW t \in Savers, RefreshSettings(t)
  PROVE  Orderly' /\ Stored' = Stored
<1> USE DEF Goto, Threads
<1>1. /\ UNCHANGED <<file, tmp, content, mtime, cachedAt, fd, goal, asked, beside, stamp, got>>
      /\ pc[t] = "replaced" /\ cached' = Stored
  BY DEF RefreshSettings, disk, saving, history
<1>2. t \in Threads /\ pc'[t] = "refreshing" /\ \A u \in Threads : u # t => pc'[u] = pc[u]
  BY DEF RefreshSettings, Calm, IInv, TypeOK
<1>3. Stored' = Stored
  BY <1>1 DEF Stored
<1>4. Files'
  BY <1>1, <1>2, FilesStay DEF Writing
<1>5. Behind'
  BY <1>1, <1>3, StoredIsSettings, StoreAssumption
     DEF Calm, IInv, StoreAssumption, Behind
<1>6. CacheFollows'
  BY <1>1, <1>5 DEF CacheFollows, Calm, IInv, Orderly
<1>7. KeepsRest'
  <2>1. UnderWay' \subseteq UnderWay
    BY <1>1, <1>2 DEF UnderWay
  <2>2. \A u \in Savers : got[u] # None => pc'[u] \in {"idle", "loading"}
    BY <1>1, <1>2 DEF Calm, IInv, Orderly, KeepsRest
  <2> QED
    BY <1>1, <1>2, <1>3, <2>1, <2>2, RestStays
<1> QED
  BY <1>3, <1>4, <1>6, <1>7 DEF Files, Orderly

\* The mtime they are filed under may already be a later save's, which is then
\* still to refresh the cache itself.
LEMMA RefreshStampStep ==
  ASSUME Calm, NEW t \in Savers, RefreshStamp(t)
  PROVE  Orderly' /\ Stored' = Stored
<1> USE DEF Goto, Threads
<1>1. /\ UNCHANGED <<file, tmp, content, mtime, cached, fd, stamp, got>>
      /\ cachedAt' = mtime[file] /\ Answer(t, TRUE) /\ pc[t] = "refreshing"
  BY DEF RefreshStamp, disk
<1>2. /\ t \in Threads /\ pc'[t] = "idle"
      /\ \A u \in Threads : u # t => /\ pc'[u] = pc[u] /\ goal'[u] = goal[u]
                                     /\ asked'[u] = asked[u] /\ beside'[u] = beside[u]
  BY <1>1 DEF Answer, Calm, IInv, TypeOK
<1>3. Stored' = Stored
  BY <1>1 DEF Stored
<1>4. Files'
  BY <1>1, <1>2, FilesStay DEF Writing
<1>5. Refreshing \subseteq Refreshing'
  BY <1>1, <1>2, RefreshingStays
<1>6. file # None /\ mtime[file] \in Nat
  BY <1>1 DEF Calm, IInv, TypeOK, Bearings
<1>7. Behind'
  BY <1>1, <1>3, <1>5 DEF Behind, Calm, IInv, Orderly, CacheFollows
<1>8. CacheFollows'
  BY <1>1, <1>6, <1>7 DEF CacheFollows, Calm, IInv, Orderly
<1>9. KeepsRest'
  BY <1>1, <1>3, AnswerKeepsRest
<1> QED
  BY <1>3, <1>4, <1>8, <1>9 DEF Files, Orderly

\* A call of update_settings joins those under way: what it is about to save
\* differs from the file in the keys it names, or its hook does, and in those its
\* snapshot is too old for.
LEMMA BeginStep ==
  ASSUME Calm, NEW t \in Savers, NEW named, NEW d, NEW since,
         \A k \in Keys \ (named \cup since) : k \in DOMAIN d => d[k] = Stored[k],
         Begin(t, named, d, since)
  PROVE  Orderly' /\ Stored' = Stored
<1> USE DEF Goto, Threads
<1>1. PICK h \in [{} -> Values] \cup [HookKeys -> Values] :
        /\ goal' = [goal EXCEPT ![t] = Merged(d, h)]
        /\ asked' = [asked EXCEPT ![t] = named \cup DOMAIN h]
        /\ Joins(t, named \cup DOMAIN h, since)
  BY DEF Begin
<1> DEFINE new == named \cup DOMAIN h \cup since \cup Concurrent
<1>2. /\ UNCHANGED <<file, tmp, content, mtime, cached, cachedAt, fd, stamp>>
      /\ t \in Threads /\ pc[t] = "idle" /\ pc'[t] = "merged" /\ got'[t] = None
      /\ \A u \in Threads : u # t => /\ pc'[u] = pc[u] /\ got'[u] = got[u]
                                     /\ goal'[u] = goal[u] /\ asked'[u] = asked[u]
  BY <1>1 DEF Begin, disk, cache, Calm, IInv, TypeOK
<1>3. Stored' = Stored
  BY <1>2 DEF Stored
<1>4. goal'[t] = Merged(d, h) /\ asked'[t] = named \cup DOMAIN h
  BY <1>1, <1>2 DEF Calm, IInv, TypeOK
<1>5. Files'
  BY <1>2, FilesStay DEF Writing
<1>6. /\ beside'[t] = since \cup Concurrent
      /\ \A u \in Threads : u # t /\ (u \in UnderWay \/ got[u] # None) =>
           beside'[u] = beside[u] \cup named \cup DOMAIN h \cup since \cup Concurrent
  BY <1>1, <1>2 DEF Joins
<1>7. CacheFollows'
  <2>1. \A u \in Savers : pc[u] = "replaced" => beside[u] \subseteq beside'[u]
    BY <1>2, <1>6 DEF UnderWay
  <2>2. Refreshing \subseteq Refreshing'
    BY <1>2, <2>1, RefreshingStays
  <2> QED
    BY <1>2, <1>3, <2>2, CacheStays DEF Calm, IInv, Orderly, CacheFollows
<1>8. UnderWay' = UnderWay \cup {t} /\ t \notin UnderWay
  BY <1>2 DEF UnderWay
<1>9. /\ Named(t)' = new
      /\ \A u \in UnderWay : Named(u)' = Named(u) \cup new /\ Named(u) \subseteq Concurrent
  <2>1. Named(t)' = new
    BY <1>4, <1>6 DEF Named
  <2>2. ASSUME NEW u \in UnderWay
        PROVE  Named(u)' = Named(u) \cup new /\ Named(u) \subseteq Concurrent
    <3>1. Named(u) \subseteq Concurrent
      BY DEF Concurrent
    <3>2. u # t /\ u \in Threads
      BY <1>8 DEF UnderWay
    <3> QED
      BY <1>2, <1>6, <3>1, <3>2 DEF Named
  <2> QED
    BY <2>1, <2>2
<1>10. Concurrent' \subseteq new
  <2>1. ASSUME NEW u \in UnderWay' PROVE Named(u)' \subseteq new
    BY <1>8, <1>9
  <2> QED
    BY <2>1 DEF Concurrent
<1>11. KeepsRest'
  <2>1. ASSUME NEW k \in Keys \ new PROVE goal'[t][k] = Stored'[k]
    BY <1>3, <1>4 DEF Merged, Merge
  <2>2. ASSUME NEW u \in Savers, pc'[u] \in {"merged", "opened", "dumped"},
               NEW k \in Keys \ Named(u)'
        PROVE  goal'[u][k] = Stored'[k]
    <3>1. CASE u = t
      BY <1>9, <2>1, <2>2, <3>1
    <3>2. CASE u # t
      <4>1. u \in UnderWay /\ pc[u] \in {"merged", "opened", "dumped"}
        BY <1>2, <2>2, <3>2 DEF UnderWay
      <4> QED
        BY <1>2, <1>3, <1>9, <2>2, <3>2, <4>1 DEF Calm, IInv, Orderly, KeepsRest
    <3> QED
      BY <3>1, <3>2
  <2>3. ASSUME NEW u \in Savers, got'[u] # None
        PROVE  /\ pc'[u] \in {"idle", "loading"}
               /\ Concurrent' \subseteq beside'[u]
               /\ \A k \in Keys \ beside'[u] : got'[u][k] = Stored'[k]
    <3>1. u # t /\ got[u] # None /\ got'[u] = got[u]
      BY <1>2, <2>3
    <3> HIDE DEF new
    <3>2. beside'[u] = beside[u] \cup new
      BY <1>6, <3>1 DEF new
    <3> QED
      BY <1>2, <1>3, <1>10, <3>1, <3>2 DEF Calm, IInv, Orderly, KeepsRest
  <2>4. \A u \in UnderWay' : Concurrent' \subseteq Named(u)'
    <3> HIDE DEF new
    <3> QED
      BY <1>8, <1>9, <1>10
  <2> QED
    BY <2>2, <2>3, <2>4 DEF KeepsRest, UnderWay
<1> QED
  BY <1>3, <1>5, <1>7, <1>11 DEF Files, Orderly

\* What a call of update_settings starts from is the file, or a snapshot that
\* is as old as the history says.
LEMMA UpdateStep ==
  ASSUME Calm, NEW t \in Savers, Update(t) \/ UpdateFromSnapshot(t)
  PROVE  Orderly' /\ Stored' = Stored
<1>1. CASE Update(t)
  <2>1. PICK d \in Changes : Begin(t, DOMAIN d, d, {})
    BY <1>1 DEF Update
  <2> QED
    BY <2>1, BeginStep
<1>2. CASE UpdateFromSnapshot(t)
  <2>1. PICK d \in Changes : Begin(t, DOMAIN d, Merge(got[t], d), beside[t])
    BY <1>2 DEF UpdateFromSnapshot
  <2>2. \A k \in Keys \ beside[t] : got[t][k] = Stored[k]
    BY <1>2 DEF UpdateFromSnapshot, Calm, IInv, Orderly, KeepsRest
  <2>3. \A k \in Keys \ (DOMAIN d \cup beside[t]) : Merge(got[t], d)[k] = Stored[k]
    BY <2>2 DEF Merge
  <2> QED
    BY <2>1, <2>3, BeginStep
<1> QED
  BY <1>1, <1>2

\* A snapshot is as fresh as the saves under way leave it.
LEMMA HandsKeepsRest ==
  ASSUME Calm, NEW t \in Threads, NEW x, Hands(t, x), Stored' = Stored,
         \A k \in Keys \ Concurrent : x[k] = Stored[k],
         pc[t] \in {"idle", "loading"}, pc'[t] = "idle",
         \A u \in Threads : u # t => pc'[u] = pc[u],
         UNCHANGED <<goal, asked>>
  PROVE  KeepsRest'
<1>1. /\ got'[t] = x /\ beside'[t] = Concurrent
      /\ \A u \in Threads : u # t => got'[u] = got[u] /\ beside'[u] = beside[u]
  BY DEF Hands, Calm, IInv, TypeOK
<1>2. UnderWay' = UnderWay /\ t \notin UnderWay
  BY DEF UnderWay, Threads
<1>3. \A u \in UnderWay : Named(u)' = Named(u)
  BY <1>1, <1>2 DEF Named, UnderWay, Threads
<1>4. Concurrent' = Concurrent
  BY <1>2, <1>3 DEF Concurrent
<1>5. ASSUME NEW u \in Savers, pc'[u] \in {"merged", "opened", "dumped"},
             NEW k \in Keys \ Named(u)'
      PROVE  goal'[u][k] = Stored'[k]
  <2>1. u # t /\ u \in UnderWay /\ pc[u] = pc'[u]
    BY <1>5 DEF UnderWay, Threads
  <2> QED
    BY <1>3, <1>5, <2>1 DEF Calm, IInv, Orderly, KeepsRest
<1>6. ASSUME NEW u \in Savers, got'[u] # None
      PROVE  /\ pc'[u] \in {"idle", "loading"}
             /\ Concurrent' \subseteq beside'[u]
             /\ \A k \in Keys \ beside'[u] : got'[u][k] = Stored'[k]
  <2>1. CASE u = t
    BY <1>1, <1>4, <2>1
  <2>2. CASE u # t
    BY <1>1, <1>4, <1>6, <2>2 DEF Calm, IInv, Orderly, KeepsRest, Threads
  <2> QED
    BY <2>1, <2>2
<1>7. \A u \in UnderWay' : Concurrent' \subseteq Named(u)'
  BY <1>2, <1>3, <1>4 DEF UnderWay, Calm, IInv, Orderly, KeepsRest
<1> QED
  BY <1>5, <1>6, <1>7 DEF KeepsRest

\* Reading leaves the files alone, and serves what is at most as old as the
\* saves that are still to refresh the cache.
LEMMA GetStep ==
  ASSUME Calm, NEW t \in Readers, Get(t)
  PROVE  Orderly' /\ Stored' = Stored
<1> USE DEF Goto
<1>1. /\ UNCHANGED <<file, tmp, content, mtime, fd, goal, asked>>
      /\ t \in Threads /\ pc[t] \in {"idle", "loading"} /\ pc'[t] \in {"idle", "loading"}
      /\ \A u \in Threads : u # t => pc'[u] = pc[u]
  BY DEF Get, GetDefaults, GetCached, GetMisses, GetLoads, disk, saving, Calm, IInv, TypeOK,
         Threads
<1>2. Stored' = Stored
  BY <1>1 DEF Stored
<1>3. Files'
  <2>1. \A u \in Savers : pc'[u] \in {"opened", "dumped", "failed"} => pc[u] = pc'[u]
    BY <1>1 DEF Threads
  <2> QED
    BY <1>1, <2>1, FilesStay DEF Writing
<1>4. \A u \in Threads : u # t => beside'[u] = beside[u]
  BY DEF Get, GetDefaults, GetCached, GetMisses, GetLoads, Hands, history, Calm, IInv, TypeOK
<1>5. Refreshing \subseteq Refreshing'
  <2>1. \A u \in Savers : pc[u] = "replaced" => u # t
    BY <1>1
  <2> QED
    BY <1>1, <1>4, <2>1, RefreshingStays DEF Threads
<1>6. \A u \in Savers : pc'[u] = "refreshing" => pc[u] = "refreshing"
  BY <1>1 DEF Threads
<1>7. CASE GetDefaults(t)
  <2>1. CacheFollows'
    <3>1. \A u \in Savers : pc[u] # "refreshing"
      BY <1>7, StoreAssumption DEF StoreAssumption, GetDefaults, Calm, IInv, Bearings, Threads
    <3> QED
      BY <1>1, <1>6, <1>7, <3>1 DEF GetDefaults, CacheFollows, Calm, IInv, Orderly
  <2>2. KeepsRest'
    BY <1>1, <1>2, <1>7, HandsKeepsRest DEF GetDefaults
  <2> QED
    BY <1>2, <1>3, <2>1, <2>2 DEF Files, Orderly
<1>8. CASE GetCached(t)
  <2>1. UNCHANGED <<cached, cachedAt, stamp, pc>> /\ Hands(t, cached) /\ Behind
    BY <1>8 DEF GetCached, cache, Calm, IInv, Orderly, CacheFollows
  <2>2. CacheFollows'
    BY <1>1, <1>2, <1>5, <1>6, <2>1, CacheStays DEF Calm, IInv, Orderly, CacheFollows
  <2>3. Refreshing \subseteq Concurrent
    BY DEF Refreshing, Concurrent, UnderWay
  <2>4. KeepsRest'
    BY <1>1, <1>2, <1>8, <2>1, <2>3, HandsKeepsRest DEF GetCached, Behind
  <2> QED
    BY <1>2, <1>3, <2>2, <2>4 DEF Files, Orderly
<1>9. CASE GetMisses(t)
  <2>1. UNCHANGED <<cached, cachedAt, got, beside>> /\ file # None /\ pc'[t] = "loading"
    BY <1>1, <1>9 DEF GetMisses, history, Calm, IInv, TypeOK
  <2>2. \A u \in Threads : stamp'[u] # None => stamp'[u] <= mtime[file]
    <3>1. mtime[file] \in Nat
      BY <2>1 DEF Calm, IInv, TypeOK
    <3> QED
      BY <1>9, <3>1 DEF GetMisses, Calm, IInv, TypeOK, Orderly, CacheFollows
  <2>3. CacheFollows'
    BY <1>1, <1>2, <1>5, <1>6, <2>1, <2>2, CacheStays
  <2>4. UnderWay' \subseteq UnderWay
    BY <1>1 DEF UnderWay, Threads
  <2>5. \A u \in Savers : got[u] # None => pc'[u] \in {"idle", "loading"}
    BY <1>1 DEF Calm, IInv, Orderly, KeepsRest, Threads
  <2>6. \A u \in Savers : pc'[u] \in {"merged", "opened", "dumped"} => pc[u] = pc'[u]
    BY <1>1 DEF Threads
  <2>7. KeepsRest'
    BY <1>1, <1>2, <2>1, <2>4, <2>5, <2>6, RestStays
  <2> QED
    BY <1>2, <1>3, <2>3, <2>7 DEF Files, Orderly
<1>10. CASE GetLoads(t)
  <2>1. /\ lock = t /\ pc[t] = "loading" /\ pc'[t] = "idle" /\ cached' = Stored
        /\ cachedAt' = stamp[t] /\ Hands(t, Stored)
        /\ \A u \in Threads : stamp'[u] # None => stamp'[u] = stamp[u]
    BY <1>1, <1>10 DEF GetLoads, Calm, IInv, Bearings, TypeOK
  <2>2. Behind'
    BY <1>2, <2>1, StoredIsSettings, StoreAssumption DEF StoreAssumption, Calm, IInv, Behind
  <2>3. CacheFollows'
    BY <1>1, <2>1, <2>2 DEF CacheFollows, Calm, IInv, Orderly
  <2>4. KeepsRest'
    BY <1>1, <1>2, <2>1, HandsKeepsRest
  <2> QED
    BY <1>2, <1>3, <2>3, <2>4 DEF Files, Orderly
<1> QED
  BY <1>7, <1>8, <1>9, <1>10 DEF Get

\* A restart forgets the cache and every call, and keeps the files.
LEMMA RestartStep ==
  ASSUME Calm, Crash \/ UNCHANGED vars
  PROVE  Orderly' /\ Stored' = Stored
<1>1. CASE Crash
  <2>1. UNCHANGED <<file, tmp, content, mtime>>
    BY <1>1 DEF Crash, disk
  <2>2. Stored' = Stored
    BY <2>1 DEF Stored
  <2>3. \A u \in Threads : pc'[u] = "idle" /\ got'[u] = None /\ stamp'[u] = None
    BY <1>1 DEF Crash
  <2>4. Files'
    BY <2>1, <2>3, FilesStay DEF Writing, Threads
  <2>5. CacheFollows'
    BY <1>1, <2>3 DEF Crash, CacheFollows, Hit, Threads
  <2>6. KeepsRest'
    BY <2>3 DEF KeepsRest, UnderWay, Threads
  <2> QED
    BY <2>2, <2>4, <2>5, <2>6 DEF Files, Orderly
<1>2. CASE UNCHANGED vars
  <2>1. UNCHANGED <<file, tmp, content, mtime, cached, cachedAt, pc, goal, asked, fd, stamp, got,
                   beside>>
    BY <1>2 DEF vars, disk, cache, saving, history
  <2>2. Stored' = Stored /\ Writing' = Writing /\ UnderWay' = UnderWay
    BY <2>1 DEF Stored, Writing, UnderWay
  <2>3. Files'
    BY <2>1, <2>2, FilesStay
  <2>4. Refreshing \subseteq Refreshing'
    BY <2>1, RefreshingStays
  <2>5. CacheFollows'
    BY <2>1, <2>2, <2>4, CacheStays DEF Calm, IInv, Orderly, CacheFollows
  <2>6. \A u \in Savers : got[u] # None => pc'[u] \in {"idle", "loading"}
    BY <2>1 DEF Calm, IInv, Orderly, KeepsRest
  <2>7. KeepsRest'
    BY <2>1, <2>2, <2>6, RestStays
  <2> QED
    BY <2>2, <2>3, <2>5, <2>7 DEF Files, Orderly
<1> QED
  BY <1>1, <1>2

-----------------------------------------------------------------------------
\* A save's step keeps the order, and only its replace changes what is stored.
LEMMA SaveStep ==
  ASSUME Calm, ~clashed', NEW t \in Savers, Save(t)
  PROVE  Orderly' /\ (Stored' = Stored \/ Replace(t))
<1>1. CASE Open(t) \/ OpenFails(t)
  <2>1. Stored' = Stored
    <3>1. CASE Open(t)
      <4>1. PICK i \in Target : Write(i, Empty)
        BY <3>1 DEF Open
      <4>2. i \in Inodes /\ i # file /\ file' = file
        BY <3>1, <4>1 DEF Open, Target, InUse, Calm, IInv, TypeOK, Orderly, OwnTemporary
      <4> QED
        BY <4>1, <4>2, WriteElsewhere DEF Calm
    <3>2. CASE OpenFails(t)
      BY <3>2 DEF OpenFails, disk, Stored
    <3> QED
      BY <1>1, <3>1, <3>2
  <2> QED
    BY <1>1, <2>1, OpenStep, OpenFailsStep
<1>2. CASE Dump(t) \/ DumpFails(t)
  BY <1>2, DumpStep
<1>3. CASE Replace(t)
  BY <1>3, ReplaceStep
<1>4. CASE Refuse(t) \/ ReplaceFails(t) \/ CleanUp(t) \/ RefreshSettings(t) \/ RefreshStamp(t)
  BY <1>4, RefuseStep, ReplaceFailsStep, CleanUpStep, RefreshSettingsStep, RefreshStampStep
<1> QED
  BY <1>1, <1>2, <1>3, <1>4 DEF Save

\* Every step that does not clash keeps the order, and only a replace changes
\* what is stored.
LEMMA OrderlyStep ==
  ASSUME Calm, ~clashed', [Next]_vars
  PROVE  /\ Orderly'
         /\ Stored' = Stored \/ \E t \in Savers : Replace(t)
<1>1. ASSUME NEW t \in Savers, Update(t) \/ UpdateFromSnapshot(t)
      PROVE  Orderly' /\ Stored' = Stored
  BY <1>1, UpdateStep
<1>2. ASSUME NEW t \in Savers, Save(t)
      PROVE  Orderly' /\ (Stored' = Stored \/ Replace(t))
  BY <1>2, SaveStep
<1>3. ASSUME NEW t \in Readers, Get(t) PROVE Orderly' /\ Stored' = Stored
  BY <1>3, GetStep
<1>4. CASE Crash \/ UNCHANGED vars
  BY <1>4, RestartStep
<1> QED
  BY <1>1, <1>2, <1>3, <1>4 DEF Next

\* The invariant is inductive.
LEMMA IInvStep == IInv /\ [Next]_vars => IInv'
<1> SUFFICES ASSUME IInv, [Next]_vars PROVE IInv'
  OBVIOUS
<1>1. TypeOK'
  BY TypeStep DEF IInv, Bearings, Placed
<1>2. Bearings'
  BY BearingsStep
<1>3. ~clashed' => Orderly'
  <2>1. SUFFICES ASSUME ~clashed' PROVE Orderly'
    OBVIOUS
  <2>2. Calm
    BY <2>1, ClashStays DEF Calm
  <2> QED
    BY <2>1, <2>2, OrderlyStep
<1> QED
  BY <1>1, <1>2, <1>3 DEF IInv

\* The invariant holds initially.
LEMMA IInvInit == Init => IInv
<1> SUFFICES ASSUME Init PROVE IInv
  OBVIOUS
<1>1. TypeOK
  BY TypeInit
<1>2. Bearings
  BY DEF Init, Bearings, Threads
<1>3. NeverTorn /\ OwnTemporary
  BY DEF Init, NeverTorn, OwnTemporary, Writing, Threads
<1>4. CacheFollows /\ KeepsRest
  BY StoreAssumption DEF StoreAssumption, Init, CacheFollows, KeepsRest, UnderWay, Threads
<1> QED
  BY <1>1, <1>2, <1>3, <1>4 DEF IInv, Orderly

\* Any number of threads may save: until two of them have been between open()
\* and os.replace at once, the one that writes has the temporary file to itself,
\* the cache is behind by no more than the saves still to refresh it, and no
\* save and no snapshot differs from the file but in keys named beside it.
THEOREM SavesInvariant == Spec => []IInv
  BY IInvInit, IInvStep, PTL DEF Spec

\* Whatever fails, overlaps or is cut short, settings.json becomes a file the
\* loader would replace by the defaults only after a clash of two writers.
THEOREM SavesTearByClashOnly == Spec => []TornByClashOnly
<1>1. IInv => TornByClashOnly
  BY DEF IInv, Orderly, TornByClashOnly
<1> QED
  BY <1>1, SavesInvariant, PTL

\* get_settings serves nothing stale once the saves that have replaced the file
\* have refreshed the cache, in whatever order they do.
THEOREM SavesKeepTheCache == Spec => []CacheIsTheFile
<1>1. IInv => CacheIsTheFile
  <2> SUFFICES ASSUME IInv, ~clashed, file # None, Hit, \A t \in Savers : pc[t] # "replaced"
               PROVE  cached = Stored
    BY DEF CacheIsTheFile
  <2>1. Refreshing = {} /\ Behind
    BY DEF Refreshing, IInv, Orderly, CacheFollows
  <2>2. cached \in Settings /\ Stored \in Settings
    BY <2>1, StoredIsSettings DEF IInv, TypeOK, Behind
  <2> QED
    BY <2>1, <2>2 DEF Behind, Settings
<1> QED
  BY <1>1, SavesInvariant, PTL

\* The step behind the two theorems below: with no clash, what is stored changes
\* by a replace, to its own save's settings, in the keys named by it or beside it.
LEMMA ChangeStep ==
  ASSUME IInv, ~clashed', [Next]_vars
  PROVE  /\ \A t \in Savers : Replaces(t) => Stored' = goal[t]
         /\ Stored' # Stored => \E t \in Savers : Replaces(t)
         /\ \A k \in Keys : Stored'[k] # Stored[k] =>
              \E t \in Savers : Replaces(t) /\ k \in Named(t)
<1>1. Calm
  BY ClashStays DEF Calm
<1>2. ASSUME NEW t \in Savers, Replace(t)
      PROVE  Replaces(t) /\ Stored' = goal[t] /\ \A k \in Keys \ Named(t) : Stored'[k] = Stored[k]
  BY <1>1, <1>2, ReplaceStep DEF Replaces, Replace, Goto, Calm, IInv, TypeOK, Threads
<1>3. ASSUME NEW t \in Savers, Replaces(t) PROVE Replace(t)
  <2> USE <1>3 DEF Replaces, Goto, IInv, TypeOK, Threads
  <2>1. ASSUME NEW u \in Savers, Update(u) \/ UpdateFromSnapshot(u) PROVE FALSE
    BY <2>1 DEF Update, UpdateFromSnapshot, Begin
  <2>2. ASSUME NEW u \in Savers, Save(u) PROVE Replace(t)
    BY <2>2 DEF Save, Refuse, Open, OpenFails, Dump, DumpFails, Replace, ReplaceFails, CleanUp,
                RefreshSettings, RefreshStamp, Answer
  <2>3. ASSUME NEW u \in Readers, Get(u) PROVE FALSE
    BY <2>3 DEF Get, GetDefaults, GetCached, GetMisses, GetLoads
  <2>4. CASE Crash \/ UNCHANGED vars
    BY <2>4 DEF Crash, vars
  <2> QED
    BY <2>1, <2>2, <2>3, <2>4 DEF Next
<1>4. Stored' = Stored \/ \E t \in Savers : Replace(t)
  BY <1>1, OrderlyStep
<1> QED
  BY <1>2, <1>3, <1>4

\* A save answers True for settings that its own replace has put in the file, and
\* no other step changes the file: False has left it alone.
THEOREM SavesAnswerTruly == Spec => AnsweredTruly
<1>1. IInv /\ [Next]_vars =>
        [~clashed' => /\ \A t \in Savers : Replaces(t) => Stored' = goal[t]
                      /\ Stored' # Stored => \E t \in Savers : Replaces(t)]_vars
  BY ChangeStep
<1> QED
  BY <1>1, SavesInvariant, PTL DEF Spec, AnsweredTruly

\* A save that overlaps others may put back what they have changed since it read
\* the file, and nothing else that it was not asked to change.
THEOREM SavesKeepTheRest == Spec => OnlyAskedChange
<1>1. IInv /\ [Next]_vars =>
        [~clashed' => \A k \in Keys : Stored'[k] # Stored[k] =>
           \E t \in Savers : Replaces(t) /\ k \in Named(t)]_vars
  BY ChangeStep
<1> QED
  BY <1>1, SavesInvariant, PTL DEF Spec, OnlyAskedChange

=============================================================================
