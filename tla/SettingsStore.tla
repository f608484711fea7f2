---------------------------- MODULE SettingsStore ----------------------------
(***************************************************************************)
(* The settings service (src/services/settings_service.py): settings.json, *)
(* the temporary file every save is written to, and the in-memory cache    *)
(* that is valid while the file's mtime is the one it was loaded under.    *)
(*                                                                         *)
(* A path names an inode and an open file keeps its own, so what two saves *)
(* do to the one temporary name is the file system's answer and not an     *)
(* assumption.  Only the cache is guarded by a lock, so saves overlap at   *)
(* will; two history variables say which of them have.                     *)
(***************************************************************************)
EXTENDS Integers, TLC

CONSTANTS
  Keys,        \* the settings
  Values,      \* what a setting may be
  Defaults,    \* DEFAULT_SETTINGS
  Invalid,     \* the settings _validate_settings raises on
  HookKeys,    \* the keys an update hook contributes (media_memory)
  Savers,      \* threads that call update_settings
  Readers,     \* threads that call get_settings
  Inodes,      \* the file system's inodes
  Empty, Torn, \* content json.load raises on: none yet; cut off or overlaid
  None,        \* Python's None
  MaxUpdates,  \* bound on calls of update_settings
  MaxCrashes   \* bound on restarts

Settings == [Keys -> Values]
Threads  == Savers \cup Readers

ASSUME StoreAssumption ==
  /\ Defaults \in Settings
  /\ Invalid \subseteq Settings
  /\ Defaults \notin Invalid
  /\ HookKeys \subseteq Keys
  /\ Empty \notin Settings /\ Torn \notin Settings /\ Empty # Torn
  /\ None \notin Settings /\ None \notin Inodes /\ None \notin Threads
  /\ None \notin Nat
  /\ MaxUpdates \in Nat /\ MaxCrashes \in Nat

VARIABLES
  file,      \* the inode named settings.json, None before the first save
  tmp,       \* the inode named settings.json.tmp, or None
  content,   \* what each inode holds
  mtime,     \* when each inode was last written
  clock,     \* the file system's clock
  cached,    \* _cached_settings
  cachedAt,  \* _cached_mtime
  lock,      \* the thread inside _cache_lock, or None
  pc,        \* position of each thread
  goal,      \* settings_to_save of each saver
  asked,     \* the keys each saver's request, or its hook, changes
  fd,        \* the inode each saver's temporary file is
  stamp,     \* current_mtime of each reader
  got,       \* what get_settings last returned to each thread, or None
  answer,    \* what update_settings last returned to each saver, or None
  beside,    \* history: keys named beside each save, or since its snapshot
  clashed,   \* history: two saves were between open() and os.replace at once
  updates,   \* calls of update_settings so far
  crashes    \* restarts so far

disk   == <<file, tmp, content, mtime, clock>>
cache  == <<cached, cachedAt, lock>>
saving == <<goal, asked, fd, answer>>
history == <<beside, clashed>>
bounds == <<updates, crashes>>
vars   == <<disk, cache, pc, saving, stamp, got, history, bounds>>

-----------------------------------------------------------------------------
Init ==
  /\ file = None /\ tmp = None
  /\ content = [i \in Inodes |-> Empty]
  /\ mtime = [i \in Inodes |-> 0]
  /\ clock = 0
  /\ cached = None /\ cachedAt = None /\ lock = None
  /\ pc = [t \in Threads |-> "idle"]
  /\ goal = [t \in Threads |-> Defaults]
  /\ asked = [t \in Threads |-> {}]
  /\ fd = [t \in Threads |-> None]
  /\ stamp = [t \in Threads |-> None]
  /\ got = [t \in Threads |-> None]
  /\ answer = [t \in Threads |-> None]
  /\ beside = [t \in Threads |-> {}]
  /\ clashed = FALSE
  /\ updates = 0
  /\ crashes = 0

Goto(t, where) == pc' = [pc EXCEPT ![t] = where]

\* _load_settings: anything that does not parse is answered with the defaults.
Stored == IF file = None \/ content[file] \in {Empty, Torn}
          THEN Defaults ELSE content[file]

Changes == UNION {[D -> Values] : D \in SUBSET Keys}
Merge(s, d) == [k \in Keys |-> IF k \in DOMAIN d THEN d[k] ELSE s[k]]

-----------------------------------------------------------------------------
(* update_settings and save_settings, on a thread of their own.            *)

\* Mutant of Merged: the settings on disk are not looked at.
MergedOntoDefaults(d, h) == Merge(Merge(Defaults, d), h)

\* The settings on disk, the request's changes d, then the hook's h.
Merged(d, h) == Merge(Merge(Stored, d), h)

\* The saves whose settings are not the file's yet, or not the cache's.
UnderWay == {u \in Savers : pc[u] \in {"merged", "opened", "dumped", "replaced"}}

\* The keys those saves name, and those that were named beside them.
Named(u)   == asked[u] \cup beside[u]
Concurrent == UNION {Named(u) : u \in UnderWay}

\* History: a save of "keys", whose settings are as old as "since" says, begins
\* beside those under way, and counts for every snapshot that is out.
Joins(t, keys, since) ==
  beside' = [u \in Threads |->
               IF u = t THEN since \cup Concurrent
               ELSE IF u \in UnderWay \/ got[u] # None
                    THEN beside[u] \cup keys \cup since \cup Concurrent
               ELSE beside[u]]

\* A request names the keys "named" and passes the settings "d": its own keys,
\* or a whole snapshot with them changed.  A hook contributes to a change only.
Begin(t, named, d, since) ==
  /\ pc[t] = "idle"
  /\ updates < MaxUpdates
  /\ \E h \in [{} -> Values] \cup [HookKeys -> Values] :
       /\ DOMAIN h # {} => Merge(Stored, d) # Stored
       /\ goal' = [goal EXCEPT ![t] = Merged(d, h)]
       /\ asked' = [asked EXCEPT ![t] = named \cup DOMAIN h]
       /\ Joins(t, named \cup DOMAIN h, since)
  /\ Goto(t, "merged")
  /\ updates' = updates + 1
  /\ got' = [got EXCEPT ![t] = None]
  /\ answer' = [answer EXCEPT ![t] = None]
  /\ UNCHANGED <<disk, cache, fd, stamp, clashed, crashes>>

Update(t) == \E d \in Changes : Begin(t, DOMAIN d, d, {})

\* start_keep_alive: the snapshot get_settings returned a while ago, with the
\* two keys of its own set, goes back whole.
UpdateFromSnapshot(t) ==
  /\ got[t] # None
  /\ \E d \in Changes : Begin(t, DOMAIN d, Merge(got[t], d), beside[t])

\* A call returns, and what it had in hand is gone.
Answer(t, ok) ==
  /\ Goto(t, "idle")
  /\ goal' = [goal EXCEPT ![t] = Defaults]
  /\ asked' = [asked EXCEPT ![t] = {}]
  /\ beside' = [beside EXCEPT ![t] = {}]
  /\ answer' = [answer EXCEPT ![t] = ok]

\* _validate_settings raises: nothing has been written.
Refuse(t) ==
  /\ pc[t] = "merged"
  /\ goal[t] \in Invalid
  /\ Answer(t, FALSE)
  /\ UNCHANGED <<disk, cache, fd, stamp, got, clashed, bounds>>

InUse == {file, tmp} \cup {fd[t] : t \in Threads}

Write(i, what) ==
  /\ content' = [content EXCEPT ![i] = what]
  /\ clock' = clock + 1
  /\ mtime' = [mtime EXCEPT ![i] = clock']

Accepts(t) == pc[t] = "merged" /\ goal[t] \notin Invalid

\* The saves between open() and os.replace or the clean-up.
Writing == {u \in Savers : pc[u] \in {"opened", "dumped", "failed"}}

\* History: a save gets there, beside another one or alone.
Enters == clashed' = (clashed \/ Writing # {}) /\ UNCHANGED beside

\* Mutant of Target: the settings file itself is opened for writing.
TargetInPlace == IF file = None THEN Inodes \ InUse ELSE {file}

\* The inode open() finds under the temporary name, or a new one.
Target == IF tmp = None THEN Inodes \ InUse ELSE {tmp}

\* open(settings_file + ".tmp", "w"): an inode of that name is cut to nothing,
\* whoever is writing it or has moved it since.
Open(t) ==
  /\ Accepts(t)
  /\ \E i \in Target :
       /\ Write(i, Empty)
       /\ tmp' = i
       /\ fd' = [fd EXCEPT ![t] = i]
  /\ Enters
  /\ Goto(t, "opened")
  /\ UNCHANGED <<file, cache, goal, asked, answer, stamp, got, bounds>>

\* makedirs() or open() raises: nothing is opened, but the clean-up follows.
OpenFails(t) ==
  /\ Accepts(t)
  /\ Enters
  /\ Goto(t, "failed")
  /\ UNCHANGED <<disk, cache, saving, stamp, got, bounds>>

\* The one flush of json.dump's buffer, at offset 0 of the inode that was
\* opened.  Over another save's bytes a shorter text leaves their tail behind.
Dump(t) ==
  /\ pc[t] = "opened"
  /\ \/ Write(fd[t], goal[t])
     \/ content[fd[t]] # Empty /\ Write(fd[t], Torn)
  /\ Goto(t, "dumped")
  /\ UNCHANGED <<file, tmp, cache, saving, stamp, got, history, bounds>>

\* An OSError while writing, the disk full for one, or from fsync.
DumpFails(t) ==
  /\ pc[t] = "opened"
  /\ Write(fd[t], Torn) \/ Write(fd[t], goal[t])
  /\ Goto(t, "failed")
  /\ UNCHANGED <<file, tmp, cache, saving, stamp, got, history, bounds>>

\* Mutant of Replace: a file that is there is kept, the temporary one dropped.
ReplaceDrops(t) ==
  /\ pc[t] = "dumped"
  /\ tmp # None
  /\ file' = IF file = None THEN tmp ELSE file
  /\ tmp' = None
  /\ fd' = [fd EXCEPT ![t] = None]
  /\ Goto(t, "replaced")
  /\ UNCHANGED <<content, mtime, clock, cache, goal, asked, answer, stamp, got, history, bounds>>

\* os.replace
Replace(t) ==
  /\ pc[t] = "dumped"
  /\ tmp # None
  /\ file' = tmp
  /\ tmp' = None
  /\ fd' = [fd EXCEPT ![t] = None]
  /\ Goto(t, "replaced")
  /\ UNCHANGED <<content, mtime, clock, cache, goal, asked, answer, stamp, got, history, bounds>>

\* Another save has moved the temporary file away, or the rename fails.
ReplaceFails(t) ==
  /\ pc[t] = "dumped"
  /\ Goto(t, "failed")
  /\ UNCHANGED <<disk, cache, saving, stamp, got, history, bounds>>

\* The except clauses remove whatever has the temporary name by now.
CleanUp(t) ==
  /\ pc[t] = "failed"
  /\ tmp' = None
  /\ fd' = [fd EXCEPT ![t] = None]
  /\ Answer(t, FALSE)
  /\ UNCHANGED <<file, content, mtime, clock, cache, stamp, got, clashed, bounds>>

\* Mutant of RefreshSettings: the save caches what it has written itself.
RefreshWritten(t) ==
  /\ pc[t] = "replaced"
  /\ lock = None
  /\ lock' = t
  /\ cached' = goal[t]
  /\ Goto(t, "refreshing")
  /\ UNCHANGED <<disk, cachedAt, saving, stamp, got, history, bounds>>

\* The cache is refreshed under its lock: the settings first, ...
RefreshSettings(t) ==
  /\ pc[t] = "replaced"
  /\ lock = None
  /\ lock' = t
  /\ cached' = Stored
  /\ Goto(t, "refreshing")
  /\ UNCHANGED <<disk, cachedAt, saving, stamp, got, history, bounds>>

\* ... then the mtime they are filed under.
RefreshStamp(t) ==
  /\ pc[t] = "refreshing"
  /\ cachedAt' = mtime[file]
  /\ lock' = None
  /\ Answer(t, TRUE)
  /\ UNCHANGED <<disk, cached, fd, stamp, got, clashed, bounds>>

Save(t) ==
  \/ Refuse(t) \/ Open(t) \/ OpenFails(t) \/ Dump(t) \/ DumpFails(t) \/ Replace(t)
  \/ ReplaceFails(t) \/ CleanUp(t) \/ RefreshSettings(t) \/ RefreshStamp(t)

-----------------------------------------------------------------------------
(* get_settings: the cache lock is held from the look at the mtime on.     *)

\* What get_settings hands out; history: what is named beside it from now on.
Hands(t, s) ==
  /\ got' = [got EXCEPT ![t] = s]
  /\ beside' = [beside EXCEPT ![t] = Concurrent]

\* No file yet: the defaults, and nothing is cached.
GetDefaults(t) ==
  /\ pc[t] = "idle"
  /\ lock = None
  /\ file = None
  /\ cached' = None /\ cachedAt' = None
  /\ Hands(t, Stored)
  /\ UNCHANGED <<disk, lock, pc, saving, stamp, clashed, bounds>>

\* What is cached was loaded under the file's present mtime.
Hit == cached # None /\ cachedAt = mtime[file]

GetCached(t) ==
  /\ pc[t] = "idle"
  /\ lock = None
  /\ file # None
  /\ Hit
  /\ Hands(t, cached)
  /\ UNCHANGED <<disk, cache, pc, saving, stamp, clashed, bounds>>

GetMisses(t) ==
  /\ pc[t] = "idle"
  /\ lock = None
  /\ file # None
  /\ ~Hit
  /\ lock' = t
  /\ stamp' = [stamp EXCEPT ![t] = mtime[file]]
  /\ Goto(t, "loading")
  /\ UNCHANGED <<disk, cached, cachedAt, saving, got, history, bounds>>

GetLoads(t) ==
  /\ pc[t] = "loading"
  /\ cached' = Stored
  /\ cachedAt' = stamp[t]
  /\ lock' = None
  /\ Hands(t, Stored)
  /\ stamp' = [stamp EXCEPT ![t] = None]
  /\ Goto(t, "idle")
  /\ UNCHANGED <<disk, saving, clashed, bounds>>

Get(t) == GetDefaults(t) \/ GetCached(t) \/ GetMisses(t) \/ GetLoads(t)

-----------------------------------------------------------------------------
\* The process dies between any two steps; the file system stays.
Crash ==
  /\ crashes < MaxCrashes
  /\ crashes' = crashes + 1
  /\ cached' = None /\ cachedAt' = None /\ lock' = None
  /\ pc' = [t \in Threads |-> "idle"]
  /\ goal' = [t \in Threads |-> Defaults]
  /\ asked' = [t \in Threads |-> {}]
  /\ fd' = [t \in Threads |-> None]
  /\ stamp' = [t \in Threads |-> None]
  /\ got' = [t \in Threads |-> None]
  /\ answer' = [t \in Threads |-> None]
  /\ beside' = [t \in Threads |-> {}]
  /\ UNCHANGED <<disk, clashed, updates>>

Next ==
  \/ \E t \in Savers : Update(t) \/ UpdateFromSnapshot(t) \/ Save(t)
  \/ \E t \in Readers : Get(t)
  \/ Crash

Spec == Init /\ [][Next]_vars

-----------------------------------------------------------------------------
(* Properties                                                              *)

TypeOK ==
  /\ file \in Inodes \cup {None} /\ tmp \in Inodes \cup {None}
  /\ content \in [Inodes -> Settings \cup {Empty, Torn}]
  /\ mtime \in [Inodes -> Nat] /\ clock \in Nat
  /\ cached \in Settings \cup {None}
  /\ cachedAt \in Nat \cup {None}
  /\ lock \in Threads \cup {None}
  /\ pc \in [Threads -> {"idle", "merged", "opened", "dumped", "failed",
                          "replaced", "refreshing", "loading"}]
  /\ goal \in [Threads -> Settings]
  /\ asked \in [Threads -> SUBSET Keys]
  /\ fd \in [Threads -> Inodes \cup {None}]
  /\ stamp \in [Threads -> Nat \cup {None}]
  /\ got \in [Threads -> Settings \cup {None}]
  /\ answer \in [Threads -> BOOLEAN \cup {None}]
  /\ beside \in [Threads -> SUBSET Keys] /\ clashed \in BOOLEAN
  /\ updates \in Nat /\ crashes \in Nat

\* "Uses atomic writes": whatever is interrupted or fails, the settings file
\* is never one that _load_settings would answer with the defaults.
NeverTorn == file # None => content[file] \in Settings

\* A torn file takes two saves that were both between open() and os.replace:
\* no failure, no restart and no overlap of the rest of two saves tears it.
TornByClashOnly == ~clashed => NeverTorn

\* get_settings serves from memory only what the file holds at that moment,
\* unless a save that has replaced the file is still to refresh the cache.
CacheIsTheFile ==
  /\ ~clashed
  /\ lock = None /\ file # None /\ Hit
  /\ \A t \in Savers : pc[t] # "replaced"
  => cached = Stored

Replaces(t) == pc[t] = "dumped" /\ pc'[t] = "replaced"

\* The answers of save_settings are the truth, however many saves are under
\* way: one that will answer True has put its own settings in the file, and
\* nothing changes the file but such a save, so False left it alone.
AnsweredTruly ==
  [][~clashed' =>
       /\ \A t \in Savers : Replaces(t) => Stored' = goal[t]
       /\ Stored' # Stored => \E t \in Savers : Replaces(t)]_vars

\* Settings _validate_settings raises on never reach the file, however many
\* saves run at once.
FileIsValid == Stored \notin Invalid

\* The invariant behind FileIsValid: nothing invalid is written anywhere.
NothingInvalidWritten ==
  /\ \A i \in Inodes : content[i] \notin Invalid
  /\ \A t \in Savers : pc[t] \in {"opened", "dumped"} => goal[t] \notin Invalid

\* The invariant of saves that have not clashed, see SettingsStoreProofs.
\* The one that is writing has the temporary file to itself, ...
OwnTemporary ==
  /\ \A t, u \in Writing : t = u
  /\ tmp # None => tmp # file
  /\ \A t \in Savers :
       /\ pc[t] \in {"opened", "dumped"} =>
            /\ fd[t] # None /\ tmp = fd[t] /\ file # fd[t]
            /\ file # None => mtime[file] < mtime[tmp]
       /\ pc[t] = "opened" => content[tmp] = Empty
       /\ pc[t] = "dumped" => content[tmp] = goal[t]

\* ... the cache is behind the file by the saves that are still to refresh it,
\* and is not younger than the file, ...
Refreshing == UNION {Named(u) : u \in {v \in Savers : pc[v] = "replaced"}}

Behind == cached # None /\ \A k \in Keys \ Refreshing : cached[k] = Stored[k]

CacheFollows ==
  /\ cachedAt # None => file # None /\ cachedAt <= mtime[file]
  /\ \A t \in Threads : stamp[t] # None => file # None /\ stamp[t] <= mtime[file]
  /\ \A t \in Savers : pc[t] = "refreshing" => Behind
  /\ file # None /\ Hit => Behind

\* ... and what a save is about to put in the file, and what a snapshot that is
\* out says, differs from it in the keys named by it or beside it only.
KeepsRest ==
  \A t \in Savers :
    /\ pc[t] \in {"merged", "opened", "dumped"} =>
         \A k \in Keys \ Named(t) : goal[t][k] = Stored[k]
    /\ got[t] # None => /\ pc[t] \in {"idle", "loading"}
                        /\ Concurrent \subseteq beside[t]
                        /\ \A k \in Keys \ beside[t] : got[t][k] = Stored[k]
    /\ t \in UnderWay => Concurrent \subseteq Named(t)

\* Whatever saves do to each other, the lock is held where the code holds it
\* and a finished save has put a file in place.
Bearings ==
  /\ \A t \in Threads : pc[t] \in {"refreshing", "loading"} => lock = t
  /\ \A t \in Threads : pc[t] \in {"replaced", "refreshing"} => file # None
  /\ \A i \in Inodes : mtime[i] <= clock

Orderly == NeverTorn /\ OwnTemporary /\ CacheFollows /\ KeepsRest

IInv == TypeOK /\ Bearings /\ (~clashed => Orderly)

\* A setting changes only under a request that names it or by that request's
\* hook, or when a save puts back what another one beside it has changed since:
\* a lost update costs no key that none of the saves that overlapped named.
OnlyAskedChange ==
  [][~clashed' => \A k \in Keys : Stored'[k] # Stored[k] =>
       \E t \in Savers : Replaces(t) /\ k \in Named(t)]_vars

=============================================================================
