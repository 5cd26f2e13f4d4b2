# A TLA+ model of T4M-MAM

T4M-MAM is a 32-bit DLL that loads into *Call of Duty: World at War* and replaces parts of the
engine by C++ reconstructions.  The parts with logic of their own are the asset database (a
registry of assets shared by the threads of the engine, filled and emptied by zone files), the
memory below it, the loopback link of a local game, the configuration strings and the game state
a server sends, the actors and what they know of each other, and the weapons.  The rest is code
patches written at start-up, rendering, windows and geometry.

This directory holds TLA+ modules of those parts, TLC configurations that check them on small
instances, and proofs that TLAPS checks.  `PROJECT.json` lists the components, the runs, the
hazards the properties are aimed at, the source lines behind each definition, and the findings.

## 1. Inventory

| Component | State | Operations | Hard because | What makes it right |
|---|---|---|---|---|
| Asset database lock (`T4.cpp:634-692`) | `g_dbReaderCount`, `g_dbWriterCount`, `s_dbWriterOwnerTid` | `DB_WriterAcquire/Release`, `DB_ReaderAcquire/Release`, the bare decrements of `DB_FindXAssetHeader` | every access interleaves; retries; nesting | exact counters, exclusion, progress of readers |
| Asset registry (`T4.cpp:854-2137`, `PatchT4MAM_AssetPool.cpp`) | hash table, entry pool, override chains, `g_copyInfo`, `g_assetRefCount`, per-type header pools | link, arbitrate, promote, defer, flush, unload, find, clean up | long sequences of loads and unloads, deferred links, pools at their limit | the best zone serves each name; nothing leaks; nothing dangles |
| Zone loader (`PatchT4Load.cpp`) | `g_zoneLoaded`, `g_zoneLoadQueue`, `g_zonesToLoad`, `g_pendingZoneCount`, events | `DB_LoadXAssets`, `DB_UnloadAllZones`, `DB_LoadMapZones`, `ModFFLoadHook`, `DB_ProcessZoneQueue` | two threads, five calls for a map, two different tests of the same flags | table, registry and memory agree; requests are served once; loads end |
| Physical memory (`PatchT4Mem.cpp:173-222`, `PatchT4Load.cpp:22-61`) | two cursors, two slot lists | `PMem_Alloc`, `DB_FreeXZoneMemory` | frees out of order, unsigned cursors | no overlap, holes reclaimed |
| Hunk memory (`PatchT4Mem.cpp:34-161`, `227-261`) | temp and permanent cursors of either side, committed pages, block headers, user chains | temp alloc, free and clear, user alloc | errors after a cursor moved; cursors in bytes, memory in pages | data stays on committed pages; pages come back |
| Loopback link (`PatchT4MAM_Loopback.cpp`) | two rings of 128 packets | send, receive | overwriting what was not read | a queue that loses the oldest |
| Config strings (`PatchT4MAM_ConfigStrings.cpp`) | three tables of string ids, reference counts | set, get, clear, the game state message and its parser | reference counts, two loops that must count alike | no id leaks; the client ends with the server's table |
| Shared archive handle (`PatchT4MAM_FsPakOpen.cpp`) | the handle of a pak and who uses it | open, close | one handle for several readers | one user at a time |
| Model index (`PatchT4MAM_ModelIndex.cpp`) | the widened table | find or add | limit, gaps | an index names one model |
| Weapons (`PatchT4MAM_WeaponState.cpp:464-1881`, `PatchT4MAM_Reload.cpp`) | `playerState_s`: weapon state, `weaponTime`, `weaponDelay`, clip and reserve, rechamber bit, anim, low-ready intent | `PM_Weapon` once a frame, `SetLowReadyIntent`, `Add_Ammo`, `Fill_Clip` | two timers and thirty states; a reload cut short by the trigger, a melee, water or the script | rounds are accounted for, a reload loads and ends, low ready holds |
| AI sentient info (`PatchT4MAM_SentientInfo_*.cpp`, `PatchT4MAM_ActorSentientInfo.cpp`) | the side table of what each actor knows of each sentient; targets and attacker counts | hear, see, tell the team, choose and drop an enemy, dissociate, start a map, load a game | slots are used again, news spreads in any order, one engine function inlined in several places | knowledge is of who holds the slot now; attackers are counted exactly |
| Actor limit (`PatchT4MAM_ActorLimit.cpp`) | widened actor arrays | allocate, start a map | a table beside the arrays that must go with them | a new actor knows nothing |
| Patches, console, editor, rendering, geometry, start-up | code bytes, windows | | | not modelled (section 7) |

How they interact: the main thread asks the **zone loader** for zones; it unloads what the new zones
replace through the **registry**, inside a writer section of the **lock**, gives their **physical
memory** back, and queues the new zones for the database thread, which allocates memory for each
and links its assets into the registry.  Every thread looks assets up in reader sections.  The
**loopback link**, **config strings**, **weapons** and **actors** run on the main thread.  The **hunk**
has no lock either; its two ends meet only through the sum of their cursors.

## 2. The modules

| Module | What it is |
|---|---|
| `DBLock` | the reader/writer spin lock, one step per access |
| `RWLock` | what a reader/writer lock promises |
| `DBLockProofs` | proofs about `DBLock` |
| `AssetRegistry` | the registry and what loading, flushing and unloading do to it |
| `RegistryProofs` | proofs about `AssetRegistry` |
| `PMem` | the physical-memory stack |
| `PMemProofs` | proofs about `PMem` |
| `ZoneLoader` | the loader's two threads over an instance of `PMem` |
| `ZoneProofs` | proofs about `ZoneLoader` |
| `HunkMemory` | temporary memory at both ends of the hunk, and a `HunkUser` |
| `HunkProofs` | proofs about `HunkMemory` |
| `LoopbackQueue` | the two rings |
| `DropOldestFifo` | what the loopback link promises |
| `LoopbackProofs` | proofs about `LoopbackQueue` |
| `GameState` | the game state message: what the server writes and the client reads, as operators |
| `ConfigStrings` | the strings of a server and its clients, with the model block |
| `WeaponReload` | how many rounds a reload moves, when, and through which states, as operators |
| `WeaponState` | the weapon of one player, frame by frame |
| `WeaponProofs` | proofs about `WeaponState` |
| `SentientInfo` | what actors know of sentients, and whom they fight |
| `SentientProofs` | proofs about `SentientInfo` |
| `MCDBLock`, `MCAssetRegistry`, `MCPMem`, `MCZoneLoader`, `MCHunkMemory`, `MCConfigStrings`, `MCWeapon`, `MCSentientInfo` | instances for TLC |

Definitions whose comment begins with *A slip*, or says what they *forget*, *skip* or *leak*
(`StoreOne`, `PromoteLeaking`, `FreeDown`, ...), are deliberate slips.  No specification uses them: they are what
the properties are tried against, one plausible bug at a time.

### DBLock
`readers`, `writers`, `owner` are the three words; `pc[t]` says where thread `t` is in the
functions.  `wait -> inc -> check -> own -> hold` is a successful `DB_WriterAcquire`, `back` its
roll-back; `clear` is the second half of `DB_WriterRelease`; `test` and `isown` are the two operands
of the reader's loop condition, evaluated one after the other; the `n`-states are the same reader
code nested in a writer section.  `first[t]` is the local `newCount == 1`.  `again[t]` marks a thread
that calls `DB_WriterAcquire` from inside its own section, as a nested `DB_FindXAssetHeader` does
when the asset is missing.  The roles of the threads are constants, so that each run states exactly
which uses of the lock it is about.

### AssetRegistry
`chain[n]` is the entry in the hash table for name `n` followed by its `nextOverride` chain; an entry
has `zone` (zoneIndex), `data` (the zone whose bytes its header points into) and may be `inuse`.  The
hash collisions of different names are abstracted; the order in which an unload visits the
names is any order.  Each operation runs inside the writer lock in the code and is one action
here: `LinkAsset` is `DB_LinkXAssetEntryOverrideAware(..., copyData = 0)` with `DB_PushCopyInfo`;
`Flush` is `DB_FlushCopyInfoQueue`; `Unload` is `DB_LoadXAssets` up to the queueing of the new zones,
flush, unload, `DB_PostUnloadCleanup` and table included; `UnloadAll` is `DB_UnloadAllZones`.
Before it drains, `DB_FlushCopyInfoQueue` polls `g_dbWorkerEvent` and returns when the event is signaled
(`T4.cpp:1914-1919`).  The engine creates the event and waits for it; in this code only a flush that is through
signals it, and a lookup that finds it signaled stops waiting for an asset.  The model takes a signaled event to say that
nothing was queued since the last drain, so that a flush that returns early would have had nothing to do, and the flush
before an unload always leaves the queue empty.  This is an assumption on the engine, and the comment on the function
does not share it: it calls the event auto-reset and the early return *skip one, drain next* (`T4.cpp:1873-1879`).
If a flush before an unload could return with links in the queue, a link of an unloaded zone would be applied
after its zone: `ServesBestZone`, `NoDangling` and `EntriesAccounted` hold under the assumption only.
`told` holds the entries `DB_InUseHandlerDispatch` was called for in the last step.  When a pool is
exhausted the code raises `ERR_DROP`: on the database thread this ends the process (`halted`), on
the main thread it goes on with what the failed operation has left behind (`lost`, `drops`).
`DefaultAssumption` is a condition on the engine's zone files, which the code takes for granted: a default
asset, where there is one, is in a zone that is never unloaded, and no zone that is unloaded has it with a lower
`loadOrder`.  Only `NoDangling` and `UnloadAllEmpties` need it: a default copy has the data of the last override of the
default (`DB_FindDefaultAsset`), and nothing looks after the copies when that zone goes.

### PMem and ZoneLoader
`PMem` has the cursors and the slot lists as they are, with 32-bit unsigned arithmetic scaled
down (`Word` to `Size` as 2^32 to 2^30), and the history variable `blocks`.  `PMem_BeginAlloc` and
`PMem_EndAlloc` belong to the engine.  `ZoneLoader` instantiates it; its `main` and `worker`
variables are the positions of the two threads.  The phases of `DB_LoadXAssets` are the actions
`UnloadAssets`, `RemoveZoneEntry`, `EndRemove`, `Enqueue`, `Wait`; `DB_ProcessZoneQueue` is `Wake`
(first read), `ReadCount` (second read), `ResetCount`, then one of `OpenZoneFile` or `DropZone`
for each entry.  The flags of the zones are modelled bit by bit as names, because the two phases
test them in different ways.

### HunkMemory
`low` and `high` are the cursors of `hunk_low` and `hunk_high`, `pages` the committed pages, `lowBlocks`
the headers the low side has written, each with whether its magic number is still there.  A request
that does not fit has moved its cursor before it raises `ERR_DROP` (`dropped`), as in the code.
`VirtualFree` takes whole pages and fails on a range that leaves the region; what lay on a page is
zero when the page comes back.  `highLive` is a history: the bytes in use at the high side, which
has no headers.  A `HunkUser` is `fixed` and a `chain` of reservations with `pos` and `locked`.
`Hunk_ClearTempMemory`, `Hunk_UserCreate` and the way back from an error belong to the engine; the
clear is taken to mirror `Hunk_ClearTempMemoryHigh`, and an error to clear the side that failed.
`FreeTempMemory` frees the newest block, as a stack is used.  The `malloc` used before the hunk exists
is left out.

### LoopbackQueue
The counters and the slots as they are.  The refinement mapping takes the packets a receiver can
still have as the abstract queue.

### GameState and ConfigStrings
A text is a value with a length; a handle of the engine's string table is its text, and `NoText` is
the handle 0.  `SV_SendClientGameState` gives the message as a record, with the count of the first
loop beside the strings of the second; `CL_ParseGamestate` reads it with the walker over the
default rows (`row`), the running index and the cursor of the blob, and fails where the code raises
`ERR_DROP` or would read a string as a command.  `table`, `sentinel` and `refs` are the server's;
`client[c]` is what the server keeps of a client (`state`: 0 free, 2 connected, 3 game state sent),
the messages under way, and what the client has made of them.  `SetOne` is the body of the loop of
`SV_SetConfigstrings`, `FinalFlush` what follows it.  Spawning and restarting a server, the
reliable channel and the client's commands are the engine's, modelled from how this code uses them.
The parser's `memset` is taken as unconditional: the flag it is under is set by engine code only.

### WeaponReload and WeaponState
`PM_Weapon` is one long function over the player state, so `Frame` is a composition of operators
from player state to player state in the order of the code: `LowReadyCatch` (section 0), the early
returns (`BlockedFrame`), `Surface` or `Submerge` (sections 2 and 3), then `WeaponTick` (section 4:
timers, `PM_Weapon_CheckForReload`, `PM_Weapon_AnimSyncCleanup`, rechambering, the bail while a timer
runs) and `Dispatch` (section 5).  `acted` is `animSync`, the delayed action being due.  `w` is the
weapon definition after `Reload_ApplyWeaponDefDefaults`, `ps.swimEnter` the bit 0x2000 of
`weapFlags`, `ps.rechamber` the weapon's bit of `weaponrechamber`.  `began` and `frames` are
histories.  The commands are any: the model puts no order on what a player presses or on when the
script calls.  Of the engine's calls `AnimCmdState_Resync`, `ProcessAttackInput`, `FinalGate`,
`FireSwitchEvent`, `FinalizeStateExit` and `PM_SetReloadingState` are modelled from their use here;
where the use leaves it open (`Choices`), both ways are taken.  Only bullet weapons without burst fire
are covered; a player who dies, the states of the engine's own machines (offhand, sprint, deploy,
weapon switch) and clip-only weapons are not.

### SentientInfo
One server frame after the other runs on one thread, so each operation is one step.  `ai.info[a][s]` is
the row of `g_sentientInfoExt`: when `a` last knew where `s` was, and where; a place is written as
the life of the slot and the time it was seen in, so that it says whom it is true of.  `by` and `life`
are histories.  `Free` is `Actor_DissociateSentient` for every actor, in any order, each with the copy
of `Sentient_SetEnemy(self, NULL)` inlined in it; `UpdateThreat` and `ClearEnemy` have the two others.
`Forget` takes the time out of a row and leaves the place, as the code does: `Actor_UpdateGoalPos` heads for
that place without a look at the time, so `KnowledgeWasTrue` speaks of places without a time too.
`InitActors` frees every slot and leaves the rows, which `Spawn` (`Actor_Alloc`) clears; `LoadGame` is
`ReadActor`.  `BroadcastTeamEvent` gives the news to any actors (`hearing`: who is near is the engine's
affair) by `SentientInfo_Copy`.  Which known enemy is chosen is left open: `Actor_UpdateThreat` weighs
distances and angles.  `Sentient_SetEnemy` itself, the dates at which the team is told and what makes
an actor go after its enemy are the engine's, modelled from the copies and uses here.  Left out: the
cache of who sees whom (seeing is `HearBullet`, which always renews), the order in which enemies are
looked at, and the debug drawing.

## 3. Runs

| Run | Question | Result |
|---|---|---|
| `DBLock` | counters, exclusion, inductive invariant, a reader/writer lock for the pure reader, and does a reader get in? | holds |
| `DBLock_exclusive` | is a writer section exclusive? | no (finding) |
| `DBLock_nested` | does a nested reader pass? | no (finding) |
| `Registry` | order of chains, best zone, stable headers, default copies, leaks, dangling data and full unload, with every pool at its limit | holds |
| `PMem` | overlap and reclamation, frees in any order | holds |
| `Zones` | table, registry, memory and queue agree; loads end | holds |
| `Hunk` | does data keep its pages, do pages come back, what does a user's allocation return? | holds |
| `Loopback` | is it a queue, from one side to the other, that loses its oldest? | yes |
| `ConfigStrings` | references, model numbers, and what a client ends with | holds |
| `Weapon` | rounds, reloads and low ready under any input | holds |
| `Weapon_lowready` | does switching low ready off end it? | no (finding) |
| `Sentients` | is what an actor knows true, renewed only by newer news, and are attackers counted? | holds |

Bounds, and why they are enough:
* `DBLock`: three threads.  Two contend for any word and the third races with the loser.
* `Registry`: four zones over three names, enough for a head, an override above and one below
  another, equal priorities, a default that is overridden and a name that is only named.  Six
  entries, five headers and two deferred links all run out; the main thread survives `MaxDrops` = 1
  error, and what it leaves behind is carried through the rest of the run.
* `PMem`: three zones in a region of six units: a hole with a zone above and one below it, and
  requests whose size wraps the cursor.
* `ZoneLoader`: `MaxPrograms` = 5 requests (boot, map, mod, map, and one more), one block per zone.
* `ConfigStrings`: eight indices with one static row below and one above the index from which case
  does not count, a special one and a block of two models for three names, so that the block
  overflows; texts that share a command, fill one, and need fragments; a blob that some tables fit
  and some do not; `MaxCalls` = 3 changes over `MaxSpawns` = 2 servers, so that tables can be
  stale.  One client: nothing the server does depends on another.
* `Weapon`: clips of two (three with a round in the chamber) and a reserve of up to three, so that every
  reload runs out of room or of rounds; five definitions that between them take each branch of the
  reload; times of at most three frames, with add times before, at and after the end of the
  animation, a bolt slower than the reload and one slower than its rounds.  Nothing is cut off: the state space is finite.
* `Loopback`: two slots and five packets a direction, more than two laps.
* `Hunk`: three pages, so that the two sides meet in one page, cross after a failed request, and have a
  page between them; permanent parts that end inside a page or are not there; reservations of two
  pages and requests of nothing, of less than a page and of more, so that blocks end on the committed
  end, on the end of the reservation and beyond either; a chain of up to two.
* `Sentients`: two actors of a team and one enemy; `MaxTime` = 3 frames, long enough for news to age past
  `CareTime` and `ForgetTime`; a slot of either kind seen in two lives, the other actor in one.

Deadlock is checked except where the system may stop: after an error that ends the process
(`halted`, `fatal`), and where a bound on requests or packets is reached, and once a server is
shut down for good.

## 4. Fairness

`DBLock!FairSpec`: the scheduler runs every thread that is inside the lock's code (weak fairness of its
acquiring and reading steps), and a section ends (strong fairness of its release).  Releasing needs the
strong kind because a nested lookup leaves the section's own step disabled for a while, as often as
the owner likes to look something up; no owner does so for ever.  Nothing makes a thread enter a
section.  `ReaderProgress` is claimed for runs in which no thread waits for its own count (`LockedOut`): in
a second `DB_WriterAcquire` inside its section, or in a nested lookup whose pass was erased.  Such a
thread never comes out, nor does any reader after it (section 6).
`ZoneLoader!FairSpec`: the main thread goes on with
the call it makes, and the database thread, woken by an event, goes on with the queue.  Nothing
makes the engine ask for anything.

## 5. What is proved

`DBLockProofs`, from the assumption that the set of threads is finite and that the roles are
subsets of it:
* `Inductive`: `Spec => []IInv`.  `CountsExact` and the two exclusions are not inductive: that a
  reader cannot be let in while a writer holds needs that at most one standing increment took the
  counter from 0 (`Leads`), that whoever holds has such an increment, and that a thread acquiring
  again inside its own section never gets one.  These are the extra conjuncts of `IInv`.
* `TypeCorrect`, `CountersCorrect`, `WritersExclude`, `PureReadersExcluded` follow from it.
* `Refinement`: to the threads that only read, `DBLock` implements `RWLock`.

`LoopbackProofs`, from the assumption that a ring has at least one slot:
* `RingsCorrect` (`TypeOK`) and `Refinement` (`ImplementsFifo`), by the invariant `RingInv`: both counters
  are numbers, `get` does not pass `send`, the slots hold packets.
* The argument: counters fewer than `N_SLOTS` apart name different slots (`SlotsDiffer`), so a send writes
  the slot of none of the packets that still count (`SendWrites`).  The packets waiting after a send are then the
  newest `N_SLOTS` of those before and the new one (`SendAppends`), and after a receive they are the tail
  (`GetTakesHead`).

`PMemProofs`, from `PMemAssumption` (the region is at most half of the address space, and so is a
request with its alignment):
* `NeverHandedOutTwice` (`NoOverlap`), `MemoryComesBack` (`Reclaimed`) and `TypeCorrect`, by the invariant `PInv`.
  `NoOverlap` is not inductive: whose memory a free gives back depends on the cursors the slots have kept.
  `PInv` adds that the slots of an end go inwards from the end of the region (`Stack`), that a zone
  has one slot (`OneSlotEach`), that the zone being allocated for has the last (`OpenIsLast`), and that every
  block lies between its slot's cursor and the next one's (`BlocksInSlots`).
* The argument: a block that is not refused lies between the two cursors, whichever sum wrapped
  (`BlockFits`); a free pops slots that nobody has and leaves the limits of the others where they were
  (`FreeKeeps`).

`HunkProofs`, from `HunkAssumption` (pages, alignments and sizes divide each other; a reservation holds its
header and any request; the permanent parts fit):
* `DataStaysCommitted` (`LiveStaysCommitted`), `PagesComeBack` (`PagesReturned`), `AddressesAreCommitted`
  (`UserAddressCommitted`), `OnlyAnExactFitFails` (`OutOfMemoryIsExactFit`) and `TypeCorrect`.
* The invariant relates each cursor to what its side has in use, blocks and permanent part: equal, but for the
  side whose request has failed (`Bounds`).  What both sides have in use is never more than the region, though the
  cursors may cross.  For the user, each reservation is committed beyond its position and no further than its
  end.
* The argument: bytes are turned into pages by rounding, so the lemmas about division come first (`Quotient`,
  `DivisionKeepsOrder`, `AlignUpNear`); a page that a free or a clear decommits starts behind all data of its own
  side, and holds data of the other only where `SidesMeet` says so.

`SentientProofs`, from `SentientsAssumption` (finitely many sentients, no actor its own enemy, times
positive):
* `KnowledgeIsTrue` (`KnowledgeWasTrue`), `AttackersAreCounted` (`AttackersExact`), `EnemyGoalsHaveEnemies`
  (`EnemyGoalHasEnemy`), `NewsNeverGetsOlder` (`NeverOlder`) and `TypesHold` (`TypeOK`).
* `AttackersExact` is not inductive: it is about slots in use, and a slot that is taken again must start
  with the count its last holder left.  So the invariant counts for free slots too (`Counted`), has no handle lead to a
  free slot (`Handles`), and no free slot fight anyone (`Vacant`).
* A step is several calls on the record `ai`, and an operator is proved once, for a record
  (`Kept`), whatever called it.  The order in which the team is told does not matter, nor the order in which a death
  is passed to the actors: telling from a row without a time tells nothing.

`WeaponProofs`, from `WeaponAssumption`: the fields of a weapon file are those of `WeaponFiles`.  That is, a reload
takes at least a frame, clip and reserve hold at least a round, and so does a shared cap where there is one.
The code checks none of this; it is what makes a file a bullet weapon that reloads.
* `RoundsAreAccounted` (`RoundsAccounted`), `ReloadsLoad` (`ReloadLoadsARound`), `StanceHolds` (`LowReadyHolds`),
  `StartIsLatched` (`EmptyStartLatched`) and `TypesHold` (`TypeOK`).
* That a reload loads a round is not inductive.  `Good` adds that a reload of an empty clip has a round in
  reserve, through every state of it; `WillLoad` that past its start, with the clip still empty, the delayed
  action is yet to come.
* A frame is one expression, and is proved in two parts.  Up to its dispatch no stage moves a round (`Reached`).
  The dispatch may load, or begin a reload, and `Outcome` says what it then leaves behind (`Handled`).

`ZoneProofs`, from `ZoneAssumption`, which is how the engine uses the loader: a file of its own calls has one flag, is
named once in a call and belongs to no map or mod; what a call loads replaces what has that flag; the first
call loads a zone that no flag frees, and waits for it; and `PMemAssumption`.  The repository shows the calls for
maps and mods, which are not assumed; for the others the assumption says what keeps a file from being in the table twice,
which `DB_LoadXAssets` does not check.
* `RequestsServedOnce` (`PendingExact`), `TablesAgree` (`Agree`), `OneMapAtATime` (`OneMap`), `MapKeepsItsZones`
  (`KeepsOwnZones`) and `MemoryIsUsedProperly` (`UsesMemoryProperly`), which is a refinement: `ZoneLoader` implements
  `PMem`'s specification.  They hold for any number of maps and calls and for every interleaving of the
  two threads.
* None but the first is inductive, and `Agree` is about moments when nothing is under way.  `ZoneInv` says what
  holds between them: where the requests are while the count is read, read again and reset (`Threads`); that no
  file is in the table twice or asked for while in it (`Lists`); that the table is empty only before the first call and after
  `DB_UnloadAllZones`, and that the first zone of that call stays (`Booted`); that a call's flags are gone from the table before its zones are queued (`Unloaded`);
  which zones have their assets linked in the middle of an unload (`Registered`) and which have slots (`Memory`); and
  which zones of a map can be there after each of its five calls (`MapZones`).
* The argument for `TablesAgree`: a call may only ask for what Phase 1 unloads, Phase 3 goes on until nothing is left
  that Phase 1 would have hit (`RemovedAll`), and that needs `PriorityBits` to have every flag that can be freed.
  For `MemoryIsUsedProperly`: entries leave the table while the database thread sleeps, so that no allocation is
  under way, and a zone that is opened has no slot yet.  With it, what `PMemProofs` says of `PMem` holds for the zones of the
  loader, read with `Owners` as its `Files`; the two are not joined formally, since tlapm cannot carry a theorem
  with an assumption on constants through this `INSTANCE`.

`RegistryProofs`, from `RegistryAssumption` (names and zones as the code takes them, and finitely many names)
and, for the two results on data only, from `DefaultAssumption`:
* `Accounted` (`EntriesAccounted`), `Counted` (`RefCountExact`), `Downward` (`ChainsOrdered`), `ServesBest`
  (`ServesBestZone`), `Keeping` (`FoundStays`), `Telling` (`HoldersTold`), `NothingDangles` (`NoDangling`), `UnloadsAll`
  (`UnloadAllEmpties`) and `Typed` (`TypeOK`).  They hold for any zones, priorities and contents, pools and queues of
  any size, and hash tables in any order.
* None but the types is inductive.  `ServesBestZone` is about moments when nothing is loading or deferred, so `IInv` says what
  holds between them: the zones that are in a chain or waiting for a name are those that define it and have
  linked it (`Owned`, `Wanted`); a link that waits is of a zone newer than any of its priority in the chain, and
  those of a name wait in the order of their zones (`Pending`), and none has a lower priority than what is linked
  under its name (`Above`).  `Ordered` compares zones by priority and then by when they were loaded, which priorities
  alone do not show.  An entry is in one chain, waits, is free or lost (`Apart`, `Cover`), and the count is that of the
  copies (`Refs`).  Once an error has ended the process, only `Sound` and `Spread` are kept.
* The argument: one arbitration changes one chain and puts a zone in its place, whichever of the four ways it takes
  (`ArbitrateTakes`); unloading takes a zone out of one chain and leaves the rest in order, whichever of the five
  (`UnloadRids`).  A flush, an unload and an unload of many are folds of these.  A fold is turned into the
  list of registries it goes through (`FoldExists`, `FoldRuns`), and the invariant is followed along the list (`CountUp`: the
  least step that breaks it).
* For the data, `BInv` adds that an entry of a zone has that zone's data and a copy those of a permanent zone on the
  table (`Sourced`), that the last override of the default is of such a zone (`DefaultLast`), and that permanent zones are
  loaded before all others (`First`).  The default's end stays where it is because a zone that could go below it
  finds the permanent one that `DefaultAssumption` promises (`Anchor`) linked already, or waiting, and then nothing
  linked is above that one.

Only model-checked: `ReaderProgress` and `LoadsEnd` (liveness), the bound on the frames of a reload
(`ReloadEndsInTime`, which would need a measure of what is left of it over every mix of timers), and every property of
`ConfigStrings`.  Where another invariant would fail before it a type invariant is
in no run; those of the eight modules above are proved, that of `ZoneLoader` as the first conjuncts of its invariant.

## 6. Findings

1. The owner word outlives its section (bare decrements, as in the run's trace, or a release while a loser
   holds the counter up) and then lets its thread read inside another's writer section.
2. `DB_WriterRelease` clears the owner word after its decrement, over the next writer's id.
3. Low ready switched off while it is being entered (`LOWREADY_START`) still goes to its loop, and
   stays there: the handler does not look at the intent bit, as the comment on `SetLowReadyIntent`
   says it does.

More was seen while modelling and has no run of its own.  A nested lookup that misses asks
for the writer lock its thread already holds (`MissNested`), and spins for ever.
`DB_FindDefaultAsset` takes the last override, which is the one of lowest priority, where its comment
(`T4.cpp:954`) says the most recent.  The comment that 0x1000 is absent from `priorityBits`
(`PatchT4Load.cpp:202`) is out of date: the list has it, and `Zones` shows that it must
(`VanillaBits` breaks `Agree`).  `SV_SetConfigstrings` sends its buffer before anything is in it when
the first text of a batch has 0x1EF characters (0 + 0x1EF + 0x11 reaches 0x200, line 365);
`ConfigStringsAssumption` leaves such texts out.  The header of `PatchT4MAM_Reload.cpp`
says a *non-empty* reload may reach clipSize + 1; a segmented one begun empty reaches it too, once its
first round is in.  With the intent set, section 0 moves `LOWREADY_START` and `LOWREADY_END` to the
loop in the next frame, so their timers and the jump back of `PM_Weapon_LowReady_End` are only ever
used with the intent off.

In the weapon: a delayed action that is left ticking (the bolt of a rechambering, or a reload that a dive has cut
off) may come due in the very frame in which the next reload begins.  The due action is then carried past the
reload check into the dispatch (`PatchT4MAM_WeaponState.cpp:1697-1774`), and that reload's rounds are in the clip
at once.  No round is lost, and `RoundsAccounted` allows it; the attempt to prove that only a
running reload loads found it, and `MCBoltQuick` is the weapon that shows it.

In the hunk: `Hunk_UserAlloc` computes `(newPos + 0x1000) & ~0xFFF` (line 252), so a block that ends exactly
where its reservation does, before all of it is committed, asks for a page past the end, and the program
ends with out of memory, where its comment (lines 227-230) says it commits *while still inside the
reservation*; `OutOfMemoryIsExactFit` says that this is the only way there.  A request that no fresh
reservation holds makes it reserve for ever (`HunkAssumption` leaves such requests out).
`Hunk_ClearTempMemoryHigh` *decommits the pages it freed* (lines 86-87), and with them what else is on them:
the other side's header and data when both cursors are in one page, and whole pages of the other side
when the clear follows a request that failed, whose cursor was left across them (`include/cod/fs.hpp:21-22` knows
of the cursor).  The next `Hunk_FreeTempMemory` then reads a zeroed or missing header: `ERR_FATAL` "bad
magic", or an access violation.  `LiveStaysCommitted` excepts those two cases by `SidesMeet`, and holds
otherwise.

## 7. Not modelled

* Rendering and GPU state (override promoters, unload handlers), window and console code, the editor
  modules, hand IK, pose and sling geometry: floating point or I/O without a protocol.
* Code patches and hooks: constants written once.  The widened addresses of the actor limit are among
  them; what runs afterwards on the widened arrays is in `SentientInfo`.
* `PatchT4MAM_FsPakOpen.cpp`: its fix is that an open touches its own handle only, which leaves nothing to
  interleave; who holds which handle is decided by engine code that is not in the repository.
* `PatchT4MAM_SysError.cpp`: one guard; whether a suspended thread holds something the error path needs
  is decided by the engine and the system.
* `PatchT4MAM_ScriptStrings.cpp` counts and prints the engine's table and changes nothing.
* Of the registry, the early return of `DB_FlushCopyInfoQueue` while `g_dbWorkerEvent` is signaled, which is taken to
  find an empty queue (section 2); its other early return, on the alternate thread when another flush has drained the
  queue meanwhile, changes nothing; the wait loop of `DB_FindXAssetHeader` (its outcome is `Find`), whose polls of the
  same event are not modelled either, and the window between its release of the reader lock and `entry->inuse = true`.
* Of the actors, the cache of who sees whom, the weighing of threats and debug drawing (above).
* Parsing of weapon files, the anims and sounds of weapons, and the vendored libraries.

## 8. Plan

1. (done) `DBLock`, `PMem` and `LoopbackQueue` with their proofs, `AssetRegistry`, `ZoneLoader`, `HunkMemory`,
   `GameState`, `ConfigStrings`, `WeaponReload`, `WeaponState` and `SentientInfo`.
2. (done) Proofs about `WeaponState`, `SentientInfo`, `HunkMemory`, `ZoneLoader` and `AssetRegistry`.
3. Proofs about `ConfigStrings` (`RefsExact`), and a bound on a reload.
4. The lookup of `DB_FindXAssetHeader` in steps, against unloads.
