----------------------------- MODULE ZoneLoader ------------------------------
(***************************************************************************)
(* Loading and unloading fast files (PatchT4Load.cpp): the table of loaded *)
(* zones and its flags, DB_LoadXAssets and DB_UnloadAllZones on the main   *)
(* thread, the queue between them and DB_ProcessZoneQueue on the database  *)
(* thread, and the memory of the zones (module PMem).                      *)
(*                                                                         *)
(* DB_AddZonesToQueue, DB_OpenZoneFile, the loading of an opened file and  *)
(* DB_PostLoadXZone, which waits for the database thread, are the engine's.*)
(***************************************************************************)
EXTENDS Integers, FiniteSets, Sequences, SequencesExt

CONSTANTS
    Maps,         \* map names
    Mods,         \* sets of the optional files of a mod: see ModExtras
    Boot,         \* the first call of DB_LoadXAssets: the permanent zones
    EngineCalls,  \* other calls of DB_LoadXAssets the engine makes itself
    Optional,     \* files that may be missing from the disk
    EndOf,        \* the end of PMem each file is loaded at (memHandle)
    MaxPrograms,  \* bound on what the main thread asks for
    MaxBlocks,    \* bound on the blocks of a zone
    NoOwner, Size, Word, Requests, Slots   \* see PMem

VARIABLES
    prim, open, blocks,   \* see PMem
    loaded,     \* g_zoneLoaded[0 .. g_zoneCount - 1]: file and allocFlags
    linked,     \* history: the files whose assets are in the registry
    queue,      \* g_zoneLoadQueue, and g_zonesToLoad its length
    toLoad,     \* g_zonesToLoad
    pending,    \* g_pendingZoneCount
    done,       \* g_dbSecondaryEvent: the database thread has nothing to do
    main,       \* what the main thread does
    calls,      \* the calls of DB_LoadXAssets it has still to make
    map,        \* the map DB_LoadMapZones was last called for, or NoMap
    worker,     \* what the database thread does
    batch,      \* the queue entries it has still to open
    programs    \* what the main thread has asked for so far

vars == <<prim, open, blocks, loaded, linked, queue, toLoad, pending, done, main,
          calls, map, worker, batch, programs>>

memory == <<prim, open, blocks>>
workerVars == <<queue, toLoad, worker, batch>>

NoMap == "no map"

-----------------------------------------------------------------------------
(* What is asked for *)

Info(file, alloc, free) == [file |-> file, alloc |-> {alloc}, free |-> free]
Call(infos, sync) == [infos |-> infos, sync |-> sync]

\* DB_LoadZoneGeneric
LoadZoneGeneric(file, alloc, free) == Call(<<Info(file, alloc, free)>>, FALSE)

\* DB_LoadMapZones whose patch_ex call frees what the call before it loaded.
MapCallsFreeingPatch(m) ==
    << LoadZoneGeneric(<<"localized", m>>, "LOCALIZED",
           {"MAP_PATCH", "UI", "LOCALIZED", "PATCH_EX", "MAP_LOCA"}),
       LoadZoneGeneric(<<"localized_xl", m>>, "MAP_LOCA",
           {"MAP_PATCH", "UI", "PATCH_EX", "MAP_LOCA"}),
       LoadZoneGeneric(<<"patch", m>>, "MAP_PATCH", {"MAP_PATCH", "POST_LOAD", "UI", "PATCH_EX"}),
       LoadZoneGeneric(<<"patch_ex", m>>, "PATCH_EX", {"MAP_PATCH", "POST_LOAD", "UI", "PATCH_EX"}),
       LoadZoneGeneric(<<"map", m>>, "UI", {"POST_LOAD", "UI"}) >>

\* DB_LoadMapZones that leaves the language's zone of the last map alone.
MapCallsKeepingLoca(m) ==
    << LoadZoneGeneric(<<"localized", m>>, "LOCALIZED",
           {"MAP_PATCH", "UI", "LOCALIZED", "PATCH_EX"}),
       LoadZoneGeneric(<<"localized_xl", m>>, "MAP_LOCA", {"MAP_PATCH", "UI", "PATCH_EX"}),
       LoadZoneGeneric(<<"patch", m>>, "MAP_PATCH", {"MAP_PATCH", "POST_LOAD", "UI", "PATCH_EX"}),
       LoadZoneGeneric(<<"patch_ex", m>>, "PATCH_EX", {"POST_LOAD", "UI", "PATCH_EX"}),
       LoadZoneGeneric(<<"map", m>>, "UI", {"POST_LOAD", "UI"}) >>

\* DB_LoadMapZones
MapCalls(m) ==
    << LoadZoneGeneric(<<"localized", m>>, "LOCALIZED",
           {"MAP_PATCH", "UI", "LOCALIZED", "PATCH_EX", "MAP_LOCA"}),
       LoadZoneGeneric(<<"localized_xl", m>>, "MAP_LOCA",
           {"MAP_PATCH", "UI", "PATCH_EX", "MAP_LOCA"}),
       LoadZoneGeneric(<<"patch", m>>, "MAP_PATCH", {"MAP_PATCH", "POST_LOAD", "UI", "PATCH_EX"}),
       LoadZoneGeneric(<<"patch_ex", m>>, "PATCH_EX", {"POST_LOAD", "UI", "PATCH_EX"}),
       LoadZoneGeneric(<<"map", m>>, "UI", {"POST_LOAD", "UI"}) >>

MapFlags == {"LOCALIZED", "MAP_LOCA", "MAP_PATCH", "PATCH_EX", "UI"}
MapFiles(m) == {MapCalls(m)[i].infos[1].file : i \in 1..5}

\* ModFFLoadHook: the files of the mod that exist join the call the engine makes.
ModExtras == {<<"mod_ex">>, <<"mod_patch">>, <<"mod_ex_patch">>, <<"localized_mod">>}
Extra(f, present) == IF f \in present THEN <<Info(f, "MOD", {})>> ELSE <<>>
ModCall(present, free) ==
    Call(<<Info(<<"mod">>, "MOD", free)>>
         \o Extra(<<"mod_ex">>, present) \o Extra(<<"mod_patch">>, present)
         \o Extra(<<"mod_ex_patch">>, present) \o Extra(<<"localized_mod">>, present), TRUE)

Programs ==
    {[map |-> m, calls |-> MapCalls(m)] : m \in Maps} \cup
    {[map |-> NoMap, calls |-> <<ModCall(present, {"MOD"})>>] : present \in Mods} \cup
    {[map |-> NoMap, calls |-> <<c>>] : c \in EngineCalls \cup {Boot}}

AllCalls == UNION {Range(p.calls) : p \in Programs}
FilesOf(c) == {x.file : x \in Range(c.infos)}
Files == UNION {FilesOf(c) : c \in AllCalls}

\* The order of a table without the bits T4M added.
VanillaBits ==
    <<"MOD", "COMMON", "MAP_PATCH", "RESERVED_80", "POST_LOAD",
      "MAP_LOAD", "UI", "LOC_COMMON", "LOCALIZED", "BASE">>

\* Phase 3: one pass for each bit, in this order; 4 and 0x400 are permanent.
PriorityBits ==
    <<"MAP_LOCA", "PATCH_EX", "MOD", "COMMON", "MAP_PATCH", "RESERVED_80", "POST_LOAD",
      "MAP_LOAD", "UI", "LOC_COMMON", "LOCALIZED", "BASE">>

Freed == Range(PriorityBits)
Flags == Freed \cup {"CODE_POST_GFX", "RESERVED_400"}

M == INSTANCE PMem WITH Owners <- Files

\* The calls that are the engine's own.
Engine == EngineCalls \cup {Boot}

\* How the engine uses the loader.  A file of its own calls is named once in a call and
\* has the same flag in all of them, none of a map's; what a call loads replaces what
\* has that flag.  Boot loads what is never freed, and waits for it.
ASSUME ZoneAssumption ==
    /\ NoMap \notin Maps /\ Mods \subseteq SUBSET ModExtras
    /\ \A c \in Engine :
         /\ c.infos \in Seq([file : FilesOf(c), alloc : SUBSET Flags, free : SUBSET Freed])
         /\ c.sync \in BOOLEAN
         /\ \A i, j \in DOMAIN c.infos : c.infos[i].file = c.infos[j].file => i = j
         /\ \A i \in DOMAIN c.infos :
              /\ c.infos[i].file \notin ModExtras \cup {<<"mod">>} \cup UNION {MapFiles(m) : m \in Maps}
              /\ c.infos[i].alloc \cap (MapFlags \ {"UI"}) = {}
              /\ \A d \in Engine : \A j \in DOMAIN d.infos :
                   c.infos[i].file = d.infos[j].file => c.infos[i].alloc = d.infos[j].alloc
              /\ c # Boot => \E j \in DOMAIN c.infos : c.infos[i].alloc \cap c.infos[j].free # {}
    /\ Boot.sync /\ Boot.infos # <<>>
    /\ Boot.infos[1].alloc \cap Freed = {} /\ Boot.infos[1].file \notin Optional
    /\ EndOf \in [Files -> M!Ends]
    \* And PMem's own assumption.
    /\ NoOwner \notin Files
    /\ Size \in Nat /\ Word \in Nat /\ Slots \in Nat /\ 2 * Size <= Word
    /\ \A q \in Requests : /\ q.size \in Nat /\ q.alignment \in Nat \ {0}
                           /\ 2 * (q.size + q.alignment) <= Word

-----------------------------------------------------------------------------
Init ==
    /\ M!Init
    /\ loaded = <<>>
    /\ linked = {}
    /\ queue = <<>>
    /\ toLoad = 0
    /\ pending = 0
    /\ done = TRUE
    /\ main = "idle"
    /\ calls = <<>>
    /\ map = NoMap
    /\ worker = "asleep"
    /\ batch = <<>>
    /\ programs = 0

-----------------------------------------------------------------------------
(* The main thread *)

Ask(p) ==
    /\ main = "idle" /\ calls = <<>>
    /\ p.calls = <<Boot>> <=> loaded = <<>>
    /\ programs < MaxPrograms
    /\ programs' = programs + 1
    /\ calls' = p.calls
    /\ map' = IF p.map = NoMap THEN map ELSE p.map
    /\ UNCHANGED <<memory, workerVars, loaded, linked, pending, done, main>>

\* DB_LoadXAssets, Phase 1: the zones some entry's free flags match.
Matching(infos) ==
    {i \in DOMAIN loaded : \E k \in DOMAIN infos : loaded[i].alloc \cap infos[k].free # {}}

\* The same, without waiting for the database thread.
UnloadAtOnce ==
    /\ main = "idle" /\ calls # <<>>
    /\ LET zs == Matching(Head(calls).infos)
       IN  /\ main' = IF zs = {} THEN "enqueue" ELSE "remove"
           /\ linked' = linked \ {loaded[i].file : i \in zs}
    /\ UNCHANGED <<memory, workerVars, loaded, pending, done, calls, map, programs>>

\* Phases 0.5 and 1: wait for the database thread, then take the writer lock and
\* unload the assets of these zones.
UnloadAssets ==
    /\ main = "idle" /\ calls # <<>>
    /\ done
    /\ LET zs == Matching(Head(calls).infos)
       IN  /\ main' = IF zs = {} THEN "enqueue" ELSE "remove"
           /\ linked' = linked \ {loaded[i].file : i \in zs}
    /\ UNCHANGED <<memory, workerVars, loaded, pending, done, calls, map, programs>>

\* The passes (entry, bit) that still have a zone to remove.
Passes(infos) ==
    {p \in (DOMAIN infos) \X (DOMAIN PriorityBits) :
        /\ PriorityBits[p[2]] \in infos[p[1]].free
        /\ \E i \in DOMAIN loaded : PriorityBits[p[2]] \in loaded[i].alloc}

FirstPass(infos) ==
    CHOOSE p \in Passes(infos) : \A q \in Passes(infos) :
        p[1] < q[1] \/ (p[1] = q[1] /\ p[2] <= q[2])

LastWith(bit) ==
    CHOOSE i \in DOMAIN loaded : /\ bit \in loaded[i].alloc
                                 /\ \A j \in DOMAIN loaded : bit \in loaded[j].alloc => j <= i

\* DB_RemoveZoneEntry, of the pass that comes next and the last zone it matches.
RemoveZoneEntry ==
    /\ main = "remove"
    /\ Passes(Head(calls).infos) # {}
    /\ \E i \in {LastWith(PriorityBits[FirstPass(Head(calls).infos)[2]])} :
         /\ M!FreeXZoneMemory(loaded[i].file, EndOf[loaded[i].file])
         /\ loaded' = RemoveAt(loaded, i)
    /\ UNCHANGED <<workerVars, linked, pending, done, main, calls, map, programs>>

\* Phase 4: the writer lock is released.
EndRemove ==
    /\ main = "remove"
    /\ Passes(Head(calls).infos) = {}
    /\ main' = "enqueue"
    /\ UNCHANGED <<memory, workerVars, loaded, linked, pending, done, calls, map, programs>>

\* Phases 5 to 7: DB_AddZonesToQueue, and for a synchronous call wait for the end.
Enqueue ==
    /\ main = "enqueue"
    /\ queue' = Head(calls).infos
    /\ toLoad' = Len(Head(calls).infos)
    /\ pending' = pending + Len(Head(calls).infos)
    /\ done' = FALSE
    /\ main' = IF Head(calls).sync THEN "wait" ELSE "idle"
    /\ calls' = Tail(calls)
    /\ UNCHANGED <<memory, loaded, linked, map, worker, batch, programs>>

Wait ==
    /\ main = "wait"
    /\ done
    /\ main' = "idle"
    /\ UNCHANGED <<memory, workerVars, loaded, linked, pending, done, calls, map, programs>>

\* DB_UnloadAllZones, Phases 1 to 4
UnloadAllZones ==
    /\ main = "idle" /\ calls = <<>>
    /\ done /\ loaded # <<>>
    /\ programs < MaxPrograms
    /\ programs' = programs + 1
    /\ linked' = {}
    /\ main' = "clear"
    /\ UNCHANGED <<memory, workerVars, loaded, pending, done, calls, map>>

\* Phase 5, DB_ZoneEntryCleanup from the last zone down.  Nothing reads the table
\* before Phase 6 resets g_zoneCount, so an entry that was cleaned up is left out.
ZoneEntryCleanup ==
    /\ main = "clear"
    /\ loaded # <<>>
    /\ M!FreeXZoneMemory(Last(loaded).file, EndOf[Last(loaded).file])
    /\ loaded' = Front(loaded)
    /\ main' = IF loaded' = <<>> THEN "idle" ELSE "clear"
    /\ UNCHANGED <<workerVars, linked, pending, done, calls, map, programs>>

-----------------------------------------------------------------------------
(* The database thread: DB_ProcessZoneQueue, woken by DB_AddZonesToQueue *)

Others == <<loaded, linked, done, main, calls, map, programs>>

\* It reads the counter, reads it again with the queue, and then resets it.
Wake ==
    /\ worker = "asleep" /\ toLoad # 0
    /\ worker' = "read"
    /\ UNCHANGED <<memory, queue, toLoad, pending, batch>> /\ UNCHANGED Others

ReadCount ==
    /\ worker = "read"
    /\ batch' = SubSeq(queue, 1, toLoad)
    /\ worker' = "reset"
    /\ UNCHANGED <<memory, queue, toLoad, pending>> /\ UNCHANGED Others

ResetCount ==
    /\ worker = "reset"
    /\ toLoad' = 0
    /\ worker' = "open"
    /\ UNCHANGED <<memory, queue, pending, batch>> /\ UNCHANGED Others

\* A dropped zone that stays pending.
DropForgotten ==
    /\ worker = "open" /\ batch # <<>>
    /\ Head(batch).file \in Optional
    /\ batch' = Tail(batch)
    /\ UNCHANGED <<memory, queue, toLoad, worker, pending>> /\ UNCHANGED Others

\* DB_OpenZoneFile fails: "zone dropped, could not open".
DropZone ==
    /\ worker = "open" /\ batch # <<>>
    /\ Head(batch).file \in Optional
    /\ pending' = pending - 1
    /\ batch' = Tail(batch)
    /\ UNCHANGED <<memory, queue, toLoad, worker>> /\ UNCHANGED Others

\* It succeeds: the zone is in the table, and allocates.
OpenZoneFile ==
    /\ worker = "open" /\ batch # <<>>
    /\ M!PushSlot(Head(batch).file, EndOf[Head(batch).file])
    /\ loaded' = Append(loaded, [file |-> Head(batch).file, alloc |-> Head(batch).alloc])
    /\ worker' = "load"
    /\ UNCHANGED <<queue, toLoad, pending, batch, linked, done, main, calls, map, programs>>

\* The blocks of the zone.
LoadBlock(q) ==
    /\ worker = "load"
    /\ Cardinality({b \in blocks : b.owner = Head(batch).file}) < MaxBlocks
    /\ M!Alloc(q)
    /\ UNCHANGED <<queue, toLoad, worker, pending, batch>> /\ UNCHANGED Others

\* The assets are linked, and the zone is no longer pending.
ZoneLoaded ==
    /\ worker = "load"
    /\ \E b \in blocks : b.owner = Head(batch).file
    /\ M!EndAlloc
    /\ linked' = linked \cup {Head(batch).file}
    /\ pending' = pending - 1
    /\ batch' = Tail(batch)
    /\ worker' = "open"
    /\ UNCHANGED <<queue, toLoad, loaded, done, main, calls, map, programs>>

\* SetEvent(g_dbSecondaryEvent)
BatchDone ==
    /\ worker = "open" /\ batch = <<>>
    /\ done' = TRUE
    /\ worker' = "asleep"
    /\ UNCHANGED <<memory, queue, toLoad, pending, batch, loaded, linked, main, calls, map,
                   programs>>

-----------------------------------------------------------------------------
Main == UnloadAssets \/ RemoveZoneEntry \/ EndRemove \/ Enqueue \/ Wait \/ ZoneEntryCleanup

Worker ==
    \/ Wake \/ ReadCount \/ ResetCount \/ DropZone \/ OpenZoneFile
    \/ \E q \in Requests : LoadBlock(q)
    \/ ZoneLoaded \/ BatchDone

Next == Main \/ Worker \/ UnloadAllZones \/ \E p \in Programs : Ask(p)

Spec == Init /\ [][Next]_vars

\* Both threads run.
FairSpec == Spec /\ WF_vars(Main) /\ WF_vars(Worker)

-----------------------------------------------------------------------------
(* Properties *)

Quiet == main = "idle" /\ done

\* The zones use the memory the way PMem is meant to be used: one zone allocates at
\* a time, no zone twice, and nothing is freed while the database thread allocates.
UsesMemoryProperly == M!Spec

\* The table, the memory and the registry agree whenever no load is under way: a zone
\* is in the table iff its assets are linked iff it holds a slot of PMem.
Agree ==
    Quiet =>
        /\ linked = {loaded[i].file : i \in DOMAIN loaded}
        /\ Cardinality(linked) = Len(loaded)
        /\ linked = {o \in Files : \E e \in M!Ends : \E i \in DOMAIN prim[e].slots :
                         prim[e].slots[i].owner = o}

\* Every request is opened or dropped once, by a worker that looks at the counter
\* twice: none is lost between the second look and the reset, none is served twice.
PendingExact ==
    pending = Len(batch) + (IF worker \in {"asleep", "read"} THEN toLoad ELSE 0)

\* After a map was loaded, nothing of another map is left.
OneMap ==
    Quiet /\ calls = <<>> /\ map # NoMap =>
        \A i \in DOMAIN loaded : loaded[i].alloc \cap (MapFlags \ {"UI"}) # {} =>
            loaded[i].file \in MapFiles(map)

\* A call of DB_LoadMapZones does not unload what an earlier call of it has loaded:
\* once its first call is over, the zones it removes are not those of the map.
KeepsOwnZones ==
    [][\A f \in MapFiles(map) :
         /\ map \in Maps
         /\ Len(calls) \in 1..4 /\ calls = SubSeq(MapCalls(map), 6 - Len(calls), 5)
         /\ f \in linked
         => f \in linked']_vars

\* Whatever is asked for is loaded or dropped in the end, missing files included.
LoadsEnd == calls # <<>> ~> (calls = <<>> /\ pending = 0)

=============================================================================
