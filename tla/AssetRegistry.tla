---------------------------- MODULE AssetRegistry ----------------------------
(***************************************************************************)
(* The asset registry: the pool of XAssetEntry, the chains of g_assetEntry-*)
(* Pool hanging off db_hashTable, the override chains, the deferred links  *)
(* of g_copyInfo, and what loading, flushing and unloading zones do to     *)
(* them (T4.cpp:854-2137, PatchT4MAM_AssetPool.cpp, DB_LoadXAssets and     *)
(* DB_UnloadAllZones in PatchT4Load.cpp).                                  *)
(*                                                                         *)
(* Every operation here runs inside the writer lock (module DBLock), so it *)
(* is one step; the steps of the database thread that links the assets of  *)
(* a zone, one by one, interleave with lookups of the main thread.  A name *)
(* stands for the pair (type, name); all names are of one asset type, with *)
(* one default asset.                                                      *)
(***************************************************************************)
EXTENDS Integers, FiniteSets, Sequences, SequencesExt

CONSTANTS
    Names,          \* asset names of the type
    DefaultName,    \* DB_XAssetDefaultNames[type], or NoName
    NoName,
    Exempt,         \* type is 0x10 or 0x20: may be overridden without a default
    Zones,          \* zone indices; 0 is "no zone", the index of a default copy
    Permanent,      \* zones no freeFlags ever match (ZONE_CODE_POST_GFX, 0x400)
    Priority,       \* g_zoneFileNames[z].loadOrder
    Content,        \* the assets each zone file defines
    SoftRefs,       \* the assets it only names, with a leading comma
    EntryCount,     \* kAssetEntryPoolSize
    HeaderLimit,    \* g_poolSize[type]
    CopyInfoLimit,  \* 0xC00
    MaxDrops        \* bound on ERR_DROPs the main thread survives

ASSUME RegistryAssumption ==
    /\ DefaultName \in Names \cup {NoName} /\ NoName \notin Names
    /\ Exempt \in BOOLEAN
    /\ Zones \subseteq Nat \ {0} /\ Permanent \subseteq Zones
    /\ Priority \in [Zones -> Int]
    /\ Content \in [Zones -> SUBSET Names] /\ SoftRefs \in [Zones -> SUBSET Names]
    /\ \A z \in Zones : Content[z] \cap SoftRefs[z] = {}
    /\ IsFiniteSet(Names)
    /\ {EntryCount, HeaderLimit, CopyInfoLimit, MaxDrops} \subseteq Nat

\* The code takes for granted that the engine's zone files keep the default asset in
\* a zone that is never unloaded, as the last of its overrides.
ASSUME DefaultAssumption ==
    DefaultName # NoName =>
        \E p \in Permanent : /\ DefaultName \in Content[p]
                              /\ \A z \in Zones : DefaultName \in Content[z] =>
                                     z \in Permanent \/ Priority[z] >= Priority[p]

VARIABLES
    db,       \* the registry, a record: see Registry
    queue,    \* g_copyInfo[0 .. g_copyInfoCount - 1]
    zones,    \* g_zoneLoaded: the zones in the order they were loaded
    loading,  \* g_currentZoneIndex, or 0 when the database thread is idle
    todo,     \* what that thread has still to link
    sync,     \* g_syncValue
    drops,    \* ERR_DROPs of the main thread so far
    halted    \* an error of the database thread ended the process

vars == <<db, queue, zones, loading, todo, sync, drops, halted>>

Entries == 1..EntryCount
NoEntry == 0

(***************************************************************************)
(* chain[n] is the entry of n in db_hashTable followed by its nextOverride *)
(* chain.  data[e] is the zone whose memory the header of e points into;   *)
(* zone[e] is zoneIndex.  free is g_freeAssetEntries (which entry is its   *)
(* head makes no difference), refs is g_assetRefCount, told the entries    *)
(* DB_InUseHandlerDispatch was called for in the last step, and lost the   *)
(* entries popped for an asset whose header pool was exhausted.            *)
(***************************************************************************)
Registry ==
    [chain : [Names -> Seq(Entries)], zone : [Entries -> Zones \cup {0}],
     data : [Entries -> Zones \cup {0}], inuse : SUBSET Entries,
     free : SUBSET Entries, lost : SUBSET Entries, refs : Nat,
     told : SUBSET Entries]

Init ==
    /\ db = [chain |-> [n \in Names |-> <<>>], zone |-> [e \in Entries |-> 0],
             data |-> [e \in Entries |-> 0], inuse |-> {},
             free |-> Entries, lost |-> {}, refs |-> 0, told |-> {}]
    /\ queue = <<>>
    /\ zones = <<>>
    /\ loading = 0
    /\ todo = {}
    /\ sync = FALSE
    /\ drops = 0
    /\ halted = FALSE

Quiet(r) == [r EXCEPT !.told = {}]

\* What is left of the list s without the members of S.
Without(s, S) == FoldLeft(LAMBDA rest, x : IF x \in S THEN rest ELSE Append(rest, x), <<>>, s)

HeadOf(r, n) == IF r.chain[n] = <<>> THEN NoEntry ELSE r.chain[n][1]

-----------------------------------------------------------------------------
(* The entry pool *)

\* DB_AllocAssetHeader finds a slot in the type's own pool.
HeaderLeft(r) == Cardinality(Entries \ (r.free \cup r.lost)) < HeaderLimit

CanAlloc(r) == r.free # {} /\ HeaderLeft(r)

NextFree(r) == CHOOSE e \in r.free : \A f \in r.free : e <= f

\* DB_AllocXAssetEntry; the caller fills the header with data of zone d.
Alloc(r, z, d) ==
    LET e == NextFree(r)
    IN  [r EXCEPT !.free = @ \ {e}, !.inuse = @ \ {e}, !.zone[e] = z, !.data[e] = d]

\* The entry is popped before the header is asked for, so that a full header
\* pool loses it.
AllocFailed(r) ==
    IF r.free = {} THEN r
    ELSE LET e == NextFree(r) IN [r EXCEPT !.free = @ \ {e}, !.lost = @ \cup {e}]

\* Headers to their pool, entries to g_freeAssetEntries.  What a free entry still
\* holds is never read.
ReleaseAll(r, S) ==
    [r EXCEPT !.free = @ \cup S, !.inuse = @ \ S,
              !.zone = [e \in Entries |-> IF e \in S THEN 0 ELSE @[e]],
              !.data = [e \in Entries |-> IF e \in S THEN 0 ELSE @[e]]]

Release(r, e) == ReleaseAll(r, {e})

Tell(r, e) == IF e \in r.inuse THEN [r EXCEPT !.told = @ \cup {e}] ELSE r

-----------------------------------------------------------------------------
(* Linking *)

\* A lookup that stops at the default's entry in the hash table.
DefaultAtHead(r) ==
    IF DefaultName = NoName \/ r.chain[DefaultName] = <<>> THEN NoEntry
    ELSE r.chain[DefaultName][1]

\* DB_FindDefaultAsset: the last node of the default's override chain.
FindDefaultAsset(r) ==
    IF DefaultName = NoName \/ r.chain[DefaultName] = <<>> THEN NoEntry
    ELSE Last(r.chain[DefaultName])

\* DB_LinkXAssetEntry, when there is a default and an entry to hold its copy.
LinkDefault(r, n) ==
    LET e == NextFree(r)
    IN  [Alloc(r, 0, r.data[FindDefaultAsset(r)])
            EXCEPT !.refs = @ + 1, !.chain[n] = <<e>>, !.inuse = @ \cup {e}]

\* An insertion that does not compare priorities.
AppendOverride(r, n, e) == [r EXCEPT !.chain[n] = Append(@, e)]

\* C.1 - the new asset loses: below every override of higher priority.
InsertOverride(r, n, e) ==
    LET c == r.chain[n]
        below == {i \in 2..Len(c) : Priority[r.zone[e]] >= Priority[r.zone[c[i]]]}
        at == IF below = {} THEN Len(c) + 1 ELSE CHOOSE i \in below : \A j \in below : i <= j
    IN  [r EXCEPT !.chain[n] = InsertAt(c, at, e)]

\* C.2 without the in-use dispatch.
ReplaceUntold(r, n, e) ==
    LET h == HeadOf(r, n)
    IN  [r EXCEPT !.chain[n] = <<h, e>> \o Tail(@),
                  !.zone = [@ EXCEPT ![h] = r.zone[e], ![e] = r.zone[h]],
                  !.data = [@ EXCEPT ![h] = r.data[e], ![e] = r.data[h]]]

\* C.2 that puts the new entry in the hash table instead of its data in the old.
ReplaceByRelinking(r, n, e) == [Tell(r, HeadOf(r, n)) EXCEPT !.chain[n] = <<e>> \o @]

\* C.2 - the new asset wins: the two entries swap data and zone, and the new one,
\* now holding the old data, heads the override chain.
ReplaceHead(r, n, e) ==
    LET h == HeadOf(r, n)
    IN  [Tell(r, h) EXCEPT
            !.chain[n] = <<h, e>> \o Tail(@),
            !.zone = [@ EXCEPT ![h] = r.zone[e], ![e] = r.zone[h]],
            !.data = [@ EXCEPT ![h] = r.data[e], ![e] = r.data[h]]]

\* C.0 that forgets g_assetRefCount.
ReplaceUncounted(r, n, e) ==
    LET h == HeadOf(r, n)
    IN  Release([Tell(r, h) EXCEPT !.zone[h] = r.zone[e], !.data[h] = r.data[e]], e)

\* C.0 - a default copy takes the asset's data, and the new entry is freed.
ReplaceDefault(r, n, e) ==
    LET h == HeadOf(r, n)
    IN  Release([Tell(r, h) EXCEPT !.refs = @ - 1, !.zone[h] = r.zone[e],
                                   !.data[h] = r.data[e]], e)

WinsStrictly(r, n, e) == Priority[r.zone[e]] > Priority[r.zone[HeadOf(r, n)]]

Wins(r, n, e) == Priority[r.zone[e]] >= Priority[r.zone[HeadOf(r, n)]]

\* DB_LinkXAssetEntryOverrideAware(e, copyData = 1)
Arbitrate(r, n, e) ==
    IF r.chain[n] = <<>>            THEN [r EXCEPT !.chain[n] = <<e>>]
    ELSE IF r.zone[HeadOf(r, n)] = 0 THEN ReplaceDefault(r, n, e)
    ELSE IF Wins(r, n, e)           THEN ReplaceHead(r, n, e)
    ELSE InsertOverride(r, n, e)

\* With copyData = 0 whatever would change the head is left to DB_PushCopyInfo.
Deferred(r, n, e) ==
    r.chain[n] # <<>> /\ (r.zone[HeadOf(r, n)] = 0 \/ Wins(r, n, e))

\* "Attempting to override asset ..."
MayOverride(r, n) ==
    \/ r.chain[n] = <<>> \/ r.zone[HeadOf(r, n)] = 0
    \/ DefaultName # NoName \/ Exempt

\* Every link of g_copyInfo, in the order they were queued.
FlushAll(r, q) == FoldLeft(LAMBDA acc, l : Arbitrate(acc, l.name, l.entry), r, q)
-----------------------------------------------------------------------------
(* Unloading *)

\* The overrides of n that come from zone z leave the chain.
DropOverrides(r, n, z) ==
    LET c == r.chain[n]
        gone == {c[i] : i \in {j \in 2..Len(c) : r.zone[c[j]] = z}}
    IN  ReleaseAll([r EXCEPT !.chain[n] = Without(@, gone)], gone)

\* A promotion that does not give the override's entry back.
PromoteLeaking(r, n) ==
    LET c == r.chain[n]
    IN  [r EXCEPT !.chain[n] = <<c[1]>> \o Tail(Tail(c)),
                  !.zone[c[1]] = r.zone[c[2]], !.data[c[1]] = r.data[c[2]]]

\* DB_PromoteOverride: the head takes over the first override.
PromoteOverride(r, n) ==
    LET c == r.chain[n]
    IN  Release([r EXCEPT !.chain[n] = <<c[1]>> \o Tail(Tail(c)),
                          !.zone[c[1]] = r.zone[c[2]], !.data[c[1]] = r.data[c[2]]], c[2])

\* The head becomes a copy of the default asset, under its own name.
RebindDefault(r, n) ==
    [r EXCEPT !.refs = @ + 1, !.zone[HeadOf(r, n)] = 0,
              !.data[HeadOf(r, n)] = r.data[FindDefaultAsset(r)]]

Unlink(r, n) == Release([r EXCEPT !.chain[n] = <<>>], HeadOf(r, n))

\* DB_UnloadZoneAssets(z, copyDefaults) for one chain of the hash table.
UnloadName(r, n, z, copyDefaults) ==
    LET told == IF copyDefaults THEN Tell(r, HeadOf(r, n)) ELSE r
    IN  IF r.chain[n] = <<>>                THEN r
        ELSE IF r.zone[HeadOf(r, n)] # z    THEN DropOverrides(r, n, z)
        ELSE IF Len(r.chain[n]) > 1         THEN PromoteOverride(told, n)
        ELSE IF copyDefaults /\ FindDefaultAsset(r) # NoEntry THEN RebindDefault(told, n)
        ELSE Unlink(told, n)

\* order is the order of the names in the hash table.
UnloadZoneAssets(r, z, copyDefaults, order) ==
    FoldLeft(LAMBDA acc, n : UnloadName(acc, n, z, copyDefaults), r, order)

\* Zones go last loaded, first unloaded.
UnloadZones(r, zs, copyDefaults, order) ==
    FoldRight(LAMBDA z, acc : IF z \in zs THEN UnloadZoneAssets(acc, z, copyDefaults, order)
                              ELSE acc, zones, r)

Heads(r) == {HeadOf(r, n) : n \in {m \in Names : r.chain[m] # <<>>}}
Copies(r) == {e \in Heads(r) : r.zone[e] = 0}

\* Unlink the names whose head is in S, and forget a reference for each.
Drop(r, S) ==
    ReleaseAll([r EXCEPT !.refs = @ - Cardinality(S),
                         !.chain = [n \in Names |->
                             IF HeadOf(r, n) \in S THEN <<>> ELSE @[n]]], S)

\* DB_PostUnloadCleanup: owned entries are told, unused default copies go.
PostUnloadCleanup(r) ==
    Drop([r EXCEPT !.told = @ \cup (Heads(r) \ Copies(r))], Copies(r) \ r.inuse)

\* A cleanup that keeps the default copies, for DB_PostUnloadCleanup to judge.
CleanupOwned(r) == Drop(r, Heads(r) \ Copies(r))

\* DB_CleanupAssetRefs counts one reference per name, whatever its zone.
CleanupAssetRefs(r) == Drop(r, Heads(r))

-----------------------------------------------------------------------------
(* The database thread loads one zone after the other, an asset at a time. *)

Idle == loading = 0 /\ ~halted

StartLoad(z, s) ==
    /\ Idle
    /\ z \notin ToSet(zones)
    /\ z \in Permanent \/ Permanent \subseteq ToSet(zones)
    /\ queue = <<>> \/ sync = s       \* g_syncValue is set after a flush
    /\ loading' = z
    /\ sync' = s
    /\ zones' = Append(zones, z)
    /\ todo' = {<<n, FALSE>> : n \in Content[z]} \cup {<<n, TRUE>> : n \in SoftRefs[z]}
    /\ db' = Quiet(db)
    /\ UNCHANGED <<queue, drops, halted>>

\* DB_LinkXAssetEntryOverrideAware(asset, copyData = 0), with DB_PushCopyInfo.
LinkAsset(n) ==
    /\ ~halted
    /\ <<n, FALSE>> \in todo
    /\ todo' = todo \ {<<n, FALSE>>}
    /\ UNCHANGED <<zones, loading, sync, drops>>
    /\ IF CanAlloc(db) /\ MayOverride(db, n)
       THEN LET e == NextFree(db)
                r == Alloc(Quiet(db), loading, loading)
            IN  /\ halted' = (Deferred(r, n, e) /\ ~sync /\ Len(queue) >= CopyInfoLimit)
                /\ IF Deferred(r, n, e) /\ ~sync
                   THEN /\ db' = r
                        /\ queue' = IF halted' THEN queue
                                    ELSE Append(queue, [name |-> n, entry |-> e])
                   ELSE /\ db' = Arbitrate(r, n, e)
                        /\ UNCHANGED queue
       ELSE /\ halted' = TRUE
            /\ db' = AllocFailed(Quiet(db))
            /\ UNCHANGED queue

\* The same for ",name": a default copy stands in when nothing has the name.
LinkSoft(n) ==
    /\ ~halted
    /\ <<n, TRUE>> \in todo
    /\ todo' = todo \ {<<n, TRUE>>}
    /\ UNCHANGED <<queue, zones, loading, sync, drops>>
    /\ IF db.chain[n] # <<>>
       THEN db' = Quiet(db) /\ UNCHANGED halted
       ELSE IF FindDefaultAsset(db) # NoEntry /\ CanAlloc(db)
       THEN db' = LinkDefault(Quiet(db), n) /\ UNCHANGED halted
       ELSE db' = AllocFailed(Quiet(db)) /\ halted' = TRUE

EndLoad ==
    /\ loading # 0 /\ todo = {} /\ ~halted
    /\ loading' = 0
    /\ db' = Quiet(db)
    /\ UNCHANGED <<queue, zones, todo, sync, drops, halted>>

-----------------------------------------------------------------------------
(* The main thread *)

\* DB_FlushCopyInfoQueue.  It polls g_dbWorkerEvent first and returns at once when the
\* event is signaled.  The event is the engine's; in this code only a flush that has
\* drained the queue signals it.  That it is signaled is taken to mean that nothing was
\* queued since: then returning changes nothing, and Flush, and the flushes of Unload
\* and UnloadAll, leave no link in the queue.
Flush ==
    /\ Idle
    /\ queue # <<>>
    /\ db' = FlushAll(Quiet(db), queue)
    /\ queue' = <<>>
    /\ UNCHANGED <<zones, loading, todo, sync, drops, halted>>

\* DB_FindXAssetHeader, from the answer on: found, or given a default copy.  The
\* allocation may fail, and the error leaves the reference count one too high.
Find(n) ==
    /\ ~halted
    /\ UNCHANGED <<queue, zones, loading, todo, sync, halted>>
    /\ IF db.chain[n] # <<>>
       THEN db' = [Quiet(db) EXCEPT !.inuse = @ \cup {HeadOf(db, n)}] /\ UNCHANGED drops
       ELSE /\ FindDefaultAsset(db) # NoEntry
            /\ IF CanAlloc(db)
               THEN db' = LinkDefault(Quiet(db), n) /\ UNCHANGED drops
               ELSE /\ drops < MaxDrops
                    /\ drops' = drops + 1
                    /\ db' = [AllocFailed(Quiet(db)) EXCEPT !.refs = @ + 1]

\* DB_ClearInuseFlags
ClearInuse ==
    /\ Idle
    /\ db' = [Quiet(db) EXCEPT !.inuse = @ \ Heads(db)]
    /\ UNCHANGED <<queue, zones, loading, todo, sync, drops, halted>>

\* DB_LoadXAssets up to the enqueueing of the new zones: flush (see Flush); for each zone
\* asked for, unload those its free flags match; clean up; take them off the table.  A
\* call asks for one zone or more: ys and zs are what two of them match.
Unload(ys, zs) ==
    /\ Idle
    /\ zs # {} /\ ys \cap zs = {} /\ ys \cup zs \subseteq ToSet(zones) \ Permanent
    /\ \E order \in SetToSeqs(Names) :
         LET flushed == FlushAll(Quiet(db), queue)
             unloaded == UnloadZones(UnloadZones(flushed, ys, TRUE, order), zs, TRUE, order)
         IN  db' = PostUnloadCleanup(unloaded)
    /\ queue' = <<>>
    /\ zones' = Without(zones, ys \cup zs)
    /\ UNCHANGED <<loading, todo, sync, drops, halted>>

\* DB_UnloadAllZones: the same flush, then every zone.
UnloadAll ==
    /\ Idle
    /\ zones # <<>>
    /\ \E order \in SetToSeqs(Names) :
         db' = PostUnloadCleanup(CleanupAssetRefs(
                   UnloadZones(FlushAll(Quiet(db), queue), ToSet(zones), FALSE, order)))
    /\ queue' = <<>>
    /\ zones' = <<>>
    /\ UNCHANGED <<loading, todo, sync, drops, halted>>

-----------------------------------------------------------------------------
Next ==
    \/ \E z \in Zones, s \in BOOLEAN : StartLoad(z, s)
    \/ \E n \in Names : LinkAsset(n) \/ LinkSoft(n) \/ Find(n)
    \/ EndLoad \/ Flush \/ ClearInuse \/ UnloadAll
    \/ \E ys, zs \in SUBSET Zones : Unload(ys, zs)

Spec == Init /\ [][Next]_vars

-----------------------------------------------------------------------------
(* Properties *)

TypeOK ==
    /\ db \in Registry
    /\ queue \in Seq([name : Names, entry : Entries])
    /\ zones \in Seq(Zones)
    /\ loading \in Zones \cup {0}
    /\ todo \subseteq Names \X BOOLEAN
    /\ sync \in BOOLEAN /\ halted \in BOOLEAN
    /\ drops \in 0..MaxDrops

Queued == {l.entry : l \in ToSet(queue)}
Linked == UNION {ToSet(db.chain[n]) : n \in Names}

\* Every entry of the pool is in one place: free, in one chain, or queued.  Only
\* an exhausted header pool ever loses one, with the error that reports it.
EntriesAccounted ==
    /\ \A m, n \in Names : \A i \in 1..Len(db.chain[m]), j \in 1..Len(db.chain[n]) :
           db.chain[m][i] = db.chain[n][j] => m = n /\ i = j
    /\ \A i, j \in 1..Len(queue) : queue[i].entry = queue[j].entry => i = j
    /\ Linked \cap Queued = {} /\ (Linked \cup Queued) \cap (db.free \cup db.lost) = {}
    /\ db.free \cap db.lost = {}
    /\ ~halted => /\ Linked \cup Queued \cup db.free \cup db.lost = Entries
                  /\ Cardinality(db.lost) <= drops

\* g_assetRefCount is the number of default copies; each ERR_DROP in
\* DB_LinkXAssetEntry after the increment leaves it one too high for good.
RefCountExact == ~halted => db.refs = Cardinality(Copies(db)) + drops

\* "The bucket HEAD ALWAYS holds the data of the max-priority zone": a chain goes
\* down in priority, has one entry per zone, and default copies have no overrides.
ChainsOrdered ==
    \A n \in Names : LET c == db.chain[n] IN \A i, j \in 1..Len(c) : i < j =>
        /\ db.zone[c[i]] # 0 /\ db.zone[c[j]] # 0
        /\ db.zone[c[i]] # db.zone[c[j]]
        /\ Priority[db.zone[c[i]]] >= Priority[db.zone[c[j]]]

\* No header points into the memory of a zone that is gone, default copies and
\* deferred links included; and an owned entry holds the data of its owner.
NoDangling ==
    ~halted => \A e \in Linked \cup Queued :
        /\ db.data[e] \in ToSet(zones)
        /\ db.zone[e] # 0 => db.data[e] = db.zone[e]

IndexOfZone(z) == CHOOSE i \in 1..Len(zones) : zones[i] = z
Owners(n) == {z \in ToSet(zones) : n \in Content[z]}
Before(y, z) ==
    \/ Priority[y] > Priority[z]
    \/ Priority[y] = Priority[z] /\ IndexOfZone(y) > IndexOfZone(z)

\* Once loads are flushed, a name is served by the zone of highest priority that
\* defines it, the last loaded among equals, and the zones that would replace it
\* wait behind it in that order: whatever was loaded, deferred and unloaded before.
ServesBestZone ==
    Idle /\ queue = <<>> => \A n \in Names :
        IF Owners(n) = {}
        THEN \A i \in 1..Len(db.chain[n]) : i = 1 /\ db.zone[db.chain[n][i]] = 0
        ELSE /\ {db.zone[e] : e \in ToSet(db.chain[n])} = Owners(n)
             /\ \A i, j \in 1..Len(db.chain[n]) :
                    i < j => Before(db.zone[db.chain[n][i]], db.zone[db.chain[n][j]])

\* While zones are only added, a name that can be found stays found, in the same
\* entry: the header a caller keeps is never freed under it.
FoundStays ==
    [][Len(zones') >= Len(zones) =>
         \A n \in Names : db.chain[n] # <<>> => HeadOf(db', n) = HeadOf(db, n)]_vars

\* Whoever holds the header of an entry in use is told, by the handler dispatch of
\* the same step, when other data is put into it.
HoldersTold ==
    [][\A n \in Names : LET e == HeadOf(db, n) IN
         e # NoEntry /\ e = HeadOf(db', n) /\ e \in db.inuse /\ db'.data[e] # db.data[e]
             => e \in db'.told]_vars

\* Unloading every zone empties the registry: every name, entry and reference goes,
\* but for what an earlier error has lost.
UnloadAllEmpties ==
    [][zones # <<>> /\ zones' = <<>> =>
         /\ \A n \in Names : db'.chain[n] = <<>>
         /\ db'.free = Entries \ db'.lost
         /\ db'.refs = drops]_vars

=============================================================================
