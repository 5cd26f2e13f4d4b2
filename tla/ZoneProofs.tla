------------------------------ MODULE ZoneProofs ------------------------------
(***************************************************************************)
(* The loader keeps its books: for any maps, mods and calls of the engine, *)
(* in any order, and any interleaving of its two threads.  No file is in   *)
(* the table twice, table, registry and memory agree, requests are served  *)
(* once, one map replaces the other, and PMem is used as it is meant to.   *)
(***************************************************************************)
EXTENDS ZoneLoader, FiniteSetTheorems, SequenceTheorems, WellFoundedInduction, TLAPS

-----------------------------------------------------------------------------
(* What is asked for *)

\* The file, the flag and the flags freed of each call of DB_LoadMapZones.
Kind == <<"localized", "localized_xl", "patch", "patch_ex", "map">>
Flag == <<"LOCALIZED", "MAP_LOCA", "MAP_PATCH", "PATCH_EX", "UI">>
Frees == << {"MAP_PATCH", "UI", "LOCALIZED", "PATCH_EX", "MAP_LOCA"},
            {"MAP_PATCH", "UI", "PATCH_EX", "MAP_LOCA"},
            {"MAP_PATCH", "POST_LOAD", "UI", "PATCH_EX"},
            {"POST_LOAD", "UI", "PATCH_EX"},
            {"POST_LOAD", "UI"} >>

MapFile(i, m) == <<Kind[i], m>>

\* What each call of DB_LoadMapZones asks for.
LEMMA MapCall ==
    ASSUME NEW m, NEW i \in 1..5
    PROVE  MapCalls(m)[i].infos =
               <<[file |-> MapFile(i, m), alloc |-> {Flag[i]}, free |-> Frees[i]]>>
<1>1. i = 1 \/ i = 2 \/ i = 3 \/ i = 4 \/ i = 5
  OBVIOUS
<1>2. CASE i = 1
  BY <1>2 DEF MapCalls, LoadZoneGeneric, Call, Info, MapFile, Kind, Flag, Frees
<1>3. CASE i = 2
  BY <1>3 DEF MapCalls, LoadZoneGeneric, Call, Info, MapFile, Kind, Flag, Frees
<1>4. CASE i = 3
  BY <1>4 DEF MapCalls, LoadZoneGeneric, Call, Info, MapFile, Kind, Flag, Frees
<1>5. CASE i = 4
  BY <1>5 DEF MapCalls, LoadZoneGeneric, Call, Info, MapFile, Kind, Flag, Frees
<1>6. CASE i = 5
  BY <1>6 DEF MapCalls, LoadZoneGeneric, Call, Info, MapFile, Kind, Flag, Frees
<1> QED
  BY <1>1, <1>2, <1>3, <1>4, <1>5, <1>6

LEMMA MapFilesAre ==
    ASSUME NEW m
    PROVE  MapFiles(m) = {MapFile(i, m) : i \in 1..5}
<1>1. ASSUME NEW i \in 1..5 PROVE MapCalls(m)[i].infos[1].file = MapFile(i, m)
  <2> DEFINE x == [file |-> MapFile(i, m), alloc |-> {Flag[i]}, free |-> Frees[i]]
  <2>1. MapCalls(m)[i].infos = <<x>>
    BY MapCall
  <2>2. x.file = MapFile(i, m)
    OBVIOUS
  <2> QED
    BY <2>1, <2>2
<1> QED
  BY <1>1 DEF MapFiles

\* The bits of PriorityBits, as a set.
LEMMA FreedAre ==
    Freed = {"MAP_LOCA", "PATCH_EX", "MOD", "COMMON", "MAP_PATCH", "RESERVED_80", "POST_LOAD",
             "MAP_LOAD", "UI", "LOC_COMMON", "LOCALIZED", "BASE"}
  BY DEF Freed, Range, PriorityBits

ModFiles == ModExtras \cup {<<"mod">>}

\* The files of the maps, and those of a mod, are all different.
LEMMA FilesDiffer ==
    ASSUME NEW m, NEW n, NEW i \in 1..5, NEW j \in 1..5
    PROVE  /\ MapFile(i, m) = MapFile(j, n) => i = j /\ m = n
           /\ MapFile(i, m) \notin ModFiles
  BY DEF MapFile, Kind, ModFiles, ModExtras

\* The files F of a mod, each once, under the mod's flag; the first frees it.
ModInfo(F) == [file : F, alloc : {{"MOD"}}, free : {{}, {"MOD"}}]
ModList(s, F) ==
    /\ s \in Seq(ModInfo(F)) /\ s # <<>> /\ s[1].free = {"MOD"}
    /\ \A i, j \in 1..Len(s) : s[i].file = s[j].file => i = j

\* One more file of a mod, if it exists.
LEMMA ExtraKeeps ==
    ASSUME NEW F, NEW s, ModList(s, F), NEW f, f \notin F, NEW present
    PROVE  ModList(s \o Extra(f, present), F \cup {f})
<1> DEFINE G == F \cup {f}
           x == Info(f, "MOD", {})
           t == s \o <<x>>
<1>1. s \in Seq(ModInfo(G)) /\ x \in ModInfo(G) /\ x.file = f
  <2>1. ModInfo(F) \subseteq ModInfo(G)
    BY DEF ModInfo
  <2>2. x \in ModInfo(G) /\ x.file = f
    BY DEF Info, ModInfo
  <2>3. s \in Seq(ModInfo(F))
    BY DEF ModList
  <2>4. s \in Seq(ModInfo(G))
    BY <2>1, <2>3, SeqMonotonic
  <2> QED
    BY <2>2, <2>4
<1> HIDE DEF x
<1>2. CASE f \notin present
  <2>1. s \o Extra(f, present) = s
    BY <1>1, <1>2 DEF Extra
  <2> QED
    BY <2>1, <1>1 DEF ModList
<1>3. CASE f \in present
  <2>1. s \o Extra(f, present) = t
    BY <1>3 DEF Extra, x
  <2>2. /\ t \in Seq(ModInfo(G)) /\ Len(s) \in Nat /\ Len(s) > 0 /\ Len(t) = Len(s) + 1
        /\ t[Len(t)] = x /\ \A i \in 1..Len(s) : t[i] = s[i]
    BY <1>1 DEF ModList
  <2> HIDE DEF t
  <2>3. \A i \in 1..Len(s) : t[i].file \in F
    <3>1. \A i \in 1..Len(s) : s[i] \in ModInfo(F)
      BY DEF ModList
    <3> QED
      BY <2>2, <3>1 DEF ModInfo
  <2>4. ASSUME NEW i \in 1..Len(t), NEW j \in 1..Len(t), t[i].file = t[j].file PROVE i = j
    <3>1. i \in 1..Len(s) \/ i = Len(t)
      BY <2>2
    <3>2. j \in 1..Len(s) \/ j = Len(t)
      BY <2>2
    <3> QED
      BY <2>2, <2>3, <2>4, <3>1, <3>2, <1>1 DEF ModList
  <2>5. t # <<>> /\ t[1].free = {"MOD"}
    BY <2>2 DEF ModList
  <2> QED
    BY <2>1, <2>2, <2>4, <2>5 DEF ModList
<1> QED
  BY <1>2, <1>3

\* What ModFFLoadHook makes of a call.
LEMMA ModCallIs ==
    ASSUME NEW present
    PROVE  ModList(ModCall(present, {"MOD"}).infos, ModExtras \cup {<<"mod">>})
<1> DEFINE s0 == <<Info(<<"mod">>, "MOD", {"MOD"})>>
           F0 == {<<"mod">>}
           s1 == s0 \o Extra(<<"mod_ex">>, present)
           F1 == F0 \cup {<<"mod_ex">>}
           s2 == s1 \o Extra(<<"mod_patch">>, present)
           F2 == F1 \cup {<<"mod_patch">>}
           s3 == s2 \o Extra(<<"mod_ex_patch">>, present)
           F3 == F2 \cup {<<"mod_ex_patch">>}
           s4 == s3 \o Extra(<<"localized_mod">>, present)
           F4 == F3 \cup {<<"localized_mod">>}
<1>1. ModList(s0, F0)
  BY DEF ModList, ModInfo, Info
<1>2. /\ <<"mod_ex">> \notin F0 /\ <<"mod_patch">> \notin F1
      /\ <<"mod_ex_patch">> \notin F2 /\ <<"localized_mod">> \notin F3
  OBVIOUS
<1>3. ModCall(present, {"MOD"}).infos = s4 /\ F4 = ModExtras \cup {<<"mod">>}
  BY DEF ModCall, Call, ModExtras
<1> HIDE DEF s0, F0
<1>4. ModList(s1, F1)
  BY <1>1, <1>2, ExtraKeeps
<1> HIDE DEF s1, F1
<1>5. ModList(s2, F2)
  BY <1>4, <1>2, ExtraKeeps
<1> HIDE DEF s2, F2
<1>6. ModList(s3, F3)
  BY <1>5, <1>2, ExtraKeeps
<1> HIDE DEF s3, F3
<1>7. ModList(s4, F4)
  BY <1>6, <1>2, ExtraKeeps
<1> QED
  BY <1>3, <1>7

\* The calls there are.
LEMMA CallsAre ==
    ASSUME NEW c \in AllCalls
    PROVE  \/ \E m \in Maps, i \in 1..5 : c = MapCalls(m)[i]
           \/ \E present \in Mods : c = ModCall(present, {"MOD"})
           \/ c \in Engine
<1>1. PICK p \in Programs : c \in Range(p.calls)
  BY DEF AllCalls
<1>2. CASE \E m \in Maps : p = [map |-> m, calls |-> MapCalls(m)]
  <2>1. PICK m \in Maps : p.calls = MapCalls(m)
    BY <1>2
  <2>2. DOMAIN MapCalls(m) = 1..5
    BY DEF MapCalls
  <2> QED
    BY <1>1, <2>1, <2>2 DEF Range
<1>3. CASE \E present \in Mods : p = [map |-> NoMap, calls |-> <<ModCall(present, {"MOD"})>>]
  <2>1. PICK present \in Mods : p.calls = <<ModCall(present, {"MOD"})>>
    BY <1>3
  <2>2. c = ModCall(present, {"MOD"})
    BY <1>1, <2>1 DEF Range
  <2> QED
    BY <2>2
<1>4. CASE \E d \in Engine : p = [map |-> NoMap, calls |-> <<d>>]
  <2>1. PICK d \in Engine : p.calls = <<d>>
    BY <1>4
  <2>2. c = d
    BY <1>1, <2>1 DEF Range
  <2> QED
    BY <2>2
<1> QED
  BY <1>2, <1>3, <1>4 DEF Programs, Engine

\* What may be said in a call of the files F.
InfosOf(F) == [file : F, alloc : SUBSET Flags, free : SUBSET Freed]

\* What is assumed of a call of the engine.
LEMMA EngineCall ==
    ASSUME NEW c \in Engine
    PROVE  /\ c.infos \in Seq(InfosOf(FilesOf(c)))
           /\ \A i, j \in DOMAIN c.infos : c.infos[i].file = c.infos[j].file => i = j
           /\ \A i \in DOMAIN c.infos :
                /\ c.infos[i].file \notin ModExtras \cup {<<"mod">>} \cup UNION {MapFiles(m) : m \in Maps}
                /\ c.infos[i].alloc \cap (MapFlags \ {"UI"}) = {}
           /\ \A d \in Engine : \A i \in DOMAIN c.infos, j \in DOMAIN d.infos :
                   c.infos[i].file = d.infos[j].file => c.infos[i].alloc = d.infos[j].alloc
           /\ c # Boot => \A i \in DOMAIN c.infos :
                   \E j \in DOMAIN c.infos : c.infos[i].alloc \cap c.infos[j].free # {}
<1>1. /\ c.infos \in Seq([file : FilesOf(c), alloc : SUBSET Flags, free : SUBSET Freed])
      /\ \A i, j \in DOMAIN c.infos : c.infos[i].file = c.infos[j].file => i = j
      /\ \A i \in DOMAIN c.infos :
           /\ c.infos[i].file \notin ModExtras \cup {<<"mod">>} \cup UNION {MapFiles(m) : m \in Maps}
           /\ c.infos[i].alloc \cap (MapFlags \ {"UI"}) = {}
           /\ \A d \in Engine : \A j \in DOMAIN d.infos :
                   c.infos[i].file = d.infos[j].file => c.infos[i].alloc = d.infos[j].alloc
           /\ c # Boot => \E j \in DOMAIN c.infos : c.infos[i].alloc \cap c.infos[j].free # {}
  BY ZoneAssumption, Zenon
<1> QED
  BY <1>1 DEF InfosOf

\* The files of a call are different, and it frees the flags of what it loads.
Shape(c) ==
    /\ c.infos \in Seq(InfosOf(Files))
    /\ \A i, j \in 1..Len(c.infos) : c.infos[i].file = c.infos[j].file => i = j
    /\ c # Boot => \A i \in 1..Len(c.infos) : \E j \in 1..Len(c.infos) :
                       c.infos[i].alloc \cap c.infos[j].free # {}

LEMMA FilesAreFiles ==
    ASSUME NEW c \in AllCalls, NEW F, c.infos \in Seq(InfosOf(F))
    PROVE  c.infos \in Seq(InfosOf(Files))
<1>1. ASSUME NEW i \in 1..Len(c.infos) PROVE c.infos[i] \in InfosOf(Files)
  <2>1. c.infos[i].file \in FilesOf(c)
    BY DEF FilesOf, Range
  <2>2. c.infos[i].file \in Files
    BY <2>1 DEF Files
  <2>3. c.infos[i] \in InfosOf(F)
    BY ElementOfSeq
  <2> QED
    BY <2>2, <2>3 DEF InfosOf
<1>2. Len(c.infos) \in Nat /\ c.infos \in [1..Len(c.infos) -> InfosOf(F)]
  BY LenProperties
<1>3. c.infos \in [1..Len(c.infos) -> InfosOf(Files)]
  BY <1>1, <1>2
<1> QED
  BY <1>2, <1>3, SeqDef

\* Every call has the shape.
LEMMA CallShape == \A c \in AllCalls : Shape(c)
<1> SUFFICES ASSUME NEW c \in AllCalls PROVE Shape(c)
  OBVIOUS
<1>1. ASSUME NEW m \in Maps, NEW i \in 1..5, c = MapCalls(m)[i] PROVE Shape(c)
  <2> DEFINE x == [file |-> MapFile(i, m), alloc |-> {Flag[i]}, free |-> Frees[i]]
  <2>1. c.infos = <<x>>
    BY <1>1, MapCall
  <2>2. x \in InfosOf({MapFile(i, m)}) /\ x.alloc \cap x.free # {}
    BY FreedAre DEF InfosOf, Flags, Flag, Frees
  <2> HIDE DEF x
  <2>3. c.infos \in Seq(InfosOf({MapFile(i, m)})) /\ Len(c.infos) = 1 /\ c.infos[1] = x
    BY <2>1, <2>2
  <2>4. c.infos \in Seq(InfosOf(Files))
    BY <2>3, FilesAreFiles
  <2> QED
    BY <2>2, <2>3, <2>4 DEF Shape
<1>2. ASSUME NEW present \in Mods, c = ModCall(present, {"MOD"}) PROVE Shape(c)
  <2> DEFINE F == ModExtras \cup {<<"mod">>}
             s == c.infos
  <2>1. ModList(s, F)
    BY <1>2, ModCallIs
  <2>2. ModInfo(F) \subseteq InfosOf(F)
    BY FreedAre DEF ModInfo, InfosOf, Flags
  <2> HIDE DEF s
  <2>3. s \in Seq(ModInfo(F)) /\ Len(s) \in Nat \ {0} /\ s[1].free = {"MOD"}
    BY <2>1, EmptySeq DEF ModList
  <2> HIDE DEF F
  <2>4. s \in Seq(InfosOf(F))
    BY <2>2, <2>3, SeqMonotonic
  <2>5. s \in Seq(InfosOf(Files))
    BY <2>4, FilesAreFiles DEF s
  <2>6. ASSUME NEW i \in 1..Len(s) PROVE \E j \in 1..Len(s) : s[i].alloc \cap s[j].free # {}
    <3>1. s[i] \in ModInfo(F)
      BY <2>3, ElementOfSeq
    <3>2. s[i].alloc = {"MOD"} /\ 1 \in 1..Len(s)
      BY <2>3, <3>1 DEF ModInfo
    <3> QED
      BY <2>3, <3>2
  <2> QED
    BY <2>1, <2>5, <2>6 DEF Shape, ModList, s
<1>3. ASSUME c \in Engine PROVE Shape(c)
  <2>1. c.infos \in Seq(InfosOf(FilesOf(c)))
    BY <1>3, EngineCall
  <2>2. c.infos \in Seq(InfosOf(Files)) /\ DOMAIN c.infos = 1..Len(c.infos)
    BY <2>1, FilesAreFiles, LenProperties
  <2>3. \A i, j \in 1..Len(c.infos) : c.infos[i].file = c.infos[j].file => i = j
    BY <1>3, <2>2, EngineCall
  <2>4. c # Boot => \A i \in 1..Len(c.infos) : \E j \in 1..Len(c.infos) :
                       c.infos[i].alloc \cap c.infos[j].free # {}
    BY <1>3, <2>2, EngineCall
  <2> QED
    BY <2>2, <2>3, <2>4 DEF Shape
<1> QED
  BY <1>1, <1>2, <1>3, CallsAre

\* Whose file it is.
EnginesFile(c, k) ==
    /\ c \in Engine /\ k \in DOMAIN c.infos
    /\ c.infos[k].file \notin ModFiles
    /\ \A m \in Maps, n \in 1..5 : c.infos[k].file # MapFile(n, m)
    /\ c.infos[k].alloc \cap (MapFlags \ {"UI"}) = {}
\* ... the n-th one of a map m ...
MapsFile(c, k, m, n) == c.infos[k].file = MapFile(n, m) /\ c.infos[k].alloc = {Flag[n]}
\* ... or one of a mod.
ModsFile(c, k) == c.infos[k].file \in ModFiles /\ c.infos[k].alloc = {"MOD"}

\* And it is none but these.
LEMMA WhoseFile ==
    ASSUME NEW c \in AllCalls, NEW k \in 1..Len(c.infos)
    PROVE  \/ EnginesFile(c, k)
           \/ ModsFile(c, k)
           \/ \E m \in Maps, n \in 1..5 : MapsFile(c, k, m, n)
<1>1. ASSUME NEW m \in Maps, NEW n \in 1..5, c = MapCalls(m)[n]
      PROVE  MapsFile(c, k, m, n)
  <2> DEFINE x == [file |-> MapFile(n, m), alloc |-> {Flag[n]}, free |-> Frees[n]]
  <2>1. c.infos = <<x>>
    BY <1>1, MapCall
  <2>2. k = 1
    BY <2>1
  <2> QED
    BY <2>1, <2>2 DEF MapsFile
<1>2. ASSUME NEW present \in Mods, c = ModCall(present, {"MOD"})
      PROVE  ModsFile(c, k)
  <2>1. c.infos \in Seq(ModInfo(ModFiles))
    BY <1>2, ModCallIs DEF ModList, ModFiles
  <2>2. c.infos[k] \in ModInfo(ModFiles)
    BY <2>1, ElementOfSeq
  <2> QED
    BY <2>2 DEF ModInfo, ModsFile
<1>3. ASSUME c \in Engine PROVE EnginesFile(c, k)
  <2>1. k \in DOMAIN c.infos
    BY CallShape, LenProperties DEF Shape
  <2>2. /\ c.infos[k].file \notin ModFiles \cup UNION {MapFiles(m) : m \in Maps}
        /\ c.infos[k].alloc \cap (MapFlags \ {"UI"}) = {}
    BY <1>3, <2>1, EngineCall DEF ModFiles
  <2>3. \A m \in Maps, n \in 1..5 : MapFile(n, m) \in MapFiles(m)
    BY MapFilesAre
  <2>4. \A m \in Maps, n \in 1..5 : c.infos[k].file # MapFile(n, m)
    BY <2>2, <2>3
  <2> QED
    BY <1>3, <2>1, <2>2, <2>4 DEF EnginesFile
<1> QED
  BY <1>1, <1>2, <1>3, CallsAre

\* A file has one flag, whatever call loads it.
LEMMA OneFlag ==
    ASSUME NEW c \in AllCalls, NEW d \in AllCalls,
           NEW i \in 1..Len(c.infos), NEW j \in 1..Len(d.infos),
           c.infos[i].file = d.infos[j].file
    PROVE  c.infos[i].alloc = d.infos[j].alloc
<1>1. CASE EnginesFile(c, i)
  <2>1. EnginesFile(d, j)
    BY <1>1, WhoseFile DEF EnginesFile, ModsFile, MapsFile
  <2>2. c \in Engine /\ d \in Engine /\ i \in DOMAIN c.infos /\ j \in DOMAIN d.infos
    BY <1>1, <2>1 DEF EnginesFile
  <2>3. \A k \in DOMAIN c.infos, l \in DOMAIN d.infos :
            c.infos[k].file = d.infos[l].file => c.infos[k].alloc = d.infos[l].alloc
    BY <2>2, EngineCall
  <2> QED
    BY <2>2, <2>3
<1>2. CASE ModsFile(c, i)
  <2>1. ModsFile(d, j)
    <3>1. d.infos[j].file \in ModFiles
      BY <1>2 DEF ModsFile
    <3>2. ~EnginesFile(d, j)
      BY <3>1 DEF EnginesFile
    <3>3. \A m \in Maps, n \in 1..5 : ~MapsFile(d, j, m, n)
      BY <3>1, FilesDiffer DEF MapsFile
    <3> QED
      BY <3>2, <3>3, WhoseFile
  <2> QED
    BY <1>2, <2>1 DEF ModsFile
<1>3. CASE \E m \in Maps, n \in 1..5 : MapsFile(c, i, m, n)
  <2>1. PICK m \in Maps, n \in 1..5 : MapsFile(c, i, m, n)
    BY <1>3
  <2>5. d.infos[j].file = MapFile(n, m) /\ ~ModsFile(d, j) /\ ~EnginesFile(d, j)
    BY <2>1, FilesDiffer DEF EnginesFile, ModsFile, MapsFile
  <2>2. PICK o \in Maps, k \in 1..5 : MapsFile(d, j, o, k)
    BY <2>5, WhoseFile
  <2>3. n = k
    BY <2>1, <2>2, FilesDiffer DEF MapsFile
  <2> QED
    BY <2>1, <2>2, <2>3 DEF MapsFile
<1> QED
  BY <1>1, <1>2, <1>3, WhoseFile

-----------------------------------------------------------------------------
(* The two threads *)

\* What the database thread has still to open.
Due == IF worker \in {"asleep", "read"} THEN SubSeq(queue, 1, toLoad) ELSE batch

\* The calls the main thread has still to make are the last ones for a map, or one.
OfMap(cs, m) == m \in Maps /\ Len(cs) \in 1..5 /\ cs = SubSeq(MapCalls(m), 6 - Len(cs), 5)
OneCall(cs) ==
    \/ \E present \in Mods : cs = <<ModCall(present, {"MOD"})>>
    \/ \E c \in Engine : cs = <<c>>

\* The two threads: done is the event the main thread waits for, toLoad the number of the
\* queued requests not yet taken over, and pending what is still to be opened.
Threads ==
    /\ main \in {"idle", "remove", "enqueue", "wait", "clear"}
    /\ worker \in {"asleep", "read", "reset", "open", "load"}
    /\ done \in BOOLEAN
    /\ calls = <<>> \/ OfMap(calls, map) \/ OneCall(calls)
    /\ queue \in Seq(InfosOf(Files)) /\ batch \in Seq(InfosOf(Files))
    /\ toLoad \in {0, Len(queue)} /\ pending = Len(Due)
    /\ done => worker = "asleep" /\ toLoad = 0
    /\ main \in {"remove", "enqueue", "clear"} => done
    /\ main \in {"remove", "enqueue"} => calls # <<>>
    /\ main = "clear" => calls = <<>>
    /\ worker \in {"asleep", "read"} => batch = <<>>
    /\ worker \in {"open", "load"} => toLoad = 0
    /\ worker = "load" => batch # <<>>

\* What the engine asks for are the calls of one map, or one call.
LEMMA ProgramCalls ==
    ASSUME NEW p \in Programs
    PROVE  /\ OfMap(p.calls, p.map) \/ (OneCall(p.calls) /\ p.map = NoMap)
           /\ p.calls \in Seq(AllCalls) /\ p.calls # <<>>
<1>1. CASE \E m \in Maps : p = [map |-> m, calls |-> MapCalls(m)]
  <2>1. PICK m \in Maps : p = [map |-> m, calls |-> MapCalls(m)]
    BY <1>1
  <2> DEFINE cs == MapCalls(m)
  <2>2. Len(cs) = 5 /\ cs \in Seq({cs[i] : i \in 1..5})
    BY DEF MapCalls
  <2> HIDE DEF cs
  <2>3. cs = SubSeq(cs, 1, 5)
    BY <2>2, SubSeqFull
  <2>4. p.calls = cs /\ p.map = m
    BY <2>1 DEF cs
  <2>5. OfMap(p.calls, p.map)
    <3>1. Len(p.calls) = 5 /\ p.map \in Maps
      BY <2>2, <2>4
    <3>2. p.calls = SubSeq(MapCalls(p.map), 6 - Len(p.calls), 5)
      BY <2>3, <2>4, <3>1 DEF cs
    <3> QED
      BY <3>1, <3>2 DEF OfMap
  <2>6. \A i \in 1..5 : cs[i] \in AllCalls
    <3>1. DOMAIN cs = 1..5
      BY <2>2
    <3> QED
      BY <2>4, <3>1 DEF AllCalls, Range
  <2>7. {cs[i] : i \in 1..5} \subseteq AllCalls
    BY <2>6
  <2>8. cs \in Seq(AllCalls)
    BY <2>2, <2>7, SeqMonotonic
  <2> QED
    BY <2>2, <2>4, <2>5, <2>8
<1>2. CASE \E c : p.calls = <<c>> /\ p.map = NoMap /\ OneCall(<<c>>)
  <2>1. PICK c : p.calls = <<c>> /\ p.map = NoMap /\ OneCall(<<c>>)
    BY <1>2
  <2>2. c \in AllCalls
    BY <2>1 DEF AllCalls, Range
  <2> QED
    BY <2>1, <2>2
<1> QED
  BY <1>1, <1>2 DEF Programs, OneCall, Engine

\* The call that is made, and what is left after it.
LEMMA NextCall ==
    ASSUME NEW cs, NEW m, cs # <<>>, OfMap(cs, m) \/ OneCall(cs)
    PROVE  /\ Head(cs) \in AllCalls
           /\ Tail(cs) = <<>> \/ OfMap(Tail(cs), m)
           /\ OneCall(cs) => Tail(cs) = <<>>
           /\ OfMap(cs, m) => Head(cs) = MapCalls(m)[6 - Len(cs)] /\ Len(Tail(cs)) = Len(cs) - 1
<1>1. CASE OfMap(cs, m)
  <2> DEFINE ms == MapCalls(m)
             k == 6 - Len(cs)
  <2>1. Len(ms) = 5 /\ ms \in Seq({ms[i] : i \in 1..5}) /\ DOMAIN ms = 1..5
    BY DEF MapCalls
  <2>2. k \in 1..5 /\ cs = SubSeq(ms, k, 5) /\ Len(cs) = 6 - k /\ m \in Maps
    <3>1. m \in Maps /\ Len(cs) \in 1..5
      BY <1>1 DEF OfMap
    <3>2. cs = SubSeq(ms, k, 5)
      BY <1>1 DEF OfMap
    <3>3. \A n \in 1..5 : 6 - n \in 1..5 /\ n = 6 - (6 - n)
      OBVIOUS
    <3>4. k \in 1..5 /\ Len(cs) = 6 - k
      BY <3>1, <3>3
    <3> QED
      BY <3>1, <3>2, <3>4
  <2> HIDE DEF ms, k
  <2>3. Head(cs) = ms[k] /\ Tail(cs) = SubSeq(ms, k + 1, 5)
    BY <2>1, <2>2, HeadTailOfSubSeq
  <2>4. Len(Tail(cs)) = 5 - k /\ (k = 5 => Tail(cs) = <<>>)
    BY <2>1, <2>2, <2>3
  <2>5. Head(cs) \in AllCalls
    <3>1. [map |-> m, calls |-> ms] \in Programs
      BY <2>2 DEF Programs, ms
    <3>2. Range(ms) \subseteq AllCalls
      BY <3>1 DEF AllCalls
    <3> QED
      BY <2>1, <2>2, <2>3, <3>2 DEF Range
  <2>6. Tail(cs) = <<>> \/ OfMap(Tail(cs), m)
    BY <2>2, <2>3, <2>4 DEF OfMap, ms
  <2>7. Head(cs) = MapCalls(m)[6 - Len(cs)]
    BY <2>3 DEF ms, k
  <2>8. Len(Tail(cs)) = Len(cs) - 1
    BY <2>2, <2>4
  <2>9. OneCall(cs) => Tail(cs) = <<>>
    <3>1. \A c : Tail(<<c>>) = <<>>
      OBVIOUS
    <3> QED
      BY <3>1 DEF OneCall
  <2> QED
    BY <2>5, <2>6, <2>7, <2>8, <2>9
<1>2. CASE OneCall(cs)
  <2>1. PICK c : cs = <<c>> /\ [map |-> NoMap, calls |-> <<c>>] \in Programs
    BY <1>2 DEF OneCall, Programs, Engine
  <2>2. c \in Range(<<c>>)
    BY DEF Range
  <2>3. c \in AllCalls
    BY <2>1, <2>2 DEF AllCalls
  <2> QED
    BY <1>1, <2>1, <2>3
<1> QED
  BY <1>1, <1>2

\* Where the requests are.
LEMMA DueIs ==
    ASSUME Threads
    PROVE  /\ Due \in Seq(InfosOf(Files)) /\ Len(Due) \in Nat
           /\ done => Due = <<>> /\ batch = <<>>
           /\ worker \in {"asleep", "read"} => Due = IF toLoad = 0 THEN <<>> ELSE queue
           /\ worker \notin {"asleep", "read"} => Due = batch
<1>1. SubSeq(queue, 1, 0) = <<>>
  BY SubSeqEmpty
<1>2. queue \in Seq(InfosOf(Files)) /\ SubSeq(queue, 1, Len(queue)) = queue
  BY SubSeqFull DEF Threads
<1>3. <<>> \in Seq(InfosOf(Files))
  BY EmptySeq
<1>4. /\ done => worker = "asleep" /\ toLoad = 0
      /\ worker \in {"asleep", "read"} => batch = <<>>
      /\ toLoad \in {0, Len(queue)} /\ batch \in Seq(InfosOf(Files))
  BY DEF Threads
<1>5. /\ Due \in Seq(InfosOf(Files))
      /\ done => Due = <<>> /\ batch = <<>>
      /\ worker \in {"asleep", "read"} => Due = IF toLoad = 0 THEN <<>> ELSE queue
      /\ worker \notin {"asleep", "read"} => Due = batch
  BY <1>1, <1>2, <1>3, <1>4 DEF Due
<1> QED
  BY <1>5, LenProperties

\* The steps of the loader, as the database thread's requests see them.
LEMMA EnqueueDue ==
    ASSUME Threads, Enqueue
    PROVE  /\ Due = <<>> /\ Due' = Head(calls).infos
           /\ Head(calls).infos \in Seq(InfosOf(Files))
           /\ pending' = Len(Due')
<1>1. /\ done /\ calls # <<>> /\ worker = "asleep" /\ pending = Len(Due)
      /\ OfMap(calls, map) \/ OneCall(calls)
  BY DEF Threads, Enqueue
<1>2. Due = <<>>
  BY <1>1, DueIs
<1>3. Head(calls).infos \in Seq(InfosOf(Files))
  BY <1>1, NextCall, CallShape DEF Shape
<1>4. queue' = Head(calls).infos /\ toLoad' = Len(queue') /\ worker' = "asleep"
      /\ pending' = pending + Len(queue')
  BY <1>1 DEF Enqueue
<1>5. Due' = queue'
  <2>1. SubSeq(queue', 1, Len(queue')) = queue'
    BY <1>3, <1>4, SubSeqFull
  <2> QED
    BY <1>4, <2>1 DEF Due
<1>6. Len(queue') \in Nat /\ Len(Due) = 0
  BY <1>2, <1>3, <1>4, LenProperties
<1> QED
  BY <1>1, <1>2, <1>3, <1>4, <1>5, <1>6

\* Reading the count, resetting it and loading leave the requests as they are.
LEMMA SameDue ==
    ASSUME Threads, Wake \/ ReadCount \/ ResetCount \/ OpenZoneFile \/ BatchDone
                    \/ \E q \in Requests : LoadBlock(q)
    PROVE  Due' = Due /\ batch' \in Seq(InfosOf(Files))
<1> USE DEF Due
<1>1. CASE Wake
  BY <1>1 DEF Wake, Threads
<1>2. CASE ReadCount
  BY <1>2, DueIs DEF ReadCount
<1>3. CASE ResetCount
  BY <1>3 DEF ResetCount, Threads
<1>4. CASE OpenZoneFile
  BY <1>4 DEF OpenZoneFile, Threads
<1>5. CASE BatchDone
  <2>1. toLoad' = 0 /\ batch = <<>> /\ worker = "open" /\ worker' = "asleep"
    BY <1>5 DEF BatchDone, Threads
  <2>2. Due' = <<>>
    BY <2>1, SubSeqEmpty
  <2> QED
    BY <1>5, <2>1, <2>2 DEF BatchDone, Threads
<1>6. CASE \E q \in Requests : LoadBlock(q)
  BY <1>6 DEF LoadBlock, Threads
<1> QED
  BY <1>1, <1>2, <1>3, <1>4, <1>5, <1>6

\* A zone that was loaded or dropped is the first of the requests, and no longer one.
LEMMA LessDue ==
    ASSUME Threads, DropZone \/ ZoneLoaded
    PROVE  /\ Due # <<>> /\ Due' = Tail(Due) /\ Head(batch) = Due[1] /\ batch' = Tail(Due)
           /\ Tail(Due) \in Seq(InfosOf(Files)) /\ Len(Tail(Due)) = Len(Due) - 1
           /\ \A i \in 1..Len(Tail(Due)) : Tail(Due)[i] = Due[i + 1]
           /\ pending' = Len(Due')
<1>1. /\ worker \in {"open", "load"} /\ worker' = "open" /\ batch # <<>> /\ batch' = Tail(batch)
      /\ pending' = pending - 1 /\ pending = Len(Due)
  BY DEF DropZone, ZoneLoaded, Threads
<1>2. Due = batch /\ Due' = batch' /\ batch \in Seq(InfosOf(Files))
  BY <1>1 DEF Due, Threads
<1>3. /\ Tail(batch) \in Seq(InfosOf(Files)) /\ Len(Tail(batch)) = Len(batch) - 1
      /\ \A i \in 1..Len(Tail(batch)) : Tail(batch)[i] = batch[i + 1]
      /\ Head(batch) = batch[1] /\ Len(batch) \in Nat
  BY <1>1, <1>2
<1> QED
  BY <1>1, <1>2, <1>3

LEMMA ThreadsInit == Init => Threads
<1> SUFFICES ASSUME Init PROVE Threads
  OBVIOUS
<1>1. /\ main = "idle" /\ calls = <<>> /\ queue = <<>> /\ batch = <<>> /\ toLoad = 0
      /\ pending = 0 /\ done = TRUE /\ worker = "asleep"
  BY DEF Init
<1>2. Due = <<>>
  BY <1>1, SubSeqEmpty DEF Due
<1> QED
  BY <1>1, <1>2, EmptySeq DEF Threads

LEMMA ThreadsStep == Threads /\ [Next]_vars => Threads'
<1> SUFFICES ASSUME Threads, [Next]_vars PROVE Threads'
  OBVIOUS
<1>1. ASSUME NEW p \in Programs, Ask(p) PROVE Threads'
  <2>1. OfMap(p.calls, p.map) \/ (OneCall(p.calls) /\ p.map = NoMap)
    BY ProgramCalls
  <2>2. NoMap \notin Maps
    BY ZoneAssumption, Zenon
  <2>3. OfMap(calls', map') \/ OneCall(calls')
    BY <1>1, <2>1, <2>2 DEF Ask, OfMap
  <2>4. Due' = Due
    BY <1>1 DEF Ask, workerVars, Due
  <2> QED
    BY <1>1, <2>3, <2>4 DEF Ask, Threads, workerVars
<1>2. CASE UnloadAssets
  <2>1. main' \in {"enqueue", "remove"}
    BY <1>2 DEF UnloadAssets
  <2>2. Due' = Due
    BY <1>2 DEF UnloadAssets, workerVars, Due
  <2> QED
    BY <1>2, <2>1, <2>2 DEF UnloadAssets, Threads, workerVars
<1>3. CASE RemoveZoneEntry
  <2>1. Due' = Due
    BY <1>3 DEF RemoveZoneEntry, workerVars, Due
  <2> QED
    BY <1>3, <2>1 DEF RemoveZoneEntry, Threads, workerVars
<1>4. CASE EndRemove
  <2>1. Due' = Due
    BY <1>4 DEF EndRemove, workerVars, Due
  <2> QED
    BY <1>4, <2>1 DEF EndRemove, Threads, workerVars
<1>5. CASE Enqueue
  <2>1. /\ Head(calls).infos \in Seq(InfosOf(Files)) /\ pending' = Len(Due')
    BY <1>5, EnqueueDue
  <2>2. calls # <<>> /\ (OfMap(calls, map) \/ OneCall(calls)) /\ map' = map
    BY <1>5 DEF Enqueue, Threads
  <2>3. calls' = <<>> \/ OfMap(calls', map')
    BY <1>5, <2>2, NextCall DEF Enqueue
  <2>4. main' \in {"wait", "idle"}
    BY <1>5 DEF Enqueue
  <2> QED
    BY <1>5, <2>1, <2>3, <2>4 DEF Enqueue, Threads
<1>6. CASE Wait
  <2>1. Due' = Due
    BY <1>6 DEF Wait, workerVars, Due
  <2> QED
    BY <1>6, <2>1 DEF Wait, Threads, workerVars
<1>7. CASE UnloadAllZones
  <2>1. Due' = Due
    BY <1>7 DEF UnloadAllZones, workerVars, Due
  <2> QED
    BY <1>7, <2>1 DEF UnloadAllZones, Threads, workerVars
<1>8. CASE ZoneEntryCleanup
  <2>1. Due' = Due /\ main' \in {"idle", "clear"}
    BY <1>8 DEF ZoneEntryCleanup, workerVars, Due
  <2> QED
    BY <1>8, <2>1 DEF ZoneEntryCleanup, Threads, workerVars
<1>9. CASE Wake \/ ReadCount \/ ResetCount \/ OpenZoneFile \/ BatchDone
           \/ \E q \in Requests : LoadBlock(q)
  <2>1. Due' = Due /\ batch' \in Seq(InfosOf(Files))
    BY <1>9, SameDue
  <2>2. CASE Wake
    BY <2>1, <2>2 DEF Wake, Others, Threads
  <2>3. CASE ReadCount
    BY <2>1, <2>3 DEF ReadCount, Others, Threads
  <2>4. CASE ResetCount
    BY <2>1, <2>4 DEF ResetCount, Others, Threads
  <2>5. CASE OpenZoneFile
    BY <2>1, <2>5 DEF OpenZoneFile, Threads
  <2>6. CASE BatchDone
    BY <2>1, <2>6 DEF BatchDone, Threads
  <2>7. CASE \E q \in Requests : LoadBlock(q)
    BY <2>1, <2>7 DEF LoadBlock, Others, Threads
  <2> QED
    BY <1>9, <2>2, <2>3, <2>4, <2>5, <2>6, <2>7
<1>10. CASE DropZone \/ ZoneLoaded
  <2>1. batch' \in Seq(InfosOf(Files)) /\ pending' = Len(Due')
    BY <1>10, LessDue
  <2>2. CASE DropZone
    BY <2>1, <2>2 DEF DropZone, Others, Threads
  <2>3. CASE ZoneLoaded
    BY <2>1, <2>3 DEF ZoneLoaded, Threads
  <2> QED
    BY <1>10, <2>2, <2>3
<1>11. CASE UNCHANGED vars
  <2>1. Due' = Due
    BY <1>11 DEF vars, Due
  <2> QED
    BY <1>11, <2>1 DEF vars, Threads
<1> QED
  BY <1>1, <1>2, <1>3, <1>4, <1>5, <1>6, <1>7, <1>8, <1>9, <1>10, <1>11
     DEF Next, Main, Worker

\* So g_pendingZoneCount counts them exactly.
LEMMA ThreadsExact == Threads => PendingExact
<1> SUFFICES ASSUME Threads PROVE PendingExact
  OBVIOUS
<1>1. /\ toLoad \in {0, Len(queue)} /\ pending = Len(Due)
      /\ worker \in {"asleep", "read"} => batch = <<>>
  BY DEF Threads
<1>2. Len(SubSeq(queue, 1, toLoad)) = toLoad
  <2>1. queue \in Seq(InfosOf(Files))
    BY DEF Threads
  <2>2. SubSeq(queue, 1, Len(queue)) = queue /\ SubSeq(queue, 1, 0) = <<>>
    BY <2>1, SubSeqFull, SubSeqEmpty
  <2>3. Len(<<>>) = 0
    OBVIOUS
  <2> QED
    BY <1>1, <2>2, <2>3
<1>3. worker \in {"asleep", "read"} => Len(batch) = 0
  BY <1>1
<1>4. toLoad \in Nat /\ Len(batch) \in Nat
  <2>1. queue \in Seq(InfosOf(Files)) /\ batch \in Seq(InfosOf(Files))
    BY DEF Threads
  <2> QED
    BY <1>1, <2>1, LenProperties
<1>5. CASE worker \in {"asleep", "read"}
  BY <1>1, <1>2, <1>3, <1>4, <1>5 DEF PendingExact, Due
<1>6. CASE worker \notin {"asleep", "read"}
  BY <1>1, <1>4, <1>6 DEF PendingExact, Due
<1> QED
  BY <1>5, <1>6

\* Whenever the database thread reads g_zonesToLoad, and however the main thread's requests
\* come, none is lost and none served twice: what DB_LoadXAssets has added to
\* g_pendingZoneCount is what DB_ProcessZoneQueue has still to open.
THEOREM RequestsServedOnce == Spec => []PendingExact
<1>1. Spec => []Threads
  BY ThreadsInit, ThreadsStep, PTL DEF Spec
<1> QED
  BY <1>1, ThreadsExact, PTL

-----------------------------------------------------------------------------
(* Lists of files *)

\* The files a list names, and that it names none twice.
FilesIn(s) == {s[i].file : i \in 1..Len(s)}
Apart(s) == \A i, j \in 1..Len(s) : s[i].file = s[j].file => i = j

\* t is s without its element i.
Without(t, s, i) ==
    /\ Len(t) = Len(s) - 1
    /\ \A j \in 1..Len(t) : t[j] = s[IF j < i THEN j ELSE j + 1]

\* Three ways to take an element out.
LEMMA WithoutIs ==
    ASSUME NEW S, NEW s \in Seq(S), NEW i \in 1..Len(s)
    PROVE  /\ RemoveAt(s, i) \in Seq(S) /\ Without(RemoveAt(s, i), s, i)
           /\ Tail(s) \in Seq(S) /\ Without(Tail(s), s, 1)
           /\ Front(s) \in Seq(S) /\ Without(Front(s), s, Len(s))
<1> DEFINE a == SubSeq(s, 1, i - 1)
           b == SubSeq(s, i + 1, Len(s))
<1>1. Len(s) \in Nat /\ s # <<>>
  OBVIOUS
<1>2. /\ a \in Seq(S) /\ Len(a) = i - 1 /\ \A j \in 1..(i - 1) : a[j] = s[j]
  BY <1>1
<1>3. /\ b \in Seq(S) /\ Len(b) = Len(s) - i /\ \A j \in 1..(Len(s) - i) : b[j] = s[i + j]
  <2>1. b \in Seq(S)
    BY <1>1
  <2>2. Len(b) = Len(s) - i
    BY <1>1
  <2>3. \A j \in 1..(Len(s) - i) : b[j] = s[i + j]
    BY <1>1
  <2> QED
    BY <2>1, <2>2, <2>3
<1> HIDE DEF a, b
<1>4. /\ a \o b \in Seq(S) /\ Len(a \o b) = Len(s) - 1
      /\ \A j \in 1..(Len(s) - 1) : (a \o b)[j] = IF j < i THEN a[j] ELSE b[j - (i - 1)]
  <2>1. a \o b \in Seq(S)
    BY <1>2, <1>3
  <2>2. Len(a \o b) = Len(a) + Len(b)
    BY <1>2, <1>3, ConcatProperties
  <2>3. \A j \in 1..(Len(a) + Len(b)) : (a \o b)[j] = IF j <= Len(a) THEN a[j] ELSE b[j - Len(a)]
    BY <1>2, <1>3
  <2>4. Len(a) = i - 1 /\ Len(a) + Len(b) = Len(s) - 1
    BY <1>1, <1>2, <1>3
  <2>5. ASSUME NEW j \in 1..(Len(s) - 1)
        PROVE  (a \o b)[j] = IF j < i THEN a[j] ELSE b[j - (i - 1)]
    <3>1. j \in 1..(Len(a) + Len(b)) /\ j - Len(a) = j - (i - 1)
      BY <2>4
    <3>2. j <= i - 1 <=> j < i
      BY <1>1
    <3>3. j <= Len(a) <=> j < i
      BY <2>4, <3>2
    <3>4. (a \o b)[j] = IF j <= Len(a) THEN a[j] ELSE b[j - Len(a)]
      BY <2>3, <3>1
    <3> QED
      BY <3>1, <3>3, <3>4
  <2> QED
    BY <2>1, <2>2, <2>4, <2>5
<1>5. \A j \in 1..(Len(s) - 1) : (a \o b)[j] = s[IF j < i THEN j ELSE j + 1]
  <2> SUFFICES ASSUME NEW j \in 1..(Len(s) - 1)
               PROVE  (a \o b)[j] = s[IF j < i THEN j ELSE j + 1]
    OBVIOUS
  <2>1. CASE j < i
    BY <1>1, <1>2, <1>4, <2>1
  <2>2. CASE ~(j < i)
    <3>1. j - (i - 1) \in 1..(Len(s) - i) /\ i + (j - (i - 1)) = j + 1
      BY <1>1, <2>2
    <3> QED
      BY <1>3, <1>4, <2>2, <3>1
  <2> QED
    BY <2>1, <2>2
<1>6. RemoveAt(s, i) \in Seq(S) /\ Without(RemoveAt(s, i), s, i)
  BY <1>1, <1>4, <1>5 DEF RemoveAt, Without, a, b
<1>7. Tail(s) \in Seq(S) /\ Without(Tail(s), s, 1)
  BY <1>1 DEF Without
<1>8. Front(s) \in Seq(S) /\ Without(Front(s), s, Len(s))
  <2> DEFINE t == SubSeq(s, 1, Len(s) - 1)
  <2>1. t \in Seq(S) /\ Len(t) = Len(s) - 1 /\ \A j \in 1..(Len(s) - 1) : t[j] = s[j]
    <3>1. t \in Seq(S)
      BY <1>1
    <3>2. Len(t) = Len(s) - 1
      <4>1. \A n \in Nat \ {0} : (IF 1 <= n - 1 THEN (n - 1) - 1 + 1 ELSE 0) = n - 1
        OBVIOUS
      <4>2. Len(s) - 1 \in Int /\ \A j \in 1..(Len(s) - 1) : s[j] \in S
        BY <1>1
      <4>3. Len(t) = IF 1 <= Len(s) - 1 THEN (Len(s) - 1) - 1 + 1 ELSE 0
        BY <4>2, SubSeqProperties
      <4>4. Len(s) \in Nat \ {0}
        BY <1>1
      <4> QED
        BY <4>1, <4>3, <4>4, Zenon
    <3>3. \A j \in 1..(Len(s) - 1) : t[j] = s[j]
      BY <1>1
    <3> QED
      BY <3>1, <3>2, <3>3
  <2>2. \A j \in 1..(Len(s) - 1) : j < Len(s)
    BY <1>1
  <2> HIDE DEF t
  <2>3. Without(t, s, Len(s))
    BY <2>1, <2>2 DEF Without
  <2> QED
    BY <2>1, <2>3 DEF Front, t
<1> QED
  BY <1>6, <1>7, <1>8

\* What is left names the other files.
LEMMA WithoutKeeps ==
    ASSUME NEW S, NEW s \in Seq(S), NEW i \in 1..Len(s), Apart(s), NEW t, Without(t, s, i)
    PROVE  /\ Apart(t) /\ FilesIn(t) = FilesIn(s) \ {s[i].file}
           /\ \A j \in 1..Len(t) : \E k \in 1..Len(s) : k # i /\ t[j] = s[k]
           /\ \A k \in 1..Len(s) : k # i => \E j \in 1..Len(t) : t[j] = s[k]
           /\ i # 1 => t[1] = s[1] /\ Len(t) > 0
<1>1. Len(s) \in Nat /\ Len(t) = Len(s) - 1
  BY DEF Without
<1>2. ASSUME NEW j \in 1..Len(t)
      PROVE  LET k == IF j < i THEN j ELSE j + 1
             IN  k \in 1..Len(s) /\ k # i /\ t[j] = s[k]
  BY <1>1 DEF Without
<1>3. \A j \in 1..Len(t) : \E k \in 1..Len(s) : k # i /\ t[j] = s[k]
  BY <1>2
<1>4. ASSUME NEW k \in 1..Len(s), k # i PROVE \E j \in 1..Len(t) : t[j] = s[k]
  <2> DEFINE j == IF k < i THEN k ELSE k - 1
  <2>1. j \in 1..Len(t) /\ (IF j < i THEN j ELSE j + 1) = k
    BY <1>1, <1>4
  <2>2. t[j] = s[k]
    BY <2>1, <1>2
  <2> QED
    BY <2>1, <2>2
<1>5. Apart(t)
  <2> SUFFICES ASSUME NEW j \in 1..Len(t), NEW l \in 1..Len(t), t[j].file = t[l].file
               PROVE  j = l
    BY DEF Apart
  <2> DEFINE k(n) == IF n < i THEN n ELSE n + 1
  <2>1. k(j) \in 1..Len(s) /\ k(l) \in 1..Len(s) /\ t[j] = s[k(j)] /\ t[l] = s[k(l)]
    BY <1>2
  <2>2. k(j) = k(l)
    BY <2>1 DEF Apart
  <2> QED
    BY <1>1, <2>2
<1>6. FilesIn(t) = FilesIn(s) \ {s[i].file}
  <2>1. \A k \in 1..Len(s) : s[k].file = s[i].file => k = i
    BY DEF Apart
  <2>2. ASSUME NEW j \in 1..Len(t) PROVE t[j].file \in FilesIn(s) \ {s[i].file}
    BY <1>3, <2>1 DEF FilesIn
  <2>3. ASSUME NEW k \in 1..Len(s), s[k].file # s[i].file PROVE s[k].file \in FilesIn(t)
    BY <1>4, <2>3 DEF FilesIn
  <2> QED
    BY <2>2, <2>3 DEF FilesIn
<1>7. i # 1 => t[1] = s[1] /\ Len(t) > 0
  BY <1>1, <1>2
<1> QED
  BY <1>3, <1>4, <1>5, <1>6, <1>7

\* A file that is not in the list may be added to it.
LEMMA AppendKeeps ==
    ASSUME NEW S, NEW s \in Seq(S), Apart(s), NEW x \in S, x.file \notin FilesIn(s)
    PROVE  LET t == Append(s, x) IN
           /\ t \in Seq(S) /\ Apart(t) /\ FilesIn(t) = FilesIn(s) \cup {x.file}
           /\ Len(t) = Len(s) + 1 /\ t[Len(t)] = x /\ \A i \in 1..Len(s) : t[i] = s[i]
<1> DEFINE t == Append(s, x)
<1>1. /\ t \in Seq(S) /\ Len(s) \in Nat /\ Len(t) = Len(s) + 1 /\ t[Len(t)] = x
      /\ \A i \in 1..Len(s) : t[i] = s[i]
  OBVIOUS
<1> HIDE DEF t
<1>2. 1..Len(t) = 1..Len(s) \cup {Len(t)}
  BY <1>1
<1>3. FilesIn(t) = FilesIn(s) \cup {x.file}
  BY <1>1, <1>2 DEF FilesIn
<1>4. Apart(t)
  <2> SUFFICES ASSUME NEW i \in 1..Len(t), NEW j \in 1..Len(t), t[i].file = t[j].file
               PROVE  i = j
    BY DEF Apart
  <2>1. \A k \in 1..Len(s) : t[k].file # x.file
    BY <1>1 DEF FilesIn
  <2> QED
    BY <1>1, <1>2, <2>1 DEF Apart
<1> QED
  BY <1>1, <1>3, <1>4 DEF t

\* A list of different files is as long as their set.
LEMMA FilesCounted ==
    ASSUME NEW S, NEW s \in Seq(S), Apart(s)
    PROVE  Cardinality(FilesIn(s)) = Len(s)
<1> DEFINE n == Len(s)
           f == [i \in 1..n |-> s[i].file]
<1>1. n \in Nat
  OBVIOUS
<1>2. IsFiniteSet(1..n) /\ Cardinality(1..n) = n
  <2> HIDE DEF n
  <2>1. IsFiniteSet(1..n) /\ Cardinality(1..n) = IF 1 > n THEN 0 ELSE n - 1 + 1
    BY <1>1, FS_Interval
  <2>2. (IF 1 > n THEN 0 ELSE n - 1 + 1) = n
    BY <1>1
  <2> QED
    BY <2>1, <2>2
<1>3. f \in Bijection(1..n, FilesIn(s))
  <2>1. f \in [1..n -> FilesIn(s)]
    BY DEF FilesIn
  <2>2. \A i, j \in 1..n : f[i] = f[j] => i = j
    BY DEF Apart
  <2>3. \A x \in FilesIn(s) : \E i \in 1..n : f[i] = x
    BY DEF FilesIn
  <2> QED
    BY <2>1, <2>2, <2>3 DEF Bijection, Injection, Surjection, IsInjective
<1>4. ExistsBijection(1..n, FilesIn(s))
  BY <1>3 DEF ExistsBijection
<1> HIDE DEF n
<1>5. Cardinality(FilesIn(s)) = n
  BY <1>2, <1>4, FS_Bijection
<1> QED
  BY <1>5 DEF n

-----------------------------------------------------------------------------
(* What a call removes *)

\* A set of numbers has a least one.
LEMMA LeastOf ==
    ASSUME NEW T \in SUBSET Nat, T # {}
    PROVE  \E m \in T : \A k \in T : m <= k
<1> DEFINE R == OpToRel(<, Nat)
<1>1. IsWellFoundedOn(R, Nat)
  BY NatLessThanWellFounded
<1>2. \A x, y \in Nat : x < y => <<x, y>> \in R
  BY DEF OpToRel
<1> HIDE DEF R
<1>3. PICK m \in T : \A k \in T : ~(<<k, m>> \in R)
  BY <1>1, WFMin
<1>4. ASSUME NEW k \in T PROVE m <= k
  <2>1. m \in Nat /\ k \in Nat /\ ~(k < m)
    BY <1>2, <1>3
  <2> QED
    BY <2>1
<1> QED
  BY <1>4

\* A set of indices has a last one.
LEMMA GreatestOf ==
    ASSUME NEW n \in Nat, NEW T \in SUBSET (1..n), T # {}
    PROVE  \E m \in T : \A k \in T : k <= m
<1> DEFINE U == {n - k : k \in T}
<1>1. U \in SUBSET Nat /\ U # {}
  <2>1. \A k \in T : n - k \in Nat
    OBVIOUS
  <2>2. PICK k \in T : TRUE
    OBVIOUS
  <2>3. n - k \in U
    OBVIOUS
  <2> QED
    BY <2>1, <2>3
<1>2. PICK u \in U : \A v \in U : u <= v
  <2> HIDE DEF U
  <2> QED
    BY <1>1, LeastOf
<1>3. PICK m \in T : u = n - m
  BY <1>2
<1>4. ASSUME NEW k \in T PROVE k <= m
  <2>1. n - k \in U /\ u <= n - k
    BY <1>2
  <2> QED
    BY <1>3, <2>1
<1> QED
  BY <1>4

\* The entries of the zone table.
Entries == [file : Files, alloc : SUBSET Flags]

\* Phase 3 has a first pass as long as it has one.
LEMMA FirstIsAPass ==
    ASSUME NEW s \in Seq(InfosOf(Files)), Passes(s) # {}
    PROVE  FirstPass(s) \in Passes(s)
<1> DEFINE P == Passes(s)
           before(p, q) == p[1] < q[1] \/ (p[1] = q[1] /\ p[2] <= q[2])
<1>1. Len(PriorityBits) = 12 /\ DOMAIN PriorityBits = 1..12
  BY DEF PriorityBits
<1>2. P \subseteq Nat \X Nat
  <2>1. DOMAIN s = 1..Len(s)
    BY LenProperties
  <2> QED
    BY <1>1, <2>1 DEF Passes
<1> HIDE DEF P
<1> DEFINE T == {p[1] : p \in P}
<1>3. PICK k \in T : \A j \in T : k <= j
  <2>1. T \in SUBSET Nat /\ T # {}
    BY <1>2 DEF P
  <2> HIDE DEF T
  <2> QED
    BY <2>1, LeastOf
<1> DEFINE U == {p[2] : p \in {q \in P : q[1] = k}}
<1>4. PICK b \in U : \A j \in U : b <= j
  <2>1. U \in SUBSET Nat /\ U # {}
    BY <1>2, <1>3
  <2> HIDE DEF U
  <2> QED
    BY <2>1, LeastOf
<1>5. PICK p \in P : p[1] = k /\ p[2] = b
  BY <1>4
<1>6. ASSUME NEW q \in P PROVE before(p, q)
  <2>1. /\ p[1] \in Nat /\ p[2] \in Nat /\ q[1] \in Nat /\ q[2] \in Nat
        /\ p[1] <= q[1] /\ (q[1] = p[1] => p[2] <= q[2])
    BY <1>2, <1>3, <1>4, <1>5
  <2> QED
    BY <2>1
<1>7. FirstPass(s) = CHOOSE r \in P : \A q \in P : before(r, q)
  BY DEF FirstPass, P
<1> HIDE DEF before
<1>8. (CHOOSE r \in P : \A q \in P : before(r, q)) \in P
  BY <1>6
<1> QED
  BY <1>7, <1>8 DEF P

\* The zone removed next is one the call unloads, and none that is permanent.
LEMMA RemovedIs ==
    ASSUME loaded \in Seq(Entries), NEW s \in Seq(InfosOf(Files)), Passes(s) # {},
           NEW i, i = LastWith(PriorityBits[FirstPass(s)[2]])
    PROVE  /\ i \in 1..Len(loaded) /\ i \in Matching(s)
           /\ loaded[i].alloc \cap Freed # {}
<1> DEFINE p == FirstPass(s)
           bit == PriorityBits[p[2]]
<1>1. p \in Passes(s)
  BY FirstIsAPass
<1>2. DOMAIN loaded = 1..Len(loaded) /\ Len(loaded) \in Nat /\ DOMAIN s = 1..Len(s)
  BY LenProperties
<1> HIDE DEF p
<1>3. /\ p[1] \in DOMAIN s /\ p[2] \in DOMAIN PriorityBits
      /\ bit \in s[p[1]].free /\ \E k \in DOMAIN loaded : bit \in loaded[k].alloc
  BY <1>1 DEF Passes
<1>4. bit \in Freed
  BY <1>3 DEF Freed, Range
<1> HIDE DEF bit
<1> DEFINE T == {k \in 1..Len(loaded) : bit \in loaded[k].alloc}
<1>5. PICK m \in T : \A k \in T : k <= m
  <2>1. T \in SUBSET (1..Len(loaded)) /\ T # {}
    BY <1>2, <1>3
  <2> HIDE DEF T
  <2> QED
    BY <1>2, <2>1, GreatestOf
<1>6. i \in DOMAIN loaded /\ bit \in loaded[i].alloc
  <2>1. i = LastWith(bit)
    BY DEF p, bit
  <2>2. m \in DOMAIN loaded /\ bit \in loaded[m].alloc
        /\ \A j \in DOMAIN loaded : bit \in loaded[j].alloc => j <= m
    BY <1>2, <1>5
  <2> QED
    BY <2>1, <2>2, Zenon DEF LastWith
<1> QED
  BY <1>2, <1>3, <1>4, <1>6 DEF Matching

\* When no pass is left, nothing the call unloads is.
LEMMA RemovedAll ==
    ASSUME NEW s \in Seq(InfosOf(Files)), Passes(s) = {}
    PROVE  Matching(s) = {}
<1> SUFFICES ASSUME NEW i \in Matching(s) PROVE FALSE
  OBVIOUS
<1>1. DOMAIN s = 1..Len(s)
  BY LenProperties
<1>2. PICK k \in 1..Len(s) : i \in DOMAIN loaded /\ loaded[i].alloc \cap s[k].free # {}
  BY <1>1 DEF Matching
<1>3. s[k].free \subseteq Freed
  <2>1. s[k] \in InfosOf(Files)
    BY ElementOfSeq
  <2> QED
    BY <2>1 DEF InfosOf
<1>4. PICK b \in DOMAIN PriorityBits :
          PriorityBits[b] \in s[k].free /\ PriorityBits[b] \in loaded[i].alloc
  BY <1>2, <1>3 DEF Freed, Range
<1>5. <<k, b>> \in (DOMAIN s) \X (DOMAIN PriorityBits) /\ <<k, b>>[1] = k /\ <<k, b>>[2] = b
  BY <1>1
<1>6. <<k, b>> \in Passes(s)
  BY <1>2, <1>4, <1>5 DEF Passes
<1> QED
  BY <1>6

-----------------------------------------------------------------------------
(* The table of zones *)

\* Some call asks for this file under this flag.
Named(x) ==
    \E c \in AllCalls : \E k \in 1..Len(c.infos) :
        x.file = c.infos[k].file /\ x.alloc = c.infos[k].alloc

\* No file is in the table twice, requested twice, or requested while in the table.
ListsOf(table, due, w) ==
    /\ table \in Seq(Entries) /\ Apart(table) /\ Apart(due)
    /\ \A i \in 1..Len(table) : Named(table[i])
    /\ \A i \in 1..Len(due) : Named(due[i])
    /\ FilesIn(table) \cap FilesIn(due) = IF w = "load" THEN {due[1].file} ELSE {}

Lists == ListsOf(loaded, Due, worker)

\* The table is empty before the first call is served, and after DB_UnloadAllZones;
\* its first entry is the first zone of that call, which nothing else removes.
Booted ==
    /\ loaded # <<>> => loaded[1].file = Boot.infos[1].file
    /\ loaded = <<>> /\ ~done =>
           main = "wait" /\ calls = <<>> /\ Due # <<>> /\ Due[1].file = Boot.infos[1].file
    /\ calls # <<>> /\ loaded = <<>> => calls = <<Boot>>
    /\ calls # <<>> /\ Head(calls) = Boot => loaded = <<>>

\* What the call unloads is gone before its own zones are queued.
Unloaded == main = "enqueue" => Matching(Head(calls).infos) = {}

\* What is assumed of the first call.
LEMMA BootIs ==
    /\ Boot \in AllCalls /\ Boot \in Engine /\ Len(Boot.infos) \in Nat /\ 1 \in 1..Len(Boot.infos)
    /\ Boot.infos[1].alloc \cap Freed = {} /\ Boot.infos[1].file \notin Optional
    /\ Boot.sync
    /\ \A m \in Maps, i \in 1..5 : MapCalls(m)[i] # Boot
<1>1. /\ Boot.sync /\ Boot.infos # <<>>
      /\ Boot.infos[1].alloc \cap Freed = {} /\ Boot.infos[1].file \notin Optional
  BY ZoneAssumption, Zenon
<1>2. Boot \in Engine
  BY DEF Engine
<1>3. Boot \in AllCalls
  <2> DEFINE p == [map |-> NoMap, calls |-> <<Boot>>]
  <2>1. p \in Programs
    BY DEF Programs
  <2>2. Boot \in Range(p.calls)
    BY DEF Range
  <2> HIDE DEF p
  <2> QED
    BY <2>1, <2>2 DEF AllCalls
<1>4. Len(Boot.infos) \in Nat /\ 1 \in 1..Len(Boot.infos)
  <2>1. Boot.infos \in Seq(InfosOf(FilesOf(Boot)))
    BY <1>2, EngineCall
  <2> QED
    BY <1>1, <2>1
<1>5. ASSUME NEW m \in Maps, NEW i \in 1..5, MapCalls(m)[i] = Boot PROVE FALSE
  <2> DEFINE x == [file |-> MapFile(i, m), alloc |-> {Flag[i]}, free |-> Frees[i]]
  <2>1. Boot.infos = <<x>>
    BY <1>5, MapCall
  <2>2. Boot.infos[1].file = MapFile(i, m)
    BY <2>1
  <2>3. EnginesFile(Boot, 1) \/ ModsFile(Boot, 1) \/ \E o \in Maps, n \in 1..5 : MapsFile(Boot, 1, o, n)
    BY <1>3, <1>4, WhoseFile
  <2>4. 1 \in DOMAIN Boot.infos
    BY <2>1
  <2>5. Boot.infos[1].file \notin UNION {MapFiles(o) : o \in Maps}
    BY <1>2, <2>4, EngineCall
  <2>6. MapFile(i, m) \in MapFiles(m)
    BY MapFilesAre
  <2> QED
    BY <2>2, <2>5, <2>6
<1> QED
  BY <1>1, <1>2, <1>3, <1>4, <1>5

\* A file has the same flag wherever it is named.
LEMMA SameFlag ==
    ASSUME NEW x, NEW y, Named(x), Named(y), x.file = y.file
    PROVE  x.alloc = y.alloc
<1>1. PICK c \in AllCalls : \E k \in 1..Len(c.infos) :
          x.file = c.infos[k].file /\ x.alloc = c.infos[k].alloc
  BY DEF Named
<1>2. PICK d \in AllCalls : \E l \in 1..Len(d.infos) :
          y.file = d.infos[l].file /\ y.alloc = d.infos[l].alloc
  BY DEF Named
<1>3. PICK k \in 1..Len(c.infos) : x.file = c.infos[k].file /\ x.alloc = c.infos[k].alloc
  BY <1>1
<1>4. PICK l \in 1..Len(d.infos) : y.file = d.infos[l].file /\ y.alloc = d.infos[l].alloc
  BY <1>2
<1>5. c.infos[k].alloc = d.infos[l].alloc
  BY <1>3, <1>4, OneFlag
<1> QED
  BY <1>3, <1>4, <1>5

\* The first zone of the table is permanent.
LEMMA Permanent ==
    ASSUME Lists, Booted, loaded # <<>>
    PROVE  loaded[1].alloc \cap Freed = {} /\ 1 \in 1..Len(loaded)
<1>1. loaded \in Seq(Entries) /\ 1 \in 1..Len(loaded) /\ loaded[1].file = Boot.infos[1].file
  BY DEF Lists, ListsOf, Booted
<1>2. Named(loaded[1]) /\ Named(Boot.infos[1])
  BY <1>1, BootIs DEF Lists, ListsOf, Named
<1> QED
  BY <1>1, <1>2, SameFlag, BootIs

\* A call's zones are not in the table once what it unloads is gone.
LEMMA CallIsNew ==
    ASSUME Threads, Lists, Booted, Unloaded, main = "enqueue"
    PROVE  /\ Apart(Head(calls).infos)
           /\ \A i \in 1..Len(Head(calls).infos) : Named(Head(calls).infos[i])
           /\ FilesIn(loaded) \cap FilesIn(Head(calls).infos) = {}
<1> DEFINE c == Head(calls)
<1>1. calls # <<>> /\ c \in AllCalls /\ Shape(c)
  BY NextCall, CallShape DEF Threads
<1>2. Apart(c.infos) /\ \A i \in 1..Len(c.infos) : Named(c.infos[i])
  BY <1>1 DEF Shape, Apart, Named
<1>3. ASSUME NEW i \in 1..Len(loaded), NEW k \in 1..Len(c.infos), loaded[i].file = c.infos[k].file
      PROVE  FALSE
  <2>1. DOMAIN loaded = 1..Len(loaded) /\ DOMAIN c.infos = 1..Len(c.infos)
    BY <1>1, LenProperties DEF Lists, ListsOf, Shape
  <2>2. loaded[i].alloc = c.infos[k].alloc
    BY <1>2, <1>3, SameFlag DEF Lists, ListsOf
  <2>3. c # Boot
    <3>1. loaded # <<>>
      BY <2>1
    <3> QED
      BY <1>1, <3>1 DEF Booted
  <2>4. PICK j \in 1..Len(c.infos) : c.infos[k].alloc \cap c.infos[j].free # {}
    BY <1>1, <2>3 DEF Shape
  <2>5. i \in Matching(c.infos)
    BY <2>1, <2>2, <2>4 DEF Matching
  <2> QED
    BY <2>5 DEF Unloaded
<1> QED
  BY <1>2, <1>3 DEF FilesIn

\* A step that leaves the table and the requests alone.
MainOnly == \/ \E p \in Programs : Ask(p)
            \/ UnloadAssets \/ EndRemove \/ Wait \/ UnloadAllZones \/ UNCHANGED vars

LEMMA MainOnlyKeeps ==
    ASSUME MainOnly
    PROVE  Due' = Due /\ loaded' = loaded /\ worker' = worker /\ memory' = memory /\ done' = done
           /\ batch' = batch
  BY DEF MainOnly, Ask, UnloadAssets, EndRemove, Wait, UnloadAllZones, vars, workerVars, memory, Due

\* A step that takes an entry out of the table.
LEMMA TakenOut ==
    ASSUME Threads, Lists, Booted, RemoveZoneEntry \/ ZoneEntryCleanup
    PROVE  /\ done /\ worker = "asleep" /\ Due = <<>> /\ Due' = <<>> /\ worker' = worker
           /\ batch' = batch /\ done' = done /\ calls' = calls /\ linked' = linked /\ map' = map
           /\ loaded' \in Seq(Entries)
           /\ \E i \in 1..Len(loaded) :
                /\ Without(loaded', loaded, i)
                /\ M!FreeXZoneMemory(loaded[i].file, EndOf[loaded[i].file])
                /\ main = "remove" => i \in Matching(Head(calls).infos) /\ i # 1
                /\ main = "clear" => i = Len(loaded)
<1>1. /\ main \in {"remove", "clear"} /\ done /\ worker = "asleep"
      /\ workerVars' = workerVars /\ UNCHANGED <<linked, pending, done, calls, map, programs>>
  BY DEF RemoveZoneEntry, ZoneEntryCleanup, Threads
<1>2. Due = <<>> /\ Due' = Due /\ worker' = worker /\ batch' = batch
  BY <1>1, DueIs DEF workerVars, Due
<1>3. loaded \in Seq(Entries) /\ Len(loaded) \in Nat
  BY LenProperties DEF Lists, ListsOf
<1>4. CASE RemoveZoneEntry
  <2> DEFINE s == Head(calls).infos
  <2>1. PICK i : /\ i = LastWith(PriorityBits[FirstPass(s)[2]])
                 /\ M!FreeXZoneMemory(loaded[i].file, EndOf[loaded[i].file])
                 /\ loaded' = RemoveAt(loaded, i)
    BY <1>4 DEF RemoveZoneEntry
  <2>2. Passes(s) # {} /\ main = "remove"
    BY <1>4 DEF RemoveZoneEntry
  <2>3. s \in Seq(InfosOf(Files))
    BY <2>2, NextCall, CallShape DEF Threads, Shape
  <2> HIDE DEF s
  <2>4. i \in 1..Len(loaded) /\ i \in Matching(s) /\ loaded[i].alloc \cap Freed # {}
    BY <1>3, <2>1, <2>2, <2>3, RemovedIs
  <2>5. i # 1
    <3>1. loaded # <<>>
      BY <1>3, <2>4
    <3> QED
      BY <3>1, <2>4, Permanent
  <2>6. loaded' \in Seq(Entries) /\ Without(loaded', loaded, i)
    BY <1>3, <2>1, <2>4, WithoutIs
  <2> QED
    BY <1>1, <1>2, <2>1, <2>2, <2>4, <2>5, <2>6 DEF s
<1>5. CASE ZoneEntryCleanup
  <2> DEFINE i == Len(loaded)
  <2>1. /\ main = "clear" /\ loaded # <<>> /\ loaded' = Front(loaded)
        /\ M!FreeXZoneMemory(Last(loaded).file, EndOf[Last(loaded).file])
    BY <1>5 DEF ZoneEntryCleanup
  <2>2. i \in 1..Len(loaded) /\ Last(loaded) = loaded[i]
    BY <1>3, <2>1 DEF Last
  <2>3. loaded' \in Seq(Entries) /\ Without(loaded', loaded, i)
    BY <1>3, <2>1, <2>2, WithoutIs
  <2> QED
    BY <1>1, <1>2, <2>1, <2>2, <2>3
<1> QED
  BY <1>4, <1>5

\* The zone DB_OpenZoneFile opens is new to the table.
LEMMA OpenedIs ==
    ASSUME Threads, Lists, OpenZoneFile
    PROVE  LET x == [file |-> Head(batch).file, alloc |-> Head(batch).alloc] IN
           /\ Due # <<>> /\ batch = Due /\ Head(batch) = Due[1] /\ Due' = Due /\ 1 \in 1..Len(Due)
           /\ Head(batch') = Due[1]
           /\ x \in Entries /\ Named(x) /\ x.file \notin FilesIn(loaded)
           /\ loaded' = Append(loaded, x) /\ worker' = "load" /\ worker = "open"
<1>1. /\ worker = "open" /\ worker' = "load" /\ batch # <<>> /\ batch' = batch
      /\ loaded' = Append(loaded, [file |-> Head(batch).file, alloc |-> Head(batch).alloc])
  BY DEF OpenZoneFile
<1>2. batch = Due /\ Due' = Due /\ batch \in Seq(InfosOf(Files))
  BY <1>1, SameDue DEF Due, Threads
<1>3. Head(batch) = Due[1] /\ 1 \in 1..Len(Due)
  BY <1>1, <1>2
<1>4. Due[1] \in InfosOf(Files)
  BY <1>2, <1>3, ElementOfSeq
<1> DEFINE x == [file |-> Head(batch).file, alloc |-> Head(batch).alloc]
<1>5. x \in Entries /\ x.file = Due[1].file /\ x.alloc = Due[1].alloc
  BY <1>3, <1>4 DEF InfosOf, Entries
<1>6. x.file \notin FilesIn(loaded)
  <2>1. FilesIn(loaded) \cap FilesIn(Due) = {}
    BY <1>1 DEF Lists, ListsOf
  <2>2. Due[1].file \in FilesIn(Due)
    BY <1>3 DEF FilesIn
  <2> QED
    BY <1>5, <2>1, <2>2
<1>7. Named(x)
  <2> HIDE DEF x
  <2>1. Named(Due[1])
    BY <1>3 DEF Lists, ListsOf
  <2> QED
    BY <1>5, <2>1 DEF Named
<1> QED
  BY <1>1, <1>2, <1>3, <1>5, <1>6, <1>7

LEMMA ListsInit == Init => Lists
<1> SUFFICES ASSUME Init PROVE Lists
  OBVIOUS
<1>1. loaded = <<>> /\ worker = "asleep"
  BY DEF Init
<1>2. Due = <<>>
  BY SubSeqEmpty DEF Init, Due
<1>3. Len(<<>>) = 0 /\ <<>> \in Seq(Entries)
  OBVIOUS
<1> QED
  BY <1>1, <1>2, <1>3 DEF Lists, ListsOf, Apart, FilesIn

\* A call unloads what has the flag of its zones before it asks for them.
LEMMA ListsStep ==
    ASSUME Threads, Lists, Booted, Unloaded, [Next]_vars
    PROVE  Lists'
<1>0. ListsOf(loaded', Due', worker') => Lists'
  BY DEF Lists
<1>1. CASE MainOnly
  BY <1>1, <1>0, MainOnlyKeeps DEF Lists
<1>2. CASE RemoveZoneEntry \/ ZoneEntryCleanup
  <2>1. PICK i \in 1..Len(loaded) : Without(loaded', loaded, i)
    BY <1>2, TakenOut
  <2>2. /\ loaded' \in Seq(Entries) /\ Due' = <<>> /\ worker' # "load"
    BY <1>2, TakenOut
  <2>3. /\ Apart(loaded') /\ \A j \in 1..Len(loaded') : \E k \in 1..Len(loaded) : loaded'[j] = loaded[k]
    BY <2>1, WithoutKeeps DEF Lists, ListsOf
  <2>4. \A j \in 1..Len(loaded') : Named(loaded'[j])
    BY <2>3 DEF Lists, ListsOf
  <2>5. Apart(Due') /\ FilesIn(Due') = {} /\ \A j \in 1..Len(Due') : Named(Due'[j])
    <3>1. Len(Due') = 0
      BY <2>2
    <3> QED
      BY <3>1 DEF Apart, FilesIn
  <2>6. ListsOf(loaded', Due', worker')
    BY <2>2, <2>3, <2>4, <2>5 DEF ListsOf
  <2> QED
    BY <1>0, <2>6
<1>3. CASE Enqueue
  <2>1. Due' = Head(calls).infos /\ main = "enqueue" /\ loaded' = loaded /\ worker' = "asleep"
    BY <1>3, EnqueueDue DEF Enqueue, Threads
  <2>2. ListsOf(loaded, Head(calls).infos, "asleep")
    BY <2>1, CallIsNew DEF Lists, ListsOf
  <2> QED
    BY <1>0, <2>1, <2>2
<1>4. CASE OpenZoneFile
  <2> DEFINE x == [file |-> Head(batch).file, alloc |-> Head(batch).alloc]
  <2>1. /\ x \in Entries /\ Named(x) /\ x.file \notin FilesIn(loaded) /\ x.file = Due[1].file
        /\ loaded' = Append(loaded, x) /\ worker' = "load" /\ Due' = Due /\ 1 \in 1..Len(Due)
        /\ worker = "open"
    BY <1>4, OpenedIs
  <2> HIDE DEF x
  <2>2. /\ loaded' \in Seq(Entries) /\ Apart(loaded') /\ FilesIn(loaded') = FilesIn(loaded) \cup {x.file}
        /\ Len(loaded') = Len(loaded) + 1 /\ loaded'[Len(loaded')] = x
        /\ \A i \in 1..Len(loaded) : loaded'[i] = loaded[i]
    BY <2>1, AppendKeeps DEF Lists, ListsOf
  <2>3. \A i \in 1..Len(loaded') : Named(loaded'[i])
    <3>1. Len(loaded) \in Nat
      BY LenProperties DEF Lists, ListsOf
    <3>2. \A i \in 1..Len(loaded') : i \in 1..Len(loaded) \/ i = Len(loaded')
      BY <3>1, <2>2
    <3> QED
      BY <2>1, <2>2, <3>2 DEF Lists, ListsOf
  <2>4. FilesIn(loaded) \cap FilesIn(Due) = {} /\ x.file \in FilesIn(Due)
    BY <2>1 DEF Lists, ListsOf, FilesIn
  <2>5. ListsOf(loaded', Due', "load")
    BY <2>1, <2>2, <2>3, <2>4 DEF Lists, ListsOf
  <2> QED
    BY <1>0, <2>1, <2>5
<1>5. CASE DropZone \/ ZoneLoaded
  <2>1. /\ Due # <<>> /\ Due' = Tail(Due) /\ Head(batch) = Due[1]
        /\ loaded' = loaded /\ worker' = "open"
    BY <1>5, LessDue DEF DropZone, ZoneLoaded, Others
  <2>2. Due \in Seq(InfosOf(Files)) /\ 1 \in 1..Len(Due)
    BY <2>1, DueIs
  <2>3. Without(Due', Due, 1)
    BY <2>1, <2>2, WithoutIs
  <2>4. /\ Apart(Due') /\ FilesIn(Due') = FilesIn(Due) \ {Due[1].file}
        /\ \A j \in 1..Len(Due') : \E k \in 1..Len(Due) : Due'[j] = Due[k]
    BY <2>2, <2>3, WithoutKeeps DEF Lists, ListsOf
  <2>5. \A j \in 1..Len(Due') : Named(Due'[j])
    BY <2>4 DEF Lists, ListsOf
  <2>6. FilesIn(loaded) \cap FilesIn(Due') = {}
    BY <2>4 DEF Lists, ListsOf
  <2>7. ListsOf(loaded', Due', "open")
    BY <2>1, <2>4, <2>5, <2>6 DEF Lists, ListsOf
  <2> QED
    BY <1>0, <2>1, <2>7
<1>6. CASE Wake \/ ReadCount \/ ResetCount \/ BatchDone \/ \E q \in Requests : LoadBlock(q)
  <2>1. Due' = Due
    BY <1>6, SameDue
  <2>2. loaded' = loaded /\ (worker' = "load" <=> worker = "load")
    BY <1>6 DEF Wake, ReadCount, ResetCount, BatchDone, LoadBlock, Others
  <2>3. ListsOf(loaded', Due', worker')
    BY <2>1, <2>2 DEF Lists, ListsOf
  <2> QED
    BY <1>0, <2>3
<1> QED
  BY <1>1, <1>2, <1>3, <1>4, <1>5, <1>6 DEF Next, Main, Worker, MainOnly

LEMMA BootedInit == Init => Booted
  BY DEF Init, Booted

\* Only a call of Boot alone begins with it.
LEMMA AskedBoot ==
    ASSUME NEW p \in Programs, Head(p.calls) = Boot
    PROVE  p.calls = <<Boot>>
<1>1. ASSUME NEW m \in Maps, p.calls = MapCalls(m) PROVE FALSE
  <2>1. Head(p.calls) = MapCalls(m)[1]
    BY <1>1 DEF MapCalls
  <2> QED
    BY <2>1, BootIs
<1>2. CASE \E c : p.calls = <<c>>
  BY <1>2
<1>3. p \in {[map |-> m, calls |-> MapCalls(m)] : m \in Maps} \/ \E c : p.calls = <<c>>
  BY DEF Programs
<1> QED
  BY <1>1, <1>2, <1>3

\* Phase 3 leaves the zones of the first call: their flags are in no pass.
LEMMA BootedStep ==
    ASSUME Threads, Lists, Booted, Unloaded, [Next]_vars
    PROVE  Booted'
<1> DEFINE b == Boot.infos[1]
<1>1. ASSUME NEW p \in Programs, Ask(p) PROVE Booted'
  <2>1. /\ main = "idle" /\ calls = <<>> /\ calls' = p.calls /\ loaded' = loaded /\ done' = done
        /\ main' = main /\ Due' = Due /\ (p.calls = <<Boot>> <=> loaded = <<>>)
    BY <1>1, MainOnlyKeeps DEF Ask, MainOnly
  <2>2. Head(p.calls) = Boot => loaded = <<>>
    BY <2>1, AskedBoot
  <2> QED
    BY <2>1, <2>2 DEF Booted
<1>2. CASE UnloadAssets \/ EndRemove \/ Wait \/ UnloadAllZones
  <2>1. done /\ calls' = calls /\ loaded' = loaded /\ done' = done
    BY <1>2 DEF UnloadAssets, EndRemove, Wait, UnloadAllZones, Threads
  <2> QED
    BY <2>1 DEF Booted
<1>3. CASE RemoveZoneEntry \/ ZoneEntryCleanup
  <2>1. PICK i \in 1..Len(loaded) :
            /\ Without(loaded', loaded, i)
            /\ main = "remove" => i # 1
            /\ main = "clear" => i = Len(loaded)
    BY <1>3, TakenOut
  <2>2. /\ done /\ done' = done /\ calls' = calls /\ loaded' \in Seq(Entries)
        /\ main \in {"remove", "clear"}
    BY <1>3, TakenOut DEF RemoveZoneEntry, ZoneEntryCleanup
  <2>3. loaded \in Seq(Entries) /\ Apart(loaded) /\ Len(loaded) \in Nat /\ loaded # <<>>
    BY <2>1 DEF Lists, ListsOf
  <2>4. i # 1 => loaded'[1] = loaded[1] /\ loaded' # <<>>
    BY <2>1, <2>2, <2>3, WithoutKeeps
  <2>5. i = 1 => loaded' = <<>> /\ calls = <<>>
    <3>1. i = 1 => main = "clear" /\ Len(loaded) = 1
      BY <2>1, <2>2
    <3>2. i = 1 => Len(loaded') = 0
      BY <3>1, <2>1 DEF Without
    <3> QED
      BY <3>1, <3>2, <2>2 DEF Threads
  <2> QED
    BY <2>2, <2>3, <2>4, <2>5 DEF Booted
<1>4. CASE Enqueue
  <2>1. /\ main = "enqueue" /\ calls # <<>> /\ calls' = Tail(calls) /\ loaded' = loaded
        /\ Due' = Head(calls).infos /\ main' = IF Head(calls).sync THEN "wait" ELSE "idle"
        /\ OfMap(calls, map) \/ OneCall(calls)
    BY <1>4, EnqueueDue DEF Enqueue, Threads
  <2>2. loaded = <<>> => calls = <<Boot>>
    BY <2>1 DEF Booted
  <2>3. loaded = <<>> => /\ main' = "wait" /\ calls' = <<>> /\ Due' # <<>>
                         /\ Due'[1].file = Boot.infos[1].file
    <3>1. loaded = <<>> => Head(calls) = Boot /\ Tail(calls) = <<>>
      <4>1. \A c : Head(<<c>>) = c /\ Tail(<<c>>) = <<>>
        OBVIOUS
      <4> QED
        BY <2>2, <4>1
    <3>2. Boot.infos # <<>>
      BY BootIs
    <3> QED
      BY <2>1, <3>1, <3>2, BootIs
  <2>4. calls' # <<>> => Head(calls') # Boot
    <3>1. SUFFICES ASSUME Tail(calls) # <<>> PROVE Head(Tail(calls)) # Boot
      BY <2>1
    <3>2. OfMap(Tail(calls), map)
      BY <2>1, <3>1, NextCall
    <3>3. Head(Tail(calls)) = MapCalls(map)[6 - Len(Tail(calls))]
      BY <3>1, <3>2, NextCall
    <3>4. map \in Maps /\ Len(Tail(calls)) \in 1..5
      BY <3>2 DEF OfMap
    <3>5. \A n \in 1..5 : 6 - n \in 1..5
      OBVIOUS
    <3> QED
      BY <3>3, <3>4, <3>5, BootIs
  <2> QED
    BY <2>1, <2>3, <2>4 DEF Booted
<1>5. CASE OpenZoneFile
  <2> DEFINE x == [file |-> Head(batch).file, alloc |-> Head(batch).alloc]
  <2>1. /\ loaded' = Append(loaded, x) /\ worker = "open" /\ x \in Entries
        /\ x.file = Due[1].file /\ loaded \in Seq(Entries)
    BY <1>5, OpenedIs DEF Lists, ListsOf
  <2>2. calls' = calls
    BY <1>5 DEF OpenZoneFile
  <2> HIDE DEF x
  <2>3. /\ loaded' # <<>> /\ (loaded # <<>> => loaded'[1] = loaded[1])
        /\ (loaded = <<>> => loaded'[1] = x)
    BY <2>1
  <2>4. ~done
    BY <2>1 DEF Threads
  <2>5. calls # <<>> => Head(calls) # Boot
    BY <2>4 DEF Booted
  <2> QED
    BY <2>1, <2>2, <2>3, <2>4, <2>5 DEF Booted
<1>6. CASE DropZone \/ ZoneLoaded
  <2>1. /\ loaded' = loaded /\ calls' = calls
        /\ Due # <<>> /\ Head(batch) = Due[1]
        /\ worker \in {"open", "load"}
    BY <1>6, LessDue DEF DropZone, ZoneLoaded, Others
  <2>2. ~done
    BY <2>1 DEF Threads
  <2>3. loaded # <<>>
    <3>1. CASE DropZone
      BY <3>1, <2>1, <2>2, BootIs DEF DropZone, Booted
    <3>2. CASE ZoneLoaded
      <4>1. Due[1].file \in FilesIn(loaded)
        BY <3>2 DEF ZoneLoaded, Lists, ListsOf
      <4>2. Len(<<>>) = 0
        OBVIOUS
      <4> QED
        BY <4>1, <4>2 DEF FilesIn
    <3> QED
      BY <1>6, <3>1, <3>2
  <2> QED
    BY <2>1, <2>3 DEF Booted
<1>7. CASE Wake \/ ReadCount \/ ResetCount \/ \E q \in Requests : LoadBlock(q)
  <2>1. /\ loaded' = loaded /\ calls' = calls /\ Due' = Due /\ main' = main /\ done' = done
    BY <1>7, SameDue DEF Wake, ReadCount, ResetCount, LoadBlock, Others
  <2> QED
    BY <2>1 DEF Booted
<1>8. CASE BatchDone
  <2>1. loaded' = loaded /\ calls' = calls /\ done' = TRUE
    BY <1>8 DEF BatchDone
  <2> QED
    BY <2>1 DEF Booted
<1>9. CASE UNCHANGED vars
  <2>1. /\ loaded' = loaded /\ calls' = calls /\ Due' = Due /\ main' = main /\ done' = done
    BY <1>9 DEF vars, Due
  <2> QED
    BY <2>1 DEF Booted
<1> QED
  BY <1>1, <1>2, <1>3, <1>4, <1>5, <1>6, <1>7, <1>8, <1>9 DEF Next, Main, Worker

\* Phase 3 ends when no entry is left that Phase 1 would unload.
LEMMA UnloadedStep ==
    ASSUME Threads, Lists, Unloaded, [Next]_vars
    PROVE  Unloaded'
<1> SUFFICES ASSUME main' = "enqueue" PROVE Matching(Head(calls).infos)' = {}
  BY DEF Unloaded
<1>1. CASE UnloadAssets
  <2>1. loaded' = loaded /\ calls' = calls /\ Matching(Head(calls).infos) = {}
    BY <1>1 DEF UnloadAssets
  <2> QED
    BY <2>1 DEF Matching
<1>2. CASE EndRemove
  <2>1. /\ loaded' = loaded /\ calls' = calls /\ Passes(Head(calls).infos) = {}
        /\ calls # <<>> /\ (OfMap(calls, map) \/ OneCall(calls))
    BY <1>2 DEF EndRemove, Threads
  <2>2. Head(calls).infos \in Seq(InfosOf(Files))
    BY <2>1, NextCall, CallShape DEF Shape
  <2>3. Matching(Head(calls).infos) = {}
    BY <2>1, <2>2, RemovedAll
  <2> QED
    BY <2>1, <2>3 DEF Matching
<1>3. CASE UNCHANGED vars
  BY <1>3 DEF vars, Unloaded, Matching
<1>4. CASE ~(UnloadAssets \/ EndRemove \/ UNCHANGED vars)
  <2>1. main # "enqueue" => main' # "enqueue"
    BY <1>4 DEF Next, Main, Worker, Ask, RemoveZoneEntry, Enqueue, Wait, ZoneEntryCleanup,
                UnloadAllZones, Wake, ReadCount, ResetCount, DropZone, OpenZoneFile, LoadBlock,
                ZoneLoaded, BatchDone, Others
  <2>2. main = "enqueue" => worker = "asleep" /\ toLoad = 0
    BY DEF Threads
  <2>3. main = "enqueue" => main' # "enqueue"
    BY <1>4, <2>2 DEF Next, Main, Worker, Ask, RemoveZoneEntry, Enqueue, Wait, ZoneEntryCleanup,
                UnloadAllZones, Wake, ReadCount, ResetCount, DropZone, OpenZoneFile, LoadBlock,
                ZoneLoaded, BatchDone, Others
  <2> QED
    BY <2>1, <2>3
<1> QED
  BY <1>1, <1>2, <1>3, <1>4

-----------------------------------------------------------------------------
(* What is linked *)

\* The zone x is one that a call with these entries unloads.
Hit(x, infos) == \E k \in DOMAIN infos : x.alloc \cap infos[k].free # {}

\* The zones of the table whose assets are linked: all but those being unloaded, and
\* the one being loaded.
Shown(table, m, cs, w, due) ==
    CASE m = "clear"  -> {}
      [] m = "remove" -> {table[i].file : i \in {j \in 1..Len(table) : ~Hit(table[j], Head(cs).infos)}}
      [] OTHER        -> FilesIn(table) \ (IF w = "load" THEN {due[1].file} ELSE {})

Registered == linked = Shown(loaded, main, calls, worker, Due)

\* The entries that are not hit, once those that are have been taken out.
LEMMA NotHit ==
    ASSUME NEW s \in Seq(Entries), Apart(s), NEW infos
    PROVE  LET hits == {i \in DOMAIN s : Hit(s[i], infos)}
           IN  /\ FilesIn(s) \ {s[i].file : i \in hits} =
                      {s[i].file : i \in {j \in 1..Len(s) : ~Hit(s[j], infos)}}
               /\ hits = {} => {s[i].file : i \in {j \in 1..Len(s) : ~Hit(s[j], infos)}} = FilesIn(s)
<1> DEFINE hits == {i \in 1..Len(s) : Hit(s[i], infos)}
           rest == {i \in 1..Len(s) : ~Hit(s[i], infos)}
<1>1. DOMAIN s = 1..Len(s)
  BY LenProperties
<1>2. \A i, j \in 1..Len(s) : s[i].file = s[j].file => i = j
  BY DEF Apart
<1>3. ASSUME NEW i \in rest PROVE s[i].file \in FilesIn(s) \ {s[j].file : j \in hits}
  BY <1>2 DEF FilesIn
<1>4. ASSUME NEW f \in FilesIn(s) \ {s[i].file : i \in hits} PROVE f \in {s[i].file : i \in rest}
  <2>1. PICK i \in 1..Len(s) : f = s[i].file
    BY DEF FilesIn
  <2>2. i \in rest
    BY <2>1
  <2> QED
    BY <2>1, <2>2
<1>5. FilesIn(s) \ {s[i].file : i \in hits} = {s[i].file : i \in rest}
  BY <1>3, <1>4
<1>6. hits = {} => {s[i].file : i \in hits} = {}
  OBVIOUS
<1>7. hits = {} => {s[i].file : i \in rest} = FilesIn(s)
  BY <1>5, <1>6
<1> QED
  BY <1>1, <1>5, <1>7

LEMMA RegisteredInit == Init => Registered
<1> SUFFICES ASSUME Init PROVE Registered
  OBVIOUS
<1>1. loaded = <<>> /\ linked = {} /\ main = "idle" /\ worker = "asleep"
  BY DEF Init
<1>2. FilesIn(<<>>) = {}
  BY DEF FilesIn
<1> QED
  BY <1>1, <1>2 DEF Registered, Shown

\* The tests of Phase 1 and Phase 3 take out the same zones, step by step.
LEMMA RegisteredStep ==
    ASSUME Threads, Lists, Unloaded, Registered, Booted, [Next]_vars
    PROVE  Registered'
<1> DEFINE s == Head(calls).infos
<1>0. linked' = Shown(loaded', main', calls', worker', Due') => Registered'
  BY DEF Registered
<1>1. CASE UnloadAssets
  <2>1. /\ main = "idle" /\ worker # "load" /\ calls' = calls /\ loaded' = loaded /\ worker' = worker
    BY <1>1 DEF UnloadAssets, Threads, workerVars
  <2>2. linked = FilesIn(loaded)
    BY <2>1 DEF Registered, Shown
  <2>3. /\ Matching(s) = {i \in DOMAIN loaded : Hit(loaded[i], s)}
        /\ main' = IF Matching(s) = {} THEN "enqueue" ELSE "remove"
        /\ linked' = linked \ {loaded[i].file : i \in Matching(s)}
    BY <1>1 DEF UnloadAssets, Matching, Hit
  <2>4. loaded \in Seq(Entries) /\ Apart(loaded)
    BY DEF Lists, ListsOf
  <2> DEFINE rest == {loaded[i].file : i \in {j \in 1..Len(loaded) : ~Hit(loaded[j], s)}}
  <2>5. linked' = rest /\ (Matching(s) = {} => rest = FilesIn(loaded))
    BY <2>2, <2>3, <2>4, NotHit
  <2> HIDE DEF rest
  <2>6. CASE Matching(s) = {}
    BY <1>0, <2>1, <2>3, <2>5, <2>6 DEF Shown
  <2>7. CASE Matching(s) # {}
    <3>1. Shown(loaded', main', calls', worker', Due') = rest
      BY <2>1, <2>3, <2>7 DEF Shown, rest
    <3> QED
      BY <1>0, <2>5, <3>1
  <2> QED
    BY <2>6, <2>7
<1>2. CASE RemoveZoneEntry \/ ZoneEntryCleanup
  <2>1. PICK i \in 1..Len(loaded) :
            /\ Without(loaded', loaded, i)
            /\ main = "remove" => i \in Matching(s)
    BY <1>2, TakenOut
  <2>2. /\ worker = "asleep" /\ worker' = worker /\ calls' = calls /\ linked' = linked
    BY <1>2, TakenOut
  <2>3. loaded \in Seq(Entries) /\ Apart(loaded)
    BY DEF Lists, ListsOf
  <2>4. CASE main = "remove"
    <3>1. main' = "remove"
      BY <1>2, <2>4 DEF RemoveZoneEntry, ZoneEntryCleanup
    <3>2. Hit(loaded[i], s)
      BY <2>1, <2>4 DEF Matching, Hit
    <3>3. /\ \A j \in 1..Len(loaded') : \E k \in 1..Len(loaded) : k # i /\ loaded'[j] = loaded[k]
          /\ \A k \in 1..Len(loaded) : k # i => \E j \in 1..Len(loaded') : loaded'[j] = loaded[k]
      BY <2>1, <2>3, WithoutKeeps
    <3> DEFINE left(t) == {t[j].file : j \in {k \in 1..Len(t) : ~Hit(t[k], s)}}
    <3>4. ASSUME NEW f \in left(loaded) PROVE f \in left(loaded')
      <4>1. PICK k \in 1..Len(loaded) : ~Hit(loaded[k], s) /\ f = loaded[k].file
        OBVIOUS
      <4>2. PICK j \in 1..Len(loaded') : loaded'[j] = loaded[k]
        BY <3>2, <3>3, <4>1
      <4> QED
        BY <4>1, <4>2
    <3>5. ASSUME NEW f \in left(loaded') PROVE f \in left(loaded)
      <4>1. PICK j \in 1..Len(loaded') : ~Hit(loaded'[j], s) /\ f = loaded'[j].file
        OBVIOUS
      <4>2. PICK k \in 1..Len(loaded) : loaded'[j] = loaded[k]
        BY <3>3
      <4> QED
        BY <4>1, <4>2
    <3>6. left(loaded') = left(loaded)
      BY <3>4, <3>5
    <3>7. linked = left(loaded)
      BY <2>4 DEF Registered, Shown
    <3>8. Shown(loaded', main', calls', worker', Due') = left(loaded')
      BY <3>1, <2>2 DEF Shown
    <3> QED
      BY <1>0, <2>2, <3>6, <3>7, <3>8
  <2>5. CASE main = "clear"
    <3>1. linked = {}
      BY <2>5 DEF Registered, Shown
    <3>2. main' = IF loaded' = <<>> THEN "idle" ELSE "clear"
      BY <1>2, <2>5 DEF RemoveZoneEntry, ZoneEntryCleanup
    <3>3. FilesIn(<<>>) = {}
      BY DEF FilesIn
    <3>4. Shown(loaded', main', calls', worker', Due') = {}
      BY <2>2, <3>2, <3>3 DEF Shown
    <3> QED
      BY <1>0, <2>2, <3>1, <3>4
  <2> QED
    BY <1>2, <2>4, <2>5 DEF RemoveZoneEntry, ZoneEntryCleanup
<1>3. CASE EndRemove
  <2>1. /\ main = "remove" /\ main' = "enqueue" /\ loaded' = loaded /\ calls' = calls /\ linked' = linked
        /\ Passes(s) = {} /\ worker = "asleep" /\ worker' = worker
        /\ calls # <<>> /\ (OfMap(calls, map) \/ OneCall(calls))
    BY <1>3 DEF EndRemove, Threads, workerVars
  <2>2. s \in Seq(InfosOf(Files))
    BY <2>1, NextCall, CallShape DEF Shape
  <2> HIDE DEF s
  <2>3. Matching(s) = {}
    BY <2>1, <2>2, RemovedAll
  <2>4. {i \in DOMAIN loaded : Hit(loaded[i], s)} = {}
    BY <2>3 DEF Matching, Hit
  <2>5. loaded \in Seq(Entries) /\ Apart(loaded)
    BY DEF Lists, ListsOf
  <2>6. {loaded[i].file : i \in {j \in 1..Len(loaded) : ~Hit(loaded[j], s)}} = FilesIn(loaded)
    BY <2>4, <2>5, NotHit
  <2>7. linked = FilesIn(loaded)
    BY <2>1, <2>6 DEF Registered, Shown, s
  <2>8. Shown(loaded', main', calls', worker', Due') = FilesIn(loaded)
    BY <2>1 DEF Shown
  <2> QED
    BY <1>0, <2>1, <2>7, <2>8
<1>4. CASE (\E p \in Programs : Ask(p)) \/ Enqueue \/ Wait
  <2>1. /\ main \in {"idle", "enqueue", "wait"} /\ main' \in {"idle", "enqueue", "wait"}
        /\ loaded' = loaded /\ linked' = linked /\ worker' = worker
    BY <1>4 DEF Ask, Enqueue, Wait, workerVars
  <2>2. worker = "load" => Due' = Due
    BY <1>4, <2>1 DEF Ask, Enqueue, Wait, workerVars, Due
  <2>3. Shown(loaded', main', calls', worker', Due') = Shown(loaded, main, calls, worker, Due)
    <3>1. CASE worker = "load"
      BY <2>1, <2>2, <3>1 DEF Shown
    <3>2. CASE worker # "load"
      BY <2>1, <3>2 DEF Shown
    <3> QED
      BY <3>1, <3>2
  <2> QED
    BY <1>0, <2>1, <2>3 DEF Registered
<1>5. CASE UnloadAllZones
  BY <1>0, <1>5 DEF UnloadAllZones, Shown
<1>6. CASE OpenZoneFile
  <2> DEFINE x == [file |-> Head(batch).file, alloc |-> Head(batch).alloc]
  <2>1. /\ loaded' = Append(loaded, x) /\ worker = "open" /\ worker' = "load" /\ Due' = Due
        /\ x \in Entries /\ x.file = Due[1].file /\ x.file \notin FilesIn(loaded)
    BY <1>6, OpenedIs
  <2>2. linked' = linked /\ main' = main
    BY <1>6 DEF OpenZoneFile
  <2>3. main \in {"idle", "wait"}
    BY <2>1 DEF Threads
  <2> HIDE DEF x
  <2>4. FilesIn(loaded') = FilesIn(loaded) \cup {x.file}
    BY <2>1, AppendKeeps DEF Lists, ListsOf
  <2>5. linked = FilesIn(loaded)
    BY <2>1, <2>3 DEF Registered, Shown
  <2>6. Shown(loaded', main', calls', worker', Due') = FilesIn(loaded)
    BY <2>1, <2>2, <2>3, <2>4 DEF Shown
  <2> QED
    BY <1>0, <2>2, <2>5, <2>6
<1>7. CASE DropZone
  <2>1. /\ worker = "open" /\ worker' = "open" /\ loaded' = loaded /\ linked' = linked /\ main' = main
    BY <1>7 DEF DropZone, Others
  <2>2. main \in {"idle", "wait"}
    BY <2>1 DEF Threads
  <2>3. Shown(loaded', main', calls', worker', Due') = Shown(loaded, main, calls, worker, Due)
    BY <2>1, <2>2 DEF Shown
  <2> QED
    BY <1>0, <2>1, <2>3 DEF Registered
<1>8. CASE ZoneLoaded
  <2>1. /\ worker = "load" /\ worker' = "open" /\ loaded' = loaded /\ main' = main
        /\ linked' = linked \cup {Due[1].file}
    BY <1>8, LessDue DEF ZoneLoaded
  <2>2. main \in {"idle", "wait"}
    BY <2>1 DEF Threads
  <2>3. Due[1].file \in FilesIn(loaded)
    BY <2>1 DEF Lists, ListsOf
  <2>4. linked = FilesIn(loaded) \ {Due[1].file}
    BY <2>1, <2>2 DEF Registered, Shown
  <2>5. Shown(loaded', main', calls', worker', Due') = FilesIn(loaded)
    BY <2>1, <2>2 DEF Shown
  <2> QED
    BY <1>0, <2>1, <2>3, <2>4, <2>5
<1>9. CASE Wake \/ ReadCount \/ ResetCount \/ BatchDone \/ \E q \in Requests : LoadBlock(q)
  <2>1. /\ loaded' = loaded /\ calls' = calls /\ Due' = Due /\ main' = main /\ linked' = linked
        /\ (worker' = "load" <=> worker = "load")
    BY <1>9, SameDue DEF Wake, ReadCount, ResetCount, LoadBlock, BatchDone, Others
  <2> QED
    BY <1>0, <2>1 DEF Registered, Shown
<1>10. CASE UNCHANGED vars
  <2>1. /\ loaded' = loaded /\ calls' = calls /\ Due' = Due /\ main' = main /\ linked' = linked
        /\ worker' = worker
    BY <1>10 DEF vars, Due
  <2> QED
    BY <1>0, <2>1 DEF Registered
<1> QED
  BY <1>1, <1>2, <1>3, <1>4, <1>5, <1>6, <1>7, <1>8, <1>9, <1>10 DEF Next, Main, Worker

-----------------------------------------------------------------------------
(* The memory of the zones *)

\* A slot of PMem, the zones that have one in a list, and that none has two.
Slot == [owner : Files \cup {NoOwner}, pos : Int]
OwnersIn(s) == {s[i].owner : i \in 1..Len(s)} \ {NoOwner}
OneSlotEach(s) ==
    \A i, j \in 1..Len(s) : s[i].owner = s[j].owner /\ s[i].owner # NoOwner => i = j

\* What is assumed of the memory.
LEMMA MemoryIs ==
    /\ EndOf \in [Files -> M!Ends] /\ NoOwner \notin Files
    /\ Size \in Nat /\ Word \in Nat /\ Slots \in Nat /\ 2 * Size <= Word
    /\ \A q \in Requests : /\ q.size \in Nat /\ q.alignment \in Nat \ {0}
                           /\ 2 * (q.size + q.alignment) <= Word
  BY ZoneAssumption, Zenon

\* What DB_FreeXZoneMemory leaves of a list: the slots of the other zones.
LEMMA FreedList ==
    ASSUME NEW p \in [pos : Int, slots : Seq(Slot)], OneSlotEach(p.slots),
           NEW o \in Files, NEW i0 \in 1..Len(p.slots), p.slots[i0].owner = o,
           NEW k, k = M!FreeName(p, o)
    PROVE  /\ k \in [pos : Int, slots : Seq(Slot)] /\ OneSlotEach(k.slots)
           /\ OwnersIn(k.slots) = OwnersIn(p.slots) \ {o}
<1> DEFINE s == p.slots
           n == Len(s)
           mine == {i \in DOMAIN p.slots : p.slots[i].owner = o}
           found == CHOOSE i \in mine : \A j \in mine : i <= j
           z == [p.slots EXCEPT ![found].owner = NoOwner]
           taken == {i \in DOMAIN z : z[i].owner # NoOwner}
           top == IF taken = {} THEN 0 ELSE CHOOSE i \in taken : \A j \in taken : j <= i
<1>1. s \in Seq(Slot) /\ n \in Nat /\ DOMAIN s = 1..n /\ o # NoOwner
  BY MemoryIs
<1>2. mine = {i0} /\ found = i0
  <2>1. \A i \in 1..n : s[i].owner = o => i = i0
    BY <1>1 DEF OneSlotEach
  <2>2. mine = {i0}
    BY <1>1, <2>1
  <2>3. \A T : T = {i0} => (CHOOSE i \in T : \A j \in T : i <= j) = i0
    BY <1>1
  <2> QED
    BY <2>2, <2>3
<1>3. k = [pos |-> IF top < Len(z) THEN z[top + 1].pos ELSE p.pos, slots |-> SubSeq(z, 1, top)]
  <2>1. mine # {}
    BY <1>2
  <2>2. k = IF mine = {} THEN p
            ELSE [pos |-> IF top < Len(z) THEN z[top + 1].pos ELSE p.pos,
                  slots |-> SubSeq(z, 1, top)]
    BY Zenon DEF M!FreeName
  <2> HIDE DEF mine, z, top
  <2> QED
    BY <2>1, <2>2
<1>4. z = [s EXCEPT ![i0] = [s[i0] EXCEPT !.owner = NoOwner]]
  BY <1>1, <1>2
<1> HIDE DEF found, mine, z
<1>5. [s[i0] EXCEPT !.owner = NoOwner] = [owner |-> NoOwner, pos |-> s[i0].pos]
      /\ s[i0].pos \in Int
  <2>1. s[i0] \in Slot
    BY <1>1
  <2> QED
    BY <2>1 DEF Slot
<1>6. /\ z \in Seq(Slot) /\ Len(z) = n /\ DOMAIN z = 1..n
      /\ \A i \in 1..n : /\ i = i0 => z[i].owner = NoOwner
                         /\ i # i0 => z[i].owner = s[i].owner
  <2> DEFINE r == [owner |-> NoOwner, pos |-> s[i0].pos]
  <2>1. r \in Slot /\ r.owner = NoOwner
    BY <1>5 DEF Slot
  <2>2. z = [s EXCEPT ![i0] = r]
    BY <1>4, <1>5
  <2> HIDE DEF r
  <2>3. z \in Seq(Slot) /\ Len(z) = n /\ DOMAIN z = 1..n
    BY <1>1, <2>1, <2>2
  <2>4. \A i \in 1..n : z[i] = IF i = i0 THEN r ELSE s[i]
    BY <1>1, <2>2
  <2> QED
    BY <2>1, <2>3, <2>4
<1>7. /\ top \in 0..n
      /\ \A i \in 1..n : i > top => z[i].owner = NoOwner
  <2>1. CASE taken = {}
    BY <1>1, <1>6, <2>1
  <2>2. CASE taken # {}
    <3>1. taken \in SUBSET (1..n)
      BY <1>6
    <3>2. \E m \in taken : \A j \in taken : j <= m
      <4> HIDE DEF taken
      <4> QED
        BY <1>1, <2>2, <3>1, GreatestOf
    <3>3. top \in taken /\ \A j \in taken : j <= top
      <4> HIDE DEF taken
      <4> QED
        BY <2>2, <3>2
    <3> HIDE DEF top
    <3> QED
      BY <1>1, <1>6, <3>1, <3>3
  <2> QED
    BY <2>1, <2>2
<1> HIDE DEF taken, top
<1> DEFINE t == SubSeq(z, 1, top)
<1>8. t \in Seq(Slot) /\ Len(t) = top /\ \A i \in 1..top : t[i] = z[i]
  BY <1>1, <1>6, <1>7
<1>9. k \in [pos : Int, slots : Seq(Slot)] /\ k.slots = t
  <2> DEFINE x == IF top < Len(z) THEN z[top + 1].pos ELSE p.pos
  <2>1. x \in Int
    <3>1. CASE top < Len(z)
      <4>1. top + 1 \in 1..n
        BY <1>1, <1>6, <1>7, <3>1
      <4>2. z[top + 1] \in Slot
        BY <1>6, <4>1, ElementOfSeq
      <4> QED
        BY <3>1, <4>2 DEF Slot
    <3>2. CASE ~(top < Len(z))
      BY <3>2
    <3> QED
      BY <3>1, <3>2
  <2> HIDE DEF x, t
  <2>2. k = [pos |-> x, slots |-> t]
    BY <1>3 DEF x, t
  <2> QED
    BY <1>8, <2>1, <2>2
<1> HIDE DEF t
<1>10. OneSlotEach(t)
  <2> SUFFICES ASSUME NEW i \in 1..top, NEW j \in 1..top,
                      t[i].owner = t[j].owner, t[i].owner # NoOwner
               PROVE  i = j
    BY <1>8 DEF OneSlotEach
  <2>1. i \in 1..n /\ j \in 1..n /\ z[i].owner = z[j].owner /\ z[i].owner # NoOwner
    BY <1>1, <1>7, <1>8
  <2>2. s[i].owner = s[j].owner /\ s[i].owner # NoOwner
    BY <1>6, <2>1
  <2> QED
    BY <2>1, <2>2 DEF OneSlotEach
<1>11. ASSUME NEW x \in OwnersIn(t) PROVE x \in OwnersIn(s) \ {o}
  <2>1. PICK i \in 1..top : t[i].owner = x /\ x # NoOwner
    BY <1>8 DEF OwnersIn
  <2>2. i \in 1..n /\ z[i].owner = x
    BY <1>1, <1>7, <1>8, <2>1
  <2>3. i # i0 /\ s[i].owner = x
    BY <1>6, <2>1, <2>2
  <2>4. x # o
    BY <1>1, <2>2, <2>3 DEF OneSlotEach
  <2> QED
    BY <2>1, <2>2, <2>3, <2>4 DEF OwnersIn
<1>12. ASSUME NEW x \in OwnersIn(s) \ {o} PROVE x \in OwnersIn(t)
  <2>1. PICK i \in 1..n : s[i].owner = x /\ x # NoOwner
    BY DEF OwnersIn
  <2>2. i # i0 /\ z[i].owner = x
    BY <1>6, <2>1
  <2>3. i \in 1..top
    BY <1>1, <1>7, <2>1, <2>2
  <2> QED
    BY <1>8, <2>1, <2>2, <2>3 DEF OwnersIn
<1> QED
  BY <1>9, <1>10, <1>11, <1>12

\* A zone that allocates joins the list of its end.
LEMMA PushedList ==
    ASSUME NEW s \in Seq(Slot), OneSlotEach(s), NEW x \in Slot, x.owner \in Files,
           x.owner \notin OwnersIn(s)
    PROVE  LET t == Append(s, x)
           IN  t \in Seq(Slot) /\ OneSlotEach(t) /\ OwnersIn(t) = OwnersIn(s) \cup {x.owner}
<1> DEFINE t == Append(s, x)
<1>1. /\ t \in Seq(Slot) /\ Len(s) \in Nat /\ Len(t) = Len(s) + 1 /\ t[Len(t)] = x
      /\ \A i \in 1..Len(s) : t[i] = s[i]
  OBVIOUS
<1> HIDE DEF t
<1>2. 1..Len(t) = 1..Len(s) \cup {Len(t)} /\ x.owner # NoOwner
  BY <1>1, MemoryIs
<1>3. \A i \in 1..Len(s) : s[i].owner # x.owner
  BY <1>2 DEF OwnersIn
<1>4. OneSlotEach(t)
  BY <1>1, <1>2, <1>3 DEF OneSlotEach
<1>5. OwnersIn(t) = OwnersIn(s) \cup {x.owner}
  BY <1>1, <1>2 DEF OwnersIn
<1> QED
  BY <1>1, <1>4, <1>5 DEF t

MemoryOf(pr, table) ==
    /\ pr \in [M!Ends -> [pos : Int, slots : Seq(Slot)]]
    /\ \A e \in M!Ends : /\ OneSlotEach(pr[e].slots)
                         /\ OwnersIn(pr[e].slots) = {f \in FilesIn(table) : EndOf[f] = e}

\* A zone has a slot at its own end, and no other, while it is in the table; a zone
\* allocates while the database thread loads one.
Memory ==
    /\ MemoryOf(prim, loaded)
    /\ open \in [owner : Files \cup {NoOwner}, end : M!Ends]
    /\ open = M!Closed <=> worker # "load"

\* A step of PMem, or none.
Used == M!Next \/ UNCHANGED memory

LEMMA MemoryInit == Init => Memory
<1> SUFFICES ASSUME Init PROVE Memory
  OBVIOUS
<1>1. /\ prim = [e \in M!Ends |-> [pos |-> IF e = M!High THEN Size ELSE 0, slots |-> <<>>]]
      /\ open = M!Closed /\ loaded = <<>> /\ worker = "asleep"
  BY DEF Init, M!Init
<1>2. prim \in [M!Ends -> [pos : Int, slots : Seq(Slot)]]
  BY <1>1, MemoryIs
<1>3. \A e \in M!Ends : Len(prim[e].slots) = 0
  BY <1>1
<1>4. FilesIn(loaded) = {}
  BY <1>1 DEF FilesIn
<1>5. MemoryOf(prim, loaded)
  BY <1>2, <1>3, <1>4 DEF MemoryOf, OneSlotEach, OwnersIn
<1>6. open \in [owner : Files \cup {NoOwner}, end : M!Ends]
  BY <1>1 DEF M!Closed, M!Ends, M!Low, M!High
<1> QED
  BY <1>1, <1>5, <1>6 DEF Memory

\* A zone that leaves the table gives its memory back.
LEMMA FreeStep ==
    ASSUME Threads, Lists, Booted, Memory, RemoveZoneEntry \/ ZoneEntryCleanup
    PROVE  Memory' /\ Used
<1>1. PICK i \in 1..Len(loaded) :
          /\ Without(loaded', loaded, i)
          /\ M!FreeXZoneMemory(loaded[i].file, EndOf[loaded[i].file])
  BY TakenOut
<1>2. /\ worker = "asleep" /\ worker' = worker
      /\ loaded \in Seq(Entries) /\ Apart(loaded)
  BY TakenOut DEF Lists, ListsOf
<1> DEFINE o == loaded[i].file
           end == EndOf[o]
<1>3. o \in Files /\ end \in M!Ends /\ o \in FilesIn(loaded)
  <2>1. loaded[i] \in Entries
    BY <1>2, ElementOfSeq
  <2> QED
    BY <2>1, MemoryIs DEF Entries, FilesIn
<1>4. FilesIn(loaded') = FilesIn(loaded) \ {o}
  BY <1>1, <1>2, WithoutKeeps
<1>5. M!FreeXZoneMemory(o, end)
  BY <1>1
<1> HIDE DEF o, end
<1>6. /\ prim \in [M!Ends -> [pos : Int, slots : Seq(Slot)]] /\ NoOwner \notin Files
      /\ \A e \in M!Ends : /\ OneSlotEach(prim[e].slots)
                           /\ OwnersIn(prim[e].slots) = {f \in FilesIn(loaded) : EndOf[f] = e}
  BY MemoryIs DEF Memory, MemoryOf
<1>7. PICK i0 \in 1..Len(prim[end].slots) : prim[end].slots[i0].owner = o
  <2>1. o \in OwnersIn(prim[end].slots)
    BY <1>3, <1>6 DEF end
  <2> QED
    BY <2>1 DEF OwnersIn
<1> DEFINE k == M!FreeName(prim[end], o)
<1>8. prim' = [prim EXCEPT ![end] = k] /\ open' = open
  BY <1>5 DEF M!FreeXZoneMemory
<1>9. prim[end] \in [pos : Int, slots : Seq(Slot)] /\ OneSlotEach(prim[end].slots)
  BY <1>3, <1>6
<1> DEFINE p == prim[end]
<1>10. /\ k \in [pos : Int, slots : Seq(Slot)] /\ OneSlotEach(k.slots)
       /\ OwnersIn(k.slots) = OwnersIn(prim[end].slots) \ {o}
  BY <1>3, <1>7, <1>9, FreedList
<1> HIDE DEF k
<1>11. MemoryOf(prim', loaded')
  <2>1. prim' \in [M!Ends -> [pos : Int, slots : Seq(Slot)]]
    BY <1>6, <1>8, <1>10
  <2>2. ASSUME NEW e \in M!Ends
        PROVE  /\ OneSlotEach(prim'[e].slots)
               /\ OwnersIn(prim'[e].slots) = {f \in FilesIn(loaded') : EndOf[f] = e}
    <3>1. CASE e = end
      <4>1. prim'[e] = k
        BY <1>3, <1>6, <1>8, <3>1
      <4> QED
        BY <1>4, <1>6, <1>10, <3>1, <4>1
    <3>2. CASE e # end
      <4>1. prim'[e] = prim[e]
        BY <1>3, <1>6, <1>8, <3>2
      <4>2. EndOf[o] # e
        BY <3>2 DEF end
      <4>3. {f \in FilesIn(loaded') : EndOf[f] = e} = {f \in FilesIn(loaded) : EndOf[f] = e}
        BY <1>4, <4>2
      <4> QED
        BY <1>6, <4>1, <4>3
    <3> QED
      BY <3>1, <3>2
  <2> QED
    BY <2>1, <2>2 DEF MemoryOf
<1>12. Memory'
  BY <1>2, <1>8, <1>11 DEF Memory, MemoryOf
<1>13. M!Free(o, end)
  <2>1. open = M!Closed
    BY <1>2 DEF Memory
  <2>2. DOMAIN prim[end].slots = 1..Len(prim[end].slots)
    BY <1>9
  <2> QED
    BY <1>5, <1>7, <2>1, <2>2 DEF M!Free
<1> QED
  BY <1>3, <1>12, <1>13 DEF Used, M!Next

\* A zone that is opened begins to allocate: nothing else does, and it has no slot.
LEMMA OpenStep ==
    ASSUME Threads, Lists, Memory, OpenZoneFile
    PROVE  Memory' /\ Used
<1> DEFINE x == [file |-> Head(batch).file, alloc |-> Head(batch).alloc]
           o == Head(batch).file
           end == EndOf[o]
<1>1. /\ x \in Entries /\ x.file \notin FilesIn(loaded) /\ x.file = o
      /\ loaded' = Append(loaded, x) /\ worker = "open" /\ worker' = "load"
  BY OpenedIs
<1>2. o \in Files /\ end \in M!Ends
  BY <1>1, MemoryIs DEF Entries
<1>3. FilesIn(loaded') = FilesIn(loaded) \cup {o}
  BY <1>1, AppendKeeps DEF Lists, ListsOf
<1>4. M!PushSlot(o, end)
  BY DEF OpenZoneFile
<1> HIDE DEF x, o
<1>5. /\ prim \in [M!Ends -> [pos : Int, slots : Seq(Slot)]] /\ NoOwner \notin Files
      /\ \A e \in M!Ends : /\ OneSlotEach(prim[e].slots)
                           /\ OwnersIn(prim[e].slots) = {f \in FilesIn(loaded) : EndOf[f] = e}
  BY MemoryIs DEF Memory, MemoryOf
<1> DEFINE y == [owner |-> o, pos |-> prim[end].pos]
           t == Append(prim[end].slots, y)
<1>6. prim' = [prim EXCEPT ![end].slots = t] /\ open' = [owner |-> o, end |-> end]
  BY <1>4 DEF M!PushSlot
<1>7. prim[end] \in [pos : Int, slots : Seq(Slot)]
  BY <1>2, <1>5
<1>8. y \in Slot /\ y.owner = o
  BY <1>2, <1>7 DEF Slot
<1> HIDE DEF y
<1>9. t \in Seq(Slot) /\ OneSlotEach(t) /\ OwnersIn(t) = OwnersIn(prim[end].slots) \cup {o}
  <2>1. o \notin OwnersIn(prim[end].slots)
    BY <1>1, <1>2, <1>5
  <2> QED
    BY <1>2, <1>5, <1>7, <1>8, <2>1, PushedList
<1> HIDE DEF t, end
<1>10. MemoryOf(prim', loaded')
  <2>1. prim' \in [M!Ends -> [pos : Int, slots : Seq(Slot)]]
    BY <1>2, <1>5, <1>6, <1>7, <1>9
  <2>2. ASSUME NEW e \in M!Ends
        PROVE  /\ OneSlotEach(prim'[e].slots)
               /\ OwnersIn(prim'[e].slots) = {f \in FilesIn(loaded') : EndOf[f] = e}
    <3>1. CASE e = end
      <4>1. prim'[e].slots = t
        BY <1>2, <1>5, <1>6, <1>7, <3>1
      <4>2. EndOf[o] = e
        BY <3>1 DEF end
      <4> QED
        BY <1>3, <1>5, <1>9, <3>1, <4>1, <4>2
    <3>2. CASE e # end
      <4>1. prim'[e] = prim[e]
        BY <1>2, <1>5, <1>6, <3>2
      <4>2. EndOf[o] # e
        BY <3>2 DEF end
      <4>3. {f \in FilesIn(loaded') : EndOf[f] = e} = {f \in FilesIn(loaded) : EndOf[f] = e}
        BY <1>3, <4>2
      <4> QED
        BY <1>5, <4>1, <4>3
    <3> QED
      BY <3>1, <3>2
  <2> QED
    BY <2>1, <2>2 DEF MemoryOf
<1>11. open' # M!Closed /\ open' \in [owner : Files \cup {NoOwner}, end : M!Ends]
  BY <1>2, <1>5, <1>6 DEF M!Closed
<1>12. Memory'
  BY <1>1, <1>10, <1>11 DEF Memory, MemoryOf
<1>13. M!BeginAlloc(o, end)
  <2>1. open = M!Closed
    BY <1>1 DEF Memory
  <2>2. ASSUME NEW e \in M!Ends, NEW i \in DOMAIN prim[e].slots PROVE prim[e].slots[i].owner # o
    <3>1. i \in 1..Len(prim[e].slots)
      BY <1>5
    <3>2. o \notin OwnersIn(prim[e].slots) /\ o # NoOwner
      BY <1>1, <1>2, <1>5
    <3> QED
      BY <3>1, <3>2 DEF OwnersIn
  <2> QED
    BY <1>4, <2>1, <2>2 DEF M!BeginAlloc
<1> QED
  BY <1>2, <1>12, <1>13 DEF Used, M!Next

\* A block is only taken while a zone is open, and moves a cursor.
LEMMA BlockStep ==
    ASSUME Memory, NEW q \in Requests, LoadBlock(q)
    PROVE  Memory' /\ Used
<1>1. M!Alloc(q) /\ loaded' = loaded /\ worker' = worker
  BY DEF LoadBlock, Others
<1>2. M!Next
  BY <1>1 DEF M!Next
<1> DEFINE end == open.end
           b == M!Block(end, q)
<1>3. prim' = [prim EXCEPT ![end].pos = b.pos] /\ open' = open
  BY <1>1 DEF M!Alloc
<1>4. end \in M!Ends
  BY DEF Memory
<1>5. /\ prim \in [M!Ends -> [pos : Int, slots : Seq(Slot)]]
      /\ \A e \in M!Ends : /\ OneSlotEach(prim[e].slots)
                           /\ OwnersIn(prim[e].slots) = {f \in FilesIn(loaded) : EndOf[f] = e}
  BY DEF Memory, MemoryOf
<1>6. b.pos \in Int
  <2>1. q.size \in Nat /\ q.alignment \in Nat \ {0} /\ Word \in Nat \ {0}
    BY MemoryIs
  <2>2. prim[M!Low].pos \in Int /\ prim[M!High].pos \in Int
    BY <1>5 DEF M!Ends
  <2>3. \A v \in Int : M!AlignDown(v, q.alignment) \in Int
    BY <2>1 DEF M!AlignDown
  <2>4. M!LowBlock(q).pos \in Int
    BY <2>1, <2>2, <2>3 DEF M!LowBlock
  <2>5. M!HighBlock(q).pos \in Int
    BY <2>1, <2>2, <2>3 DEF M!HighBlock
  <2> QED
    BY <2>4, <2>5 DEF M!Block
<1> HIDE DEF b, end
<1>7. prim' \in [M!Ends -> [pos : Int, slots : Seq(Slot)]]
      /\ \A e \in M!Ends : prim'[e].slots = prim[e].slots
  BY <1>3, <1>4, <1>5, <1>6
<1>8. MemoryOf(prim', loaded')
  BY <1>1, <1>5, <1>7 DEF MemoryOf
<1> QED
  BY <1>1, <1>2, <1>3, <1>8 DEF Memory, MemoryOf, Used

\* No thread begins, takes from or frees memory but as PMem allows.
LEMMA MemoryStep ==
    ASSUME Threads, Lists, Booted, Memory, [Next]_vars
    PROVE  Memory' /\ Used
<1>1. CASE MainOnly \/ Enqueue \/ Wake \/ ReadCount \/ ResetCount \/ DropZone \/ BatchDone
  <2>1. /\ memory' = memory /\ loaded' = loaded /\ (worker' = "load" <=> worker = "load")
    BY <1>1, MainOnlyKeeps DEF Enqueue, Wake, ReadCount, ResetCount, DropZone, BatchDone, Others
  <2> QED
    BY <2>1 DEF Memory, MemoryOf, Used, memory
<1>2. CASE RemoveZoneEntry \/ ZoneEntryCleanup
  BY <1>2, FreeStep
<1>3. CASE OpenZoneFile
  BY <1>3, OpenStep
<1>4. CASE \E q \in Requests : LoadBlock(q)
  BY <1>4, BlockStep
<1>5. CASE ZoneLoaded
  <2>1. M!EndAlloc /\ loaded' = loaded /\ worker' = "open"
    BY <1>5 DEF ZoneLoaded
  <2>2. open' = M!Closed /\ prim' = prim
    BY <2>1 DEF M!EndAlloc
  <2>3. open' \in [owner : Files \cup {NoOwner}, end : M!Ends]
    BY <2>2 DEF M!Closed, M!Ends, M!Low, M!High
  <2> QED
    BY <2>1, <2>2, <2>3 DEF Memory, MemoryOf, Used, M!Next
<1> QED
  BY <1>1, <1>2, <1>3, <1>4, <1>5 DEF Next, Main, Worker, MainOnly

-----------------------------------------------------------------------------
(* One map at a time *)

\* A file of a map is one of the map m, and of a call before those that are left.
Own(f, cs, m) ==
    \A o \in Maps, n \in 1..5 :
        f = MapFile(n, o) => o = m /\ (OfMap(cs, m) => n + Len(cs) < 6)

\* From the end of the first call of DB_LoadMapZones on, the zones of a map are those of
\* the map, and of the calls of it that were made.
MapZones ==
    \/ Len(calls) = 5 /\ main \in {"idle", "remove"}
    \/ \A f \in FilesIn(loaded) \cup FilesIn(Due) : Own(f, calls, map)

\* What a call of DB_LoadMapZones asks for, as a list.
LEMMA MapCallFiles ==
    ASSUME NEW m \in Maps, NEW n \in 1..5
    PROVE  /\ MapCalls(m)[n] \in AllCalls
           /\ FilesIn(MapCalls(m)[n].infos) = {MapFile(n, m)}
           /\ DOMAIN MapCalls(m)[n].infos = {1}
           /\ MapCalls(m)[n].infos[1].file = MapFile(n, m)
           /\ MapCalls(m)[n].infos[1].free = Frees[n]
<1> DEFINE x == [file |-> MapFile(n, m), alloc |-> {Flag[n]}, free |-> Frees[n]]
<1>1. MapCalls(m)[n].infos = <<x>>
  BY MapCall
<1>2. x.file = MapFile(n, m) /\ x.free = Frees[n]
  OBVIOUS
<1> HIDE DEF x
<1>3. Len(<<x>>) = 1 /\ <<x>>[1] = x /\ DOMAIN <<x>> = {1}
  OBVIOUS
<1>4. MapCalls(m)[n] \in AllCalls
  <2> DEFINE p == [map |-> m, calls |-> MapCalls(m)]
  <2>1. p \in Programs /\ p.calls = MapCalls(m)
    BY DEF Programs
  <2>2. DOMAIN MapCalls(m) = 1..5
    BY DEF MapCalls
  <2>3. MapCalls(m)[n] \in Range(MapCalls(m))
    BY <2>2 DEF Range
  <2> QED
    BY <2>1, <2>3 DEF AllCalls
<1> QED
  BY <1>1, <1>2, <1>3, <1>4 DEF FilesIn

\* A file of a map has the flag of its kind.
LEMMA MapFileFlag ==
    ASSUME NEW x, Named(x), NEW m \in Maps, NEW n \in 1..5, x.file = MapFile(n, m)
    PROVE  x.alloc = {Flag[n]}
<1>1. PICK c \in AllCalls : \E k \in 1..Len(c.infos) :
          x.file = c.infos[k].file /\ x.alloc = c.infos[k].alloc
  BY DEF Named
<1>2. PICK k \in 1..Len(c.infos) : x.file = c.infos[k].file /\ x.alloc = c.infos[k].alloc
  BY <1>1
<1>3. ~EnginesFile(c, k) /\ ~ModsFile(c, k)
  <2>1. c.infos[k].file = MapFile(n, m) /\ MapFile(n, m) \notin ModFiles
    BY <1>2, FilesDiffer
  <2>2. ~EnginesFile(c, k)
    BY <2>1 DEF EnginesFile
  <2>3. ~ModsFile(c, k)
    BY <2>1 DEF ModsFile
  <2> QED
    BY <2>2, <2>3
<1>4. PICK o \in Maps, l \in 1..5 : MapsFile(c, k, o, l)
  BY <1>3, WhoseFile
<1> QED
  BY <1>2, <1>4, FilesDiffer DEF MapsFile

\* A zone with a flag of the maps' own is a map's.
LEMMA MapFlagFile ==
    ASSUME NEW x, Named(x), x.alloc \cap (MapFlags \ {"UI"}) # {}
    PROVE  \E m \in Maps, n \in 1..5 : x.file = MapFile(n, m)
<1>1. PICK c \in AllCalls : \E k \in 1..Len(c.infos) :
          x.file = c.infos[k].file /\ x.alloc = c.infos[k].alloc
  BY DEF Named
<1>2. PICK k \in 1..Len(c.infos) : x.file = c.infos[k].file /\ x.alloc = c.infos[k].alloc
  BY <1>1
<1>3. ~EnginesFile(c, k) /\ ~ModsFile(c, k)
  BY <1>2 DEF EnginesFile, ModsFile, MapFlags
<1>4. PICK o \in Maps, l \in 1..5 : MapsFile(c, k, o, l)
  BY <1>3, WhoseFile
<1> QED
  BY <1>2, <1>4 DEF MapsFile

\* A call of the engine, or for a mod, names no file of a map.
LEMMA OneCallFiles ==
    ASSUME NEW cs, OneCall(cs), NEW o \in Maps, NEW n \in 1..5
    PROVE  MapFile(n, o) \notin FilesIn(Head(cs).infos)
<1>0. \A c : Head(<<c>>) = c
  OBVIOUS
<1>1. ASSUME NEW present \in Mods, cs = <<ModCall(present, {"MOD"})>>
      PROVE  MapFile(n, o) \notin FilesIn(Head(cs).infos)
  <2>1. Head(cs) = ModCall(present, {"MOD"})
    BY <1>0, <1>1
  <2>2. Head(cs).infos \in Seq(ModInfo(ModFiles))
    BY <2>1, ModCallIs DEF ModList, ModFiles
  <2>3. \A i \in 1..Len(Head(cs).infos) : Head(cs).infos[i].file \in ModFiles
    <3>1. \A i \in 1..Len(Head(cs).infos) : Head(cs).infos[i] \in ModInfo(ModFiles)
      BY <2>2, ElementOfSeq
    <3> QED
      BY <3>1 DEF ModInfo
  <2> QED
    BY <2>3, FilesDiffer DEF FilesIn
<1>2. ASSUME NEW c \in Engine, cs = <<c>>
      PROVE  MapFile(n, o) \notin FilesIn(Head(cs).infos)
  <2>1. Head(cs) = c
    BY <1>0, <1>2
  <2>2. /\ c.infos \in Seq(InfosOf(FilesOf(c)))
        /\ \A i \in DOMAIN c.infos : c.infos[i].file \notin UNION {MapFiles(m) : m \in Maps}
    BY EngineCall
  <2>3. DOMAIN c.infos = 1..Len(c.infos) /\ MapFile(n, o) \in MapFiles(o)
    BY <2>2, LenProperties, MapFilesAre
  <2> QED
    BY <2>1, <2>2, <2>3 DEF FilesIn
<1> QED
  BY <1>1, <1>2 DEF OneCall

\* A call of a mod or of the engine is not the last one for a map.
LEMMA NotBoth ==
    ASSUME NEW cs, NEW m, OneCall(cs)
    PROVE  ~OfMap(cs, m)
<1> SUFFICES ASSUME OfMap(cs, m) PROVE FALSE
  OBVIOUS
<1>1. cs # <<>> /\ m \in Maps /\ Len(cs) \in 1..5
  BY DEF OfMap
<1>2. Head(cs) = MapCalls(m)[6 - Len(cs)] /\ 6 - Len(cs) \in 1..5
  <2>1. Head(cs) = MapCalls(m)[6 - Len(cs)]
    BY <1>1, NextCall
  <2>2. \A n \in 1..5 : 6 - n \in 1..5
    OBVIOUS
  <2> QED
    BY <1>1, <2>1, <2>2
<1> DEFINE k == 6 - Len(cs)
<1> HIDE DEF k
<1>3. Head(cs) = MapCalls(m)[k] /\ k \in 1..5
  BY <1>2 DEF k
<1>4. MapFile(k, m) \in FilesIn(Head(cs).infos)
  <2>1. FilesIn(MapCalls(m)[k].infos) = {MapFile(k, m)}
    BY <1>1, <1>3, MapCallFiles
  <2> QED
    BY <1>3, <2>1
<1> QED
  BY <1>1, <1>3, <1>4, OneCallFiles

\* The first call of DB_LoadMapZones unloads the zones of all maps.
LEMMA NoMapLeft ==
    ASSUME Threads, Lists, calls # <<>>, Len(calls) = 5, Matching(Head(calls).infos) = {}
    PROVE  \A o \in Maps, n \in 1..5 : MapFile(n, o) \notin FilesIn(loaded)
<1> SUFFICES ASSUME NEW o \in Maps, NEW n \in 1..5, MapFile(n, o) \in FilesIn(loaded)
             PROVE  FALSE
  OBVIOUS
<1>1. PICK i \in 1..Len(loaded) : loaded[i].file = MapFile(n, o)
  BY DEF FilesIn
<1>2. loaded[i].alloc = {Flag[n]} /\ DOMAIN loaded = 1..Len(loaded)
  BY <1>1, MapFileFlag, LenProperties DEF Lists, ListsOf
<1>3. OfMap(calls, map)
  <2>1. ASSUME NEW c, calls = <<c>> PROVE FALSE
    BY <2>1
  <2>2. ~OneCall(calls)
    BY <2>1 DEF OneCall
  <2> QED
    BY <2>2 DEF Threads
<1>4. Head(calls) = MapCalls(map)[1] /\ map \in Maps
  <2>1. Head(calls) = MapCalls(map)[6 - Len(calls)]
    BY <1>3, NextCall
  <2> QED
    BY <1>3, <2>1 DEF OfMap
<1>5. 1 \in DOMAIN Head(calls).infos /\ Head(calls).infos[1].free = Frees[1]
  BY <1>4, MapCallFiles
<1>6. Flag[n] \in Frees[1]
  BY DEF Flag, Frees
<1>7. i \in Matching(Head(calls).infos)
  BY <1>2, <1>5, <1>6 DEF Matching
<1> QED
  BY <1>7

LEMMA MapZonesInit == Init => MapZones
<1> SUFFICES ASSUME Init PROVE MapZones
  OBVIOUS
<1>1. loaded = <<>> /\ Due = <<>>
  BY SubSeqEmpty DEF Init, Due
<1>2. FilesIn(<<>>) = {}
  BY DEF FilesIn
<1> QED
  BY <1>1, <1>2 DEF MapZones

\* Without a new file, a new call or a new map nothing changes.
LEMMA Fewer ==
    ASSUME MapZones, calls' = calls, map' = map,
           main' = main \/ main \notin {"idle", "remove"} \/ Len(calls) # 5,
           FilesIn(loaded') \cup FilesIn(Due') \subseteq FilesIn(loaded) \cup FilesIn(Due)
    PROVE  MapZones'
<1>1. CASE \A f \in FilesIn(loaded) \cup FilesIn(Due) : Own(f, calls, map)
  <2>1. \A f \in FilesIn(loaded') \cup FilesIn(Due') : Own(f, calls', map')
    BY <1>1
  <2> QED
    BY <2>1 DEF MapZones
<1>2. CASE Len(calls) = 5 /\ main \in {"idle", "remove"}
  BY <1>2 DEF MapZones
<1> QED
  BY <1>1, <1>2 DEF MapZones

\* The first call frees the flags of every file of the last map, and the later calls only
\* ask for files of theirs.
LEMMA MapZonesStep ==
    ASSUME Threads, Lists, Booted, Unloaded, MapZones, [Next]_vars
    PROVE  MapZones'
<1>1. ASSUME NEW p \in Programs, Ask(p) PROVE MapZones'
  <2>1. /\ calls = <<>> /\ calls' = p.calls /\ loaded' = loaded /\ Due' = Due
        /\ main = "idle" /\ main' = main /\ map' = IF p.map = NoMap THEN map ELSE p.map
    BY <1>1, MainOnlyKeeps DEF Ask, MainOnly
  <2>2. ASSUME NEW m \in Maps, p.calls = MapCalls(m) PROVE MapZones'
    <3>1. Len(calls') = 5
      BY <2>1, <2>2 DEF MapCalls
    <3> QED
      BY <2>1, <3>1 DEF MapZones
  <2>3. CASE OneCall(p.calls) /\ p.map = NoMap
    <3>1. map' = map /\ ~OfMap(calls', map)
      BY <2>1, <2>3, NotBoth
    <3>2. \A f \in FilesIn(loaded) \cup FilesIn(Due) : Own(f, calls, map)
      <4>1. Len(<<>>) = 0
        OBVIOUS
      <4> QED
        BY <2>1, <4>1 DEF MapZones
    <3>3. \A f \in FilesIn(loaded) \cup FilesIn(Due) : Own(f, calls', map)
      BY <3>1, <3>2 DEF Own
    <3> QED
      BY <2>1, <3>1, <3>3 DEF MapZones
  <2>4. (\E m \in Maps : p.calls = MapCalls(m)) \/ (OneCall(p.calls) /\ p.map = NoMap)
    BY DEF Programs, OneCall, Engine
  <2> QED
    BY <2>2, <2>3, <2>4
<1>2. CASE UnloadAssets \/ EndRemove
  <2>1. /\ calls' = calls /\ map' = map /\ loaded' = loaded /\ Due' = Due /\ done /\ calls # <<>>
        /\ main' \in {"remove", "enqueue"}
    BY <1>2, MainOnlyKeeps DEF UnloadAssets, EndRemove, MainOnly, Threads
  <2>2. CASE Len(calls) # 5 \/ main' = "remove"
    <3>1. CASE Len(calls) # 5
      BY <2>1, <3>1, Fewer
    <3>2. CASE Len(calls) = 5 /\ main' = "remove"
      BY <2>1, <3>2 DEF MapZones
    <3> QED
      BY <2>2, <3>1, <3>2
  <2>3. CASE Len(calls) = 5 /\ main' = "enqueue"
    <3>1. Matching(Head(calls).infos) = {}
      <4>1. (OfMap(calls, map) \/ OneCall(calls))
        BY <2>1 DEF Threads
      <4>2. Head(calls).infos \in Seq(InfosOf(Files))
        BY <2>1, <4>1, NextCall, CallShape DEF Shape
      <4> QED
        BY <1>2, <2>3, <4>2, RemovedAll DEF UnloadAssets, EndRemove
    <3>2. \A o \in Maps, n \in 1..5 : MapFile(n, o) \notin FilesIn(loaded)
      BY <2>1, <2>3, <3>1, NoMapLeft
    <3>3. FilesIn(Due) = {}
      <4>1. Due = <<>>
        BY <2>1, DueIs
      <4> QED
        BY <4>1 DEF FilesIn
    <3>4. \A f \in FilesIn(loaded) \cup FilesIn(Due) : Own(f, calls, map)
      BY <3>2, <3>3 DEF Own
    <3> QED
      BY <2>1, <3>4 DEF MapZones
  <2> QED
    BY <2>1, <2>2, <2>3
<1>3. CASE Wait \/ UnloadAllZones \/ UNCHANGED vars
  <2>1. /\ calls' = calls /\ map' = map /\ loaded' = loaded /\ Due' = Due
        /\ main' = main \/ main \notin {"idle", "remove"} \/ calls = <<>>
    BY <1>3, MainOnlyKeeps DEF Wait, UnloadAllZones, MainOnly, vars
  <2>2. Len(<<>>) = 0
    OBVIOUS
  <2> QED
    BY <2>1, <2>2, Fewer
<1>4. CASE RemoveZoneEntry \/ ZoneEntryCleanup
  <2>1. PICK i \in 1..Len(loaded) : Without(loaded', loaded, i)
    BY <1>4, TakenOut
  <2>2. Due' = Due /\ calls' = calls /\ map' = map
    BY <1>4, TakenOut
  <2>3. FilesIn(loaded') \subseteq FilesIn(loaded)
    BY <2>1, WithoutKeeps DEF Lists, ListsOf
  <2>4. main' = main \/ main \notin {"idle", "remove"}
    BY <1>4 DEF RemoveZoneEntry, ZoneEntryCleanup
  <2> QED
    BY <2>2, <2>3, <2>4, Fewer
<1>5. CASE Enqueue
  <2>1. /\ main = "enqueue" /\ calls # <<>> /\ calls' = Tail(calls) /\ loaded' = loaded /\ map' = map
        /\ Due' = Head(calls).infos /\ (OfMap(calls, map) \/ OneCall(calls))
    BY <1>5, EnqueueDue DEF Enqueue, Threads
  <2>2. \A f \in FilesIn(loaded) : Own(f, calls, map)
    BY <2>1 DEF MapZones
  <2>3. CASE OneCall(calls)
    <3>1. calls' = <<>> /\ ~OfMap(calls', map)
      <4>1. Len(<<>>) = 0
        OBVIOUS
      <4>2. calls' = <<>>
        BY <2>1, <2>3, NextCall
      <4>3. Len(calls') \notin 1..5
        BY <4>1, <4>2
      <4> QED
        BY <4>2, <4>3 DEF OfMap
    <3>2. \A f \in FilesIn(loaded) : Own(f, calls', map)
      BY <2>2, <3>1 DEF Own
    <3>3. \A f \in FilesIn(Due') : Own(f, calls', map)
      BY <2>1, <2>3, OneCallFiles DEF Own
    <3> QED
      BY <2>1, <3>2, <3>3 DEF MapZones
  <2>4. CASE OfMap(calls, map)
    <3> DEFINE k == 6 - Len(calls)
    <3>1. map \in Maps /\ Len(calls) \in 1..5
      BY <2>4 DEF OfMap
    <3>2. Head(calls) = MapCalls(map)[k] /\ Len(calls') = Len(calls) - 1
      BY <2>1, <2>4, NextCall
    <3>3. k \in 1..5 /\ k + Len(calls') < 6
      <4>1. \A n \in 1..5 : 6 - n \in 1..5 /\ (6 - n) + (n - 1) < 6
        OBVIOUS
      <4> QED
        BY <3>1, <3>2, <4>1
    <3> HIDE DEF k
    <3>4. FilesIn(Due') = {MapFile(k, map)}
      BY <2>1, <3>1, <3>2, <3>3, MapCallFiles
    <3>5. Own(MapFile(k, map), calls', map)
      BY <3>3, FilesDiffer DEF Own
    <3>6. ASSUME NEW f \in FilesIn(loaded) PROVE Own(f, calls', map)
      <4> SUFFICES ASSUME NEW o \in Maps, NEW n \in 1..5, f = MapFile(n, o)
                   PROVE  o = map /\ n + Len(calls') < 6
        BY DEF Own
      <4>1. o = map /\ n + Len(calls) < 6
        BY <2>2, <2>4 DEF Own
      <4> QED
        BY <3>1, <3>2, <4>1
    <3> QED
      BY <2>1, <3>4, <3>5, <3>6 DEF MapZones
  <2> QED
    BY <2>1, <2>3, <2>4
<1>6. CASE OpenZoneFile
  <2> DEFINE x == [file |-> Head(batch).file, alloc |-> Head(batch).alloc]
  <2>1. /\ loaded' = Append(loaded, x) /\ Due' = Due /\ 1 \in 1..Len(Due)
        /\ x \in Entries /\ x.file = Due[1].file /\ x.file \notin FilesIn(loaded)
    BY <1>6, OpenedIs
  <2>2. calls' = calls /\ map' = map /\ main' = main
    BY <1>6 DEF OpenZoneFile
  <2> HIDE DEF x
  <2>3. FilesIn(loaded') = FilesIn(loaded) \cup {x.file}
    BY <2>1, AppendKeeps DEF Lists, ListsOf
  <2>4. x.file \in FilesIn(Due)
    BY <2>1 DEF FilesIn
  <2> QED
    BY <2>1, <2>2, <2>3, <2>4, Fewer
<1>7. CASE DropZone \/ ZoneLoaded
  <2>1. /\ Due # <<>> /\ Due' = Tail(Due) /\ loaded' = loaded
        /\ calls' = calls /\ map' = map /\ main' = main
    BY <1>7, LessDue DEF DropZone, ZoneLoaded, Others
  <2>2. Due \in Seq(InfosOf(Files)) /\ 1 \in 1..Len(Due)
    BY <2>1, DueIs
  <2>3. Without(Due', Due, 1)
    BY <2>1, <2>2, WithoutIs
  <2>4. FilesIn(Due') \subseteq FilesIn(Due)
    BY <2>2, <2>3, WithoutKeeps DEF Lists, ListsOf
  <2> QED
    BY <2>1, <2>4, Fewer
<1>8. CASE Wake \/ ReadCount \/ ResetCount \/ BatchDone \/ \E q \in Requests : LoadBlock(q)
  <2>1. /\ loaded' = loaded /\ calls' = calls /\ Due' = Due /\ main' = main /\ map' = map
    BY <1>8, SameDue DEF Wake, ReadCount, ResetCount, LoadBlock, BatchDone, Others
  <2> QED
    BY <2>1, Fewer
<1> QED
  BY <1>1, <1>2, <1>3, <1>4, <1>5, <1>6, <1>7, <1>8 DEF Next, Main, Worker

\* A call of DB_LoadMapZones does not free the flag of a call before it.
LEMMA EarlierKept ==
    ASSUME NEW k \in 2..5, NEW n \in 1..5, n < k
    PROVE  Flag[n] \notin Frees[k]
<1>1. \/ k = 2 /\ n = 1
      \/ k = 3 /\ (n = 1 \/ n = 2)
      \/ k = 4 /\ (n = 1 \/ n = 2 \/ n = 3)
      \/ k = 5 /\ (n = 1 \/ n = 2 \/ n = 3 \/ n = 4)
  OBVIOUS
<1> QED
  BY <1>1 DEF Flag, Frees

\* So no later call unloads what an earlier one of the same map has loaded.
LEMMA OwnKept ==
    ASSUME Threads, Lists, Registered, MapZones, [Next]_vars, map \in Maps,
           Len(calls) \in 1..4, calls = SubSeq(MapCalls(map), 6 - Len(calls), 5),
           NEW f \in MapFiles(map), f \in linked
    PROVE  f \in linked'
<1>1. OfMap(calls, map) /\ calls # <<>> /\ Len(calls) # 5
  <2>0. \A n \in 1..4 : n \in 1..5 /\ n # 5
    OBVIOUS
  <2>1. Len(calls) \in 1..5 /\ Len(calls) # 5
    BY <2>0, Zenon
  <2>2. OfMap(calls, map)
    BY <2>1 DEF OfMap
  <2>3. Len(<<>>) = 0
    OBVIOUS
  <2> QED
    BY <2>1, <2>2, <2>3
<1>2. CASE UnloadAssets
  <2> DEFINE k == 6 - Len(calls)
             s == Head(calls).infos
  <2>1. /\ main = "idle" /\ worker # "load"
        /\ linked' = linked \ {loaded[i].file : i \in Matching(s)}
    BY <1>2 DEF UnloadAssets, Threads
  <2>2. linked = FilesIn(loaded)
    BY <2>1 DEF Registered, Shown
  <2>3. PICK n \in 1..5 : f = MapFile(n, map)
    BY MapFilesAre
  <2>4. k \in 2..5 /\ n < k
    <3>1. \A l \in 1..4 : 6 - l \in 2..5 /\ (n + l < 6 => n < 6 - l)
      OBVIOUS
    <3>2. Own(f, calls, map)
      BY <1>1, <2>2 DEF MapZones
    <3> QED
      BY <1>1, <2>3, <3>1, <3>2 DEF Own
  <2>5. Head(calls) = MapCalls(map)[k]
    BY <1>1, NextCall
  <2> HIDE DEF k
  <2>6. DOMAIN s = {1} /\ s[1].free = Frees[k]
    BY <2>4, <2>5, MapCallFiles
  <2> HIDE DEF s
  <2>7. ASSUME NEW i \in Matching(s), loaded[i].file = f PROVE FALSE
    <3>1. i \in 1..Len(loaded) /\ loaded[i].alloc \cap Frees[k] # {}
      BY <2>6, LenProperties DEF Matching, Lists, ListsOf
    <3>2. loaded[i].alloc = {Flag[n]}
      BY <2>3, <2>7, <3>1, MapFileFlag DEF Lists, ListsOf
    <3> QED
      BY <2>4, <3>1, <3>2, EarlierKept
  <2> QED
    BY <2>1, <2>7
<1>3. CASE ~UnloadAssets
  <2>1. calls # <<>>
    BY <1>1
  <2> QED
    BY <1>3, <2>1 DEF Next, Main, Worker, Ask, RemoveZoneEntry, EndRemove, Enqueue, Wait,
        ZoneEntryCleanup, UnloadAllZones, Wake, ReadCount, ResetCount, DropZone, OpenZoneFile,
        LoadBlock, ZoneLoaded, BatchDone, Others, vars
<1> QED
  BY <1>2, <1>3

-----------------------------------------------------------------------------
(* What holds of the loader *)

ZoneInv == Threads /\ Lists /\ Booted /\ Unloaded /\ Registered /\ Memory /\ MapZones

LEMMA ZoneInvInit == Init => ZoneInv
<1> SUFFICES ASSUME Init PROVE ZoneInv
  OBVIOUS
<1>1. Unloaded
  BY DEF Init, Unloaded
<1> QED
  BY <1>1, ThreadsInit, ListsInit, BootedInit, RegisteredInit, MemoryInit, MapZonesInit
     DEF ZoneInv

LEMMA ZoneInvStep == ZoneInv /\ [Next]_vars => ZoneInv'
  BY ThreadsStep, ListsStep, BootedStep, UnloadedStep, RegisteredStep, MemoryStep,
     MapZonesStep DEF ZoneInv

\* Between loads the zone table, the registry and the memory are of the same zones, each
\* once: what Phase 1 of DB_LoadXAssets unloads by its flags is what Phase 3 removes by its
\* list of bits, and DB_FreeXZoneMemory has given back.
THEOREM TablesAgree == Spec => []Agree
<1>1. ZoneInv => Agree
  <2> SUFFICES ASSUME ZoneInv, Quiet PROVE Agree
    BY DEF Agree
  <2>1. main = "idle" /\ worker = "asleep"
    BY DEF ZoneInv, Threads, Quiet
  <2>2. linked = FilesIn(loaded)
    BY <2>1 DEF ZoneInv, Registered, Shown
  <2>3. loaded \in Seq(Entries) /\ Apart(loaded) /\ DOMAIN loaded = 1..Len(loaded)
    BY DEF ZoneInv, Lists, ListsOf
  <2>4. Cardinality(linked) = Len(loaded)
    BY <2>2, <2>3, FilesCounted
  <2>5. linked = {loaded[i].file : i \in DOMAIN loaded}
    BY <2>2, <2>3 DEF FilesIn
  <2>6. \A i \in 1..Len(loaded) : loaded[i].file \in Files
    <3>1. \A i \in 1..Len(loaded) : loaded[i] \in Entries
      BY <2>3, ElementOfSeq
    <3> QED
      BY <3>1 DEF Entries
  <2>7. /\ \A e \in M!Ends : DOMAIN prim[e].slots = 1..Len(prim[e].slots)
        /\ \A e \in M!Ends : OwnersIn(prim[e].slots) = {f \in FilesIn(loaded) : EndOf[f] = e}
    BY DEF ZoneInv, Memory, MemoryOf
  <2>8. ASSUME NEW f \in Files
        PROVE  f \in FilesIn(loaded) <=>
                   \E e \in M!Ends : \E i \in DOMAIN prim[e].slots : prim[e].slots[i].owner = f
    <3>1. EndOf[f] \in M!Ends /\ f # NoOwner
      BY MemoryIs
    <3>2. f \in FilesIn(loaded) <=> \E e \in M!Ends : f \in OwnersIn(prim[e].slots)
      BY <2>7, <3>1
    <3> QED
      BY <2>7, <3>1, <3>2 DEF OwnersIn
  <2>9. linked \subseteq Files
    BY <2>2, <2>6 DEF FilesIn
  <2>10. linked = {o \in Files : \E e \in M!Ends : \E i \in DOMAIN prim[e].slots :
                         prim[e].slots[i].owner = o}
    BY <2>2, <2>8, <2>9
  <2> QED
    BY <2>4, <2>5, <2>10 DEF Agree
<1> QED
  BY <1>1, ZoneInvInit, ZoneInvStep, PTL DEF Spec

\* The loader implements PMem's specification: every step of either thread is a step of PMem,
\* one allocation at a time and no zone freed meanwhile, or leaves the memory alone.
THEOREM MemoryIsUsedProperly == Spec => UsesMemoryProperly
<1>1. Init => M!Init
  BY DEF Init
<1>2. ZoneInv /\ [Next]_vars => [M!Next]_<<prim, open, blocks>>
  <2> SUFFICES ASSUME ZoneInv, [Next]_vars PROVE [M!Next]_<<prim, open, blocks>>
    OBVIOUS
  <2>1. Used
    BY MemoryStep DEF ZoneInv
  <2> QED
    BY <2>1 DEF Used, memory
<1> QED
  BY <1>1, <1>2, ZoneInvInit, ZoneInvStep, PTL DEF Spec, UsesMemoryProperly, M!Spec, M!vars

\* Once the five calls of DB_LoadMapZones are through, no zone of another map is in the table.
THEOREM OneMapAtATime == Spec => []OneMap
<1>1. ZoneInv => OneMap
  <2> SUFFICES ASSUME ZoneInv, calls = <<>>, NEW i \in DOMAIN loaded,
                      loaded[i].alloc \cap (MapFlags \ {"UI"}) # {}
               PROVE  loaded[i].file \in MapFiles(map)
    BY DEF OneMap
  <2>1. i \in 1..Len(loaded) /\ Named(loaded[i])
    BY LenProperties DEF ZoneInv, Lists, ListsOf
  <2>2. PICK m \in Maps, n \in 1..5 : loaded[i].file = MapFile(n, m)
    BY <2>1, MapFlagFile
  <2>3. Len(calls) = 0 /\ loaded[i].file \in FilesIn(loaded)
    BY <2>1 DEF FilesIn
  <2>4. Own(loaded[i].file, calls, map)
    BY <2>3 DEF ZoneInv, MapZones
  <2>5. m = map
    BY <2>2, <2>4 DEF Own
  <2> QED
    BY <2>2, <2>5, MapFilesAre
<1> QED
  BY <1>1, ZoneInvInit, ZoneInvStep, PTL DEF Spec

\* No later call of DB_LoadMapZones unloads a zone that an earlier one of the same map has
\* loaded.
THEOREM MapKeepsItsZones == Spec => KeepsOwnZones
<1> DEFINE Kept == \A f \in MapFiles(map) :
                       /\ map \in Maps
                       /\ Len(calls) \in 1..4 /\ calls = SubSeq(MapCalls(map), 6 - Len(calls), 5)
                       /\ f \in linked
                       => f \in linked'
<1>1. ZoneInv /\ [Next]_vars => [Kept]_vars
  BY OwnKept DEF ZoneInv
<1> QED
  BY <1>1, ZoneInvInit, ZoneInvStep, PTL DEF Spec, KeepsOwnZones
=============================================================================
