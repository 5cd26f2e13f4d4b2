--------------------------- MODULE ConfigStrings ----------------------------
(***************************************************************************)
(* The configuration strings of a server and of its clients, from the      *)
(* spawning of the server to the messages its clients apply                *)
(* (PatchT4MAM_ConfigStrings.cpp), with the models that live in a block of *)
(* the same table (PatchT4MAM_ModelIndex.cpp).                             *)
(*                                                                         *)
(* SV_SpawnServer, the connection of a client, the delivery of messages in *)
(* order and what a client does with a command are the engine's.           *)
(***************************************************************************)
EXTENDS GameState

CONSTANTS
    Clients,
    Special,     \* indices 9, 0x588, 0xBB5: each client gets its own part
    Part(_, _),  \* Info_ValueForKey of a text for a client
    ModelBase,   \* g_modelCsBase
    MaxModels,   \* g_maxModels
    VanillaCS,   \* the bound of the fill loop before the flip, 0xBF0
    Models,      \* names G_ModelIndex is asked for
    Batches,     \* calls of SV_SetConfigstrings: sequences of [index, text]
    Entities,    \* what the bounds nodes and the baselines of a map may number
    Chunk,       \* 0x1EF: a longer text is sent in fragments
    Header,      \* 0x11: room kept for the index and the length of a text
    Prefix,      \* what they take when printed
    Buffer,      \* 0x200: sizeof bigbuf
    Breaks,      \* where a text has spaces, by text
    MaxCalls, MaxSpawns   \* bounds on what the engine asks for

\* A text of exactly Chunk characters sends the buffer before anything is in it;
\* no such text is considered.
ASSUME ConfigStringsAssumption ==
    /\ ModelBase + MaxModels <= MaxCS /\ HighFrom <= ModelBase /\ MaxModels > 0
    /\ Prefix \in 1..Header /\ Special \subseteq Indices /\ Models \subseteq Texts \ {Empty}
    /\ \A t \in Texts : Length[t] > Chunk \/ Length[t] + Header < Buffer
    /\ \A b \in Batches : \A k \in DOMAIN b : b[k].index \in Indices \ (ModelBase..MaxCS)

VARIABLES
    table,       \* g_csTable, by the texts of its handles
    sentinel,    \* *g_csSentinel
    refs,        \* how many references the server holds to each text
    sv,          \* sv.state: "dead", "loading" or "game"
    restarting,  \* sv.restarting
    nodes,       \* the entities with bounds nodes, ascending
    baselines,   \* the entities with baselines, ascending
    index,       \* history: what G_ModelIndex answered since the server spawned
    client,      \* what the server and the link keep of each client, and its state
    calls, spawns

server == <<table, sentinel, refs, sv, restarting, nodes, baselines, index>>
vars == <<server, client, calls, spawns>>

\* A client: the server's client->state (2 connected, 3 game state sent), the messages
\* on their way to it, and what it made of those it has read.
NoBig == [index |-> -1, text |-> Empty, size |-> 0]
NewClient ==
    [state |-> 0, inbox |-> <<>>, loaded |-> FALSE, table |-> [i \in Indices |-> NoText],
     big |-> NoBig, nodes |-> <<>>, baselines |-> <<>>]

Init ==
    /\ table = [i \in Indices |-> NoText]
    /\ sentinel = NoText
    /\ refs = [t \in Texts |-> 0]
    /\ sv = "dead"
    /\ restarting = FALSE
    /\ nodes = <<>>
    /\ baselines = <<>>
    /\ index = [m \in {} |-> 0]
    /\ client = [c \in Clients |-> NewClient]
    /\ calls = 0
    /\ spawns = 0

-----------------------------------------------------------------------------
(* The table *)

Holders(tab, sent, t) == Cardinality({i \in Indices : tab[i] = t}) + (IF sent = t THEN 1 ELSE 0)

\* What SV_GetConfigstring copies out.
SV_GetConfigstring(i) == IF table[i] = NoText THEN Empty ELSE table[i]

\* The memset that no longer covers the relocated table.
TableAfterMemset == table

\* The relocated table is zeroed by hand.
ZeroedTable == [i \in Indices |-> NoText]

\* SV_ClearConfigstrings: a reference less for each slot and for the sentinel.
ClearedRefs == [t \in Texts |-> refs[t] - Holders(table, sentinel, t)]

\* The bound of the fill loop of SV_SpawnServer as it was before the flip.
FillToVanilla == 0..(VanillaCS - 1)

\* The bound the flip patches into it.
FillTo == Indices

-----------------------------------------------------------------------------
(* SV_SetConfigstrings *)

\* SL_GetLowercaseStringOfLen from HighFrom on.
Interned(i, text) == IF i < HighFrom THEN text ELSE Lower[text]

\* A fragment ends before a character that is not a space.
FragmentSize(text, offset) ==
    IF offset + Chunk \notin Breaks[text] THEN Chunk
    ELSE CHOOSE k \in 1..(Chunk - 1) :
            /\ offset + k \notin Breaks[text]
            /\ \A j \in (k + 1)..(Chunk - 1) : offset + j \in Breaks[text]

\* 'x' starts a long text, 'y' goes on with it, 'z' ends it.
Fragments(i, text) ==
    LET len == Length[text]
        from[o \in 0..(len + Chunk)] ==
            IF o >= len THEN <<>>
            ELSE << [kind |-> IF o = 0 THEN "x" ELSE IF len - o > Chunk THEN "y" ELSE "z",
                     index |-> i, text |-> text, size |-> FragmentSize(text, o)] >>
                 \o from[o + FragmentSize(text, o)]
    IN  from[0]

Command(pairs) == [kind |-> "d", pairs |-> pairs]

\* r: the table and the references, the accumulated pairs and their length, and the
\* commands sent so far.
Accumulate(r, p) ==
    LET full == r.len + Length[p.text] + Header >= Buffer
    IN  [r EXCEPT !.out = IF full THEN Append(@, Command(r.acc)) ELSE @,
                  !.acc = Append(IF full THEN <<>> ELSE @, p),
                  !.len = (IF full THEN 0 ELSE @) + Length[p.text] + Prefix]

Broadcasting == sv = "game" \/ restarting

SetOne(r, p) ==
    LET old == r.table[p.index]
        new == Interned(p.index, p.text)
        s == [r EXCEPT !.table[p.index] = new,
                       !.refs = [[@ EXCEPT ![old] = @ - 1] EXCEPT ![new] = @ + 1]]
    IN  IF old = NoText \/ old = p.text THEN r
        ELSE IF ~Broadcasting THEN s
        ELSE IF Length[p.text] <= Chunk THEN Accumulate(s, p)
        ELSE [s EXCEPT !.out = @ \o Fragments(p.index, p.text)]

\* What the final flush sends to client c.
FinalFlush(r, pairs, c) ==
    LET p == Last(pairs)
    IN  IF r.acc = <<>> THEN <<>>
        ELSE IF p.index \notin Special THEN <<Command(r.acc)>>
        ELSE <<Command(<<[index |-> p.index, text |-> Part(p.text, c)]>>)>>

Listening(c) == client[c].state >= 3

SV_SetConfigstrings(pairs) ==
    LET r == FoldLeft(SetOne, [table |-> table, refs |-> refs, acc |-> <<>>, len |-> 0,
                               out |-> <<>>], pairs)
    IN  /\ table' = r.table
        /\ refs' = r.refs
        /\ client' = [c \in Clients |->
               IF Listening(c)
               THEN [client[c] EXCEPT !.inbox = @ \o r.out \o FinalFlush(r, pairs, c)]
               ELSE client[c]]

-----------------------------------------------------------------------------
(* The server's life *)

Disconnect(c) == [c EXCEPT !.state = 0, !.inbox = <<>>]

\* SV_SpawnServer clears what was there, fills every slot with the empty string, and
\* leaves its clients connected.
Spawn(ns, bs) ==
    /\ spawns < MaxSpawns
    /\ spawns' = spawns + 1
    /\ table' = [i \in Indices |-> IF i \in FillTo THEN Empty ELSE ZeroedTable[i]]
    /\ sentinel' = Empty
    /\ refs' = [ClearedRefs EXCEPT ![Empty] = @ + Cardinality(FillTo) + 1]
    /\ sv' = "loading"
    /\ restarting' = FALSE
    /\ nodes' = ns
    /\ baselines' = bs
    /\ index' = [m \in {} |-> 0]
    /\ client' = [c \in Clients |-> [client[c] EXCEPT !.state = IF @ > 2 THEN 2 ELSE @]]
    /\ UNCHANGED calls

BeginGame ==
    /\ sv = "loading"
    /\ sv' = "game"
    /\ restarting' = FALSE
    /\ UNCHANGED <<table, sentinel, refs, nodes, baselines, index, client, calls, spawns>>

\* A fast restart loads the game again and keeps the table and the clients.
MapRestart ==
    /\ sv = "game" /\ calls < MaxCalls
    /\ sv' = "loading"
    /\ restarting' = TRUE
    /\ calls' = calls + 1
    /\ UNCHANGED <<table, sentinel, refs, nodes, baselines, index, client, spawns>>

\* SV_ClearConfigstrings, and the end of the server.
Stop ==
    /\ table' = ZeroedTable
    /\ sentinel' = NoText
    /\ refs' = ClearedRefs
    /\ sv' = "dead"
    /\ restarting' = FALSE
    /\ nodes' = <<>> /\ baselines' = <<>>
    /\ index' = [m \in {} |-> 0]
    /\ client' = [c \in Clients |-> Disconnect(client[c])]

Shutdown ==
    /\ sv # "dead"
    /\ Stop
    /\ UNCHANGED <<calls, spawns>>

SetConfigstrings(pairs) ==
    /\ sv # "dead" /\ calls < MaxCalls
    /\ calls' = calls + 1
    /\ SV_SetConfigstrings(pairs)
    /\ UNCHANGED <<sentinel, sv, restarting, nodes, baselines, index, spawns>>

\* G_ModelIndex finds the name, or the first free slot, or neither.
FreeOrNamed(name) ==
    {k \in 1..(MaxModels - 1) : table[ModelBase + k] \in {Lower[name], Empty, NoText}}

FirstOf(S) == CHOOSE k \in S : \A j \in S : k <= j

\* The name is at k already.
Registered(k, name) == table[ModelBase + k] = Lower[name]

G_ModelIndex(name) ==
    /\ sv # "dead" /\ calls < MaxCalls
    /\ calls' = calls + 1
    /\ UNCHANGED spawns
    /\ IF FreeOrNamed(name) = {} THEN Stop     \* "G_ModelIndex: Overflow"
       ELSE LET k == FirstOf(FreeOrNamed(name))
            IN  /\ index' = [m \in DOMAIN index \cup {name} |-> IF m = name THEN k ELSE index[m]]
                /\ UNCHANGED <<sentinel, sv, restarting, nodes, baselines>>
                /\ IF Registered(k, name) THEN UNCHANGED <<table, refs, client>>
                   ELSE SV_SetConfigstrings(<<[index |-> ModelBase + k, text |-> name]>>)

-----------------------------------------------------------------------------
(* Clients *)

Connect(c) ==
    /\ sv # "dead" /\ client[c].state = 0
    /\ client' = [client EXCEPT ![c] = [NewClient EXCEPT !.state = 2]]
    /\ UNCHANGED <<server, calls, spawns>>

\* reliableSequence: the commands before the game state will not be executed.
DropPending(inbox) == <<>>

\* SV_SendClientGameState, to a client that has none of this map, or whose own was lost.
SendGameState(c) ==
    /\ sv = "game"
    /\ client[c].state = 2 \/ (client[c].state = 3 /\ ~client[c].loaded)
    /\ LET msg == SV_SendClientGameState(table, nodes, baselines)
       IN  client' = [client EXCEPT
               ![c].state = 3,
               ![c].loaded = FALSE,
               ![c].inbox = <<[kind |-> "gamestate", msg |-> msg]>> \o DropPending(@)]
    /\ UNCHANGED <<server, calls, spawns>>

\* "EXE_NEEDSTATS"
DropForStats(c) ==
    /\ sv = "game" /\ client[c].state = 2
    /\ client' = [client EXCEPT ![c] = Disconnect(@)]
    /\ UNCHANGED <<server, calls, spawns>>

Apply(tab, pairs) ==
    FoldLeft(LAMBDA acc, p : [acc EXCEPT ![p.index] = p.text], tab, pairs)

\* A fragmented text takes effect with its last fragment, if none is missing.
AddFragment(cl, m) ==
    LET big == [index |-> m.index, text |-> m.text,
                size |-> m.size + (IF m.kind = "x" THEN 0 ELSE cl.big.size)]
    IN  IF m.kind # "z" THEN [cl EXCEPT !.big = big]
        ELSE [cl EXCEPT !.big = NoBig,
                        !.table[m.index] = IF big.size >= Length[m.text] THEN m.text ELSE NoText]

Receive(cl, m) ==
    CASE m.kind = "gamestate" ->
           LET p == CL_ParseGamestate(cl.table, m.msg)
           IN  [cl EXCEPT !.table = p.table, !.nodes = p.nodes, !.baselines = p.baselines,
                          !.loaded = ~p.error, !.big = NoBig,
                          !.state = IF p.error THEN 0 ELSE @,
                          !.inbox = IF p.error THEN <<>> ELSE @]
      [] m.kind = "d" -> [cl EXCEPT !.table = Apply(@, m.pairs)]
      [] OTHER        -> AddFragment(cl, m)

Deliver(c) ==
    /\ client[c].inbox # <<>>
    /\ client' = [client EXCEPT
           ![c] = Receive([@ EXCEPT !.inbox = Tail(@)], Head(client[c].inbox))]
    /\ UNCHANGED <<server, calls, spawns>>

-----------------------------------------------------------------------------
Next ==
    \/ \E ns, bs \in Entities : Spawn(ns, bs)
    \/ BeginGame \/ MapRestart \/ Shutdown
    \/ \E b \in Batches : SetConfigstrings(b)
    \/ \E m \in Models : G_ModelIndex(m)
    \/ \E c \in Clients : Connect(c) \/ SendGameState(c) \/ DropForStats(c) \/ Deliver(c)

Spec == Init /\ [][Next]_vars

-----------------------------------------------------------------------------
(* Properties *)

Parts == {Part(t, c) : t \in Texts, c \in Clients}
Message ==
    {"gamestate", "d", "x", "y", "z"}

TypeOK ==
    /\ table \in Table /\ sentinel \in Texts \cup {NoText}
    /\ refs \in [Texts -> Nat]
    /\ sv \in {"dead", "loading", "game"} /\ restarting \in BOOLEAN
    /\ DOMAIN index \subseteq Models
    /\ \A m \in DOMAIN index : index[m] \in 1..(MaxModels - 1)
    /\ \A c \in Clients :
         /\ client[c].state \in {0, 2, 3}
         /\ \A k \in DOMAIN client[c].inbox : client[c].inbox[k].kind \in Message
         /\ client[c].table \in [Indices -> Texts \cup Parts \cup {NoText}]

\* The server holds one reference for each slot of the table and one for the sentinel,
\* through every change, clear and respawn: no text leaks, and none is freed while a
\* slot still has its handle.
RefsExact == \A t \in Texts : refs[t] = Holders(table, sentinel, t)

\* The number G_ModelIndex has given for a model stays the number of that model, and of
\* no other, for as long as the server runs.
ModelsNamed == \A m \in DOMAIN index : table[ModelBase + index[m]] = Lower[m]

Alike(i, s, t) == IF i < HighFrom THEN s = t ELSE Lower[s] = Lower[t]

\* A client that has read all it was sent has the texts of the server, whenever it joined
\* and whatever was set, fragmented, reset to a default or restarted since; from HighFrom
\* on up to case; and at a special index the server's text or the client's part of it.
ClientsConverge ==
    \A c \in Clients : Listening(c) /\ client[c].loaded /\ client[c].inbox = <<>> =>
        \A i \in Indices :
            LET text == client[c].table[i]
            IN  \/ i \in Special /\ text = Part(SV_GetConfigstring(i), c)
                \/ Alike(i, IF text = NoText THEN Empty ELSE text, SV_GetConfigstring(i))

\* The bytes a client's blob needs for a table: every text that is not the plain empty
\* one, and one byte at its start.
BlobNeeded(tab) ==
    1 + MapThenSumSet(LAMBDA i : Length[tab[i]] + 1,
                      {i \in Indices : i \in Static \/ tab[i] # Empty})

\* A game state sent now would be read as what it is: its count is that of its strings,
\* whichever defaults were overwritten, emptied or restored, only texts that do not
\* fit the blob make the client give up, and the entity numbers it reads are those that
\* were written, although only their differences are sent.
GameStateReadable ==
    sv = "game" =>
        LET p == CL_ParseGamestate([i \in Indices |-> NoText],
                                   SV_SendClientGameState(table, nodes, baselines))
        IN  IF p.error THEN BlobNeeded(table) > BlobSize
            ELSE p.nodes = nodes /\ p.baselines = baselines

=============================================================================
