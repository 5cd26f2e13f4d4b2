----------------------------- MODULE GameState ------------------------------
(***************************************************************************)
(* The game state message: SV_SendClientGameState writes it, and           *)
(* CL_ParseGamestate reads it (PatchT4MAM_ConfigStrings.cpp:665-1110).     *)
(* Both know the same static table of default texts, so a text that equals *)
(* its default is not sent; an index that follows the one before it costs  *)
(* one bit; and entity numbers are sent as differences.  The two sides     *)
(* must make the same choices, each from its own loop.                     *)
(*                                                                         *)
(* The bits of the message, the text after the strings and the blocks the  *)
(* engine writes are abstracted.                                           *)
(***************************************************************************)
EXTENDS Integers, FiniteSets, Sequences, SequencesExt

CONSTANTS
    MaxCS,       \* g_maxCS
    HighFrom,    \* 0x585: from here on texts have no case
    Default,     \* cs_staticTable, by index: a row of index 0 ends it
    Texts,
    Empty,       \* ""
    NoText,      \* a handle, or an offset, of 0
    Lower,       \* a text in lower case
    Length,      \* strlen
    BlobSize     \* 0x20000 bytes for the texts of a client

Indices == 0..(MaxCS - 1)
Static  == DOMAIN Default

ASSUME GameStateAssumption ==
    /\ MaxCS \in Nat /\ HighFrom \in Nat /\ BlobSize \in Nat
    /\ Static \subseteq Indices \ {0} /\ Empty \in Texts /\ NoText \notin Texts
    /\ Default \in [Static -> Texts]
    /\ Lower \in [Texts -> Texts] /\ Length \in [Texts -> Nat]

Table == [Indices -> Texts \cup {NoText}]

-----------------------------------------------------------------------------
(* The server *)

Differs(i, text) ==
    IF i >= HighFrom THEN Lower[Default[i]] # Lower[text] ELSE Default[i] # text

\* Loop 1, which gives the count.
Counted(table) ==
    {i \in Indices : IF i \in Static THEN Differs(i, table[i]) ELSE table[i] # Empty}

\* A second loop that leaves an emptied static string to the test it shares.
WrittenUnlessEmpty(table) ==
    {i \in Indices : table[i] # Empty /\ (i \in Static => Differs(i, table[i]))}

\* Loop 2, which writes them: an emptied static string is written in its own branch.
Written(table) ==
    {i \in Indices :
        \/ i \in Static /\ Differs(i, table[i]) /\ table[i] = Empty
        \/ (i \in Static => Differs(i, table[i])) /\ table[i] # Empty}

\* The index is a bit when it is the next one; the branch of an emptied static string
\* always writes it.
ConfigStringsOf(table) ==
    LET w == SetToSortSeq(Written(table), <)
    IN  [k \in 1..Len(w) |->
            LET next == table[w[k]] # Empty /\ w[k] = (IF k = 1 THEN -1 ELSE w[k - 1]) + 1
            IN  [next |-> next, index |-> IF next THEN -1 ELSE w[k], text |-> table[w[k]]]]

\* Entity numbers, each relative to lastEntityRef.
Deltas(numbers, last) ==
    [k \in 1..Len(numbers) |-> numbers[k] - (IF k = 1 THEN last ELSE numbers[k - 1])]

\* lastEntityRef is reset before the baselines, as the reader will.
BaselineDeltas(nodes, baselines) == Deltas(baselines, -1)

SV_SendClientGameState(table, nodes, baselines) ==
    [count |-> Cardinality(Counted(table)),
     strings |-> ConfigStringsOf(table),
     nodes |-> Deltas(nodes, -1),
     baselines |-> BaselineDeltas(nodes, baselines)]

-----------------------------------------------------------------------------
(* The client *)

Max2(x, y) == IF x >= y THEN x ELSE y

\* The default texts of the rows from r.row to below.  They are not tested against
\* the size of the blob.
DefaultRows(r, below) ==
    LET rows == {i \in Static : r.row <= i /\ i < below}
    IN  [r EXCEPT !.table = [i \in Indices |-> IF i \in rows THEN Default[i] ELSE @[i]],
                  !.cursor = FoldSet(LAMBDA i, c : c + Length[Default[i]] + 1, @, rows),
                  !.row = Max2(@, below)]

\* One string of the message: the default rows before it, its own row if it has one,
\* then its text.
ReadString(r, s) ==
    LET i == IF s.next THEN r.index + 1 ELSE s.index
        d == DefaultRows(r, i)
    IN  IF r.error THEN r
        ELSE IF i \notin Indices \/ d.cursor + Length[s.text] + 1 > BlobSize
        THEN [d EXCEPT !.error = TRUE]
        ELSE [d EXCEPT !.index = i, !.row = Max2(@, i + 1), !.table[i] = s.text,
                       !.cursor = @ + Length[s.text] + 1]

\* Tables that keep what the last map left in them.
KeepTable(old) == old

\* The memset of the client state, which the flip extends to the tables it relocates.
ClearTable(old) == [i \in Indices |-> NoText]

Numbers(deltas, last) ==
    LET sums[k \in 0..Len(deltas)] == IF k = 0 THEN last ELSE sums[k - 1] + deltas[k]
    IN  [k \in 1..Len(deltas) |-> sums[k]]

\* The result of CL_ParseGamestate.  A count that is not the number of strings makes it
\* read something else as a string, or a string as a command.
CL_ParseGamestate(old, msg) ==
    LET start == [table |-> ClearTable(old), row |-> 0, index |-> -1, cursor |-> 1,
                  error |-> msg.count # Len(msg.strings)]
        read == FoldLeft(ReadString, start, msg.strings)
        done == IF read.error THEN read ELSE DefaultRows(read, MaxCS)
    IN  [table |-> done.table, error |-> done.error,
         nodes |-> Numbers(msg.nodes, -1), baselines |-> Numbers(msg.baselines, -1)]

=============================================================================
