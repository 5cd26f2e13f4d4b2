------------------------------- MODULE RWLock -------------------------------
(***************************************************************************)
(* What a reader/writer lock promises, each operation in one step: any     *)
(* number of readers, or one writer and nobody else.                       *)
(***************************************************************************)
CONSTANTS Readers, Writers

VARIABLES reading, writing

Init == reading = {} /\ writing = {}

BeginRead(r) ==
    /\ writing = {}
    /\ reading' = reading \cup {r}
    /\ UNCHANGED writing

EndRead(r) ==
    /\ r \in reading
    /\ reading' = reading \ {r}
    /\ UNCHANGED writing

BeginWrite(w) ==
    /\ reading = {} /\ writing = {}
    /\ writing' = {w}
    /\ UNCHANGED reading

EndWrite(w) ==
    /\ w \in writing
    /\ writing' = {}
    /\ UNCHANGED reading

Next ==
    \/ \E r \in Readers : BeginRead(r) \/ EndRead(r)
    \/ \E w \in Writers : BeginWrite(w) \/ EndWrite(w)

Spec == Init /\ [][Next]_<<reading, writing>>

=============================================================================
