--------------------------- MODULE ReadersWriters ---------------------------
(***************************************************************************)
(* What a reader-writer lock promises: readers share the resource, a       *)
(* writer has it alone.                                                    *)
(***************************************************************************)
CONSTANT Threads

VARIABLES readers, writers   \* the threads that have the resource

Init == readers = {} /\ writers = {}

StartRead(t) ==
    /\ t \notin readers /\ writers = {}
    /\ readers' = readers \cup {t}
    /\ UNCHANGED writers

StartWrite(t) ==
    /\ readers = {} /\ writers = {}
    /\ writers' = {t}
    /\ UNCHANGED readers

StopRead(t) ==
    /\ t \in readers
    /\ readers' = readers \ {t}
    /\ UNCHANGED writers

StopWrite(t) ==
    /\ t \in writers
    /\ writers' = writers \ {t}
    /\ UNCHANGED readers

Next == \E t \in Threads :
            StartRead(t) \/ StartWrite(t) \/ StopRead(t) \/ StopWrite(t)

Spec == Init /\ [][Next]_<<readers, writers>>
=============================================================================
