---------------------------- MODULE TableRebuild ----------------------------
(***************************************************************************)
(* --rebuild as the rest of clarc sees it, without pages, requests,        *)
(* threads or tries: the bucket is listed in one step, the table is        *)
(* emptied in one and filled chunk by chunk from that list, and only what  *)
(* ran to its end is followed by anything else.  The process may end       *)
(* between any two steps.  The bucket is the world's: any step may find it *)
(* changed, and no step but the listing reads it.                          *)
(***************************************************************************)
EXTENDS Naturals, FiniteSets

CONSTANTS
    Keys,       \* names an object can have
    NoRow,      \* what the table has for a key without a row
    ChunkSize   \* rows per transaction

VARIABLES
    bucket,     \* the row that is right for each key at this moment
    table,      \* the row of each key
    dryRun,     \* --dryRun, FALSE while nothing runs
    listing,    \* the rows listed and not yet stored
    pc          \* "idle", "list", "truncate", "restore"; "after" a rebuild

vars == <<bucket, table, dryRun, listing, pc>>

NoRows == [k \in Keys |-> NoRow]

Init ==
    /\ pc \in {"idle", "list"}
    /\ dryRun \in BOOLEAN /\ (pc = "idle" => ~dryRun)
    /\ listing = NoRows

\* A process that rebuilds is started; an earlier one was killed or is done.
Begin ==
    /\ pc' = "list" /\ dryRun' \in BOOLEAN /\ listing' = NoRows
    /\ UNCHANGED table

\* The process ends: it dies, something failed, or there is nothing more to do.
End ==
    /\ pc' = "idle" /\ dryRun' = FALSE /\ listing' = NoRows
    /\ UNCHANGED table

\* A dry run throws the list away.
List ==
    /\ pc = "list"
    /\ IF dryRun THEN listing' = NoRows /\ pc' = "after"
                 ELSE listing' = bucket /\ pc' = "truncate"
    /\ UNCHANGED <<table, dryRun>>

Truncate ==
    /\ pc = "truncate"
    /\ table' = NoRows
    /\ pc' = "restore"
    /\ UNCHANGED <<dryRun, listing>>

Left == {k \in Keys : listing[k] # NoRow}

IsChunk(c) ==
    /\ c \subseteq Left /\ c # {}
    /\ Cardinality(c) = ChunkSize \/ (c = Left /\ Cardinality(c) < ChunkSize)

StoreChunk(c) ==
    /\ pc = "restore" /\ IsChunk(c)
    /\ table' = [k \in Keys |-> IF k \in c THEN listing[k] ELSE table[k]]
    /\ listing' = [k \in Keys |-> IF k \in c THEN NoRow ELSE listing[k]]
    /\ UNCHANGED <<dryRun, pc>>

Rebuilt ==
    /\ pc = "restore" /\ listing = NoRows
    /\ pc' = "after"
    /\ UNCHANGED <<table, dryRun, listing>>

\* What a process that does not rebuild, or does no longer, does to the two.
Elsewhere ==
    /\ pc \in {"idle", "after"}
    /\ \/ UNCHANGED <<pc, dryRun>>
       \/ pc' = "idle" /\ dryRun' = FALSE
    /\ UNCHANGED listing

\* Only the bucket changes.
Others == UNCHANGED <<table, dryRun, listing, pc>>

Next ==
    \/ Others
    \/ Begin \/ End \/ List \/ Truncate \/ Rebuilt \/ Elsewhere
    \/ \E c \in SUBSET Keys : StoreChunk(c)

Spec == Init /\ [][Next]_vars
=============================================================================
