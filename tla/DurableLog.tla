---------------------------- MODULE DurableLog ----------------------------
(***************************************************************************)
(* What the consensus WAL promises its driver (TendermintWALStore): what a *)
(* successful Flush was given is there at every restart, in order and      *)
(* once; what was pruned never comes back; a batch whose Flush did not     *)
(* succeed is there whole or not at all.                                   *)
(***************************************************************************)
EXTENDS Naturals, Sequences

CONSTANTS
    Heights,
    Entry      \* [h : Heights, n : ...]: entries carry their height

VARIABLES
    open,      \* the store is in use
    buffer,    \* what has been handed in since the last Flush
    inFlight,  \* a batch that is being written, or whose removal failed
    log,       \* the entries LoadAllEntries returns, by height, in the order they were set
    pruned     \* the watermark

logVars == <<open, buffer, inFlight, log, pruned>>

\* A batch: the entries, by height, and the height it prunes up to.
NoEntries == [h \in Heights |-> <<>>]
Nothing == [entries |-> NoEntries, upTo |-> 0]
Max2(a, b) == IF a >= b THEN a ELSE b

Write(batch) ==
    /\ pruned' = Max2(pruned, batch.upTo)
    /\ log' = [h \in Heights |-> IF h <= pruned' THEN <<>> ELSE log[h] \o batch.entries[h]]

Init == open = TRUE /\ buffer = Nothing /\ inFlight = Nothing /\ log = NoEntries /\ pruned = 0

\* An entry or a prune is handed in; below the watermark both are ignored.
HandIn ==
    /\ open /\ buffer' # buffer
    /\ UNCHANGED <<open, inFlight, log, pruned>>
    /\ \/ \E e \in Entry :
             e.h > pruned /\ buffer' = [buffer EXCEPT !.entries[e.h] = Append(@, e)]
       \/ \E h \in Heights :
             h > pruned /\ buffer' = [buffer EXCEPT !.upTo = Max2(@, h)]

Attempt ==
    /\ open /\ inFlight = Nothing /\ buffer # Nothing
    /\ inFlight' = buffer
    /\ UNCHANGED <<open, buffer, log, pruned>>

Commit ==
    /\ open /\ inFlight # Nothing /\ inFlight = buffer
    /\ Write(inFlight)
    /\ inFlight' = Nothing /\ buffer' = Nothing
    /\ UNCHANGED open

Abort ==
    /\ open /\ inFlight # Nothing
    /\ inFlight' = Nothing
    /\ UNCHANGED <<open, buffer, log, pruned>>

Stop ==
    /\ open /\ open' = FALSE
    /\ buffer' = Nothing /\ inFlight' = Nothing
    /\ Write(inFlight) \/ UNCHANGED <<log, pruned>>

Start == ~open /\ open' = TRUE /\ UNCHANGED <<buffer, inFlight, log, pruned>>

Next == HandIn \/ Attempt \/ Commit \/ Abort \/ Stop \/ Start

Spec == Init /\ [][Next]_logVars
=============================================================================
