---------------------------- MODULE UsageTracker ----------------------------
(***************************************************************************)
(* The batched last_used_at updates of API keys:                           *)
(* internal/auth/usagetracker/usagetracker.go.  Requests put the key they  *)
(* came with into a bounded channel and go on; one goroutine empties it at *)
(* every tick, and once more when the tracker is closed.                   *)
(***************************************************************************)
EXTENDS Naturals, SequencesExt

CONSTANTS
    UsedKeys,
    BufferSize    \* cfg.BufferSize

VARIABLES
    uQueue,     \* ch
    uPending,   \* pending: what flushAll has taken out and not yet written
    uDrain,     \* the drain goroutine
    uClose,     \* Close: not called, waiting for the goroutine, returned
    uDropped,   \* has a touch been dropped?
    uOwed,      \* history: keys with a touch that was taken and not written since
    uFailed,    \* history: those of them whose last touch met a write that failed
    uLate       \* history: keys touched after Close was called

uVars == <<uQueue, uPending, uDrain, uClose, uDropped, uOwed, uFailed, uLate>>

ASSUME BufferAssumption == BufferSize \in Nat \ {0}

UTypeOK ==
    /\ uQueue \in UNION {[1 .. n -> UsedKeys] : n \in 0 .. BufferSize}
    /\ uPending \subseteq UsedKeys
    /\ uOwed \subseteq UsedKeys /\ uFailed \subseteq uOwed /\ uLate \subseteq UsedKeys
    /\ uDropped \in BOOLEAN
    /\ uDrain \in [at : {"select", "collect", "write", "exited"}, last : BOOLEAN]
    /\ uClose \in {"open", "waiting", "nil", "ctx.Err"}

UInit ==
    /\ uQueue = <<>> /\ uPending = {} /\ uOwed = {} /\ uFailed = {} /\ uLate = {}
    /\ uDropped = FALSE
    /\ uDrain = [at |-> "select", last |-> FALSE]
    /\ uClose = "open"

----------------------------------------------------------------------------
Closed == uClose # "open"

\* Touch never waits: it drops what does not fit.  Nobody touches a key once
\* Close has returned.
Touch(k) ==
    /\ uClose \in {"open", "waiting"}
    /\ \/ /\ Len(uQueue) < BufferSize
          /\ uQueue' = Append(uQueue, k)
          /\ uOwed' = uOwed \cup {k} /\ uFailed' = uFailed \ {k}
          /\ uLate' = IF Closed THEN uLate \cup {k} ELSE uLate
          /\ UNCHANGED uDropped
       \/ /\ Len(uQueue) = BufferSize
          /\ uDropped' = TRUE
          /\ UNCHANGED <<uQueue, uOwed, uFailed, uLate>>
    /\ UNCHANGED <<uPending, uDrain, uClose>>

\* Mutant: a tracker that is closed stops without a last flush.
drainNoLastFlush ==
    /\ uDrain.at = "select"
    /\ uDrain' = IF Closed THEN [at |-> "exited", last |-> TRUE] ELSE [at |-> "collect", last |-> FALSE]
    /\ UNCHANGED <<uQueue, uPending, uClose, uDropped, uOwed, uFailed, uLate>>

\* The select of drain: a tick, or done, which makes the next flush the last.
\* When both are there either may be taken.
drain ==
    /\ uDrain.at = "select"
    /\ \E last \in {FALSE, Closed} : uDrain' = [at |-> "collect", last |-> last]
    /\ UNCHANGED <<uQueue, uPending, uClose, uDropped, uOwed, uFailed, uLate>>

\* flushAll takes what is in the channel, and what comes in meanwhile, until it
\* finds it empty.
flushAll ==
    /\ uDrain.at = "collect" /\ uQueue # <<>>
    /\ uPending' = uPending \cup {Head(uQueue)}
    /\ uQueue' = Tail(uQueue)
    /\ UNCHANGED <<uDrain, uClose, uDropped, uOwed, uFailed, uLate>>

flushed == IF uDrain.last THEN "exited" ELSE "select"

Drained ==
    /\ uDrain.at = "collect" /\ uQueue = <<>>
    /\ uDrain' = [uDrain EXCEPT !.at = IF uPending = {} THEN flushed ELSE "write"]
    /\ UNCHANGED <<uQueue, uPending, uClose, uDropped, uOwed, uFailed, uLate>>

\* One statement for each key, which sets the time of the write and so is good
\* for every touch before it.  One that fails is logged and not repeated: unless
\* the key is in the channel again its touch is lost.
TouchLastUsed(k) ==
    /\ uDrain.at = "write" /\ k \in uPending
    /\ uPending' = uPending \ {k}
    /\ uDrain' = [uDrain EXCEPT !.at = IF uPending = {k} THEN flushed ELSE "write"]
    /\ \/ uOwed' = uOwed \ {k} /\ uFailed' = uFailed \ {k}
       \/ /\ uFailed' = IF k \in uOwed /\ k \notin Range(uQueue) THEN uFailed \cup {k} ELSE uFailed
          /\ UNCHANGED uOwed
    /\ UNCHANGED <<uQueue, uClose, uDropped, uLate>>

Close ==
    /\ uClose = "open"
    /\ uClose' = "waiting"
    /\ UNCHANGED <<uQueue, uPending, uDrain, uDropped, uOwed, uFailed, uLate>>

CloseReturns ==
    /\ uClose = "waiting"
    /\ \/ uDrain.at = "exited" /\ uClose' = "nil"
       \/ uClose' = "ctx.Err"
    /\ UNCHANGED <<uQueue, uPending, uDrain, uDropped, uOwed, uFailed, uLate>>

UNext ==
    \/ \E k \in UsedKeys : Touch(k) \/ TouchLastUsed(k)
    \/ drain \/ flushAll \/ Drained \/ Close \/ CloseReturns

USpec == UInit /\ [][UNext]_uVars

----------------------------------------------------------------------------
\* usagetracker.go Close: when it returns nil, every touch that was taken before
\* it was called has been written, or its own write was tried and failed (which
\* only the log says), whichever flush was under way by then and whatever came
\* in meanwhile.  A nil therefore does not promise that all was written.
CloseFlushes == uClose = "nil" => uOwed \subseteq uFailed \cup uLate
=============================================================================
