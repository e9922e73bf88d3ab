------------------------------- MODULE Lease --------------------------------
(***************************************************************************)
(* What claims promise, whatever the statements that implement them: each  *)
(* spec has at most one holder with a lease; while the lease is live its   *)
(* holder loses the spec only by a call of its own, or by an amendment or  *)
(* an abandonment of the spec; only a spec without a live lease finds a    *)
(* new holder; and every change is the doing of a call that is under way,  *)
(* but for the sweeper's, which only ends leases that are not live.        *)
(*                                                                         *)
(* What they do not promise: that a live lease keeps its end.  A claim     *)
(* that found its agent to be the holder renews the lease of whoever holds *)
(* the spec by then, and moves its end, into the past even, to the time    *)
(* that it asked for.                                                      *)
(***************************************************************************)
EXTENDS Integers

CONSTANTS Specs, Agents, Requests, None

VARIABLES
    now,
    holder,   \* the agent that holds each spec, or None
    until,    \* when its lease ends
    calls     \* the call each request handler is serving, or NoCall

leaseVars == <<now, holder, until, calls>>

\* end is the lease end a claim or a heartbeat asks for; found is the agent of
\* a claim that, while it was under way, found it to be the holder already.
NoCall == [op |-> "none", spec |-> None, agent |-> None, end |-> 0, found |-> None]
Ops == {"claim", "unclaim", "heartbeat", "amend", "abandon", "complete"}

Init ==
    /\ now = 0
    /\ holder = [s \in Specs |-> None]
    /\ until = [s \in Specs |-> 0]
    /\ calls = [r \in Requests |-> NoCall]

Live(s) == holder[s] # None /\ until[s] >= now

\* A call is taken on with any lease end, and at some time answered.
Submit(r) ==
    /\ calls[r] = NoCall
    /\ \E op \in Ops, s \in Specs, a \in Agents \cup {None} :
         calls' = [calls EXCEPT ![r] = [op |-> op, spec |-> s, agent |-> a,
                                        end |-> calls'[r].end, found |-> None]]
    /\ UNCHANGED <<now, holder, until>>

Answer(r) == calls' = [calls EXCEPT ![r] = NoCall] \/ calls' = calls

\* The lease of s passes to a, to end at e.
Become(s, a, e) ==
    /\ holder' = [holder EXCEPT ![s] = a]
    /\ until' = [until EXCEPT ![s] = e]

\* A claim finds that its agent holds the spec.
Find(r) ==
    /\ calls[r].op = "claim"
    /\ holder[calls[r].spec] = calls[r].agent
    /\ calls' = [calls EXCEPT ![r].found = calls[r].agent]
    /\ UNCHANGED <<now, holder, until>>

Give(c) ==
    /\ c.op \in {"unclaim", "complete"} => holder[c.spec] = c.agent
    /\ c.op \in {"unclaim", "complete", "amend", "abandon"}
    /\ Become(c.spec, None, 0)

Take(c) ==
    /\ c.op = "claim"
    /\ ~Live(c.spec)
    /\ Become(c.spec, c.agent, c.end)

\* A heartbeat renews the lease of its agent; a claim that found its agent to
\* be the holder renews that of the holder, who may be another by now.
Renew(c) ==
    /\ \/ c.op = "heartbeat" /\ holder[c.spec] = c.agent
       \/ c.op = "claim" /\ c.found # None /\ holder[c.spec] # None
    /\ Become(c.spec, holder[c.spec], c.end)

Effect(c) == Give(c) \/ Take(c) \/ Renew(c) \/ UNCHANGED <<holder, until>>

Serve(r) ==
    /\ calls[r] # NoCall
    /\ Effect(calls[r])
    /\ Answer(r)
    /\ UNCHANGED now

\* The sweeper ends leases that are not live, and leaves every other alone.
Sweep ==
    /\ \E gone \in SUBSET {s \in Specs : ~Live(s)} :
         /\ holder' = [s \in Specs |-> IF s \in gone THEN None ELSE holder[s]]
         /\ until' = [s \in Specs |-> IF s \in gone THEN 0 ELSE until[s]]
    /\ UNCHANGED <<now, calls>>

Pass == now' > now /\ UNCHANGED <<holder, until, calls>>

Next == (\E r \in Requests : Submit(r) \/ Find(r) \/ Serve(r)) \/ Sweep \/ Pass

Spec == Init /\ [][Next]_leaseVars
=============================================================================
