-------------------------- MODULE MessageLifecycle --------------------------
(***************************************************************************)
(* What the broker adapter promises the caller of enqueue, message by      *)
(* message, whatever happens to connections, channels and the server.      *)
(*                                                                         *)
(* An enqueue is rejected (the actor is not declared) or starts sending;   *)
(* a sending message ends enqueued (enqueue returned it) or raised         *)
(* (ConnectionClosed), and that outcome is final.  An actor only runs a    *)
(* message that was handed to the broker, and a flush only removes such    *)
(* messages.  A raised or still sending message may run: the server may    *)
(* have stored it although the confirm was lost.                           *)
(***************************************************************************)
EXTENDS Naturals

CONSTANT Msgs

VARIABLES
    status,     \* what enqueue did with each message
    executed,   \* how many times an actor has run each message
    purged      \* the messages a flush has removed

vars == <<status, executed, purged>>

\* The messages handed to the broker.
Handed == {m \in Msgs : status[m] \in {"sending", "enqueued", "raised"}}

Init ==
    /\ status = [m \in Msgs |-> "unsent"]
    /\ executed = [m \in Msgs |-> 0]
    /\ purged = {}

\* enqueue(m) is called: get_actor rejects it, or the publish loop starts.
Submit(m) ==
    /\ status[m] = "unsent"
    /\ \E s \in {"sending", "rejected"} : status' = [status EXCEPT ![m] = s]
    /\ UNCHANGED <<executed, purged>>

\* enqueue(m) ends: it returns the message or raises ConnectionClosed.
Finish(m) ==
    /\ status[m] = "sending"
    /\ \E s \in {"enqueued", "raised"} : status' = [status EXCEPT ![m] = s]
    /\ UNCHANGED <<executed, purged>>

\* An actor runs m.
Run(m) ==
    /\ m \in Handed
    /\ executed' = [executed EXCEPT ![m] = @ + 1]
    /\ UNCHANGED <<status, purged>>

\* A flush removes some handed messages.
Purge(S) ==
    /\ S \subseteq Handed
    /\ purged' = purged \cup S
    /\ UNCHANGED <<status, executed>>

Next ==
    \/ \E m \in Msgs : Submit(m) \/ Finish(m) \/ Run(m)
    \/ \E S \in SUBSET Msgs : Purge(S)

Spec == Init /\ [][Next]_vars

=============================================================================
