---------------------------- MODULE DocumentStream ----------------------------
(***************************************************************************)
(* What sync_documents of sources/sync/service.py may expect of the        *)
(* asynchronous generator a connector's extract() returns.  The caller     *)
(* deletes from the store whatever the generator did not yield, so an end  *)
(* without an error means: everything the source turned out to have was    *)
(* yielded, once, or withheld from the connector for a reason outside it.  *)
(***************************************************************************)

VARIABLES
    items,    \* what the source has; may grow as the connector looks
    out,      \* what was yielded
    excused,  \* what the other side refused, or is not to be asked for
    stage     \* "open", "ended" or "raised"

vars == <<items, out, excused, stage>>

\* How much of items is known at the start depends on the connector.
Init ==
    /\ out = {}
    /\ excused = {}
    /\ stage = "open"

\* The connector learns of items, and of items it will not get.
Learn ==
    /\ items \subseteq items'
    /\ excused \subseteq excused'
    /\ UNCHANGED <<out, stage>>

Yield(i) ==
    /\ i \notin out
    /\ out' = out \cup {i}
    /\ UNCHANGED <<items, excused, stage>>

\* StopAsyncIteration. The last refusal and the end may be one step.
End ==
    /\ excused \subseteq excused'
    /\ items \subseteq out \cup excused'
    /\ stage' = "ended"
    /\ UNCHANGED <<items, out>>

\* An exception leaves the generator. It yields nothing after that.
Raise ==
    /\ items \subseteq items'
    /\ excused \subseteq excused'
    /\ stage' = "raised"
    /\ UNCHANGED out

Next ==
    /\ stage = "open"
    /\ Learn \/ (\E i \in items : Yield(i)) \/ End \/ Raise

Spec == Init /\ [][Next]_vars

=============================================================================
