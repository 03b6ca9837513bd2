------------------------------ MODULE FileAudit ------------------------------
(***************************************************************************)
(* What a script that audits a changing tree can promise.  It has items to *)
(* judge; an item may be clean at one time and bad at another while it     *)
(* runs.  It may leave an item out only if the item was clean at some      *)
(* time, finds an item only if it was bad at some time, clears one only if *)
(* it was clean at some time, and passes only when it has judged every     *)
(* item and found none.                                                    *)
(***************************************************************************)
CONSTANT Item

VARIABLES
    status,   \* "idle", "judging", "passed" or "failed"
    pending,  \* the items still to be judged
    found,    \* the items found bad
    clean,    \* the items that have been clean since the audit began
    bad       \* the items that have been bad since the audit began

vars == <<status, pending, found, clean, bad>>

Init == status = "idle" /\ pending = {} /\ found = {}

\* The tree changes: what an item has been while the audit runs it stays.
Change ==
    /\ UNCHANGED <<status, pending, found>>
    /\ status = "judging" => clean \subseteq clean' /\ bad \subseteq bad'

\* The audit begins, and with it the history; some items may be judged at once.
Collect ==
    /\ status = "idle" /\ status' = "judging"
    /\ pending' \subseteq Item
    /\ found' \subseteq (Item \ pending') \cap bad'
    /\ (Item \ pending') \ found' \subseteq clean'

\* Some of the pending items are judged.
Judge ==
    /\ status = "judging"
    /\ pending' \subseteq pending
    /\ found \subseteq found'
    /\ found' \ found \subseteq (pending \ pending') \cap bad
    /\ (pending \ pending') \ found' \subseteq clean
    /\ UNCHANGED <<status, clean, bad>>

Conclude ==
    /\ status = "judging" /\ pending = {}
    /\ status' = IF found = {} THEN "passed" ELSE "failed"
    /\ UNCHANGED <<pending, found, clean, bad>>

\* It cannot go on.
Abort ==
    /\ status \in {"idle", "judging"} /\ status' = "failed"
    /\ UNCHANGED <<pending, found, clean, bad>>

Next == Change \/ Collect \/ Judge \/ Conclude \/ Abort

Spec == Init /\ [][Next]_vars
=============================================================================
