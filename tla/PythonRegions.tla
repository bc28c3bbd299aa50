----------------------------- MODULE PythonRegions -----------------------------
(***************************************************************************)
(* Where control is inside one frame of the Python virtual machine: the   *)
(* sequence of the constructs around the statement being run, outermost   *)
(* first.  It stands for the instruction pointer, and for what the        *)
(* compiler knows at that instruction (_loops, _finallies and             *)
(* _pendingReturns are all determined by it).                             *)
(*                                                                        *)
(* A region is the part of a construct that control is in:                *)
(*   try       the body of a try that has except clauses                  *)
(*   clauses   its clauses, being matched against the exception           *)
(*   handler   the body of the clause that matched                        *)
(*   guard     the body of a try that has a finally                       *)
(*   final     the finally body, on the way out of a body that ended      *)
(*   cleanup   the finally body, with an exception in flight              *)
(*   with      the body of a with                                         *)
(*   exiting   the exit of its manager, with an exception in flight       *)
(*   for while the body of a loop                                         *)
(*   jump      a return, break or continue that is leaving its constructs *)
(*   leave     a finally body that such a jump runs on its way            *)
(* A jump or leave region says in "at" how far out its jump has come: the *)
(* regions from that index on are being left.                             *)
(***************************************************************************)
EXTENDS Integers, FiniteSets, Sequences, SequencesExt

CONSTANTS Exceptions,   \* the exceptions a statement may raise
          NoActive,     \* RuntimeError: a bare raise with nothing to raise
          None          \* no exception

ASSUME NoneIsNoException == None \notin Exceptions \cup {NoActive}

Protected == {"try", "guard", "with"}
Handling == {"clauses", "handler", "cleanup", "exiting"}
Loops == {"for", "while"}
Leaving == {"jump", "leave"}
Kinds == Protected \cup Handling \cup Loops \cup Leaving \cup {"final"}
JumpKinds == {"return", "break", "continue"}

Raisable == Exceptions \cup {NoActive}

Regions == [kind : Kinds, id : Nat, exc : Raisable \cup {None},
            at : Nat, jump : JumpKinds \cup {"none"}]

Region(kind, id, exc) == [kind |-> kind, id |-> id, exc |-> exc, at |-> 0, jump |-> "none"]
JumpRegion(jump, at) == [kind |-> "jump", id |-> 0, exc |-> None, at |-> at, jump |-> jump]

(***************************************************************************)
(* Region k is still open: no jump that is on its way has left it.        *)
(***************************************************************************)
Active(where, k) ==
    \A m \in (k + 1) .. Len(where) : where[m].kind \in Leaving => where[m].at > k

LastOr0(S) == IF S = {} THEN 0 ELSE CHOOSE k \in S : \A j \in S : j <= k

Opened(where, kinds) ==
    {k \in DOMAIN where : where[k].kind \in kinds /\ Active(where, k)}

\* Where an exception raised in the region of this kind continues.
OnException(kind) ==
    CASE kind = "try" -> "clauses"
      [] kind = "guard" -> "cleanup"
      [] kind = "with" -> "exiting"

(***************************************************************************)
(* owed counts, for each construct entered, the runs of its cleanup that  *)
(* are still to come: a finally body or a manager's exit is owed one.     *)
(***************************************************************************)
HasCleanup == {"guard", "with"}
Debt(kind) == IF kind \in HasCleanup THEN 1 ELSE 0
Paid(owed, id) == [owed EXCEPT ![id] = @ - 1]

\* The constructs that a jump has something to do for when it leaves them (_finallies).
Contexts == HasCleanup \cup {"handler", "cleanup"}

\* The regions after the innermost one has been replaced.
Become(where, region) == Append(Front(where), region)

\* At a statement: not in the middle of a jump, a match or a manager's exit.
AtStatement(where) ==
    where /= <<>> => Last(where).kind \notin {"jump", "clauses", "exiting"}
=============================================================================
