----------------------------- MODULE PythonControl -----------------------------
(***************************************************************************)
(* What the language promises about try, with, loops and jumps in one     *)
(* frame, said with the nesting of the constructs alone: an exception     *)
(* goes to the innermost construct that is open around the statement, a   *)
(* jump leaves the constructs up to its own loop one by one, innermost    *)
(* first, and each construct that is left runs its cleanup.  There is no  *)
(* block stack and no value stack.  PythonFrame, which has both, is       *)
(* checked to implement this.                                             *)
(***************************************************************************)
EXTENDS PythonRegions

CONSTANTS MaxOpened,   \* constructs entered during the run of the frame
          MaxDepth     \* regions open at once

VARIABLES where,       \* the regions control is in, outermost first
          owed,     \* for each construct entered: the runs of its cleanup to come
          ended        \* how the frame ended, and with which exception

vars == <<where, owed, ended>>

Running == [how |-> "running", exc |-> None]

Init == where = <<>> /\ owed = <<>> /\ ended = Running

Here == ended = Running /\ AtStatement(where)

Goto(w) == where' = w /\ UNCHANGED ended
Finish(how, e) == where' = <<>> /\ ended' = [how |-> how, exc |-> e]

\* The exception e is raised in the regions w, the cleanups owed being c.
Throw(e, w, c) ==
    LET t == LastOr0(Opened(w, Protected))
    IN  IF t = 0
        THEN Finish("raised", e) /\ owed' = c
        ELSE /\ Goto(Append(SubSeq(w, 1, t - 1), Region(OnException(w[t].kind), w[t].id, e)))
             /\ owed' = IF w[t].kind = "guard" THEN Paid(c, w[t].id) ELSE c

\* The exception that the innermost handler around the statement handles.
Handled == LET h == LastOr0(Opened(where, Handling))
           IN  IF h = 0 THEN None ELSE where[h].exc

Enter(kind) ==
    /\ Here
    /\ Len(owed) < MaxOpened
    /\ Len(where) < MaxDepth
    /\ Goto(Append(where, Region(kind, Len(owed) + 1, None)))
    /\ owed' = Append(owed, Debt(kind))

Raise ==
    /\ Here
    /\ \/ \E e \in Exceptions : Throw(e, where, owed)
       \/ Throw(IF Handled = None THEN NoActive ELSE Handled, where, owed)

\* The innermost construct ends without an exception and without a jump.
BodyEnds ==
    /\ Here
    /\ where /= <<>>
    /\ LET r == Last(where) IN
       \/ /\ r.kind \in {"try", "handler", "final", "for", "while"}
          /\ Goto(Front(where)) /\ UNCHANGED owed
       \/ /\ r.kind = "guard"
          /\ Goto(Become(where, [r EXCEPT !.kind = "final"]))
          /\ owed' = Paid(owed, r.id)
       \/ /\ r.kind = "with"
          /\ \/ Goto(Front(where)) /\ owed' = Paid(owed, r.id)
             \/ \E e \in Exceptions : Throw(e, Front(where), Paid(owed, r.id))
       \/ r.kind = "cleanup" /\ Throw(r.exc, Front(where), owed)
       \/ /\ r.kind = "leave"
          /\ Goto(Become(where, [r EXCEPT !.kind = "jump"])) /\ UNCHANGED owed

\* A clause of the try takes the exception, none does, or a clause fails to match.
MatchClauses ==
    /\ ended = Running /\ where /= <<>> /\ Last(where).kind = "clauses"
    /\ \/ Goto(Become(where, [Last(where) EXCEPT !.kind = "handler"])) /\ UNCHANGED owed
       \/ \E e \in Exceptions \cup {Last(where).exc} : Throw(e, Front(where), owed)

\* The manager is told of the exception: it swallows it, lets it pass, or raises another.
ExitOnException ==
    /\ ended = Running /\ where /= <<>> /\ Last(where).kind = "exiting"
    /\ LET c == Paid(owed, Last(where).id) IN
       \/ Goto(Front(where)) /\ owed' = c
       \/ \E e \in Exceptions \cup {Last(where).exc} : Throw(e, Front(where), c)

\* A jump begins.  Break and continue need a loop of their own around them.
Jump(jump) ==
    /\ Here
    /\ Len(where) < MaxDepth
    /\ jump /= "return" => Opened(where, Loops) /= {}
    /\ Goto(Append(where, JumpRegion(jump, Len(where) + 1)))
    /\ UNCHANGED owed

JumpTarget(jump) == IF jump = "return" THEN 0 ELSE LastOr0(Opened(where, Loops))

\* The jump leaves one construct, or arrives.
LeaveNext ==
    /\ ended = Running /\ where /= <<>> /\ Last(where).kind = "jump"
    /\ LET j == Last(where)
           k == LastOr0(Opened(where, Contexts))
       IN  IF k > JumpTarget(j.jump)
           THEN LET r == [j EXCEPT !.at = k]
                    c == Paid(owed, where[k].id)
                IN  CASE where[k].kind \in {"handler", "cleanup"} ->
                            Goto(Become(where, r)) /\ UNCHANGED owed
                      [] where[k].kind = "guard" ->
                            Goto(Become(where, [r EXCEPT !.kind = "leave"])) /\ owed' = c
                      [] where[k].kind = "with" ->
                            \/ Goto(Become(where, r)) /\ owed' = c
                            \/ \E e \in Exceptions : Throw(e, Become(where, r), c)
           ELSE /\ CASE j.jump = "return" -> Finish("returned", None)
                     [] j.jump = "break" -> Goto(SubSeq(where, 1, JumpTarget(j.jump) - 1))
                     [] j.jump = "continue" -> Goto(SubSeq(where, 1, JumpTarget(j.jump)))
                /\ UNCHANGED owed

\* The frame runs off its last statement.
RunOff == Here /\ where = <<>> /\ Finish("returned", None) /\ UNCHANGED owed

Next ==
    \/ \E kind \in Protected \cup Loops : Enter(kind)
    \/ Raise
    \/ BodyEnds
    \/ MatchClauses
    \/ ExitOnException
    \/ \E jump \in JumpKinds : Jump(jump)
    \/ LeaveNext
    \/ RunOff

Spec == Init /\ [][Next]_vars
=============================================================================
