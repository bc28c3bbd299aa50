------------------------------ MODULE PythonFrame ------------------------------
(***************************************************************************)
(* One frame of the Python virtual machine running compiled code: the     *)
(* block stack that try, with and running handlers push and pop, the      *)
(* value stack under them, and the exception that is current.  The        *)
(* program is any nesting of constructs: each statement is chosen freely. *)
(*                                                                        *)
(* The compiler lays down, for each jump, the code that leaves the        *)
(* constructs between the jump and its target (UnwindFinallies).  It goes *)
(* by what it knows of the nesting; the machine goes by the two stacks.   *)
(***************************************************************************)
EXTENDS PythonRegions

CONSTANTS MaxOpened,   \* constructs entered during the run of the frame
          MaxDepth,    \* regions open at once
          Odd          \* the unusual shapes that the program may have, see Shapes

(***************************************************************************)
(* Shapes of programs for which the stacks are known to go wrong, each    *)
(* left out unless Odd has it:                                            *)
(*   leaves_try       a jump leaves the body of a try that has clauses,   *)
(*                    and needs the block stack afterwards                *)
(*   swallows         a manager swallows an exception inside a try or a   *)
(*                    handler                                             *)
(*   loop_in_cleanup  break or continue of a loop that lies inside a      *)
(*                    finally body which a return is running              *)
(*   hidden_loop      break or continue in a finally body that a return   *)
(*                    runs from inside a loop of the guarded body         *)
(***************************************************************************)
Shapes == {"leaves_try", "swallows", "loop_in_cleanup", "hidden_loop"}

ASSUME OddShapes == Odd \subseteq Shapes

VARIABLES where,       \* the code address: the regions control is in
          owed,     \* history: for each construct entered, the runs of its cleanup to come
          ended,       \* how the frame ended, and with which exception
          blocks,      \* Frame.Blocks
          stack,       \* Frame.Stack: iterators, exits of managers, values to return
          current      \* Frame.CurrentException

vars == <<where, owed, ended, blocks, stack, current>>

Running == [how |-> "running", exc |-> None]

BlockKinds == {"Except", "Finally", "With", "Handler"}
Block(kind, home, depth, saved) ==
    [kind |-> kind, home |-> home, depth |-> depth, saved |-> saved]
Value(what, id) == [what |-> what, id |-> id]

Init ==
    /\ where = <<>> /\ owed = <<>> /\ ended = Running
    /\ blocks = <<>> /\ stack = <<>> /\ current = None

Here == ended = Running /\ AtStatement(where)

Goto(w) == where' = w /\ UNCHANGED ended
Set(bl, st, cur) == blocks' = bl /\ stack' = st /\ current' = cur
Finish(how, e) ==
    /\ where' = <<>> /\ ended' = [how |-> how, exc |-> e]
    /\ Set(<<>>, <<>>, None)

PopFrom(s) == IF s = <<>> THEN s ELSE Front(s)

(***************************************************************************)
(* Unwind: Handler blocks above the target restore what they saved; a     *)
(* With block stays registered for its exit to find.                      *)
(***************************************************************************)
Throw(e, bl, st, cur, c) ==
    LET t == LastOr0({i \in DOMAIN bl : bl[i].kind /= "Handler"})
        before == IF t = Len(bl) THEN cur ELSE bl[t + 1].saved
        depths == {Len(st)} \cup {bl[i].depth : i \in {j \in DOMAIN bl : j >= t}}
        depth == CHOOSE d \in depths : \A x \in depths : d <= x
        b == bl[t]
        left == SubSeq(bl, 1, IF b.kind = "With" THEN t ELSE t - 1)
        h == Last(b.home)
    IN  IF t = 0
        THEN Finish("raised", e) /\ owed' = c
        ELSE /\ Goto(Become(b.home, Region(OnException(h.kind), h.id, e)))
             /\ Set(Append(left, Block("Handler", b.home, b.depth, before)),
                    SubSeq(st, 1, depth), e)
             /\ owed' = IF b.kind = "Finally" THEN Paid(c, h.id) ELSE c

\* EndHandler: the block that it pops, and the exception it makes current.
HandlerOnTop(bl) == bl /= <<>> /\ Last(bl).kind = "Handler"
WithoutHandler(bl) == IF HandlerOnTop(bl) THEN Front(bl) ELSE bl
\* Seeded fault: the block itself is put back instead of what it saved.
RestoredBlock(bl) == IF HandlerOnTop(bl) THEN Last(bl) ELSE None

\* Seeded fault: ending a handler clears the exception instead of restoring the outer one.
RestoredNothing(bl) == None

Restored(bl) == IF HandlerOnTop(bl) THEN Last(bl).saved ELSE None

\* Seeded fault: an exception that no handler took is dropped.
ReRaiseDropped(w, bl, st, cur, c) ==
    Goto(w) /\ Set(WithoutHandler(bl), st, Restored(bl)) /\ owed' = c

\* ReRaise: ends the handler and throws what was current, or does nothing.
ReRaise(w, bl, st, cur, c) ==
    IF cur /= None
    THEN Throw(cur, WithoutHandler(bl), st, Restored(bl), c)
    ELSE Goto(w) /\ Set(bl, st, cur) /\ owed' = c

(***************************************************************************)
(* ExitWith and ExitWithException find the innermost With block and take  *)
(* the exit out of the slot that the block recorded.                      *)
(***************************************************************************)
LastWith == LastOr0({i \in DOMAIN blocks : blocks[i].kind = "With"})
ExitSlot == blocks[LastWith].depth
IsExit == stack[ExitSlot].what = "exit"
StackWithoutExit == RemoveAt(stack, ExitSlot)
BlocksWithoutWith == RemoveAt(blocks, LastWith)
ExitPaid == IF IsExit THEN Paid(owed, stack[ExitSlot].id) ELSE owed

\* ExitWith, and on to w unless the exit raises.
ExitWith(w) ==
    IF LastWith = 0
    THEN Goto(w) /\ UNCHANGED <<blocks, stack, current, owed>>
    ELSE IF ExitSlot > Len(stack)
    THEN Finish("crashed", None) /\ UNCHANGED owed
    ELSE \/ /\ IsExit
            /\ Goto(w)
            /\ Set(BlocksWithoutWith, StackWithoutExit, current)
            /\ owed' = ExitPaid
         \/ \E e \in Exceptions :
               Throw(e, BlocksWithoutWith, StackWithoutExit, current, ExitPaid)

CanOpen == Here /\ Len(owed) < MaxOpened /\ Len(where) < MaxDepth
NewId == Len(owed) + 1

\* SetupExcept, SetupFinally, SetupWith: a block that leads to the construct's handler.
BlockKindOf(kind) ==
    CASE kind = "try" -> "Except" [] kind = "guard" -> "Finally" [] kind = "with" -> "With"

Setup(kind) ==
    /\ CanOpen
    /\ LET w == Append(where, Region(kind, NewId, None))
           st == IF kind = "with" THEN Append(stack, Value("exit", NewId)) ELSE stack
       IN  Goto(w) /\ Set(Append(blocks, Block(BlockKindOf(kind), w, Len(st), None)), st, current)
    /\ owed' = Append(owed, Debt(kind))

\* GetIterator leaves the iterator of a for loop on the stack.
EnterLoop(kind) ==
    /\ CanOpen
    /\ Goto(Append(where, Region(kind, NewId, None)))
    /\ stack' = IF kind = "for" THEN Append(stack, Value("iterator", NewId)) ELSE stack
    /\ owed' = Append(owed, Debt(kind))
    /\ UNCHANGED <<blocks, current>>

\* A statement raises: an exception of its own, or a bare raise.
Raise ==
    /\ Here
    /\ \/ \E e \in Exceptions : Throw(e, blocks, stack, current, owed)
       \/ Throw(IF current = None THEN NoActive ELSE current, blocks, stack, current, owed)

Leave(bl, cur) == Goto(Front(where)) /\ Set(bl, stack, cur) /\ UNCHANGED owed

\* Seeded fault: the Except block outlives the body.
TryEndsUnpopped == Last(where).kind = "try" /\ Leave(blocks, current)

TryEnds == Last(where).kind = "try" /\ Leave(PopFrom(blocks), current)

GuardEnds ==
    /\ Last(where).kind = "guard"
    /\ Goto(Become(where, [Last(where) EXCEPT !.kind = "final"]))
    /\ Set(PopFrom(blocks), stack, current)
    /\ owed' = Paid(owed, Last(where).id)

WithEnds == Last(where).kind = "with" /\ ExitWith(Front(where))

HandlerEnds ==
    Last(where).kind = "handler" /\ Leave(WithoutHandler(blocks), Restored(blocks))

FinallyEnds ==
    \/ Last(where).kind = "final" /\ Leave(blocks, current)
    \/ Last(where).kind = "cleanup" /\ ReRaise(Front(where), blocks, stack, current, owed)
    \/ /\ Last(where).kind = "leave"
       /\ Goto(Become(where, [Last(where) EXCEPT !.kind = "jump"]))
       /\ UNCHANGED <<blocks, stack, current, owed>>

\* ForIterate peeks at what should be the iterator, and pops it when it is exhausted.
LoopEnds ==
    \/ Last(where).kind = "while" /\ Leave(blocks, current)
    \/ /\ Last(where).kind = "for"
       /\ CASE stack = <<>> -> Finish("crashed", None) /\ UNCHANGED owed
            [] stack /= <<>> /\ Last(stack).what = "iterator" ->
                  /\ Goto(Front(where))
                  /\ Set(blocks, Front(stack), current)
                  /\ UNCHANGED owed
            [] OTHER -> \E e \in Exceptions : Throw(e, blocks, stack, current, owed)

BodyEnds ==
    /\ Here /\ where /= <<>>
    /\ TryEnds \/ GuardEnds \/ WithEnds \/ HandlerEnds \/ FinallyEnds \/ LoopEnds

\* A clause matches, none does (ReRaise), or a clause fails to match.
MatchClauses ==
    /\ ended = Running /\ where /= <<>> /\ Last(where).kind = "clauses"
    /\ \/ /\ current /= None
          /\ Goto(Become(where, [Last(where) EXCEPT !.kind = "handler"]))
          /\ UNCHANGED <<blocks, stack, current, owed>>
       \/ ReRaise(Front(where), blocks, stack, current, owed)
       \/ \E e \in Exceptions : Throw(e, blocks, stack, current, owed)

\* No protected body and no handler is open around the with that is exiting.
Alone == Opened(Front(where), {"try", "guard", "handler", "cleanup"}) = {}

(***************************************************************************)
(* ExitWithException, and the ReRaise after it.  A manager that swallows  *)
(* the exception clears it and jumps past the ReRaise.                    *)
(***************************************************************************)
ExitOnException ==
    /\ ended = Running /\ where /= <<>> /\ Last(where).kind = "exiting"
    /\ IF LastWith = 0
       THEN ReRaise(Front(where), blocks, stack, current, owed)
       ELSE IF ExitSlot > Len(stack)
       THEN Finish("crashed", None) /\ UNCHANGED owed
       ELSE \/ /\ IsExit
               /\ Alone \/ "swallows" \in Odd
               /\ Goto(Front(where))
               /\ Set(BlocksWithoutWith, StackWithoutExit, None)
               /\ owed' = ExitPaid
            \/ /\ IsExit
               /\ ReRaise(Front(where), BlocksWithoutWith, StackWithoutExit, current, ExitPaid)
            \/ \E e \in Exceptions :
                  Throw(e, BlocksWithoutWith, StackWithoutExit, current, ExitPaid)

(***************************************************************************)
(* What the compiler knows at the end of the regions w: the loops, and    *)
(* how many values to return wait under the finally bodies being emitted. *)
(***************************************************************************)
LoopsOf(w) == {k \in DOMAIN w : w[k].kind \in Loops}
LoopDepth(w) == Cardinality(LoopsOf(w))
PendingReturns(w) ==
    Cardinality({k \in DOMAIN w : w[k].kind = "leave" /\ w[k].jump = "return"})

\* The target of a jump: the innermost loop the compiler has open, hidden or not.
Loop == LastOr0(LoopsOf(where))

\* Seeded fault: a return, too, stops unwinding at its loop.
NextContextInLoop(jump) ==
    LET k == LastOr0(Opened(where, Contexts))
    IN  IF k /= 0 /\ LoopDepth(SubSeq(where, 1, k)) = LoopDepth(where) THEN k ELSE 0

\* The region whose cleanup UnwindFinallies emits next, or 0.
NextContext(jump) ==
    LET k == LastOr0(Opened(where, Contexts))
    IN  IF k /= 0 /\ (jump = "return" \/ LoopDepth(SubSeq(where, 1, k)) = LoopDepth(where))
        THEN k ELSE 0

\* The shapes that a jump at this statement would have.
ShapesOf(jump) ==
    LET target == IF jump = "return" THEN 0 ELSE LastOr0(Opened(where, Loops))
        tries == {k \in Opened(where, {"try"}) : k > target}
        outer == {k \in Opened(where, HasCleanup) : \E i \in tries : k < i}
    IN  {s \in Shapes :
           \/ s = "leaves_try" /\ tries /= {} /\ (jump = "return" => outer /= {})
           \/ s = "loop_in_cleanup" /\ jump /= "return"
                /\ PendingReturns(SubSeq(where, 1, target)) > 0
           \/ s = "hidden_loop" /\ jump /= "return" /\ target /= Loop}

\* A jump begins; a return leaves its value on the stack.
Jump(jump) ==
    /\ Here
    /\ Len(where) < MaxDepth
    /\ jump /= "return" => Opened(where, Loops) /= {}
    /\ ShapesOf(jump) \subseteq Odd
    /\ Goto(Append(where, JumpRegion(jump, Len(where) + 1)))
    /\ stack' = IF jump = "return" THEN Append(stack, Value("result", 0)) ELSE stack
    /\ UNCHANGED <<blocks, current, owed>>

\* UnwindFinallies: EndHandler, ExitWith, or PopBlock and the finally body.
UnwindNext ==
    LET j == Last(where)
        k == NextContext(j.jump)
        r == [j EXCEPT !.at = k]
    IN  /\ k /= 0
        /\ \/ /\ where[k].kind \in {"handler", "cleanup"}
              /\ Goto(Become(where, r))
              /\ Set(WithoutHandler(blocks), stack, Restored(blocks))
              /\ UNCHANGED owed
           \/ /\ where[k].kind = "guard"
              /\ Goto(Become(where, [r EXCEPT !.kind = "leave"]))
              /\ Set(PopFrom(blocks), stack, current)
              /\ owed' = Paid(owed, where[k].id)
           \/ where[k].kind = "with" /\ ExitWith(Become(where, r))

\* Seeded fault: break leaves the iterator of its loop behind.
PoppedNoIterator(jump) == IF jump = "return" THEN 1 ELSE PendingReturns(where)

(***************************************************************************)
(* The cleanups are done.  A return pops its value; break and continue    *)
(* drop the values of the returns that the compiler takes them to         *)
(* abandon, and break drops the iterator of a for loop.                   *)
(***************************************************************************)
Popped(jump) ==
    CASE jump = "return" -> 1
      [] jump = "continue" -> PendingReturns(where)
      [] jump = "break" -> PendingReturns(where) + IF where[Loop].kind = "for" THEN 1 ELSE 0

Arrive ==
    LET j == Last(where) IN
    /\ NextContext(j.jump) = 0
    /\ UNCHANGED owed
    /\ CASE Len(stack) < Popped(j.jump) -> Finish("crashed", None)
         [] Len(stack) >= Popped(j.jump) /\ j.jump = "return" -> Finish("returned", None)
         [] OTHER ->
              /\ Goto(SubSeq(where, 1, IF j.jump = "break" THEN Loop - 1 ELSE Loop))
              /\ Set(blocks, SubSeq(stack, 1, Len(stack) - Popped(j.jump)), current)

LeaveNext ==
    /\ ended = Running /\ where /= <<>> /\ Last(where).kind = "jump"
    /\ UnwindNext \/ Arrive

RunOff == Here /\ where = <<>> /\ Finish("returned", None) /\ UNCHANGED owed

Next ==
    \/ \E kind \in Protected : Setup(kind)
    \/ \E kind \in Loops : EnterLoop(kind)
    \/ Raise
    \/ BodyEnds
    \/ MatchClauses
    \/ ExitOnException
    \/ \E jump \in JumpKinds : Jump(jump)
    \/ LeaveNext
    \/ RunOff

Spec == Init /\ [][Next]_vars

-------------------------------------------------------------------------------
(***************************************************************************)
(* Type invariant.                                                        *)
(***************************************************************************)
BlockSet == [kind : BlockKinds, home : Seq(Regions), depth : Nat, saved : Raisable \cup {None}]
TypeOK ==
    /\ where \in Seq(Regions)
    /\ owed \in Seq(Int)
    /\ ended \in [how : {"running", "returned", "raised", "crashed"}, exc : Raisable \cup {None}]
    /\ blocks \in Seq(BlockSet)
    /\ stack \in Seq([what : {"iterator", "exit", "result"}, id : Nat])
    /\ current \in Raisable \cup {None}

(***************************************************************************)
(* A finally body or a manager's exit begins exactly once, when its       *)
(* construct is left, whatever exceptions and jumps leave it: never       *)
(* skipped and never repeated (UnwindFinallies and Unwind together).      *)
(***************************************************************************)
OpenCleanups ==
    {where[k].id : k \in Opened(where, HasCleanup) \cup Opened(where, {"exiting"})}
CleanupsExact == \A id \in DOMAIN owed : owed[id] = IF id \in OpenCleanups THEN 1 ELSE 0

(***************************************************************************)
(* No finally body or exit runs a second time.                            *)
(***************************************************************************)
CleanupOnce == \A id \in DOMAIN owed : owed[id] >= 0

(***************************************************************************)
(* An exception can only continue in a construct that is still open: each *)
(* Except, Finally and With block belongs to an open region around the    *)
(* statement.  A return that has no cleanup left to run abandons them.    *)
(***************************************************************************)
Abandoned(w) ==
    /\ w /= <<>> /\ Last(w).kind = "jump" /\ Last(w).jump = "return"
    /\ Opened(w, HasCleanup) = {}
BlocksOpen ==
    ~Abandoned(where) => \A i \in DOMAIN blocks : blocks[i].kind /= "Handler" =>
        LET n == Len(blocks[i].home) IN
        \/ n <= Len(where) /\ blocks[i].home = SubSeq(where, 1, n) /\ Active(where, n)
        \/ n <= Len(where) /\ where[n] = [Last(blocks[i].home) EXCEPT !.kind = "exiting", !.exc = current]

(***************************************************************************)
(* The current exception is the one that the innermost running handler    *)
(* handles, and there is none outside handlers: a bare raise means what   *)
(* the source says (Unwind, EndHandler, ReRaise).                         *)
(***************************************************************************)
CurrentIsHandled ==
    LET h == LastOr0(Opened(where, Handling))
    IN  ~Abandoned(where) => current = IF h = 0 THEN None ELSE where[h].exc

(***************************************************************************)
(* The value stack holds, in the order of the nesting, the iterator of    *)
(* each for loop, the exit of each with that is open, and the value of    *)
(* each return under way: what the Pops that the compiler lays down rely  *)
(* on.  A region's value has the place that the region has among those    *)
(* that hold one.                                                         *)
(***************************************************************************)
Holding(w) ==
    {k \in DOMAIN w : \/ w[k].kind = "for"
                      \/ w[k].kind = "with" /\ Active(w, k)
                      \/ w[k].kind = "exiting"
                      \/ w[k].kind \in Leaving /\ w[k].jump = "return"}
ValueOf(r) ==
    CASE r.kind = "for" -> Value("iterator", r.id)
      [] r.kind \in {"with", "exiting"} -> Value("exit", r.id)
      [] OTHER -> Value("result", 0)
StackIsNested ==
    /\ Len(stack) = Cardinality(Holding(where))
    /\ \A k \in Holding(where) :
          stack[Cardinality({j \in Holding(where) : j <= k})] = ValueOf(where[k])

(***************************************************************************)
(* The machine never pops an empty value stack (a host exception).        *)
(***************************************************************************)
NoHostFault == ended.how /= "crashed"

(***************************************************************************)
(* The two stacks implement the language: every step of the frame is a    *)
(* step that the nesting of the constructs allows.                        *)
(***************************************************************************)
Control == INSTANCE PythonControl
ImplementsControl == Control!Spec
=============================================================================
