-------------------------- MODULE ShellInterpreter --------------------------
(***************************************************************************)
(* The interpreter of the bash emulation: how one ExecAsync call walks the *)
(* commands of a script, with everything that can cut a command short.     *)
(*                                                                         *)
(* The interpreter is a recursion over the syntax tree.  Its pending calls *)
(* are the frames of "stack", its shell states the ones of "shells" (the   *)
(* last belongs to the innermost fork), and "ctl" is what happens now: a   *)
(* node is entered, a result returns to the top frame, an exception passes *)
(* it.  A frame's finally blocks are in ShellsAfter and BudgetAfter, used  *)
(* on both ways out.                                                       *)
(*                                                                         *)
(* The script is any script: each node entered is chosen freely among the  *)
(* constructs that fit in the height of its parent, a fragment, a function *)
(* or a handler being a tree of its own.  Variables, words, output and     *)
(* standard input are left out; a status is 0 or 1.  Scopes stands for the *)
(* three lists a function call pushes on: variable scopes, CallStack and   *)
(* the caller's positional parameters.                                     *)
(***************************************************************************)
EXTENDS Integers, Sequences, FiniteSets, SequencesExt

CONSTANTS
  MaxCommands, MaxLoopIterations, MaxTotalLoopIterations,
  MaxFunctionDepth, MaxNestingDepth,   \* ExecutionLimits
  Constructs,   \* what the scripts are written with
  Signals,      \* what they set traps for
  Faults,       \* what goes wrong around them
  MaxScript,    \* bound: commands of one script or fragment
  MaxHeight,    \* bound: height of one command's tree
  MaxLevels,    \* bound: levels a break or continue asks for
  MaxCalls      \* bound: calls the host makes

ASSUME InterpreterAssumption ==
  /\ {MaxCommands, MaxLoopIterations, MaxTotalLoopIterations, MaxFunctionDepth,
      MaxNestingDepth, MaxHeight, MaxCalls} \subseteq Nat
  /\ MaxScript \in Nat \ {0} /\ MaxLevels \in Nat \ {0}
  /\ Constructs \subseteq {"seq", "and", "or", "pipe", "if", "while", "for", "subshell",
                           "func", "eval", "alias", "isolated", "subst", "test"}
  /\ Signals \subseteq {"EXIT", "ERR", "DEBUG"}
  /\ Faults \subseteq {"timedout", "cancelled", "syntax", "denied"}

VARIABLES
  stack,        \* the pending calls of the interpreter, innermost last
  shells,       \* the shell state of each fork, innermost last
  ctl,          \* what the interpreter does now
  budget,       \* ExecutionBudget of the call
  clock,        \* whether the call's deadline passed or its token was cancelled
  calls,        \* calls the host made
  outcome       \* what the last call gave the host

vars == <<stack, shells, ctl, budget, clock, calls, outcome>>

Lists == {"seq", "and", "or"}
Loops == {"while", "for"}
Runs  == {"call", "fragment", "subst", "isolated"}   \* frames of RunAsync, by caller
Forks == {"subst", "isolated", "subshell"}           \* frames with a shell of their own
Nests == {"fragment", "subst", "isolated"}           \* frames that hold a nesting scope

\* ExecResult, with ErrExitSuppressed as "tested" and ErrTrapHandled as "handled".
Transfer(kind, level, c) ==
  [code |-> c, flow |-> kind, level |-> level, tested |-> FALSE, handled |-> FALSE]
FromExitCode(c) == Transfer("none", 0, c)
Success == FromExitCode(0)

\* ShellState.  "expanding" is whether AliasesInProgress has the script's one alias.
FreshShell == [last |-> 0, inTrap |-> FALSE, traps |-> {}, errexit |-> FALSE, scopes |-> 1,
               expanding |-> FALSE]

Top == Last(stack)
Shell == Last(shells)

\* ShellState.Fork copies neither InTrap nor AliasesInProgress.
Fork == [Shell EXCEPT !.inTrap = FALSE, !.expanding = FALSE]

Frame(kind, phase, height, n) ==
  [kind |-> kind, phase |-> phase, height |-> height, n |-> n, res |-> Success,
   shell |-> Len(shells) + (IF kind \in Forks THEN 1 ELSE 0)]

Go(where, height, res, err) == ctl' = [at |-> where, height |-> height, res |-> res, err |-> err]
At(where)    == Go(where, 0, Success, "none")
Enter(h)     == Go("exec", h, Success, "none")
Done(res)    == Go("done", 0, res, "none")
Throw(err)   == Go("throw", 0, Success, err)

Push(f)      == stack' = Append(stack, f)
Become(f)    == stack' = [stack EXCEPT ![Len(stack)] = f]
PushOn(f, g) == stack' = Append([stack EXCEPT ![Len(stack)] = f], g)
SetLast(c)   == shells' = [shells EXCEPT ![Len(shells)].last = c]

\* Seeded faults for the definitions below: the scope of a function is popped by
\* the return path only; the status from before a handler is not put back; a
\* depth scope is released by the return path only; a ( ) releases one too.
ScopePoppedOnReturn(f) ==
  CASE f.kind \in Forks  -> Front(shells)
    [] f.kind = "func"   -> IF ctl.at = "throw" THEN shells ELSE [shells EXCEPT ![f.shell].scopes = @ - 1]
    [] f.kind = "trap"   -> [shells EXCEPT ![f.shell].inTrap = FALSE, ![f.shell].last = f.n]
    [] f.kind = "simple" -> [shells EXCEPT ![f.shell].expanding = @ /\ f.phase # "alias"]
    [] OTHER             -> shells
StatusNotRestored(f) ==
  CASE f.kind \in Forks  -> Front(shells)
    [] f.kind = "func"   -> [shells EXCEPT ![f.shell].scopes = @ - 1]
    [] f.kind = "trap"   -> [shells EXCEPT ![f.shell].inTrap = FALSE]
    [] f.kind = "simple" -> [shells EXCEPT ![f.shell].expanding = @ /\ f.phase # "alias"]
    [] OTHER             -> shells
DepthReleasedOnReturn(f) ==
  CASE f.kind \in Nests -> IF ctl.at = "throw" THEN budget ELSE [budget EXCEPT !.nesting = @ - 1]
    [] f.kind = "func"  -> [budget EXCEPT !.functions = @ - 1]
    [] OTHER            -> budget
DepthReleasedByForks(f) ==
  CASE f.kind \in Nests \cup Forks -> [budget EXCEPT !.nesting = @ - 1]
    [] f.kind = "func"  -> [budget EXCEPT !.functions = @ - 1]
    [] OTHER            -> budget

\* What leaving frame f puts back, on return and on exception alike.
ShellsAfter(f) ==
  CASE f.kind \in Forks  -> Front(shells)
    [] f.kind = "func"   -> [shells EXCEPT ![f.shell].scopes = @ - 1]
    [] f.kind = "trap"   -> [shells EXCEPT ![f.shell].inTrap = FALSE, ![f.shell].last = f.n]
    [] f.kind = "simple" -> [shells EXCEPT ![f.shell].expanding = @ /\ f.phase # "alias"]
    [] OTHER             -> shells

BudgetAfter(f) ==
  CASE f.kind \in Nests -> [budget EXCEPT !.nesting = @ - 1]
    [] f.kind = "func"  -> [budget EXCEPT !.functions = @ - 1]
    [] OTHER            -> budget

Leave == stack' = Front(stack) /\ shells' = ShellsAfter(Top) /\ budget' = BudgetAfter(Top)

\* The top frame returns res; what else it does to its shell is in shs.
ReturnWith(res, shs) == stack' = Front(stack) /\ shells' = shs /\ Done(res) /\ UNCHANGED budget
Return(res) == Leave /\ Done(res)

Returned(kinds, phase) ==
  ctl.at = "done" /\ stack # <<>> /\ Top.kind \in kinds /\ Top.phase = phase
Working(where, kinds) == ctl.at = where /\ stack # <<>> /\ Top.kind \in kinds
Entering(construct) == ctl.at = "exec" /\ clock = "running" /\ construct \in Constructs
Descending(construct) == Entering(construct) /\ ctl.height > 0
Quiet == UNCHANGED <<clock, calls, outcome>>

-----------------------------------------------------------------------------
\* ---- traps ----

\* Seeded fault: InTrap is not asked.
TrapSetAlways(signal) == signal \in Shell.traps

TrapSet(signal) == ~ Shell.inTrap /\ signal \in Shell.traps

\* RunTrapAsync up to its RunFragmentAsync, when $? is "status"; "waiting" is the
\* top frame meanwhile.
RunTrap(signal, status, waiting) ==
  /\ TrapSet(signal)
  /\ PushOn(waiting, Frame("trap", signal, 0, status))
  /\ shells' = [shells EXCEPT ![Len(shells)].inTrap = TRUE, ![Len(shells)].last = status]
  /\ At("enter") /\ UNCHANGED budget

\* ApplyErrTrapAsync marks the result even when a handler is already running.
ErrDue(res) == res.code # 0 /\ ~ res.tested /\ ~ res.handled /\ "ERR" \in Shell.traps
Marked(res) == [res EXCEPT !.handled = @ \/ ErrDue(res)]
RunErrTrap(res) == ErrDue(res) /\ RunTrap("ERR", Shell.last, [Top EXCEPT !.phase = "err", !.res = Marked(res)])
NoErrTrap(res) == ~ (ErrDue(res) /\ TrapSet("ERR"))

TrapDone ==
  /\ Returned({"trap"}, Top.phase)
  /\ Return([ctl.res EXCEPT !.flow = "none", !.level = 0]) /\ Quiet

-----------------------------------------------------------------------------
\* ---- the host's call, and the run of a script or a fragment ----

BeginCall ==
  /\ ctl.at = "idle" /\ calls < MaxCalls
  /\ calls' = calls + 1 /\ clock' = "running"
  /\ budget' = [commands |-> 0, loops |-> 0, functions |-> 0, nesting |-> 0]
  /\ \E n \in 1..MaxScript : Push(Frame("call", "command", 0, n))
  /\ At("next") /\ UNCHANGED <<shells, outcome>>

\* A script that does not parse is reported, and nothing of it runs.
RejectScript ==
  /\ ctl.at = "idle" /\ calls < MaxCalls /\ "syntax" \in Faults
  /\ calls' = calls + 1 /\ outcome' = [how |-> "error", code |-> 1]
  /\ UNCHANGED <<stack, shells, ctl, budget, clock>>

NextCommand ==
  /\ Working("next", Runs) /\ Top.n > 0
  /\ \/ clock = "cancelled" /\ Throw("escape") /\ UNCHANGED stack
     \/ clock # "cancelled" /\ Become([Top EXCEPT !.n = @ - 1]) /\ Enter(MaxHeight)
  /\ Quiet /\ UNCHANGED <<shells, budget>>

\* The rest of the loop body: record the status, then decide whether to go on.
AfterCommand(res) ==
  LET exits == res.flow = "exit"
      stops == exits \/ (Shell.errexit /\ res.code # 0 /\ ~ res.tested)
      code  == IF exits THEN res.level ELSE res.code
  IN  /\ SetLast(res.code)
      /\ Become([Top EXCEPT !.phase = "command", !.n = IF stops THEN 0 ELSE @,
                            !.res = FromExitCode(code)])
      /\ At("next") /\ UNCHANGED budget

CommandDone ==
  /\ Returned(Runs, "command")
  /\ RunErrTrap(ctl.res) \/ (NoErrTrap(ctl.res) /\ AfterCommand(Marked(ctl.res)))
  /\ Quiet

CommandErrDone == Returned(Runs, "err") /\ AfterCommand(Top.res) /\ Quiet

FinishFragment ==
  Working("next", {"fragment", "isolated"}) /\ Top.n = 0 /\ Return(Top.res) /\ Quiet

\* A call and a substitution run the EXIT trap once their script is over; ExecAsync
\* first makes the script's status the shell's.
FinishShell ==
  LET status  == IF Top.kind = "call" THEN Top.res.code ELSE Shell.last
      waiting == [Top EXCEPT !.phase = "atexit"]
  IN
  /\ Working("next", {"call", "subst"}) /\ Top.n = 0 /\ Quiet
  /\ IF TrapSet("EXIT") THEN RunTrap("EXIT", status, waiting)
     ELSE SetLast(status) /\ Become(waiting) /\ Done(Success) /\ UNCHANGED budget

SubstitutionDone == Returned({"subst"}, "atexit") /\ Return(Top.res) /\ Quiet

CallDone ==
  /\ Returned({"call"}, "atexit")
  /\ outcome' = [how |-> "result", code |-> Top.res.code]
  /\ Leave /\ At("idle") /\ UNCHANGED <<clock, calls>>

\* RunFragmentAsync: trap handlers, eval, source and aliases.
EnterFragment ==
  /\ ctl.at = "enter"
  /\ \/ budget.nesting >= MaxNestingDepth /\ Throw("limit") /\ UNCHANGED <<stack, budget>>
     \/ /\ budget.nesting < MaxNestingDepth /\ "syntax" \in Faults
        /\ Throw("escape") /\ UNCHANGED <<stack, budget>>
     \/ /\ budget.nesting < MaxNestingDepth
        /\ budget' = [budget EXCEPT !.nesting = @ + 1]
        /\ \E n \in 1..MaxScript : Push(Frame("fragment", "command", 0, n))
        /\ At("next")
  /\ Quiet /\ UNCHANGED shells

-----------------------------------------------------------------------------
\* ---- compound commands ----

\* Budget.ThrowIfExpired at the head of ExecuteAsync.
NodeExpired ==
  /\ ctl.at = "exec" /\ clock # "running"
  /\ Throw("expired") /\ Quiet /\ UNCHANGED <<stack, shells, budget>>

Open(kind, phase, n) ==
  /\ Descending(kind)
  /\ Push(Frame(kind, phase, ctl.height - 1, n)) /\ Enter(ctl.height - 1)
  /\ Quiet /\ UNCHANGED budget

OpenList == (\E op \in Lists : Open(op, "left", 0)) /\ UNCHANGED shells

\* ExecuteListAsync once the left operand is known.
AfterLeft(res) ==
  LET op == Top.kind IN
  /\ SetLast(res.code) /\ UNCHANGED budget
  /\ IF \/ res.flow # "none"
        \/ op = "seq" /\ Shell.errexit /\ res.code # 0 /\ ~ res.tested
     THEN stack' = Front(stack) /\ Done(res)
     ELSE IF op = "seq" \/ (op = "and") = (res.code = 0)
     THEN Become([Top EXCEPT !.phase = "right", !.res = Success]) /\ Enter(Top.height)
     ELSE stack' = Front(stack) /\ Done([res EXCEPT !.tested = TRUE])

LeftDone ==
  /\ Returned(Lists, "left")
  /\ IF Top.kind = "seq"
     THEN RunErrTrap(ctl.res) \/ (NoErrTrap(ctl.res) /\ AfterLeft(Marked(ctl.res)))
     ELSE AfterLeft(ctl.res)
  /\ Quiet

LeftErrDone == Returned(Lists, "err") /\ AfterLeft(Top.res) /\ Quiet

RightDone ==
  /\ Returned(Lists, "right")
  /\ ReturnWith(ctl.res, [shells EXCEPT ![Len(shells)].last = ctl.res.code]) /\ Quiet

OpenPipeline == (\E n \in 1..2 : Open("pipe", "stage", n)) /\ UNCHANGED shells

\* The frame's own code is the last non-zero status so far, for pipefail.
StageDone ==
  LET failed == IF ctl.res.code # 0 THEN ctl.res.code ELSE Top.res.code IN
  /\ Returned({"pipe"}, "stage") /\ Quiet
  /\ IF Top.n = 1 \/ ctl.res.flow # "none"
     THEN \E pipefail, negated \in BOOLEAN :
            LET code == IF pipefail THEN failed ELSE ctl.res.code
            IN  ReturnWith([ctl.res EXCEPT !.code = IF negated THEN 1 - code ELSE code,
                                           !.tested = negated], shells)
     ELSE /\ UNCHANGED <<shells, budget>>
          /\ Become([Top EXCEPT !.n = @ - 1, !.res = FromExitCode(failed)])
          /\ IF clock = "cancelled" THEN Throw("escape") ELSE Enter(Top.height)

OpenIf == Open("if", "condition", 0) /\ UNCHANGED shells

ConditionDone ==
  /\ Returned({"if"}, "condition") /\ Quiet /\ UNCHANGED budget
  /\ SetLast(ctl.res.code)
  /\ \/ ctl.res.flow # "none" /\ stack' = Front(stack) /\ Done(ctl.res)
     \/ ctl.res.flow = "none" /\ Become([Top EXCEPT !.phase = "branch"]) /\ Enter(Top.height)
     \/ ctl.res.flow = "none" /\ ctl.res.code # 0 /\ stack' = Front(stack) /\ Done(Success)

BranchDone == Returned({"if"}, "branch") /\ Return(ctl.res) /\ Quiet

\* The items of a for are expanded outside any simple command.
OpenLoop ==
  \E kind \in Loops :
    /\ Descending(kind) /\ Quiet /\ UNCHANGED <<shells, budget>>
    /\ \/ Push(Frame(kind, "head", ctl.height - 1, 0)) /\ At("iterate")
       \/ kind = "for" /\ "denied" \in Faults /\ Throw("denied") /\ UNCHANGED stack

\* BuildLoopResult keeps the status and the transfer, nothing else of the body.
LoopResult(f, flow, level) == Transfer(flow, level, f.res.code)

ChargeLoop == [budget EXCEPT !.loops = IF Top.n >= MaxLoopIterations THEN @ ELSE @ + 1]

\* Seeded fault: a pass of a loop is not charged.
IterateUncharged ==
  /\ Working("iterate", Loops) /\ Quiet /\ UNCHANGED <<shells, budget>>
  /\ IF clock # "running" THEN Throw("expired") /\ UNCHANGED stack
     ELSE /\ Become([Top EXCEPT !.phase = IF Top.kind = "for" THEN "body" ELSE "condition"])
          /\ Enter(Top.height)

Iterate ==
  /\ Working("iterate", Loops) /\ Quiet /\ UNCHANGED shells
  /\ IF clock # "running" THEN Throw("expired") /\ UNCHANGED <<stack, budget>>
     ELSE /\ budget' = ChargeLoop
          /\ IF Top.n >= MaxLoopIterations \/ budget.loops >= MaxTotalLoopIterations
             THEN Throw("limit") /\ UNCHANGED stack
             ELSE /\ Become([Top EXCEPT !.n = @ + 1,
                                 !.phase = IF Top.kind = "for" THEN "body" ELSE "condition"])
                  /\ Enter(Top.height)

ItemsExhausted ==
  /\ Working("iterate", {"for"})
  /\ Return(LoopResult(Top, "none", 0)) /\ Quiet

\* The transfer a condition asks for is not looked at.
LoopConditionDone ==
  /\ Returned({"while"}, "condition") /\ Quiet /\ UNCHANGED budget
  /\ SetLast(ctl.res.code)
  /\ IF ctl.res.code = 0
     THEN Become([Top EXCEPT !.phase = "body"]) /\ Enter(Top.height)
     ELSE stack' = Front(stack) /\ Done(LoopResult(Top, "none", 0))

\* HandleLoopControlFlow, with ControlFlow.Unwind for break and continue.
LoopBodyDone ==
  LET res  == ctl.res
      f    == [Top EXCEPT !.phase = "head", !.res = FromExitCode(res.code)]
      here == res.flow \in {"break", "continue"} /\ res.level <= 1
  IN
  /\ Returned(Loops, "body") /\ Quiet /\ UNCHANGED budget
  /\ SetLast(res.code)
  /\ IF res.flow = "none" \/ (here /\ res.flow = "continue") THEN Become(f) /\ At("iterate")
     ELSE /\ stack' = Front(stack)
          /\ Done(IF here THEN LoopResult(f, "none", 0)
                  ELSE LoopResult(f, res.flow, IF res.flow \in {"break", "continue"}
                                               THEN res.level - 1 ELSE res.level))

OpenSubshell == Open("subshell", "body", 0) /\ shells' = Append(shells, Fork)

SubshellBodyDone ==
  LET waiting == [Top EXCEPT !.phase = "atexit", !.res = ctl.res] IN
  /\ Returned({"subshell"}, "body") /\ Quiet
  /\ IF TrapSet("EXIT") THEN RunTrap("EXIT", Shell.last, waiting)
     ELSE Become(waiting) /\ Done(Success) /\ UNCHANGED <<shells, budget>>

SubshellDone ==
  LET res   == Top.res
      outer == ShellsAfter(Top)
  IN
  /\ Returned({"subshell"}, "atexit") /\ Quiet
  /\ ReturnWith([res EXCEPT !.flow = "none", !.level = 0,
                            !.code = IF res.flow = "exit" THEN res.level ELSE @],
                [outer EXCEPT ![Len(outer)].last = res.code])

\* (( )), [[ ]] and bare assignments: a status, and no command is charged.  An
\* assignment to a read-only name ends the shell.
Test ==
  /\ Entering("test")
  /\ \/ \E c \in 0..1 : Done(FromExitCode(c))
     \/ "denied" \in Faults /\ Done(Transfer("exit", 1, 1))
  /\ Quiet /\ UNCHANGED <<stack, shells, budget>>

-----------------------------------------------------------------------------
\* ---- simple commands ----

ExecuteSimple ==
  /\ ctl.at = "exec" /\ clock = "running"
  /\ budget' = [budget EXCEPT !.commands = @ + 1]
  /\ IF budget.commands >= MaxCommands THEN Throw("limit") /\ UNCHANGED stack
     ELSE Push(Frame("simple", "words", 0, 0)) /\ At("expand")
  /\ Quiet /\ UNCHANGED shells

Expanding(phases) == Working("expand", {"simple"}) /\ Top.phase \in phases

\* RunSubstitutionAsync, at most one for a command.
Substitute ==
  /\ Expanding({"words"}) /\ "subst" \in Constructs
  /\ Quiet
  /\ \/ clock # "running" /\ Throw("expired") /\ UNCHANGED <<stack, shells, budget>>
     \/ /\ clock = "running" /\ budget.nesting >= MaxNestingDepth
        /\ Throw("limit") /\ UNCHANGED <<stack, shells, budget>>
     \/ /\ clock = "running" /\ budget.nesting < MaxNestingDepth /\ "syntax" \in Faults
        /\ Throw("escape") /\ UNCHANGED <<stack, shells, budget>>
     \/ /\ clock = "running" /\ budget.nesting < MaxNestingDepth
        /\ budget' = [budget EXCEPT !.nesting = @ + 1]
        /\ \E n \in 1..MaxScript :
             PushOn([Top EXCEPT !.phase = "expanded"], Frame("subst", "command", 0, n))
        /\ shells' = Append(shells, Fork) /\ At("next")

Substituted ==
  /\ Returned({"simple"}, "expanded")
  /\ Become([Top EXCEPT !.res = FromExitCode(ctl.res.code)]) /\ At("expand")
  /\ Quiet /\ UNCHANGED <<shells, budget>>

\* ${x:?}, or an unset name under set -u.
ExpansionFails ==
  /\ Expanding({"words", "expanded"}) /\ "denied" \in Faults
  /\ Throw("denied") /\ Quiet /\ UNCHANGED <<stack, shells, budget>>

ExpandsToNothing ==
  /\ Expanding({"expanded"})
  /\ Return(Top.res) /\ Quiet

Expanded ==
  /\ Expanding({"words", "expanded"})
  /\ IF TrapSet("DEBUG") THEN RunTrap("DEBUG", Shell.last, [Top EXCEPT !.phase = "debug"])
     ELSE Become([Top EXCEPT !.phase = "dispatch"]) /\ At("dispatch") /\ UNCHANGED <<shells, budget>>
  /\ Quiet

DebugDone ==
  /\ Returned({"simple"}, "debug")
  /\ Become([Top EXCEPT !.phase = "dispatch"]) /\ At("dispatch")
  /\ Quiet /\ UNCHANGED <<shells, budget>>

Dispatch == Working("dispatch", {"simple"}) /\ Top.phase = "dispatch"
Dispatching(construct) == Dispatch /\ construct \in Constructs

Builtin == Dispatch /\ (\E c \in 0..1 : Return(FromExitCode(c))) /\ Quiet

ExitOrReturn ==
  /\ Dispatch /\ Quiet
  /\ \E kind \in {"exit", "return"}, c \in 0..1 : Return(Transfer(kind, c, c))

BreakOrContinue ==
  /\ Dispatch /\ Quiet /\ Constructs \cap Loops # {}
  /\ \E kind \in {"break", "continue"}, level \in 1..MaxLevels : Return(Transfer(kind, level, 0))

SetErrExit ==
  /\ Dispatch /\ Quiet
  /\ ReturnWith(Success, [shells EXCEPT ![Len(shells)].errexit = ~ @])

Trap ==
  /\ Dispatch /\ Quiet
  /\ \E s \in Signals, ts \in {Shell.traps} :
       ReturnWith(Success, [shells EXCEPT ![Len(shells)].traps = IF s \in ts THEN ts \ {s} ELSE ts \cup {s}])

Eval == Dispatching("eval") /\ At("enter") /\ Quiet /\ UNCHANGED <<stack, shells, budget>>

\* An alias is not expanded inside its own expansion.
ExpandAlias ==
  /\ Dispatching("alias") /\ ~ Shell.expanding
  /\ Become([Top EXCEPT !.phase = "alias"])
  /\ shells' = [shells EXCEPT ![Len(shells)].expanding = TRUE]
  /\ At("enter") /\ Quiet /\ UNCHANGED budget

CallFunction ==
  /\ Dispatching("func") /\ Quiet
  /\ IF budget.functions >= MaxFunctionDepth
     THEN Throw("limit") /\ UNCHANGED <<stack, shells, budget>>
     ELSE /\ budget' = [budget EXCEPT !.functions = @ + 1]
          /\ shells' = [shells EXCEPT ![Len(shells)].scopes = @ + 1]
          /\ Push(Frame("func", "body", 0, 0)) /\ Enter(MaxHeight)

FunctionDone ==
  LET res == ctl.res IN
  /\ Returned({"func"}, "body") /\ Quiet
  /\ Return(IF res.flow = "return" THEN [res EXCEPT !.flow = "none", !.level = 0, !.code = res.level]
            ELSE res)

\* RunIsolatedAsync: bash -c and script files.  A syntax error is a usage error.
RunIsolated ==
  /\ Dispatching("isolated") /\ Quiet
  /\ \/ budget.nesting >= MaxNestingDepth /\ Throw("limit") /\ UNCHANGED <<stack, shells, budget>>
     \/ /\ budget.nesting < MaxNestingDepth
        /\ budget' = [budget EXCEPT !.nesting = @ + 1]
        /\ \E n \in 1..MaxScript : Push(Frame("isolated", "command", 0, n))
        /\ shells' = Append(shells, FreshShell) /\ At("next")

SimpleDone ==
  (\E phase \in {"dispatch", "alias"} : Returned({"simple"}, phase)) /\ Return(ctl.res) /\ Quiet

-----------------------------------------------------------------------------
\* ---- exceptions ----

\* ExecuteSimpleAsync catches what its expansion raised, and ends the shell;
\* ExecuteSimpleCoreAsync what its dispatch raised, and fails the command.
Catch ==
  /\ Working("throw", {"simple"}) /\ ctl.err = "denied" /\ Quiet
  /\ Return(IF Top.phase = "dispatch" THEN FromExitCode(1) ELSE Transfer("exit", 1, 1))

Unwind ==
  /\ ctl.at = "throw" /\ stack # <<>> /\ Top.kind # "call"
  /\ ~ (Top.kind = "simple" /\ ctl.err = "denied")
  /\ Leave /\ UNCHANGED ctl /\ Quiet

\* ExecAsync turns limits and expiry into a result; the rest reaches the host.
CallFails ==
  /\ Working("throw", {"call"})
  /\ outcome' = [how |-> IF ctl.err \in {"limit", "expired"} THEN "error" ELSE "exception", code |-> 1]
  /\ Leave /\ At("idle") /\ UNCHANGED <<clock, calls>>

\* The deadline passes, or the host cancels its token.
Interrupt ==
  /\ ctl.at # "idle" /\ clock = "running"
  /\ clock' \in Faults \cap {"timedout", "cancelled"}
  /\ UNCHANGED <<stack, shells, ctl, budget, calls, outcome>>

-----------------------------------------------------------------------------
Init ==
  /\ stack = <<>> /\ shells = <<FreshShell>>
  /\ ctl = [at |-> "idle", height |-> 0, res |-> Success, err |-> "none"]
  /\ budget = [commands |-> 0, loops |-> 0, functions |-> 0, nesting |-> 0]
  /\ clock = "running" /\ calls = 0 /\ outcome = [how |-> "none", code |-> 0]

Step ==
  \/ NextCommand \/ CommandDone \/ CommandErrDone \/ FinishFragment \/ FinishShell
  \/ SubstitutionDone \/ CallDone \/ EnterFragment \/ TrapDone
  \/ NodeExpired \/ OpenList \/ LeftDone \/ LeftErrDone \/ RightDone
  \/ OpenPipeline \/ StageDone \/ OpenIf \/ ConditionDone \/ BranchDone
  \/ OpenLoop \/ Iterate \/ ItemsExhausted \/ LoopConditionDone \/ LoopBodyDone
  \/ OpenSubshell \/ SubshellBodyDone \/ SubshellDone \/ Test
  \/ ExecuteSimple \/ Substitute \/ Substituted \/ ExpansionFails \/ ExpandsToNothing
  \/ Expanded \/ DebugDone \/ Builtin \/ ExitOrReturn \/ BreakOrContinue
  \/ SetErrExit \/ Trap \/ Eval \/ ExpandAlias \/ CallFunction \/ FunctionDone
  \/ RunIsolated \/ SimpleDone \/ Catch \/ Unwind \/ CallFails

Next == BeginCall \/ RejectScript \/ Step \/ Interrupt

Spec == Init /\ [][Next]_vars /\ WF_vars(Step)

-----------------------------------------------------------------------------
\* ---- properties ----

FramesOf(kinds) == {i \in DOMAIN stack : stack[i].kind \in kinds}

\* Every frame, shell state and result has the shape the interpreter expects.
Result ==
  {r \in [code : 0..1, flow : {"none", "break", "continue", "return", "exit"}, level : Nat,
          tested : BOOLEAN, handled : BOOLEAN] :
     r.flow \in {"return", "exit"} => r.level \in 0..1}
FrameType ==
  {f \in [kind : Runs \cup Forks \cup Lists \cup Loops \cup {"trap", "pipe", "if", "func", "simple"},
          phase : {"command", "err", "atexit", "left", "right", "stage", "condition", "branch",
                   "head", "body", "words", "expanded", "debug", "dispatch", "alias",
                   "EXIT", "ERR", "DEBUG"},
          height : Nat, n : Nat, res : Result, shell : Nat \ {0}] :
     /\ f.kind = "trap" => f.n \in 0..1
     /\ f.kind = "pipe" => f.n \in 1..2}
ShellType == [last : 0..1, inTrap : BOOLEAN, traps : SUBSET Signals, errexit : BOOLEAN,
              scopes : Int, expanding : BOOLEAN]
CtlType == [at : {"idle", "next", "enter", "exec", "expand", "dispatch", "iterate", "done", "throw"},
            height : Nat, res : Result,
            err : {"none", "limit", "expired", "denied", "escape"}]
TypeOK ==
  /\ stack \in Seq(FrameType) /\ shells \in Seq(ShellType) /\ ctl \in CtlType
  /\ budget \in [commands : Nat, loops : Nat, functions : Nat, nesting : Nat]
  /\ clock \in {"running", "timedout", "cancelled"} /\ calls \in Nat
  /\ outcome \in [how : {"none", "result", "error", "exception"}, code : 0..1]

\* The two depth counters of the budget count the frames that are really open,
\* whichever way frames were left, and never exceed their limits.
DepthsBalanced ==
  /\ budget.functions = Cardinality(FramesOf({"func"})) /\ budget.functions <= MaxFunctionDepth
  /\ budget.nesting = Cardinality(FramesOf(Nests)) /\ budget.nesting <= MaxNestingDepth

\* There is one shell state for each open fork, and every shell has the scopes
\* it was born with and one for each function it is in, so an aborted call
\* leaves the host's shell as deep as it found it.
FunctionsIn(s) == Cardinality({i \in FramesOf({"func"}) : stack[i].shell = s})
BornWith(f) == IF f.kind = "isolated" THEN 1 ELSE shells[f.shell - 1].scopes
ScopesBalanced ==
  /\ Len(shells) = 1 + Cardinality(FramesOf(Forks))
  /\ shells[1].scopes = 1 + FunctionsIn(1)
  /\ \A i \in FramesOf(Forks) :
       shells[stack[i].shell].scopes = BornWith(stack[i]) + FunctionsIn(stack[i].shell)

\* A shell runs at most one trap handler at a time and expands an alias at most
\* once at a time, and its flags say whether it does, so no call leaves the host's
\* shell with its traps or its aliases dead.
FlagsHonest ==
  \A s \in DOMAIN shells :
    LET handlers   == {i \in FramesOf({"trap"}) : stack[i].shell = s}
        expansions == {i \in FramesOf({"simple"}) : stack[i].shell = s /\ stack[i].phase = "alias"}
    IN  /\ Cardinality(handlers) = (IF shells[s].inTrap THEN 1 ELSE 0)
        /\ Cardinality(expansions) = (IF shells[s].expanding THEN 1 ELSE 0)

\* The status a finished call reports is the one its shell keeps as $?, whatever
\* the EXIT handler ran.
StatusReported == ctl.at = "idle" /\ outcome.how = "result" => outcome.code = shells[1].last

\* Whatever the script, its limits end every call.
CallsReturn == ctl.at # "idle" ~> ctl.at = "idle"

\* ShellState.cs: without InTrap a handler "would otherwise re-enter itself until
\* the nesting limit stopped it".  So no handler is entered inside itself.
HandlerNotReentered ==
  \A i, j \in FramesOf({"trap"}) : stack[i].phase = stack[j].phase => i = j
=============================================================================
