# Computerwelt: a verification development

Computerwelt is a sandbox for .NET: a bash-like shell and a Python interpreter written in
C#, over one virtual file system, with limits on everything a script may consume and, as an
option, browsers that the host lends to the scripts. This directory holds TLA+ models of
the parts whose behaviour is hardest to test, the TLC configurations that check them, and
proofs that TLAPS checks.

File names below are relative to `src/src/`; `Bash/` stands for
`Computerwelt.Emulation.Bash/`, `Python/` for `Computerwelt.Emulation.Python/` and
`Playwright/` for `Computerwelt.Playwright/`.

To check a model: `tlc -config ShForks.cfg MCShellInterpreter.tla`. To check the proofs of
a component: `tlapm ShellInterpreter_proofs.tla`.

## 1. Inventory

| Part | State | Operations | Interacts with |
|---|---|---|---|
| `Bash.ExecAsync` (`Bash/Bash.cs`) | the shell state, kept across calls | parse, run, EXIT trap, turn limits and expiry into a result | parser, interpreter, budget |
| Interpreter (`Bash/Interpreter/Interpreter.cs`) | its own C# call stack; non-local transfers travel in results, limits as exceptions | one method per node of the syntax tree; `( )`, `$( )` and child shells run on a state of their own | shell state, budget, builtins |
| Shell state (`Bash/Interpreter/ShellState.cs`) | scopes, call stack, options, traps, functions, `$?`, the flags InTrap and AliasesInProgress | lookups through dynamic scopes, fork | interpreter and every builtin |
| Budget (`Bash/Limits/ExecutionBudget.cs`) | counters of commands and iterations, two depths, a deadline, a cancellation token | charge, enter, leave, check | interpreter, parser, builtins |
| File system (`Bash/FileSystems/InMemoryFileSystem.cs`) | a tree of nodes; byte, file and directory counters kept beside it | `IFileSystem`, each under one lock | redirections, builtins, Python's `open` |
| Redirections and input streams (`Bash/Interpreter/Redirection.cs`, `Bash/Core/InputStream.cs`) | the targets of one command; a read position shared by the commands of a loop | prepare in order, apply in order; read a line | file system, interpreter |
| Lexer, parser, expander, patterns, arithmetic | none between calls | functions on text | interpreter |
| Builtins, awk, jq, yq | none between calls (their own programs' state during one) | one method per command | shell state, file system |
| Python compiler and virtual machine (`Python/Compilation`, `Python/Runtime`) | frames with a value stack and a block stack, generators, instruction count, call depth | bytecode; unwinding to handlers; resuming generators | modules, host functions |
| Python asyncio (`Python/Modules/AsyncioModule.cs`) | coroutines awaited or not, futures settled or not | await, gather, run | virtual machine |
| Python runner and libraries (`Python/PythonRunner.cs`, `Python/Extensibility`) | modules of the run, completions to run at its end | import, run, complete | host |
| File bridge (`Computerwelt/ShellFileSystem.cs`, `PythonBuiltin.cs`) | none of its own | Python's file calls, translated to `IFileSystem` | file system |
| Playwright session (`Playwright/PlaywrightSession.cs`) | browsers by name behind a gate, counted contexts, a disposed flag | get browser, new context, release, dispose | the driver (external), scripts on many threads |
| Playwright bridge (`Playwright/Interop/Bridge.cs`) | the contexts of one run | block on a call, release all at the end of the run | session, Python run completions |
| CLI, builder, command table | configuration | none while scripts run | |

`.reference/` holds the Rust originals and is not part of the implementation.

### What is hard, and what makes each part correct

* **Interpreter, shell state, budget.** One thread, but a deep recursion in which anything
  may cut a command short: a limit, the deadline, cancellation, a failing expansion, a
  syntax error of a fragment, or a transfer (`exit`, `return`, `break 2`). The shell state
  outlives the call. It is correct when every way out puts back what entering took (scopes,
  depths, the fork, the trap and alias flags), when what the call reports is what the
  shell remembers, and when every script ends.
* **File system.** One lock makes every operation atomic, so the difficulty is in long
  sequences of legal calls: renames and links, quotas at their edge, operations that fail in
  the middle. It is correct when the graph stays a tree below the root, the counters say
  what the tree holds, the caps hold of the tree, and failures change nothing.
* **Playwright session.** Real concurrency: scripts on their own threads, events of the
  driver, browsers that die, a host that cancels runs or disposes the session between any
  two awaits. It is correct when browsers are shared and none is lost, when the slots of
  contexts always come back, when a run leaves nothing open and no call waits for ever.
* **Python virtual machine, one frame.** The compiler copies `finally` bodies and exits of
  managers into every jump, by what it knows of the nesting; the machine finds handlers by
  a block stack that these copies must pop in step. It is correct when every cleanup runs
  once and every exception continues where the source says.
* **Python calls.** Calls, generators, coroutines, futures and imports nest on the host's
  stack and are cut through by exceptions and limits. They are correct when counters and
  caches are given back on every way out, when work runs once and everyone who waits for it
  hears the same, and when a run ends with its completions called.
* **Input streams.** There are no descriptors: the interpreter keeps a stream with a
  position, passes text along beside it, and puts the stream back when a construct ends. It
  is correct when commands read as they would from descriptors.
* **Python files.** An open file is a path and a position; every operation reads or appends
  to a whole file, in one or two calls, while other programs do the same. It is correct when
  no line is lost, doubled or moved.
* **Redirections of the output.** Files are truncated before the command runs and written
  after it, in the order of the list.

## 2. Modules

| Module | Models | Configurations |
|---|---|---|
| `ShellInterpreter` | `ExecAsync`, the interpreter, the state and budget it works on | `MCShellInterpreter` with `ShForks`, `ShFlow`, (`ShReentry`) |
| `ShellInput`, implements `FileDescriptor` | who reads which input: streams, text parameters, `exec <` | `MCShellInput` with `ShInput` |
| `InMemoryFileSystem`, implements `PathTree` | every operation of the file system that changes it | `MCInMemoryFileSystem` with `FsTree`, `FsDetach`, (`FsHops`, `FsQuota`) |
| `PythonFrame`, implements `PythonControl`; both extend `PythonRegions` | the block stack and value stack of a frame, with the code the compiler lays down for jumps | `MCPythonFrame` with `PyFrame`, `PyLeavesTry`, (`PySwallows`) |
| `PythonCalls` | which bodies run inside which during a run: calls, generators, coroutines, futures, imports, completions | `MCPythonCalls` with `PyCalls` |
| `PythonFile`, implements `OpenFiles` | Python's open files over the shell's file system | `MCPythonFile` with `PyFile` |
| `PlaywrightSession` | session, bridges, scripts, driver, host | `MCPlaywrightSession` with `PwSafety`, `PwLive`, `PwOutlive`, (`PwOpen`, `PwWaiter`) |
| `ShellInterpreter_proofs`, `ShellInput_proofs`, `InMemoryFileSystem_proofs`, `PythonFrame_proofs`, `PythonCalls_proofs`, `PythonFile_proofs`, `PlaywrightSession_proofs` | theorems about all of them (section 5) | checked by TLAPS |
| `FiniteSums` | lemmas about induction and sums over finite sets that the proofs share | checked by TLAPS |

Configurations in parentheses are counterexamples kept for reference: each finds the
property that it names violated (section 3).

The modules share no variable. Where two components meet, one is present in the other's
model by what it may do: the file system as calls that take effect at once or are refused
(`PythonFile`), the script as any program (`PlaywrightSession`, `PythonCalls`), the
constructs of the shell as frames that are entered and left at any moment (`ShellInput`),
the handlers of a body as a choice to catch or to pass on (`PythonCalls`).

### ShellInterpreter

The interpreter is a recursion over the syntax tree; the model makes its call stack a
variable. `stack` holds one frame for each pending method that has something left to do,
`shells` one `ShellState` for each open fork, and `ctl` says what is happening: a node is
entered (`exec`), a command list looks at its next command (`next`), a result returns to the
top frame (`done`), an exception passes it (`throw`), and so on. Each action is what one
method does from one await to the next.

| Code | Model |
|---|---|
| `RunAsync`, one for each caller | frames `call`, `fragment`, `subst`, `isolated`; `NextCommand`, `CommandDone`, `CommandErrDone`, `AfterCommand` |
| `ExecAsync` | `BeginCall`, `RejectScript`, `FinishShell`, `CallDone`, `CallFails` |
| `RunTrapAsync`, `ApplyErrTrapAsync` | `RunTrap`, `TrapDone`, `RunErrTrap`, `Marked`; a frame waits in phase `err`, `debug` or `atexit` meanwhile |
| lists, pipelines, if, while, for, `( )` | a frame each, with one action per await |
| simple commands | frame `simple` with phases `words`, `expanded`, `debug`, `dispatch`, `alias` |
| functions, eval, source, `$( )`, `bash -c` | `CallFunction`, `EnterFragment`, `Substitute`, `RunIsolated` |
| the `finally` blocks and `using` scopes | `ShellsAfter` and `BudgetAfter`, applied by both `Return` and `Unwind` |
| `catch` clauses | `Catch` (simple commands), `CallFails` (the call) |
| `ExecResult` | a record with the status, the transfer and its level, and the marks ErrExitSuppressed (`tested`) and ErrTrapHandled (`handled`) |

The script is not a parameter: every node is chosen freely among the constructs that the
configuration allows, so a run covers all scripts up to its bounds. A fragment, a function
body or a handler is a tree of its own, chosen when it is entered. `while` and `if` see a
free condition, so `until` and `elif` need nothing more.

Abstracted: variables, words, output and input; a status is 0 or 1; a redirection that fails
is a builtin that fails; `select`, `case`, the arithmetic `for` and `coproc` have the shape
of the loops and lists that are there; there is one alias name, at most one substitution in
a command, and `pipefail` and `!` are chosen for each pipeline. Left out: temporary
assignments, background jobs, `trap ''`, and the limits on parser fuel and work units.

### InMemoryFileSystem

A node is an identity with a kind, children by name, a size or a link target. A path is a
normalised sequence of names. `totalBytes`, `fileCount` and `directoryCount` are the
counters that `GetUsage` reports. Each operation of `IFileSystem` that changes something is
one action (the code takes one lock for all of it), with its errors in the order of the
code. Modes, time stamps and contents are left out; sizes are kept. `aliasedMoves` is a
history variable: it counts the renames of an entry onto itself and of a directory into
itself through a link, the two that break the tree or the counters, and the properties that
these renames break are stated for the histories without them.

**PathTree** is the same file system seen by its callers: entries at paths, without nodes,
counters or lookups. `Entries` maps the graph to it (`NodeAt` walks a path of plain names
from the root) and `ImplementsPathTree` says that every operation is a step of the tree:
a file put or removed, a directory made, a subtree removed or moved whole, and the caps kept.
The two renames counted by `aliasedMoves` are excepted; afterwards the graph is no tree.

### ShellInput

| Code | Model |
|---|---|
| `_standardInput` | `input`, the number of a stream in `streams`, or `None` |
| the parameter `stdin` of the node about to run | `stdin`, text or `NoText` |
| an `InputStream` | a file and the line its remaining text begins at |
| the saved stream in the C# frame of a construct | `frames[i].saved` |
| `SharesInput`, `ExecuteCompoundAsync`, `ExecutePipelineAsync` | `EnterGroup`, `EnterCompound`, `EnterStage` |
| `CallFunctionAsync`, with an input (its body shares it) and without | `EnterGroup`, nothing |
| `RunFragmentAsync`, `RunSubstitutionAsync` | `EnterFragment`, `EnterSubstitution`, whose frame keeps the text of the command around it |
| the `finally` blocks that put the stream back | `LeaveFrame`, taken by a normal end, a transfer or an exception |
| `read`, `mapfile` (the stream); any other command (the text) | `Read`, `Filter` |

A file or the output of a stage is a number, and its content so many lines. `given` is a
history variable: the lines of each file that commands were handed, in order. `Descriptor`
maps the state to `FileDescriptor`: the descriptor of the innermost construct is the pipe's
file, the text's, or the stream's, and those of the others are found in what their frames
saved. `Odd` lists the seven shapes of scripts for which text passed by hand is not a
descriptor; with any of them in `Odd` `ImplementsDescriptor` is violated:

| Shape | What happens |
|---|---|
| `host` | input given to `ExecAsync` is both the stream and the parameter of the first command, so two commands get it |
| `filter` | `cat` in a `while read` loop takes the rest of the input without moving the position (`Interpreter.cs:1142`) |
| `function` | a function called inside such a loop shares a copy among its commands, and what they read is read again after it |
| `fragment` | `eval` and `source` hand the copy to their first command; an alias hands on the text of its stage, which is a stream as well where there was none; `$( )` gets what is left of the shell's input, in a stage of a pipe too |
| `exec_lost` | `exec < file` in a handler, a fragment, a function that has an input or a construct with other redirections is undone at its end |
| `exec_leaks` | `exec < file` as the last stage of a pipe stays the input of the shell |
| `exec_splits` | `exec` without an input makes a second stream over the same text |

### PythonRegions, PythonControl, PythonFrame

The state of a frame is the code address, `blocks`, `stack` and `current`
(`Frame.Blocks`, `Frame.Stack`, `Frame.CurrentException`). A code address is given by the
regions of the program that it lies in: `where` is a sequence of `try`, `guard` (a `try`
with `finally`), `with`, `handler`, `final` (a finally body), `exiting`, loops, and jumps
under way. What the compiler lays down is then an operator on `where`: `UnwindFinallies` is
`NextContext`, `UnwindNext` and `Arrive`; the instructions `SetupExcept`, `SetupFinally`,
`SetupWith`, `PopBlock`, `EndHandler`, `ReRaise`, `ExitWith`, `ExitWithException` and the
method `Unwind` change the two stacks as in `VirtualMachine.cs`. The program is free:
at each statement it enters a construct, raises, jumps or reaches the end of the innermost
one. `owed` is a history variable: for each construct entered, how often its
cleanup is still to run.

`PythonControl` has `where`, `owed` and `ended` only: an exception goes to the innermost
open construct, a jump leaves constructs one by one. `ImplementsControl` maps the
variables to themselves: with the two stacks the frame takes no step that it would not take
without them. Four shapes break this and are left out by `Odd = {}`: `leaves_try` (a jump
out of the body of a `try` with clauses pops one block too few), `swallows` (a manager that
swallows an exception inside a handler or a `try` leaves a block behind), `loop_in_cleanup`
and `hidden_loop` (`break` in a finally body that a `return` is running).

### PythonCalls

`stack` is the host's stack, one element for each body under way; `ctl` says whether the
innermost body runs, or receives a value, an error or the end of a generator. `Leave` is the
one way out, by value, by error or exhausted, and does what the `finally` blocks of
`CallFunction`, `EnterRecursion` and `ResolveModule` do. An operation of a body stands for its
instructions and is charged one. Generators, coroutines and futures are `objects`; `NextOn`,
`ResolveCoroutine` and `ResolveFuture` are `PyGenerator.Next`, `PyCoroutine.Resolve` and
`PyFuture.Resolve`. Handlers are a choice (`Catches` or `Propagates`). A callback that
registers another completion while completions are called is left out.

`HostStackBounded` and `HandlerOffered` are stated and fail, each for one short program, so
no run checks them: two coroutines in two calls are four bodies on the host's stack under a
recursion limit of two (`VirtualMachine.cs:51` promises the bound), and an error out of
the source of a `yield from` is not offered to a `try` around it (`PyGenerator.cs:204`).

### PythonFile

A file is a sequence of lines or `Missing`, a line a number of its own. A `PyFile` is a handle
with its path, mode, position, whether it is closed, and what is `left` of a loop over its
lines (the snapshot of `Pieces`, taken with the first line). A program is between operations
(`Idle`) or between the check and the write of `open("a")`, `open("x")` or `touch`. Programs of
several sessions interleave between calls: `Bash/FileSystems/IFileSystem.cs:13` asks file
systems to allow that. `OpenFiles` is what a program may rely on, with one offset for each open
file; `history.offset` is that offset, which the code does not have, and `history.got` the
lines that the last read returned. Six shapes break `ImplementsOpenFiles` and are left out by
`Odd = {}`: `late` (a file made between check and write is emptied), `moved` (removed or
renamed while open), `shared` (a `"w"` file lengthened or emptied by another writer), `mixed`
(a read or seek before a loop has ended), `stale` (emptied during a loop), `closed` (a loop or
a `writelines` that goes on after `close`).

### PlaywrightSession

Each script has at most one call in flight (`Bridge.Block` blocks its thread); `call` says
which await of the call it is in. The driver is external: browsers launch or fail, crash,
and deliver close events late and in any order. `DisposeAsync` is a sequence of actions of
its own. Its loop over `_browsers` gives way only where it awaits the close of a browser
(`AtBrowsers`): `Remaining` are the names it has still to visit, and a launch under a new name
meanwhile sets `modified`, which is what makes the enumerator throw. A cancellation comes
between calls: `Bridge.Block` gives the token to `Task.Run` alone, so one that comes during a
call is seen by the next. `missed` is a history variable: contexts that closed before they
were counted.

## 3. Runs

Passing runs:

| Run | Bounds | Shows |
|---|---|---|
| `sh_forks` | 2 calls on one shell, 2 commands and 1 loop iteration allowed, function depth 1, nesting depth 3, all three traps, every fault but cancellation | `TypeOK`, `DepthsBalanced`, `ScopesBalanced`, `FlagsHonest`, `StatusReported` |
| `sh_flow` | 1 call, scripts of up to 2 commands of height 1, loops, lists, pipelines, if, functions, `break 2`, cancellation; no eval, alias or traps, which `sh_forks` has | `CallsReturn` |
| `sh_input` | 3 files of 2 lines, 3 constructs open, 4 streams | `TypeOK`, `LinesOnce`, `ImplementsDescriptor` |
| `fs_tree` | 4 nodes, paths of up to 3 names of 2, 1 byte, 2 files, depth 2, links to `../tmp` | `TypeOK`, `TreeShape`, `AllReachable`, `AccountingExact`, `QuotaHolds`, `FailureKeepsTree`, `ImplementsPathTree` |
| `py_frame` | 4 constructs entered, 6 regions open, 2 exceptions | `TypeOK`, `CleanupsExact`, `BlocksOpen`, `CurrentIsHandled`, `StackIsNested`, `ImplementsControl` |
| `py_calls` | 7 operations, recursion limit 2, 3 objects, 2 libraries | `TypeOK`, `CountersExact`, `WorkOnce`, `AwaitersAgree`, `ExhaustedIsFinal`, `ModuleOnce`, `CompletionsAttempted`, `RunEnds` |
| `py_file` | 2 programs, 2 paths, 2 open files, 2 lines | `TypeOK`, `ImplementsOpenFiles` |
| `pw_safety` | 2 scripts, 2 names, 2 launches, 2 contexts, cap 1, crashes, cancellations and disposal, whose loop may throw | `TypeOK`, `BrowsersShared`, `SlotsAccounted`, `RunLeavesNothingOpen` |
| `pw_live` | 2 scripts, 1 launch, 3 contexts, cap 1, crashes | `CapOvershootBounded`, `CallsReturn`, `SlotsReturned` |

Why the bounds are enough. The shell's defects live in the order of one entry and one way
out, so small limits help: a limit of 2 commands and nesting 3 lets a substitution run in a
handler in an eval and lets every limit be hit with each of the frames open; the second call
is there to see what the first left behind. Height 1 nests two constructs, which is what a
result can be rewritten by on its way; a function, alias or fragment starts a new tree, so
the stacks are deeper than the height. For its input, three open constructs put a construct
between the one that saved a stream and the one that replaces it, and with two lines one
can be read before and one after. In the file system four nodes are the root, `/tmp`
and two more: enough for a directory moved below another, a file moved over a file, and a
link beside them, and caps of 1 and 2 are reached at once. In a frame of Python, six open
regions hold a jump that runs a finally body in which a `try` and a handler are open, within two
constructs still to leave; the four shapes that break it show up within the same bounds.
Seven operations make a generator, a coroutine and a future of both, await it twice and let
one raise; a limit of 2 is exceeded from every kind of body. Two open files are a reader and
a writer, or two writers, of one path. In the session two scripts race for one gate, one cap
and one slot; two browsers let one die and be launched again, or be up under each of two
names, and only under two names can a launch change the dictionary that `DisposeAsync`
enumerates. Two contexts may be of two browsers, so that closing one throws and the other
has still to be closed; three are one more than two scripts can have past a cap of 1.

`PyFile` reduces by the symmetry of programs and of paths: neither the model nor
`OpenFiles` tells one from another, and both its properties are safety properties.

The theorems below hold without these bounds.

Runs that show a disagreement between the code and what its comments or tests say:

| Run | What happens |
|---|---|
| `fs_detach` | `RenameAsync` compares paths as text; through a link a directory is moved into itself: with `/a` a link to `/`, `/a/tmp` is renamed to a name under `/tmp`; the source path is the one that goes through the link. |
| `pw_outlive` | A launch under a new name while `DisposeAsync` awaits the close of another browser makes its loop throw; the new browser stays. |
| `py_leaves_try` | `return` inside `try: ... except: ... finally: ...` pops the block of the `except` and leaves the one of the `finally`: when the finally body raises, it runs again. |

Further counterexamples that a configuration reproduces and no run repeats:

| Configuration | Property | What happens |
|---|---|---|
| `ShReentry` | `HandlerNotReentered` | `ShellState.Fork` copies the traps and not `InTrap`, so with `trap 'x=$(false)' ERR` the failing substitution enters the handler again inside itself, until `max_nesting_depth` ends the script. `Interpreter.cs:207` and `ShellState.cs:66` say this is what the flag prevents. |
| `FsHops` | `SymlinkHopsBounded` | The hop count of `Dereference` is local and every nested lookup starts its own, so a relative link in the middle of a path is followed without end. |
| `FsQuota` | `QuotaBoundsTree` | Renaming a file onto itself releases its accounting and keeps it. |
| `PwOpen` | `CapBoundsOpen` | The cap is checked before the awaits and counted after them. |
| `PwWaiter` | `WaiterAnswered` | Disposing the gate leaves a script that waits for it waiting. |
| `PySwallows` | `CurrentIsHandled` | A manager that swallows an exception inside a `try` leaves a block behind, and the next `PopBlock` pops that one. |

Disagreements met while reading that no run states, because one call shows them:

* `exit` in `eval`, `source`, an alias or a handler ends that fragment only, because
  `Finish` drops the transfer; in the condition of a `while` it is not looked at
  (`Bash/Builtins/Core/FlowBuiltins.cs:38`, `Bash/Core/ControlFlow.cs:42` say it ends the
  script).
* `BuildLoopResult` drops the two marks of a result, so the ERR trap fires a second time for
  a failure that ends a loop, which `Bash/Core/ExecResult.cs:41` says it does not; errexit
  does not stop a loop from its body.
* A subshell runs the EXIT trap it inherited (`Interpreter.cs:873` says the fork replaced
  it), child shells never run theirs, and a limit or timeout skips the script's
  (`Bash/Bash.cs:118` says it runs "whatever ended it").
* A syntax error in eval, a handler or a substitution, a failing expansion of the items of a
  `for`, and a cancellation seen between two commands leave `ExecAsync` as exceptions.
* A prefix assignment that fails after an earlier one leaves that one set.
* `rename` checks neither depth nor the length of the name, allows a file over a directory
  and back; links and directories do not count as files; `ExistsAsync` throws on a dangling
  link; `Bash/FileSystems/IFileSystem.cs:14` speaks of stages that run concurrently, which
  the interpreter runs one after the other.
* Of `cmd >a >b` the output goes to `a` and `b` is emptied; `cmd 2>&1 >f` sends the errors to
  `f` too; `{ echo x >> f; } > f` leaves `f` empty. `Redirection.cs:18` says the design
  preserves what a script can detect.
* A generator that resumes itself is marked as finished by the answer (`PyGenerator.cs:45`);
  a future awaited from its own work yields `None` there (`PyGenerator.cs:147`).
* `tell()` of a file being written ignores `writelines` and starts at 0 for `"a"`, and a
  `seek` before a `write` has no effect, since writes append.
* `PyBrowser.cs:236` does not clamp the default timeout of a context; a cancelled run leaves
  its contexts open; a context that closes before it is counted keeps its slot.

## 4. Fairness

* `ShellInterpreter`: `WF_vars(Step)`. The interpreter is one thread that always has a next
  thing to do during a call; the host and the clock (`BeginCall`, `RejectScript`,
  `Interrupt`) are not fair. Weak fairness of the whole step does not choose among scripts:
  `CallsReturn` holds for each of them, because of the limits.
* `PlaywrightSession`: `FairSpec` adds weak fairness for the progress of every script and
  for the delivery of every close event. Each is a task on the thread pool or the driver's
  reader, which nothing suppresses once it is ready. Calls to the driver do end, with a
  result, a failure or a timeout. Crashes, cancellation and disposal are not fair.
* `PythonCalls`: `WF_vars(Next)`. The virtual machine is one thread that goes on until the
  run is over; which operation comes next is the program's choice, and `RunEnds` holds for
  all of them because of the instruction limit.
* `InMemoryFileSystem`, `ShellInput`, `PythonFrame` and `PythonFile` have safety properties
  only: their steps are taken by a program that may stop at any point.

Deadlock checking is off in every configuration: each system rests when the host makes no
more calls, or when the bounds on nodes, browsers or contexts are used up.

## 5. What is proved

Every theorem is about `Spec` and every value of the constants that satisfies the named
assumptions of the module. The assumptions say that bounds and limits are natural numbers,
that sets whose elements the code counts are finite, and that a value which stands for
"nothing" is none of the things it stands beside (`NoneIsNoName`, `NoEntryIsNoFile`,
`IdleIsNoOperation`). One hypothesis is more than that: where the table says `Odd = {}`, the
theorem is about programs without the shapes listed in section 2, for which the property is
known to be false; the passing runs leave them out too.

| Module | Theorem | States | From |
|---|---|---|---|
| `ShellInterpreter_proofs` | `TypeCorrect`, `DepthsBalancedCorrect`, `ScopesBalancedCorrect`, `FlagsHonestCorrect` | `TypeOK`, `DepthsBalanced`, `ScopesBalanced`, `FlagsHonest` | `IInv` |
| | `StatusReportedCorrect` | `StatusReported` | `IInv` and `Ending` |
| `ShellInput_proofs` | `TypeCorrect` | `TypeOK`, for any `Odd` | `TInv` |
| | `LinesOnceCorrect`, `ImplementsDescriptorCorrect` | `LinesOnce`, the refinement of `FileDescriptor`; `Odd = {}` | `IInv` |
| `InMemoryFileSystem_proofs` | `TypeCorrect`, `TreeShapeCorrect` | `TypeOK`, `TreeShape` | themselves |
| | `AllReachableCorrect`, `AccountingExactCorrect`, `QuotaHoldsCorrect` | `AllReachable`, `AccountingExact`, `QuotaHolds` | `IInv` |
| | `FailureKeepsTreeCorrect` | the action property `FailureKeepsTree` | `IInv` |
| `PythonFrame_proofs` | `TypeCorrect`, `CleanupsExactCorrect`, `BlocksOpenCorrect`, `CurrentIsHandledCorrect`, `StackIsNestedCorrect` | the invariants of the run, by the same names; `Odd = {}` | `IInv` |
| | `ImplementsControlCorrect` | the refinement of `PythonControl`; `Odd = {}` | `IInv` |
| `PythonCalls_proofs` | `TypeCorrect`, `CountersExactCorrect`, `WorkOnceCorrect`, `AwaitersAgreeCorrect`, `ModuleOnceCorrect`, `CompletionsAttemptedCorrect` | the invariants of the run, by the same names | `IInv` |
| | `ExhaustedIsFinalCorrect` | `ExhaustedIsFinal` | `IInv` |
| `PythonFile_proofs` | `TypeCorrect`, `ImplementsOpenFilesCorrect` | `TypeOK`, the refinement of `OpenFiles`; `Odd = {}` | `IInv` |
| `PlaywrightSession_proofs` | `TypeCorrect` | `TypeOK` | itself |
| | `BrowsersSharedCorrect` | `BrowsersShared` | the holder of the gate is the one script past the check |
| | `SlotsAccountedCorrect` | `SlotsAccounted` | where each context is between creation and release |
| | `RunLeavesNothingOpenCorrect` | `RunLeavesNothingOpen` | a run's open contexts are among its wrappers until it has ended |
| | `CapOvershootCorrect` | `CapOvershootBounded` | counted contexts plus calls past the check stay below the cap plus the number of scripts |

**The interpreter.** `DepthsBalanced`, `ScopesBalanced` and `FlagsHonest` compare a counter
or a flag with the number of frames of a kind. None is inductive alone: that a frame leaves
the right shell needs the shells and the forks to agree, and that needs the types. `IInv` is
`TypeOK`, "idle means that the stack is empty", and `Balanced`:

* `Ordered`: each frame's `shell` is one plus the number of forks at or below it, so the top
  frame belongs to the last shell;
* `Deep`: the two depths count their frames and are within the limits;
* `Scoped` and `Flagged`: the two properties themselves, frame by frame.

The proof never enumerates the program. Every action either changes the stack by one frame
(`Pushed`, `Popped`), rewrites its top frame (`Changed`) or leaves it, and the lemmas
`Opens`, `Goes`, `Alters` and `Leaves` say when each keeps `Balanced`; the action lemmas
(`ScriptSteps`, `LoopSteps`, `ExpansionSteps` and so on) place each action under one of
them. That both ways out use the same `ShellsAfter` and `BudgetAfter` is what makes
`Unwind` one more case of `Leaves`.

`StatusReported` speaks of the moment after the call, and what makes it true lies long before:
the EXIT handler may run any script, which sets `$?` as it likes. `Awaited` says where the
status is meanwhile: the host's frame holds it, and the frame right above is the handler
that will put the same one back. `StepMoves` shows that every action but the three which end
a call is one of five moves on the stack, and a move neither changes a frame below the top
nor what a handler's frame is to restore.

**Input streams.** `LinesOnce` fails if two streams that somebody still reads have one file.
`IInv` follows the streams through the frames that save them: `Live` are the streams the
interpreter has or will put back; no two of them have the same file and each stands where
the lines given out of its file end (`Placed`); a text handed on by itself is of a file that
nobody has read (`Handed`); a construct without an input of its own has above it the stream
that it puts back, and no command around a fragment has been given a text (`Nested`).
The refinement maps a stream to its file's descriptor; each action is then a step of
`FileDescriptor` or a stutter.

**The file system.** `TreeShape` says locally that the graph is a tree: one entry for each
node and no entry for the root. `AllReachable` is about paths, and the counters are about
sums. `IInv` adds to the two local properties:

* `LinksLead`: a link has a target. From it `FollowSettles` shows that what a lookup ends at
  after it followed links is no link. The lookup is a recursive function of its fuel
  (`Dereference`, with `Along` for one path); `LookupUnfolds` unfolds one level, and
  `FollowSettles` goes by induction on the fuel;
* `Attached`: every node in use is in the subtree of the root. `Subtree(n)` is the least set
  that has n and is closed under children, so an argument about reachability exhibits a
  closed set and needs no induction over paths;
* `Counted`: the three counters are the sums over the nodes in use.

The last two are stated for `aliasedMoves = 0`, as the properties are: the two renames that the
run `fs_detach` and the configuration `FsQuota` exhibit do break them. Sums over changing
sets of nodes come from `FiniteSums`, which proves what the community modules' folds
compute: `SumParts` splits a sum, `SumAgree` compares two.

**Python frames.** The compiler knows the nesting and the machine knows its two stacks; every
property says that they agree somewhere, and none is inductive without the others, since one
step may read both stacks and the current exception. `IInv` says what they hold in terms of
the regions around the statement:

* `Shaped`: the regions are those of a program. Each open construct has a number of its own, a
  jump under way has come as far as a region that is there, a `break` has its loop around it,
  and no `return` has a cleanup to run outside a `try` that it still has to leave;
* `Accounted`: a cleanup is owed once for each `finally` and manager that is open, and not
  otherwise;
* `Valued`: the value stack lists the regions that hold a value, from the outside in. The list
  `f` of their positions is the witness that ties a block's `depth` to a region;
* `Framed`: each protected region has its block and each handler its Handler block, in the order
  of the regions. A block's `home` is a prefix of the regions, its `depth` counts the values of
  the regions up to its own, and the exception that a Handler block saved is the one that is
  current outside its region (`Outer`).

A manager that swallows an exception leaves its Handler block on the stack for the rest of the
frame. Outside handlers and `try` bodies, which is what the shape `swallows` leaves, these blocks
do no harm because they saved no exception and lie below everything that is still to be popped:
`Framed` allows them among the first `p` blocks. A `return` whose cleanups are all done abandons
its blocks (`Abandoned`), and from there only the value to return matters.

The proof has lemmas for what the operators on regions do (`Opened`, `Holding` and `Outer`
of a sequence that grows, is cut off or has its last region replaced), for what a push, a pop
and a cut do to `Valued` and `Framed`, and for the throw (`ThrowKeeps`: `LastGuard` finds
the innermost open protected region, and `Control!Throw` continues in the same). Each action
then has one lemma that gives both the invariant and the step of `PythonControl`; the
refinement needs nothing else. `PythonControl` has no way to end in a crash of the host, so
`ImplementsControlCorrect` also says that the machine never pops an empty stack.

**Python calls.** Each property compares a counter, a state or a set with what is on the
host's stack. The invariant says it once: an object is `running` exactly while one body of
the stack runs it, a name is being resolved exactly while one body builds it, no two bodies
hold the same (`Owned`), and `depth` is the number of bodies charged. A body that is pushed
takes what nobody has and a body that is popped gives back what nobody else has, on every
way out. What an object was started and told follows from its state (`Happened`), except
where it was awaited from within itself, which `history.reentered` records as the properties
do.

**Python files.** A file has no offset: a reader has a position in a snapshot, a writer
appends. `InStep` ties them to the offset that `OpenFiles` gives the handle: they are equal
unless a loop over the lines is under way, and then `left` is what lies between the offset
and the position. `StepIsPromised` gives for each action the invariant and the step of
`OpenFiles`.

**Playwright.** The invariants of this module are inductive with `TypeOK` and one lemma each
about who is where; `CapOvershootBounded` needs finite sets of scripts and contexts.

**Only model-checked.**

* `CallsReturn` (both), `SlotsReturned` and `RunEnds`: temporal properties under fairness
  are beyond this prover.
* `ImplementsPathTree`: that a plain walk from the root finds the same nodes as the lookup
  of the code is an argument about two recursive functions on every path, for each
  operation before and after; the theorems about the graph do not need it.

The library's induction theorems take an operator, which the provers cannot instantiate;
`FiniteSums!Inductive` states induction on the numbers with a set instead, and that is the
form in which the proofs use it.

## 6. Plan

The models are complete as far as section 7 goes, and every invariant that a run checks is
proved. What is left to prove:

1. `InMemoryFileSystem`: `ImplementsPathTree`, operation by operation. It needs that
   `NodeAt` and the lookup without links agree on paths of plain names, by induction on the
   path, and what each operation does to the set of names at and below a path.
2. `PythonFrame` with each of the four shapes allowed: which of the properties
   survive (`CleanupsExact` does not survive `leaves_try`).

## 7. Not modelled

* Parsers, expansion, globs, arithmetic, path normalisation and the text tools (sed, grep,
  awk, jq, yq) are sequential functions from text to text. What could be wrong in them is in
  the characters, of which a model keeps nothing; the repository tests them by examples.
* Redirections of the output: how a command's output is sent to its targets is one
  sequential computation. The cases that differ from a shell with descriptors take one
  command and are listed in section 3.
* The variables in the shell's scopes, temporary assignments, `select`, `case`, the
  arithmetic `for`, `coproc` and background jobs, which the interpreter runs in place.
* Python's objects and standard modules apart from files and asyncio: data types and library
  functions. Scopes, comprehensions and class bodies in the compiler compute only.
* Directories, `stat`, walks and time stamps in Python's `os` and `pathlib`: one call on the
  file system each.
* Pages and their cap in the browser library, which follow the pattern of contexts.
* The builder, the command table and the CLI, which have no behaviour while a script runs.
* `.reference/`: the Rust and TypeScript programs that this one was ported from, vendored
  for comparison. No project file builds them.
