------------------------------ MODULE PythonCalls ------------------------------
(***************************************************************************)
(* One run of a Python program: which bodies run inside which.  Function   *)
(* calls, generators, coroutines, futures and imports nest on the host's   *)
(* stack; limits on calls and on instructions, exceptions and the end of   *)
(* the run cut through them.  The program is free: a running body takes    *)
(* any operation next, on any object that exists.                          *)
(*                                                                         *)
(* What happens within one body (blocks, handlers) is PythonFrame's.       *)
(***************************************************************************)
EXTENDS Integers, Sequences, FiniteSets, SequencesExt

CONSTANTS MaxRecursionDepth,   \* ExecutionLimits.MaxRecursionDepth
          MaxInstructions,     \* ExecutionLimits.MaxInstructions; an operation is charged one
          MaxObjects,          \* bound on the generators, coroutines and futures made
          Names,               \* the libraries the host registered
          None

ASSUME LimitsAreNatural ==
    MaxRecursionDepth \in Nat \ {0} /\ MaxInstructions \in Nat /\ MaxObjects \in Nat
ASSUME NoneIsNoName == None \notin Names

VARIABLES stack,          \* the bodies under way on the host's stack, innermost last
          ctl,            \* what the innermost body does next, or receives
          objects,        \* the awaitables and generators made so far; identity = index
          depth,          \* _depth
          recursionLimit, \* RecursionLimit
          instructions,   \* _instructionCount
          modules,        \* the names in Modules, of those in Names
          resolving,      \* _resolving
          completions,    \* [due |-> Count of _completions, next |-> where CompleteRun is]
          history         \* see History

vars == <<stack, ctl, objects, depth, recursionLimit, instructions, modules, resolving,
          completions, history>>

(***************************************************************************)
(* Bodies.  "level" is EnterRecursion; "gather" the work of a future.      *)
(***************************************************************************)
Frames == {"module", "function", "generator", "coroutine"}
Body(kind, of) == [kind |-> kind, of |-> of, at |-> 1]
Top == Last(stack)
Charged(b) == b.kind \in {"function", "level"}

Ids == DOMAIN objects
NoSource == 0
Object(type, state, parts) ==
    [type |-> type, state |-> state, parts |-> parts,
     finished |-> FALSE, source |-> NoSource, inTry |-> FALSE]

(***************************************************************************)
(* What happened to object i: how often its body was started, what those   *)
(* who awaited it were given, and whether it was resumed or awaited from   *)
(* inside itself.  For module n: how many module objects were built.       *)
(***************************************************************************)
History == [started : [1 .. MaxObjects -> Nat],
            told : [1 .. MaxObjects -> SUBSET {"value", "failure", "null"}],
            reentered : SUBSET (1 .. MaxObjects),
            built : [Names -> Nat],
            attempted : Nat]

Init ==
    /\ stack = <<Body("module", None)>> /\ ctl = "run" /\ objects = <<>>
    /\ depth = 0 /\ recursionLimit = MaxRecursionDepth /\ instructions = 0
    /\ modules = {} /\ resolving = {}
    /\ completions = [due |-> 0, next |-> 1]
    /\ history = [started |-> [i \in 1 .. MaxObjects |-> 0],
                  told |-> [i \in 1 .. MaxObjects |-> {}],
                  reentered |-> {}, built |-> [n \in Names |-> 0], attempted |-> 0]

Limits == <<depth, recursionLimit, instructions>>
Imports == <<modules, resolving>>
Heap == <<objects, history>>

(***************************************************************************)
(* Leaving the innermost body.  The finally blocks give back the level of  *)
(* the call and the name being resolved however the body is left; only an  *)
(* import that succeeded is remembered, and a future that failed stays     *)
(* failed.                                                                 *)
(***************************************************************************)
\* Seeded fault: a call that raises keeps its level.
DepthKeptOnRaise(b, how) == IF Charged(b) /\ how /= "raise" THEN depth - 1 ELSE depth
DepthAfter(b, how) == IF Charged(b) THEN depth - 1 ELSE depth

\* Seeded fault: a failed future forgets that its work ran into an error.
FailureNotKept(b, how) ==
    CASE b.kind = "generator" -> [objects EXCEPT ![b.of].state = "over",
                                                 ![b.of].finished = how = "exhausted"]
      [] b.kind = "coroutine" -> [objects EXCEPT ![b.of].state = "over"]
      [] b.kind = "gather" /\ how = "value" -> [objects EXCEPT ![b.of].state = "settled"]
      [] OTHER -> objects
Settled(b, how) ==
    CASE b.kind = "generator" -> [objects EXCEPT ![b.of].state = "over",
                                                 ![b.of].finished = how = "exhausted"]
      [] b.kind = "coroutine" -> [objects EXCEPT ![b.of].state = "over"]
      [] b.kind = "gather" -> [objects EXCEPT ![b.of].state =
                                  IF how = "value" THEN "settled" ELSE "failed"]
      [] OTHER -> objects

Told(i, outcome) == [history EXCEPT !.told[i] = @ \cup {outcome}]
Recorded(b, how) ==
    CASE b.kind = "gather" -> Told(b.of, IF how = "value" THEN "value" ELSE "failure")
      [] b.kind = "module" /\ b.of /= None /\ how = "value" ->
            [history EXCEPT !.built[b.of] = @ + 1]
      [] OTHER -> history

Leave(how) ==
    /\ stack' = Front(stack)
    /\ depth' = DepthAfter(Top, how)
    /\ objects' = Settled(Top, how)
    /\ history' = Recorded(Top, how)
    /\ resolving' = IF Top.kind = "module" THEN resolving \ {Top.of} ELSE resolving
    /\ modules' = IF Top.kind = "module" /\ Top.of /= None /\ how = "value"
                  THEN modules \cup {Top.of} ELSE modules
    /\ ctl' = IF Len(stack) = 1 THEN "ending" ELSE how
    /\ UNCHANGED <<recursionLimit, completions>>

\* The history after object i was resumed or awaited, if that was from inside itself.
UnderWay(i) == \E j \in DOMAIN stack : stack[j].kind \in {"generator", "gather"} /\ stack[j].of = i
WithinItself(i, h) == IF UnderWay(i) THEN [h EXCEPT !.reentered = @ \cup {i}] ELSE h

Enter(b) == stack' = Append(stack, b) /\ ctl' = "run"
Raise == ctl' = "raise" /\ UNCHANGED <<stack, objects, history>>
Answer(outcome) == ctl' = outcome /\ UNCHANGED stack

(***************************************************************************)
(* PyGenerator.Next.  Resuming a generator from inside itself finds the    *)
(* iterator running, which answers as if it had ended.                     *)
(***************************************************************************)
NextOn(g) ==
    IF objects[g].finished
    THEN Answer("exhausted") /\ UNCHANGED Heap
    ELSE IF objects[g].state \in {"fresh", "suspended"}
    THEN /\ Enter(Body("generator", g))
         /\ objects' = [objects EXCEPT ![g].state = "running"]
         /\ UNCHANGED history
    ELSE /\ Answer("exhausted")
         /\ objects' = [objects EXCEPT ![g].finished = TRUE]
         /\ history' = WithinItself(g, history)

(***************************************************************************)
(* VirtualMachine.Await with PyCoroutine.Resolve and PyFuture.Resolve.  A  *)
(* coroutine's body runs without a level of its own.  A future whose work  *)
(* is under way has nothing pending, no failure and no value.              *)
(***************************************************************************)
Started(i) == [history EXCEPT !.started[i] = @ + 1]

\* Seeded fault: a coroutine counts as awaited only when its body has ended.
ResolveMarksLate(c) ==
    IF objects[c].state = "over"
    THEN Raise
    ELSE /\ Enter(Body("coroutine", c))
         /\ UNCHANGED objects
         /\ history' = Started(c)
ResolveCoroutine(c) ==
    IF objects[c].state /= "fresh"
    THEN Raise
    ELSE /\ Enter(Body("coroutine", c))
         /\ objects' = [objects EXCEPT ![c].state = "running"]
         /\ history' = Started(c)

ResolveFuture(f) ==
    CASE objects[f].state = "failed" ->
            ctl' = "raise" /\ UNCHANGED <<stack, objects>> /\ history' = Told(f, "failure")
      [] objects[f].state = "settled" ->
            Answer("value") /\ UNCHANGED objects /\ history' = Told(f, "value")
      [] objects[f].state = "fresh" ->
            /\ Enter(Body("gather", f))
            /\ objects' = [objects EXCEPT ![f].state = "running"]
            /\ history' = Started(f)
      [] OTHER ->
            /\ Answer("value") /\ UNCHANGED objects
            /\ history' = WithinItself(f, Told(f, "null"))

AwaitOn(i) ==
    CASE objects[i].type = "coroutine" -> ResolveCoroutine(i)
      [] objects[i].type = "future" -> ResolveFuture(i)
      [] OTHER -> Raise

(***************************************************************************)
(* What a running body may do.  Each operation stands for its              *)
(* instructions and is charged one, before anything else: past the limit   *)
(* the body raises, outside its own handlers, or is at the end of its code *)
(* already.                                                                *)
(***************************************************************************)
InBody == ctl = "run" /\ stack /= <<>> /\ Top.kind \in Frames
YieldingFrom == Top.kind = "generator" /\ objects[Top.of].source /= NoSource

\* Seeded fault: only Execute counts instructions, RunUntilYield does not.
OperatesUncounted ==
    /\ InBody /\ ~YieldingFrom /\ instructions < MaxInstructions
    /\ instructions' = instructions + (IF Top.kind = "generator" THEN 0 ELSE 1)
Operates ==
    /\ InBody /\ ~YieldingFrom /\ instructions < MaxInstructions
    /\ instructions' = instructions + 1

LimitReached ==
    /\ InBody /\ ~YieldingFrom /\ instructions = MaxInstructions
    /\ Leave("raise") /\ UNCHANGED instructions

Returns ==
    /\ InBody /\ ~YieldingFrom
    /\ Leave(IF Top.kind = "generator" THEN "exhausted" ELSE "value")
    /\ UNCHANGED instructions

RaisesError ==
    /\ Operates /\ Raise
    /\ UNCHANGED <<depth, recursionLimit, Imports, completions>>

(***************************************************************************)
(* CallFunction.  A generator or a coroutine is made within the level of   *)
(* the call, which ends with it; arguments that do not fit raise within it *)
(* as well.                                                                *)
(***************************************************************************)
TooDeep == depth + 1 > recursionLimit
CanMake == Len(objects) < MaxObjects
Make(type, state, parts) ==
    /\ CanMake /\ objects' = Append(objects, Object(type, state, parts))
    /\ ctl' = "run" /\ UNCHANGED <<stack, history>>

CallFunction ==
    /\ Operates
    /\ UNCHANGED <<recursionLimit, Imports, completions>>
    /\ \/ TooDeep /\ Raise /\ UNCHANGED depth
       \/ ~TooDeep /\ Raise /\ UNCHANGED depth
       \/ ~TooDeep /\ Enter(Body("function", None)) /\ depth' = depth + 1 /\ UNCHANGED Heap
       \/ ~TooDeep /\ UNCHANGED depth
          /\ \E type \in {"generator", "coroutine"} : Make(type, "fresh", <<>>)

\* EnterRecursion: C# code that calls back into Python, an __init__ that is no function.
EnterRecursion ==
    /\ Operates
    /\ UNCHANGED <<recursionLimit, Imports, completions>>
    /\ \/ TooDeep /\ Raise /\ UNCHANGED depth
       \/ ~TooDeep /\ Enter(Body("level", None)) /\ depth' = depth + 1 /\ UNCHANGED Heap

CallsFromLevel ==
    /\ ctl = "run" /\ stack /= <<>> /\ Top.kind = "level"
    /\ UNCHANGED <<recursionLimit, instructions, Imports, completions>>
    /\ \/ TooDeep /\ Raise /\ UNCHANGED depth
       \/ ~TooDeep /\ \E kind \in {"function", "level"} :
             Enter(Body(kind, None)) /\ depth' = depth + 1 /\ UNCHANGED Heap

\* Seeded fault: the limit is taken as given.
SetWithoutClamp ==
    /\ Operates
    /\ recursionLimit' \in 0 .. MaxRecursionDepth + 1
    /\ UNCHANGED <<stack, ctl, depth, Heap, Imports, completions>>
\* sys.setrecursionlimit: the program may lower the limit, below the depth in use too.
SetRecursionLimit ==
    /\ Operates
    /\ recursionLimit' \in 1 .. MaxRecursionDepth
    /\ UNCHANGED <<stack, ctl, depth, Heap, Imports, completions>>

MakeFuture ==
    /\ Operates
    /\ \/ Make("future", "settled", <<>>)
       \/ \E parts \in UNION {[1 .. n -> Ids] : n \in 0 .. 2} : Make("future", "fresh", parts)
    /\ UNCHANGED <<depth, recursionLimit, Imports, completions>>

AwaitsOne ==
    /\ Operates /\ \E i \in Ids : AwaitOn(i)
    /\ UNCHANGED <<depth, recursionLimit, Imports, completions>>

NextOfGenerator ==
    /\ Operates /\ \E g \in Ids : objects[g].type = "generator" /\ NextOn(g)
    /\ UNCHANGED <<depth, recursionLimit, Imports, completions>>

(***************************************************************************)
(* GeneratorRunner.Run: yield suspends the frame; yield from hands over    *)
(* to another generator, one value for each resumption, until it ends.     *)
(***************************************************************************)
Suspend ==
    /\ stack' = Front(stack) /\ ctl' = "value"
    /\ objects' = [objects EXCEPT ![Top.of].state = "suspended"]
    /\ UNCHANGED <<depth, recursionLimit, Imports, completions, history>>

Yields == Operates /\ Top.kind = "generator" /\ Suspend

YieldsFrom ==
    /\ Operates /\ Top.kind = "generator"
    /\ \E g \in Ids, inTry \in BOOLEAN :
          /\ objects[g].type = "generator"
          /\ objects' = [objects EXCEPT ![Top.of].source = g, ![Top.of].inTry = inTry]
    /\ UNCHANGED <<stack, ctl, depth, recursionLimit, Imports, completions, history>>

PullsSource ==
    /\ InBody /\ YieldingFrom
    /\ NextOn(objects[Top.of].source)
    /\ UNCHANGED <<Limits, Imports, completions>>

(***************************************************************************)
(* ImportName with ResolveModule; the body of a library runs in a frame    *)
(* that is not charged.  Building one may register a completion.           *)
(***************************************************************************)
Resolve(n) ==
    IF n \in resolving
    THEN Raise /\ UNCHANGED resolving
    ELSE Enter(Body("module", n)) /\ resolving' = resolving \cup {n} /\ UNCHANGED Heap

\* Seeded fault: the modules of the run are not looked at.
ImportsAfresh(n) == Resolve(n)
ImportName(n) ==
    IF n \in modules
    THEN UNCHANGED <<stack, ctl, Heap, resolving>>
    ELSE Resolve(n)

ImportsModule == Operates /\ (\E n \in Names : ImportName(n))
            /\ UNCHANGED <<depth, recursionLimit, modules, completions>>

WhenRunCompleted ==
    /\ Operates /\ Top.kind = "module" /\ Top.of /= None
    /\ completions' = [completions EXCEPT !.due = @ + 1]
    /\ UNCHANGED <<stack, ctl, depth, recursionLimit, Heap, Imports>>

(***************************************************************************)
(* What comes back to the innermost body.                                  *)
(***************************************************************************)
ReceivesValue ==
    /\ ctl = "value" /\ Top.kind \in Frames /\ ~YieldingFrom
    /\ ctl' = "run"
    /\ UNCHANGED <<stack, Limits, Heap, Imports, completions>>

\* The end of a generator ends a loop, and is StopIteration for next().
ReceivesEnd ==
    /\ ctl = "exhausted" /\ Top.kind \in Frames /\ ~YieldingFrom
    /\ ctl' \in {"run", "raise"}
    /\ UNCHANGED <<stack, Limits, Heap, Imports, completions>>

Catches ==
    /\ ctl = "raise" /\ Top.kind \in Frames /\ ~YieldingFrom
    /\ ctl' = "run"
    /\ UNCHANGED <<stack, Limits, Heap, Imports, completions>>

\* An error out of a source passes the generator that yields from it by.
Propagates == ctl = "raise" /\ stack /= <<>> /\ Leave("raise") /\ UNCHANGED instructions

PassesOn == ctl = "value" /\ stack /= <<>> /\ YieldingFrom /\ Suspend /\ UNCHANGED instructions

\* Seeded fault: the end of the source is taken for the end of the generator.
SourceEndsBoth ==
    /\ ctl = "exhausted" /\ stack /= <<>> /\ YieldingFrom
    /\ stack' = Front(stack) /\ ctl' = "exhausted"
    /\ objects' = [objects EXCEPT ![Top.of].source = NoSource, ![Top.of].finished = TRUE,
                                  ![Top.of].state = "suspended"]
    /\ UNCHANGED <<Limits, Imports, completions, history>>
SourceEnds ==
    /\ ctl = "exhausted" /\ stack /= <<>> /\ YieldingFrom
    /\ objects' = [objects EXCEPT ![Top.of].source = NoSource] /\ ctl' = "run"
    /\ UNCHANGED <<stack, Limits, Imports, completions, history>>

\* A value returned where None was wanted (Initialized) raises.
LevelReceives ==
    /\ ctl = "value" /\ Top.kind = "level"
    /\ \E how \in {"value", "raise"} : Leave(how)
    /\ UNCHANGED instructions

(***************************************************************************)
(* The work of gather: its parts in order, each at most once.              *)
(***************************************************************************)
Part == objects[Top.of].parts[Top.at]
PartSettled == \E j \in 1 .. Top.at - 1 : objects[Top.of].parts[j] = Part
Onward == stack' = [stack EXCEPT ![Len(stack)].at = @ + 1]

GatherReceives ==
    /\ ctl = "value" /\ Top.kind = "gather"
    /\ Onward /\ ctl' = "run"
    /\ UNCHANGED <<Limits, Heap, Imports, completions>>

GatherAwaits ==
    /\ ctl = "run" /\ stack /= <<>> /\ Top.kind = "gather"
    /\ Top.at <= Len(objects[Top.of].parts)
    /\ IF PartSettled THEN Onward /\ UNCHANGED <<ctl, Heap>> ELSE AwaitOn(Part)
    /\ UNCHANGED <<Limits, Imports, completions>>

GatherEnds ==
    /\ ctl = "run" /\ stack /= <<>> /\ Top.kind = "gather"
    /\ Top.at > Len(objects[Top.of].parts)
    /\ Leave("value") /\ UNCHANGED instructions

(***************************************************************************)
(* CompleteRun, once the program has ended in any way: a callback may      *)
(* throw, which is swallowed.                                              *)
(***************************************************************************)
\* Seeded fault: the first callback that throws ends the loop.
CompleteStops ==
    \E throws \in BOOLEAN :
        completions' = [completions EXCEPT !.next = IF throws THEN completions.due + 1 ELSE @ + 1]
CompleteOne ==
    \E throws \in BOOLEAN : completions' = [completions EXCEPT !.next = @ + 1]

CompleteRun ==
    /\ ctl = "ending"
    /\ UNCHANGED <<stack, objects, Limits, Imports>>
    /\ IF completions.next <= completions.due
       THEN CompleteOne /\ UNCHANGED ctl /\ history' = [history EXCEPT !.attempted = @ + 1]
       ELSE ctl' = "over" /\ UNCHANGED <<completions, history>>

Next ==
    \/ LimitReached \/ Returns \/ RaisesError \/ CallFunction \/ EnterRecursion
    \/ CallsFromLevel \/ SetRecursionLimit \/ MakeFuture \/ AwaitsOne \/ NextOfGenerator
    \/ Yields \/ YieldsFrom \/ PullsSource \/ ImportsModule \/ WhenRunCompleted
    \/ ReceivesValue \/ ReceivesEnd \/ Catches \/ Propagates \/ PassesOn \/ SourceEnds
    \/ LevelReceives \/ GatherReceives \/ GatherAwaits \/ GatherEnds \/ CompleteRun

\* One thread that always has a next thing to do until the run is over.
Spec == Init /\ [][Next]_vars /\ WF_vars(Next)

(***************************************************************************)
(* Properties                                                              *)
(***************************************************************************)
Count(P(_)) == Cardinality({i \in DOMAIN stack : P(stack[i])})

\* Every body, object and counter has its type.
TypeOK ==
    /\ stack \in Seq([kind : Frames \cup {"level", "gather"},
                      of : {None} \cup Names \cup (1 .. MaxObjects), at : 1 .. 3])
    /\ ctl \in {"run", "value", "exhausted", "raise", "ending", "over"}
    /\ objects \in Seq([type : {"generator", "coroutine", "future"},
                        state : {"fresh", "running", "suspended", "over", "settled", "failed"},
                        parts : Seq(1 .. MaxObjects), finished : BOOLEAN,
                        source : 0 .. MaxObjects, inTry : BOOLEAN])
    /\ depth \in Int /\ recursionLimit \in 1 .. MaxRecursionDepth
    /\ instructions \in 0 .. MaxInstructions
    /\ modules \subseteq Names /\ resolving \subseteq Names
    /\ completions \in [due : Nat, next : Nat \ {0}]
    /\ history \in History

(***************************************************************************)
(* The call depth counts the calls and host recursions that are under way, *)
(* within the limit, and the names being resolved are those whose library  *)
(* is being built: every way out of a body, an exception or the            *)
(* instruction limit through any nesting included, gives back what it took *)
(* (the finally blocks of CallFunction, EnterRecursion, ResolveModule).    *)
(***************************************************************************)
CountersExact ==
    /\ depth = Count(Charged) /\ depth <= MaxRecursionDepth
    /\ resolving = {stack[i].of : i \in {j \in DOMAIN stack : stack[j].kind = "module"}} \ {None}

(***************************************************************************)
(* The body of a coroutine and the work of a future start at most once,    *)
(* whoever awaits them, from inside themselves, after a failure or through *)
(* several futures (PyCoroutine._awaited, PyFuture._pending).              *)
(***************************************************************************)
WorkOnce == \A i \in 1 .. MaxObjects : history.started[i] <= 1

(***************************************************************************)
(* All who await a future are given one outcome, unless its own work       *)
(* awaits it: that await gets a null (PyFuture.Resolve).                   *)
(***************************************************************************)
AwaitersAgree ==
    \A i \in (1 .. MaxObjects) \ history.reentered : Cardinality(history.told[i]) <= 1

(***************************************************************************)
(* A generator that was reported exhausted has ended: no later request     *)
(* could have had a value of it, and nothing of its body is left to run.   *)
(* It fails for a generator that is resumed from inside itself.            *)
(***************************************************************************)
ExhaustedIsFinal ==
    \A i \in Ids \ history.reentered : objects[i].finished => objects[i].state = "over"

(***************************************************************************)
(* One run sees one module however often, from wherever and in whatever    *)
(* cycle it imports it, failed attempts included (ResolveModule).          *)
(***************************************************************************)
ModuleOnce == \A n \in Names : history.built[n] = IF n \in modules THEN 1 ELSE 0

\* When the run is over every completion was attempted once, although others threw.
CompletionsAttempted == ctl = "over" => history.attempted = completions.due

(***************************************************************************)
(* A run ends: past the instruction limit a handler that catches the error *)
(* has no instruction left to run, and what is charged to no one (futures, *)
(* levels, yield from) is finite.                                          *)
(***************************************************************************)
RunEnds == <>(ctl = "over")

(***************************************************************************)
(* The bodies of the program on the host's stack are no more than the      *)
(* recursion limit allows, beside the modules.  It fails: generators and   *)
(* coroutines are charged where they are made and not where they run.      *)
(***************************************************************************)
HostStackBounded ==
    Count(LAMBDA b : b.kind \in Frames \ {"module"}) <= MaxRecursionDepth

(***************************************************************************)
(* An error that reaches a generator inside one of its try statements is   *)
(* offered to it.  It fails for errors out of a yield from, which is       *)
(* outside Unwind (GeneratorRunner.Run).                                   *)
(***************************************************************************)
HandlerOffered ==
    [][~(ctl = "raise" /\ stack /= <<>> /\ YieldingFrom /\ objects[Top.of].inTry
         /\ Len(stack') < Len(stack))]_vars
=============================================================================
