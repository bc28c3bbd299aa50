------------------------- MODULE PlaywrightSession -------------------------
(***************************************************************************)
(* The browser backend shared by every script of a host: a session that    *)
(* launches one browser per name under a gate, counts the open contexts    *)
(* against a cap, and is disposed by the host while scripts may still run. *)
(*                                                                         *)
(* Each script runs on its own thread.  It calls the driver through        *)
(* Bridge.Block, so it has at most one call in flight; the awaits inside a *)
(* call are where other scripts, the driver's events and the host's        *)
(* DisposeAsync interleave.  A run's bridge is part of its script.         *)
(*                                                                         *)
(* The driver, its browsers and SemaphoreSlim are external: they are       *)
(* modelled by what the session can observe of them.  Any driver call may  *)
(* fail; it fails when what it needs is gone.                              *)
(***************************************************************************)
EXTENDS Integers, Sequences, FiniteSets

CONSTANTS
  Script,        \* runs that share the session
  BrowserName,   \* the names Options.Browsers allows
  Browser,       \* browser processes: a bound on how many are ever launched
  Context,       \* contexts: a bound on how many are ever created
  None,
  MaxContexts,   \* PlaywrightOptions.MaxContexts
  Around         \* what may happen around the scripts

ASSUME SessionAssumption ==
  /\ None \notin Script \cup BrowserName \cup Browser \cup Context
  /\ IsFiniteSet(Script) /\ IsFiniteSet(Context)
  /\ MaxContexts \in Nat
  /\ Around \subseteq {"crash", "cancel", "dispose"}

VARIABLES
  \* the session
  disposed,      \* _disposed
  gate,          \* _gate: who holds it, then who waits for it, in order
  browsers,      \* _browsers
  contexts,      \* _contexts: what counts against the cap
  disposing,     \* where DisposeAsync is
  toClose,       \* its snapshot of the contexts, what is left of it
  toVisit,       \* names its loop over _browsers has still to visit
  modified,      \* a key was added to _browsers while that loop awaited a close
  \* the scripts and their bridges
  phase,         \* what the script is doing
  call,          \* where its driver call is; "none" when it makes none
  asked,         \* the name it is launching
  handle,        \* the browser it holds
  item,          \* the context its call is about
  wrappers,      \* Bridge.Contexts
  cancelled,     \* scripts whose host token is cancelled
  \* the driver
  driver,        \* _playwright, and with it _gate: "up" or "disposed"
  live,          \* connected browsers
  launched,      \* browsers ever launched
  home, opener,  \* of each context: its browser; the script it was created for
  open,          \* contexts that are open
  heard,         \* contexts whose Close event has OnContextClosed as a handler
  notices,       \* Close events not delivered yet
  missed         \* history: contexts that closed before they were counted

session == <<disposed, gate, browsers, contexts>>
dispose == <<disposing, toClose, toVisit, modified>>
script == <<phase, call, asked, handle, item, wrappers, cancelled>>
drv == <<driver, live, launched, home, opener, open, heard, notices, missed>>
vars == <<session, dispose, script, drv>>

Phase == {"running", "releasing", "finishing", "ended"}
Call == {"none", "gate", "launch", "cap", "create", "route", "subscribe", "add",
         "close", "release"}

-----------------------------------------------------------------------------
(* The driver *)

Building(c) == \E s \in Script : item[s] = c /\ call[s] \in {"route", "subscribe", "add"}

\* The browsers of B go away, with the contexts in them.
Disconnect(B) ==
  LET dead == {c \in open : home[c] \in B} IN
  /\ live' = live \ B
  /\ open' = open \ dead
  /\ notices' = notices \cup (dead \cap heard)
  /\ missed' = missed \cup {c \in dead : Building(c)}
  /\ UNCHANGED <<driver, launched, home, opener, heard>>

CloseInDriver(c) ==
  /\ open' = open \ {c}
  /\ notices' = notices \cup ({c} \cap open \cap heard)
  /\ UNCHANGED <<driver, live, launched, home, opener, heard, missed>>

BrowserDies(b) ==
  /\ "crash" \in Around
  /\ b \in live
  /\ Disconnect({b})
  /\ UNCHANGED <<session, dispose, script>>

\* Seeded fault: the handler forgets to give the slot back.
OnContextClosedIdle(c) ==
  /\ c \in notices
  /\ notices' = notices \ {c}
  /\ UNCHANGED <<session, dispose, script, driver, live, launched, home, opener, open, heard,
                 missed>>

OnContextClosed(c) ==
  /\ c \in notices
  /\ notices' = notices \ {c}
  /\ contexts' = contexts \ {c}
  /\ UNCHANGED <<disposed, gate, browsers, dispose, script, driver, live, launched, home,
                 opener, open, heard, missed>>

-----------------------------------------------------------------------------
(* A script and its calls *)

Idle(s) == phase[s] = "running" /\ call[s] = "none"

\* A call whose token is cancelled is never started.
MayCall(s) == s \notin cancelled

Goto(s, where) == call' = [call EXCEPT ![s] = where]

\* The call is over, with or without an exception.
Return(s) ==
  /\ Goto(s, "none")
  /\ item' = [item EXCEPT ![s] = None]
  /\ asked' = [asked EXCEPT ![s] = None]

\* PyBrowserType.Launch, up to the gate.
Launch(s, n) ==
  /\ Idle(s) /\ MayCall(s)
  /\ ~disposed
  /\ gate' = Append(gate, s)
  /\ asked' = [asked EXCEPT ![s] = n]
  /\ Goto(s, "gate")
  /\ UNCHANGED <<disposed, browsers, contexts, dispose, phase, handle, item, wrappers,
                 cancelled, drv>>

\* Seeded fault: the semaphore admits whoever waits.
AdmitsAll(s) == \E i \in 1..Len(gate) : gate[i] = s

HoldsGate(s) == gate # <<>> /\ Head(gate) = s

Connected(n) == browsers[n] \in live

ReuseBrowser(s) ==
  /\ call[s] = "gate" /\ HoldsGate(s)
  /\ Connected(asked[s])
  /\ handle' = [handle EXCEPT ![s] = browsers[asked[s]]]
  /\ gate' = Tail(gate)
  /\ Return(s)
  /\ UNCHANGED <<disposed, browsers, contexts, dispose, phase, wrappers, cancelled, drv>>

StartLaunch(s) ==
  /\ call[s] = "gate" /\ HoldsGate(s)
  /\ ~Connected(asked[s])
  /\ driver = "up"
  /\ Goto(s, "launch")
  /\ UNCHANGED <<session, dispose, phase, asked, handle, item, wrappers, cancelled, drv>>

\* LaunchAsync answers; the browser is stored and the gate given on.  A new key
\* invalidates the enumerator of a loop over _browsers that awaits a close.
FinishLaunch(s) ==
  /\ call[s] = "launch"
  /\ driver = "up"
  /\ \E b \in Browser \ launched :
       /\ live' = live \cup {b}
       /\ launched' = launched \cup {b}
       /\ browsers' = [browsers EXCEPT ![asked[s]] = b]
       /\ handle' = [handle EXCEPT ![s] = b]
  /\ modified' = (modified \/ (disposing = "browsers" /\ browsers[asked[s]] = None))
  /\ gate' = Tail(gate)
  /\ Return(s)
  /\ UNCHANGED <<disposed, contexts, disposing, toClose, toVisit, phase, wrappers,
                 cancelled, driver, home, opener, open, heard, notices, missed>>

\* Seeded fault: the gate is given on only after a launch that succeeded.
FailLaunchHoldsGate(s) ==
  /\ call[s] \in {"gate", "launch"} /\ HoldsGate(s)
  /\ call[s] = "gate" => driver = "disposed" /\ ~Connected(asked[s])
  /\ Return(s)
  /\ UNCHANGED <<session, dispose, phase, handle, wrappers, cancelled, drv>>

\* The launch fails or times out, or the driver is gone.
FailLaunch(s) ==
  /\ call[s] \in {"gate", "launch"} /\ HoldsGate(s)
  /\ call[s] = "gate" => driver = "disposed" /\ ~Connected(asked[s])
  /\ gate' = Tail(gate)
  /\ Return(s)
  /\ UNCHANGED <<disposed, browsers, contexts, dispose, phase, handle, wrappers,
                 cancelled, drv>>

\* PyBrowser.NewContext and NewContextAsync, up to the lock.
NewContext(s) ==
  /\ Idle(s) /\ MayCall(s)
  /\ handle[s] # None
  /\ ~disposed
  /\ Goto(s, "cap")
  /\ UNCHANGED <<session, dispose, phase, asked, handle, item, wrappers, cancelled, drv>>

\* Seeded fault: the comparison with the cap lets one more in.
CheckCapOffByOne(s) ==
  /\ call[s] = "cap"
  /\ Goto(s, IF Cardinality(contexts) > MaxContexts THEN "none" ELSE "create")
  /\ UNCHANGED <<session, dispose, phase, asked, handle, item, wrappers, cancelled, drv>>

CheckCap(s) ==
  /\ call[s] = "cap"
  /\ Goto(s, IF Cardinality(contexts) >= MaxContexts THEN "none" ELSE "create")
  /\ UNCHANGED <<session, dispose, phase, asked, handle, item, wrappers, cancelled, drv>>

CreateContext(s) ==
  /\ call[s] = "create"
  /\ handle[s] \in live
  /\ \E c \in {c \in Context : home[c] = None} :
       /\ home' = [home EXCEPT ![c] = handle[s]]
       /\ opener' = [opener EXCEPT ![c] = s]
       /\ open' = open \cup {c}
       /\ item' = [item EXCEPT ![s] = c]
  /\ Goto(s, "route")
  /\ UNCHANGED <<session, dispose, phase, asked, handle, wrappers, cancelled, driver, live,
                 launched, heard, notices, missed>>

FailCreate(s) ==
  /\ call[s] = "create"
  /\ Return(s)
  /\ UNCHANGED <<session, dispose, phase, handle, wrappers, cancelled, drv>>

\* RouteAsync: it fails on a context that has closed meanwhile.
RouteContext(s) ==
  /\ call[s] = "route"
  /\ IF item[s] \in open
     THEN Goto(s, "subscribe") /\ UNCHANGED <<item, asked>>
     ELSE Return(s)
  /\ UNCHANGED <<session, dispose, phase, handle, wrappers, cancelled, drv>>

\* Seeded fault: the handler is not attached.
NoSubscribe(s) ==
  /\ call[s] = "subscribe"
  /\ Goto(s, "add")
  /\ UNCHANGED <<session, dispose, phase, asked, handle, item, wrappers, cancelled, drv>>

Subscribe(s) ==
  /\ call[s] = "subscribe"
  /\ heard' = heard \cup {item[s]}
  /\ Goto(s, "add")
  /\ UNCHANGED <<session, dispose, phase, asked, handle, item, wrappers, cancelled, driver,
                 live, launched, home, opener, open, notices, missed>>

\* Seeded fault: the variable is cleared before the context is counted.
AddCleared(s) ==
  /\ call[s] = "add"
  /\ Return(s)
  /\ contexts' = contexts \cup {item'[s]}
  /\ wrappers' = [wrappers EXCEPT ![s] = @ \cup {item[s]}]
  /\ UNCHANGED <<disposed, gate, browsers, dispose, phase, handle, cancelled, drv>>

\* The context is counted, and the run's bridge told of it.
AddContext(s) ==
  /\ call[s] = "add"
  /\ contexts' = contexts \cup {item[s]}
  /\ wrappers' = [wrappers EXCEPT ![s] = @ \cup {item[s]}]
  /\ Return(s)
  /\ UNCHANGED <<disposed, gate, browsers, dispose, phase, handle, cancelled, drv>>

\* PyBrowserContext.Close, called by the script or by ReleaseAll.
Close(s, c) ==
  /\ call[s] = "none" /\ phase[s] # "ended"
  /\ c \in wrappers[s]
  /\ wrappers' = [wrappers EXCEPT ![s] = @ \ {c}]
  /\ IF MayCall(s)
     THEN Goto(s, "close") /\ item' = [item EXCEPT ![s] = c]
     ELSE UNCHANGED <<call, item>>
  /\ UNCHANGED <<session, dispose, phase, asked, handle, cancelled, drv>>

CloseAsync(s) ==
  /\ call[s] = "close"
  /\ home[item[s]] \in live
  /\ CloseInDriver(item[s])
  /\ Goto(s, "release")
  /\ UNCHANGED <<session, dispose, phase, asked, handle, item, wrappers, cancelled>>

\* Seeded fault: ReleaseAll stops at the first context whose close throws.
FailCloseStops(s) ==
  /\ call[s] = "close"
  /\ home[item[s]] \notin live
  /\ Return(s)
  /\ wrappers' = IF phase[s] = "running" THEN wrappers ELSE [wrappers EXCEPT ![s] = {}]
  /\ UNCHANGED <<session, dispose, phase, handle, cancelled, drv>>

\* The browser has gone away: CloseAsync throws, and Release is not reached.
FailClose(s) ==
  /\ call[s] = "close"
  /\ home[item[s]] \notin live
  /\ Return(s)
  /\ UNCHANGED <<session, dispose, phase, handle, wrappers, cancelled, drv>>

Release(s) ==
  /\ call[s] = "release"
  /\ contexts' = contexts \ {item[s]}
  /\ Return(s)
  /\ UNCHANGED <<disposed, gate, browsers, dispose, phase, handle, wrappers,
                 cancelled, drv>>

\* Bridge.ReleaseAll closes what the run has open, one context after the other: for
\* p.stop(), browser.close() and the end of a with block, and when the run ends.
BeginReleaseAll(s, why) ==
  /\ Idle(s)
  /\ phase' = [phase EXCEPT ![s] = why]
  /\ UNCHANGED <<session, dispose, call, asked, handle, item, wrappers, cancelled, drv>>

EndReleaseAll(s) ==
  /\ phase[s] \in {"releasing", "finishing"}
  /\ call[s] = "none"
  /\ wrappers[s] = {}
  /\ phase' = [phase EXCEPT ![s] = IF @ = "releasing" THEN "running" ELSE "ended"]
  /\ UNCHANGED <<session, dispose, call, asked, handle, item, wrappers, cancelled, drv>>

\* Bridge.Block gives the token to Task.Run alone: a call in flight is not told of it,
\* and a cancellation during one is seen when it has returned.
Cancel(s) ==
  /\ "cancel" \in Around
  /\ phase[s] # "ended" /\ call[s] = "none"
  /\ cancelled' = cancelled \cup {s}
  /\ UNCHANGED <<session, dispose, phase, call, asked, handle, item, wrappers, drv>>

-----------------------------------------------------------------------------
(* DisposeAsync *)

BeginDispose ==
  /\ "dispose" \in Around
  /\ ~disposed
  /\ disposed' = TRUE
  /\ disposing' = "lock"
  /\ UNCHANGED <<gate, browsers, contexts, toClose, toVisit, modified, script, drv>>

SnapshotContexts ==
  /\ disposing = "lock"
  /\ toClose' = contexts
  /\ contexts' = {}
  /\ disposing' = "contexts"
  /\ UNCHANGED <<disposed, gate, browsers, toVisit, modified, script, drv>>

DisposeContext(c) ==
  /\ disposing = "contexts"
  /\ c \in toClose
  /\ toClose' = toClose \ {c}
  /\ CloseInDriver(c)
  /\ UNCHANGED <<session, disposing, toVisit, modified, script>>

\* The loop over _browsers: names it has still to visit, and whether it may take the
\* next step.  It gives way only where it awaits the close of a browser: it is then
\* in "browsers", and a key added meanwhile makes its next step throw.
Remaining ==
  IF disposing = "contexts" THEN {n \in BrowserName : browsers[n] # None} ELSE toVisit

AtBrowsers ==
  \/ disposing = "contexts" /\ toClose = {}
  \/ disposing = "browsers" /\ ~modified

DisposeBrowser(n) ==
  /\ AtBrowsers
  /\ n \in Remaining
  /\ disposing' = "browsers"
  /\ toVisit' = Remaining \ {n}
  /\ Disconnect({browsers[n]})
  /\ UNCHANGED <<session, toClose, modified, script>>

\* The enumerator finds that the dictionary has changed and throws.
FailDispose ==
  /\ disposing = "browsers"
  /\ modified
  /\ disposing' = "failed"
  /\ UNCHANGED <<session, toClose, toVisit, modified, script, drv>>

\* The driver goes, and everything in it; the gate forgets who waits for it.
FinishDispose ==
  /\ AtBrowsers
  /\ Remaining = {}
  /\ disposing' = "done"
  /\ browsers' = [n \in BrowserName |-> None]
  /\ driver' = "disposed"
  /\ live' = {}
  /\ open' = {}
  /\ gate' = IF gate = <<>> THEN <<>> ELSE <<Head(gate)>>
  /\ UNCHANGED <<disposed, contexts, toClose, toVisit, modified, script, launched, home,
                 opener, heard, notices, missed>>

-----------------------------------------------------------------------------
Init ==
  /\ disposed = FALSE /\ gate = <<>> /\ browsers = [n \in BrowserName |-> None]
  /\ contexts = {}
  /\ disposing = "no" /\ toClose = {} /\ toVisit = {} /\ modified = FALSE
  /\ phase = [s \in Script |-> "running"] /\ call = [s \in Script |-> "none"]
  /\ asked = [s \in Script |-> None] /\ handle = [s \in Script |-> None]
  /\ item = [s \in Script |-> None] /\ wrappers = [s \in Script |-> {}]
  /\ cancelled = {}
  /\ driver = "up" /\ live = {} /\ launched = {}
  /\ home = [c \in Context |-> None] /\ opener = [c \in Context |-> None]
  /\ open = {} /\ heard = {} /\ notices = {} /\ missed = {}

\* What the script does of its own accord.
Program(s) ==
  \/ \E n \in BrowserName : Launch(s, n)
  \/ NewContext(s)
  \/ \E c \in Context : phase[s] = "running" /\ Close(s, c)
  \/ \E why \in {"releasing", "finishing"} : BeginReleaseAll(s, why)

\* How a call it has made, or a ReleaseAll, goes on.
Progress(s) ==
  \/ ReuseBrowser(s) \/ StartLaunch(s) \/ FinishLaunch(s) \/ FailLaunch(s)
  \/ CheckCap(s) \/ CreateContext(s) \/ FailCreate(s) \/ RouteContext(s)
  \/ Subscribe(s) \/ AddContext(s)
  \/ CloseAsync(s) \/ FailClose(s) \/ Release(s)
  \/ \E c \in Context : phase[s] \in {"releasing", "finishing"} /\ Close(s, c)
  \/ EndReleaseAll(s)

DisposeAsync ==
  \/ BeginDispose
  \/ SnapshotContexts
  \/ \E c \in Context : DisposeContext(c)
  \/ \E n \in BrowserName : DisposeBrowser(n)
  \/ FailDispose
  \/ FinishDispose

Next ==
  \/ \E s \in Script : Program(s) \/ Progress(s) \/ Cancel(s)
  \/ \E b \in Browser : BrowserDies(b)
  \/ \E c \in Context : OnContextClosed(c)
  \/ DisposeAsync

Spec == Init /\ [][Next]_vars

\* Threads run, the driver answers every call (the launch has a timeout) and
\* delivers its events.  Nothing makes a script, a browser or the host act.
Fairness ==
  /\ \A s \in Script : WF_vars(Progress(s))
  /\ \A c \in Context : WF_vars(OnContextClosed(c))

FairSpec == Spec /\ Fairness
-----------------------------------------------------------------------------
(* Properties *)

TypeOK ==
  /\ disposed \in BOOLEAN
  /\ gate \in Seq(Script)
  /\ browsers \in [BrowserName -> Browser \cup {None}]
  /\ contexts \subseteq Context
  /\ disposing \in {"no", "lock", "contexts", "browsers", "done", "failed"}
  /\ toClose \subseteq Context /\ toVisit \subseteq BrowserName /\ modified \in BOOLEAN
  /\ phase \in [Script -> Phase] /\ call \in [Script -> Call]
  /\ asked \in [Script -> BrowserName \cup {None}]
  /\ handle \in [Script -> Browser \cup {None}]
  /\ item \in [Script -> Context \cup {None}]
  /\ wrappers \in [Script -> SUBSET Context]
  /\ cancelled \subseteq Script
  /\ driver \in {"up", "disposed"}
  /\ live \subseteq launched /\ launched \subseteq Browser
  /\ home \in [Context -> Browser \cup {None}]
  /\ opener \in [Context -> Script \cup {None}]
  /\ open \cup heard \cup notices \cup missed \subseteq Context

\* GetBrowserAsync: whatever the scripts ask for at the same time, every browser
\* that runs is the one the session holds for its name: none is launched twice,
\* and none is lost to the scripts or to DisposeAsync.
BrowsersShared ==
  /\ \A b \in live : \E n \in BrowserName : browsers[n] = b
  /\ \A n1, n2 \in BrowserName : browsers[n1] = browsers[n2] /\ browsers[n1] # None => n1 = n2

\* NewContextAsync checks the cap before the awaits and counts after them, so
\* scripts that pass the check together exceed it: by one less than their number.
CapOvershootBounded ==
  Script # {} => Cardinality(contexts) < MaxContexts + Cardinality(Script)

\* Release and OnContextClosed between them: a context that is closed and still
\* counted has its event on the way or a release about to run, unless it closed
\* before it was counted.
SlotsAccounted ==
  driver = "up" =>
    \A c \in contexts \ open :
      \/ c \in notices \cup missed
      \/ \E s \in Script : call[s] = "release" /\ item[s] = c

\* Bridge.ReleaseAll at the end of a run: none of its contexts stays open, even
\* when closing one of them throws, unless the host cancelled the run.
RunLeavesNothingOpen ==
  \A c \in open : opener[c] \in cancelled \/ phase[opener[c]] # "ended"

\* Bridge.Block: every call a script makes returns, one that waits for the gate
\* behind a launch that fails included.
CallsReturn == \A s \in Script : call[s] # "none" ~> call[s] = "none"

\* LifetimeTests: once a run has ended the slots of its contexts come back, also
\* those of contexts whose close threw.
SlotsReturned ==
  \A s \in Script :
    phase[s] = "ended" ~>
      \A c \in contexts \ missed : opener[c] = s => s \in cancelled

-----------------------------------------------------------------------------
(* What the documentation states and the code does not keep *)

\* "Checked before the context exists, so the cap is a bound on what is open".
CapBoundsOpen == Cardinality(open) <= MaxContexts

\* "Nothing a script does can outlive DisposeAsync".
NothingOutlivesDispose == disposing \in {"done", "failed"} => live = {} /\ open = {}

\* "A session disposed under a running script ... conditions the script can see":
\* a script that waits for the gate is answered.
WaiterAnswered == \A s \in Script : call[s] = "gate" ~> call[s] # "gate"
=============================================================================
