---------------------- MODULE PlaywrightSession_proofs ----------------------
(* What holds of the browser session for any number of scripts, browsers   *)
(* and contexts, and whatever happens around them.                         *)
EXTENDS PlaywrightSession, FiniteSetTheorems, TLAPS

Underway(s) == call[s] \in {"route", "subscribe", "add"}

\* Whoever launches a browser holds the gate and found none connected under the
\* name.  FinishLaunch relies on it: it gives the gate on without looking.
LaunchHoldsGate ==
  \A s \in Script :
    /\ call[s] \in {"gate", "launch"} => asked[s] \in BrowserName
    /\ call[s] = "launch" => HoldsGate(s) /\ ~Connected(asked[s])

CallHasContext ==
  \A s \in Script :
    Underway(s) \/ call[s] \in {"close", "release"} => item[s] \in Context

Calls == TypeOK /\ LaunchHoldsGate /\ CallHasContext

\* A new session has no call under way.
LEMMA InitCalls == Init => Calls
<1> SUFFICES ASSUME Init PROVE Calls
  OBVIOUS
<1>1. call = [s \in Script |-> "none"] /\ gate = <<>>
  BY DEF Init
<1>2. LaunchHoldsGate /\ CallHasContext
  BY <1>1 DEF LaunchHoldsGate, CallHasContext, Underway
<1>3. gate \in Seq(Script)
  BY <1>1
<1>4. TypeOK
  BY <1>3 DEF Init, TypeOK, Phase, Call
<1> QED BY <1>2, <1>4 DEF Calls

\* Types, and the exclusion that the gate gives.
LEMMA StepCalls == Calls /\ [Next]_vars => Calls'
<1> SUFFICES ASSUME Calls, [Next]_vars PROVE Calls'
  OBVIOUS
<1> USE DEF session, dispose, script, drv, Calls, TypeOK, LaunchHoldsGate, CallHasContext,
   HoldsGate, Connected, Phase, Call, Underway
<1>1. ASSUME NEW s \in Script, NEW n \in BrowserName, Launch(s, n)
      PROVE  Calls'
  BY <1>1 DEF Launch, Goto, Idle, MayCall
<1>2. ASSUME NEW s \in Script, NewContext(s)
      PROVE  Calls'
  BY <1>2 DEF NewContext, Goto, Idle, MayCall
<1>3. ASSUME NEW s \in Script, NEW why \in {"releasing", "finishing"}, BeginReleaseAll(s, why)
      PROVE  Calls'
  BY <1>3 DEF BeginReleaseAll, Idle
<1>4. ASSUME NEW s \in Script, ReuseBrowser(s)
      PROVE  Calls'
  BY <1>4 DEF ReuseBrowser, HoldsGate, Connected, Return, Goto
<1>5. ASSUME NEW s \in Script, StartLaunch(s)
      PROVE  Calls'
  BY <1>5 DEF StartLaunch, HoldsGate, Connected, Goto
<1>6. ASSUME NEW s \in Script, FinishLaunch(s)
      PROVE  Calls'
  BY <1>6 DEF FinishLaunch, Return, Goto
<1>7. ASSUME NEW s \in Script, FailLaunch(s)
      PROVE  Calls'
  BY <1>7 DEF FailLaunch, HoldsGate, Connected, Return, Goto
<1>8. ASSUME NEW s \in Script, CheckCap(s)
      PROVE  Calls'
  BY <1>8 DEF CheckCap, Goto
<1>9. ASSUME NEW s \in Script, CreateContext(s)
      PROVE  Calls'
  BY <1>9 DEF CreateContext, Goto
<1>10. ASSUME NEW s \in Script, FailCreate(s)
      PROVE  Calls'
  BY <1>10 DEF FailCreate, Return, Goto
<1>11. ASSUME NEW s \in Script, RouteContext(s)
      PROVE  Calls'
  BY <1>11 DEF RouteContext, Return, Goto
<1>12. ASSUME NEW s \in Script, Subscribe(s)
      PROVE  Calls'
  BY <1>12 DEF Subscribe, Goto
<1>13. ASSUME NEW s \in Script, AddContext(s)
      PROVE  Calls'
  BY <1>13 DEF AddContext, Return, Goto
<1>14. ASSUME NEW s \in Script, NEW c \in Context, Close(s, c)
      PROVE  Calls'
  BY <1>14 DEF Close, MayCall, Goto
<1>15. ASSUME NEW s \in Script, CloseAsync(s)
      PROVE  Calls'
  BY <1>15 DEF CloseAsync, CloseInDriver, Goto
<1>16. ASSUME NEW s \in Script, FailClose(s)
      PROVE  Calls'
  BY <1>16 DEF FailClose, Return, Goto
<1>17. ASSUME NEW s \in Script, Release(s)
      PROVE  Calls'
  BY <1>17 DEF Release, Return, Goto
<1>18. ASSUME NEW s \in Script, EndReleaseAll(s)
      PROVE  Calls'
  BY <1>18 DEF EndReleaseAll
<1>19. ASSUME NEW s \in Script, Cancel(s)
      PROVE  Calls'
  BY <1>19 DEF Cancel
<1>20. ASSUME NEW b \in Browser, BrowserDies(b)
      PROVE  Calls'
  BY <1>20 DEF BrowserDies, Disconnect
<1>21. ASSUME NEW c \in Context, OnContextClosed(c)
      PROVE  Calls'
  BY <1>21 DEF OnContextClosed
<1>22. ASSUME BeginDispose
      PROVE  Calls'
  BY <1>22 DEF BeginDispose
<1>23. ASSUME SnapshotContexts
      PROVE  Calls'
  BY <1>23 DEF SnapshotContexts
<1>24. ASSUME NEW c \in Context, DisposeContext(c)
      PROVE  Calls'
  BY <1>24 DEF DisposeContext, CloseInDriver
<1>25. ASSUME NEW n \in BrowserName, DisposeBrowser(n)
      PROVE  Calls'
  BY <1>25 DEF DisposeBrowser, AtBrowsers, Remaining, Disconnect
<1>26. ASSUME FailDispose
      PROVE  Calls'
  BY <1>26 DEF FailDispose
<1>27. ASSUME FinishDispose
      PROVE  Calls'
  BY <1>27 DEF FinishDispose, AtBrowsers, Remaining
<1>28. CASE UNCHANGED vars
  BY <1>28 DEF vars
<1> QED
  BY <1>1, <1>2, <1>3, <1>4, <1>5, <1>6, <1>7, <1>8, <1>9, <1>10, <1>11, <1>12, <1>13, <1>14,
     <1>15, <1>16, <1>17, <1>18, <1>19, <1>20, <1>21, <1>22, <1>23, <1>24, <1>25, <1>26, <1>27,
     <1>28
  DEF Next, Program, Progress, DisposeAsync

\* The type invariant of the session: its tables, its gate and the calls in
\* flight stay what they are declared to be in every interleaving.
THEOREM TypeCorrect == Spec => []TypeOK
<1>1. Spec => []Calls
  BY InitCalls, StepCalls, PTL DEF Spec
<1>2. Calls => TypeOK
  BY DEF Calls
<1> QED BY <1>1, <1>2, PTL

-----------------------------------------------------------------------------
\* Every browser the session holds was launched by it.
BrowsersLaunched == \A n \in BrowserName : browsers[n] \in launched \cup {None}

Shared == BrowsersShared /\ BrowsersLaunched

\* A browser is stored under its name in the step that launches it; what was there
\* before had gone, because the launcher holds the gate.
LEMMA StepShared == Calls /\ Shared /\ [Next]_vars => Shared'
<1> SUFFICES ASSUME Calls, Shared, [Next]_vars PROVE Shared'
  OBVIOUS
<1> USE SessionAssumption DEF session, dispose, script, drv, Calls, TypeOK, LaunchHoldsGate,
   HoldsGate, Connected, Shared, BrowsersShared, BrowsersLaunched
<1>1. ASSUME NEW s \in Script, NEW n \in BrowserName, Launch(s, n)
      PROVE  Shared'
  BY <1>1 DEF Launch, Goto, Idle, MayCall
<1>2. ASSUME NEW s \in Script, NewContext(s)
      PROVE  Shared'
  BY <1>2 DEF NewContext, Goto, Idle, MayCall
<1>3. ASSUME NEW s \in Script, NEW why \in {"releasing", "finishing"}, BeginReleaseAll(s, why)
      PROVE  Shared'
  BY <1>3 DEF BeginReleaseAll, Idle
<1>4. ASSUME NEW s \in Script, ReuseBrowser(s)
      PROVE  Shared'
  BY <1>4 DEF ReuseBrowser, HoldsGate, Connected, Return, Goto
<1>5. ASSUME NEW s \in Script, StartLaunch(s)
      PROVE  Shared'
  BY <1>5 DEF StartLaunch, HoldsGate, Connected, Goto
<1>6. ASSUME NEW s \in Script, FinishLaunch(s)
      PROVE  Shared'
  BY <1>6 DEF FinishLaunch, Return, Goto
<1>7. ASSUME NEW s \in Script, FailLaunch(s)
      PROVE  Shared'
  BY <1>7 DEF FailLaunch, HoldsGate, Connected, Return, Goto
<1>8. ASSUME NEW s \in Script, CheckCap(s)
      PROVE  Shared'
  BY <1>8 DEF CheckCap, Goto
<1>9. ASSUME NEW s \in Script, CreateContext(s)
      PROVE  Shared'
  BY <1>9 DEF CreateContext, Goto
<1>10. ASSUME NEW s \in Script, FailCreate(s)
      PROVE  Shared'
  BY <1>10 DEF FailCreate, Return, Goto
<1>11. ASSUME NEW s \in Script, RouteContext(s)
      PROVE  Shared'
  BY <1>11 DEF RouteContext, Return, Goto
<1>12. ASSUME NEW s \in Script, Subscribe(s)
      PROVE  Shared'
  BY <1>12 DEF Subscribe, Goto
<1>13. ASSUME NEW s \in Script, AddContext(s)
      PROVE  Shared'
  BY <1>13 DEF AddContext, Return, Goto
<1>14. ASSUME NEW s \in Script, NEW c \in Context, Close(s, c)
      PROVE  Shared'
  BY <1>14 DEF Close, MayCall, Goto
<1>15. ASSUME NEW s \in Script, CloseAsync(s)
      PROVE  Shared'
  BY <1>15 DEF CloseAsync, CloseInDriver, Goto
<1>16. ASSUME NEW s \in Script, FailClose(s)
      PROVE  Shared'
  BY <1>16 DEF FailClose, Return, Goto
<1>17. ASSUME NEW s \in Script, Release(s)
      PROVE  Shared'
  BY <1>17 DEF Release, Return, Goto
<1>18. ASSUME NEW s \in Script, EndReleaseAll(s)
      PROVE  Shared'
  BY <1>18 DEF EndReleaseAll
<1>19. ASSUME NEW s \in Script, Cancel(s)
      PROVE  Shared'
  BY <1>19 DEF Cancel
<1>20. ASSUME NEW b \in Browser, BrowserDies(b)
      PROVE  Shared'
  BY <1>20 DEF BrowserDies, Disconnect
<1>21. ASSUME NEW c \in Context, OnContextClosed(c)
      PROVE  Shared'
  BY <1>21 DEF OnContextClosed
<1>22. ASSUME BeginDispose
      PROVE  Shared'
  BY <1>22 DEF BeginDispose
<1>23. ASSUME SnapshotContexts
      PROVE  Shared'
  BY <1>23 DEF SnapshotContexts
<1>24. ASSUME NEW c \in Context, DisposeContext(c)
      PROVE  Shared'
  BY <1>24 DEF DisposeContext, CloseInDriver
<1>25. ASSUME NEW n \in BrowserName, DisposeBrowser(n)
      PROVE  Shared'
  BY <1>25 DEF DisposeBrowser, AtBrowsers, Remaining, Disconnect
<1>26. ASSUME FailDispose
      PROVE  Shared'
  BY <1>26 DEF FailDispose
<1>27. ASSUME FinishDispose
      PROVE  Shared'
  BY <1>27 DEF FinishDispose, AtBrowsers, Remaining
<1>28. CASE UNCHANGED vars
  BY <1>28 DEF vars
<1> QED
  BY <1>1, <1>2, <1>3, <1>4, <1>5, <1>6, <1>7, <1>8, <1>9, <1>10, <1>11, <1>12, <1>13, <1>14,
     <1>15, <1>16, <1>17, <1>18, <1>19, <1>20, <1>21, <1>22, <1>23, <1>24, <1>25, <1>26, <1>27,
     <1>28
  DEF Next, Program, Progress, DisposeAsync

\* GetBrowserAsync under any number of concurrent scripts, crashes and a disposal:
\* every browser that runs is the one the session holds for its name.
THEOREM BrowsersSharedCorrect == Spec => []BrowsersShared
<1>1. Init => Shared
  BY DEF Init, Shared, BrowsersShared, BrowsersLaunched
<1>2. Shared => BrowsersShared
  BY DEF Shared
<1> QED BY <1>1, <1>2, InitCalls, StepCalls, StepShared, PTL DEF Spec

-----------------------------------------------------------------------------
\* Each context belongs to the script it was created for; until it is counted no
\* one but its creator has it.
Known == {c \in Context : home[c] # None}

Ownership ==
  /\ open \cup contexts \cup toClose \cup heard \subseteq Known
  /\ \A s \in Script :
       /\ item[s] # None => item[s] \in Known /\ opener[item[s]] = s
       /\ \A c \in wrappers[s] : c \in Known /\ opener[c] = s
       /\ Underway(s) => item[s] \notin contexts \cup toClose \cup wrappers[s]

\* What is counted has its handler.
Handlers ==
  /\ contexts \cup toClose \subseteq heard
  /\ \A s \in Script : call[s] = "add" => item[s] \in heard

Owned == Ownership /\ Handlers

\* Ownership of the contexts, and where the handler has been attached.
LEMMA StepOwned == Calls /\ Owned /\ [Next]_vars => Owned'
<1> SUFFICES ASSUME Calls, Owned, [Next]_vars PROVE Owned'
  OBVIOUS
<1> USE SessionAssumption DEF session, dispose, script, drv, Calls, TypeOK, CallHasContext,
   Owned, Ownership, Handlers, Known, Underway
<1>1. ASSUME NEW s \in Script, NEW n \in BrowserName, Launch(s, n)
      PROVE  Owned'
  BY <1>1 DEF Launch, Goto, Idle, MayCall
<1>2. ASSUME NEW s \in Script, NewContext(s)
      PROVE  Owned'
  BY <1>2 DEF NewContext, Goto, Idle, MayCall
<1>3. ASSUME NEW s \in Script, NEW why \in {"releasing", "finishing"}, BeginReleaseAll(s, why)
      PROVE  Owned'
  BY <1>3 DEF BeginReleaseAll, Idle
<1>4. ASSUME NEW s \in Script, ReuseBrowser(s)
      PROVE  Owned'
  BY <1>4 DEF ReuseBrowser, HoldsGate, Connected, Return, Goto
<1>5. ASSUME NEW s \in Script, StartLaunch(s)
      PROVE  Owned'
  BY <1>5 DEF StartLaunch, HoldsGate, Connected, Goto
<1>6. ASSUME NEW s \in Script, FinishLaunch(s)
      PROVE  Owned'
  BY <1>6 DEF FinishLaunch, Return, Goto
<1>7. ASSUME NEW s \in Script, FailLaunch(s)
      PROVE  Owned'
  BY <1>7 DEF FailLaunch, HoldsGate, Connected, Return, Goto
<1>8. ASSUME NEW s \in Script, CheckCap(s)
      PROVE  Owned'
  BY <1>8 DEF CheckCap, Goto
<1>9. ASSUME NEW s \in Script, CreateContext(s)
      PROVE  Owned'
  BY <1>9 DEF CreateContext, Goto
<1>10. ASSUME NEW s \in Script, FailCreate(s)
      PROVE  Owned'
  BY <1>10 DEF FailCreate, Return, Goto
<1>11. ASSUME NEW s \in Script, RouteContext(s)
      PROVE  Owned'
  BY <1>11 DEF RouteContext, Return, Goto
<1>12. ASSUME NEW s \in Script, Subscribe(s)
      PROVE  Owned'
  BY <1>12 DEF Subscribe, Goto
<1>13. ASSUME NEW s \in Script, AddContext(s)
      PROVE  Owned'
  BY <1>13 DEF AddContext, Return, Goto
<1>14. ASSUME NEW s \in Script, NEW c \in Context, Close(s, c)
      PROVE  Owned'
  BY <1>14 DEF Close, MayCall, Goto
<1>15. ASSUME NEW s \in Script, CloseAsync(s)
      PROVE  Owned'
  BY <1>15 DEF CloseAsync, CloseInDriver, Goto
<1>16. ASSUME NEW s \in Script, FailClose(s)
      PROVE  Owned'
  BY <1>16 DEF FailClose, Return, Goto
<1>17. ASSUME NEW s \in Script, Release(s)
      PROVE  Owned'
  BY <1>17 DEF Release, Return, Goto
<1>18. ASSUME NEW s \in Script, EndReleaseAll(s)
      PROVE  Owned'
  BY <1>18 DEF EndReleaseAll
<1>19. ASSUME NEW s \in Script, Cancel(s)
      PROVE  Owned'
  BY <1>19 DEF Cancel
<1>20. ASSUME NEW b \in Browser, BrowserDies(b)
      PROVE  Owned'
  BY <1>20 DEF BrowserDies, Disconnect
<1>21. ASSUME NEW c \in Context, OnContextClosed(c)
      PROVE  Owned'
  BY <1>21 DEF OnContextClosed
<1>22. ASSUME BeginDispose
      PROVE  Owned'
  BY <1>22 DEF BeginDispose
<1>23. ASSUME SnapshotContexts
      PROVE  Owned'
  BY <1>23 DEF SnapshotContexts
<1>24. ASSUME NEW c \in Context, DisposeContext(c)
      PROVE  Owned'
  BY <1>24 DEF DisposeContext, CloseInDriver
<1>25. ASSUME NEW n \in BrowserName, DisposeBrowser(n)
      PROVE  Owned'
  BY <1>25 DEF DisposeBrowser, AtBrowsers, Remaining, Disconnect
<1>26. ASSUME FailDispose
      PROVE  Owned'
  BY <1>26 DEF FailDispose
<1>27. ASSUME FinishDispose
      PROVE  Owned'
  BY <1>27 DEF FinishDispose, AtBrowsers, Remaining
<1>28. CASE UNCHANGED vars
  BY <1>28 DEF vars
<1> QED
  BY <1>1, <1>2, <1>3, <1>4, <1>5, <1>6, <1>7, <1>8, <1>9, <1>10, <1>11, <1>12, <1>13, <1>14,
     <1>15, <1>16, <1>17, <1>18, <1>19, <1>20, <1>21, <1>22, <1>23, <1>24, <1>25, <1>26, <1>27,
     <1>28
  DEF Next, Program, Progress, DisposeAsync

\* A context on its way to be counted is open, or its closing was recorded.
Slots ==
  /\ driver = "up" => \A s \in Script : Underway(s) => item[s] \in open \cup missed
  /\ SlotsAccounted

\* A counted context closes with its event on the way, or before its release.
LEMMA StepSlots == Calls /\ Owned /\ Slots /\ [Next]_vars => Slots'
<1> SUFFICES ASSUME Calls, Owned, Slots, [Next]_vars PROVE Slots'
  OBVIOUS
<1> USE SessionAssumption DEF session, dispose, script, drv, Calls, TypeOK, CallHasContext,
   Owned, Ownership, Handlers, Slots, SlotsAccounted, Known, Underway, Building
<1>1. ASSUME NEW s \in Script, NEW n \in BrowserName, Launch(s, n)
      PROVE  Slots'
  BY <1>1 DEF Launch, Goto, Idle, MayCall
<1>2. ASSUME NEW s \in Script, NewContext(s)
      PROVE  Slots'
  BY <1>2 DEF NewContext, Goto, Idle, MayCall
<1>3. ASSUME NEW s \in Script, NEW why \in {"releasing", "finishing"}, BeginReleaseAll(s, why)
      PROVE  Slots'
  BY <1>3 DEF BeginReleaseAll, Idle
<1>4. ASSUME NEW s \in Script, ReuseBrowser(s)
      PROVE  Slots'
  BY <1>4 DEF ReuseBrowser, HoldsGate, Connected, Return, Goto
<1>5. ASSUME NEW s \in Script, StartLaunch(s)
      PROVE  Slots'
  BY <1>5 DEF StartLaunch, HoldsGate, Connected, Goto
<1>6. ASSUME NEW s \in Script, FinishLaunch(s)
      PROVE  Slots'
  BY <1>6 DEF FinishLaunch, Return, Goto
<1>7. ASSUME NEW s \in Script, FailLaunch(s)
      PROVE  Slots'
  BY <1>7 DEF FailLaunch, HoldsGate, Connected, Return, Goto
<1>8. ASSUME NEW s \in Script, CheckCap(s)
      PROVE  Slots'
  BY <1>8 DEF CheckCap, Goto
<1>9. ASSUME NEW s \in Script, CreateContext(s)
      PROVE  Slots'
  BY <1>9 DEF CreateContext, Goto
<1>10. ASSUME NEW s \in Script, FailCreate(s)
      PROVE  Slots'
  BY <1>10 DEF FailCreate, Return, Goto
<1>11. ASSUME NEW s \in Script, RouteContext(s)
      PROVE  Slots'
  BY <1>11 DEF RouteContext, Return, Goto
<1>12. ASSUME NEW s \in Script, Subscribe(s)
      PROVE  Slots'
  BY <1>12 DEF Subscribe, Goto
<1>13. ASSUME NEW s \in Script, AddContext(s)
      PROVE  Slots'
  BY <1>13 DEF AddContext, Return, Goto
<1>14. ASSUME NEW s \in Script, NEW c \in Context, Close(s, c)
      PROVE  Slots'
  BY <1>14 DEF Close, MayCall, Goto
<1>15. ASSUME NEW s \in Script, CloseAsync(s)
      PROVE  Slots'
  BY <1>15 DEF CloseAsync, CloseInDriver, Goto
<1>16. ASSUME NEW s \in Script, FailClose(s)
      PROVE  Slots'
  BY <1>16 DEF FailClose, Return, Goto
<1>17. ASSUME NEW s \in Script, Release(s)
      PROVE  Slots'
  BY <1>17 DEF Release, Return, Goto
<1>18. ASSUME NEW s \in Script, EndReleaseAll(s)
      PROVE  Slots'
  BY <1>18 DEF EndReleaseAll
<1>19. ASSUME NEW s \in Script, Cancel(s)
      PROVE  Slots'
  BY <1>19 DEF Cancel
<1>20. ASSUME NEW b \in Browser, BrowserDies(b)
      PROVE  Slots'
  BY <1>20 DEF BrowserDies, Disconnect
<1>21. ASSUME NEW c \in Context, OnContextClosed(c)
      PROVE  Slots'
  BY <1>21 DEF OnContextClosed
<1>22. ASSUME BeginDispose
      PROVE  Slots'
  BY <1>22 DEF BeginDispose
<1>23. ASSUME SnapshotContexts
      PROVE  Slots'
  BY <1>23 DEF SnapshotContexts
<1>24. ASSUME NEW c \in Context, DisposeContext(c)
      PROVE  Slots'
  BY <1>24 DEF DisposeContext, CloseInDriver
<1>25. ASSUME NEW n \in BrowserName, DisposeBrowser(n)
      PROVE  Slots'
  BY <1>25 DEF DisposeBrowser, AtBrowsers, Remaining, Disconnect
<1>26. ASSUME FailDispose
      PROVE  Slots'
  BY <1>26 DEF FailDispose
<1>27. ASSUME FinishDispose
      PROVE  Slots'
  BY <1>27 DEF FinishDispose, AtBrowsers, Remaining
<1>28. CASE UNCHANGED vars
  BY <1>28 DEF vars
<1> QED
  BY <1>1, <1>2, <1>3, <1>4, <1>5, <1>6, <1>7, <1>8, <1>9, <1>10, <1>11, <1>12, <1>13, <1>14,
     <1>15, <1>16, <1>17, <1>18, <1>19, <1>20, <1>21, <1>22, <1>23, <1>24, <1>25, <1>26, <1>27,
     <1>28
  DEF Next, Program, Progress, DisposeAsync

\* Release and OnContextClosed: a slot is held by a context that is open, about to
\* be released or about to be reported closed, unless it closed before it counted.
THEOREM SlotsAccountedCorrect == Spec => []SlotsAccounted
<1>1. Init => Owned /\ Slots
  BY DEF Init, Owned, Ownership, Handlers, Slots, SlotsAccounted, Known, Underway
<1>2. Slots => SlotsAccounted
  BY DEF Slots
<1> QED BY <1>1, <1>2, InitCalls, StepCalls, StepOwned, StepSlots, PTL DEF Spec

-----------------------------------------------------------------------------
\* Who will close an open context: its creator, who has it in its bridge or in the
\* call it makes, unless the host cancelled that run.
Tended ==
  /\ \A c \in open :
       /\ home[c] \in live
       /\ opener[c] \in Script
       /\ \/ opener[c] \in cancelled
          \/ c \in wrappers[opener[c]]
          \/ item[opener[c]] = c /\ (Underway(opener[c]) \/ call[opener[c]] = "close")
  /\ \A s \in Script : phase[s] = "ended" => call[s] = "none" /\ wrappers[s] = {}

\* An open context stays in the hands of its run until it is closed.
LEMMA StepTended == Calls /\ Owned /\ Tended /\ [Next]_vars => Tended'
<1> SUFFICES ASSUME Calls, Owned, Tended, [Next]_vars PROVE Tended'
  OBVIOUS
<1> USE SessionAssumption DEF session, dispose, script, drv, Calls, TypeOK, CallHasContext,
   Owned, Ownership, Known, Tended, Underway
<1>1. ASSUME NEW s \in Script, NEW n \in BrowserName, Launch(s, n)
      PROVE  Tended'
  BY <1>1 DEF Launch, Goto, Idle, MayCall
<1>2. ASSUME NEW s \in Script, NewContext(s)
      PROVE  Tended'
  BY <1>2 DEF NewContext, Goto, Idle, MayCall
<1>3. ASSUME NEW s \in Script, NEW why \in {"releasing", "finishing"}, BeginReleaseAll(s, why)
      PROVE  Tended'
  BY <1>3 DEF BeginReleaseAll, Idle
<1>4. ASSUME NEW s \in Script, ReuseBrowser(s)
      PROVE  Tended'
  BY <1>4 DEF ReuseBrowser, HoldsGate, Connected, Return, Goto
<1>5. ASSUME NEW s \in Script, StartLaunch(s)
      PROVE  Tended'
  BY <1>5 DEF StartLaunch, HoldsGate, Connected, Goto
<1>6. ASSUME NEW s \in Script, FinishLaunch(s)
      PROVE  Tended'
  BY <1>6 DEF FinishLaunch, Return, Goto
<1>7. ASSUME NEW s \in Script, FailLaunch(s)
      PROVE  Tended'
  BY <1>7 DEF FailLaunch, HoldsGate, Connected, Return, Goto
<1>8. ASSUME NEW s \in Script, CheckCap(s)
      PROVE  Tended'
  BY <1>8 DEF CheckCap, Goto
<1>9. ASSUME NEW s \in Script, CreateContext(s)
      PROVE  Tended'
  BY <1>9 DEF CreateContext, Goto
<1>10. ASSUME NEW s \in Script, FailCreate(s)
      PROVE  Tended'
  BY <1>10 DEF FailCreate, Return, Goto
<1>11. ASSUME NEW s \in Script, RouteContext(s)
      PROVE  Tended'
  BY <1>11 DEF RouteContext, Return, Goto
<1>12. ASSUME NEW s \in Script, Subscribe(s)
      PROVE  Tended'
  BY <1>12 DEF Subscribe, Goto
<1>13. ASSUME NEW s \in Script, AddContext(s)
      PROVE  Tended'
  BY <1>13 DEF AddContext, Return, Goto
<1>14. ASSUME NEW s \in Script, NEW c \in Context, Close(s, c)
      PROVE  Tended'
  BY <1>14 DEF Close, MayCall, Goto
<1>15. ASSUME NEW s \in Script, CloseAsync(s)
      PROVE  Tended'
  BY <1>15 DEF CloseAsync, CloseInDriver, Goto
<1>16. ASSUME NEW s \in Script, FailClose(s)
      PROVE  Tended'
  BY <1>16 DEF FailClose, Return, Goto
<1>17. ASSUME NEW s \in Script, Release(s)
      PROVE  Tended'
  BY <1>17 DEF Release, Return, Goto
<1>18. ASSUME NEW s \in Script, EndReleaseAll(s)
      PROVE  Tended'
  BY <1>18 DEF EndReleaseAll
<1>19. ASSUME NEW s \in Script, Cancel(s)
      PROVE  Tended'
  BY <1>19 DEF Cancel
<1>20. ASSUME NEW b \in Browser, BrowserDies(b)
      PROVE  Tended'
  BY <1>20 DEF BrowserDies, Disconnect
<1>21. ASSUME NEW c \in Context, OnContextClosed(c)
      PROVE  Tended'
  BY <1>21 DEF OnContextClosed
<1>22. ASSUME BeginDispose
      PROVE  Tended'
  BY <1>22 DEF BeginDispose
<1>23. ASSUME SnapshotContexts
      PROVE  Tended'
  BY <1>23 DEF SnapshotContexts
<1>24. ASSUME NEW c \in Context, DisposeContext(c)
      PROVE  Tended'
  BY <1>24 DEF DisposeContext, CloseInDriver
<1>25. ASSUME NEW n \in BrowserName, DisposeBrowser(n)
      PROVE  Tended'
  BY <1>25 DEF DisposeBrowser, AtBrowsers, Remaining, Disconnect
<1>26. ASSUME FailDispose
      PROVE  Tended'
  BY <1>26 DEF FailDispose
<1>27. ASSUME FinishDispose
      PROVE  Tended'
  BY <1>27 DEF FinishDispose, AtBrowsers, Remaining
<1>28. CASE UNCHANGED vars
  BY <1>28 DEF vars
<1> QED
  BY <1>1, <1>2, <1>3, <1>4, <1>5, <1>6, <1>7, <1>8, <1>9, <1>10, <1>11, <1>12, <1>13, <1>14,
     <1>15, <1>16, <1>17, <1>18, <1>19, <1>20, <1>21, <1>22, <1>23, <1>24, <1>25, <1>26, <1>27,
     <1>28
  DEF Next, Program, Progress, DisposeAsync

\* Bridge.ReleaseAll: a run that has ended without being cancelled has no context
\* open, however its calls, the crashes and the other scripts interleaved.
THEOREM RunLeavesNothingOpenCorrect == Spec => []RunLeavesNothingOpen
<1>1. Init => Owned /\ Tended
  BY DEF Init, Owned, Ownership, Handlers, Tended, Known, Underway
<1>2. Tended => RunLeavesNothingOpen
  BY DEF Tended, RunLeavesNothingOpen, Underway
<1> QED BY <1>1, <1>2, InitCalls, StepCalls, StepOwned, StepTended, PTL DEF Spec

-----------------------------------------------------------------------------
\* Scripts past the check whose context is not counted yet.
InFlight == {s \in Script : call[s] = "create" \/ Underway(s)}

CapInv ==
  Script # {} =>
    Cardinality(contexts) + Cardinality(InFlight) < MaxContexts + Cardinality(Script)

\* Contexts and calls in flight can be counted, and there are no more calls than scripts.
LEMMA Counts ==
  ASSUME Calls
  PROVE  /\ IsFiniteSet(contexts) /\ Cardinality(contexts) \in Nat
         /\ IsFiniteSet(InFlight) /\ Cardinality(InFlight) \in Nat
         /\ Cardinality(InFlight) <= Cardinality(Script) /\ Cardinality(Script) \in Nat
<1>1. contexts \subseteq Context /\ InFlight \subseteq Script
  BY DEF Calls, TypeOK, InFlight
<1> QED BY <1>1, SessionAssumption, FS_Subset, FS_CardinalityType

\* Nothing new is counted and nobody new is past the check.
LEMMA NoMoreInFlight ==
  ASSUME Calls, Calls', CapInv, contexts' \subseteq contexts, InFlight' \subseteq InFlight
  PROVE  CapInv'
<1>1. Cardinality(contexts') <= Cardinality(contexts)
  BY Counts, FS_Subset
<1>2. Cardinality(InFlight') <= Cardinality(InFlight)
  BY Counts, FS_Subset
<1>3. Cardinality(contexts') \in Nat /\ Cardinality(InFlight') \in Nat
  BY Counts, FS_Subset, FS_CardinalityType
<1> QED BY <1>1, <1>2, <1>3, Counts, SessionAssumption DEF CapInv

\* A call passes the check of the cap only below it.
LEMMA PassesCap ==
  ASSUME Calls, Calls', NEW s \in Script, CheckCap(s), CapInv
  PROVE  CapInv'
<1>1. CASE Cardinality(contexts) >= MaxContexts
  <2>1. contexts' = contexts /\ InFlight' \subseteq InFlight
    BY <1>1 DEF CheckCap, Goto, session, InFlight, Underway, Calls, TypeOK
  <2> QED BY <2>1, NoMoreInFlight
<1>2. CASE ~(Cardinality(contexts) >= MaxContexts)
  <2>1. Cardinality(contexts) < MaxContexts
    BY <1>2, Counts, SessionAssumption
  <2>2. InFlight' \subseteq Script /\ contexts' = contexts
    BY DEF CheckCap, session, InFlight
  <2>3. Cardinality(InFlight') <= Cardinality(Script) /\ Cardinality(InFlight') \in Nat
    BY <2>2, SessionAssumption, FS_Subset, FS_CardinalityType
  <2> QED BY <2>1, <2>2, <2>3, Counts, SessionAssumption DEF CapInv
<1> QED BY <1>1, <1>2

\* A context that is added was counted as a call in flight before.
LEMMA CountedOnce ==
  ASSUME Calls, Calls', NEW s \in Script, AddContext(s), CapInv
  PROVE  CapInv'
<1>1. InFlight' = InFlight \ {s} /\ s \in InFlight /\ contexts' = contexts \cup {item[s]}
  BY DEF AddContext, Return, Goto, InFlight, Underway, Calls, TypeOK
<1>2. Cardinality(InFlight') = Cardinality(InFlight) - 1
  BY <1>1, Counts, FS_RemoveElement
<1>3. Cardinality(contexts') <= Cardinality(contexts) + 1 /\ Cardinality(contexts') \in Nat
  <2>1. Cardinality(contexts \cup {item[s]})
          = IF item[s] \in contexts THEN Cardinality(contexts) ELSE Cardinality(contexts) + 1
    BY Counts, FS_AddElement
  <2> QED BY <1>1, <2>1, Counts
<1> QED BY <1>2, <1>3, Counts, SessionAssumption DEF CapInv

\* Each of the other steps leaves the count and the calls past the check, or
\* takes from them.
LEMMA StepCap == Calls /\ Calls' /\ CapInv /\ [Next]_vars => CapInv'
<1> SUFFICES ASSUME Calls, Calls', CapInv, [Next]_vars PROVE CapInv'
  OBVIOUS
<1> USE NoMoreInFlight DEF session, dispose, script, drv, InFlight, Underway, Calls, TypeOK
<1>1. ASSUME NEW s \in Script, NEW n \in BrowserName, Launch(s, n)
      PROVE  CapInv'
  BY <1>1 DEF Launch, Goto, Idle, MayCall
<1>2. ASSUME NEW s \in Script, NewContext(s)
      PROVE  CapInv'
  BY <1>2 DEF NewContext, Goto, Idle, MayCall
<1>3. ASSUME NEW s \in Script, NEW why \in {"releasing", "finishing"}, BeginReleaseAll(s, why)
      PROVE  CapInv'
  BY <1>3 DEF BeginReleaseAll, Idle
<1>4. ASSUME NEW s \in Script, ReuseBrowser(s)
      PROVE  CapInv'
  BY <1>4 DEF ReuseBrowser, HoldsGate, Connected, Return, Goto
<1>5. ASSUME NEW s \in Script, StartLaunch(s)
      PROVE  CapInv'
  BY <1>5 DEF StartLaunch, HoldsGate, Connected, Goto
<1>6. ASSUME NEW s \in Script, FinishLaunch(s)
      PROVE  CapInv'
  BY <1>6 DEF FinishLaunch, Return, Goto
<1>7. ASSUME NEW s \in Script, FailLaunch(s)
      PROVE  CapInv'
  BY <1>7 DEF FailLaunch, HoldsGate, Connected, Return, Goto
<1>8. ASSUME NEW s \in Script, CheckCap(s)
      PROVE  CapInv'
  BY <1>8, PassesCap
<1>9. ASSUME NEW s \in Script, CreateContext(s)
      PROVE  CapInv'
  BY <1>9 DEF CreateContext, Goto
<1>10. ASSUME NEW s \in Script, FailCreate(s)
      PROVE  CapInv'
  BY <1>10 DEF FailCreate, Return, Goto
<1>11. ASSUME NEW s \in Script, RouteContext(s)
      PROVE  CapInv'
  BY <1>11 DEF RouteContext, Return, Goto
<1>12. ASSUME NEW s \in Script, Subscribe(s)
      PROVE  CapInv'
  BY <1>12 DEF Subscribe, Goto
<1>13. ASSUME NEW s \in Script, AddContext(s)
      PROVE  CapInv'
  BY <1>13, CountedOnce
<1>14. ASSUME NEW s \in Script, NEW c \in Context, Close(s, c)
      PROVE  CapInv'
  BY <1>14 DEF Close, MayCall, Goto
<1>15. ASSUME NEW s \in Script, CloseAsync(s)
      PROVE  CapInv'
  BY <1>15 DEF CloseAsync, CloseInDriver, Goto
<1>16. ASSUME NEW s \in Script, FailClose(s)
      PROVE  CapInv'
  BY <1>16 DEF FailClose, Return, Goto
<1>17. ASSUME NEW s \in Script, Release(s)
      PROVE  CapInv'
  BY <1>17 DEF Release, Return, Goto
<1>18. ASSUME NEW s \in Script, EndReleaseAll(s)
      PROVE  CapInv'
  BY <1>18 DEF EndReleaseAll
<1>19. ASSUME NEW s \in Script, Cancel(s)
      PROVE  CapInv'
  BY <1>19 DEF Cancel
<1>20. ASSUME NEW b \in Browser, BrowserDies(b)
      PROVE  CapInv'
  BY <1>20 DEF BrowserDies, Disconnect
<1>21. ASSUME NEW c \in Context, OnContextClosed(c)
      PROVE  CapInv'
  BY <1>21 DEF OnContextClosed
<1>22. ASSUME BeginDispose
      PROVE  CapInv'
  BY <1>22 DEF BeginDispose
<1>23. ASSUME SnapshotContexts
      PROVE  CapInv'
  BY <1>23 DEF SnapshotContexts
<1>24. ASSUME NEW c \in Context, DisposeContext(c)
      PROVE  CapInv'
  BY <1>24 DEF DisposeContext, CloseInDriver
<1>25. ASSUME NEW n \in BrowserName, DisposeBrowser(n)
      PROVE  CapInv'
  BY <1>25 DEF DisposeBrowser, AtBrowsers, Remaining, Disconnect
<1>26. ASSUME FailDispose
      PROVE  CapInv'
  BY <1>26 DEF FailDispose
<1>27. ASSUME FinishDispose
      PROVE  CapInv'
  BY <1>27 DEF FinishDispose, AtBrowsers, Remaining
<1>28. CASE UNCHANGED vars
  BY <1>28 DEF vars
<1> QED
  BY <1>1, <1>2, <1>3, <1>4, <1>5, <1>6, <1>7, <1>8, <1>9, <1>10, <1>11, <1>12, <1>13, <1>14,
     <1>15, <1>16, <1>17, <1>18, <1>19, <1>20, <1>21, <1>22, <1>23, <1>24, <1>25, <1>26, <1>27,
     <1>28
  DEF Next, Program, Progress, DisposeAsync

\* NewContextAsync checks before its awaits and counts after them: n scripts exceed
\* the cap by less than n, so one script alone keeps it.
THEOREM CapOvershootCorrect == Spec => []CapOvershootBounded
<1>1. Init => CapInv
  <2> SUFFICES ASSUME Init, Script # {} PROVE Cardinality(contexts) + Cardinality(InFlight) <
     MaxContexts + Cardinality(Script)
    BY DEF CapInv
  <2>1. contexts = {} /\ InFlight = {}
    BY DEF Init, InFlight, Underway
  <2>2. Cardinality(Script) \in Nat /\ Cardinality(Script) # 0
    BY SessionAssumption, FS_CardinalityType, FS_EmptySet
  <2> QED BY <2>1, <2>2, FS_EmptySet, SessionAssumption
<1>2. Calls /\ CapInv => CapOvershootBounded
  <2> SUFFICES ASSUME Calls, CapInv PROVE CapOvershootBounded
    OBVIOUS
  <2> QED BY Counts, SessionAssumption DEF CapInv, CapOvershootBounded
<1> QED BY <1>1, <1>2, InitCalls, StepCalls, StepCap, PTL DEF Spec
=============================================================================
