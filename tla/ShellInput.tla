------------------------------ MODULE ShellInput ------------------------------
(***************************************************************************)
(* The standard input of a shell script.  The interpreter has a stream     *)
(* with a position that commands share, and hands text from method to      *)
(* method beside it, as a parameter.  Which of the two a command reads,    *)
(* and whose position moves, depends on the constructs around it.  The     *)
(* script is free: at any point a command runs, a construct is entered, or *)
(* the innermost one is left, by its end, a transfer or an exception.      *)
(***************************************************************************)
EXTENDS Naturals, FiniteSets, SequencesExt

CONSTANTS Lines,        \* lines of every file and every pipe
          MaxFiles,     \* bound on the files and pipes opened
          MaxFrames,    \* bound on the constructs open at once
          MaxStreams,   \* bound on the InputStream objects made
          Odd           \* the unusual shapes that the script may have, see Shapes

(***************************************************************************)
(* Shapes of scripts for which the position is known to go wrong, each     *)
(* left out unless Odd has it:                                             *)
(*   host        the host gives the script an input                        *)
(*   filter      a command that takes text (cat, grep) shares an input     *)
(*   function    a function is called where the input is shared            *)
(*   fragment    eval or $( ) where there is an input, an alias in a stage *)
(*   exec_lost   exec < file in a handler, a fragment, a function that has *)
(*               been given an input, or a construct that has redirections *)
(*               of its output only                                        *)
(*   exec_leaks  exec < file as a stage of a pipe                          *)
(*   exec_splits exec without an input, where the input is shared          *)
(***************************************************************************)
Shapes == {"host", "filter", "function", "fragment", "exec_lost", "exec_leaks", "exec_splits"}

ASSUME OddShapes == Odd \subseteq Shapes
ASSUME BoundsAreNatural ==
    {Lines, MaxFrames} \subseteq Nat /\ {MaxFiles, MaxStreams} \subseteq Nat \ {0}

VARIABLES frames,    \* the constructs that the interpreter is in, innermost last
          input,     \* _standardInput: the number of a stream, or None
          stdin,     \* the parameter of the node that is about to run: text, or None
          streams,   \* the InputStream objects
          given      \* history: of each file, the lines that commands were given

vars == <<frames, input, stdin, streams, given>>

None == 0
Files == DOMAIN given

(***************************************************************************)
(* Text is the tail of a file from some line on; a stream is text with a   *)
(* position, that is where its tail begins.                                *)
(***************************************************************************)
Text(file, from) == [file |-> file, from |-> from]
NoText == Text(None, 1)
Remaining == IF input = None THEN NoText ELSE streams[input]

\* Seeded fault: reading does not move the position.
ReadStays(s, n) == streams
\* Seeded fault: the end of the text is taken to be one further than it is.
MovedPast(s, n) == [streams EXCEPT ![s].from = IF @ + n > Lines THEN Lines + 2 ELSE @ + n]
MovedOn(s, n) == [streams EXCEPT ![s].from = @ + n]

Hand(text, n) ==
    given' = [given EXCEPT ![text.file] = @ \o [i \in 1 .. n |-> text.from + i - 1]]

OpenFile == given' = Append(given, <<>>)
CanOpen == Len(given) < MaxFiles
NewFile == Text(Len(given) + 1, 1)

CanStream == Len(streams) < MaxStreams
\* _standardInput = new InputStream(text)
Stream(text) ==
    /\ CanStream
    /\ streams' = Append(streams, text) /\ input' = Len(streams) + 1

Init ==
    /\ frames = <<>>
    /\ \/ input = None /\ stdin = NoText /\ streams = <<>> /\ given = <<>>
       \/ /\ "host" \in Odd
          /\ given = <<<<>>>> /\ stdin = Text(1, 1)
          /\ streams = <<stdin>> /\ input = 1

(***************************************************************************)
(* Frames.  The interpreter puts its stream back when it leaves a          *)
(* construct; an interpreter of its own (subshells, fragments, handlers)   *)
(* has had the stream of the one around it.                                *)
(***************************************************************************)
Kinds == {"input", "output", "group", "pipe", "subshell", "handler", "fragment"}
\* text: what a stage was given, or what the command around a fragment still is.
Frame(kind, text) == [kind |-> kind, saved |-> input, text |-> text]
Top == Last(frames)
Within(kinds) == frames /= <<>> /\ Top.kind \in kinds
CanEnter == Len(frames) < MaxFrames

\* A node may run: the stage of a pipe is one node.
Runs == ~Within({"pipe"}) \/ stdin /= NoText

Push(kind) == CanEnter /\ frames' = Append(frames, Frame(kind, NoText))

\* DispatchAsync: what a node reads that has no stream of its own.  With no text as its
\* parameter that is a copy of what is left of the shared input.
Source == IF stdin = NoText THEN Remaining ELSE stdin

\* ExecuteAsync: a construct that is given text shares it among its commands, and so
\* does the body of a function, whose text may be a copy.  Where there is no text at
\* all a function changes nothing here.
EnterGroup ==
    /\ Runs /\ Source /= NoText /\ Push("group")
    /\ stdin = NoText => "function" \in Odd
    /\ Stream(Source) /\ stdin' = NoText
    /\ UNCHANGED given

\* ExecuteCompoundAsync, with an input redirection or without.
EnterCompound ==
    /\ Runs /\ stdin = NoText
    /\ \/ Push("input") /\ CanOpen /\ Stream(NewFile) /\ OpenFile
       \/ Push("output") /\ UNCHANGED <<input, streams, given>>
    /\ UNCHANGED stdin

\* Seeded fault: the second stage gets what is left of the shell's input.
StageText == Remaining
PipeText == NewFile

\* ExecutePipelineAsync: the stages after the first.
EnterStage ==
    /\ Runs /\ stdin = NoText /\ CanEnter /\ CanOpen
    /\ stdin' = PipeText
    /\ frames' = Append(frames, Frame("pipe", stdin'))
    /\ OpenFile
    /\ UNCHANGED <<input, streams>>

\* Seeded fault: a subshell has a stream of its own over what is left.
ForkCopies == IF input = None THEN UNCHANGED <<input, streams>> ELSE Stream(Remaining)
ForkShares == UNCHANGED <<input, streams>>

\* ExecuteSubshellAsync; RunTrapAsync, whose handler is given no text.
EnterSubshell ==
    /\ Runs /\ stdin = NoText /\ Push("subshell")
    /\ ForkShares
    /\ UNCHANGED <<stdin, given>>
EnterHandler ==
    /\ Runs /\ stdin = NoText /\ Push("handler")
    /\ UNCHANGED <<input, stdin, streams, given>>

\* RunFragmentAsync, for the first command: an alias passes its own text on, eval and
\* source pass the copy as well.
EnterFragment ==
    /\ Runs /\ Push("fragment")
    /\ stdin' \in {stdin, Source}
    /\ stdin' /= NoText => "fragment" \in Odd
    /\ IF input = None /\ stdin' /= NoText
       THEN Stream(stdin') ELSE UNCHANGED <<input, streams>>
    /\ UNCHANGED given

\* RunSubstitutionAsync: $( ) is given what is left of the shell's input, whatever the
\* command that it belongs to is given; that command runs after it.
EnterSubstitution ==
    /\ Runs /\ CanEnter /\ frames' = Append(frames, Frame("fragment", stdin))
    /\ stdin' = Remaining
    /\ {stdin, stdin'} /= {NoText} => "fragment" \in Odd
    /\ UNCHANGED <<input, streams, given>>

\* Seeded fault: a construct with redirections keeps its stream.
KeptAfter == IF Top.kind \in {"pipe", "input"} THEN input ELSE Top.saved
InputAfter == IF Top.kind = "pipe" THEN input ELSE Top.saved

\* A stage that is one construct is over with it.
StageEnds == Within({"group"}) /\ Len(frames) > 1 /\ frames[Len(frames) - 1].kind = "pipe"

LeaveFrame ==
    /\ frames /= <<>>
    /\ frames' = IF StageEnds THEN Front(Front(frames)) ELSE Front(frames)
    /\ input' = InputAfter
    /\ stdin' = IF Top.kind = "fragment" THEN Top.text ELSE NoText
    /\ UNCHANGED <<streams, given>>

(***************************************************************************)
(* Simple commands.  With no text as its parameter a command gets both the *)
(* stream that is shared and a copy of what is left in it.                 *)
(***************************************************************************)
Left == IF Source = NoText THEN 0 ELSE Lines + 1 - Source.from
Ends == stdin' = NoText /\ UNCHANGED <<frames, input>>

\* read takes a line of the stream, mapfile all of them.
Read ==
    /\ Runs /\ Ends
    /\ \E n \in {1, Left} :
          IF n > Left \/ Left = 0
          THEN UNCHANGED <<streams, given>>
          ELSE /\ Hand(Source, n)
               /\ streams' = IF stdin = NoText THEN MovedOn(input, n) ELSE streams

\* A command that takes its input as text leaves the stream where it was.
Filter ==
    /\ Runs /\ Ends /\ Left > 0
    /\ stdin = NoText => "filter" \in Odd
    /\ Hand(Source, Left)
    /\ UNCHANGED streams

Ignores == Runs /\ stdin /= NoText /\ Ends /\ UNCHANGED <<streams, given>>

\* The descriptor of exec is gone with a frame that has none of its own.
Lost == Within(Kinds \ {"input", "pipe", "subshell"}) /\ ~StageEnds
Leaks == Within({"pipe"})
Shared == \E i \in DOMAIN frames : frames[i].saved = input

\* ExecBuiltin: the text of the redirection, or what is there, becomes the input.
ExecInput ==
    /\ Runs /\ CanOpen
    /\ Lost => "exec_lost" \in Odd
    /\ Leaks => "exec_leaks" \in Odd
    /\ Stream(NewFile) /\ OpenFile /\ stdin' = NoText
    /\ UNCHANGED frames
ExecNothing ==
    /\ Runs /\ Source /= NoText
    /\ Leaks => "exec_leaks" \in Odd
    /\ Shared => "exec_splits" \in Odd
    /\ Stream(Source) /\ stdin' = NoText
    /\ UNCHANGED <<frames, given>>

Next ==
    \/ EnterGroup \/ EnterCompound \/ EnterStage \/ EnterSubshell \/ EnterHandler
    \/ EnterFragment \/ EnterSubstitution \/ LeaveFrame
    \/ Read \/ Filter \/ Ignores \/ ExecInput \/ ExecNothing

Spec == Init /\ [][Next]_vars

(***************************************************************************)
(* Properties                                                              *)
(***************************************************************************)
\* Every frame, stream and text has its type.
TypeOK ==
    /\ frames \in Seq([kind : Kinds, saved : 0 .. MaxStreams,
                      text : [file : 0 .. MaxFiles, from : 1 .. Lines + 1]])
    /\ input \in 0 .. Len(streams)
    /\ stdin \in [file : 0 .. MaxFiles, from : 1 .. Lines + 1]
    /\ streams \in Seq([file : 1 .. MaxFiles, from : 1 .. Lines + 1])
    /\ given \in Seq(Seq(1 .. Lines))

(***************************************************************************)
(* The lines of an input are given out in order, each once: no command     *)
(* gets what another one has read already (InputStream, DispatchAsync).    *)
(***************************************************************************)
LinesOnce == \A f \in Files : given[f] = [i \in 1 .. Len(given[f]) |-> i]

(***************************************************************************)
(* Whatever constructs are entered, left by their end or in the middle,    *)
(* and whatever exec replaces, commands read as from descriptors: the      *)
(* interpreter's streams and parameters implement FileDescriptor.          *)
(***************************************************************************)
FileOf(stream, ss) == IF stream = None THEN None ELSE ss[stream].file
Owns(frame) == frame.kind \in {"input", "pipe", "subshell"}

\* Under the frames fs that own their input: the files of the streams around them.
Under(fs, ss) ==
    LET upto[n \in 0 .. Len(fs)] ==
            IF n = 0 THEN <<>>
            ELSE IF Owns(fs[n]) THEN Append(upto[n - 1], FileOf(fs[n].saved, ss))
            ELSE upto[n - 1]
    IN  upto[Len(fs)]

Current == IF Within({"pipe"}) THEN Top.text.file
           ELSE IF stdin /= NoText THEN stdin.file ELSE FileOf(input, streams)

Descriptor == INSTANCE FileDescriptor
    WITH NoFile <- None, taken <- given, scopes <- Append(Under(frames, streams), Current)

ImplementsDescriptor == Descriptor!Spec
=============================================================================
