---------------------------- MODULE ShellInput_proofs ----------------------------
(***************************************************************************)
(* The shell's streams and parameters are of their types for any script,   *)
(* and without the odd shapes they behave as descriptors over open files   *)
(* do: every line is given out once, in order, and what a construct takes  *)
(* for its input is back as it was when the construct is left.             *)
(*                                                                         *)
(* The argument: of the streams that the interpreter has, or will put      *)
(* back, no two have the same file, and each stands where the lines given  *)
(* out of its file end; a text that is handed on by itself is of a file    *)
(* that nobody has read; and a construct without an input of its own has   *)
(* above it the stream that it will put back.                              *)
(***************************************************************************)
EXTENDS ShellInput, FiniteSums, SequenceTheorems, TLAPS

-----------------------------------------------------------------------------
StreamType == [file : 1 .. MaxFiles, from : 1 .. Lines + 1]
TextType == [file : 0 .. MaxFiles, from : 1 .. Lines + 1]
FrameType == [kind : Kinds, saved : 0 .. MaxStreams, text : TextType]

\* A parameter of a node that is a text of a file that there is, or none.
Passes(sd, gs) == sd \in TextType /\ sd.file <= Len(gs) /\ (sd.file = None => sd = NoText)

\* What is of its type in a state, and of a file or a stream that there is.
Typed(fs, in, sd, ss, gs) ==
    /\ fs \in Seq(FrameType) /\ in \in 0 .. Len(ss) /\ sd \in TextType
    /\ ss \in Seq(StreamType) /\ gs \in Seq(Seq(1 .. Lines))
    /\ Len(gs) <= MaxFiles /\ Len(ss) <= MaxStreams
    /\ \A i \in 1 .. Len(fs) : fs[i].saved <= Len(ss) /\ Passes(fs[i].text, gs)
    /\ \A s \in 1 .. Len(ss) : ss[s].file <= Len(gs)
    /\ sd.file <= Len(gs) /\ (sd.file = None => sd = NoText)

TInv == Typed(frames, input, stdin, streams, given)

\* The streams that commands may come to read.
Live(fs, in) == ({in} \cup {fs[i].saved : i \in 1 .. Len(fs)}) \ {None}

\* The stream that the commands right within frame i find.
Above(fs, in, i) == IF i = Len(fs) THEN in ELSE fs[i + 1].saved

Transparent == Kinds \ {"input", "subshell", "group"}

\* A group is a stage, a stage is one node, and what has no input of its own shares one;
\* no command around a fragment has been given a text.
Nested(fs, in) ==
    \A i \in 1 .. Len(fs) :
        /\ fs[i].kind = "group" => i > 1 /\ fs[i - 1].kind = "pipe"
        /\ fs[i].kind = "pipe" => (i = Len(fs) \/ fs[i + 1].kind = "group") /\ fs[i].text.file /= None
        /\ fs[i].kind = "fragment" => fs[i].text = NoText
        /\ fs[i].kind \in Transparent => Above(fs, in, i) = fs[i].saved

\* A stream stands where the lines that were given out end, and has its file for itself.
Placed(L, ss, gs) ==
    /\ \A s \in L : s \in 1 .. Len(ss) /\ ss[s].from = Len(gs[ss[s].file]) + 1
    /\ \A s, t \in L : ss[s].file = ss[t].file => s = t

\* A text that is handed on by itself is what a stage gets, and new.
Handed(L, fs, sd, ss, gs) ==
    sd /= NoText =>
        /\ Len(fs) > 0 /\ fs[Len(fs)].kind = "pipe" /\ fs[Len(fs)].text.file = sd.file
        /\ sd.file \in 1 .. Len(gs) /\ sd.from = 1 /\ gs[sd.file] = <<>>
        /\ \A s \in L : ss[s].file /= sd.file

Counting(gs) == \A f \in 1 .. Len(gs) : \A i \in 1 .. Len(gs[f]) : gs[f][i] = i

IInv ==
    /\ TInv /\ Nested(frames, input)
    /\ Placed(Live(frames, input), streams, given)
    /\ Handed(Live(frames, input), frames, stdin, streams, given)
    /\ Counting(given)

-----------------------------------------------------------------------------
\* ---- sequences ----

\* Appending an element leaves the others where they are.
LEMMA Appended ==
  ASSUME NEW S, NEW s \in Seq(S), NEW e \in S
  PROVE  /\ Append(s, e) \in Seq(S) /\ Append(s, e) /= <<>>
         /\ Len(Append(s, e)) = Len(s) + 1
         /\ DOMAIN Append(s, e) = 1 .. Len(s) + 1
         /\ \A j \in 1 .. Len(s) + 1 : Append(s, e)[j] = IF j = Len(s) + 1 THEN e ELSE s[j]
         /\ Len(s) \in Nat /\ DOMAIN s = 1 .. Len(s)
         /\ \A j \in 1 .. Len(s) : s[j] \in S
  <1>1. /\ Append(s, e) \in Seq(S)
        /\ Len(Append(s, e)) = Len(s) + 1
        /\ DOMAIN Append(s, e) = 1 .. Len(s) + 1
        /\ \A j \in 1 .. Len(s) + 1 : Append(s, e)[j] = IF j = Len(s) + 1 THEN e ELSE s[j]
        /\ Len(s) \in Nat /\ DOMAIN s = 1 .. Len(s)
        /\ \A j \in 1 .. Len(s) : s[j] \in S
    BY AppendProperties, LenProperties, ElementOfSeq
  <1>2. Append(s, e) /= <<>>
    BY <1>1, EmptySeq
  <1> QED BY <1>1, <1>2

\* Removing the last element of a sequence leaves the others where they are.
LEMMA Fronted ==
  ASSUME NEW S, NEW s \in Seq(S), s /= <<>>
  PROVE  /\ Front(s) \in Seq(S) /\ Len(Front(s)) = Len(s) - 1
         /\ DOMAIN Front(s) = 1 .. Len(s) - 1 /\ DOMAIN s = 1 .. Len(s)
         /\ \A i \in 1 .. Len(s) - 1 : Front(s)[i] = s[i]
         /\ Len(s) \in Nat \ {0} /\ Len(s) - 1 \in Nat /\ Len(s) \in 1 .. Len(s)
         /\ Last(s) = s[Len(s)] /\ \A i \in 1 .. Len(s) : s[i] \in S
         /\ Front(s) = <<>> <=> Len(s) = 1
  <1> DEFINE n == Len(s) - 1
  <1>1. /\ Len(s) \in Nat \ {0} /\ n \in Nat /\ Len(s) = n + 1 /\ Len(s) \in 1 .. Len(s)
        /\ DOMAIN s = 1 .. Len(s)
    BY EmptySeq, LenProperties
  <1>2. \A i \in 1 .. Len(s) : s[i] \in S
    BY ElementOfSeq
  <1>3. Front(s) = SubSeq(s, 1, n)
    BY DEF Front
  <1> HIDE DEF n
  <1>4. /\ SubSeq(s, 1, n) \in Seq(S)
        /\ Len(SubSeq(s, 1, n)) = IF 1 <= n THEN n - 1 + 1 ELSE 0
        /\ \A i \in 1 .. n - 1 + 1 : SubSeq(s, 1, n)[i] = s[1 + i - 1]
    BY <1>1, <1>2, SubSeqProperties
  <1>5. Len(SubSeq(s, 1, n)) = n /\ \A i \in 1 .. n : SubSeq(s, 1, n)[i] = s[i]
    <2>1. n - 1 + 1 = n /\ \A i \in 1 .. n : 1 + i - 1 = i
      BY <1>1
    <2> QED BY <1>1, <1>4, <2>1
  <1>6. DOMAIN SubSeq(s, 1, n) = 1 .. n
    BY <1>4, <1>5, LenProperties
  <1>7. SubSeq(s, 1, n) = <<>> <=> n = 0
    BY <1>1, <1>4, <1>5, EmptySeq
  <1>8. Last(s) = s[Len(s)]
    BY DEF Last
  <1>9. n = Len(s) - 1 /\ (n = 0 <=> Len(s) = 1)
    BY <1>1
  <1> QED BY <1>1, <1>2, <1>3, <1>4, <1>5, <1>6, <1>7, <1>8, <1>9
-----------------------------------------------------------------------------
\* ---- the parts of the state, and the moves that actions are made of ----

\* The bounds are numbers, and the first texts are texts.
LEMMA Bounds ==
  /\ Lines \in Nat /\ MaxFiles \in Nat \ {0} /\ MaxFrames \in Nat /\ MaxStreams \in Nat \ {0}
  /\ NoText \in TextType /\ NoText.file = None /\ NoText.from = 1
  <1>1. Lines \in Nat /\ MaxFiles \in Nat \ {0} /\ MaxFrames \in Nat /\ MaxStreams \in Nat \ {0}
    BY BoundsAreNatural
  <1>2. None \in 0 .. MaxFiles /\ 1 \in 1 .. Lines + 1
    BY <1>1 DEF None
  <1> QED BY <1>1, <1>2 DEF NoText, Text, TextType

\* What is in a typed state.
LEMMA Parts ==
  ASSUME TInv
  PROVE  /\ frames \in Seq(FrameType) /\ Len(frames) \in Nat /\ DOMAIN frames = 1 .. Len(frames)
         /\ \A i \in 1 .. Len(frames) : /\ frames[i] \in FrameType /\ frames[i].kind \in Kinds
                                        /\ frames[i].saved \in 0 .. Len(streams)
                                        /\ Passes(frames[i].text, given)
                                        /\ frames[i].text.file \in 0 .. Len(given)
         /\ streams \in Seq(StreamType) /\ Len(streams) \in Nat /\ Len(streams) <= MaxStreams
         /\ \A s \in 1 .. Len(streams) : /\ streams[s] \in StreamType /\ streams[s] /= NoText
                                         /\ streams[s].file \in 1 .. Len(given)
                                         /\ streams[s].from \in 1 .. Lines + 1
         /\ given \in Seq(Seq(1 .. Lines)) /\ Len(given) \in Nat /\ Len(given) <= MaxFiles
         /\ Files = 1 .. Len(given) /\ \A f \in 1 .. Len(given) : given[f] \in Seq(1 .. Lines)
         /\ input \in 0 .. Len(streams) /\ stdin \in TextType
         /\ stdin /= NoText => stdin \in StreamType /\ stdin.file \in 1 .. Len(given)
  <1>1. /\ frames \in Seq(FrameType) /\ streams \in Seq(StreamType) /\ given \in Seq(Seq(1 .. Lines))
        /\ Len(given) <= MaxFiles /\ Len(streams) <= MaxStreams
        /\ \A i \in 1 .. Len(frames) : frames[i].saved <= Len(streams) /\ Passes(frames[i].text, given)
        /\ \A s \in 1 .. Len(streams) : streams[s].file <= Len(given)
        /\ input \in 0 .. Len(streams) /\ stdin \in TextType
        /\ stdin.file <= Len(given) /\ (stdin.file = None => stdin = NoText)
    BY DEF TInv, Typed
  <1>2. /\ Len(frames) \in Nat /\ DOMAIN frames = 1 .. Len(frames)
        /\ \A i \in 1 .. Len(frames) : frames[i] \in FrameType
    BY <1>1, LenProperties, ElementOfSeq
  <1>3. Len(streams) \in Nat /\ \A s \in 1 .. Len(streams) : streams[s] \in StreamType
    BY <1>1, LenProperties, ElementOfSeq
  <1>4. /\ Len(given) \in Nat /\ DOMAIN given = 1 .. Len(given)
        /\ \A f \in 1 .. Len(given) : given[f] \in Seq(1 .. Lines)
    BY <1>1, LenProperties, ElementOfSeq
  <1>5. \A i \in 1 .. Len(frames) : /\ frames[i].saved \in 0 .. Len(streams)
                                    /\ frames[i].text.file \in 0 .. Len(given)
                                    /\ frames[i].kind \in Kinds
    BY <1>1, <1>2, <1>3, <1>4 DEF FrameType, TextType, Passes
  <1>6. \A s \in 1 .. Len(streams) : /\ streams[s] /= NoText /\ streams[s].file \in 1 .. Len(given)
                                     /\ streams[s].from \in 1 .. Lines + 1
    BY <1>1, <1>3, <1>4, Bounds DEF StreamType, None
  <1>7. stdin /= NoText => stdin \in StreamType /\ stdin.file \in 1 .. Len(given)
    BY <1>1, <1>4, Bounds DEF StreamType, TextType, None
  <1>8. Files = 1 .. Len(given)
    BY <1>4 DEF Files
  <1> QED BY <1>1, <1>2, <1>3, <1>4, <1>5, <1>6, <1>7, <1>8

\* What is left of the input, and what a command reads, is the rest of a file that was opened.
LEMMA Sources ==
  ASSUME TInv
  PROVE  /\ Remaining \in TextType /\ Source \in TextType
         /\ Remaining = NoText <=> input = None
         /\ input /= None => Remaining = streams[input] /\ input \in 1 .. Len(streams)
         /\ Remaining /= NoText => Remaining \in StreamType /\ Remaining.file \in 1 .. Len(given)
         /\ Source /= NoText => /\ Source \in StreamType /\ Source.file \in 1 .. Len(given)
                                /\ Source.from \in 1 .. Lines + 1 /\ Left = Lines + 1 - Source.from
         /\ Source = NoText => Left = 0
         /\ Left \in 0 .. Lines
  <1>1. /\ input \in 0 .. Len(streams) /\ Len(streams) \in Nat /\ stdin \in TextType
        /\ \A s \in 1 .. Len(streams) : /\ streams[s] \in StreamType /\ streams[s] /= NoText
                                        /\ streams[s].file \in 1 .. Len(given)
        /\ stdin /= NoText => stdin \in StreamType /\ stdin.file \in 1 .. Len(given)
    BY Parts
  <1>2. StreamType \subseteq TextType /\ NoText \in TextType /\ Lines \in Nat
    BY Bounds DEF StreamType, TextType
  <1>3. input /= None => Remaining = streams[input] /\ input \in 1 .. Len(streams)
    BY <1>1 DEF Remaining, None
  <1>4. input = None => Remaining = NoText
    BY DEF Remaining
  <1>5. /\ Remaining \in TextType
        /\ Remaining = NoText <=> input = None
        /\ Remaining /= NoText => Remaining \in StreamType /\ Remaining.file \in 1 .. Len(given)
    BY <1>1, <1>2, <1>3, <1>4
  <1>6. /\ Source \in TextType
        /\ Source /= NoText => Source \in StreamType /\ Source.file \in 1 .. Len(given)
    BY <1>1, <1>5 DEF Source
  <1>7. Source /= NoText => Source.from \in 1 .. Lines + 1 /\ Left = Lines + 1 - Source.from
    BY <1>6 DEF Left, StreamType
  <1>8. Source = NoText => Left = 0
    BY DEF Left
  <1>9. Left \in 0 .. Lines
    BY <1>2, <1>7, <1>8
  <1> QED BY <1>3, <1>5, <1>6, <1>7, <1>8, <1>9

\* A stream is made.
LEMMA Streamed ==
  ASSUME TInv, NEW text \in StreamType, Stream(text)
  PROVE  /\ streams' \in Seq(StreamType) /\ Len(streams') = Len(streams) + 1
         /\ Len(streams') <= MaxStreams /\ Len(streams) \in Nat
         /\ input' = Len(streams) + 1 /\ input' \in 1 .. Len(streams')
         /\ \A s \in 1 .. Len(streams') : streams'[s] = IF s = Len(streams) + 1 THEN text ELSE streams[s]
  <1>1. Len(streams) < MaxStreams /\ streams' = Append(streams, text) /\ input' = Len(streams) + 1
    BY DEF Stream, CanStream
  <1>2. streams \in Seq(StreamType) /\ Len(streams) \in Nat /\ MaxStreams \in Nat
    BY Parts, Bounds
  <1>3. /\ streams' \in Seq(StreamType) /\ Len(streams') = Len(streams) + 1
        /\ \A s \in 1 .. Len(streams) + 1 : streams'[s] = IF s = Len(streams) + 1 THEN text ELSE streams[s]
    BY <1>1, <1>2, Appended
  <1> QED BY <1>1, <1>2, <1>3

\* A file is opened.
LEMMA Opening ==
  ASSUME TInv, CanOpen, OpenFile
  PROVE  /\ given' \in Seq(Seq(1 .. Lines)) /\ Len(given') = Len(given) + 1 /\ Len(given') <= MaxFiles
         /\ \A f \in 1 .. Len(given') : given'[f] = IF f = Len(given) + 1 THEN <<>> ELSE given[f]
         /\ NewFile \in StreamType /\ NewFile.file = Len(given) + 1 /\ NewFile.from = 1
         /\ NewFile /= NoText
  <1>1. given \in Seq(Seq(1 .. Lines)) /\ Len(given) \in Nat /\ Len(given) < MaxFiles
    BY Parts DEF CanOpen
  <1>2. <<>> \in Seq(1 .. Lines)
    BY EmptySeq
  <1>3. /\ given' \in Seq(Seq(1 .. Lines)) /\ Len(given') = Len(given) + 1
        /\ \A f \in 1 .. Len(given) + 1 : given'[f] = IF f = Len(given) + 1 THEN <<>> ELSE given[f]
    BY <1>1, <1>2, Appended DEF OpenFile
  <1>4. Len(given) + 1 \in 1 .. MaxFiles /\ 1 \in 1 .. Lines + 1 /\ Len(given) + 1 /= None
    BY <1>1, Bounds DEF None
  <1>5. NewFile \in StreamType /\ NewFile.file = Len(given) + 1 /\ NewFile.from = 1
    BY <1>4 DEF NewFile, Text, StreamType
  <1> QED BY <1>1, <1>3, <1>4, <1>5, Bounds

\* A construct is entered.
LEMMA Pushing ==
  ASSUME TInv, NEW kind \in Kinds, NEW own \in TextType, frames' = Append(frames, Frame(kind, own))
  PROVE  /\ frames' \in Seq(FrameType) /\ Len(frames') = Len(frames) + 1 /\ Len(frames) \in Nat
         /\ \A i \in 1 .. Len(frames) : frames'[i] = frames[i]
         /\ frames'[Len(frames) + 1] = Frame(kind, own) /\ Frame(kind, own) \in FrameType
         /\ Frame(kind, own).kind = kind /\ Frame(kind, own).text = own
         /\ Frame(kind, own).saved = input
  <1>1. frames \in Seq(FrameType) /\ Len(frames) \in Nat
    BY Parts
  <1>2. input \in 0 .. MaxStreams
    BY Parts, Bounds
  <1>3. Frame(kind, own) \in FrameType /\ Frame(kind, own).kind = kind
        /\ Frame(kind, own).text = own /\ Frame(kind, own).saved = input
    BY <1>2 DEF Frame, FrameType
  <1>4. /\ frames' \in Seq(FrameType) /\ Len(frames') = Len(frames) + 1
        /\ \A i \in 1 .. Len(frames) + 1 :
              frames'[i] = IF i = Len(frames) + 1 THEN Frame(kind, own) ELSE frames[i]
    BY <1>1, <1>3, Appended
  <1> QED BY <1>1, <1>3, <1>4

\* Lines are given out.
LEMMA Handing ==
  ASSUME TInv, NEW text \in StreamType, text.file \in 1 .. Len(given),
         NEW n \in 1 .. Lines + 1 - text.from, Hand(text, n)
  PROVE  /\ given' \in Seq(Seq(1 .. Lines)) /\ Len(given') = Len(given)
         /\ \A f \in 1 .. Len(given) : f /= text.file => given'[f] = given[f]
         /\ Len(given'[text.file]) = Len(given[text.file]) + n
         /\ \A i \in 1 .. Len(given[text.file]) + n :
               given'[text.file][i] = IF i <= Len(given[text.file]) THEN given[text.file][i]
                                      ELSE text.from + (i - Len(given[text.file])) - 1
  <1> DEFINE f == text.file
             more == [i \in 1 .. n |-> text.from + i - 1]
  <1>1. /\ given \in Seq(Seq(1 .. Lines)) /\ given[f] \in Seq(1 .. Lines) /\ Lines \in Nat
        /\ text.from \in 1 .. Lines + 1 /\ Len(given[f]) \in Nat
    BY Parts, Bounds, LenProperties DEF StreamType
  <1>2. n \in Nat /\ \A i \in 1 .. n : text.from + i - 1 \in 1 .. Lines
    BY <1>1
  <1>3. more \in [1 .. n -> 1 .. Lines] /\ \A i \in 1 .. n : more[i] = text.from + i - 1
    BY <1>2
  <1>4. more \in Seq(1 .. Lines) /\ Len(more) = n
    <2> HIDE DEF more
    <2>1. more \in Seq(1 .. Lines)
      BY <1>2, <1>3, SeqDef
    <2> QED BY <1>2, <1>3, <2>1, LenProperties
  <1>5. given' = [given EXCEPT ![f] = given[f] \o more]
    BY DEF Hand
  <1> HIDE DEF more, f
  <1>6. /\ given[f] \o more \in Seq(1 .. Lines) /\ Len(given[f] \o more) = Len(given[f]) + n
        /\ \A i \in 1 .. Len(given[f]) + n :
              (given[f] \o more)[i] = IF i <= Len(given[f]) THEN given[f][i] ELSE more[i - Len(given[f])]
    BY <1>1, <1>4, ConcatProperties
  <1>7. f \in 1 .. Len(given)
    BY DEF f
  <1>8. /\ given' \in Seq(Seq(1 .. Lines)) /\ Len(given') = Len(given)
        /\ \A g \in 1 .. Len(given) : given'[g] = IF g = f THEN given[f] \o more ELSE given[g]
    <2> DEFINE new == given[f] \o more
               S == Seq(1 .. Lines)
    <2>1. /\ new \in S /\ given \in Seq(S) /\ f \in 1 .. Len(given)
          /\ given' = [given EXCEPT ![f] = new]
      BY <1>1, <1>5, <1>6, <1>7
    <2> HIDE DEF new, S
    <2>2. /\ given' \in Seq(S) /\ Len(given') = Len(given)
          /\ \A g \in 1 .. Len(given) : given'[g] = IF g = f THEN new ELSE given[g]
      BY <2>1, ExceptSeq
    <2> QED BY <2>2 DEF new, S
  <1>9. \A i \in 1 .. Len(given[f]) + n :
           given'[f][i] = IF i <= Len(given[f]) THEN given[f][i]
                          ELSE text.from + (i - Len(given[f])) - 1
    <2> TAKE i \in 1 .. Len(given[f]) + n
    <2>1. given'[f][i] = IF i <= Len(given[f]) THEN given[f][i] ELSE more[i - Len(given[f])]
      BY <1>6, <1>7, <1>8
    <2>2. CASE i <= Len(given[f])
      BY <2>1, <2>2
    <2>3. CASE ~(i <= Len(given[f]))
      <3>1. i - Len(given[f]) \in 1 .. n
        BY <1>1, <1>2, <2>3
      <3> QED BY <1>3, <2>1, <2>3, <3>1
    <2> QED BY <2>2, <2>3
  <1> QED BY <1>6, <1>7, <1>8, <1>9 DEF f

\* A stream is read from.
LEMMA Moving ==
  ASSUME TInv, NEW s \in 1 .. Len(streams), NEW n \in Nat, streams[s].from + n <= Lines + 1,
         streams' = MovedOn(s, n)
  PROVE  /\ streams' \in Seq(StreamType) /\ Len(streams') = Len(streams)
         /\ \A t \in 1 .. Len(streams) : /\ streams'[t].file = streams[t].file
                                         /\ t /= s => streams'[t].from = streams[t].from
         /\ streams'[s].from = streams[s].from + n
  <1> DEFINE text == [streams[s] EXCEPT !.from = @ + n]
  <1>1. /\ streams \in Seq(StreamType) /\ streams[s] \in StreamType /\ Lines \in Nat
        /\ streams[s].from \in 1 .. Lines + 1
    BY Parts, Bounds
  <1>2. streams[s].from + n \in 1 .. Lines + 1
    BY <1>1
  <1>3. text \in StreamType /\ text.file = streams[s].file /\ text.from = streams[s].from + n
    BY <1>1, <1>2 DEF StreamType
  <1>4. streams' = [streams EXCEPT ![s] = text]
    BY DEF MovedOn
  <1> HIDE DEF text
  <1>5. /\ streams' \in Seq(StreamType) /\ Len(streams') = Len(streams)
        /\ \A t \in 1 .. Len(streams) : streams'[t] = IF t = s THEN text ELSE streams[t]
    BY <1>1, <1>3, <1>4, ExceptSeq
  <1> QED BY <1>3, <1>5
-----------------------------------------------------------------------------
\* ---- the types, for any script ----

\* Streams and files are only ever added to.
Grows ==
  /\ streams' \in Seq(StreamType) /\ Len(streams') <= MaxStreams /\ Len(streams) <= Len(streams')
  /\ given' \in Seq(Seq(1 .. Lines)) /\ Len(given') <= MaxFiles /\ Len(given) <= Len(given')
  /\ \A s \in 1 .. Len(streams') : streams'[s].file <= Len(given')

\* Nothing is made.
LEMMA GrowsNot == ASSUME TInv, UNCHANGED <<streams, given>> PROVE Grows
  BY Parts DEF Grows, TInv, Typed

\* A stream is made over a text of a file that there is.
LEMMA GrowsStream ==
  ASSUME TInv, NEW text \in StreamType, text.file <= Len(given), Stream(text), UNCHANGED given
  PROVE  Grows
  <1>1. /\ streams' \in Seq(StreamType) /\ Len(streams') = Len(streams) + 1
        /\ Len(streams') <= MaxStreams
        /\ \A s \in 1 .. Len(streams') :
              streams'[s] = IF s = Len(streams) + 1 THEN text ELSE streams[s]
    BY Streamed
  <1>2. /\ Len(streams) \in Nat /\ Len(given) \in Nat /\ given \in Seq(Seq(1 .. Lines))
        /\ Len(given) <= MaxFiles /\ \A s \in 1 .. Len(streams) : streams[s].file \in 1 .. Len(given)
    BY Parts
  <1>3. \A s \in 1 .. Len(streams') : streams'[s].file <= Len(given)
    <2> TAKE s \in 1 .. Len(streams')
    <2>1. CASE s = Len(streams) + 1
      BY <1>1, <2>1
    <2>2. CASE s /= Len(streams) + 1
      <3>1. s \in 1 .. Len(streams)
        BY <1>1, <1>2, <2>2
      <3>2. streams'[s] = streams[s]
        BY <1>1, <2>2
      <3>3. streams[s].file \in 1 .. Len(given)
        BY <1>2, <3>1
      <3> QED BY <1>2, <3>2, <3>3
    <2> QED BY <2>1, <2>2
  <1>4. Len(streams) <= Len(streams') /\ Len(given) <= Len(given') /\ given' = given
    BY <1>1, <1>2
  <1> QED BY <1>1, <1>2, <1>3, <1>4 DEF Grows

\* A file is opened.
LEMMA GrowsFile ==
  ASSUME TInv, CanOpen, OpenFile, UNCHANGED streams
  PROVE  Grows
  BY Parts, Opening DEF Grows

\* A file is opened, and a stream made over it.
LEMMA GrowsBoth ==
  ASSUME TInv, CanOpen, OpenFile, Stream(NewFile)
  PROVE  Grows
  <1>1. NewFile \in StreamType /\ NewFile.file = Len(given) + 1
        /\ given' \in Seq(Seq(1 .. Lines)) /\ Len(given') = Len(given) + 1 /\ Len(given') <= MaxFiles
    BY Opening
  <1>2. /\ streams' \in Seq(StreamType) /\ Len(streams') = Len(streams) + 1
        /\ Len(streams') <= MaxStreams
        /\ \A s \in 1 .. Len(streams') :
              streams'[s] = IF s = Len(streams) + 1 THEN NewFile ELSE streams[s]
    BY <1>1, Streamed
  <1>3. Len(streams) \in Nat /\ Len(given) \in Nat
        /\ \A s \in 1 .. Len(streams) : streams[s].file \in 1 .. Len(given)
    BY Parts
  <1>4. \A s \in 1 .. Len(streams') : streams'[s].file <= Len(given')
    <2> TAKE s \in 1 .. Len(streams')
    <2>1. CASE s = Len(streams) + 1
      BY <1>1, <1>2, <1>3, <2>1
    <2>2. CASE s /= Len(streams) + 1
      <3>1. s \in 1 .. Len(streams) /\ streams'[s] = streams[s]
        BY <1>2, <1>3, <2>2
      <3>2. streams[s].file \in 1 .. Len(given)
        BY <1>3, <3>1
      <3> QED BY <1>1, <1>3, <3>1, <3>2
    <2> QED BY <2>1, <2>2
  <1> QED BY <1>1, <1>2, <1>3, <1>4 DEF Grows

\* No text is a parameter like any other.
LEMMA PassesNothing == ASSUME TInv PROVE Passes(NoText, given) /\ (Grows => Passes(NoText, given'))
  <1>1. Len(given) \in Nat /\ (given' \in Seq(Seq(1 .. Lines)) => Len(given') \in Nat)
    BY Parts, LenProperties
  <1> QED BY <1>1, Bounds DEF Passes, None, Grows

\* Files are only added to, so that what was passed may be passed later.
LEMMA PassesGrow == ASSUME TInv, Grows, NEW sd, Passes(sd, given) PROVE Passes(sd, given')
  <1>1. Len(given) \in Nat /\ Len(given') \in Nat /\ sd.file \in Nat
    BY Parts, LenProperties DEF Grows, TextType, Passes
  <1> QED BY <1>1 DEF Passes, Grows

\* A parameter that stays is still one.
LEMMA PassesStill == ASSUME TInv, Grows, UNCHANGED stdin PROVE Passes(stdin', given')
  <1>1. Passes(stdin, given)
    BY DEF TInv, Typed, Passes
  <1> QED BY <1>1, PassesGrow

\* A construct is entered, or none.
LEMMA PushTyped ==
  ASSUME TInv, Grows, NEW kind \in Kinds, NEW own \in TextType, Passes(own, given'),
         frames' = Append(frames, Frame(kind, own)),
         input' \in 0 .. Len(streams'), Passes(stdin', given')
  PROVE  TInv'
  <1>1. /\ frames' \in Seq(FrameType) /\ Len(frames') = Len(frames) + 1 /\ Len(frames) \in Nat
        /\ \A i \in 1 .. Len(frames) : frames'[i] = frames[i]
        /\ frames'[Len(frames) + 1].saved = input /\ frames'[Len(frames) + 1].text = own
    BY Pushing
  <1>2. Len(streams) \in Nat /\ Len(given) \in Nat /\ input \in 0 .. Len(streams)
        /\ Len(streams') \in Nat /\ Len(given') \in Nat
    BY Parts, LenProperties DEF Grows
  <1>3. \A i \in 1 .. Len(frames') : frames'[i].saved <= Len(streams') /\ Passes(frames'[i].text, given')
    <2> TAKE i \in 1 .. Len(frames')
    <2>1. CASE i = Len(frames) + 1
      BY <1>1, <1>2, <2>1 DEF Grows
    <2>2. CASE i /= Len(frames) + 1
      <3>1. i \in 1 .. Len(frames) /\ frames'[i] = frames[i]
        BY <1>1, <2>2
      <3>2. frames[i].saved \in 0 .. Len(streams) /\ Passes(frames[i].text, given')
        BY <3>1, Parts, PassesGrow
      <3> QED BY <1>2, <3>1, <3>2 DEF Grows
    <2> QED BY <2>1, <2>2
  <1> QED BY <1>1, <1>3 DEF TInv, Typed, Grows, Passes

\* The frames stay, and the streams grow.
LEMMA StayTyped ==
  ASSUME TInv, Grows, UNCHANGED frames, input' \in 0 .. Len(streams'), Passes(stdin', given')
  PROVE  TInv'
  <1>1. Len(streams) \in Nat /\ Len(given) \in Nat /\ Len(streams') \in Nat /\ Len(given') \in Nat
    BY Parts, LenProperties DEF Grows
  <1>2. \A i \in 1 .. Len(frames) : frames[i].saved <= Len(streams') /\ Passes(frames[i].text, given')
    <2> TAKE i \in 1 .. Len(frames)
    <2>1. frames[i].saved \in 0 .. Len(streams) /\ Passes(frames[i].text, given')
      BY Parts, PassesGrow
    <2> QED BY <1>1, <2>1 DEF Grows
  <1>3. frames \in Seq(FrameType)
    BY Parts
  <1> QED BY <1>2, <1>3 DEF TInv, Typed, Grows, Passes

\* The stream that there is stays one.
LEMMA InputStill == ASSUME TInv, Grows, UNCHANGED input PROVE input' \in 0 .. Len(streams')
  <1>1. input \in 0 .. Len(streams) /\ Len(streams) \in Nat /\ Len(streams') \in Nat
    BY Parts, LenProperties DEF Grows
  <1> QED BY <1>1 DEF Grows

\* What the frames are when one, or a stage with its one construct, is left.
LEMMA Leaving ==
  ASSUME TInv, LeaveFrame
  PROVE  /\ frames /= <<>> /\ Len(frames) \in Nat \ {0} /\ Top = frames[Len(frames)]
         /\ frames' \in Seq(FrameType) /\ Len(frames') = Len(frames) - (IF StageEnds THEN 2 ELSE 1)
         /\ Len(frames') \in Nat /\ \A i \in 1 .. Len(frames') : frames'[i] = frames[i]
         /\ stdin' = IF Top.kind = "fragment" THEN Top.text ELSE NoText
         /\ streams' = streams /\ given' = given
         /\ input' = IF Top.kind = "pipe" THEN input ELSE Top.saved
  <1>1. /\ frames /= <<>> /\ streams' = streams /\ given' = given
        /\ stdin' = IF Top.kind = "fragment" THEN Top.text ELSE NoText
        /\ frames' = (IF StageEnds THEN Front(Front(frames)) ELSE Front(frames))
        /\ input' = IF Top.kind = "pipe" THEN input ELSE Top.saved
    BY DEF LeaveFrame, InputAfter
  <1>2. /\ Len(frames) \in Nat \ {0} /\ Top = frames[Len(frames)]
        /\ Front(frames) \in Seq(FrameType) /\ Len(Front(frames)) = Len(frames) - 1
        /\ \A i \in 1 .. Len(frames) - 1 : Front(frames)[i] = frames[i]
    BY <1>1, Parts, Fronted DEF Top
  <1>3. CASE StageEnds
    <2>1. Len(frames) > 1
      BY <1>3 DEF StageEnds
    <2>2. Front(frames) /= <<>>
      <3>1. Len(Front(frames)) /= 0
        BY <1>2, <2>1
      <3> QED BY <3>1, EmptySeq
    <2>3. /\ Front(Front(frames)) \in Seq(FrameType)
          /\ Len(Front(Front(frames))) = Len(Front(frames)) - 1
          /\ \A i \in 1 .. Len(Front(frames)) - 1 : Front(Front(frames))[i] = Front(frames)[i]
      BY <1>2, <2>2, Fronted
    <2>4. frames' = Front(Front(frames)) /\ Len(frames') = Len(frames) - 2 /\ Len(frames') \in Nat
      BY <1>1, <1>2, <1>3, <2>1, <2>3
    <2>5. \A i \in 1 .. Len(frames') : frames'[i] = frames[i]
      BY <1>2, <2>3, <2>4
    <2> QED BY <1>1, <1>2, <1>3, <2>3, <2>4, <2>5
  <1>4. CASE ~StageEnds
    BY <1>1, <1>2, <1>4
  <1> QED BY <1>3, <1>4

\* A construct that is left keeps the types.
LEMMA LeaveTyped == ASSUME TInv, LeaveFrame PROVE TInv'
  <1>1. /\ Len(frames) \in Nat \ {0} /\ Top = frames[Len(frames)] /\ frames' \in Seq(FrameType)
        /\ Len(frames') \in Nat /\ Len(frames') <= Len(frames)
        /\ \A i \in 1 .. Len(frames') : frames'[i] = frames[i]
        /\ stdin' = IF Top.kind = "fragment" THEN Top.text ELSE NoText
        /\ streams' = streams /\ given' = given
        /\ input' = IF Top.kind = "pipe" THEN input ELSE Top.saved
    BY Leaving
  <1>2. Len(frames) \in 1 .. Len(frames)
    BY <1>1
  <1>3. input' \in 0 .. Len(streams')
    <2>1. Top.saved \in 0 .. Len(streams) /\ input \in 0 .. Len(streams)
      BY <1>1, <1>2, Parts
    <2> QED BY <1>1, <2>1
  <1>4. \A i \in 1 .. Len(frames') : frames'[i].saved <= Len(streams') /\ Passes(frames'[i].text, given')
    <2> TAKE i \in 1 .. Len(frames')
    <2>1. i \in 1 .. Len(frames) /\ frames'[i] = frames[i]
      BY <1>1
    <2>2. frames[i].saved <= Len(streams) /\ Passes(frames[i].text, given)
      BY <2>1 DEF TInv, Typed
    <2> QED BY <1>1, <2>1, <2>2
  <1>5. Grows /\ Passes(stdin', given')
    <2>1. Passes(NoText, given) /\ Passes(Top.text, given)
      BY <1>1, <1>2, Parts, PassesNothing
    <2> QED BY <1>1, <2>1, GrowsNot
  <1> QED BY <1>1, <1>3, <1>4, <1>5 DEF TInv, Typed, Grows, Passes

\* Commands that read keep the types, and a command reads at most what is left.
LEMMA HandTyped ==
  ASSUME TInv, NEW n \in 1 .. Left, Hand(Source, n), Ends,
         streams' = streams \/ (stdin = NoText /\ streams' = MovedOn(input, n))
  PROVE  TInv'
  <1>1. /\ Source \in StreamType /\ Source.file \in 1 .. Len(given)
        /\ n \in 1 .. Lines + 1 - Source.from
    BY Sources, Bounds
  <1>2. given' \in Seq(Seq(1 .. Lines)) /\ Len(given') = Len(given)
    BY <1>1, Handing
  <1>3. streams' \in Seq(StreamType) /\ Len(streams') = Len(streams)
        /\ \A s \in 1 .. Len(streams) : streams'[s].file = streams[s].file
    <2>1. CASE streams' = streams
      BY <2>1, Parts
    <2>2. CASE stdin = NoText /\ streams' = MovedOn(input, n)
      <3>1. Source = Remaining /\ Source /= NoText
        BY <2>2, Sources, Bounds DEF Source
      <3>2. input \in 1 .. Len(streams) /\ Source = streams[input]
        BY <3>1, Sources
      <3>3. n \in Nat /\ streams[input].from + n <= Lines + 1
        BY <1>1, <3>2, Bounds DEF StreamType
      <3> QED BY <2>2, <3>2, <3>3, Moving
    <2> QED BY <2>1, <2>2
  <1>4. frames' = frames /\ input' = input /\ stdin' = NoText
    BY DEF Ends
  <1>5. /\ \A s \in 1 .. Len(streams') : streams'[s].file <= Len(given')
        /\ \A i \in 1 .. Len(frames') : frames'[i].saved <= Len(streams') /\ Passes(frames'[i].text, given')
    BY <1>2, <1>3, <1>4 DEF TInv, Typed, Passes
  <1>6. Passes(stdin', given')
    BY <1>2, <1>4, PassesNothing DEF Passes
  <1> QED BY <1>2, <1>3, <1>4, <1>5, <1>6, Parts DEF TInv, Typed, Passes

\* What reading gives: a line or all that is left, of the stream that is moved with it.
LEMMA Reads ==
  ASSUME TInv, Read
  PROVE  /\ Runs /\ Ends
         /\ \/ UNCHANGED <<streams, given>>
            \/ \E n \in {1, Left} : /\ n \in 1 .. Left /\ Hand(Source, n)
                                    /\ streams' = IF stdin = NoText THEN MovedOn(input, n) ELSE streams
  <1>1. Runs /\ Ends
    BY DEF Read
  <1>2. PICK n \in {1, Left} :
           IF n > Left \/ Left = 0
           THEN UNCHANGED <<streams, given>>
           ELSE /\ Hand(Source, n)
                /\ streams' = IF stdin = NoText THEN MovedOn(input, n) ELSE streams
    BY DEF Read
  <1>3. CASE n > Left \/ Left = 0
    BY <1>1, <1>2, <1>3
  <1>4. CASE ~(n > Left \/ Left = 0)
    <2>1. n \in 1 .. Left
      BY <1>4, Sources, Bounds
    <2> QED BY <1>1, <1>2, <1>4, <2>1
  <1> QED BY <1>3, <1>4

\* Every action keeps the types.
LEMMA NextTyped == ASSUME TInv, Next PROVE TInv'
  <1> USE DEF Kinds
  <1>0. /\ NoText \in TextType /\ None <= Len(given) /\ Len(given) \in Nat
        /\ Passes(NoText, given) /\ (Grows => Passes(NoText, given'))
    BY Bounds, Parts, PassesNothing DEF None
  <1>1. CASE EnterGroup
    <2>1. Source /= NoText /\ Push("group") /\ Stream(Source) /\ stdin' = NoText /\ UNCHANGED given
      BY <1>1 DEF EnterGroup
    <2>2. Source \in StreamType /\ Source.file \in 1 .. Len(given)
      BY <2>1, Sources
    <2>3. Grows
      BY <1>0, <2>1, <2>2, GrowsStream
    <2>4. input' \in 0 .. Len(streams')
      BY <2>1, <2>2, Streamed
    <2> QED BY <1>0, <2>1, <2>3, <2>4, PushTyped DEF Push
  <1>2. CASE EnterCompound
    <2>1. UNCHANGED stdin
      BY <1>2 DEF EnterCompound
    <2>2. CASE Push("input") /\ CanOpen /\ Stream(NewFile) /\ OpenFile
      <3>1. Grows
        BY <2>2, GrowsBoth
      <3>2. NewFile \in StreamType /\ Len(given) <= Len(given')
        BY <2>2, <3>1, Opening DEF Grows
      <3>3. input' \in 0 .. Len(streams')
        BY <2>2, <3>2, Streamed
      <3>4. Passes(stdin', given')
        BY <2>1, <3>1, PassesStill
      <3> QED BY <1>0, <2>2, <3>1, <3>3, <3>4, PushTyped DEF Push
    <2>3. CASE Push("output") /\ UNCHANGED <<input, streams, given>>
      <3>1. Grows
        BY <2>3, GrowsNot
      <3>2. input' \in 0 .. Len(streams') /\ Passes(stdin', given')
        BY <2>1, <2>3, <3>1, InputStill, PassesStill
      <3> QED BY <1>0, <2>3, <3>1, <3>2, PushTyped DEF Push
    <2> QED BY <1>2, <2>2, <2>3 DEF EnterCompound
  <1>3. CASE EnterStage
    <2>1. /\ CanOpen /\ stdin' = NewFile /\ OpenFile /\ UNCHANGED <<input, streams>>
          /\ frames' = Append(frames, Frame("pipe", NewFile))
      BY <1>3 DEF EnterStage, PipeText
    <2>2. Grows
      BY <2>1, GrowsFile
    <2>3. /\ NewFile \in StreamType /\ NewFile.file = Len(given) + 1 /\ Len(given') = Len(given) + 1
          /\ Len(given') <= MaxFiles
      BY <2>1, Opening
    <2>4. NewFile.file \in 0 .. MaxFiles /\ NewFile.file <= Len(given') /\ NewFile.file /= None
      BY <1>0, <2>3, Bounds DEF None
    <2>5. NewFile \in TextType
      BY <2>3, <2>4 DEF StreamType, TextType
    <2>6. Passes(NewFile, given')
      BY <2>4, <2>5 DEF Passes
    <2>7. input' \in 0 .. Len(streams')
      BY <2>1, <2>2, InputStill
    <2> QED BY <2>1, <2>2, <2>5, <2>6, <2>7, PushTyped
  <1>4. CASE EnterSubshell
    <2>1. Push("subshell") /\ UNCHANGED <<input, streams, stdin, given>>
      BY <1>4 DEF EnterSubshell, ForkShares
    <2>2. Grows
      BY <2>1, GrowsNot
    <2>3. input' \in 0 .. Len(streams') /\ Passes(stdin', given')
      BY <2>1, <2>2, InputStill, PassesStill
    <2> QED BY <1>0, <2>1, <2>2, <2>3, PushTyped DEF Push
  <1>5. CASE EnterHandler
    <2>1. Push("handler") /\ UNCHANGED <<input, streams, stdin, given>>
      BY <1>5 DEF EnterHandler
    <2>2. Grows
      BY <2>1, GrowsNot
    <2>3. input' \in 0 .. Len(streams') /\ Passes(stdin', given')
      BY <2>1, <2>2, InputStill, PassesStill
    <2> QED BY <1>0, <2>1, <2>2, <2>3, PushTyped DEF Push
  <1>6. CASE EnterSubstitution
    <2>1. /\ frames' = Append(frames, Frame("fragment", stdin)) /\ stdin' = Remaining
          /\ UNCHANGED <<input, streams, given>>
      BY <1>6 DEF EnterSubstitution
    <2>2. Grows
      BY <2>1, GrowsNot
    <2>3. Passes(stdin, given) /\ stdin \in TextType
      BY DEF TInv, Typed, Passes
    <2>4. Passes(stdin', given')
      <3>1. CASE Remaining = NoText
        BY <1>0, <2>1, <2>2, <3>1
      <3>2. CASE Remaining /= NoText
        <4>1. Remaining \in TextType /\ Remaining.file \in 1 .. Len(given)
          BY <3>2, Sources
        <4> QED BY <1>0, <2>1, <4>1 DEF Passes, None
      <3> QED BY <3>1, <3>2
    <2>5. input' \in 0 .. Len(streams')
      BY <2>1, <2>2, InputStill
    <2> QED BY <2>1, <2>2, <2>3, <2>4, <2>5, PushTyped
  <1>7. CASE EnterFragment
    <2>1. Push("fragment") /\ stdin' \in {stdin, Source} /\ UNCHANGED given
      BY <1>7 DEF EnterFragment
    <2>2. /\ stdin' \in TextType
          /\ stdin' /= NoText => stdin' \in StreamType /\ stdin'.file \in 1 .. Len(given)
      BY <2>1, Sources, Parts
    <2>3. Passes(stdin', given')
      <3>1. CASE stdin' = NoText
        BY <1>0, <2>1, <3>1
      <3>2. CASE stdin' /= NoText
        BY <1>0, <2>1, <2>2, <3>2 DEF Passes, None
      <3> QED BY <3>1, <3>2
    <2>4. CASE stdin' /= NoText /\ Stream(stdin')
      <3>1. Grows
        BY <1>0, <2>1, <2>2, <2>4, GrowsStream
      <3>2. input' \in 0 .. Len(streams')
        BY <2>2, <2>4, Streamed
      <3> QED BY <1>0, <2>1, <2>3, <3>1, <3>2, PushTyped DEF Push
    <2>5. CASE UNCHANGED <<input, streams>>
      <3>1. Grows
        BY <2>1, <2>5, GrowsNot
      <3>2. input' \in 0 .. Len(streams')
        BY <2>5, <3>1, InputStill
      <3> QED BY <1>0, <2>1, <2>3, <3>1, <3>2, PushTyped DEF Push
    <2> QED BY <1>7, <2>4, <2>5 DEF EnterFragment
  <1>8. CASE LeaveFrame
    BY <1>8, LeaveTyped
  <1>9. CASE Read
    <2>1. Ends
      BY <1>9, Reads
    <2>2. CASE UNCHANGED <<streams, given>>
      <3>1. Grows /\ UNCHANGED <<frames, input>> /\ stdin' = NoText
        BY <2>1, <2>2, GrowsNot DEF Ends
      <3>2. input' \in 0 .. Len(streams') /\ Passes(stdin', given')
        BY <1>0, <2>2, <3>1, InputStill
      <3> QED BY <3>1, <3>2, StayTyped
    <2>3. ASSUME NEW n \in 1 .. Left, Hand(Source, n),
                 streams' = IF stdin = NoText THEN MovedOn(input, n) ELSE streams
          PROVE  TInv'
      BY <2>1, <2>3, HandTyped
    <2> QED BY <1>9, <2>2, <2>3, Reads
  <1>10. CASE Filter
    <2>1. Ends /\ Left > 0 /\ Hand(Source, Left) /\ streams' = streams
      BY <1>10 DEF Filter
    <2>2. Left \in 1 .. Left
      BY <2>1, Sources, Bounds
    <2> QED BY <2>1, <2>2, HandTyped
  <1>11. CASE Ignores
    <2>1. Grows /\ UNCHANGED <<frames, input, given>> /\ stdin' = NoText
      BY <1>11, GrowsNot DEF Ignores, Ends
    <2>2. input' \in 0 .. Len(streams') /\ Passes(stdin', given')
      BY <1>0, <2>1, InputStill
    <2> QED BY <2>1, <2>2, StayTyped
  <1>12. CASE ExecInput
    <2>1. CanOpen /\ Stream(NewFile) /\ OpenFile /\ stdin' = NoText /\ UNCHANGED frames
      BY <1>12 DEF ExecInput
    <2>2. Grows
      BY <2>1, GrowsBoth
    <2>3. NewFile \in StreamType
      BY <2>1, Opening
    <2>4. input' \in 0 .. Len(streams') /\ Passes(stdin', given')
      BY <2>1, <2>2, <2>3, Streamed, PassesNothing
    <2> QED BY <2>1, <2>2, <2>4, StayTyped
  <1>13. CASE ExecNothing
    <2>1. Source /= NoText /\ Stream(Source) /\ stdin' = NoText /\ UNCHANGED <<frames, given>>
      BY <1>13 DEF ExecNothing
    <2>2. Source \in StreamType /\ Source.file \in 1 .. Len(given)
      BY <2>1, Sources
    <2>3. Grows
      BY <1>0, <2>1, <2>2, GrowsStream
    <2>4. input' \in 0 .. Len(streams') /\ Passes(stdin', given')
      BY <1>0, <2>1, <2>2, Streamed
    <2> QED BY <2>1, <2>3, <2>4, StayTyped
  <1> HIDE DEF Kinds
  <1> QED BY <1>1, <1>2, <1>3, <1>4, <1>5, <1>6, <1>7, <1>8, <1>9, <1>10, <1>11, <1>12, <1>13 DEF Next

\* A script starts with nothing, or with what the host gives it.
LEMMA InitTyped == ASSUME Init PROVE TInv
  <1>1. <<>> \in Seq(FrameType) /\ Len(<<>>) = 0 /\ frames = <<>>
    BY EmptySeq DEF Init
  <1>2. CASE input = None /\ stdin = NoText /\ streams = <<>> /\ given = <<>>
    <2>1. <<>> \in Seq(StreamType) /\ <<>> \in Seq(Seq(1 .. Lines))
      BY EmptySeq
    <2> QED BY <1>1, <1>2, <2>1, Bounds DEF TInv, Typed, None
  <1>3. CASE given = <<<<>>>> /\ stdin = Text(1, 1) /\ streams = <<stdin>> /\ input = 1
    <2> DEFINE text == Text(1, 1)
    <2>1. text \in StreamType /\ text \in TextType /\ text.file = 1 /\ 1 /= None
      BY Bounds DEF Text, StreamType, TextType, None
    <2>2. <<>> \in Seq(1 .. Lines)
      BY EmptySeq
    <2> HIDE DEF text
    <2>3. <<text>> \in Seq(StreamType) /\ Len(<<text>>) = 1 /\ <<text>>[1] = text
      BY <2>1
    <2>4. <<<<>>>> \in Seq(Seq(1 .. Lines)) /\ Len(<<<<>>>>) = 1
      BY <2>2
    <2>5. stdin = text /\ streams = <<text>> /\ given = <<<<>>>> /\ input = 1
      BY <1>3 DEF text
    <2> QED BY <1>1, <2>1, <2>3, <2>4, <2>5, Bounds DEF TInv, Typed
  <1> QED BY <1>2, <1>3 DEF Init

\* Every frame, stream and text has its type, whatever shapes the script has.
THEOREM TypeInvariant == Spec => []TInv
  <1>1. ASSUME TInv, [Next]_vars
        PROVE  TInv'
    <2>1. CASE UNCHANGED vars
      BY <1>1, <2>1 DEF vars, TInv
    <2> QED BY <1>1, <2>1, NextTyped
  <1> QED BY <1>1, InitTyped, PTL DEF Spec

\* Every frame, stream and text has its type, whatever shapes the script has.
THEOREM TypeCorrect == Spec => []TypeOK
  <1>1. TInv => TypeOK
    BY DEF TInv, Typed, TypeOK, FrameType, StreamType, TextType
  <1> QED BY <1>1, TypeInvariant, PTL
-----------------------------------------------------------------------------
\* ---- what is under the frames ----

\* The function that Under unfolds, on the first m frames.
Unfolds(f, fs, ss, m) ==
    f = [n \in 0 .. m |->
            IF n = 0 THEN <<>>
            ELSE IF Owns(fs[n]) THEN Append(f[n - 1], FileOf(fs[n].saved, ss))
            ELSE f[n - 1]]

\* There is such a function.
LEMMA UnfoldsSome ==
  ASSUME NEW fs, NEW ss, NEW m \in Nat
  PROVE  \E f : Unfolds(f, fs, ss, m)
  <1> DEFINE S == {k \in Nat : \E f : Unfolds(f, fs, ss, k)}
  <1>1. 0 \in S
    <2> DEFINE f == [n \in 0 .. 0 |-> <<>>]
    <2>1. Unfolds(f, fs, ss, 0)
      BY DEF Unfolds
    <2> QED BY <2>1
  <1>2. ASSUME NEW k \in Nat, k \in S
        PROVE  k + 1 \in S
    <2>1. PICK f : Unfolds(f, fs, ss, k)
      BY <1>2
    <2> DEFINE g == [n \in 0 .. k + 1 |->
                        IF n = k + 1
                        THEN IF Owns(fs[n]) THEN Append(f[k], FileOf(fs[n].saved, ss)) ELSE f[k]
                        ELSE f[n]]
               h == [n \in 0 .. k + 1 |->
                        IF n = 0 THEN <<>>
                        ELSE IF Owns(fs[n]) THEN Append(g[n - 1], FileOf(fs[n].saved, ss))
                        ELSE g[n - 1]]
    <2>2. \A n \in 0 .. k : f[n] = IF n = 0 THEN <<>>
                                   ELSE IF Owns(fs[n]) THEN Append(f[n - 1], FileOf(fs[n].saved, ss))
                                   ELSE f[n - 1]
      BY <2>1 DEF Unfolds
    <2>3. \A n \in 0 .. k : g[n] = f[n]
      OBVIOUS
    <2>4. \A n \in 0 .. k + 1 : g[n] = h[n]
      <3> TAKE n \in 0 .. k + 1
      <3>1. CASE n = 0
        BY <2>2, <2>3, <3>1
      <3>2. CASE n \in 1 .. k
        <4>1. n \in 0 .. k /\ n - 1 \in 0 .. k /\ n /= 0 /\ n /= k + 1
          BY <3>2
        <4>2. g[n] = f[n] /\ g[n - 1] = f[n - 1]
          BY <2>3, <4>1
        <4>3. h[n] = IF Owns(fs[n]) THEN Append(g[n - 1], FileOf(fs[n].saved, ss)) ELSE g[n - 1]
          BY <4>1
        <4> HIDE DEF g, h
        <4> QED BY <2>2, <4>1, <4>2, <4>3
      <3>3. CASE n = k + 1
        <4>1. n /= 0 /\ n - 1 = k /\ k \in 0 .. k
          BY <3>3
        <4>2. g[k] = f[k]
          BY <2>3, <4>1
        <4>3. h[n] = IF Owns(fs[n]) THEN Append(g[k], FileOf(fs[n].saved, ss)) ELSE g[k]
          BY <4>1
        <4>4. g[n] = IF Owns(fs[n]) THEN Append(f[k], FileOf(fs[n].saved, ss)) ELSE f[k]
          BY <3>3
        <4> HIDE DEF g, h
        <4> QED BY <4>2, <4>3, <4>4
      <3> QED BY <3>1, <3>2, <3>3
    <2>5. g = h
      BY <2>4
    <2>6. Unfolds(g, fs, ss, k + 1)
      <3> HIDE DEF g
      <3> QED BY <2>5 DEF Unfolds
    <2> QED BY <2>6
  <1>3. \A k \in Nat : k \in S => k + 1 \in S
    BY <1>2
  <1> HIDE DEF S
  <1>4. Nat \subseteq S
    BY <1>1, <1>3, Inductive
  <1>5. m \in S
    BY <1>4
  <1> QED BY <1>5 DEF S

\* Where frames and the files of what they saved agree, so does what is unfolded.
LEMMA UnfoldsAlike ==
  ASSUME NEW f, NEW fs, NEW ss, NEW m \in Nat, Unfolds(f, fs, ss, m),
         NEW g, NEW gs, NEW ts, NEW k \in Nat, Unfolds(g, gs, ts, k),
         NEW upto \in Nat, upto <= m, upto <= k,
         \A n \in 1 .. upto : /\ Owns(fs[n]) <=> Owns(gs[n])
                              /\ FileOf(fs[n].saved, ss) = FileOf(gs[n].saved, ts)
  PROVE  f[upto] = g[upto]
  <1> DEFINE S == {n \in Nat : n <= upto => f[n] = g[n]}
  <1>1. /\ \A n \in 0 .. m : f[n] = IF n = 0 THEN <<>>
                                    ELSE IF Owns(fs[n]) THEN Append(f[n - 1], FileOf(fs[n].saved, ss))
                                    ELSE f[n - 1]
        /\ \A n \in 0 .. k : g[n] = IF n = 0 THEN <<>>
                                    ELSE IF Owns(gs[n]) THEN Append(g[n - 1], FileOf(gs[n].saved, ts))
                                    ELSE g[n - 1]
    BY DEF Unfolds
  <1>2. 0 \in S
    BY <1>1
  <1>3. ASSUME NEW n \in Nat, n \in S
        PROVE  n + 1 \in S
    <2> SUFFICES ASSUME n + 1 <= upto PROVE f[n + 1] = g[n + 1]
      OBVIOUS
    <2>1. /\ n + 1 \in 0 .. m /\ n + 1 \in 0 .. k /\ n + 1 \in 1 .. upto /\ n + 1 /= 0
          /\ n + 1 - 1 = n /\ f[n] = g[n]
      BY <1>3
    <2>2. f[n + 1] = IF Owns(fs[n + 1]) THEN Append(f[n], FileOf(fs[n + 1].saved, ss)) ELSE f[n]
      BY <1>1, <2>1
    <2>3. g[n + 1] = IF Owns(gs[n + 1]) THEN Append(g[n], FileOf(gs[n + 1].saved, ts)) ELSE g[n]
      BY <1>1, <2>1
    <2> QED BY <2>1, <2>2, <2>3
  <1>4. \A n \in Nat : n \in S => n + 1 \in S
    BY <1>3
  <1> HIDE DEF S
  <1>5. Nat \subseteq S
    BY <1>2, <1>4, Inductive
  <1>6. upto \in S
    BY <1>5
  <1> QED BY <1>6 DEF S

\* What Under takes is unfolded to the last frame.
LEMMA UnderUnfolds ==
  ASSUME NEW fs, NEW ss, Len(fs) \in Nat
  PROVE  \E f : Unfolds(f, fs, ss, Len(fs)) /\ Under(fs, ss) = f[Len(fs)]
  <1> DEFINE f == CHOOSE f : Unfolds(f, fs, ss, Len(fs))
  <1>1. Unfolds(f, fs, ss, Len(fs))
    <2>1. \E g : Unfolds(g, fs, ss, Len(fs))
      BY UnfoldsSome
    <2> QED BY <2>1
  <1>2. Under(fs, ss) = f[Len(fs)]
    BY DEF Under, Unfolds
  <1> QED BY <1>1, <1>2
-----------------------------------------------------------------------------
\* ---- each file is read once ----

\* What is in a state that the invariant allows.
LEMMA Holds ==
  ASSUME IInv
  PROVE  /\ TInv /\ Nested(frames, input)
         /\ Placed(Live(frames, input), streams, given)
         /\ Handed(Live(frames, input), frames, stdin, streams, given) /\ Counting(given)
         /\ Live(frames, input) \subseteq 1 .. Len(streams) /\ None \notin Live(frames, input)
         /\ input /= None => input \in Live(frames, input)
         /\ \A i \in 1 .. Len(frames) : frames[i].saved /= None => frames[i].saved \in Live(frames, input)
  BY DEF IInv, Live, Placed

\* The innermost construct is the last frame.
LEMMA Tops ==
  ASSUME TInv
  PROVE  /\ frames /= <<>> <=> Len(frames) > 0
         /\ Len(frames) > 0 => /\ Len(frames) \in 1 .. Len(frames) /\ Top = frames[Len(frames)]
                               /\ frames[Len(frames)].kind \in Kinds
         /\ \A kinds : Within(kinds) <=> Len(frames) > 0 /\ frames[Len(frames)].kind \in kinds
  <1>1. frames \in Seq(FrameType) /\ Len(frames) \in Nat
    BY Parts
  <1>2. frames /= <<>> <=> Len(frames) > 0
    BY <1>1, EmptySeq
  <1>3. Top = frames[Len(frames)]
    BY DEF Top, Last
  <1>4. Len(frames) > 0 => Len(frames) \in 1 .. Len(frames)
    BY <1>1
  <1>5. Len(frames) > 0 => frames[Len(frames)].kind \in Kinds
    BY <1>4, Parts
  <1>6. ASSUME NEW kinds
        PROVE  Within(kinds) <=> Len(frames) > 0 /\ frames[Len(frames)].kind \in kinds
    BY <1>2, <1>3 DEF Within
  <1> QED BY <1>2, <1>3, <1>4, <1>5, <1>6

\* A construct that is entered: a group right in a stage, and nothing else there.
LEMMA NestedPush ==
  ASSUME IInv, NEW kind \in Kinds, NEW own \in TextType, frames' = Append(frames, Frame(kind, own)),
         kind = "group" <=> Within({"pipe"}), kind = "pipe" => own.file /= None,
         kind = "fragment" => own = NoText,
         kind \in Transparent => input' = input
  PROVE  Nested(frames', input')
  <1> DEFINE n == Len(frames)
  <1>1. TInv /\ Nested(frames, input)
    BY Holds
  <1>2. /\ Len(frames') = n + 1 /\ n \in Nat /\ \A i \in 1 .. n : frames'[i] = frames[i]
        /\ frames'[n + 1].kind = kind /\ frames'[n + 1].text = own /\ frames'[n + 1].saved = input
    BY <1>1, Pushing
  <1>3. Within({"pipe"}) <=> n > 0 /\ frames[n].kind = "pipe"
    BY <1>1, Tops
  <1> SUFFICES ASSUME NEW i \in 1 .. n + 1
               PROVE  /\ frames'[i].kind = "group" => i > 1 /\ frames'[i - 1].kind = "pipe"
                      /\ frames'[i].kind = "pipe" =>
                            /\ i = Len(frames') \/ frames'[i + 1].kind = "group"
                            /\ frames'[i].text.file /= None
                      /\ frames'[i].kind = "fragment" => frames'[i].text = NoText
                      /\ frames'[i].kind \in Transparent => Above(frames', input', i) = frames'[i].saved
    BY <1>2 DEF Nested
  <1>4. CASE i = n + 1
    <2>1. kind = "group" => n \in 1 .. n /\ frames'[i - 1] = frames[n] /\ frames[n].kind = "pipe" /\ i > 1
      BY <1>2, <1>3, <1>4
    <2>2. kind \in Transparent => Above(frames', input', i) = input
      BY <1>2, <1>4 DEF Above
    <2> QED BY <1>2, <1>4, <2>1, <2>2
  <1>5. CASE i \in 1 .. n
    <2>1. frames'[i] = frames[i] /\ (i > 1 => frames'[i - 1] = frames[i - 1])
      BY <1>2, <1>5
    <2>2. Above(frames', input', i) = Above(frames, input, i)
      <3>1. CASE i = n
        BY <1>2, <3>1 DEF Above
      <3>2. CASE i /= n
        <4>1. i + 1 \in 1 .. n /\ i /= Len(frames')
          BY <1>2, <1>5, <3>2
        <4> QED BY <1>2, <3>2, <4>1 DEF Above
      <3> QED BY <3>1, <3>2
    <2>3. /\ frames[i].kind = "group" => i > 1 /\ frames[i - 1].kind = "pipe"
          /\ frames[i].kind = "pipe" => (i = n \/ frames[i + 1].kind = "group") /\ frames[i].text.file /= None
          /\ frames[i].kind = "fragment" => frames[i].text = NoText
          /\ frames[i].kind \in Transparent => Above(frames, input, i) = frames[i].saved
      BY <1>1, <1>5 DEF Nested
    <2>4. frames[i].kind = "pipe" => frames'[i + 1].kind = "group"
      <3>1. CASE i = n
        BY <1>2, <1>3, <1>5, <3>1
      <3>2. CASE i /= n
        <4>1. i + 1 \in 1 .. n
          BY <1>2, <1>5, <3>2
        <4> QED BY <1>2, <2>3, <3>2, <4>1
      <3> QED BY <3>1, <3>2
    <2> QED BY <2>1, <2>2, <2>3, <2>4
  <1>6. i = n + 1 \/ i \in 1 .. n
    BY <1>2
  <1> QED BY <1>4, <1>5, <1>6

\* The streams that may be read: those that might have been, and at most one more.
LEMMA PlacedStill ==
  ASSUME NEW L, Placed(L, streams, given), NEW M, NEW k,
         \A s \in M : s /= k => /\ s \in L /\ s \in 1 .. Len(streams') /\ streams'[s] = streams[s]
                                /\ given'[streams[s].file] = given[streams[s].file],
         k \in M => /\ k \in 1 .. Len(streams')
                    /\ streams'[k].from = Len(given'[streams'[k].file]) + 1
                    /\ \A s \in M : s /= k => streams[s].file /= streams'[k].file
  PROVE  Placed(M, streams', given')
  <1>1. ASSUME NEW s \in M
        PROVE  s \in 1 .. Len(streams') /\ streams'[s].from = Len(given'[streams'[s].file]) + 1
    <2>1. CASE s = k
      BY <2>1
    <2>2. CASE s /= k
      <3>1. /\ s \in L /\ s \in 1 .. Len(streams') /\ streams'[s] = streams[s]
            /\ given'[streams[s].file] = given[streams[s].file]
        BY <2>2
      <3>2. streams[s].from = Len(given[streams[s].file]) + 1
        BY <3>1 DEF Placed
      <3> QED BY <3>1, <3>2
    <2> QED BY <2>1, <2>2
  <1>2. ASSUME NEW s \in M, NEW t \in M, streams'[s].file = streams'[t].file
        PROVE  s = t
    <2>1. CASE s /= k /\ t /= k
      <3>1. s \in L /\ t \in L /\ streams'[s] = streams[s] /\ streams'[t] = streams[t]
        BY <2>1
      <3> QED BY <1>2, <3>1 DEF Placed
    <2>2. CASE s = k /\ t /= k
      BY <1>2, <2>2
    <2>3. CASE s /= k /\ t = k
      BY <1>2, <2>3
    <2> QED BY <2>1, <2>2, <2>3
  <1> QED BY <1>1, <1>2 DEF Placed

\* The streams of the constructs around one that is entered, and the one within.
LEMMA LivePush ==
  ASSUME IInv, NEW kind \in Kinds, NEW own \in TextType, frames' = Append(frames, Frame(kind, own))
  PROVE  Live(frames', input') = Live(frames, input) \cup ({input'} \ {None})
  <1>1. /\ Len(frames') = Len(frames) + 1 /\ Len(frames) \in Nat
        /\ \A i \in 1 .. Len(frames) : frames'[i] = frames[i]
        /\ frames'[Len(frames) + 1].saved = input
    BY Holds, Pushing
  <1>2. {frames'[i].saved : i \in 1 .. Len(frames')} = {frames[i].saved : i \in 1 .. Len(frames)} \cup {input}
    <2>1. ASSUME NEW i \in 1 .. Len(frames')
          PROVE  frames'[i].saved \in {frames[j].saved : j \in 1 .. Len(frames)} \cup {input}
      <3>1. i = Len(frames) + 1 \/ i \in 1 .. Len(frames)
        BY <1>1
      <3> QED BY <1>1, <3>1
    <2>2. ASSUME NEW i \in 1 .. Len(frames)
          PROVE  frames[i].saved \in {frames'[j].saved : j \in 1 .. Len(frames')}
      <3>1. i \in 1 .. Len(frames')
        BY <1>1
      <3> QED BY <1>1, <3>1
    <2>3. Len(frames) + 1 \in 1 .. Len(frames')
      BY <1>1
    <2> QED BY <1>1, <2>1, <2>2, <2>3
  <1> QED BY <1>2 DEF Live
\* Without the odd shapes a text is handed on only in a stage, and only that one node runs there.
LEMMA Stages ==
  ASSUME IInv
  PROVE  /\ stdin /= NoText => /\ Within({"pipe"}) /\ Top.text.file = stdin.file /\ stdin.from = 1
                               /\ stdin.file \in 1 .. Len(given) /\ given[stdin.file] = <<>>
                               /\ \A s \in Live(frames, input) : streams[s].file /= stdin.file
         /\ Runs /\ stdin = NoText => ~Within({"pipe"})
  <1>1. TInv /\ Handed(Live(frames, input), frames, stdin, streams, given)
    BY Holds
  <1> QED BY <1>1, Tops DEF Handed, Runs

\* A construct that makes no stream is entered, and given no text.
LEMMA PushStill ==
  ASSUME IInv, TInv', NEW kind \in Kinds \ {"group", "pipe"}, Push(kind), ~Within({"pipe"}),
         UNCHANGED <<input, streams, given>>, stdin' = NoText
  PROVE  IInv'
  <1> DEFINE L == Live(frames, input)
             M == Live(frames', input')
  <1>1. TInv /\ Placed(L, streams, given) /\ Counting(given) /\ L \subseteq 1 .. Len(streams)
        /\ (input /= None => input \in L)
    BY Holds
  <1>2. kind \in Kinds /\ NoText \in TextType /\ frames' = Append(frames, Frame(kind, NoText))
        /\ (kind = "group" <=> Within({"pipe"})) /\ kind /= "pipe"
    BY Bounds DEF Push, None
  <1>3. Nested(frames', input')
    BY <1>2, NestedPush
  <1>4. M = L
    <2>1. M = L \cup ({input'} \ {None})
      BY <1>2, LivePush
    <2> HIDE DEF L, M
    <2> QED BY <1>1, <2>1
  <1> QED BY <1>1, <1>3, <1>4 DEF IInv, Handed

\* A new stream stands before the first line of a file that is new, or that nobody reads.
LEMMA PushStream ==
  ASSUME IInv, TInv', NEW kind \in Kinds \ {"pipe"}, Push(kind), kind = "group" <=> Within({"pipe"}),
         kind \notin Transparent, NEW text \in StreamType, Stream(text), stdin' = NoText, text.from = 1,
         text.file \in 1 .. Len(given'), given'[text.file] = <<>>,
         \A s \in Live(frames, input) : streams[s].file /= text.file,
         \A f \in 1 .. Len(given) : given'[f] = given[f], Counting(given')
  PROVE  IInv'
  <1> DEFINE L == Live(frames, input)
             M == Live(frames', input')
             k == Len(streams) + 1
  <1>1. TInv /\ Placed(L, streams, given) /\ L \subseteq 1 .. Len(streams)
    BY Holds
  <1>2. kind \in Kinds /\ NoText \in TextType /\ frames' = Append(frames, Frame(kind, NoText))
    BY Bounds DEF Push, None
  <1>3. Nested(frames', input')
    BY <1>2, NestedPush
  <1>4. /\ Len(streams') = k /\ input' = k /\ Len(streams) \in Nat
        /\ \A s \in 1 .. Len(streams') : streams'[s] = IF s = k THEN text ELSE streams[s]
    BY <1>1, Streamed
  <1>5. M = L \cup ({input'} \ {None})
    BY <1>2, LivePush
  <1> HIDE DEF L, M
  <1>6. \A s \in M : s /= k => /\ s \in L /\ s \in 1 .. Len(streams') /\ streams'[s] = streams[s]
                               /\ given'[streams[s].file] = given[streams[s].file]
                               /\ streams[s].file /= text.file
    <2> TAKE s \in M
    <2> SUFFICES ASSUME s /= k
                 PROVE  /\ s \in L /\ s \in 1 .. Len(streams') /\ streams'[s] = streams[s]
                        /\ given'[streams[s].file] = given[streams[s].file]
                        /\ streams[s].file /= text.file
      OBVIOUS
    <2>1. s \in L /\ s \in 1 .. Len(streams)
      BY <1>1, <1>4, <1>5
    <2>2. streams'[s] = streams[s] /\ s \in 1 .. Len(streams')
      BY <1>4, <2>1
    <2>3. streams[s].file \in 1 .. Len(given)
      BY <1>1, <2>1, Parts
    <2> QED BY <2>1, <2>2, <2>3 DEF L
  <1>7. k \in M => /\ k \in 1 .. Len(streams') /\ streams'[k] = text
                   /\ streams'[k].from = Len(given'[streams'[k].file]) + 1
    BY <1>4, EmptySeq
  <1>8. Placed(M, streams', given')
    <2> HIDE DEF k
    <2>1. \A s \in M : s /= k => /\ s \in L /\ s \in 1 .. Len(streams') /\ streams'[s] = streams[s]
                                 /\ given'[streams[s].file] = given[streams[s].file]
      BY <1>6
    <2>2. k \in M => /\ k \in 1 .. Len(streams')
                     /\ streams'[k].from = Len(given'[streams'[k].file]) + 1
                     /\ \A s \in M : s /= k => streams[s].file /= streams'[k].file
      BY <1>6, <1>7
    <2>3. Placed(L, streams, given)
      BY <1>1
    <2> QED BY <2>1, <2>2, <2>3, PlacedStill
  <1> QED BY <1>3, <1>8 DEF IInv, Handed, M

\* exec: the stream of a construct that has one of its own is replaced.
LEMMA ExecStream ==
  ASSUME IInv, TInv', UNCHANGED frames, Len(frames) > 0 => frames[Len(frames)].kind \notin Transparent,
         NEW text \in StreamType, Stream(text), stdin' = NoText,
         text.file \in 1 .. Len(given'), text.from = Len(given'[text.file]) + 1,
         \A i \in 1 .. Len(frames) :
            frames[i].saved /= None => streams[frames[i].saved].file /= text.file,
         \A f \in 1 .. Len(given) : given'[f] = given[f], Counting(given')
  PROVE  IInv'
  <1> DEFINE L == Live(frames, input)
             M == Live(frames', input')
             k == Len(streams) + 1
  <1>1. TInv /\ Placed(L, streams, given) /\ L \subseteq 1 .. Len(streams) /\ Nested(frames, input)
    BY Holds
  <1>2. Nested(frames', input')
    <2>1. Len(frames) \in Nat
      BY <1>1, Parts
    <2>2. \A i \in 1 .. Len(frames) : i /= Len(frames) => Above(frames', input', i) = Above(frames, input, i)
      BY DEF Above
    <2>3. \A i \in 1 .. Len(frames) :
             frames[i].kind \in Transparent => Above(frames', input', i) = frames[i].saved
      BY <1>1, <2>1, <2>2 DEF Nested
    <2> QED BY <1>1, <2>3 DEF Nested
  <1>3. /\ Len(streams') = k /\ input' = k /\ Len(streams) \in Nat
        /\ \A s \in 1 .. Len(streams') : streams'[s] = IF s = k THEN text ELSE streams[s]
    BY <1>1, Streamed
  <1>4. \A s \in M : s /= k => /\ s \in L /\ s \in 1 .. Len(streams') /\ streams'[s] = streams[s]
                               /\ given'[streams[s].file] = given[streams[s].file]
                               /\ streams[s].file /= text.file
    <2> TAKE s \in M
    <2> SUFFICES ASSUME s /= k
                 PROVE  /\ s \in L /\ s \in 1 .. Len(streams') /\ streams'[s] = streams[s]
                        /\ given'[streams[s].file] = given[streams[s].file]
                        /\ streams[s].file /= text.file
      OBVIOUS
    <2>1. s /= None /\ s \in {frames[i].saved : i \in 1 .. Len(frames)}
      BY <1>3 DEF Live
    <2>2. s \in L /\ streams[s].file /= text.file
      <3>1. PICK i \in 1 .. Len(frames) : s = frames[i].saved
        BY <2>1
      <3> QED BY <2>1, <3>1 DEF Live
    <2>3. s \in 1 .. Len(streams)
      BY <1>1, <2>2
    <2>4. streams'[s] = streams[s] /\ s \in 1 .. Len(streams')
      BY <1>3, <2>3
    <2>5. streams[s].file \in 1 .. Len(given)
      BY <1>1, <2>3, Parts
    <2> QED BY <2>2, <2>4, <2>5
  <1>5. k \in M => /\ k \in 1 .. Len(streams') /\ streams'[k] = text
                   /\ streams'[k].from = Len(given'[streams'[k].file]) + 1
    BY <1>3
  <1>6. Placed(M, streams', given')
    <2> HIDE DEF k, L, M
    <2> QED BY <1>1, <1>4, <1>5, PlacedStill
  <1> QED BY <1>2, <1>6 DEF IInv, Handed
\* The stage of a pipe gets a file of its own, that nobody has read.
LEMMA StageHolds == ASSUME IInv, TInv', EnterStage PROVE IInv'
  <1> DEFINE L == Live(frames, input)
             M == Live(frames', input')
  <1>1. /\ TInv /\ Placed(L, streams, given) /\ L \subseteq 1 .. Len(streams) /\ Counting(given)
        /\ (input /= None => input \in L)
    BY Holds
  <1>2. /\ CanOpen /\ stdin' = NewFile /\ OpenFile /\ UNCHANGED <<input, streams>>
        /\ frames' = Append(frames, Frame("pipe", NewFile)) /\ Runs /\ stdin = NoText
    BY DEF EnterStage, PipeText
  <1>3. /\ Len(given') = Len(given) + 1 /\ Len(given') <= MaxFiles /\ Len(given) \in Nat
        /\ \A f \in 1 .. Len(given') : given'[f] = IF f = Len(given) + 1 THEN <<>> ELSE given[f]
        /\ NewFile.file = Len(given) + 1 /\ NewFile.from = 1
    BY <1>1, <1>2, Opening, Parts
  <1>4. /\ NewFile \in TextType /\ NewFile.file /= None /\ "pipe" \in Kinds
        /\ "pipe" /= "group" /\ "pipe" /= "fragment"
    <2>1. NewFile \in StreamType
      BY <1>1, <1>2, Opening
    <2> QED BY <2>1, Bounds DEF None, Kinds, StreamType, TextType
  <1>5. ~Within({"pipe"})
    BY <1>2, Stages
  <1>6. Nested(frames', input')
    <2>1. "pipe" = "group" <=> Within({"pipe"})
      BY <1>4, <1>5
    <2>2. "pipe" = "pipe" => NewFile.file /= None
      BY <1>4
    <2>3. "pipe" \in Transparent => input' = input
      BY <1>2
    <2> QED BY <1>2, <1>4, <2>1, <2>2, <2>3, NestedPush
  <1>7. M = L
    <2>1. M = L \cup ({input'} \ {None})
      BY <1>2, <1>4, LivePush
    <2> HIDE DEF L, M
    <2> QED BY <1>1, <1>2, <2>1
  <1>8. \A s \in L : s \in 1 .. Len(streams') /\ streams'[s] = streams[s] /\ streams[s].file \in 1 .. Len(given)
    BY <1>1, <1>2, Parts
  <1>9. Placed(M, streams', given')
    <2>1. \A s \in L : given'[streams[s].file] = given[streams[s].file]
      BY <1>3, <1>8
    <2>2. 0 \notin L
      BY Holds DEF None
    <2>3. \A s \in M : s /= 0 => /\ s \in L /\ s \in 1 .. Len(streams') /\ streams'[s] = streams[s]
                                 /\ given'[streams[s].file] = given[streams[s].file]
      BY <1>7, <1>8, <2>1
    <2>4. 0 \in M => /\ 0 \in 1 .. Len(streams')
                     /\ streams'[0].from = Len(given'[streams'[0].file]) + 1
                     /\ \A s \in M : s /= 0 => streams[s].file /= streams'[0].file
      BY <1>7, <2>2
    <2> HIDE DEF L, M
    <2> QED BY <1>1, <2>3, <2>4, PlacedStill
  <1>10. Handed(M, frames', stdin', streams', given')
    <2>1. /\ Len(frames') = Len(frames) + 1 /\ Len(frames) \in Nat
          /\ frames'[Len(frames) + 1].kind = "pipe" /\ frames'[Len(frames) + 1].text = NewFile
      BY <1>1, <1>2, <1>4, Pushing
    <2>2. \A s \in M : streams'[s].file /= NewFile.file
      BY <1>3, <1>7, <1>8
    <2>3. given'[NewFile.file] = <<>> /\ NewFile.file \in 1 .. Len(given')
      BY <1>3
    <2> QED BY <1>2, <1>3, <2>1, <2>2, <2>3 DEF Handed
  <1>11. Counting(given')
    BY <1>1, <1>3, EmptySeq DEF Counting
  <1> QED BY <1>6, <1>9, <1>10, <1>11 DEF IInv, M

\* A construct that is left: what it saved is the stream that the one around it had.
LEMMA LeaveInput ==
  ASSUME IInv, LeaveFrame
  PROVE  input' = frames[Len(frames') + 1].saved
  <1>1. TInv /\ Nested(frames, input)
    BY Holds
  <1>2. /\ Len(frames) \in Nat \ {0} /\ Top = frames[Len(frames)]
        /\ Len(frames') = Len(frames) - (IF StageEnds THEN 2 ELSE 1)
        /\ input' = IF Top.kind = "pipe" THEN input ELSE Top.saved
    BY <1>1, Leaving
  <1>3. Len(frames) \in 1 .. Len(frames) /\ "pipe" \in Transparent /\ "group" /= "pipe"
    BY <1>2 DEF Transparent, Kinds
  <1>4. Top.kind = "pipe" => input = Top.saved
    BY <1>1, <1>2, <1>3 DEF Nested, Above
  <1>5. CASE StageEnds
    <2>1. Len(frames) > 1 /\ frames[Len(frames) - 1].kind = "pipe" /\ Top.kind = "group"
      BY <1>1, <1>2, <1>5, Tops DEF StageEnds
    <2>2. Len(frames) - 1 \in 1 .. Len(frames) /\ Len(frames) - 1 /= Len(frames)
          /\ Len(frames) - 1 + 1 = Len(frames) /\ Len(frames') + 1 = Len(frames) - 1
      BY <1>2, <1>5, <2>1
    <2>3. Above(frames, input, Len(frames) - 1) = frames[Len(frames) - 1].saved
      BY <1>1, <1>3, <2>1, <2>2 DEF Nested
    <2>4. frames[Len(frames)].saved = frames[Len(frames) - 1].saved
      BY <2>2, <2>3 DEF Above
    <2> QED BY <1>2, <1>3, <2>1, <2>2, <2>4
  <1>6. CASE ~StageEnds
    <2>1. Len(frames') + 1 = Len(frames)
      BY <1>2, <1>6
    <2> QED BY <1>2, <1>4, <2>1
  <1> QED BY <1>5, <1>6

\* No text is handed on after a construct: the command around a fragment has none.
LEMMA LeaveText == ASSUME IInv, LeaveFrame PROVE stdin' = NoText
  <1>1. TInv /\ Nested(frames, input)
    BY Holds
  <1>2. /\ Len(frames) \in Nat \ {0} /\ Top = frames[Len(frames)]
        /\ stdin' = IF Top.kind = "fragment" THEN Top.text ELSE NoText
    BY <1>1, Leaving
  <1>3. Len(frames) \in 1 .. Len(frames)
    BY <1>2
  <1> QED BY <1>1, <1>2, <1>3 DEF Nested

\* A construct is left.
LEMMA LeaveHolds == ASSUME IInv, LeaveFrame PROVE IInv'
  <1> DEFINE L == Live(frames, input)
             M == Live(frames', input')
             m == Len(frames')
  <1>1. /\ TInv /\ Placed(L, streams, given) /\ Counting(given) /\ Nested(frames, input)
    BY Holds
  <1>2. /\ Len(frames) \in Nat \ {0} /\ m \in Nat /\ m + 1 \in 1 .. Len(frames)
        /\ \A i \in 1 .. m : frames'[i] = frames[i] /\ i \in 1 .. Len(frames)
        /\ stdin' = NoText /\ streams' = streams /\ given' = given
    BY <1>1, Leaving, LeaveText
  <1>3. input' = frames[m + 1].saved
    BY LeaveInput
  <1>4. M \subseteq L
    <2>1. ASSUME NEW s \in M
          PROVE  s \in L
      <3>1. s /= None /\ (s = input' \/ s \in {frames'[i].saved : i \in 1 .. m})
        BY DEF Live
      <3>2. CASE s = input'
        BY <1>2, <1>3, <3>1, <3>2 DEF Live
      <3>3. CASE s \in {frames'[i].saved : i \in 1 .. m}
        <4>1. PICK i \in 1 .. m : s = frames'[i].saved
          BY <3>3
        <4> QED BY <1>2, <3>1, <4>1 DEF Live
      <3> QED BY <3>1, <3>2, <3>3
    <2> QED BY <2>1
  <1>5. Placed(M, streams', given')
    BY <1>1, <1>2, <1>4 DEF Placed
  <1>6. Nested(frames', input')
    <2> SUFFICES ASSUME NEW i \in 1 .. m
                 PROVE  /\ frames'[i].kind = "group" => i > 1 /\ frames'[i - 1].kind = "pipe"
                        /\ frames'[i].kind = "pipe" =>
                              (i = m \/ frames'[i + 1].kind = "group") /\ frames'[i].text.file /= None
                        /\ frames'[i].kind = "fragment" => frames'[i].text = NoText
                        /\ frames'[i].kind \in Transparent => Above(frames', input', i) = frames'[i].saved
      BY DEF Nested
    <2>1. /\ frames[i].kind = "group" => i > 1 /\ frames[i - 1].kind = "pipe"
          /\ frames[i].kind = "pipe" =>
                (i = Len(frames) \/ frames[i + 1].kind = "group") /\ frames[i].text.file /= None
          /\ frames[i].kind = "fragment" => frames[i].text = NoText
          /\ frames[i].kind \in Transparent => Above(frames, input, i) = frames[i].saved
      BY <1>1, <1>2 DEF Nested
    <2>2. frames'[i] = frames[i] /\ (i > 1 => frames'[i - 1] = frames[i - 1]) /\ i /= Len(frames)
      BY <1>2
    <2>3. Above(frames', input', i) = Above(frames, input, i)
      <3>1. CASE i = m
        BY <1>3, <2>2, <3>1 DEF Above
      <3>2. CASE i /= m
        <4>1. i + 1 \in 1 .. m
          BY <1>2, <3>2
        <4> QED BY <1>2, <2>2, <3>2, <4>1 DEF Above
      <3> QED BY <3>1, <3>2
    <2>4. i = m \/ frames'[i + 1] = frames[i + 1]
      BY <1>2
    <2> QED BY <2>1, <2>2, <2>3, <2>4
  <1>7. TInv'
    BY <1>1, LeaveTyped
  <1> HIDE DEF m
  <1> QED BY <1>1, <1>2, <1>5, <1>6, <1>7 DEF IInv, Handed

\* What is given out counts on from what was.
LEMMA CountingOn ==
  ASSUME TInv, Counting(given), NEW text \in StreamType, text.file \in 1 .. Len(given),
         NEW n \in 1 .. Lines + 1 - text.from, Hand(text, n),
         text.from = Len(given[text.file]) + 1
  PROVE  /\ Counting(given') /\ Len(given') = Len(given)
         /\ Len(given'[text.file]) = Len(given[text.file]) + n
         /\ \A f \in 1 .. Len(given) : f /= text.file => given'[f] = given[f]
  <1>1. /\ Len(given') = Len(given)
        /\ \A f \in 1 .. Len(given) : f /= text.file => given'[f] = given[f]
        /\ Len(given'[text.file]) = Len(given[text.file]) + n
        /\ \A i \in 1 .. Len(given[text.file]) + n :
              given'[text.file][i] = IF i <= Len(given[text.file]) THEN given[text.file][i]
                                     ELSE text.from + (i - Len(given[text.file])) - 1
    BY Handing
  <1>2. Len(given[text.file]) \in Nat /\ n \in Nat
    BY Parts, LenProperties
  <1>3. \A i \in 1 .. Len(given[text.file]) + n : given'[text.file][i] = i
    <2> TAKE i \in 1 .. Len(given[text.file]) + n
    <2>1. CASE i <= Len(given[text.file])
      <3>1. i \in 1 .. Len(given[text.file])
        BY <1>2, <2>1
      <3> QED BY <1>1, <2>1, <3>1 DEF Counting
    <2>2. CASE ~(i <= Len(given[text.file]))
      BY <1>1, <1>2, <2>2
    <2> QED BY <2>1, <2>2
  <1>4. \A f \in 1 .. Len(given') : \A i \in 1 .. Len(given'[f]) : given'[f][i] = i
    <2> TAKE f \in 1 .. Len(given')
    <2>1. CASE f = text.file
      BY <1>1, <1>3, <2>1
    <2>2. CASE f /= text.file
      BY <1>1, <2>2 DEF Counting
    <2> QED BY <2>1, <2>2
  <1> QED BY <1>1, <1>4 DEF Counting

\* A command reads lines of the stream, or of the text that was handed on.
LEMMA HandHolds ==
  ASSUME IInv, TInv', Runs, NEW n \in 1 .. Left, Hand(Source, n), Ends,
         streams' = IF stdin = NoText THEN MovedOn(input, n) ELSE streams
  PROVE  IInv' /\ Source.from = Len(given[Source.file]) + 1
  <1> DEFINE L == Live(frames, input)
  <1>1. /\ TInv /\ Placed(L, streams, given) /\ Counting(given) /\ Nested(frames, input)
        /\ L \subseteq 1 .. Len(streams) /\ None \notin L
        /\ (input /= None => input \in L)
    BY Holds
  <1>2. /\ Source \in StreamType /\ Source.file \in 1 .. Len(given) /\ Source /= NoText
        /\ n \in 1 .. Lines + 1 - Source.from
    BY <1>1, Sources, Bounds
  <1>3. frames' = frames /\ input' = input /\ stdin' = NoText
    BY DEF Ends
  <1>4. \A s \in L : s \in 1 .. Len(streams) /\ streams[s].file \in 1 .. Len(given)
    BY <1>1, Parts
  <1>5. CASE stdin = NoText
    <2>1. Source = Remaining
      BY <1>5 DEF Source
    <2>2. input \in 1 .. Len(streams) /\ Source = streams[input] /\ input \in L
      BY <1>1, <1>2, <2>1, Sources
    <2>3. Source.from = Len(given[Source.file]) + 1
      BY <1>1, <2>2 DEF Placed
    <2>4. /\ Counting(given') /\ Len(given') = Len(given)
          /\ Len(given'[Source.file]) = Len(given[Source.file]) + n
          /\ \A f \in 1 .. Len(given) : f /= Source.file => given'[f] = given[f]
      BY <1>1, <1>2, <2>3, CountingOn
    <2>5. n \in Nat /\ streams[input].from + n <= Lines + 1 /\ Len(given[Source.file]) \in Nat
      <3>1. given[Source.file] \in Seq(1 .. Lines)
        BY <1>1, <1>2, Parts
      <3>2. Source.from \in 1 .. Lines + 1
        BY <1>2 DEF StreamType
      <3> QED BY <1>2, <2>2, <3>1, <3>2, Bounds, LenProperties
    <2>6. /\ Len(streams') = Len(streams)
          /\ \A t \in 1 .. Len(streams) : /\ streams'[t].file = streams[t].file
                                          /\ t /= input => streams'[t].from = streams[t].from
          /\ streams'[input].from = streams[input].from + n
      BY <1>1, <1>5, <2>2, <2>5, Moving
    <2>7. \A s \in L : s \in 1 .. Len(streams') /\ streams'[s].from = Len(given'[streams'[s].file]) + 1
      <3> TAKE s \in L
      <3>1. CASE s = input
        <4>1. streams'[s].file = Source.file /\ streams'[s].from = Len(given[Source.file]) + 1 + n
          BY <2>2, <2>3, <2>6, <3>1
        <4>2. s \in 1 .. Len(streams')
          BY <2>2, <2>6, <3>1
        <4>3. Len(given'[streams'[s].file]) = Len(given[Source.file]) + n
          BY <2>4, <4>1
        <4>4. Len(given[Source.file]) + 1 + n = Len(given[Source.file]) + n + 1
          BY <2>5
        <4> QED BY <4>1, <4>2, <4>3, <4>4
      <3>2. CASE s /= input
        <4>1. streams[s].file /= Source.file
          BY <1>1, <2>2, <3>2 DEF Placed
        <4>2. streams[s].from = Len(given[streams[s].file]) + 1
          BY <1>1 DEF Placed
        <4> QED BY <1>4, <2>4, <2>6, <3>2, <4>1, <4>2
      <3> QED BY <3>1, <3>2
    <2>8. \A s, t \in L : streams'[s].file = streams'[t].file => s = t
      BY <1>1, <1>4, <2>6 DEF Placed
    <2>9. Placed(L, streams', given')
      BY <2>7, <2>8 DEF Placed
    <2> QED BY <1>1, <1>3, <2>3, <2>4, <2>9 DEF IInv, Handed
  <1>6. CASE stdin /= NoText
    <2>1. Source = stdin /\ streams' = streams
      BY <1>6 DEF Source
    <2>2. /\ stdin.from = 1 /\ given[stdin.file] = <<>>
          /\ \A s \in L : streams[s].file /= stdin.file
      BY <1>6, Stages
    <2>3. Source.from = Len(given[Source.file]) + 1
      BY <2>1, <2>2, EmptySeq
    <2>4. /\ Counting(given') /\ Len(given') = Len(given)
          /\ \A f \in 1 .. Len(given) : f /= Source.file => given'[f] = given[f]
      BY <1>1, <1>2, <2>3, CountingOn
    <2>5. Placed(L, streams', given')
      BY <1>1, <1>4, <2>1, <2>2, <2>4 DEF Placed
    <2> QED BY <1>1, <1>3, <2>3, <2>4, <2>5 DEF IInv, Handed
  <1> QED BY <1>5, <1>6
\* With no shape that is odd, a fragment is entered where no text is handed on.
LEMMA Fragments ==
  ASSUME \A x : x \notin Odd, EnterFragment \/ EnterSubstitution
  PROVE  /\ Runs /\ Push("fragment") /\ stdin = NoText /\ stdin' = NoText
         /\ UNCHANGED <<input, streams, given>>
  <1>1. CASE EnterFragment
    <2>1. stdin' = NoText /\ stdin' \in {stdin, Source}
      BY <1>1 DEF EnterFragment
    <2>2. stdin = NoText
      BY <2>1 DEF Source
    <2> QED BY <1>1, <2>1, <2>2 DEF EnterFragment
  <1>2. CASE EnterSubstitution
    <2>1. {stdin, stdin'} = {NoText}
      BY <1>2 DEF EnterSubstitution
    <2>2. stdin = NoText /\ stdin' = NoText
      BY <2>1
    <2> QED BY <1>2, <2>2 DEF EnterSubstitution, Push
  <1> QED BY <1>1, <1>2

\* With no shape that is odd, every action keeps the invariant.
LEMMA NextHolds == ASSUME Odd = {}, IInv, Next PROVE IInv'
  <1>1. /\ TInv /\ TInv' /\ Placed(Live(frames, input), streams, given) /\ Counting(given)
        /\ Nested(frames, input) /\ Live(frames, input) \subseteq 1 .. Len(streams)
        /\ (input /= None => input \in Live(frames, input))
    BY Holds, NextTyped
  <1>2. \A x : x \notin Odd
    OBVIOUS
  <1>3. CASE EnterGroup
    <2>1. stdin /= NoText /\ Push("group") /\ Stream(stdin) /\ stdin' = NoText /\ UNCHANGED given
      BY <1>2, <1>3 DEF EnterGroup, Source
    <2>2. /\ Within({"pipe"}) /\ stdin.from = 1 /\ stdin.file \in 1 .. Len(given)
          /\ given[stdin.file] = <<>> /\ stdin \in StreamType
          /\ \A s \in Live(frames, input) : streams[s].file /= stdin.file
      BY <1>1, <2>1, Stages, Parts
    <2>3. "group" \in Kinds \ {"pipe"} /\ "group" \notin Transparent
      BY DEF Kinds, Transparent
    <2>4. \A f \in 1 .. Len(given) : given'[f] = given[f]
      BY <2>1
    <2>5. Counting(given') /\ stdin.file \in 1 .. Len(given') /\ given'[stdin.file] = <<>>
      BY <1>1, <2>1, <2>2
    <2> QED BY <1>1, <2>1, <2>2, <2>3, <2>4, <2>5, PushStream
  <1>4. CASE EnterCompound
    <2>1. Runs /\ stdin = NoText /\ stdin' = NoText /\ ~Within({"pipe"})
      BY <1>4, Stages DEF EnterCompound
    <2>2. CASE Push("input") /\ CanOpen /\ Stream(NewFile) /\ OpenFile
      <3>1. /\ Len(given') = Len(given) + 1 /\ Len(given) \in Nat
            /\ \A f \in 1 .. Len(given') : given'[f] = IF f = Len(given) + 1 THEN <<>> ELSE given[f]
            /\ NewFile \in StreamType /\ NewFile.file = Len(given) + 1 /\ NewFile.from = 1
        BY <1>1, <2>2, Opening, Parts
      <3>2. NewFile.file \in 1 .. Len(given') /\ given'[NewFile.file] = <<>>
            /\ \A f \in 1 .. Len(given) : given'[f] = given[f]
        BY <3>1
      <3>3. \A s \in Live(frames, input) : streams[s].file /= NewFile.file
        <4> TAKE s \in Live(frames, input)
        <4>1. streams[s].file \in 1 .. Len(given)
          BY <1>1, Parts
        <4> QED BY <3>1, <4>1
      <3>4. Counting(given')
        BY <1>1, <3>1, EmptySeq DEF Counting
      <3>5. "input" \in Kinds \ {"pipe"} /\ "input" \notin Transparent /\ "input" /= "group"
        BY DEF Kinds, Transparent
      <3>6. "input" = "group" <=> Within({"pipe"})
        BY <2>1, <3>5
      <3> QED BY <1>1, <2>1, <2>2, <3>1, <3>2, <3>3, <3>4, <3>5, <3>6, PushStream
    <2>3. CASE Push("output") /\ UNCHANGED <<input, streams, given>>
      <3>1. "output" \in Kinds \ {"group", "pipe"}
        BY DEF Kinds
      <3> QED BY <1>1, <2>1, <2>3, <3>1, PushStill
    <2> QED BY <1>4, <2>2, <2>3 DEF EnterCompound
  <1>5. CASE EnterStage
    BY <1>1, <1>5, StageHolds
  <1>6. CASE EnterSubshell
    <2>1. /\ Push("subshell") /\ UNCHANGED <<input, streams, given>> /\ stdin' = NoText
          /\ ~Within({"pipe"})
      BY <1>6, Stages DEF EnterSubshell, ForkShares
    <2>2. "subshell" \in Kinds \ {"group", "pipe"}
      BY DEF Kinds
    <2> QED BY <1>1, <2>1, <2>2, PushStill
  <1>7. CASE EnterHandler
    <2>1. /\ Push("handler") /\ UNCHANGED <<input, streams, given>> /\ stdin' = NoText
          /\ ~Within({"pipe"})
      BY <1>7, Stages DEF EnterHandler
    <2>2. "handler" \in Kinds \ {"group", "pipe"}
      BY DEF Kinds
    <2> QED BY <1>1, <2>1, <2>2, PushStill
  <1>8. CASE EnterFragment
    <2>1. /\ Push("fragment") /\ UNCHANGED <<input, streams, given>> /\ stdin' = NoText
          /\ ~Within({"pipe"})
      BY <1>2, <1>8, Fragments, Stages
    <2>2. "fragment" \in Kinds \ {"group", "pipe"}
      BY DEF Kinds
    <2> QED BY <1>1, <2>1, <2>2, PushStill
  <1>9. CASE EnterSubstitution
    <2>1. /\ Push("fragment") /\ UNCHANGED <<input, streams, given>> /\ stdin' = NoText
          /\ ~Within({"pipe"})
      BY <1>2, <1>9, Fragments, Stages
    <2>2. "fragment" \in Kinds \ {"group", "pipe"}
      BY DEF Kinds
    <2> QED BY <1>1, <2>1, <2>2, PushStill
  <1>10. CASE LeaveFrame
    BY <1>10, LeaveHolds
  <1>11. ASSUME Ends, UNCHANGED <<streams, given>>
         PROVE  IInv'
    BY <1>1, <1>11 DEF IInv, Handed, Ends
  <1>12. CASE Read
    <2>1. ASSUME NEW n \in 1 .. Left, Hand(Source, n),
                 streams' = IF stdin = NoText THEN MovedOn(input, n) ELSE streams
          PROVE  IInv'
      <3>1. Runs /\ Ends
        BY <1>12 DEF Read
      <3> QED BY <1>1, <2>1, <3>1, HandHolds
    <2>2. Ends
      BY <1>1, <1>12, Reads
    <2> QED BY <1>1, <1>11, <1>12, <2>1, <2>2, Reads
  <1>13. CASE Filter
    <2>1. Runs /\ Ends /\ Left > 0 /\ stdin /= NoText /\ Hand(Source, Left) /\ streams' = streams
      BY <1>2, <1>13 DEF Filter
    <2>2. Left \in 1 .. Left
      BY <1>1, <2>1, Sources, Bounds
    <2>3. streams' = IF stdin = NoText THEN MovedOn(input, Left) ELSE streams
      BY <2>1
    <2> QED BY <1>1, <2>1, <2>2, <2>3, HandHolds
  <1>14. CASE Ignores
    BY <1>11, <1>14 DEF Ignores
  <1>15. CASE ExecInput
    <2>1. /\ Runs /\ CanOpen /\ Stream(NewFile) /\ OpenFile /\ stdin' = NoText /\ UNCHANGED frames
          /\ ~Lost /\ ~Leaks
      BY <1>2, <1>15 DEF ExecInput
    <2>2. Len(frames) > 0 => frames[Len(frames)].kind \notin Transparent
      <3>1. ~Within({"pipe"}) /\ (~Within(Kinds \ {"input", "pipe", "subshell"}) \/ StageEnds)
        BY <2>1 DEF Lost, Leaks
      <3>2. StageEnds => Within({"group"})
        BY DEF StageEnds
      <3> QED BY <1>1, <3>1, <3>2, Tops DEF Transparent, Kinds
    <2>3. /\ Len(given') = Len(given) + 1 /\ Len(given) \in Nat
          /\ \A f \in 1 .. Len(given') : given'[f] = IF f = Len(given) + 1 THEN <<>> ELSE given[f]
          /\ NewFile \in StreamType /\ NewFile.file = Len(given) + 1 /\ NewFile.from = 1
      BY <1>1, <2>1, Opening, Parts
    <2>4. /\ NewFile.file \in 1 .. Len(given') /\ NewFile.from = Len(given'[NewFile.file]) + 1
          /\ \A f \in 1 .. Len(given) : given'[f] = given[f]
      BY <2>3, EmptySeq
    <2>5. \A i \in 1 .. Len(frames) :
             frames[i].saved /= None => streams[frames[i].saved].file /= NewFile.file
      <3> TAKE i \in 1 .. Len(frames)
      <3>1. frames[i].saved /= None => frames[i].saved \in 1 .. Len(streams)
        BY <1>1, Holds
      <3>2. frames[i].saved /= None => streams[frames[i].saved].file \in 1 .. Len(given)
        BY <1>1, <3>1, Parts
      <3> QED BY <2>3, <3>2
    <2>6. Counting(given')
      BY <1>1, <2>3, EmptySeq DEF Counting
    <2> QED BY <1>1, <2>1, <2>2, <2>3, <2>4, <2>5, <2>6, ExecStream
  <1>16. CASE ExecNothing
    <2>1. /\ Runs /\ Source /= NoText /\ Stream(Source) /\ stdin' = NoText /\ UNCHANGED <<frames, given>>
          /\ ~Leaks /\ ~Shared
      BY <1>2, <1>16 DEF ExecNothing
    <2>2. stdin = NoText /\ Source = Remaining
      BY <2>1, Stages DEF Leaks, Source
    <2>3. /\ input \in 1 .. Len(streams) /\ Source = streams[input] /\ Source \in StreamType
          /\ Source.file \in 1 .. Len(given) /\ input \in Live(frames, input)
      BY <1>1, <2>1, <2>2, Sources
    <2>4. \A i \in 1 .. Len(frames) : frames[i].saved /= input
      BY <1>1, <2>1, Parts DEF Shared
    <2>5. Len(frames) > 0 => frames[Len(frames)].kind \notin Transparent
      <3>1. Len(frames) > 0 => Len(frames) \in 1 .. Len(frames)
        BY <1>1, Tops
      <3>2. Len(frames) > 0 => Above(frames, input, Len(frames)) = input
        BY DEF Above
      <3> QED BY <1>1, <2>4, <3>1, <3>2 DEF Nested
    <2>6. Source.from = Len(given[Source.file]) + 1
      BY <1>1, <2>3 DEF Placed
    <2>7. \A i \in 1 .. Len(frames) :
             frames[i].saved /= None => streams[frames[i].saved].file /= Source.file
      <3> TAKE i \in 1 .. Len(frames)
      <3>1. frames[i].saved /= None => frames[i].saved \in Live(frames, input)
        BY Holds
      <3> QED BY <1>1, <2>3, <2>4, <3>1 DEF Placed
    <2>8. /\ Source.file \in 1 .. Len(given') /\ Source.from = Len(given'[Source.file]) + 1
          /\ \A f \in 1 .. Len(given) : given'[f] = given[f]
      BY <2>1, <2>3, <2>6
    <2>9. Counting(given')
      BY <1>1, <2>1
    <2> QED BY <1>1, <2>1, <2>3, <2>5, <2>7, <2>8, <2>9, ExecStream
  <1> QED BY <1>3, <1>4, <1>5, <1>6, <1>7, <1>8, <1>9, <1>10, <1>12, <1>13, <1>14, <1>15, <1>16 DEF Next

\* A script that the host gives no input starts with nothing.
LEMMA InitHolds == ASSUME Odd = {}, Init PROVE IInv
  <1>1. frames = <<>> /\ input = None /\ stdin = NoText /\ streams = <<>> /\ given = <<>>
    BY DEF Init
  <1>2. Len(<<>>) = 0
    BY EmptySeq
  <1>3. Live(frames, input) = {}
    BY <1>1, <1>2 DEF Live
  <1> QED BY <1>1, <1>2, <1>3, InitTyped DEF IInv, Nested, Placed, Handed, Counting

\* The invariant of scripts without odd shapes.
THEOREM Invariant == ASSUME Odd = {} PROVE Spec => []IInv
  <1>1. ASSUME IInv, [Next]_vars
        PROVE  IInv'
    <2>1. CASE UNCHANGED vars
      BY <1>1, <2>1 DEF vars, IInv, TInv
    <2> QED BY <1>1, <2>1, NextHolds
  <1>2. Init => IInv
    BY InitHolds
  <1> QED BY <1>1, <1>2, PTL DEF Spec

\* The lines of an input are given out in order, each once.
THEOREM LinesOnceCorrect == ASSUME Odd = {} PROVE Spec => []LinesOnce
  <1>1. IInv => LinesOnce
    <2> SUFFICES ASSUME IInv, NEW f \in Files
                 PROVE  given[f] = [i \in 1 .. Len(given[f]) |-> i]
      BY DEF LinesOnce
    <2>1. /\ f \in 1 .. Len(given) /\ given[f] \in Seq(1 .. Lines)
          /\ \A i \in 1 .. Len(given[f]) : given[f][i] = i
      BY Holds, Parts DEF Counting
    <2>2. Len(given[f]) \in Nat /\ given[f] \in [1 .. Len(given[f]) -> 1 .. Lines]
      BY <2>1, LenProperties
    <2> QED BY <2>1, <2>2
  <1> QED BY <1>1, Invariant, PTL
-----------------------------------------------------------------------------
\* ---- the descriptors ----

\* One frame more: its file is the last one under the frames, if it has an input of its own.
LEMMA UnderSplit ==
  ASSUME NEW fs, NEW ss, Len(fs) \in Nat \ {0}, NEW gs, NEW ts, Len(gs) = Len(fs) - 1,
         \A i \in 1 .. Len(gs) : gs[i] = fs[i] /\ FileOf(fs[i].saved, ss) = FileOf(fs[i].saved, ts)
  PROVE  Under(fs, ss) = IF Owns(fs[Len(fs)])
                         THEN Append(Under(gs, ts), FileOf(fs[Len(fs)].saved, ss)) ELSE Under(gs, ts)
  <1> DEFINE n == Len(fs)
             m == Len(gs)
  <1>1. n \in Nat /\ m \in Nat /\ m = n - 1 /\ n /= 0 /\ n \in 0 .. n /\ m <= n
    OBVIOUS
  <1> HIDE DEF n, m
  <1>2. PICK f : Unfolds(f, fs, ss, n) /\ Under(fs, ss) = f[n]
    BY <1>1, UnderUnfolds DEF n
  <1>3. PICK g : Unfolds(g, gs, ts, m) /\ Under(gs, ts) = g[m]
    BY <1>1, UnderUnfolds DEF m
  <1>4. \A i \in 1 .. m : /\ Owns(fs[i]) <=> Owns(gs[i])
                          /\ FileOf(fs[i].saved, ss) = FileOf(gs[i].saved, ts)
    BY DEF m
  <1>5. f[m] = g[m]
    BY <1>1, <1>2, <1>3, <1>4, UnfoldsAlike
  <1>6. f[n] = IF Owns(fs[n]) THEN Append(f[n - 1], FileOf(fs[n].saved, ss)) ELSE f[n - 1]
    BY <1>1, <1>2 DEF Unfolds
  <1> QED BY <1>1, <1>2, <1>3, <1>5, <1>6 DEF n, m

\* The same when the streams stay as they are.
LEMMA UnderFront ==
  ASSUME NEW fs, NEW ss, Len(fs) \in Nat \ {0}, NEW gs, Len(gs) = Len(fs) - 1,
         \A i \in 1 .. Len(gs) : gs[i] = fs[i]
  PROVE  Under(fs, ss) = IF Owns(fs[Len(fs)])
                         THEN Append(Under(gs, ss), FileOf(fs[Len(fs)].saved, ss)) ELSE Under(gs, ss)
  <1>1. \A i \in 1 .. Len(gs) : gs[i] = fs[i] /\ FileOf(fs[i].saved, ss) = FileOf(fs[i].saved, ss)
    OBVIOUS
  <1> QED BY <1>1, UnderSplit

\* What is under the frames stays when their streams keep their files.
LEMMA UnderSame ==
  ASSUME NEW fs, NEW ss, NEW ts, Len(fs) \in Nat,
         \A i \in 1 .. Len(fs) : FileOf(fs[i].saved, ss) = FileOf(fs[i].saved, ts)
  PROVE  Under(fs, ss) = Under(fs, ts)
  <1>1. PICK f : Unfolds(f, fs, ss, Len(fs)) /\ Under(fs, ss) = f[Len(fs)]
    BY UnderUnfolds
  <1>2. PICK g : Unfolds(g, fs, ts, Len(fs)) /\ Under(fs, ts) = g[Len(fs)]
    BY UnderUnfolds
  <1>3. \A i \in 1 .. Len(fs) : /\ Owns(fs[i]) <=> Owns(fs[i])
                                /\ FileOf(fs[i].saved, ss) = FileOf(fs[i].saved, ts)
    OBVIOUS
  <1>4. f[Len(fs)] = g[Len(fs)]
    BY <1>1, <1>2, <1>3, UnfoldsAlike
  <1> QED BY <1>1, <1>2, <1>4

\* Under no frame there is nothing.
LEMMA UnderNone == ASSUME NEW ss PROVE Under(<<>>, ss) = <<>>
  <1>1. Len(<<>>) = 0
    BY EmptySeq
  <1>2. PICK f : Unfolds(f, <<>>, ss, 0) /\ Under(<<>>, ss) = f[0]
    BY <1>1, UnderUnfolds
  <1>3. f[0] = <<>>
    BY <1>2 DEF Unfolds
  <1> QED BY <1>2, <1>3

\* What is under the frames is a sequence of files.
LEMMA UnderIs ==
  ASSUME NEW fs, NEW ss, Len(fs) \in Nat, NEW S, \A i \in 1 .. Len(fs) : FileOf(fs[i].saved, ss) \in S
  PROVE  Under(fs, ss) \in Seq(S)
  <1>1. PICK f : Unfolds(f, fs, ss, Len(fs)) /\ Under(fs, ss) = f[Len(fs)]
    BY UnderUnfolds
  <1> DEFINE T == {n \in Nat : n <= Len(fs) => f[n] \in Seq(S)}
  <1>2. \A n \in 0 .. Len(fs) : f[n] = IF n = 0 THEN <<>>
                                       ELSE IF Owns(fs[n]) THEN Append(f[n - 1], FileOf(fs[n].saved, ss))
                                       ELSE f[n - 1]
    BY <1>1 DEF Unfolds
  <1>3. 0 \in T
    <2>1. 0 \in 0 .. Len(fs)
      OBVIOUS
    <2>2. f[0] = <<>>
      BY <1>2, <2>1
    <2> QED BY <2>2, EmptySeq
  <1>4. ASSUME NEW n \in Nat, n \in T
        PROVE  n + 1 \in T
    <2> SUFFICES ASSUME n + 1 <= Len(fs) PROVE f[n + 1] \in Seq(S)
      OBVIOUS
    <2>1. n + 1 \in 0 .. Len(fs) /\ n + 1 /= 0 /\ n + 1 - 1 = n /\ f[n] \in Seq(S) /\ n + 1 \in 1 .. Len(fs)
      BY <1>4
    <2>2. f[n + 1] = IF Owns(fs[n + 1]) THEN Append(f[n], FileOf(fs[n + 1].saved, ss)) ELSE f[n]
      BY <1>2, <2>1
    <2>3. FileOf(fs[n + 1].saved, ss) \in S
      BY <2>1
    <2>4. Append(f[n], FileOf(fs[n + 1].saved, ss)) \in Seq(S)
      BY <2>1, <2>3, AppendProperties
    <2> QED BY <2>1, <2>2, <2>4
  <1>5. \A n \in Nat : n \in T => n + 1 \in T
    BY <1>4
  <1> HIDE DEF T
  <1>6. Nat \subseteq T
    BY <1>3, <1>5, Inductive
  <1>7. Len(fs) \in T
    BY <1>6
  <1> QED BY <1>1, <1>7 DEF T

\* The file of a stream is one that was opened, or none.
LEMMA FilesOf ==
  ASSUME TInv
  PROVE  /\ \A s \in 0 .. Len(streams) : FileOf(s, streams) \in 0 .. Len(given)
         /\ \A i \in 1 .. Len(frames) : FileOf(frames[i].saved, streams) \in 0 .. Len(given)
         /\ Under(frames, streams) \in Seq(0 .. Len(given))
  <1>1. \A s \in 0 .. Len(streams) : FileOf(s, streams) \in 0 .. Len(given)
    <2> TAKE s \in 0 .. Len(streams)
    <2>1. CASE s = None
      BY <2>1, Parts DEF FileOf, None
    <2>2. CASE s /= None
      <3>1. s \in 1 .. Len(streams)
        BY <2>2, Parts DEF None
      <3>2. streams[s].file \in 1 .. Len(given)
        BY <3>1, Parts
      <3> QED BY <2>2, <3>2, Parts DEF FileOf
    <2> QED BY <2>1, <2>2
  <1>2. \A i \in 1 .. Len(frames) : FileOf(frames[i].saved, streams) \in 0 .. Len(given)
    BY <1>1, Parts
  <1>3. Len(frames) \in Nat
    BY Parts
  <1>4. Under(frames, streams) \in Seq(0 .. Len(given))
    <2> DEFINE S == 0 .. Len(given)
    <2>1. \A i \in 1 .. Len(frames) : FileOf(frames[i].saved, streams) \in S
      BY <1>2
    <2> HIDE DEF S
    <2>2. Under(frames, streams) \in Seq(S)
      BY <1>3, <2>1, UnderIs
    <2> QED BY <2>2 DEF S
  <1> QED BY <1>1, <1>2, <1>4

\* The streams keep their files.
FilesStay ==
    \A s \in 0 .. Len(streams) : FileOf(s, streams') = FileOf(s, streams)

\* Streams that stay, and one that is new, keep the files.
LEMMA FilesStayWhen ==
  ASSUME TInv
  PROVE  /\ streams' = streams => FilesStay
         /\ \A text \in StreamType : Stream(text) =>
               /\ FilesStay /\ input' \in Nat \ {0} /\ FileOf(input', streams') = text.file
         /\ \A n \in Nat : /\ input \in 1 .. Len(streams) /\ streams[input].from + n <= Lines + 1
                           /\ streams' = MovedOn(input, n)
                           => FilesStay
  <1>1. streams' = streams => FilesStay
    BY DEF FilesStay
  <1>2. ASSUME NEW text \in StreamType, Stream(text)
        PROVE  FilesStay /\ input' \in Nat \ {0} /\ FileOf(input', streams') = text.file
    <2>1. /\ Len(streams') = Len(streams) + 1 /\ Len(streams) \in Nat /\ input' = Len(streams) + 1
          /\ \A s \in 1 .. Len(streams') : streams'[s] = IF s = Len(streams) + 1 THEN text ELSE streams[s]
      BY <1>2, Streamed
    <2>2. \A s \in 0 .. Len(streams) : FileOf(s, streams') = FileOf(s, streams)
      <3> TAKE s \in 0 .. Len(streams)
      <3>1. CASE s = None
        BY <3>1 DEF FileOf
      <3>2. CASE s /= None
        <4>1. s \in 1 .. Len(streams') /\ s /= Len(streams) + 1
          BY <2>1, <3>2 DEF None
        <4> QED BY <2>1, <4>1 DEF FileOf
      <3> QED BY <3>1, <3>2
    <2>3. input' \in 1 .. Len(streams') /\ input' /= None
      BY <2>1 DEF None
    <2> QED BY <2>1, <2>2, <2>3 DEF FileOf, FilesStay
  <1>3. ASSUME NEW n \in Nat, input \in 1 .. Len(streams), streams[input].from + n <= Lines + 1,
               streams' = MovedOn(input, n)
        PROVE  FilesStay
    <2>1. \A t \in 1 .. Len(streams) : streams'[t].file = streams[t].file
      BY <1>3, Moving
    <2>2. \A s \in 0 .. Len(streams) : s = None \/ s \in 1 .. Len(streams)
      BY Parts DEF None
    <2> QED BY <2>1, <2>2 DEF FileOf, FilesStay
  <1> QED BY <1>1, <1>2, <1>3

\* What is under the frames after a step that keeps the frames, or enters one.
LEMMA UnderStays ==
  ASSUME TInv, FilesStay
  PROVE  /\ UNCHANGED frames => Under(frames', streams') = Under(frames, streams)
         /\ \A kind \in Kinds, own \in TextType :
               frames' = Append(frames, Frame(kind, own)) =>
                  Under(frames', streams') =
                     IF kind \in {"input", "pipe", "subshell"}
                     THEN Append(Under(frames, streams), FileOf(input, streams))
                     ELSE Under(frames, streams)
  <1>1. /\ \A i \in 1 .. Len(frames) : FileOf(frames[i].saved, streams') = FileOf(frames[i].saved, streams)
        /\ FileOf(input, streams') = FileOf(input, streams) /\ Len(frames) \in Nat
    <2>1. /\ \A i \in 1 .. Len(frames) : frames[i].saved \in 0 .. Len(streams)
          /\ input \in 0 .. Len(streams) /\ Len(frames) \in Nat
      BY Parts
    <2> QED BY <2>1 DEF FilesStay
  <1>2. ASSUME UNCHANGED frames
        PROVE  Under(frames', streams') = Under(frames, streams)
    <2>1. Under(frames, streams') = Under(frames, streams)
      BY <1>1, UnderSame
    <2> QED BY <1>2, <2>1
  <1>3. ASSUME NEW kind \in Kinds, NEW own \in TextType, frames' = Append(frames, Frame(kind, own))
        PROVE  Under(frames', streams') =
                  IF kind \in {"input", "pipe", "subshell"}
                  THEN Append(Under(frames, streams), FileOf(input, streams)) ELSE Under(frames, streams)
    <2>1. /\ Len(frames') = Len(frames) + 1
          /\ \A i \in 1 .. Len(frames) : frames'[i] = frames[i]
          /\ frames'[Len(frames) + 1].kind = kind /\ frames'[Len(frames) + 1].saved = input
      BY <1>3, Pushing
    <2>2. Len(frames') \in Nat \ {0} /\ Len(frames) = Len(frames') - 1
      BY <1>1, <2>1
    <2>3. \A i \in 1 .. Len(frames) : /\ frames[i] = frames'[i]
                                      /\ FileOf(frames'[i].saved, streams') = FileOf(frames'[i].saved, streams)
      BY <1>1, <2>1
    <2>4. Under(frames', streams') =
             IF Owns(frames'[Len(frames')])
             THEN Append(Under(frames, streams), FileOf(frames'[Len(frames')].saved, streams'))
             ELSE Under(frames, streams)
      BY <2>2, <2>3, UnderSplit
    <2> QED BY <1>1, <2>1, <2>4 DEF Owns
  <1> QED BY <1>2, <1>3

\* What commands read: the text of the stage, or the stream.
LEMMA CurrentIs ==
  ASSUME IInv
  PROVE  /\ Within({"pipe"}) => Current = Top.text.file
         /\ ~Within({"pipe"}) => Current = FileOf(input, streams)
         /\ stdin /= NoText => Within({"pipe"}) /\ Current = stdin.file
         /\ Current \in 0 .. Len(given)
  <1>1. TInv /\ (stdin /= NoText => Within({"pipe"}) /\ Top.text.file = stdin.file)
    BY Holds, Stages
  <1>2. Within({"pipe"}) => Top.text.file \in 0 .. Len(given)
    BY <1>1, Tops, Parts
  <1>3. FileOf(input, streams) \in 0 .. Len(given)
    BY <1>1, FilesOf, Parts
  <1> QED BY <1>1, <1>2, <1>3 DEF Current
\* The descriptors of a state, and a step of FileDescriptor between two of them.
Below == Under(frames, streams)
Scopes == Append(Below, Current)
Step == [Descriptor!Next]_<<Scopes, given>>

\* The descriptors, one by one.
LEMMA ScopesAre ==
  ASSUME IInv
  PROVE  /\ Below \in Seq(Nat) /\ Current \in Nat /\ Scopes \in Seq(Nat)
         /\ Last(Scopes) = Current /\ Front(Scopes) = Below
         /\ Len(Scopes) = Len(Below) + 1 /\ Len(Below) \in Nat
  <1>1. TInv /\ Current \in 0 .. Len(given) /\ Len(given) \in Nat /\ Below \in Seq(0 .. Len(given))
    BY Holds, CurrentIs, FilesOf, Parts DEF Below
  <1>2. Below \in Seq(Nat) /\ Current \in Nat
    <2>1. 0 .. Len(given) \subseteq Nat
      BY <1>1
    <2>2. /\ Len(Below) \in Nat /\ DOMAIN Below = 1 .. Len(Below) /\ Below \in [1 .. Len(Below) -> 0 .. Len(given)]
      BY <1>1, LenProperties
    <2>3. Below \in [1 .. Len(Below) -> Nat]
      BY <2>1, <2>2
    <2> QED BY <1>1, <2>2, <2>3, SeqDef
  <1>3. /\ Scopes \in Seq(Nat) /\ Scopes /= <<>> /\ Len(Scopes) = Len(Below) + 1 /\ Len(Below) \in Nat
        /\ \A j \in 1 .. Len(Below) + 1 : Scopes[j] = IF j = Len(Below) + 1 THEN Current ELSE Below[j]
    BY <1>2, Appended DEF Scopes
  <1>4. Last(Scopes) = Current
    BY <1>3 DEF Last
  <1>5. Front(Scopes) = Below
    <2>1. /\ Front(Scopes) \in Seq(Nat) /\ Len(Front(Scopes)) = Len(Below)
          /\ \A i \in 1 .. Len(Below) : Front(Scopes)[i] = Scopes[i]
      <3>1. /\ Front(Scopes) \in Seq(Nat) /\ Len(Front(Scopes)) = Len(Scopes) - 1
            /\ \A i \in 1 .. Len(Scopes) - 1 : Front(Scopes)[i] = Scopes[i]
        BY <1>3, Fronted
      <3>2. Len(Scopes) - 1 = Len(Below)
        BY <1>3
      <3> QED BY <3>1, <3>2
    <2>2. \A i \in 1 .. Len(Below) : Front(Scopes)[i] = Below[i]
      BY <1>3, <2>1
    <2> QED BY <1>2, <2>1, <2>2, SeqEqual
  <1> QED BY <1>2, <1>3, <1>4, <1>5

\* The steps that descriptors may take.
LEMMA DescriptorSteps ==
  ASSUME IInv
  PROVE  /\ Scopes' = Scopes /\ given' = given => Step
         /\ Scopes' = Append(Scopes, Len(given) + 1) /\ OpenFile => Step
         /\ Scopes' = Append(Scopes, Current) /\ given' = given => Step
         /\ Scopes' = Below /\ Below /= <<>> /\ given' = given => Step
         /\ Scopes' = Append(Below, Len(given) + 1) /\ OpenFile => Step
  <1>1. /\ Last(Scopes) = Current /\ Front(Scopes) = Below
        /\ Len(Scopes) = Len(Below) + 1 /\ Below \in Seq(Nat) /\ Len(Below) \in Nat
    BY ScopesAre
  <1>2. Scopes' = Scopes /\ given' = given => Step
    BY DEF Step
  <1>3. Scopes' = Append(Scopes, Len(given) + 1) /\ OpenFile => Step
    BY DEF Step, Scopes, Below, OpenFile, Descriptor!Next, Descriptor!Enter, Descriptor!NewFile, Descriptor!OpenNew
  <1>4. Scopes' = Append(Scopes, Current) /\ given' = given => Step
    BY <1>1 DEF Step, Scopes, Below, Descriptor!Next, Descriptor!Enter, Last, Descriptor!Last
  <1>5. Scopes' = Below /\ Below /= <<>> /\ given' = given => Step
    <2>1. Below /= <<>> => Len(Scopes) > 1
      BY <1>1, EmptySeq
    <2> QED BY <1>1, <2>1 DEF Step, Scopes, Below, Descriptor!Next, Descriptor!Leave, Front, Descriptor!Front
  <1>6. Scopes' = Append(Below, Len(given) + 1) /\ OpenFile => Step
    BY <1>1 DEF Step, Scopes, Below, OpenFile, Descriptor!Next, Descriptor!Replace, Descriptor!NewFile,
                Descriptor!OpenNew, Front, Descriptor!Front
  <1> QED BY <1>2, <1>3, <1>4, <1>5, <1>6
\* A construct that is entered: what is under the frames, and what is read within.
LEMMA EnterScopes ==
  ASSUME IInv, IInv', FilesStay, NEW kind \in Kinds \ {"pipe", "group"}, Push(kind), ~Within({"pipe"})
  PROVE  Scopes' = Append(IF kind \in {"input", "subshell"} THEN Scopes ELSE Below,
                          FileOf(input', streams'))
  <1>1. TInv /\ NoText \in TextType /\ kind \in Kinds
    BY Holds, Bounds DEF None
  <1>2. frames' = Append(frames, Frame(kind, NoText))
    BY DEF Push
  <1>3. Below' = IF kind \in {"input", "subshell"}
                 THEN Append(Below, FileOf(input, streams)) ELSE Below
    BY <1>1, <1>2, UnderStays DEF Below
  <1>4. Current = FileOf(input, streams)
    BY CurrentIs
  <1>5. Current' = FileOf(input', streams')
    <2>1. Len(frames') = Len(frames) + 1 /\ Len(frames) \in Nat /\ frames'[Len(frames) + 1].kind = kind
      BY <1>1, <1>2, Pushing
    <2>2. frames'[Len(frames')].kind \notin {"pipe"}
      BY <2>1
    <2>3. TInv'
      BY DEF IInv
    <2>4. ~Within({"pipe"})'
      <3>1. frames' \in Seq(FrameType) /\ Last(frames') = frames'[Len(frames')]
        BY <2>3 DEF TInv, Typed, Last
      <3> QED BY <2>2, <3>1 DEF Within, Top
    <2>5. stdin' = NoText
      <3>1. Handed(Live(frames', input'), frames', stdin', streams', given')
        BY DEF IInv
      <3> QED BY <2>2, <3>1 DEF Handed
    <2> QED BY <2>4, <2>5 DEF Current
  <1> QED BY <1>3, <1>4, <1>5 DEF Scopes

\* A construct without an input of its own, and no stream: the descriptors stay.
LEMMA EnterNothing ==
  ASSUME IInv, IInv', NEW kind \in Kinds \ {"pipe", "group", "input", "subshell"}, Push(kind),
         ~Within({"pipe"}), UNCHANGED <<input, streams, given>>
  PROVE  Step
  <1>1. FilesStay
    BY Holds, FilesStayWhen
  <1>2. Scopes' = Append(Below, FileOf(input, streams))
    BY <1>1, EnterScopes
  <1>3. Scopes' = Scopes
    BY <1>2, CurrentIs DEF Scopes
  <1> QED BY <1>3, DescriptorSteps

\* Commands and exec keep the frames.
LEMMA StayScopes ==
  ASSUME IInv, IInv', FilesStay, UNCHANGED frames, stdin' = NoText
  PROVE  Scopes' = Append(Below, IF Within({"pipe"}) THEN Current ELSE FileOf(input', streams'))
  <1>1. Below' = Below
    BY Holds, UnderStays DEF Below
  <1>2. Current' = IF Within({"pipe"}) THEN Current ELSE FileOf(input', streams')
    BY CurrentIs DEF Current, Within, Top
  <1> QED BY <1>1, <1>2 DEF Scopes

\* With a construct its descriptor is gone, and what is read is what was before.
LEMMA LeaveStep == ASSUME IInv, IInv', LeaveFrame PROVE Step
  <1> DEFINE m == Len(frames')
  <1>1. TInv /\ Nested(frames, input) /\ TInv'
    BY Holds DEF IInv
  <1>2. /\ Len(frames) \in Nat \ {0} /\ m \in Nat /\ m = Len(frames) - (IF StageEnds THEN 2 ELSE 1)
        /\ m + 1 \in 1 .. Len(frames)
        /\ \A i \in 1 .. m : frames'[i] = frames[i] /\ i \in 1 .. Len(frames)
        /\ streams' = streams /\ given' = given /\ stdin' = NoText /\ Top = frames[Len(frames)]
        /\ frames' \in Seq(FrameType)
    BY <1>1, Leaving, LeaveText
  <1>3. input' = frames[m + 1].saved
    BY LeaveInput
  <1> DEFINE before == frames[m + 1]
  <1>4. before.kind /= "group"
    <2>1. StageEnds => frames[Len(frames) - 1].kind = "pipe" /\ Len(frames) > 1
      BY DEF StageEnds
    <2>2. CASE StageEnds
      <3>1. m + 1 = Len(frames) - 1
        BY <1>2, <2>2
      <3> QED BY <2>1, <2>2, <3>1
    <2>3. CASE ~StageEnds
      <3>1. m + 1 = Len(frames)
        BY <1>2, <2>3
      <3>2. frames[Len(frames)].kind = "group" => Len(frames) > 1 /\ frames[Len(frames) - 1].kind = "pipe"
        BY <1>1, <1>2, <3>1 DEF Nested
      <3>3. frames[Len(frames)].kind = "group" => StageEnds
        BY <1>1, <1>2, <3>2, Tops DEF StageEnds
      <3> QED BY <2>3, <3>1, <3>3
    <2> QED BY <2>2, <2>3
  <1>5. ~(m > 0 /\ frames[m].kind = "pipe")
    <2>1. m > 0 => m \in 1 .. Len(frames) /\ m /= Len(frames)
      BY <1>2
    <2> QED BY <1>1, <1>4, <2>1 DEF Nested
  <1>6. Current' = FileOf(before.saved, streams)
    <2>1. frames' /= <<>> => m > 0 /\ m \in 1 .. m
      BY <1>2, EmptySeq
    <2>2. Last(frames') = frames'[m]
      BY DEF Last
    <2>3. ~Within({"pipe"})'
      BY <1>2, <1>5, <2>1, <2>2 DEF Within, Top
    <2> HIDE DEF m
    <2> QED BY <1>2, <1>3, <2>3 DEF Current
  <1>7. \A i \in 1 .. m : frames'[i] = frames[i]
    BY <1>2
  <1>8. Below' \in Seq(Nat) /\ FileOf(before.saved, streams) \in Nat
    <2>1. \A i \in 1 .. Len(frames) : FileOf(frames[i].saved, streams) \in Nat
      <3>1. \A i \in 1 .. Len(frames) : FileOf(frames[i].saved, streams) \in 0 .. Len(given)
        BY <1>1, FilesOf
      <3>2. Len(given) \in Nat
        BY <1>1, Parts
      <3> QED BY <3>1, <3>2
    <2>2. \A i \in 1 .. Len(frames') : FileOf(frames'[i].saved, streams) \in Nat
      BY <1>2, <2>1
    <2>3. Under(frames', streams) \in Seq(Nat)
      BY <1>2, <2>2, UnderIs
    <2> QED BY <1>2, <2>1, <2>3 DEF Below
  <1>9. CASE StageEnds
    <2>1. /\ Len(frames) > 1 /\ m + 1 = Len(frames) - 1 /\ frames[Len(frames)].kind = "group"
          /\ before.kind = "pipe" /\ m + 1 \in Nat \ {0}
      BY <1>1, <1>2, <1>9, Tops DEF StageEnds
    <2> DEFINE gs == Front(frames)
    <2>2. /\ gs \in Seq(FrameType) /\ Len(gs) = Len(frames) - 1 /\ Len(gs) = m + 1
          /\ \A i \in 1 .. Len(gs) : gs[i] = frames[i]
      <3>1. frames \in Seq(FrameType) /\ frames /= <<>>
        BY <1>1, <1>2, Parts, EmptySeq
      <3> QED BY <2>1, <3>1, Fronted
    <2> HIDE DEF gs
    <2>3. Under(frames, streams) =
             IF Owns(frames[Len(frames)])
             THEN Append(Under(gs, streams), FileOf(frames[Len(frames)].saved, streams))
             ELSE Under(gs, streams)
      BY <1>2, <2>2, UnderFront
    <2>4. Below = Under(gs, streams)
      BY <2>1, <2>3 DEF Owns, Below
    <2>5. Len(gs) \in Nat \ {0} /\ Len(frames') = Len(gs) - 1
          /\ \A i \in 1 .. Len(frames') : frames'[i] = gs[i]
      <3>1. \A i \in 1 .. m : i \in 1 .. Len(gs)
        BY <1>2, <2>2
      <3>2. Len(gs) \in Nat \ {0} /\ m = Len(gs) - 1
        <4>1. m \in Nat /\ Len(gs) = m + 1
          BY <1>2, <2>2
        <4> HIDE DEF m
        <4> QED BY <4>1
      <3> QED BY <1>2, <2>2, <3>1, <3>2
    <2>6. Under(gs, streams) =
             IF Owns(gs[Len(gs)])
             THEN Append(Under(frames', streams), FileOf(gs[Len(gs)].saved, streams))
             ELSE Under(frames', streams)
      BY <2>5, UnderFront
    <2>7. gs[Len(gs)] = before
      BY <2>1, <2>2
    <2>8. Below = Append(Below', FileOf(before.saved, streams))
      BY <1>2, <2>1, <2>4, <2>6, <2>7 DEF Owns, Below
    <2>9. Scopes' = Below
      BY <1>6, <2>8 DEF Scopes
    <2>10. Below /= <<>>
      BY <1>8, <2>8, Appended
    <2> QED BY <1>2, <2>9, <2>10, DescriptorSteps
  <1>10. CASE ~StageEnds
    <2>1. m + 1 = Len(frames) /\ before = Top
      BY <1>2, <1>10
    <2>2. Under(frames, streams) =
             IF Owns(frames[Len(frames)])
             THEN Append(Under(frames', streams), FileOf(frames[Len(frames)].saved, streams))
             ELSE Under(frames', streams)
      <3>1. Len(frames') = Len(frames) - 1
        BY <2>1, <1>2
      <3>2. \A i \in 1 .. Len(frames') : frames'[i] = frames[i]
        BY <1>2
      <3> QED BY <1>2, <3>1, <3>2, UnderFront
    <2>3. Below = IF Owns(before) THEN Append(Below', FileOf(before.saved, streams)) ELSE Below'
      BY <1>2, <2>1, <2>2 DEF Below
    <2>4. CASE Owns(before)
      <3>1. Scopes' = Below
        BY <1>6, <2>3, <2>4 DEF Scopes
      <3>2. Below /= <<>>
        BY <1>8, <2>3, <2>4, Appended
      <3> QED BY <1>2, <3>1, <3>2, DescriptorSteps
    <2>5. CASE ~Owns(before)
      <3>1. Len(frames) \in 1 .. Len(frames) /\ before.kind \in Kinds /\ before = frames[Len(frames)]
        BY <1>1, <1>2, <2>1, Tops
      <3>2. before.kind \in Transparent /\ before.kind /= "pipe"
        BY <1>4, <2>5, <3>1 DEF Owns, Transparent
      <3>3. before.saved = input
        BY <1>1, <3>1, <3>2 DEF Nested, Above
      <3>4. ~Within({"pipe"})
        BY <1>1, <3>1, <3>2, Tops
      <3>5. Current = FileOf(input, streams)
        BY <3>4, CurrentIs
      <3>6. Scopes' = Scopes
        BY <1>6, <2>3, <2>5, <3>3, <3>5 DEF Scopes
      <3> QED BY <1>2, <3>6, DescriptorSteps
    <2> QED BY <2>4, <2>5
  <1> QED BY <1>9, <1>10
\* The lines that a command takes are those that come next in its file.
LEMMA HandStep ==
  ASSUME IInv, IInv', Runs, NEW n \in 1 .. Left, n \in {1, Left}, Hand(Source, n), Ends,
         streams' = IF stdin = NoText THEN MovedOn(input, n) ELSE streams,
         Source.from = Len(given[Source.file]) + 1
  PROVE  Step
  <1>1. TInv /\ Counting(given)
    BY Holds
  <1>2. /\ Source \in StreamType /\ Source.file \in 1 .. Len(given) /\ Source /= NoText
        /\ Left = Lines + 1 - Source.from /\ n \in 1 .. Lines + 1 - Source.from
        /\ Source.from \in 1 .. Lines + 1 /\ Lines \in Nat
    BY <1>1, Sources, Bounds
  <1>3. Source.file = Current
    <2>1. CASE stdin = NoText
      <3>1. ~Within({"pipe"})
        BY <2>1, Stages
      <3>2. Source = streams[input] /\ input /= None
        BY <1>1, <1>2, <2>1, Sources DEF Source
      <3> QED BY <3>1, <3>2, CurrentIs DEF FileOf
    <2>2. CASE stdin /= NoText
      BY <2>2, CurrentIs DEF Source
    <2> QED BY <2>1, <2>2
  <1>4. FilesStay
    <2>1. CASE stdin = NoText
      <3>1. Source = streams[input] /\ input \in 1 .. Len(streams)
        BY <1>1, <1>2, <2>1, Sources DEF Source
      <3>2. n \in Nat /\ streams[input].from + n <= Lines + 1
        <4> DEFINE from == Source.from
        <4>1. from \in 1 .. Lines + 1 /\ n \in 1 .. Lines + 1 - from /\ Lines \in Nat
          BY <1>2
        <4>2. streams[input].from = from
          BY <3>1
        <4> HIDE DEF from
        <4>3. n \in Nat /\ from + n <= Lines + 1
          BY <4>1
        <4> QED BY <4>2, <4>3
      <3>3. streams' = MovedOn(input, n)
        BY <2>1
      <3> QED BY <1>1, <3>1, <3>2, <3>3, FilesStayWhen
    <2>2. CASE stdin /= NoText
      BY <1>1, <2>2, FilesStayWhen
    <2> QED BY <2>1, <2>2
  <1>5. Scopes' = Scopes
    <2>1. UNCHANGED frames /\ stdin' = NoText /\ input' = input
      BY DEF Ends
    <2>2. Scopes' = Append(Below, IF Within({"pipe"}) THEN Current ELSE FileOf(input', streams'))
      BY <1>4, <2>1, StayScopes
    <2>3. ~Within({"pipe"}) => FileOf(input', streams') = Current
      BY <1>1, <1>4, <2>1, Parts, CurrentIs DEF FilesStay
    <2> QED BY <2>2, <2>3 DEF Scopes
  <1> DEFINE next == Len(given[Current]) + 1
             upto == Len(given[Current]) + n
  <1>6. /\ next \in 1 .. Lines + 1 /\ Len(given[Current]) \in Nat /\ upto \in {next, Lines}
        /\ next <= Lines
    <2>1. given[Current] \in Seq(1 .. Lines)
      BY <1>1, <1>2, <1>3, Parts
    <2>2. Len(given[Current]) \in Nat
      BY <2>1, LenProperties
    <2>3. next = Source.from
      BY <1>3
    <2> HIDE DEF next, upto
    <2>4. next \in 1 .. Lines + 1 /\ next <= Lines
      BY <1>2, <2>3
    <2>5. upto = Source.from + n - 1
      BY <1>2, <1>3, <2>2 DEF upto
    <2>6. upto = next \/ upto = Lines
      BY <1>2, <2>3, <2>5
    <2> QED BY <2>2, <2>4, <2>6
  <1>7. given' = [given EXCEPT ![Current] = [line \in 1 .. upto |-> line]]
    <2>1. /\ Len(given') = Len(given) /\ given' \in Seq(Seq(1 .. Lines))
          /\ Len(given'[Current]) = upto
          /\ \A f \in 1 .. Len(given) : f /= Current => given'[f] = given[f]
      BY <1>1, <1>2, <1>3, Handing
    <2>2. Counting(given')
      BY Holds DEF IInv
    <2>3. given'[Current] \in Seq(1 .. Lines) /\ Current \in 1 .. Len(given)
      BY <1>2, <1>3, <2>1, ElementOfSeq
    <2>4. given'[Current] \in [1 .. upto -> 1 .. Lines]
      BY <2>1, <2>3, LenProperties
    <2>5. \A i \in 1 .. upto : given'[Current][i] = i
      BY <2>1, <2>2, <2>3 DEF Counting
    <2> HIDE DEF upto
    <2>6. given'[Current] = [line \in 1 .. upto |-> line]
      BY <2>4, <2>5
    <2>7. given' \in [1 .. Len(given) -> Seq(1 .. Lines)] /\ given \in [1 .. Len(given) -> Seq(1 .. Lines)]
      BY <1>1, <2>1, Parts, LenProperties
    <2> DEFINE new == [given EXCEPT ![Current] = [line \in 1 .. upto |-> line]]
    <2>8. \A f \in 1 .. Len(given) : given'[f] = new[f]
      BY <2>1, <2>3, <2>6, <2>7
    <2>9. DOMAIN new = 1 .. Len(given)
      BY <2>7
    <2> QED BY <2>7, <2>8, <2>9
  <1>8. Last(Scopes) = Current /\ Current \in DOMAIN given
    BY <1>1, <1>2, <1>3, ScopesAre, Parts
  <1>9. Descriptor!Take
    <2> HIDE DEF upto
    <2> QED BY <1>5, <1>6, <1>7, <1>8
            DEF Descriptor!Take, Descriptor!Opened, Descriptor!Last, Last, Scopes, Below, next
  <1> QED BY <1>9 DEF Step, Descriptor!Next
\* Every step is one that descriptors may take, or none.
LEMMA NextStep == ASSUME Odd = {}, IInv, IInv', Next PROVE Step
  <1>1. /\ TInv /\ TInv' /\ Len(given) \in Nat /\ input \in 0 .. Len(streams)
        /\ \A x : x \notin Odd
    BY Holds, Parts DEF IInv
  <1>2. CASE EnterGroup
    <2>1. stdin /= NoText /\ Push("group") /\ Stream(stdin) /\ stdin' = NoText /\ given' = given
      BY <1>1, <1>2 DEF EnterGroup, Source
    <2>2. stdin \in StreamType /\ Current = stdin.file
      BY <1>1, <2>1, Parts, CurrentIs
    <2>3. FilesStay /\ FileOf(input', streams') = stdin.file
      BY <1>1, <2>1, <2>2, FilesStayWhen
    <2>4. "group" \in Kinds /\ NoText \in TextType /\ frames' = Append(frames, Frame("group", NoText))
      BY <2>1, Bounds DEF Kinds, Push, None
    <2>5. Below' = Below
      <3>1. Below' = IF "group" \in {"input", "pipe", "subshell"}
                     THEN Append(Below, FileOf(input, streams)) ELSE Below
        BY <1>1, <2>3, <2>4, UnderStays DEF Below
      <3> QED BY <3>1
    <2>6. Current' = stdin.file
      <3>1. /\ frames' \in Seq(FrameType) /\ Len(frames') = Len(frames) + 1 /\ Len(frames) \in Nat
            /\ frames'[Len(frames) + 1].kind = "group"
        BY <1>1, <2>4, Pushing
      <3>2. Last(frames').kind /= "pipe"
        BY <3>1 DEF Last
      <3>3. ~Within({"pipe"})'
        BY <3>2 DEF Within, Top
      <3> QED BY <2>1, <2>3, <3>3 DEF Current
    <2>7. Scopes' = Scopes
      BY <2>2, <2>5, <2>6 DEF Scopes
    <2> QED BY <2>1, <2>7, DescriptorSteps
  <1>3. CASE EnterCompound
    <2>1. Runs /\ stdin = NoText /\ ~Within({"pipe"})
      BY <1>3, Stages DEF EnterCompound
    <2>2. CASE Push("input") /\ CanOpen /\ Stream(NewFile) /\ OpenFile
      <3>1. NewFile \in StreamType /\ NewFile.file = Len(given) + 1
        BY <1>1, <2>2, Opening
      <3>2. FilesStay /\ FileOf(input', streams') = Len(given) + 1
        BY <1>1, <2>2, <3>1, FilesStayWhen
      <3>3. "input" \in Kinds \ {"pipe", "group"}
        BY DEF Kinds
      <3>4. Scopes' = Append(IF "input" \in {"input", "subshell"} THEN Scopes ELSE Below,
                             FileOf(input', streams'))
        BY <2>1, <2>2, <3>2, <3>3, EnterScopes
      <3>5. Scopes' = Append(Scopes, Len(given) + 1)
        BY <3>2, <3>4
      <3> QED BY <2>2, <3>5, DescriptorSteps
    <2>3. CASE Push("output") /\ UNCHANGED <<input, streams, given>>
      <3>1. "output" \in Kinds \ {"pipe", "group", "input", "subshell"}
        BY DEF Kinds
      <3> QED BY <2>1, <2>3, <3>1, EnterNothing
    <2> QED BY <1>3, <2>2, <2>3 DEF EnterCompound
  <1>4. CASE EnterStage
    <2>1. /\ CanOpen /\ stdin' = NewFile /\ OpenFile /\ streams' = streams
          /\ frames' = Append(frames, Frame("pipe", NewFile)) /\ Runs /\ stdin = NoText
      BY <1>4 DEF EnterStage, PipeText
    <2>2. /\ NewFile.file = Len(given) + 1 /\ Len(given') = Len(given) + 1 /\ Len(given') <= MaxFiles
      BY <1>1, <2>1, Opening
    <2>3. NewFile \in TextType /\ "pipe" \in Kinds /\ ~Within({"pipe"}) /\ FilesStay
      <3>1. NewFile \in StreamType
        BY <1>1, <2>1, Opening
      <3> QED BY <1>1, <2>1, <3>1, Bounds, Stages, FilesStayWhen DEF Kinds, StreamType, TextType
    <2>4. Below' = Scopes
      <3>1. Below' = IF "pipe" \in {"input", "pipe", "subshell"}
                     THEN Append(Below, FileOf(input, streams)) ELSE Below
        BY <1>1, <2>1, <2>3, UnderStays DEF Below
      <3>2. Current = FileOf(input, streams)
        BY <2>3, CurrentIs
      <3> QED BY <3>1, <3>2 DEF Scopes
    <2>5. Current' = Len(given) + 1
      <3>1. /\ frames' \in Seq(FrameType) /\ Len(frames') = Len(frames) + 1 /\ Len(frames) \in Nat
            /\ frames'[Len(frames) + 1].kind = "pipe" /\ frames'[Len(frames) + 1].text = NewFile
        BY <1>1, <2>1, <2>3, Pushing
      <3>2. Last(frames').kind = "pipe" /\ Last(frames').text = NewFile
        BY <3>1 DEF Last
      <3>3. frames' /= <<>>
        BY <3>1, EmptySeq
      <3> QED BY <2>2, <3>2, <3>3 DEF Current, Within, Top
    <2>6. Scopes' = Append(Scopes, Len(given) + 1)
      BY <2>4, <2>5 DEF Scopes
    <2> QED BY <2>1, <2>6, DescriptorSteps
  <1>5. CASE EnterSubshell
    <2>1. /\ Push("subshell") /\ UNCHANGED <<input, streams, given>> /\ ~Within({"pipe"})
      BY <1>5, Stages DEF EnterSubshell, ForkShares
    <2>2. "subshell" \in Kinds \ {"pipe", "group"} /\ FilesStay
      BY <1>1, <2>1, FilesStayWhen DEF Kinds
    <2>3. Scopes' = Append(IF "subshell" \in {"input", "subshell"} THEN Scopes ELSE Below,
                           FileOf(input', streams'))
      BY <2>1, <2>2, EnterScopes
    <2>4. Scopes' = Append(Scopes, Current)
      BY <2>1, <2>3, CurrentIs
    <2> QED BY <2>1, <2>4, DescriptorSteps
  <1>6. CASE EnterHandler
    <2>1. /\ Push("handler") /\ UNCHANGED <<input, streams, given>> /\ ~Within({"pipe"})
          /\ "handler" \in Kinds \ {"pipe", "group", "input", "subshell"}
      BY <1>6, Stages DEF EnterHandler, Kinds
    <2> QED BY <2>1, EnterNothing
  <1>7. CASE EnterFragment
    <2>1. /\ Push("fragment") /\ UNCHANGED <<input, streams, given>> /\ ~Within({"pipe"})
          /\ "fragment" \in Kinds \ {"pipe", "group", "input", "subshell"}
      BY <1>1, <1>7, Fragments, Stages DEF Kinds
    <2> QED BY <2>1, EnterNothing
  <1>8. CASE EnterSubstitution
    <2>1. /\ Push("fragment") /\ UNCHANGED <<input, streams, given>> /\ ~Within({"pipe"})
          /\ "fragment" \in Kinds \ {"pipe", "group", "input", "subshell"}
      BY <1>1, <1>8, Fragments, Stages DEF Kinds
    <2> QED BY <2>1, EnterNothing
  <1>9. CASE LeaveFrame
    BY <1>9, LeaveStep
  <1>10. ASSUME Ends, UNCHANGED <<streams, given>>
         PROVE  Step
    <2>1. FilesStay /\ UNCHANGED <<frames, input, streams, given>> /\ stdin' = NoText
      BY <1>1, <1>10, FilesStayWhen DEF Ends
    <2>2. Scopes' = Append(Below, IF Within({"pipe"}) THEN Current ELSE FileOf(input', streams'))
      BY <2>1, StayScopes
    <2>3. Scopes' = Scopes
      BY <2>1, <2>2, CurrentIs DEF Scopes
    <2> QED BY <2>1, <2>3, DescriptorSteps
  <1>11. CASE Read
    <2>1. /\ Runs /\ Ends
          /\ \E n \in {1, Left} :
                IF n > Left \/ Left = 0
                THEN UNCHANGED <<streams, given>>
                ELSE /\ Hand(Source, n)
                     /\ streams' = IF stdin = NoText THEN MovedOn(input, n) ELSE streams
      BY <1>11 DEF Read
    <2>2. PICK n \in {1, Left} :
             IF n > Left \/ Left = 0
             THEN UNCHANGED <<streams, given>>
             ELSE /\ Hand(Source, n)
                  /\ streams' = IF stdin = NoText THEN MovedOn(input, n) ELSE streams
      BY <2>1
    <2>3. CASE n > Left \/ Left = 0
      BY <1>10, <2>1, <2>2, <2>3
    <2>4. CASE ~(n > Left \/ Left = 0)
      <3>1. n \in 1 .. Left
        BY <1>1, <2>4, Sources, Bounds
      <3>2. /\ Hand(Source, n)
            /\ streams' = IF stdin = NoText THEN MovedOn(input, n) ELSE streams
        BY <2>2, <2>4
      <3>3. Source.from = Len(given[Source.file]) + 1
        BY <1>1, <2>1, <3>1, <3>2, HandHolds
      <3> QED BY <2>1, <3>1, <3>2, <3>3, HandStep
    <2> QED BY <2>3, <2>4
  <1>12. CASE Filter
    <2>1. Runs /\ Ends /\ Left > 0 /\ stdin /= NoText /\ Hand(Source, Left) /\ streams' = streams
      BY <1>1, <1>12 DEF Filter
    <2>2. Left \in 1 .. Left /\ Left \in {1, Left}
      BY <1>1, <2>1, Sources, Bounds
    <2>3. streams' = IF stdin = NoText THEN MovedOn(input, Left) ELSE streams
      BY <2>1
    <2>4. Source.from = Len(given[Source.file]) + 1
      BY <1>1, <2>1, <2>2, <2>3, HandHolds
    <2> QED BY <2>1, <2>2, <2>3, <2>4, HandStep
  <1>13. CASE Ignores
    BY <1>10, <1>13 DEF Ignores
  <1>14. CASE ExecInput
    <2>1. /\ Runs /\ CanOpen /\ Stream(NewFile) /\ OpenFile /\ stdin' = NoText /\ UNCHANGED frames
          /\ ~Within({"pipe"})
      BY <1>1, <1>14 DEF ExecInput, Leaks
    <2>2. NewFile \in StreamType /\ NewFile.file = Len(given) + 1
      BY <1>1, <2>1, Opening
    <2>3. FilesStay /\ FileOf(input', streams') = Len(given) + 1
      BY <1>1, <2>1, <2>2, FilesStayWhen
    <2>4. Scopes' = Append(Below, IF Within({"pipe"}) THEN Current ELSE FileOf(input', streams'))
      BY <2>1, <2>3, StayScopes
    <2>5. Scopes' = Append(Below, Len(given) + 1)
      BY <2>1, <2>3, <2>4
    <2> QED BY <2>1, <2>5, DescriptorSteps
  <1>15. CASE ExecNothing
    <2>1. /\ Runs /\ Source /= NoText /\ Stream(Source) /\ stdin' = NoText /\ UNCHANGED <<frames, given>>
          /\ ~Within({"pipe"})
      BY <1>1, <1>15 DEF ExecNothing, Leaks
    <2>2. stdin = NoText /\ Source = Remaining
      BY <2>1, Stages DEF Source
    <2>3. Source \in StreamType /\ Source = streams[input] /\ input /= None
      BY <1>1, <2>1, <2>2, Sources
    <2>4. FilesStay /\ FileOf(input', streams') = Source.file
      BY <1>1, <2>1, <2>3, FilesStayWhen
    <2>5. Current = Source.file
      BY <2>1, <2>3, CurrentIs DEF FileOf
    <2>6. Scopes' = Append(Below, IF Within({"pipe"}) THEN Current ELSE FileOf(input', streams'))
      BY <2>1, <2>4, StayScopes
    <2>7. Scopes' = Scopes
      BY <2>1, <2>4, <2>5, <2>6 DEF Scopes
    <2> QED BY <2>1, <2>7, DescriptorSteps
  <1> QED BY <1>2, <1>3, <1>4, <1>5, <1>6, <1>7, <1>8, <1>9, <1>11, <1>12, <1>13, <1>14, <1>15 DEF Next

\* Whatever constructs are entered and left, and whatever exec replaces, commands
\* read as from descriptors (ExecuteAsync, ExecutePipelineAsync, ExecBuiltin).
THEOREM ImplementsDescriptorCorrect == ASSUME Odd = {} PROVE Spec => ImplementsDescriptor
  <1>1. ASSUME Init
        PROVE  Descriptor!Init
    <2>1. frames = <<>> /\ input = None /\ stdin = NoText /\ streams = <<>> /\ given = <<>>
      BY <1>1 DEF Init
    <2>2. Under(<<>>, streams) = <<>>
      BY UnderNone
    <2>3. Current = None
      BY <2>1 DEF Current, Within, FileOf
    <2>4. Append(<<>>, None) = <<None>>
      OBVIOUS
    <2>5. Append(Under(frames, streams), Current) = <<None>>
      BY <2>1, <2>2, <2>3, <2>4
    <2> QED BY <2>1, <2>5 DEF Descriptor!Init
  <1>2. ASSUME IInv, IInv', [Next]_vars
        PROVE  [Descriptor!Next]_<<Scopes, given>>
    <2>1. CASE UNCHANGED vars
      BY <2>1 DEF vars, Scopes, Below, Under, Current, Within, Top, FileOf
    <2> QED BY <1>2, <2>1, NextStep DEF Step
  <1> QED BY <1>1, <1>2, Invariant, PTL DEF Spec, ImplementsDescriptor, Descriptor!Spec, Scopes, Below
=============================================================================
