--------------------------- MODULE PythonFile_proofs ---------------------------
(***************************************************************************)
(* Files that keep no offset and append every write implement OpenFiles,   *)
(* for any number of programs, paths, open files and lines, as long as the *)
(* programs have none of the shapes that are known to break it (Odd = {}). *)
(*                                                                         *)
(* The argument: an open file names an entry that exists; the position of  *)
(* a reader is the offset that it ought to have, unless a loop over its    *)
(* lines is under way, and then the lines left are the ones between the    *)
(* offset and the position.                                                *)
(***************************************************************************)
EXTENDS PythonFile, SequenceTheorems, TLAPS

-----------------------------------------------------------------------------
HandleType == [by : Programs, path : Paths, mode : {"r", "w", "a", "x"}, closed : BOOLEAN,
               position : 0 .. MaxLines + 1, left : Seq(1 .. MaxLines)]
Line == 1 .. MaxLines
Entry == {Missing} \cup Seq(Line)

\* What ties an open file, of offset o, to the contents c of the entry at its path.
InStep(f, o, c) ==
    /\ c /= Missing
    /\ f.mode = "r" /\ f.left = <<>> => o = f.position
    /\ f.left /= <<>> =>
          /\ f.mode = "r"
          /\ o + Len(f.left) <= Len(c) /\ f.position = o + Len(f.left)
          /\ \A i \in 1 .. Len(f.left) : f.left[i] = c[o + i]

\* A writer's position counts lines that were written.
Counts(f, n) == f.mode /= "r" => f.left = <<>> /\ f.position <= n

IInv ==
    /\ TypeOK
    /\ Len(history.offset) = Len(handles) /\ Len(history.got) = Len(handles)
    /\ \A p \in Paths : files[p] /= Missing => Len(files[p]) <= history.lines
    /\ \A h \in DOMAIN handles :
          /\ Counts(handles[h], history.lines)
          /\ ~handles[h].closed => InStep(handles[h], history.offset[h], files[handles[h].path])

-----------------------------------------------------------------------------
\* Replacing one element of a sequence leaves the others where they are.
LEMMA Replaced ==
    ASSUME NEW S, NEW s \in Seq(S), NEW i \in DOMAIN s, NEW e \in S
    PROVE  /\ [s EXCEPT ![i] = e] \in Seq(S)
           /\ Len([s EXCEPT ![i] = e]) = Len(s)
           /\ DOMAIN [s EXCEPT ![i] = e] = DOMAIN s
           /\ \A j \in DOMAIN s : [s EXCEPT ![i] = e][j] = IF j = i THEN e ELSE s[j]
  <1>1. DOMAIN s = 1 .. Len(s)
    BY LenProperties
  <1>2. /\ [s EXCEPT ![i] = e] \in Seq(S) /\ Len([s EXCEPT ![i] = e]) = Len(s)
        /\ \A j \in 1 .. Len(s) : [s EXCEPT ![i] = e][j] = IF j = i THEN e ELSE s[j]
    BY <1>1, ExceptSeq
  <1> QED BY <1>1, <1>2

\* Appending an element leaves the others where they are.
LEMMA Appended ==
    ASSUME NEW S, NEW s \in Seq(S), NEW e \in S
    PROVE  /\ Append(s, e) \in Seq(S)
           /\ Len(Append(s, e)) = Len(s) + 1
           /\ DOMAIN Append(s, e) = 1 .. Len(s) + 1
           /\ \A j \in 1 .. Len(s) + 1 : Append(s, e)[j] = IF j = Len(s) + 1 THEN e ELSE s[j]
           /\ Len(s) \in Nat /\ DOMAIN s = 1 .. Len(s)
           /\ \A j \in 1 .. Len(s) : s[j] \in S
  BY AppendProperties, LenProperties, ElementOfSeq

\* A part of a sequence.
LEMMA Part ==
    ASSUME NEW S, NEW s \in Seq(S), NEW m \in 0 .. Len(s), NEW n \in m .. Len(s)
    PROVE  /\ SubSeq(s, m + 1, n) \in Seq(S)
           /\ Len(SubSeq(s, m + 1, n)) = n - m
           /\ \A i \in 1 .. n - m : SubSeq(s, m + 1, n)[i] = s[m + i]
  <1>1. Len(s) \in Nat /\ \A i \in m + 1 .. n : s[i] \in S
    BY LenProperties, ElementOfSeq
  <1>2. /\ SubSeq(s, m + 1, n) \in Seq(S)
        /\ Len(SubSeq(s, m + 1, n)) = IF m + 1 <= n THEN n - (m + 1) + 1 ELSE 0
        /\ \A i \in 1 .. n - (m + 1) + 1 : SubSeq(s, m + 1, n)[i] = s[m + 1 + i - 1]
    BY <1>1, SubSeqProperties
  <1>3. n - (m + 1) + 1 = n - m /\ \A i \in 1 .. n - m : m + 1 + i - 1 = m + i
    BY <1>1
  <1> QED BY <1>1, <1>2, <1>3

\* The types of the parts of the state.
LEMMA Typed ==
    ASSUME TypeOK
    PROVE  /\ MaxLines \in Nat /\ MaxHandles \in Nat
           /\ handles \in Seq(HandleType)
           /\ DOMAIN handles = 1 .. Len(handles) /\ Len(handles) \in Nat
           /\ \A h \in DOMAIN handles : handles[h] \in HandleType
           /\ files \in [Paths -> Entry]
           /\ \A p \in Paths : files[p] /= Missing => files[p] \in Seq(Line) /\ Len(files[p]) \in Nat
           /\ history.offset \in Seq(0 .. MaxLines + 1) /\ history.got \in Seq(Seq(Line))
           /\ history.lines \in 0 .. MaxLines
  <1>1. MaxLines \in Nat /\ MaxHandles \in Nat
    BY BoundsAreNatural
  <1>2. handles \in Seq(HandleType) /\ files \in [Paths -> Entry]
    BY DEF TypeOK, HandleType, Line, Entry
  <1>3. /\ DOMAIN handles = 1 .. Len(handles) /\ Len(handles) \in Nat
        /\ \A h \in DOMAIN handles : handles[h] \in HandleType
    BY <1>2, LenProperties, ElementOfSeq
  <1>4. \A p \in Paths : files[p] /= Missing => files[p] \in Seq(Line)
    BY <1>2 DEF Entry
  <1>5. \A p \in Paths : files[p] /= Missing => Len(files[p]) \in Nat
    BY <1>4, LenProperties
  <1>6. /\ history.offset \in Seq(0 .. MaxLines + 1) /\ history.got \in Seq(Seq(Line))
        /\ history.lines \in 0 .. MaxLines
    BY DEF TypeOK, History, Line
  <1> QED BY <1>1, <1>2, <1>3, <1>4, <1>5, <1>6

-----------------------------------------------------------------------------
\* ---- what keeps the invariant ----

\* A line at the end of an entry changes nothing for those who have it open.
LEMMA Grows ==
    ASSUME NEW f \in HandleType, NEW o \in Nat, NEW c \in Seq(Line), NEW line \in Line, InStep(f, o, c)
    PROVE  InStep(f, o, Append(c, line)) /\ Append(c, line) \in Seq(Line) /\ Append(c, line) /= Missing
  <1>1. /\ Append(c, line) \in Seq(Line) /\ Len(Append(c, line)) = Len(c) + 1 /\ Len(c) \in Nat
        /\ \A j \in 1 .. Len(c) + 1 : Append(c, line)[j] = IF j = Len(c) + 1 THEN line ELSE c[j]
    BY Appended
  <1>2. Append(c, line) /= Missing
    BY <1>1, NoEntryIsNoFile DEF Line
  <1>3. Len(f.left) \in Nat
    BY LenProperties DEF HandleType
  <1>4. ASSUME f.left /= <<>>
        PROVE  /\ o + Len(f.left) <= Len(Append(c, line))
               /\ \A i \in 1 .. Len(f.left) : f.left[i] = Append(c, line)[o + i]
    BY <1>1, <1>3, <1>4 DEF InStep
  <1> QED BY <1>1, <1>2, <1>4 DEF InStep

\* More lines are written.
LEMMA CountsMore ==
    ASSUME NEW f \in HandleType, NEW m \in Nat, NEW n \in Nat, m <= n, Counts(f, m)
    PROVE  Counts(f, n)
  <1>1. f.position \in Nat
    BY BoundsAreNatural DEF HandleType
  <1> QED BY <1>1 DEF Counts

\* One open file changes, with its history, and perhaps the entries.
LEMMA KeptByChange ==
    ASSUME IInv, NEW h \in DOMAIN handles, NEW f \in HandleType,
           NEW o \in 0 .. MaxLines + 1, NEW g \in Seq(Line), NEW n \in 0 .. MaxLines,
           handles' = [handles EXCEPT ![h] = f], doing' = doing,
           history' = [offset |-> [history.offset EXCEPT ![h] = o],
                       got |-> [history.got EXCEPT ![h] = g], lines |-> n],
           history.lines <= n,
           files' \in [Paths -> Entry],
           \A p \in Paths : files'[p] /= Missing => Len(files'[p]) <= n,
           Counts(f, n), ~f.closed => InStep(f, o, files'[f.path]),
           \A k \in DOMAIN handles :
              k /= h /\ ~handles[k].closed
                 => InStep(handles[k], history.offset[k], files'[handles[k].path])
    PROVE  IInv'
  <1>1. TypeOK
    BY DEF IInv
  <1>2. /\ handles \in Seq(HandleType) /\ DOMAIN handles = 1 .. Len(handles) /\ Len(handles) \in Nat
        /\ history.offset \in Seq(0 .. MaxLines + 1) /\ history.got \in Seq(Seq(Line))
        /\ history.lines \in 0 .. MaxLines /\ MaxLines \in Nat
        /\ \A k \in DOMAIN handles : handles[k] \in HandleType
    BY <1>1, Typed
  <1>3. DOMAIN history.offset = DOMAIN handles /\ DOMAIN history.got = DOMAIN handles
    BY <1>2, LenProperties DEF IInv
  <1>4. /\ handles' \in Seq(HandleType) /\ Len(handles') = Len(handles) /\ DOMAIN handles' = DOMAIN handles
        /\ \A k \in DOMAIN handles : handles'[k] = IF k = h THEN f ELSE handles[k]
    BY <1>2, Replaced
  <1>5. /\ history'.offset \in Seq(0 .. MaxLines + 1) /\ Len(history'.offset) = Len(history.offset)
        /\ \A k \in DOMAIN handles : history'.offset[k] = IF k = h THEN o ELSE history.offset[k]
    BY <1>2, <1>3, Replaced
  <1>6. history'.got \in Seq(Seq(Line)) /\ Len(history'.got) = Len(history.got)
    BY <1>2, <1>3, Replaced
  <1>7. TypeOK'
    <2>1. history' \in History
      BY <1>5, <1>6 DEF History, Line
    <2>2. handles' \in Seq([by : Programs, path : Paths, mode : {"r", "w", "a", "x"},
                        closed : BOOLEAN, position : 0 .. MaxLines + 1,
                        left : Seq(1 .. MaxLines)])
      BY <1>4 DEF HandleType, Line
    <2>3. files' \in [Paths -> {Missing} \cup Seq(1 .. MaxLines)]
      BY DEF Entry, Line
    <2> QED BY <1>1, <2>1, <2>2, <2>3 DEF TypeOK
  <1>8. Len(history'.offset) = Len(handles') /\ Len(history'.got) = Len(handles')
    BY <1>4, <1>5, <1>6 DEF IInv
  <1>9. ASSUME NEW k \in DOMAIN handles
        PROVE  Counts(handles'[k], n) /\ (~handles'[k].closed
                  => InStep(handles'[k], history'.offset[k], files'[handles'[k].path]))
    <2>1. CASE k = h
      BY <1>4, <1>5, <2>1
    <2>2. CASE k /= h
      <3>1. Counts(handles[k], history.lines) /\ handles[k] \in HandleType
        BY <1>2 DEF IInv
      <3>2. Counts(handles[k], n)
        BY <1>2, <3>1, CountsMore
      <3>3. ~handles[k].closed => InStep(handles[k], history.offset[k], files'[handles[k].path])
        BY <2>2
      <3> QED BY <1>4, <1>5, <2>2, <3>2, <3>3
    <2> QED BY <2>1, <2>2
  <1>10. history'.lines = n
    OBVIOUS
  <1> QED BY <1>4, <1>7, <1>8, <1>9, <1>10 DEF IInv

\* An element that is replaced by itself.
LEMMA Same ==
    ASSUME NEW S, NEW s \in Seq(S), NEW i \in DOMAIN s
    PROVE  [s EXCEPT ![i] = s[i]] = s
  <1>1. s = [j \in 1 .. Len(s) |-> s[j]]
    BY LenProperties
  <1> QED BY <1>1

\* One open file changes, and nothing else.
LEMMA KeptByHandle ==
    ASSUME IInv, NEW h \in DOMAIN handles, NEW f \in HandleType,
           handles' = [handles EXCEPT ![h] = f], UNCHANGED <<files, doing, history>>,
           Counts(f, history.lines),
           ~f.closed => InStep(f, history.offset[h], files[f.path])
    PROVE  IInv'
  <1>1. TypeOK
    BY DEF IInv
  <1>2. /\ history.offset \in Seq(0 .. MaxLines + 1) /\ history.got \in Seq(Seq(Line))
        /\ history.lines \in 0 .. MaxLines /\ DOMAIN handles = 1 .. Len(handles)
        /\ files \in [Paths -> Entry] /\ MaxLines \in Nat
    BY <1>1, Typed
  <1>3. h \in DOMAIN history.offset /\ h \in DOMAIN history.got
    BY <1>2, LenProperties DEF IInv
  <1>4. history.offset[h] \in 0 .. MaxLines + 1 /\ history.got[h] \in Seq(Line)
    BY <1>2, <1>3, ElementOfSeq, LenProperties
  <1>5. /\ [history.offset EXCEPT ![h] = history.offset[h]] = history.offset
        /\ [history.got EXCEPT ![h] = history.got[h]] = history.got
    BY <1>2, <1>3, Same
  <1>6. history = [offset |-> history.offset, got |-> history.got, lines |-> history.lines]
    BY <1>1 DEF TypeOK, History
  <1>7. history' = [offset |-> [history.offset EXCEPT ![h] = history.offset[h]],
                    got |-> [history.got EXCEPT ![h] = history.got[h]], lines |-> history.lines]
    BY <1>5, <1>6
  <1>8. /\ \A p \in Paths : files'[p] /= Missing => Len(files'[p]) <= history.lines
        /\ ~f.closed => InStep(f, history.offset[h], files'[f.path])
        /\ \A k \in DOMAIN handles : k /= h /\ ~handles[k].closed
                 => InStep(handles[k], history.offset[k], files'[handles[k].path])
        /\ files' \in [Paths -> Entry]
    BY <1>2 DEF IInv
  <1>9. history.lines <= history.lines
    BY <1>2
  <1> QED BY <1>2, <1>4, <1>7, <1>8, <1>9, KeptByChange

\* Only the entries change, and what the programs are in the middle of.
LEMMA KeptByEntries ==
    ASSUME IInv, UNCHANGED handles, NEW n \in 0 .. MaxLines,
           history' = [history EXCEPT !.lines = n], history.lines <= n,
           doing' \in [Programs -> {Idle} \cup [op : {"a", "x", "touch"}, path : Paths]],
           files' \in [Paths -> Entry],
           \A p \in Paths : files'[p] /= Missing => Len(files'[p]) <= n,
           \A k \in DOMAIN handles :
              ~handles[k].closed => InStep(handles[k], history.offset[k], files'[handles[k].path])
    PROVE  IInv'
  <1>1. TypeOK
    BY DEF IInv
  <1>2. /\ history'.offset = history.offset /\ history'.got = history.got /\ history'.lines = n
        /\ history' \in History /\ history.lines \in 0 .. MaxLines
        /\ \A k \in DOMAIN handles : handles[k] \in HandleType
    BY <1>1, Typed DEF TypeOK, History
  <1>3. files' \in [Paths -> {Missing} \cup Seq(1 .. MaxLines)]
    BY DEF Entry, Line
  <1>4. TypeOK'
    BY <1>1, <1>2, <1>3 DEF TypeOK
  <1>5. \A k \in DOMAIN handles : Counts(handles[k], n)
    <2>1. \A k \in DOMAIN handles : Counts(handles[k], history.lines)
      BY DEF IInv
    <2>2. MaxLines \in Nat
      BY BoundsAreNatural
    <2> QED BY <1>2, <2>1, <2>2, CountsMore
  <1> QED BY <1>2, <1>4, <1>5 DEF IInv

\* A file is opened: a new handle, at an entry that exists then.
LEMMA KeptByOpening ==
    ASSUME IInv, NEW g \in Programs, NEW p \in Paths, NEW mode \in {"r", "w", "a", "x"},
           Opened(g, p, mode),
           doing' \in [Programs -> {Idle} \cup [op : {"a", "x", "touch"}, path : Paths]],
           files' \in [Paths -> Entry], files'[p] /= Missing,
           \A q \in Paths : files'[q] /= Missing => Len(files'[q]) <= history.lines,
           \A k \in DOMAIN handles :
              ~handles[k].closed => InStep(handles[k], history.offset[k], files'[handles[k].path])
    PROVE  IInv'
  <1> DEFINE f == Handle(g, p, mode)
  <1>1. TypeOK
    BY DEF IInv
  <1>2. /\ handles \in Seq(HandleType) /\ DOMAIN handles = 1 .. Len(handles) /\ Len(handles) \in Nat
        /\ history.offset \in Seq(0 .. MaxLines + 1) /\ history.got \in Seq(Seq(Line))
        /\ history.lines \in 0 .. MaxLines /\ MaxLines \in Nat
    BY <1>1, Typed
  <1>3. f \in HandleType /\ <<>> \in Seq(Line) /\ 0 \in 0 .. MaxLines + 1
    BY <1>2, EmptySeq DEF Handle, HandleType
  <1>4. handles' = Append(handles, f)
    BY DEF Opened
  <1>5. /\ history'.offset = Append(history.offset, 0)
        /\ history'.got = Append(history.got, <<>>)
        /\ history'.lines = history.lines
        /\ history' = [offset |-> history'.offset, got |-> history'.got, lines |-> history'.lines]
    BY <1>1 DEF Opened, TypeOK, History
  <1> HIDE DEF f
  <1>6. /\ handles' \in Seq(HandleType) /\ DOMAIN handles' = 1 .. Len(handles) + 1
        /\ Len(handles') = Len(handles) + 1
        /\ \A k \in 1 .. Len(handles) + 1 : handles'[k] = IF k = Len(handles) + 1 THEN f ELSE handles[k]
    <2>0. handles \in Seq(HandleType) /\ f \in HandleType
      BY <1>2, <1>3
    <2>1. /\ Append(handles, f) \in Seq(HandleType) /\ DOMAIN Append(handles, f) = 1 .. Len(handles) + 1
          /\ Len(Append(handles, f)) = Len(handles) + 1
          /\ \A k \in 1 .. Len(handles) + 1 :
                Append(handles, f)[k] = IF k = Len(handles) + 1 THEN f ELSE handles[k]
      BY <2>0, Appended
    <2> QED BY <1>4, <2>1
  <1>7. /\ history'.offset \in Seq(0 .. MaxLines + 1) /\ Len(history'.offset) = Len(handles) + 1
        /\ \A k \in 1 .. Len(handles) + 1 :
              history'.offset[k] = IF k = Len(handles) + 1 THEN 0 ELSE history.offset[k]
    BY <1>2, <1>3, <1>5, Appended DEF IInv
  <1>8. history'.got \in Seq(Seq(Line)) /\ Len(history'.got) = Len(handles) + 1
    BY <1>2, <1>3, <1>5, Appended DEF IInv
  <1>9. TypeOK'
    <2>1. history' \in History
      BY <1>2, <1>5, <1>7, <1>8 DEF History, Line
    <2>2. handles' \in Seq([by : Programs, path : Paths, mode : {"r", "w", "a", "x"},
                        closed : BOOLEAN, position : 0 .. MaxLines + 1,
                        left : Seq(1 .. MaxLines)])
      BY <1>6 DEF HandleType, Line
    <2>3. files' \in [Paths -> {Missing} \cup Seq(1 .. MaxLines)]
      BY DEF Entry, Line
    <2> QED BY <2>1, <2>2, <2>3 DEF TypeOK
  <1>10. Counts(f, history.lines) /\ InStep(f, 0, files'[p]) /\ f.path = p
    BY <1>2 DEF f, Handle, Counts, InStep
  <1>11. ASSUME NEW k \in 1 .. Len(handles) + 1
         PROVE  Counts(handles'[k], history.lines) /\ (~handles'[k].closed
                  => InStep(handles'[k], history'.offset[k], files'[handles'[k].path]))
    <2>1. CASE k = Len(handles) + 1
      BY <1>6, <1>7, <1>10, <2>1
    <2>2. CASE k /= Len(handles) + 1
      <3>1. k \in DOMAIN handles
        BY <1>2, <2>2
      <3> QED BY <1>6, <1>7, <2>2, <3>1 DEF IInv
    <2> QED BY <2>1, <2>2
  <1> QED BY <1>5, <1>6, <1>7, <1>8, <1>9, <1>11 DEF IInv

-----------------------------------------------------------------------------
\* ---- the open files as OpenFiles sees them ----

IsOpen(f) == ~f.closed
Desc(f, o, g) == [path |-> f.path, mode |-> f.mode, open |-> IsOpen(f), offset |-> o, got |-> g]
Descs == [h \in DOMAIN handles |-> Desc(handles[h], history.offset[h], history.got[h])]

\* The open files stay the same, but for the offset o of one and what it read last, s.
Moves(h, o, s) ==
    /\ DOMAIN handles' = DOMAIN handles
    /\ \A k \in DOMAIN handles :
          /\ handles'[k].path = handles[k].path /\ handles'[k].mode = handles[k].mode
          /\ IsOpen(handles'[k]) = IsOpen(handles[k])
          /\ history'.offset[k] = IF k = h THEN o ELSE history.offset[k]
          /\ history'.got[k] = IF k = h THEN s ELSE history.got[k]

\* Then OpenFiles sees no other change.
LEMMA Moved ==
    ASSUME NEW h \in DOMAIN handles, NEW o, NEW s, Moves(h, o, s)
    PROVE  Descs' = [Descs EXCEPT ![h].offset = o, ![h].got = s]
  <1>1. DOMAIN Descs = DOMAIN handles /\ DOMAIN Descs' = DOMAIN handles
    BY DEF Descs, Moves
  <1>2. \A k \in DOMAIN handles : Descs[k] = Desc(handles[k], history.offset[k], history.got[k])
    BY DEF Descs
  <1>3. \A k \in DOMAIN handles :
           Descs'[k] = IF k = h THEN Desc(handles[k], o, s) ELSE Descs[k]
    BY <1>1, <1>2 DEF Descs, Desc, Moves
  <1>4. Descs[h] = Desc(handles[h], history.offset[h], history.got[h])
    BY <1>2
  <1> QED BY <1>1, <1>3, <1>4 DEF Desc, Descs

\* The same, when only the offset moves.
LEMMA OffsetMoved ==
    ASSUME NEW h \in DOMAIN handles, NEW o, Moves(h, o, history.got[h])
    PROVE  Descs' = [Descs EXCEPT ![h].offset = o]
  <1>1. DOMAIN Descs = DOMAIN handles /\ DOMAIN Descs' = DOMAIN handles
    BY DEF Descs, Moves
  <1>2. \A k \in DOMAIN handles : Descs[k] = Desc(handles[k], history.offset[k], history.got[k])
    BY DEF Descs
  <1>3. \A k \in DOMAIN handles :
           Descs'[k] = IF k = h THEN Desc(handles[k], o, history.got[k]) ELSE Descs[k]
    BY <1>1, <1>2 DEF Descs, Desc, Moves
  <1>4. Descs[h] = Desc(handles[h], history.offset[h], history.got[h])
    BY <1>2
  <1> QED BY <1>1, <1>3, <1>4 DEF Desc, Descs

\* The steps of OpenFiles, said of these open files.  A Read: one line or all that are left.
LEMMA PromisedRead ==
    ASSUME NEW h \in DOMAIN handles, NEW o, NEW s, Moves(h, o, s), files' = files,
           ~handles[h].closed, handles[h].mode = "r",
           history.offset[h] + 1 <= Len(files[handles[h].path]),
           o = history.offset[h] + 1 \/ o = Len(files[handles[h].path]),
           s = SubSeq(files[handles[h].path], history.offset[h] + 1, o)
    PROVE  Promise!Read
  <1>1. Descs' = [Descs EXCEPT ![h].offset = o, ![h].got = s]
    BY Moved
  <1>2. /\ h \in DOMAIN Descs /\ Descs[h].open /\ Descs[h].mode = "r"
        /\ Descs[h].path = handles[h].path /\ Descs[h].offset = history.offset[h]
    BY DEF Descs, Desc, IsOpen
  <1>3. \E d \in DOMAIN Descs :
           LET f == Descs[d]
               next == f.offset + 1
           IN  /\ f.open /\ f.mode = "r" /\ next <= Len(files[f.path])
               /\ \E upto \in {next, Len(files[f.path])} :
                     Descs' = [Descs EXCEPT
                         ![d].offset = upto, ![d].got = SubSeq(files[f.path], next, upto)]
               /\ UNCHANGED files
    BY <1>1, <1>2
  <1> QED BY <1>3 DEF Promise!Read, Descs, Desc, IsOpen

\* An offset that a program sets is a Seek.
LEMMA PromisedSeek ==
    ASSUME NEW h \in DOMAIN handles, NEW o \in Nat, Moves(h, o, history.got[h]), files' = files,
           ~handles[h].closed, handles[h].mode = "r"
    PROVE  Promise!Seek
  <1>1. Descs' = [Descs EXCEPT ![h].offset = o]
    BY OffsetMoved
  <1>2. /\ h \in DOMAIN Descs /\ Descs[h].open /\ Descs[h].mode = "r" /\ Descs'[h].offset = o
    BY DEF Descs, Desc, IsOpen, Moves
  <1>3. \E d \in DOMAIN Descs :
           /\ Descs[d].open /\ Descs[d].mode = "r"
           /\ Descs'[d].offset \in Nat
           /\ Descs' = [Descs EXCEPT ![d].offset = Descs'[d].offset]
           /\ UNCHANGED files
    BY <1>1, <1>2
  <1> QED BY <1>3 DEF Promise!Seek, Descs, Desc, IsOpen

\* A line at the end of the file, where the offset then is, is a Write.
LEMMA PromisedWrite ==
    ASSUME NEW h \in DOMAIN handles, NEW line \in Line,
           files' = [files EXCEPT ![handles[h].path] = Append(files[handles[h].path], line)],
           Moves(h, Len(files'[handles[h].path]), history.got[h]),
           ~handles[h].closed, handles[h].mode /= "r",
           handles[h].mode /= "a" => history.offset[h] = Len(files[handles[h].path])
    PROVE  Promise!Write
  <1>1. Descs' = [Descs EXCEPT ![h].offset = Len(files'[handles[h].path])]
    BY OffsetMoved
  <1>2. /\ h \in DOMAIN Descs /\ Descs[h].open /\ Descs[h].mode = handles[h].mode
        /\ Descs[h].path = handles[h].path /\ Descs[h].offset = history.offset[h]
    BY DEF Descs, Desc, IsOpen
  <1>3. \E d \in DOMAIN Descs, l \in 1 .. MaxLines :
           LET f == Descs[d]
           IN  /\ f.open /\ f.mode /= "r"
               /\ f.mode /= "a" => f.offset = Len(files[f.path])
               /\ files' = [files EXCEPT ![f.path] = Append(@, l)]
               /\ Descs' = [Descs EXCEPT ![d].offset = Len(files'[f.path])]
    BY <1>1, <1>2 DEF Line
  <1> QED BY <1>3 DEF Promise!Write, Descs, Desc, IsOpen

\* An open file that is no longer open is a Close.
LEMMA PromisedClose ==
    ASSUME NEW h \in DOMAIN handles, files' = files, history' = history,
           DOMAIN handles' = DOMAIN handles,
           \A k \in DOMAIN handles : /\ handles'[k].path = handles[k].path /\ handles'[k].mode = handles[k].mode
                                     /\ handles'[k].closed = IF k = h THEN TRUE ELSE handles[k].closed
    PROVE  Promise!Close
  <1>1. DOMAIN Descs = DOMAIN handles /\ DOMAIN Descs' = DOMAIN handles
    BY DEF Descs
  <1>2. ASSUME NEW no, no = FALSE
        PROVE  Descs' = [Descs EXCEPT ![h].open = no]
    <2>1. \A k \in DOMAIN handles : k /= h => IsOpen(handles'[k]) = IsOpen(handles[k])
      BY DEF IsOpen
    <2>2. IsOpen(handles'[h]) = no
      BY <1>2 DEF IsOpen
    <2>3. \A k \in DOMAIN handles :
             /\ Descs[k] = Desc(handles[k], history.offset[k], history.got[k])
             /\ Descs'[k] = Desc(handles'[k], history.offset[k], history.got[k])
      BY DEF Descs
    <2>4. \A k \in DOMAIN handles : k /= h => Descs'[k] = Descs[k]
      BY <2>1, <2>3 DEF Desc
    <2>5. Descs'[h] = [path |-> handles[h].path, mode |-> handles[h].mode, open |-> no,
                       offset |-> history.offset[h], got |-> history.got[h]]
      BY <2>2, <2>3 DEF Desc
    <2>6. Descs[h] = Desc(handles[h], history.offset[h], history.got[h])
      BY <2>3
    <2>7. \A k \in DOMAIN handles :
             Descs'[k] = IF k = h THEN [path |-> handles[h].path, mode |-> handles[h].mode, open |-> no,
                                        offset |-> history.offset[h], got |-> history.got[h]]
                                  ELSE Descs[k]
      BY <2>4, <2>5
    <2> QED BY <1>1, <2>6, <2>7 DEF Desc, Descs
  <1>3. Descs' = [Descs EXCEPT ![h].open = FALSE]
    BY <1>2
  <1>4. \E d \in DOMAIN Descs : Descs' = [Descs EXCEPT ![d].open = FALSE] /\ UNCHANGED files
    BY <1>1, <1>3
  <1> QED BY <1>4 DEF Promise!Close, Descs, Desc, IsOpen

\* A file is opened: one more at the end.
LEMMA OneMore ==
    ASSUME IInv, NEW g \in Programs, NEW p \in Paths, NEW mode \in {"r", "w", "a", "x"}, Opened(g, p, mode)
    PROVE  Descs' = Append(Descs, Promise!Open(p, mode))
  <1> DEFINE f == Handle(g, p, mode)
             D == {Desc(a, o, s) : a \in HandleType, o \in 0 .. MaxLines + 1, s \in Seq(Line)}
  <1>1. TypeOK
    BY DEF IInv
  <1>2. /\ handles \in Seq(HandleType) /\ DOMAIN handles = 1 .. Len(handles) /\ Len(handles) \in Nat
        /\ history.offset \in Seq(0 .. MaxLines + 1) /\ history.got \in Seq(Seq(Line))
        /\ MaxLines \in Nat
        /\ \A h \in DOMAIN handles : handles[h] \in HandleType
    BY <1>1, Typed
  <1>3. f \in HandleType /\ <<>> \in Seq(Line) /\ 0 \in 0 .. MaxLines + 1
    BY <1>2, EmptySeq DEF Handle, HandleType
  <1>4. handles' = Append(handles, f)
    BY DEF Opened
  <1>5. history'.offset = Append(history.offset, 0) /\ history'.got = Append(history.got, <<>>)
    BY <1>1 DEF Opened, TypeOK, History
  <1>6. Promise!Open(p, mode) = Desc(f, 0, <<>>)
    BY DEF Promise!Open, Desc, IsOpen, Handle
  <1> HIDE DEF f
  <1>7. /\ DOMAIN handles' = 1 .. Len(handles) + 1
        /\ \A k \in 1 .. Len(handles) + 1 : handles'[k] = IF k = Len(handles) + 1 THEN f ELSE handles[k]
    BY <1>2, <1>3, <1>4, Appended
  <1>8. \A k \in 1 .. Len(handles) + 1 :
           history'.offset[k] = IF k = Len(handles) + 1 THEN 0 ELSE history.offset[k]
    BY <1>2, <1>3, <1>5, Appended DEF IInv
  <1>9. \A k \in 1 .. Len(handles) + 1 :
           history'.got[k] = IF k = Len(handles) + 1 THEN <<>> ELSE history.got[k]
    BY <1>2, <1>3, <1>5, Appended DEF IInv
  <1>10. /\ \A k \in 1 .. Len(handles) : Descs[k] = Desc(handles[k], history.offset[k], history.got[k])
         /\ Descs = [k \in 1 .. Len(handles) |-> Descs[k]]
    BY <1>2 DEF Descs
  <1>11. \A k \in 1 .. Len(handles) : Descs[k] \in D
    <2> TAKE k \in 1 .. Len(handles)
    <2>1. handles[k] \in HandleType /\ history.offset[k] \in 0 .. MaxLines + 1 /\ history.got[k] \in Seq(Line)
      BY <1>2, ElementOfSeq DEF IInv
    <2> QED BY <1>10, <2>1
  <1>12. Desc(f, 0, <<>>) \in D
    <2>1. \A a \in HandleType, o \in 0 .. MaxLines + 1, s \in Seq(Line) : Desc(a, o, s) \in D
      OBVIOUS
    <2> HIDE DEF D
    <2> QED BY <1>3, <2>1
  <1> HIDE DEF D
  <1>13. Descs \in Seq(D) /\ Len(Descs) = Len(handles)
    BY <1>2, <1>10, <1>11, IsASeq, LenProperties
  <1>14. /\ Append(Descs, Desc(f, 0, <<>>)) \in Seq(D)
         /\ DOMAIN Append(Descs, Desc(f, 0, <<>>)) = 1 .. Len(handles) + 1
         /\ \A k \in 1 .. Len(handles) + 1 : Append(Descs, Desc(f, 0, <<>>))[k]
               = IF k = Len(handles) + 1 THEN Desc(f, 0, <<>>) ELSE Descs[k]
    BY <1>12, <1>13, Appended
  <1>15. /\ Descs' = [k \in 1 .. Len(handles) + 1 |-> Descs'[k]]
         /\ \A k \in 1 .. Len(handles) + 1 :
               Descs'[k] = IF k = Len(handles) + 1 THEN Desc(f, 0, <<>>) ELSE Descs[k]
    <2>1. /\ Descs' = [k \in 1 .. Len(handles) + 1 |-> Descs'[k]]
          /\ \A k \in 1 .. Len(handles) + 1 : Descs'[k] = Desc(handles'[k], history'.offset[k], history'.got[k])
      BY <1>7 DEF Descs
    <2>2. ASSUME NEW k \in 1 .. Len(handles) + 1
          PROVE  Descs'[k] = IF k = Len(handles) + 1 THEN Desc(f, 0, <<>>) ELSE Descs[k]
      <3>1. CASE k = Len(handles) + 1
        BY <1>7, <1>8, <1>9, <2>1, <3>1
      <3>2. CASE k /= Len(handles) + 1
        <4>1. k \in 1 .. Len(handles)
          BY <1>2, <3>2
        <4> QED BY <1>7, <1>8, <1>9, <1>10, <2>1, <3>2, <4>1
      <3> QED BY <3>1, <3>2
    <2> QED BY <2>1, <2>2
  <1>16. Append(Descs, Desc(f, 0, <<>>))
            = [k \in 1 .. Len(handles) + 1 |-> Append(Descs, Desc(f, 0, <<>>))[k]]
    BY <1>14, LenProperties
  <1>17. Descs' = Append(Descs, Desc(f, 0, <<>>))
    BY <1>14, <1>15, <1>16
  <1> QED BY <1>6, <1>17

-----------------------------------------------------------------------------
\* ---- the steps ----

\* What is there before a step: the facts that every step needs.
LEMMA Before ==
    ASSUME IInv
    PROVE  /\ MaxLines \in Nat
           /\ DOMAIN handles = 1 .. Len(handles) /\ Len(handles) \in Nat
           /\ DOMAIN history.offset = DOMAIN handles /\ DOMAIN history.got = DOMAIN handles
           /\ history = [offset |-> history.offset, got |-> history.got, lines |-> history.lines]
           /\ history.lines \in 0 .. MaxLines
           /\ files \in [Paths -> Entry]
           /\ \A p \in Paths : files[p] /= Missing =>
                 files[p] \in Seq(Line) /\ Len(files[p]) \in 0 .. history.lines
           /\ \A h \in DOMAIN handles :
                 /\ handles[h] \in HandleType /\ Len(handles[h].left) \in Nat
                 /\ handles[h].left /= <<>> => Len(handles[h].left) > 0
                 /\ Counts(handles[h], history.lines)
                 /\ history.offset[h] \in 0 .. MaxLines + 1 /\ history.got[h] \in Seq(Line)
                 /\ ~handles[h].closed
                       => InStep(handles[h], history.offset[h], files[handles[h].path])
  <1>1. TypeOK
    BY DEF IInv
  <1>2. /\ MaxLines \in Nat
        /\ DOMAIN handles = 1 .. Len(handles) /\ Len(handles) \in Nat
        /\ history.lines \in 0 .. MaxLines /\ files \in [Paths -> Entry]
        /\ \A p \in Paths : files[p] /= Missing => files[p] \in Seq(Line) /\ Len(files[p]) \in Nat
        /\ \A h \in DOMAIN handles : handles[h] \in HandleType
        /\ history.offset \in Seq(0 .. MaxLines + 1) /\ history.got \in Seq(Seq(Line))
    BY <1>1, Typed
  <1>3. DOMAIN history.offset = DOMAIN handles /\ DOMAIN history.got = DOMAIN handles
    BY <1>2, LenProperties DEF IInv
  <1>4. history = [offset |-> history.offset, got |-> history.got, lines |-> history.lines]
    BY <1>1 DEF TypeOK, History
  <1>5. \A h \in DOMAIN handles : Len(handles[h].left) \in Nat /\ (handles[h].left /= <<>> => Len(handles[h].left) > 0)
    <2> TAKE h \in DOMAIN handles
    <2>1. handles[h].left \in Seq(1 .. MaxLines)
      BY <1>2 DEF HandleType
    <2> QED BY <2>1, LenProperties, EmptySeq
  <1>6. \A h \in DOMAIN handles : history.offset[h] \in 0 .. MaxLines + 1 /\ history.got[h] \in Seq(Line)
    BY <1>2, <1>3, ElementOfSeq DEF IInv
  <1>7. \A p \in Paths : files[p] /= Missing => Len(files[p]) \in 0 .. history.lines
    BY <1>2 DEF IInv
  <1> QED BY <1>2, <1>3, <1>4, <1>5, <1>6, <1>7 DEF IInv

\* What a reader at a position has before it.
Rest(c, position) == SubSeq(c, position + 1, Len(c))
\* Its length, its lines, and the lines of it that are read first.
LEMMA RestOf ==
    ASSUME NEW S, NEW c \in Seq(S), NEW o \in Nat
    PROVE  /\ Rest(c, o) \in Seq(S)
           /\ Len(Rest(c, o)) = IF o <= Len(c) THEN Len(c) - o ELSE 0
           /\ \A i \in 1 .. Len(c) - o : Rest(c, o)[i] = c[o + i]
           /\ \A n \in 1 .. Len(c) - o :
                 SubSeq(Rest(c, o), 1, n) \in Seq(S) /\ SubSeq(Rest(c, o), 1, n) = SubSeq(c, o + 1, o + n)
           /\ Len(c) \in Nat
  <1>1. Len(c) \in Nat
    BY LenProperties
  <1>2. CASE o <= Len(c)
    <2>1. /\ Rest(c, o) \in Seq(S) /\ Len(Rest(c, o)) = Len(c) - o
          /\ \A i \in 1 .. Len(c) - o : Rest(c, o)[i] = c[o + i]
      <3>1. o \in 0 .. Len(c) /\ Len(c) \in o .. Len(c)
        BY <1>1, <1>2
      <3> QED BY <3>1, Part DEF Rest
    <2>2. ASSUME NEW n \in 1 .. Len(c) - o
          PROVE  SubSeq(Rest(c, o), 1, n) \in Seq(S) /\ SubSeq(Rest(c, o), 1, n) = SubSeq(c, o + 1, o + n)
      <3>1. 0 \in 0 .. Len(Rest(c, o)) /\ n \in 0 .. Len(Rest(c, o)) /\ 0 + 1 = 1
        BY <1>1, <1>2, <2>1
      <3>2. SubSeq(Rest(c, o), 0 + 1, n) \in Seq(S)
        BY <2>1, <3>1, Part
      <3>3. /\ o + 1 \in 1 .. Len(c) /\ Len(c) \in 1 .. Len(c)
            /\ 1 \in 1 .. Len(c) - (o + 1) + 1 /\ n \in 1 .. Len(c) - (o + 1) + 1
            /\ o + 1 + 1 - 1 = o + 1 /\ o + 1 + n - 1 = o + n
        BY <1>1, <1>2
      <3>4. SubSeq(SubSeq(c, o + 1, Len(c)), 1, n) = SubSeq(c, o + 1 + 1 - 1, o + 1 + n - 1)
        BY <3>3, SubSeqOfSubSeq
      <3> QED BY <3>1, <3>2, <3>3, <3>4 DEF Rest
    <2> QED BY <1>1, <1>2, <2>1, <2>2
  <1>3. CASE ~ o <= Len(c)
    <2>1. Rest(c, o) = <<>>
      <3>1. o + 1 \in Int /\ Len(c) \in Int /\ Len(c) < o + 1
        BY <1>1, <1>3
      <3> QED BY <3>1, SubSeqEmpty DEF Rest
    <2>2. <<>> \in Seq(S) /\ Len(<<>>) = 0
      BY EmptySeq
    <2> QED BY <1>1, <1>3, <2>1, <2>2
  <1> QED BY <1>2, <1>3

\* read and readline: the position and the offset move over the lines delivered.
LEMMA ReadStep ==
    ASSUME IInv, NEW g \in Programs, Read(g), Odd = {}
    PROVE  IInv' /\ Promise!Read
  <1>1. PICK h \in DOMAIN handles :
          /\ Reads(g, h) /\ Ends(h)
          /\ LET rest == SubSeq(File(h), handles[h].position + 1, Len(File(h)))
             IN  \E n \in {1, Len(rest)} :
                    /\ 0 < n /\ n <= Len(rest)
                    /\ Advanced(h, n)
                    /\ history' = Delivered(h, SubSeq(rest, 1, n))
    BY DEF Read
  <1> DEFINE c == files[handles[h].path]
             rest == Rest(c, handles[h].position)
  <1>2. PICK n \in {1, Len(rest)} :
          /\ 0 < n /\ n <= Len(rest)
          /\ Advanced(h, n)
          /\ history' = Delivered(h, SubSeq(rest, 1, n))
    BY <1>1 DEF File, Rest
  <1>3. files' = files /\ doing' = doing
    BY DEF Read
  <1>4. /\ handles[h].mode = "r" /\ ~handles[h].closed /\ c /= Missing
        /\ handles[h].path \in Paths /\ handles[h].left = <<>>
    BY <1>1, Before DEF Reads, Usable, Exists, Ends, InLoop, HandleType
  <1>5. c \in Seq(Line) /\ Len(c) \in 0 .. history.lines
    BY <1>4, Before
  <1>6. history.offset[h] = handles[h].position /\ handles[h].position \in 0 .. MaxLines + 1
    BY <1>4, Before DEF InStep, HandleType
  <1>7. /\ Len(rest) \in Nat /\ n \in 1 .. Len(c) - handles[h].position
        /\ SubSeq(rest, 1, n) \in Seq(Line)
        /\ Len(SubSeq(rest, 1, n)) = n
    <2>1. /\ rest \in Seq(Line) /\ Len(c) \in Nat
          /\ Len(rest) = IF handles[h].position <= Len(c) THEN Len(c) - handles[h].position ELSE 0
      BY <1>5, <1>6, Before, RestOf
    <2>2. n \in 1 .. Len(c) - handles[h].position /\ Len(rest) \in Nat
      BY <1>2, <1>6, <2>1, Before
    <2>3. 0 \in 0 .. Len(rest) /\ n \in 0 .. Len(rest) /\ 0 + 1 = 1 /\ n - 0 = n
      BY <1>2, <2>2
    <2>4. SubSeq(rest, 0 + 1, n) \in Seq(Line) /\ Len(SubSeq(rest, 0 + 1, n)) = n - 0
      BY <2>1, <2>3, Part
    <2> QED BY <2>2, <2>3, <2>4
  <1> DEFINE f == [handles[h] EXCEPT !.position = @ + n]
             o == history.offset[h] + n
             got == SubSeq(rest, 1, n)
  <1>8. /\ handles' = [handles EXCEPT ![h] = f]
        /\ history' = [offset |-> [history.offset EXCEPT ![h] = o],
                       got |-> [history.got EXCEPT ![h] = got], lines |-> history.lines]
    <2>1. handles' = [handles EXCEPT ![h] = f]
      BY <1>2 DEF Advanced
    <2>2. history = [offset |-> history.offset, got |-> history.got, lines |-> history.lines]
      BY Before
    <2>3. history' = [history EXCEPT !.got[h] = got, !.offset[h] = @ + n]
      BY <1>2, <1>7 DEF Delivered
    <2> QED BY <2>1, <2>2, <2>3
  <1>9. /\ f \in HandleType /\ o \in 0 .. MaxLines + 1 /\ got \in Seq(Line)
        /\ f.mode = "r" /\ f.left = <<>> /\ f.path = handles[h].path /\ f.position = o
    <2>1. handles[h] \in HandleType /\ MaxLines \in Nat /\ history.lines \in 0 .. MaxLines
      BY Before
    <2>2. handles[h].position + n \in 0 .. MaxLines + 1
      BY <1>5, <1>6, <1>7, <2>1
    <2>3. f \in HandleType /\ f.mode = "r" /\ f.left = <<>> /\ f.path = handles[h].path /\ f.position = handles[h].position + n
      BY <1>4, <2>1, <2>2 DEF HandleType
    <2> QED BY <1>6, <1>7, <2>2, <2>3
  <1>10. Counts(f, history.lines) /\ InStep(f, o, c)
    BY <1>4, <1>9 DEF Counts, InStep
  <1>11. /\ files' \in [Paths -> Entry]
         /\ \A p \in Paths : files'[p] /= Missing => Len(files'[p]) <= history.lines
         /\ history.lines \in 0 .. MaxLines /\ history.lines <= history.lines
    BY <1>3, Before
  <1>12. \A k \in DOMAIN handles : ~handles[k].closed
            => InStep(handles[k], history.offset[k], files'[handles[k].path])
    BY <1>3, Before
  <1>13. InStep(f, o, files'[f.path])
    BY <1>3, <1>9, <1>10
  <1>14. IInv'
    <2> HIDE DEF f, o, got, c, rest
    <2> QED BY <1>3, <1>8, <1>9, <1>10, <1>11, <1>12, <1>13, KeptByChange
  <1>15. Moves(h, o, got)
    <2>1. \A k \in DOMAIN handles : handles'[k] = IF k = h THEN f ELSE handles[k]
      BY <1>8
    <2>2. /\ \A k \in DOMAIN handles : history'.offset[k] = IF k = h THEN o ELSE history.offset[k]
          /\ \A k \in DOMAIN handles : history'.got[k] = IF k = h THEN got ELSE history.got[k]
      BY <1>8, Before
    <2>3. f.path = handles[h].path /\ f.mode = handles[h].mode /\ IsOpen(f) = IsOpen(handles[h])
      BY Before DEF HandleType, IsOpen
    <2>4. DOMAIN handles' = DOMAIN handles
      BY <1>8
    <2> HIDE DEF f, o, got
    <2> QED BY <2>1, <2>2, <2>3, <2>4 DEF Moves
  <1> HIDE DEF f, o
  <1>16. /\ o \in {history.offset[h] + 1, Len(c)} /\ history.offset[h] + 1 <= Len(c)
         /\ got = SubSeq(c, history.offset[h] + 1, o)
    <2> HIDE DEF c
    <2>1. /\ Len(rest) = IF history.offset[h] <= Len(c) THEN Len(c) - history.offset[h] ELSE 0
          /\ Len(c) \in Nat /\ history.offset[h] \in Nat
          /\ \A i \in 1 .. Len(c) - history.offset[h] :
               SubSeq(rest, 1, i) = SubSeq(c, history.offset[h] + 1, history.offset[h] + i)
      <3>1. handles[h].position \in Nat
        BY <1>6, Before
      <3>2. /\ Len(rest) = IF handles[h].position <= Len(c) THEN Len(c) - handles[h].position ELSE 0
            /\ Len(c) \in Nat
            /\ \A i \in 1 .. Len(c) - handles[h].position :
                  SubSeq(rest, 1, i) = SubSeq(c, handles[h].position + 1, handles[h].position + i)
        BY <1>5, <3>1, RestOf
      <3> QED BY <1>6, <3>1, <3>2
    <2>2. got = SubSeq(c, history.offset[h] + 1, history.offset[h] + n)
      BY <1>6, <1>7, <2>1
    <2>3. o = history.offset[h] + n
      BY DEF o
    <2> HIDE DEF rest, got
    <2>4. n = 1 \/ n = Len(c) - history.offset[h]
      BY <1>2, <1>7, <2>1
    <2> QED BY <1>6, <1>7, <2>1, <2>2, <2>3, <2>4
  <1> HIDE DEF got, rest
  <1>17. Promise!Read
    BY <1>3, <1>4, <1>15, <1>16, PromisedRead
  <1> QED BY <1>14, <1>17

\* One line at a place of a sequence.
LEMMA One ==
    ASSUME NEW S, NEW c \in Seq(S), NEW i \in 1 .. Len(c), NEW e, e = c[i]
    PROVE  <<e>> \in Seq(S) /\ Len(<<e>>) = 1 /\ <<e>> = SubSeq(c, i, i)
  <1>1. Len(c) \in Nat /\ c[i] \in S
    BY LenProperties, ElementOfSeq
  <1>2. <<e>> \in Seq(S) /\ Len(<<e>>) = 1 /\ <<e>>[1] = e
    BY <1>1
  <1>3. i - 1 \in 0 .. Len(c) /\ i \in i - 1 .. Len(c) /\ i - 1 + 1 = i /\ i - (i - 1) = 1
    BY <1>1
  <1>4. /\ SubSeq(c, i - 1 + 1, i) \in Seq(S) /\ Len(SubSeq(c, i - 1 + 1, i)) = i - (i - 1)
        /\ \A j \in 1 .. i - (i - 1) : SubSeq(c, i - 1 + 1, i)[j] = c[i - 1 + j]
    BY <1>3, Part
  <1>5. SubSeq(c, i, i) \in Seq(S) /\ Len(SubSeq(c, i, i)) = 1 /\ SubSeq(c, i, i)[1] = c[i]
    BY <1>3, <1>4
  <1>6. \A j \in 1 .. Len(<<e>>) : <<e>>[j] = SubSeq(c, i, i)[j]
    BY <1>2, <1>5
  <1>7. <<e>> = SubSeq(c, i, i)
    BY <1>2, <1>5, <1>6, SeqEqual
  <1> QED BY <1>2, <1>7

\* A loop with these lines before it delivers the first; the position is behind the last.
HasLeft(h, left) ==
    /\ left /= <<>> /\ handles[h].mode = "r" /\ ~handles[h].closed
    /\ files[handles[h].path] /= Missing
    /\ history.offset[h] + Len(left) <= Len(files[handles[h].path])
    /\ \A i \in 1 .. Len(left) : left[i] = files[handles[h].path][history.offset[h] + i]
TakesFirst(h, left) ==
    /\ handles' = [handles EXCEPT ![h].left = Tail(left),
                                  ![h].position = history.offset[h] + Len(left)]
    /\ history' = Delivered(h, <<Head(left)>>)
    /\ UNCHANGED <<files, doing>>

\* The offset moves over the line that a loop delivers.
LEMMA LoopDelivers ==
    ASSUME IInv, NEW h \in DOMAIN handles, NEW left \in Seq(Line),
           HasLeft(h, left), TakesFirst(h, left)
    PROVE  IInv' /\ Promise!Read
  <1>1. ~handles[h].closed /\ handles[h].mode = "r" /\ left /= <<>>
    BY DEF HasLeft
  <1>2. UNCHANGED <<files, doing>>
    BY DEF TakesFirst
  <1> DEFINE c == files[handles[h].path]
             f == [handles[h] EXCEPT !.left = Tail(left), !.position = history.offset[h] + Len(left)]
             o == history.offset[h] + 1
             got == <<Head(left)>>
  <1>3. /\ handles[h] \in HandleType /\ handles[h].path \in Paths
        /\ handles[h].mode = "r" /\ history.offset[h] \in Nat /\ c /= Missing
    <2>1. handles[h] \in HandleType /\ history.offset[h] \in 0 .. MaxLines + 1 /\ MaxLines \in Nat
      BY Before
    <2> QED BY <1>1, <2>1 DEF HandleType, HasLeft
  <1>4. c \in Seq(Line) /\ Len(c) \in 0 .. history.lines /\ history.lines \in 0 .. MaxLines /\ MaxLines \in Nat
    BY <1>3, Before
  <1>5. /\ Len(left) \in Nat /\ Len(left) > 0 /\ Head(left) = left[1]
        /\ Tail(left) \in Seq(Line) /\ Len(Tail(left)) = Len(left) - 1
        /\ \A i \in 1 .. Len(left) - 1 : Tail(left)[i] = left[i + 1]
    <2> QED BY <1>1, HeadTailProperties, LenProperties, EmptySeq
  <1>6. /\ history.offset[h] + Len(left) <= Len(c)
        /\ \A i \in 1 .. Len(left) : left[i] = c[history.offset[h] + i]
    BY DEF HasLeft
  <1>7. o \in 1 .. Len(c) /\ o \in 0 .. MaxLines + 1 /\ Head(left) = c[o]
    <2> HIDE DEF c
    <2> QED BY <1>3, <1>4, <1>5, <1>6
  <1>8. got \in Seq(Line) /\ Len(got) = 1 /\ got = SubSeq(c, o, o)
    <2> HIDE DEF c, o
    <2> QED BY <1>4, <1>7, One
  <1>9. /\ handles' = [handles EXCEPT ![h] = f]
        /\ history' = [offset |-> [history.offset EXCEPT ![h] = o],
                       got |-> [history.got EXCEPT ![h] = got], lines |-> history.lines]
    <2>1. handles' = [handles EXCEPT ![h] = f]
      BY DEF TakesFirst
    <2>2. history = [offset |-> history.offset, got |-> history.got, lines |-> history.lines]
      BY Before
    <2>3. history' = [history EXCEPT !.got[h] = got, !.offset[h] = @ + 1]
      BY <1>8 DEF Delivered, TakesFirst
    <2> QED BY <2>1, <2>2, <2>3
  <1>10. /\ f \in HandleType /\ f.mode = "r" /\ f.left = Tail(left) /\ f.path = handles[h].path
         /\ f.position = history.offset[h] + Len(left) /\ f.closed = handles[h].closed
    <2>1. history.offset[h] + Len(left) \in 0 .. MaxLines + 1
      BY <1>3, <1>4, <1>5, <1>6
    <2> HIDE DEF c
    <2> QED BY <1>3, <1>5, <2>1 DEF HandleType, Line
  <1>11. Counts(f, history.lines) /\ InStep(f, o, c)
    <2>1. Counts(f, history.lines)
      BY <1>3, <1>10 DEF Counts
    <2>2. CASE Tail(left) = <<>>
      <3>1. Len(left) = 1
        <4>1. Len(<<>>) = 0
          BY EmptySeq
        <4>2. Len(Tail(left)) = 0
          <5> QED BY <2>2, <4>1
        <4>3. Len(left) - 1 = 0 /\ Len(left) \in Nat
          BY <1>5, <4>2
        <4> QED BY <4>3
      <3>2. f.left = <<>> /\ o = f.position
        BY <1>6, <1>10, <2>2, <3>1
      <3> HIDE DEF c, o, f
      <3> QED BY <1>3, <2>1, <3>2 DEF InStep
    <2>3. CASE Tail(left) /= <<>>
      <3>1. o + Len(f.left) <= Len(c) /\ f.position = o + Len(f.left)
        <4>1. Len(f.left) = Len(left) - 1
          BY <1>5, <1>10
        <4>2. f.position = history.offset[h] + Len(left) /\ Len(c) \in Nat
          BY <1>4, <1>10
        <4>3. /\ Len(left) \in Nat /\ history.offset[h] \in Nat /\ o = history.offset[h] + 1
              /\ history.offset[h] + Len(left) <= Len(c)
          BY <1>3, <1>5, <1>6
        <4>4. /\ o + (Len(left) - 1) <= Len(c)
              /\ history.offset[h] + Len(left) = o + (Len(left) - 1)
          <5> HIDE DEF c, o
          <5> QED BY <4>2, <4>3
        <4> HIDE DEF c, f, o
        <4> QED BY <4>1, <4>2, <4>4
      <3>2. \A i \in 1 .. Len(f.left) : f.left[i] = c[o + i]
        <4>1. ASSUME NEW i \in 1 .. Len(f.left)
              PROVE  f.left[i] = c[o + i]
          <5>1. i \in 1 .. Len(left) - 1 /\ i + 1 \in 1 .. Len(left) /\ f.left[i] = left[i + 1]
            BY <1>5, <1>10
          <5>2. left[i + 1] = c[history.offset[h] + (i + 1)]
            BY <1>6, <5>1
          <5>3. i \in Nat
            BY <1>5, <5>1
          <5>4. history.offset[h] + (i + 1) = o + i
            <6> HIDE DEF f, c
            <6> QED BY <1>3, <5>3
          <5> QED BY <5>1, <5>2, <5>4
        <4> QED BY <4>1
      <3> HIDE DEF c, o, f
      <3> QED BY <1>3, <1>10, <2>1, <2>3, <3>1, <3>2 DEF InStep
    <2> QED BY <2>2, <2>3
  <1>12. /\ files' \in [Paths -> Entry]
         /\ \A p \in Paths : files'[p] /= Missing => Len(files'[p]) <= history.lines
         /\ history.lines <= history.lines
         /\ \A k \in DOMAIN handles : ~handles[k].closed
               => InStep(handles[k], history.offset[k], files'[handles[k].path])
         /\ InStep(f, o, files'[f.path])
    BY <1>2, <1>4, <1>10, <1>11, Before
  <1>13. IInv'
    <2> HIDE DEF f, o, got, c
    <2> QED BY <1>2, <1>4, <1>7, <1>8, <1>9, <1>10, <1>11, <1>12, KeptByChange
  <1>14. Moves(h, o, got)
    <2>1. DOMAIN handles' = DOMAIN handles /\ \A k \in DOMAIN handles : handles'[k] = IF k = h THEN f ELSE handles[k]
      BY <1>9
    <2>2. /\ \A k \in DOMAIN handles : history'.offset[k] = IF k = h THEN o ELSE history.offset[k]
          /\ \A k \in DOMAIN handles : history'.got[k] = IF k = h THEN got ELSE history.got[k]
      <3> HIDE DEF f, o, got
      <3> QED BY <1>9, Before
    <2>3. IsOpen(f) = IsOpen(handles[h])
      BY <1>10 DEF IsOpen
    <2> HIDE DEF f, o, got
    <2> QED BY <1>3, <1>10, <2>1, <2>2, <2>3 DEF Moves
  <1>15. Promise!Read
    <2>1. history.offset[h] + 1 <= Len(c) /\ o = history.offset[h] + 1
      BY <1>4, <1>7
    <2>2. got = SubSeq(c, history.offset[h] + 1, o)
      BY <1>8
    <2> HIDE DEF f, o, got
    <2> QED BY <1>1, <1>2, <1>3, <1>14, <2>1, <2>2, PromisedRead
  <1> QED BY <1>13, <1>15

\* A loop begins: what is left of it is the rest of the file.
LEMMA StartLoopStep ==
    ASSUME IInv, NEW g \in Programs, StartLoop(g), Odd = {}
    PROVE  IInv' /\ Promise!Read
  <1>1. PICK h \in DOMAIN handles :
          /\ Reads(g, h) /\ Ends(h) /\ handles[h].position < Len(File(h))
          /\ LET rest == SubSeq(File(h), handles[h].position + 1, Len(File(h)))
             IN  /\ handles' = [handles EXCEPT ![h].left = Tail(rest), ![h].position = LoopPosition(h)]
                 /\ history' = Delivered(h, <<Head(rest)>>)
    BY DEF StartLoop
  <1>2. UNCHANGED <<files, doing>>
    BY DEF StartLoop
  <1> DEFINE c == files[handles[h].path]
             position == handles[h].position
             rest == Rest(c, position)
  <1>3. /\ handles' = [handles EXCEPT ![h].left = Tail(rest), ![h].position = Len(c)]
        /\ history' = Delivered(h, <<Head(rest)>>) /\ position < Len(c)
    BY <1>1 DEF File, LoopPosition, Rest
  <1>4. /\ handles[h].mode = "r" /\ ~handles[h].closed /\ c /= Missing
        /\ handles[h].path \in Paths /\ handles[h].left = <<>> /\ handles[h] \in HandleType
    BY <1>1, Before DEF Reads, Usable, Exists, Ends, InLoop, HandleType
  <1>5. c \in Seq(Line) /\ Len(c) \in Nat
    BY <1>4, Before
  <1>6. history.offset[h] = position /\ position \in Nat
    <2>1. history.offset[h] = position /\ position \in 0 .. MaxLines + 1 /\ MaxLines \in Nat
      BY <1>4, Before DEF InStep, HandleType
    <2> QED BY <2>1
  <1> HIDE DEF c, position
  <1>7. /\ rest \in Seq(Line) /\ Len(rest) = Len(c) - position
        /\ \A i \in 1 .. Len(c) - position : rest[i] = c[position + i]
    <2>1. /\ rest \in Seq(Line) /\ Len(rest) = IF position <= Len(c) THEN Len(c) - position ELSE 0
          /\ \A i \in 1 .. Len(c) - position : rest[i] = c[position + i]
      BY <1>5, <1>6, RestOf
    <2> HIDE DEF rest
    <2> QED BY <1>3, <1>5, <1>6, <2>1
  <1> HIDE DEF rest
  <1>8. rest /= <<>>
    BY <1>3, <1>5, <1>6, <1>7, EmptySeq
  <1>9. /\ history.offset[h] + Len(rest) = Len(c) /\ history.offset[h] + Len(rest) <= Len(c)
        /\ \A i \in 1 .. Len(rest) : rest[i] = c[history.offset[h] + i]
    BY <1>5, <1>6, <1>7
  <1>10. handles' = [handles EXCEPT ![h].left = Tail(rest), ![h].position = history.offset[h] + Len(rest)]
    BY <1>3, <1>9
  <1>11. HasLeft(h, rest) /\ TakesFirst(h, rest)
    BY <1>2, <1>3, <1>4, <1>8, <1>9, <1>10 DEF HasLeft, TakesFirst, c
  <1> QED BY <1>7, <1>11, LoopDelivers

\* A loop goes on: the position is where the loop put it.
LEMMA NextLineStep ==
    ASSUME IInv, NEW g \in Programs, NextLine(g), Odd = {}
    PROVE  IInv' /\ Promise!Read
  <1>1. PICK h \in DOMAIN handles :
          /\ InLoop(h) /\ ~handles[h].closed
          /\ handles' = [handles EXCEPT ![h].left = Tail(@)]
          /\ history' = Delivered(h, <<Head(handles[h].left)>>)
    BY DEF NextLine
  <1>2. UNCHANGED <<files, doing>>
    BY DEF NextLine
  <1> DEFINE c == files[handles[h].path]
             left == handles[h].left
  <1>3. /\ handles[h] \in HandleType /\ left \in Seq(Line) /\ left /= <<>>
        /\ InStep(handles[h], history.offset[h], c)
    BY <1>1, Before DEF InLoop, HandleType, Line
  <1>4. /\ handles[h].mode = "r" /\ c /= Missing
        /\ history.offset[h] + Len(left) <= Len(c) /\ handles[h].position = history.offset[h] + Len(left)
        /\ \A i \in 1 .. Len(left) : left[i] = c[history.offset[h] + i]
    BY <1>3 DEF InStep
  <1>5. handles' = [handles EXCEPT ![h].left = Tail(left), ![h].position = history.offset[h] + Len(left)]
    <2>1. handles' = [handles EXCEPT ![h] = [handles[h] EXCEPT !.left = Tail(left)]]
      BY <1>1
    <2>2. [handles[h] EXCEPT !.left = Tail(left)]
            = [handles[h] EXCEPT !.left = Tail(left), !.position = handles[h].position]
      BY <1>3 DEF HandleType
    <2> HIDE DEF left, c
    <2> QED BY <1>4, <2>1, <2>2
  <1>6. HasLeft(h, left) /\ TakesFirst(h, left)
    <2> HIDE DEF left
    <2> QED BY <1>1, <1>2, <1>3, <1>4, <1>5 DEF HasLeft, TakesFirst, left
  <1> QED BY <1>3, <1>6, LoopDelivers

\* seek: the position and the offset are what the program says.
LEMMA SeekStep ==
    ASSUME IInv, NEW g \in Programs, Seek(g), Odd = {}
    PROVE  IInv' /\ Promise!Seek
  <1>1. PICK h \in DOMAIN handles, target \in 0 .. MaxLines + 1 :
          /\ Usable(g, h) /\ handles[h].mode = "r" /\ Ends(h)
          /\ handles' = [handles EXCEPT ![h].position = target]
          /\ history' = [history EXCEPT !.offset[h] = target]
    BY DEF Seek
  <1>2. UNCHANGED <<files, doing>>
    BY DEF Seek
  <1> DEFINE f == [handles[h] EXCEPT !.position = target]
  <1>3. /\ handles[h] \in HandleType /\ handles[h].left = <<>> /\ ~handles[h].closed
        /\ handles[h].path \in Paths /\ target \in Nat
        /\ history.got[h] \in Seq(Line) /\ history.lines \in 0 .. MaxLines
        /\ InStep(handles[h], history.offset[h], files[handles[h].path])
    BY <1>1, Before DEF Usable, Ends, InLoop, HandleType
  <1>4. /\ f \in HandleType /\ f.mode = "r" /\ f.left = <<>> /\ f.path = handles[h].path
        /\ f.position = target /\ f.closed = handles[h].closed
    BY <1>1, <1>3 DEF HandleType
  <1>5. /\ handles' = [handles EXCEPT ![h] = f]
        /\ history' = [offset |-> [history.offset EXCEPT ![h] = target],
                       got |-> [history.got EXCEPT ![h] = history.got[h]], lines |-> history.lines]
    <2>1. TypeOK
      BY DEF IInv
    <2>2. history.got \in Seq(Seq(Line)) /\ h \in DOMAIN history.got
      BY <2>1, Typed, Before
    <2>3. [history.got EXCEPT ![h] = history.got[h]] = history.got
      BY <2>2, Same
    <2>4. history = [offset |-> history.offset, got |-> history.got, lines |-> history.lines]
      BY Before
    <2> QED BY <1>1, <2>3, <2>4
  <1>6. /\ Counts(f, history.lines) /\ InStep(f, target, files'[f.path])
        /\ files' \in [Paths -> Entry]
        /\ \A p \in Paths : files'[p] /= Missing => Len(files'[p]) <= history.lines
        /\ history.lines <= history.lines
        /\ \A k \in DOMAIN handles : ~handles[k].closed
               => InStep(handles[k], history.offset[k], files'[handles[k].path])
    <2>1. Counts(f, history.lines) /\ InStep(f, target, files'[f.path])
      BY <1>2, <1>3, <1>4 DEF Counts, InStep
    <2> HIDE DEF f
    <2> QED BY <1>2, <1>3, <2>1, Before
  <1>7. DOMAIN handles' = DOMAIN handles /\ \A k \in DOMAIN handles : handles'[k] = IF k = h THEN f ELSE handles[k]
    BY <1>5
  <1>8. /\ \A k \in DOMAIN handles : history'.offset[k] = IF k = h THEN target ELSE history.offset[k]
        /\ \A k \in DOMAIN handles : history'.got[k] = IF k = h THEN history.got[h] ELSE history.got[k]
    BY <1>5, Before
  <1>9. IsOpen(f) = IsOpen(handles[h])
    BY <1>4 DEF IsOpen
  <1> HIDE DEF f
  <1>10. IInv'
    BY <1>2, <1>3, <1>4, <1>5, <1>6, KeptByChange
  <1>11. Moves(h, target, history.got[h])
    BY <1>1, <1>4, <1>7, <1>8, <1>9 DEF Moves
  <1>12. Promise!Seek
    BY <1>1, <1>2, <1>3, <1>11, PromisedSeek
  <1> QED BY <1>10, <1>12

\* A line is written at the end by an open file, whose position may move by one.
LEMMA AppendsStep ==
    ASSUME IInv, NEW h \in DOMAIN handles, ~handles[h].closed, handles[h].mode /= "r",
           Appends(h), Odd = {}, NEW f \in HandleType, doing' = doing,
           handles' = [handles EXCEPT ![h] = f],
           f.path = handles[h].path, f.mode = handles[h].mode, ~f.closed, f.left = handles[h].left,
           f.position <= history.lines + 1
    PROVE  IInv' /\ Promise!Write
  <1> DEFINE p == handles[h].path
             c == files[p]
             line == history.lines + 1
             o == Len(files'[p])
  <1>1. /\ handles[h] \in HandleType /\ handles[h].left = <<>> /\ p \in Paths
        /\ c /= Missing /\ c \in Seq(Line) /\ Len(c) \in 0 .. history.lines
        /\ history.lines \in 0 .. MaxLines /\ MaxLines \in Nat /\ history.got[h] \in Seq(Line)
        /\ files \in [Paths -> Entry]
    <2>1. /\ handles[h] \in HandleType /\ handles[h].left = <<>> /\ p \in Paths /\ c /= Missing
          /\ MaxLines \in Nat /\ history.lines \in 0 .. MaxLines /\ history.got[h] \in Seq(Line)
          /\ files \in [Paths -> Entry]
      BY Before DEF Counts, InStep, HandleType
    <2> QED BY <2>1, Before
  <1>2. /\ line \in Line /\ line \in 0 .. MaxLines
        /\ files' = [files EXCEPT ![p] = Append(c, line)]
        /\ history' = [history EXCEPT !.lines = @ + 1, !.offset[h] = o]
        /\ handles[h].mode /= "a" => history.offset[h] = Len(c)
    BY <1>1 DEF Appends, NewLine, Shared, AppendFile, WriteFile, Content, Exists, Line
  <1> HIDE DEF line
  <1>3. /\ Append(c, line) \in Seq(Line) /\ Len(Append(c, line)) = Len(c) + 1
        /\ Append(c, line) /= Missing
    <2>1. Append(c, line) \in Seq(Line) /\ Len(Append(c, line)) = Len(c) + 1
      BY <1>1, <1>2, Appended
    <2> QED BY <2>1, NoEntryIsNoFile DEF Line
  <1>4. /\ files' \in [Paths -> Entry] /\ files'[p] = Append(c, line)
        /\ \A q \in Paths : q /= p => files'[q] = files[q]
    BY <1>1, <1>2, <1>3 DEF Entry
  <1>5. line = history.lines + 1 /\ history.lines <= line
    BY <1>1 DEF line
  <1>6. \A q \in Paths : files'[q] /= Missing => Len(files'[q]) <= line
    <2> TAKE q \in Paths
    <2>1. CASE q = p
      BY <1>1, <1>3, <1>4, <1>5, <2>1
    <2>2. CASE q /= p
      <3>1. files[q] /= Missing => Len(files[q]) \in 0 .. history.lines
        BY Before
      <3> QED BY <1>1, <1>4, <1>5, <2>2, <3>1
    <2> QED BY <2>1, <2>2
  <1>7. o \in 0 .. MaxLines + 1
    BY <1>1, <1>3, <1>4
  <1>8. /\ history' = [offset |-> [history.offset EXCEPT ![h] = o],
                       got |-> [history.got EXCEPT ![h] = history.got[h]], lines |-> line]
    <2>1. TypeOK
      BY DEF IInv
    <2>2. history.got \in Seq(Seq(Line)) /\ h \in DOMAIN history.got
      BY <2>1, Typed, Before
    <2>3. [history.got EXCEPT ![h] = history.got[h]] = history.got
      BY <2>2, Same
    <2>4. history = [offset |-> history.offset, got |-> history.got, lines |-> history.lines]
      BY Before
    <2> HIDE DEF o
    <2> QED BY <1>2, <1>5, <2>3, <2>4
  <1>9. \A k \in DOMAIN handles : ~handles[k].closed
            => InStep(handles[k], history.offset[k], files'[handles[k].path])
    <2> SUFFICES ASSUME NEW k \in DOMAIN handles, ~handles[k].closed
                 PROVE  InStep(handles[k], history.offset[k], files'[handles[k].path])
      OBVIOUS
    <2>1. /\ handles[k] \in HandleType /\ history.offset[k] \in Nat /\ handles[k].path \in Paths
          /\ InStep(handles[k], history.offset[k], files[handles[k].path])
      <3>1. /\ handles[k] \in HandleType /\ history.offset[k] \in 0 .. MaxLines + 1
            /\ InStep(handles[k], history.offset[k], files[handles[k].path])
        BY Before
      <3> QED BY <1>1, <3>1 DEF HandleType
    <2>2. CASE handles[k].path = p
      <3>1. InStep(handles[k], history.offset[k], c)
        BY <2>1, <2>2
      <3>2. InStep(handles[k], history.offset[k], Append(c, line))
        BY <1>1, <1>2, <2>1, <3>1, Grows
      <3> QED BY <1>4, <2>2, <3>2
    <2>3. CASE handles[k].path /= p
      BY <1>4, <2>1, <2>3
    <2> QED BY <2>2, <2>3
  <1>10. Counts(f, line) /\ InStep(f, o, files'[f.path])
    BY <1>1, <1>3, <1>4, <1>5 DEF Counts, InStep
  <1>11. IInv'
    <2>1. history.got[h] \in Seq(Line) /\ line \in 0 .. MaxLines /\ files' \in [Paths -> Entry]
      BY <1>1, <1>2, <1>4
    <2> HIDE DEF o, p, c
    <2> QED BY <1>5, <1>6, <1>7, <1>8, <1>9, <1>10, <2>1, KeptByChange
  <1>12. Moves(h, o, history.got[h])
    <2>1. DOMAIN handles' = DOMAIN handles /\ \A k \in DOMAIN handles : handles'[k] = IF k = h THEN f ELSE handles[k]
      OBVIOUS
    <2>2. /\ \A k \in DOMAIN handles : history'.offset[k] = IF k = h THEN o ELSE history.offset[k]
          /\ \A k \in DOMAIN handles : history'.got[k] = IF k = h THEN history.got[h] ELSE history.got[k]
      BY <1>8, Before
    <2>3. IsOpen(f) = IsOpen(handles[h])
      BY DEF IsOpen
    <2> HIDE DEF o
    <2> QED BY <2>1, <2>2, <2>3 DEF Moves
  <1>13. Promise!Write
    BY <1>2, <1>12, PromisedWrite
  <1> QED BY <1>11, <1>13

\* write: the position moves by one.
LEMMA WriteStep ==
    ASSUME IInv, NEW g \in Programs, Write(g), Odd = {}
    PROVE  IInv' /\ Promise!Write
  <1>1. PICK h \in DOMAIN handles :
          Usable(g, h) /\ handles[h].mode /= "r" /\ Appends(h) /\ Advanced(h, 1)
    BY DEF Write
  <1>2. doing' = doing
    BY DEF Write
  <1> DEFINE f == [handles[h] EXCEPT !.position = @ + 1]
  <1>3. /\ handles[h] \in HandleType /\ handles[h].position \in 0 .. history.lines
        /\ history.lines + 1 \in 0 .. MaxLines /\ history.lines \in Nat /\ ~handles[h].closed
    <2>1. handles[h] \in HandleType /\ Counts(handles[h], history.lines) /\ history.lines \in 0 .. MaxLines /\ MaxLines \in Nat
      BY Before
    <2>2. history.lines + 1 <= MaxLines /\ ~handles[h].closed
      BY <1>1 DEF Appends, NewLine, Usable
    <2>3. handles[h].position \in 0 .. MaxLines + 1
      BY <2>1 DEF HandleType
    <2> QED BY <1>1, <2>1, <2>2, <2>3 DEF Counts
  <1>4. handles' = [handles EXCEPT ![h] = f]
    BY <1>1 DEF Advanced
  <1>5. /\ f \in HandleType /\ f.path = handles[h].path /\ f.mode = handles[h].mode
        /\ f.left = handles[h].left /\ ~f.closed /\ f.position <= history.lines + 1
    <2>1. handles[h].position + 1 \in 0 .. MaxLines + 1 /\ handles[h].position + 1 <= history.lines + 1
      <3>1. MaxLines \in Nat
        BY Before
      <3> QED BY <1>3, <3>1
    <2> QED BY <1>3, <2>1 DEF HandleType
  <1> HIDE DEF f
  <1> QED BY <1>1, <1>2, <1>3, <1>4, <1>5, AppendsStep

\* writelines: the position stays.
LEMMA WriteLinesStep ==
    ASSUME IInv, NEW g \in Programs, WriteLines(g), Odd = {}
    PROVE  IInv' /\ Promise!Write
  <1>1. PICK h \in DOMAIN handles : handles[h].mode /= "r" /\ ~handles[h].closed /\ Appends(h)
    BY DEF WriteLines
  <1>2. doing' = doing /\ handles' = handles
    BY DEF WriteLines
  <1>3. handles[h] \in HandleType /\ handles[h].position <= history.lines + 1
    <2>1. handles[h] \in HandleType /\ Counts(handles[h], history.lines) /\ history.lines \in 0 .. MaxLines /\ MaxLines \in Nat
      BY Before
    <2>2. handles[h].position \in 0 .. MaxLines + 1
      BY <2>1 DEF HandleType
    <2> QED BY <1>1, <2>1, <2>2 DEF Counts
  <1>4. handles' = [handles EXCEPT ![h] = handles[h]]
    <2>1. TypeOK
      BY DEF IInv
    <2>2. handles \in Seq(HandleType)
      BY <2>1, Typed
    <2> QED BY <1>2, <2>2, Same
  <1> QED BY <1>1, <1>2, <1>3, <1>4, AppendsStep

\* close: the file leaves its place.
LEMMA CloseStep ==
    ASSUME IInv, NEW g \in Programs, Close(g), Odd = {}
    PROVE  IInv' /\ Promise!Close
  <1>1. PICK h \in DOMAIN handles : handles' = [handles EXCEPT ![h].closed = TRUE]
    BY DEF Close
  <1>2. UNCHANGED <<files, doing, history>>
    BY DEF Close
  <1> DEFINE f == [handles[h] EXCEPT !.closed = TRUE]
  <1>3. handles[h] \in HandleType /\ Counts(handles[h], history.lines)
    BY Before
  <1>4. /\ f \in HandleType /\ f.closed /\ f.closed = TRUE /\ f.path = handles[h].path /\ f.mode = handles[h].mode
        /\ f.left = handles[h].left /\ f.position = handles[h].position
    BY <1>3 DEF HandleType
  <1>5. Counts(f, history.lines)
    BY <1>3, <1>4 DEF Counts
  <1>6. /\ handles' = [handles EXCEPT ![h] = f] /\ DOMAIN handles' = DOMAIN handles
        /\ \A k \in DOMAIN handles : handles'[k] = IF k = h THEN f ELSE handles[k]
    BY <1>1
  <1> HIDE DEF f
  <1>7. IInv'
    BY <1>2, <1>4, <1>5, <1>6, KeptByHandle
  <1>8. \A k \in DOMAIN handles : /\ handles'[k].path = handles[k].path /\ handles'[k].mode = handles[k].mode
                                  /\ handles'[k].closed = IF k = h THEN TRUE ELSE handles[k].closed
    BY <1>4, <1>6
  <1>9. Promise!Close
    BY <1>2, <1>6, <1>8, PromisedClose
  <1> QED BY <1>7, <1>9

\* An entry gets other contents, and nobody is in a loop over its lines.
LEMMA Emptied ==
    ASSUME IInv, NEW p \in Paths, NEW content \in Seq(Line), WriteFile(p, content),
           NEW n \in 0 .. MaxLines, Len(content) <= n, history.lines <= n,
           \A h \in OpenOn(p) : ~InLoop(h)
    PROVE  /\ files' \in [Paths -> Entry] /\ files'[p] = content /\ content /= Missing
           /\ \A q \in Paths : files'[q] /= Missing => Len(files'[q]) <= n
           /\ \A k \in DOMAIN handles : ~handles[k].closed
                 => InStep(handles[k], history.offset[k], files'[handles[k].path])
  <1>1. files \in [Paths -> Entry] /\ history.lines \in Nat /\ n \in Nat
    <2>1. files \in [Paths -> Entry] /\ history.lines \in 0 .. MaxLines /\ MaxLines \in Nat
      BY Before
    <2> QED BY <2>1
  <1>2. content /= Missing
    BY NoEntryIsNoFile DEF Line
  <1>3. /\ files' \in [Paths -> Entry] /\ files'[p] = content
        /\ \A q \in Paths : q /= p => files'[q] = files[q]
    BY <1>1 DEF WriteFile, Entry
  <1>4. ASSUME NEW q \in Paths, files'[q] /= Missing
        PROVE  Len(files'[q]) <= n
    <2>1. CASE q = p
      BY <1>3, <2>1
    <2>2. CASE q /= p
      <3>1. files[q] /= Missing
        BY <1>3, <1>4, <2>2
      <3>2. Len(files[q]) \in 0 .. history.lines
        BY <3>1, Before
      <3> QED BY <1>1, <1>3, <2>2, <3>2
    <2> QED BY <2>1, <2>2
  <1>5. ASSUME NEW k \in DOMAIN handles, ~handles[k].closed
        PROVE  InStep(handles[k], history.offset[k], files'[handles[k].path])
    <2>1. InStep(handles[k], history.offset[k], files[handles[k].path]) /\ handles[k].path \in Paths
      BY <1>5, Before DEF HandleType
    <2>2. CASE handles[k].path = p
      <3>1. handles[k].left = <<>>
        BY <1>5, <2>2 DEF OpenOn, InLoop
      <3> QED BY <1>2, <1>3, <2>1, <2>2, <3>1 DEF InStep
    <2>3. CASE handles[k].path /= p
      BY <1>3, <2>1, <2>3
    <2> QED BY <2>2, <2>3
  <1> QED BY <1>2, <1>3, <1>4, <1>5

\* Opening is one step of OpenFiles.
LEMMA PromisedOpen ==
    ASSUME IInv, NEW g \in Programs, NEW p \in Paths, NEW mode \in {"r", "w", "a", "x"}, Opened(g, p, mode),
           mode = "r" => files[p] /= Missing, mode = "x" => files[p] = Missing,
           files' = IF mode = "w" \/ files[p] = Missing THEN [files EXCEPT ![p] = <<>>] ELSE files
    PROVE  Promise!OpenFile
  <1>1. Descs' = Append(Descs, Promise!Open(p, mode))
    BY OneMore
  <1>2. files' = CASE mode = "r" -> files
                   [] mode = "a" -> Promise!Created(p)
                   [] OTHER -> [files EXCEPT ![p] = <<>>]
    <2>1. CASE mode = "r"
      BY <2>1
    <2>2. CASE mode = "a"
      BY <2>2 DEF Promise!Created
    <2>3. CASE mode \in {"w", "x"}
      BY <2>3
    <2> QED BY <2>1, <2>2, <2>3
  <1>3. /\ mode = "r" => files[p] /= Missing
        /\ mode = "x" => files[p] = Missing
        /\ Descs' = Append(Descs, Promise!Open(p, mode))
        /\ files' = CASE mode = "r" -> files
                      [] mode = "a" -> Promise!Created(p)
                      [] OTHER -> [files EXCEPT ![p] = <<>>]
    BY <1>1, <1>2
  <1>4. \E q \in Paths, m \in {"r", "w", "a", "x"} :
           /\ m = "r" => files[q] /= Missing
           /\ m = "x" => files[q] = Missing
           /\ Descs' = Append(Descs, Promise!Open(q, m))
           /\ files' = CASE m = "r" -> files
                         [] m = "a" -> Promise!Created(q)
                         [] OTHER -> [files EXCEPT ![q] = <<>>]
    BY <1>3
  <1> QED BY <1>4 DEF Promise!OpenFile, Descs, Desc, IsOpen

\* open("w"): one call, which empties the file.
LEMMA OpenWriteStep ==
    ASSUME IInv, NEW g \in Programs, OpenWrite(g), Odd = {}
    PROVE  IInv' /\ Promise!OpenFile
  <1>1. PICK p \in Paths : Empties(p) /\ WriteFile(p, <<>>) /\ Opened(g, p, "w")
    BY DEF OpenWrite
  <1>2. doing' = doing /\ doing \in [Programs -> {Idle} \cup [op : {"a", "x", "touch"}, path : Paths]]
    BY DEF OpenWrite, IInv, TypeOK
  <1>3. /\ <<>> \in Seq(Line) /\ Len(<<>>) = 0 /\ history.lines \in 0 .. MaxLines
        /\ Len(<<>>) <= history.lines /\ history.lines <= history.lines
    <2>1. <<>> \in Seq(Line) /\ Len(<<>>) = 0 /\ history.lines \in 0 .. MaxLines
      BY EmptySeq, Before
    <2> QED BY <2>1
  <1>4. \A h \in OpenOn(p) : ~InLoop(h)
    BY <1>1 DEF Empties
  <1>5. /\ files' \in [Paths -> Entry] /\ files'[p] /= Missing
        /\ \A q \in Paths : files'[q] /= Missing => Len(files'[q]) <= history.lines
        /\ \A k \in DOMAIN handles : ~handles[k].closed
                 => InStep(handles[k], history.offset[k], files'[handles[k].path])
    BY <1>1, <1>3, <1>4, Emptied
  <1>6. IInv'
    BY <1>1, <1>2, <1>5, KeptByOpening
  <1>7. files' = [files EXCEPT ![p] = <<>>]
    BY <1>1 DEF WriteFile
  <1>8. Promise!OpenFile
    BY <1>1, <1>7, PromisedOpen
  <1> QED BY <1>6, <1>8

\* Only what the programs are in the middle of changes.
LEMMA KeptByDoing ==
    ASSUME IInv, UNCHANGED <<files, handles, history>>,
           doing' \in [Programs -> {Idle} \cup [op : {"a", "x", "touch"}, path : Paths]]
    PROVE  IInv' /\ UNCHANGED <<files, Descs>>
  <1>1. history = [offset |-> history.offset, got |-> history.got, lines |-> history.lines]
    BY Before
  <1>2. history' = [history EXCEPT !.lines = history.lines]
    BY <1>1
  <1>3. /\ history.lines \in 0 .. MaxLines /\ history.lines <= history.lines /\ files' \in [Paths -> Entry]
        /\ \A p \in Paths : files'[p] /= Missing => Len(files'[p]) <= history.lines
        /\ \A k \in DOMAIN handles :
              ~handles[k].closed => InStep(handles[k], history.offset[k], files'[handles[k].path])
    <2>1. history.lines \in 0 .. MaxLines /\ files \in [Paths -> Entry]
      BY Before
    <2> QED BY <2>1 DEF IInv
  <1>4. IInv'
    BY <1>2, <1>3, KeptByEntries
  <1> QED BY <1>4 DEF Descs

\* open("r"), open("a"), open("x") and touch look whether the file exists.
LEMMA CheckExistsStep ==
    ASSUME IInv, NEW g \in Programs, CheckExists(g), Odd = {}
    PROVE  IInv' /\ (Promise!OpenFile \/ UNCHANGED <<files, Descs>>)
  <1>1. PICK p \in Paths, op \in {"r", "a", "x", "touch"} :
          IF ~Exists(p)
          THEN /\ op /= "r" /\ doing' = [doing EXCEPT ![g] = [op |-> op, path |-> p]]
               /\ UNCHANGED <<handles, history>>
          ELSE op \in {"r", "a"} /\ Opened(g, p, op) /\ UNCHANGED doing
    BY DEF CheckExists
  <1>2. files' = files /\ doing \in [Programs -> {Idle} \cup [op : {"a", "x", "touch"}, path : Paths]]
    BY DEF CheckExists, IInv, TypeOK
  <1>3. CASE ~Exists(p)
    <2>1. /\ doing' = [doing EXCEPT ![g] = [op |-> op, path |-> p]] /\ UNCHANGED <<handles, history>>
          /\ op \in {"a", "x", "touch"}
      BY <1>1, <1>3
    <2>2. doing' \in [Programs -> {Idle} \cup [op : {"a", "x", "touch"}, path : Paths]]
      BY <1>2, <2>1
    <2> QED BY <1>2, <2>1, <2>2, KeptByDoing
  <1>4. CASE Exists(p)
    <2>1. op \in {"r", "a"} /\ op \in {"r", "w", "a", "x"} /\ Opened(g, p, op) /\ doing' = doing
      BY <1>1, <1>4
    <2>2. /\ files' \in [Paths -> Entry] /\ files'[p] /= Missing
          /\ \A q \in Paths : files'[q] /= Missing => Len(files'[q]) <= history.lines
          /\ \A k \in DOMAIN handles : ~handles[k].closed
                 => InStep(handles[k], history.offset[k], files'[handles[k].path])
      BY <1>2, <1>4, Before DEF Exists, IInv
    <2>3. IInv'
      BY <1>2, <2>1, <2>2, KeptByOpening
    <2>4. /\ files[p] /= Missing /\ op /= "x" /\ op /= "w"
          /\ files' = IF op = "w" \/ files[p] = Missing THEN [files EXCEPT ![p] = <<>>] ELSE files
      BY <1>2, <1>4, <2>1 DEF Exists
    <2>5. Promise!OpenFile
      BY <2>1, <2>4, PromisedOpen
    <2> QED BY <2>3, <2>5
  <1> QED BY <1>3, <1>4

\* No file is open where there is no entry.
LEMMA NoneOpen ==
    ASSUME IInv, NEW p \in Paths, files[p] = Missing
    PROVE  OpenOn(p) = {}
  <1>1. \A h \in DOMAIN handles : ~handles[h].closed => files[handles[h].path] /= Missing
    BY Before DEF InStep
  <1> QED BY <1>1 DEF OpenOn

\* The write after the check makes the file, which nobody made in between, or is refused.
LEMMA CreateStep ==
    ASSUME IInv, NEW g \in Programs, Create(g), Odd = {}
    PROVE  IInv' /\ (Promise!OpenFile \/ Promise!Touch \/ UNCHANGED <<files, Descs>>)
  <1> DEFINE p == doing[g].path
             op == doing[g].op
  <1>1. /\ doing[g] \in [op : {"a", "x", "touch"}, path : Paths] /\ p \in Paths /\ op \in {"a", "x", "touch"}
        /\ doing' \in [Programs -> {Idle} \cup [op : {"a", "x", "touch"}, path : Paths]]
    <2>1. doing \in [Programs -> {Idle} \cup [op : {"a", "x", "touch"}, path : Paths]]
      BY DEF IInv, TypeOK
    <2>2. doing[g] /= Idle /\ doing' = [doing EXCEPT ![g] = Idle]
      BY DEF Create
    <2> QED BY <2>1, <2>2
  <1>2. CASE UNCHANGED <<files, handles, history>>
    BY <1>1, <1>2, KeptByDoing
  <1>3. CASE /\ Exists(p) => "late" \in Odd
             /\ WriteFile(p, <<>>)
             /\ IF op = "touch" THEN UNCHANGED <<handles, history>> ELSE Opened(g, p, op)
    <2> HIDE DEF p, op
    <2>1. files[p] = Missing /\ WriteFile(p, <<>>)
      BY <1>3 DEF Exists
    <2>2. \A h \in OpenOn(p) : ~InLoop(h)
      BY <1>1, <2>1, NoneOpen
    <2>3. /\ <<>> \in Seq(Line) /\ history.lines \in 0 .. MaxLines
          /\ Len(<<>>) <= history.lines /\ history.lines <= history.lines
      <3>1. <<>> \in Seq(Line) /\ Len(<<>>) = 0 /\ history.lines \in 0 .. MaxLines
        BY EmptySeq, Before
      <3> QED BY <3>1
    <2>4. /\ files' \in [Paths -> Entry] /\ files'[p] /= Missing
          /\ \A q \in Paths : files'[q] /= Missing => Len(files'[q]) <= history.lines
          /\ \A k \in DOMAIN handles : ~handles[k].closed
                 => InStep(handles[k], history.offset[k], files'[handles[k].path])
      BY <1>1, <2>1, <2>2, <2>3, Emptied
    <2>5. files' = [files EXCEPT ![p] = <<>>]
      BY <2>1 DEF WriteFile
    <2>6. CASE op = "touch"
      <3>1. UNCHANGED <<handles, history>>
        BY <1>3, <2>6
      <3>2. history' = [history EXCEPT !.lines = history.lines]
        BY <3>1, Before
      <3>3. IInv'
        BY <1>1, <2>3, <2>4, <3>1, <3>2, KeptByEntries
      <3>4. Descs' = Descs
        BY <3>1 DEF Descs
      <3>5. files' = Promise!Created(p)
        BY <2>1, <2>5 DEF Promise!Created
      <3>6. \E q \in Paths : files' = Promise!Created(q) /\ UNCHANGED Descs
        BY <1>1, <3>4, <3>5
      <3>7. Promise!Touch
        BY <3>6 DEF Promise!Touch, Descs, Desc, IsOpen
      <3> QED BY <3>3, <3>7
    <2>7. CASE op /= "touch"
      <3>1. Opened(g, p, op) /\ op \in {"a", "x"} /\ op \in {"r", "w", "a", "x"}
        BY <1>1, <1>3, <2>7
      <3>2. IInv'
        BY <1>1, <2>4, <3>1, KeptByOpening
      <3>3. files' = IF op = "w" \/ files[p] = Missing THEN [files EXCEPT ![p] = <<>>] ELSE files
        BY <2>1, <2>5
      <3>4. Promise!OpenFile
        BY <1>1, <2>1, <3>1, <3>3, PromisedOpen
      <3> QED BY <3>2, <3>4
    <2> QED BY <2>6, <2>7
  <1> QED BY <1>2, <1>3 DEF Create

\* An entry that no open file names is gone, or moved: nothing else changes.
LEMMA KeptByMoving ==
    ASSUME IInv, UNCHANGED <<handles, doing, history>>, files' \in [Paths -> Entry],
           \A p \in Paths : files'[p] /= Missing => \E q \in Paths : files[q] /= Missing /\ files'[p] = files[q],
           \A p \in Paths : OpenOn(p) /= {} => files'[p] = files[p]
    PROVE  IInv' /\ Descs' = Descs
  <1>1. /\ history.lines \in 0 .. MaxLines /\ history.lines <= history.lines
        /\ history' = [history EXCEPT !.lines = history.lines]
    <2>1. /\ history.lines \in 0 .. MaxLines
          /\ history = [offset |-> history.offset, got |-> history.got, lines |-> history.lines]
      BY Before
    <2>2. history.lines <= history.lines
      BY <2>1
    <2> QED BY <2>1, <2>2
  <1>2. \A p \in Paths : files'[p] /= Missing => Len(files'[p]) <= history.lines
    <2>1. \A q \in Paths : files[q] /= Missing => Len(files[q]) <= history.lines
      BY DEF IInv
    <2> QED BY <2>1
  <1>3. \A k \in DOMAIN handles :
              ~handles[k].closed => InStep(handles[k], history.offset[k], files'[handles[k].path])
    <2> SUFFICES ASSUME NEW k \in DOMAIN handles, ~handles[k].closed
                 PROVE  InStep(handles[k], history.offset[k], files'[handles[k].path])
      OBVIOUS
    <2>1. InStep(handles[k], history.offset[k], files[handles[k].path]) /\ handles[k].path \in Paths
      BY Before DEF HandleType
    <2>2. OpenOn(handles[k].path) /= {}
      BY DEF OpenOn
    <2> QED BY <2>1, <2>2
  <1>4. doing' \in [Programs -> {Idle} \cup [op : {"a", "x", "touch"}, path : Paths]]
    BY DEF IInv, TypeOK
  <1>5. IInv'
    BY <1>1, <1>2, <1>3, <1>4, KeptByEntries
  <1> QED BY <1>5 DEF Descs

\* A path on which no file is open is unused.
LEMMA NobodyUses ==
    ASSUME NEW p \in Paths, OpenOn(p) = {}
    PROVE  \A d \in DOMAIN Descs : Descs[d].open => Descs[d].path /= p
  BY DEF OpenOn, Descs, Desc, IsOpen

\* os.remove.
LEMMA RemoveStep ==
    ASSUME IInv, NEW g \in Programs, Remove(g), Odd = {}
    PROVE  IInv' /\ Promise!Remove
  <1>1. PICK p \in Paths : Exists(p) /\ Quiet(p) /\ WriteFile(p, Missing)
    BY DEF Remove
  <1>2. UNCHANGED <<handles, doing, history>>
    BY DEF Remove
  <1>3. OpenOn(p) = {} /\ files' = [files EXCEPT ![p] = Missing] /\ files \in [Paths -> Entry]
    BY <1>1, Before DEF Quiet, WriteFile
  <1>4. /\ files' \in [Paths -> Entry] /\ files'[p] = Missing
        /\ \A q \in Paths : q /= p => files'[q] = files[q]
    BY <1>3 DEF Entry
  <1>5. IInv' /\ Descs' = Descs
    BY <1>2, <1>3, <1>4, KeptByMoving
  <1>6. \E q \in Paths :
           /\ \A d \in DOMAIN Descs : Descs[d].open => Descs[d].path /= q
           /\ files' = [files EXCEPT ![q] = Missing] /\ UNCHANGED Descs
    BY <1>3, <1>5, NobodyUses
  <1>7. Promise!Remove
    BY <1>6 DEF Promise!Remove, Promise!Unused, Descs, Desc, IsOpen
  <1> QED BY <1>5, <1>7

\* os.rename.
LEMMA RenameStep ==
    ASSUME IInv, NEW g \in Programs, Rename(g), Odd = {}
    PROVE  IInv' /\ Promise!Rename
  <1>1. PICK p \in Paths, q \in Paths :
          /\ p /= q /\ Exists(p) /\ Quiet(p) /\ Quiet(q)
          /\ files' = [files EXCEPT ![p] = Missing, ![q] = files[p]]
    BY DEF Rename
  <1>2. UNCHANGED <<handles, doing, history>>
    BY DEF Rename
  <1>3. OpenOn(p) = {} /\ OpenOn(q) = {} /\ files[p] /= Missing /\ files \in [Paths -> Entry]
    BY <1>1, Before DEF Quiet, Exists
  <1>4. /\ files' \in [Paths -> Entry] /\ files'[p] = Missing /\ files'[q] = files[p]
        /\ \A r \in Paths : r /= p /\ r /= q => files'[r] = files[r]
    BY <1>1, <1>3 DEF Entry
  <1>5. IInv' /\ Descs' = Descs
    BY <1>2, <1>3, <1>4, KeptByMoving
  <1>6. \E r, s \in Paths :
           /\ r /= s /\ files[r] /= Missing
           /\ \A d \in DOMAIN Descs : Descs[d].open => Descs[d].path /= r
           /\ \A d \in DOMAIN Descs : Descs[d].open => Descs[d].path /= s
           /\ files' = [files EXCEPT ![r] = Missing, ![s] = files[r]] /\ UNCHANGED Descs
    BY <1>1, <1>3, <1>5, NobodyUses
  <1>7. Promise!Rename
    BY <1>6 DEF Promise!Rename, Promise!Unused, Descs, Desc, IsOpen
  <1> QED BY <1>5, <1>7

\* Path.write_text.
LEMMA WriteTextStep ==
    ASSUME IInv, NEW g \in Programs, WriteText(g), Odd = {}
    PROVE  IInv' /\ Promise!Replace
  <1>1. PICK p \in Paths : Empties(p) /\ WriteFile(p, <<NewLine>>)
    BY DEF WriteText
  <1>2. /\ UNCHANGED <<handles, doing>> /\ history' = [history EXCEPT !.lines = @ + 1] /\ NewLine <= MaxLines
    BY DEF WriteText
  <1>3. /\ NewLine = history.lines + 1 /\ NewLine \in Line /\ NewLine \in 0 .. MaxLines
        /\ history.lines <= NewLine /\ 1 <= NewLine
    <2>1. history.lines \in 0 .. MaxLines /\ MaxLines \in Nat
      BY Before
    <2> QED BY <1>2, <2>1 DEF NewLine, Line
  <1>4. <<NewLine>> \in Seq(Line) /\ Len(<<NewLine>>) = 1
    BY <1>3
  <1>5. \A h \in OpenOn(p) : ~InLoop(h)
    BY <1>1 DEF Empties
  <1>6. history' = [history EXCEPT !.lines = NewLine]
    BY <1>2, <1>3
  <1> HIDE DEF NewLine
  <1>7. /\ files' \in [Paths -> Entry]
        /\ \A q \in Paths : files'[q] /= Missing => Len(files'[q]) <= NewLine
        /\ \A k \in DOMAIN handles : ~handles[k].closed
              => InStep(handles[k], history.offset[k], files'[handles[k].path])
    BY <1>1, <1>3, <1>4, <1>5, Emptied
  <1>8. doing' \in [Programs -> {Idle} \cup [op : {"a", "x", "touch"}, path : Paths]]
    BY <1>2 DEF IInv, TypeOK
  <1>9. IInv'
    BY <1>2, <1>3, <1>6, <1>7, <1>8, KeptByEntries
  <1>10. Descs' = Descs
    <2>1. history'.offset = history.offset /\ history'.got = history.got
      BY <1>6, Before
    <2> QED BY <1>2, <2>1 DEF Descs
  <1>11. \E q \in Paths, line \in 1 .. MaxLines : files' = [files EXCEPT ![q] = <<line>>] /\ UNCHANGED Descs
    BY <1>1, <1>3, <1>10 DEF WriteFile, Line
  <1>12. Promise!Replace
    BY <1>11 DEF Promise!Replace, Descs, Desc, IsOpen
  <1> QED BY <1>9, <1>12

-----------------------------------------------------------------------------
\* ---- the theorems ----

\* At the start nothing exists and nothing is open.
LEMMA Start ==
    ASSUME Init
    PROVE  IInv /\ Promise!Init
  <1>1. MaxLines \in Nat
    BY BoundsAreNatural
  <1>2. handles = <<>> /\ history = [offset |-> <<>>, got |-> <<>>, lines |-> 0]
    BY DEF Init
  <1>3. TypeOK
    BY <1>1, EmptySeq DEF Init, TypeOK, History
  <1>4. /\ DOMAIN handles = {} /\ Len(handles) = 0
        /\ Len(history.offset) = 0 /\ Len(history.got) = 0
    BY <1>2, EmptySeq
  <1>5. \A p \in Paths : files[p] = Missing
    BY DEF Init
  <1>6. IInv
    BY <1>2, <1>3, <1>4, <1>5 DEF IInv
  <1>7. Descs = <<>>
    BY <1>4 DEF Descs
  <1>8. files = [p \in Paths |-> Missing] /\ Descs = <<>>
    BY <1>7 DEF Init
  <1>9. Promise!Init
    BY <1>8 DEF Promise!Init, Descs, Desc, IsOpen
  <1> QED BY <1>6, <1>9

\* Every step keeps the invariant and is a step of OpenFiles, or one that it does not see.
LEMMA StepIsPromised ==
    ASSUME Odd = {}, IInv, [Next]_vars
    PROVE  IInv' /\ [Promise!Next]_<<files, Descs>>
  <1>1. ASSUME NEW g \in Programs,
               \/ OpenWrite(g) \/ CheckExists(g) \/ Create(g)
               \/ Read(g) \/ StartLoop(g) \/ NextLine(g) \/ Seek(g)
               \/ Write(g) \/ WriteLines(g) \/ Close(g)
               \/ Remove(g) \/ Rename(g) \/ WriteText(g)
        PROVE  IInv' /\ [Promise!Next]_<<files, Descs>>
    <2>1. CASE OpenWrite(g)
      BY <2>1, OpenWriteStep DEF Promise!Next
    <2>2. CASE CheckExists(g)
      BY <2>2, CheckExistsStep DEF Promise!Next
    <2>3. CASE Create(g)
      BY <2>3, CreateStep DEF Promise!Next
    <2>4. CASE Read(g)
      BY <2>4, ReadStep DEF Promise!Next
    <2>5. CASE StartLoop(g)
      BY <2>5, StartLoopStep DEF Promise!Next
    <2>6. CASE NextLine(g)
      BY <2>6, NextLineStep DEF Promise!Next
    <2>7. CASE Seek(g)
      BY <2>7, SeekStep DEF Promise!Next
    <2>8. CASE Write(g)
      BY <2>8, WriteStep DEF Promise!Next
    <2>9. CASE WriteLines(g)
      BY <2>9, WriteLinesStep DEF Promise!Next
    <2>10. CASE Close(g)
      BY <2>10, CloseStep DEF Promise!Next
    <2>11. CASE Remove(g)
      BY <2>11, RemoveStep DEF Promise!Next
    <2>12. CASE Rename(g)
      BY <2>12, RenameStep DEF Promise!Next
    <2>13. CASE WriteText(g)
      BY <2>13, WriteTextStep DEF Promise!Next
    <2> QED BY <1>1, <2>1, <2>2, <2>3, <2>4, <2>5, <2>6, <2>7, <2>8, <2>9, <2>10, <2>11, <2>12, <2>13
  <1>2. CASE UNCHANGED vars
    <2>1. UNCHANGED <<files, handles, doing, history>>
      BY <1>2 DEF vars
    <2>2. doing' \in [Programs -> {Idle} \cup [op : {"a", "x", "touch"}, path : Paths]]
      BY <2>1 DEF IInv, TypeOK
    <2> QED BY <2>1, <2>2, KeptByDoing
  <1> QED BY <1>1, <1>2 DEF Next

\* Every file, handle and operation under way has its type (PyFile).
THEOREM TypeCorrect ==
    ASSUME Odd = {}
    PROVE  Spec => []TypeOK
  <1>1. Init => IInv
    BY Start
  <1>2. IInv /\ [Next]_vars => IInv'
    BY StepIsPromised
  <1>3. IInv => TypeOK
    BY DEF IInv
  <1> QED BY <1>1, <1>2, <1>3, PTL DEF Spec

\* Whatever the programs do to each other's files between their calls, what
\* they read and what the files hold is what OpenFiles allows (PyFile,
\* ShellFileSystem).
THEOREM ImplementsOpenFilesCorrect ==
    ASSUME Odd = {}
    PROVE  Spec => ImplementsOpenFiles
  <1>1. Init => IInv /\ Promise!Init
    BY Start
  <1>2. IInv /\ [Next]_vars => IInv' /\ [Promise!Next]_<<files, Descs>>
    BY StepIsPromised
  <1> QED BY <1>1, <1>2, PTL DEF Spec, ImplementsOpenFiles, Promise!Spec, Descs, Desc, IsOpen
=============================================================================
