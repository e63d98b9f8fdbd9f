--------------------------- MODULE StartupProofs ---------------------------
(***************************************************************************)
(* What Startup shows for two processes, proved for every set of           *)
(* processes, any number of kills, failures, races and expansions, and     *)
(* every bound.                                                            *)
(***************************************************************************)
EXTENDS Startup, TLAPS

-----------------------------------------------------------------------------
(* The files.                                                              *)

\* Every CreateFile has three steps.  The files that are expanded get their header in
\* the second and their length in the third, the others their length in the second.
LEMMA MakesFacts ==
  ASSUME NEW f \in Files
  PROVE  /\ Len(Makes(f)) = 3
         /\ Makes(f)[1] = "create"
         /\ f \in Growable => /\ Makes(f)[2] = "header" /\ Makes(f)[3] \in {"truncate", "body"}
                              /\ Full(f) = 3 /\ ~ KeepsMapping(f)
         /\ f \notin Growable => /\ Makes(f)[2] = "truncate" /\ Makes(f)[3] \in {"zero", "init"}
                                 /\ f = "sync" => Makes(f)[3] = "init"
                                 /\ Full(f) = 2 /\ KeepsMapping(f)
<1>1. CASE f = "version"
  BY <1>1 DEF Files, Growable, Full, KeepsMapping, Makes, VersionMakes
<1>2. CASE f = "sync"
  BY <1>2 DEF Files, Growable, Full, KeepsMapping, Makes, SyncMakes
<1>3. CASE f = "index"
  BY <1>3 DEF Files, Growable, Full, KeepsMapping, Makes, IndexMakes
<1>4. CASE f = "data"
  BY <1>4 DEF Files, Growable, Full, KeepsMapping, Makes, DataMakes
<1>5. CASE f = "fm"
  BY <1>5 DEF Files, Growable, Full, KeepsMapping, Makes, FMMakes
<1>6. QED BY <1>1, <1>2, <1>3, <1>4, <1>5 DEF Files

LEMMA OrderFacts ==
  /\ Len(Order) = 5
  /\ DOMAIN Order = 1 .. 5
  /\ \A i \in 1 .. 5 : Order[i] \in Files
  /\ \A i, j \in 1 .. 5 : Order[i] = Order[j] => i = j
  /\ \A f \in Files : \E i \in 1 .. 5 : Order[i] = f
BY DEF Order, Files

-----------------------------------------------------------------------------
(* The inductive invariant.                                                *)

OpensFile(p, f) == at[p] = "map" /\ FileOf(p) = f

\* A process is in a step of CreateFile or ExpandFile only while it makes or expands a
\* file, and in the middle of IncVersion only while it is up with the version file mapped.
Sane ==
  \A p \in Proc :
    /\ at[p] \notin {"make", "grow"} => step[p] = 1
    /\ at[p] = "grow" => step[p] < 3 /\ FileOf(p) \in Growable /\ target[p] > 3
    /\ at[p] \in Down \cup {"mkdir"} => file[p] = 1
    /\ read[p] # NotReading => /\ at[p] = "up"
                               /\ view[p]["version"] # 0
                               /\ read[p] < MaxVersion

\* A file with its first page has a header, which says what CreateFile has written or more.
Headers ==
  \A f \in Growable : /\ says[f] = 0 <=> len[f] < HeaderLength
                      /\ says[f] # 0 => says[f] > 2

\* The least length a file is mapped at: the scans of the index and the free blocks need all of
\* it, the pool its header.
Floor(f) == IF f \in {"index", "fm"} THEN 3 ELSE IF f = "data" THEN 2 ELSE 1

\* What a process has done with a file shows in its length.
Reached ==
  \A f \in Files :
    /\ f \in used => len[f] > 0
    /\ \A p \in Proc : /\ view[p][f] # 0 \/ Growing(p, f) => len[f] >= Floor(f)
                       /\ OpensFile(p, f) => len[f] > 0
                       /\ Making(p, f) => len[f] >= step[p] - 1
                       /\ f \notin Growable => view[p][f] \in {0, Full(f)}

\* As long as nobody has raced for a file its maker is alone with it.
MakerAlone ==
  \A p \in Proc, f \in Files : Making(p, f) /\ f \notin raced =>
    /\ f \notin used
    /\ len[f] = step[p] - 1
    /\ f \in Growable /\ step[p] = 3 => says[f] = 3
    /\ \A q \in Proc : /\ view[q][f] = 0 /\ ~ OpensFile(q, f) /\ ~ Growing(q, f)
                       /\ Making(q, f) => q = p

\* A half-made file is being made, or its making was cut.
HalfMadeExplained ==
  \A f \in Files : len[f] > 0 /\ len[f] < Full(f) =>
    f \in cut \/ \E q \in Proc : Making(q, f) /\ step[q] > 1

\* What takes a file out of the order CreateFile and ExpandFile keep.
Upset == cut \cup refused \cup raced \cup crowded

\* A file is no shorter than its header says, and nobody has mapped more; in the
\* middle of an expansion it has the length the header is about to say.
WellSized ==
  \A f \in Growable \ Upset :
    len[f] > 0 /\ (\A p \in Proc : ~ Making(p, f)) =>
      /\ says[f] > 2 /\ says[f] <= len[f]
      /\ \A p \in Proc :
           /\ view[p][f] <= says[f]
           /\ Growing(p, f) => /\ target[p] >= says[f]
                               /\ f = "index" => target[p] = says[f] + 1
                               /\ step[p] = 2 => len[f] = target[p]
                               /\ \A q \in Proc : Growing(q, f) => q = p

\* p is past the opening of f, and not in the middle of expanding it.
Passed(p, f) ==
  \/ at[p] = "up"
  \/ at[p] = "grow" /\ FileOf(p) # f
  \/ at[p] \in {"access", "make", "map"} /\ \E i \in 1 .. 5 : i < file[p] /\ Order[i] = f

\* Only a call that went wrong leaves a process without a mapping.
MappedOrFailed ==
  \A p \in Proc \ failed, f \in Files :
    /\ Passed(p, f) => view[p][f] >= Full(f)
    /\ Growing(p, f) => view[p][f] # 0

\* Without races for the file and overlaps the counter is the number given last.
CounterIsGiven ==
  "version" \notin raced =>
    /\ "version" \notin used => given = 0
    /\ ~ clash =>
         /\ counter = given
         /\ \A p \in Proc : read[p] # NotReading => read[p] = counter
         /\ \A p, q \in Proc : read[p] # NotReading /\ read[q] # NotReading => p = q

\* TypeOK without what it says of the headers.
Places == Down \cup {"mkdir", "access", "make", "map", "up", "grow"}
Truths == dir \in BOOLEAN /\ clash \in BOOLEAN
FileTypes ==
  /\ len \in [Files -> Nat]
  /\ says \in [Files -> Nat]
  /\ used \subseteq Files
  /\ cut \subseteq Files /\ refused \subseteq {"index"} /\ crowded \subseteq Growable
  /\ raced \subseteq Files \cup {"dir"}
  /\ lost \subseteq Files
ProcTypes ==
  /\ at \in [Proc -> Places]
  /\ file \in [Proc -> 1 .. 5]
  /\ step \in [Proc -> 1 .. 3]
  /\ view \in [Proc -> [Files -> Nat]]
  /\ target \in [Proc -> 0 .. MaxLength]
  /\ read \in [Proc -> 0 .. NotReading]
  /\ failed \subseteq Proc
Counts ==
  /\ counter \in 0 .. MaxVersion
  /\ given \in 0 .. MaxVersion
  /\ events \in 0 .. MaxEvents
Types == Truths /\ FileTypes /\ ProcTypes /\ Counts

Good ==
  /\ Types
  /\ Sane
  /\ Headers
  /\ Reached
  /\ MakerAlone
  /\ HalfMadeExplained
  /\ WellSized
  /\ MappedOrFailed
  /\ CounterIsGiven
  /\ LostOnlyIfRaced

LEMMA Bounds ==
  /\ MaxEvents \in Nat /\ MaxLength \in Nat /\ MaxVersion \in Nat
  /\ NotReading = MaxVersion + 1
BY StartupAssumption DEF NotReading

LEMMA FileOfFile ==
  ASSUME Types, NEW p \in Proc
  PROVE  FileOf(p) \in Files
BY OrderFacts DEF Types, ProcTypes, FileOf

LEMMA GrowableFiles == Growable \subseteq Files
BY DEF Growable, Files

LEMMA InitGood == Init => Good
<1> SUFFICES ASSUME Init PROVE Good
  OBVIOUS
<1>1. Types
  <2>1. ProcTypes
    <3>1. /\ at \in [Proc -> Places] /\ file \in [Proc -> 1 .. 5]
          /\ step \in [Proc -> 1 .. 3] /\ failed \subseteq Proc
      BY DEF Init, Places, Down
    <3>2. /\ view \in [Proc -> [Files -> Nat]] /\ target \in [Proc -> 0 .. MaxLength]
          /\ read \in [Proc -> 0 .. NotReading]
      BY Bounds DEF Init, Unmapped
    <3>3. QED BY <3>1, <3>2 DEF ProcTypes
  <2>2. FileTypes
    BY DEF Init, FileTypes
  <2>3. Truths
    BY Zenon DEF Init, Truths
  <2>4. Counts
    BY Bounds DEF Init, Counts
  <2>5. QED BY <2>1, <2>2, <2>3, <2>4, Zenon DEF Types
<1>2. Sane
  BY DEF Init, Sane
<1>3. Headers
  BY GrowableFiles DEF Init, Headers, HeaderLength
<1>4. Reached
  BY DEF Init, Reached, Unmapped, Making, OpensFile, Growing
<1>5. MakerAlone /\ HalfMadeExplained /\ WellSized
  BY GrowableFiles DEF Init, MakerAlone, HalfMadeExplained, WellSized, Making
<1>6. MappedOrFailed
  BY DEF Init, MappedOrFailed, Passed, Growing
<1>7. CounterIsGiven /\ LostOnlyIfRaced
  BY DEF Init, CounterIsGiven, LostOnlyIfRaced
<1>8. QED BY <1>1, <1>2, <1>3, <1>4, <1>5, <1>6, <1>7 DEF Good

-----------------------------------------------------------------------------
(* The actions.                                                            *)

\* The actions, with what each leaves alone put in.
Acts(p) ==
  \/ Start(p)
  \/ MakeDirectory(p)
  \/ Access(p)
  \/ Make(p)
  \/ Map(p)
  \/ Fail(p)
  \/ Use(p)
  \/ \E f \in Growable : Grow(p, f)
  \/ GrowTruncate(p)
  \/ GrowRefused(p)
  \/ GrowStore(p)
  \/ IncRead(p)
  \/ IncStore(p)
  \/ \E f \in Files : Fault(p, f)
  \/ Kill(p)
  \/ Exit(p)

LEMMA NextActs == Next /\ Types => \E p \in Proc : Acts(p)
BY FileOfFile, Zenon DEF Next, Run, Acts

LEMMA TypesNext ==
  ASSUME Types, Sane, NEW p \in Proc, Acts(p)
  PROVE  Types'
<1> DEFINE f == FileOf(p)
<1>1. f \in Files
  BY FileOfFile
<1>2. Truths'
  <2>1. CASE MakeDirectory(p)
    BY <2>1, Zenon DEF MakeDirectory, Types, Truths
  <2>2. CASE IncRead(p)
    BY <2>2, Zenon DEF IncRead, files, Types, Truths
  <2>3. CASE Start(p) \/ Access(p) \/ Make(p) \/ Map(p) \/ Fail(p) \/ Use(p) \/ IncStore(p)
    BY <2>3, Zenon DEF Start, Access, Make, Map, Fail, Use, IncStore, files, procs, history,
       Types, Truths
  <2>4. CASE (\E g \in Growable : Grow(p, g)) \/ GrowTruncate(p) \/ GrowRefused(p) \/ GrowStore(p)
    BY <2>4, Zenon DEF Grow, GrowTruncate, GrowRefused, GrowStore, files, history, Types, Truths
  <2>5. CASE Kill(p) \/ Exit(p) \/ \E g \in Files : Fault(p, g)
    BY <2>5, Zenon DEF Kill, Exit, Fault, files, Types, Truths
  <2>6. QED BY <2>1, <2>2, <2>3, <2>4, <2>5 DEF Acts
<1>3. FileTypes'
  <2>1. CASE Make(p)
    <3>1. len' \in [Files -> Nat]
      <4>1. Lengthened(f, Makes(f)[step[p]]) \in Nat
        BY <1>1 DEF Lengthened, AtLeast, HeaderLength, Full, Types, FileTypes
      <4>2. QED BY <2>1, <4>1 DEF Make, Types, FileTypes
    <3>2. says' \in [Files -> Nat]
      BY <2>1 DEF Make, Full, Types, FileTypes
    <3>3. used' \subseteq Files /\ lost' \subseteq Files
      BY <1>1, <2>1 DEF Make, Types, FileTypes
    <3>4. UNCHANGED <<cut, refused, crowded, raced>>
      BY <2>1 DEF Make
    <3>5. QED BY <3>1, <3>2, <3>3, <3>4 DEF Types, FileTypes
  <2>2. CASE MakeDirectory(p)
    BY <2>2 DEF MakeDirectory, Types, FileTypes
  <2>3. CASE Access(p)
    BY <1>1, <2>3 DEF Access, files, Types, FileTypes
  <2>4. CASE Use(p)
    BY <2>4, GrowableFiles DEF Use, procs, history, Types, FileTypes
  <2>5. CASE IncStore(p)
    BY <2>5 DEF IncStore, Types, FileTypes, Files
  <2>6. CASE Fail(p) \/ Kill(p)
    BY <1>1, <2>6 DEF Fail, Kill, Cut, files, Types, FileTypes
  <2>7. CASE Start(p) \/ Map(p) \/ IncRead(p)
    BY <2>7 DEF Start, Map, IncRead, files, history, Types, FileTypes
  <2>8. CASE Exit(p) \/ \E g \in Files : Fault(p, g)
    BY <2>8 DEF Exit, Fault, files, Types, FileTypes
  <2>9. CASE \E g \in Growable : Grow(p, g)
    BY <2>9 DEF Grow, files, Types, FileTypes
  <2>10. CASE GrowTruncate(p)
    <3>1. target[p] \in Nat
      BY Bounds DEF Types, ProcTypes
    <3>2. QED BY <2>10, <3>1 DEF GrowTruncate, history, Types, FileTypes
  <2>11. CASE GrowRefused(p)
    BY <2>11 DEF GrowRefused, files, Types, FileTypes
  <2>12. CASE GrowStore(p)
    BY <1>1, <2>12, Bounds DEF GrowStore, SaysNow, history, Types, FileTypes, ProcTypes
  <2>13. QED BY <2>1, <2>2, <2>3, <2>4, <2>5, <2>6, <2>7, <2>8, <2>9, <2>10, <2>11, <2>12 DEF Acts
<1>4. ProcTypes'
  <2>1. CASE Start(p) \/ MakeDirectory(p) \/ Access(p)
    BY <2>1 DEF Start, MakeDirectory, Access, Types, ProcTypes, Places, Down, files, history
  <2>2. CASE Make(p)
    <3>1. step[p] \in 1 .. 3 /\ Len(Makes(f)) = 3 /\ UNCHANGED <<read, target, failed>>
      BY <1>1, <2>2, MakesFacts DEF Make, Types, ProcTypes
    <3>2. CASE step[p] = 3 /\ KeepsMapping(f)
      <4>1. Advance(p) /\ Mapped(p) /\ step' = [step EXCEPT ![p] = 1]
        BY <2>2, <3>1, <3>2 DEF Make
      <4>2. view' \in [Proc -> [Files -> Nat]]
        BY <1>1, <4>1 DEF Mapped, Full, Types, ProcTypes, FileTypes
      <4>3. at' \in [Proc -> Places] /\ file' \in [Proc -> 1 .. 5]
        BY <4>1, OrderFacts DEF Advance, Types, ProcTypes, Places
      <4>4. step' \in [Proc -> 1 .. 3]
        BY <4>1 DEF Types, ProcTypes
      <4>5. QED BY <3>1, <4>2, <4>3, <4>4 DEF Types, ProcTypes
    <3>3. CASE step[p] = 3 /\ ~ KeepsMapping(f)
      <4>1. /\ at' = [at EXCEPT ![p] = "map"] /\ step' = [step EXCEPT ![p] = 1]
            /\ UNCHANGED <<file, view>>
        BY <2>2, <3>1, <3>3 DEF Make
      <4>2. at' \in [Proc -> Places] /\ step' \in [Proc -> 1 .. 3]
        BY <4>1 DEF Types, ProcTypes, Places
      <4>3. QED BY <3>1, <4>1, <4>2 DEF Types, ProcTypes
    <3>4. CASE step[p] # 3
      BY <2>2, <3>1, <3>4 DEF Make, Types, ProcTypes
    <3>5. QED BY <3>2, <3>3, <3>4
  <2>3. CASE Map(p)
    <3>1. view' \in [Proc -> [Files -> Nat]]
      BY <1>1, <2>3 DEF Map, Mapped, Full, Types, ProcTypes, FileTypes
    <3>2. at' \in [Proc -> Places] /\ file' \in [Proc -> 1 .. 5]
      BY <2>3, OrderFacts DEF Map, Advance, Types, ProcTypes, Places
    <3>3. UNCHANGED <<step, target, read, failed>>
      BY <2>3 DEF Map, history
    <3>4. QED BY <3>1, <3>2, <3>3 DEF Types, ProcTypes
  <2>4. CASE Fail(p)
    BY <2>4, OrderFacts DEF Fail, Advance, Types, ProcTypes, Places
  <2>5. CASE Use(p)
    BY <2>5 DEF Use, procs, history, Types, ProcTypes
  <2>6. CASE IncRead(p)
    BY <2>6, Bounds DEF IncRead, Types, ProcTypes, Counts
  <2>7. CASE IncStore(p)
    BY <2>7, Bounds DEF IncStore, Types, ProcTypes
  <2>8. CASE Exit(p) \/ Kill(p) \/ \E g \in Files : Fault(p, g)
    <3>1. \E how \in Down : Ends(p, how)
      BY <2>8 DEF Exit, Kill, Fault, Down
    <3>2. QED BY <3>1, Bounds DEF Ends, Unmapped, Types, ProcTypes, Places, Down
  <2>9. ASSUME NEW g \in Growable, Grow(p, g) PROVE ProcTypes'
    <3>1. /\ at' \in [Proc -> Places] /\ UNCHANGED <<step, read>>
          /\ failed' \subseteq Proc
      BY <2>9 DEF Grow, Types, ProcTypes, Places
    <3>2. target' \in [Proc -> 0 .. MaxLength]
      <4>1. \A n \in Targets(g) : n \in 0 .. MaxLength
        BY DEF Targets, Full
      <4>2. QED BY <2>9, <4>1 DEF Grow, Types, ProcTypes
    <3>3. file' \in [Proc -> 1 .. 5]
      <4>1. (CHOOSE i \in DOMAIN Order : Order[i] = g) \in 1 .. 5
        BY OrderFacts, GrowableFiles
      <4>2. QED BY <2>9, <4>1 DEF Grow, Types, ProcTypes
    <3>4. view' \in [Proc -> [Files -> Nat]]
      BY <2>9 DEF Grow, HeaderLength, Types, ProcTypes
    <3>5. QED BY <3>1, <3>2, <3>3, <3>4 DEF Types, ProcTypes
  <2>10. CASE GrowTruncate(p)
    BY <2>10 DEF GrowTruncate, history, Types, ProcTypes
  <2>11. CASE GrowRefused(p)
    <3>1. view' = view /\ read' = read /\ failed' \subseteq Proc
      BY <2>11 DEF GrowRefused, Types, ProcTypes
    <3>2. \/ Return(p)
          \/ UNCHANGED <<at, file, target>> /\ step' = [step EXCEPT ![p] = 2]
      BY <2>11 DEF GrowRefused
    <3>3. /\ at' \in [Proc -> Places] /\ file' \in [Proc -> 1 .. 5]
          /\ step' \in [Proc -> 1 .. 3]
      <4>1. CASE Return(p)
        BY <4>1, OrderFacts DEF Return, Types, ProcTypes, Places
      <4>2. CASE UNCHANGED <<at, file, target>> /\ step' = [step EXCEPT ![p] = 2]
        BY <4>2 DEF Types, ProcTypes
      <4>3. QED BY <3>2, <4>1, <4>2
    <3>4. target' \in [Proc -> 0 .. MaxLength]
      BY <3>2, Bounds DEF Return, Types, ProcTypes
    <3>5. QED BY <3>1, <3>3, <3>4 DEF Types, ProcTypes
  <2>12. CASE GrowStore(p)
    <3>1. view' \in [Proc -> [Files -> Nat]]
      BY <1>1, <2>12, Bounds DEF GrowStore, Types, ProcTypes
    <3>2. QED BY <2>12, <3>1, OrderFacts, Bounds DEF GrowStore, Return, history, Types, ProcTypes, Places
  <2>13. QED BY <2>1, <2>2, <2>3, <2>4, <2>5, <2>6, <2>7, <2>8, <2>9, <2>10, <2>11, <2>12 DEF Acts
<1>5. Counts'
  <2>1. CASE Make(p)
    BY <2>1, Bounds DEF Make, Types, Counts
  <2>2. CASE IncStore(p)
    BY <2>2, Bounds DEF IncStore, AtLeast, Types, ProcTypes, Counts, Sane
  <2>3. CASE Access(p)
    BY <2>3, Bounds DEF Access, files, Types, Counts
  <2>4. CASE Fail(p) \/ Kill(p) \/ GrowRefused(p) \/ \E g \in Growable : Grow(p, g)
    BY <2>4, Bounds DEF Fail, Kill, GrowRefused, Grow, files, Types, Counts
  <2>5. CASE Start(p) \/ MakeDirectory(p) \/ Map(p) \/ Use(p) \/ IncRead(p)
    BY <2>5 DEF Start, MakeDirectory, Map, Use, IncRead, files, history, Types, Counts
  <2>6. CASE Exit(p) \/ (\E g \in Files : Fault(p, g)) \/ GrowTruncate(p) \/ GrowStore(p)
    BY <2>6 DEF Exit, Fault, GrowTruncate, GrowStore, files, history, Types, Counts
  <2>7. QED BY <2>1, <2>2, <2>3, <2>4, <2>5, <2>6 DEF Acts
<1>6. QED BY <1>2, <1>3, <1>4, <1>5, Zenon DEF Types

-----------------------------------------------------------------------------
(* What the kinds of steps change.                                         *)

\* A step of p leaves alone where the others are.
OnlyMoves(p) ==
  \A q \in Proc \ {p} : /\ at'[q] = at[q] /\ file'[q] = file[q] /\ step'[q] = step[q]
                        /\ view'[q] = view[q] /\ target'[q] = target[q]

\* The steps that are neither access nor of CreateFile or ExpandFile: p does not come to
\* make, open or expand a file, stores only in files it has mapped, and comes to have
\* only the file mapped that it has opened.
Passive(p) ==
  /\ len' = len /\ says' = says /\ lost' = lost
  /\ raced \subseteq raced' /\ cut \subseteq cut'
  /\ refused' = refused /\ crowded' = crowded
  /\ at'[p] \notin {"make", "map", "grow"}
  /\ OnlyMoves(p)
  /\ \A g \in used' : g \in used \/ (g \in Files /\ view[p][g] # 0)
  /\ \A g \in Files :
       \/ view'[p][g] \in {0, view[p][g]}
       \/ /\ OpensFile(p, g) /\ len[g] >= OpenNeeds(g)
          /\ view'[p][g] = IF g \in Growable THEN says[g] ELSE Full(g)
  /\ at[p] = "make" /\ step[p] > 1 => FileOf(p) \in cut'

LEMMA EndsActs ==
  ASSUME Types, NEW p \in Proc, NEW how \in Down, Ends(p, how)
  PROVE  /\ at'[p] = how /\ file'[p] = 1 /\ step'[p] = 1 /\ view'[p] = Unmapped
         /\ read'[p] = NotReading /\ objects' = [objects EXCEPT ![p] = Nothing]
         /\ failed' = failed \ {p}
         /\ OnlyMoves(p) /\ \A q \in Proc \ {p} : read'[q] = read[q]
BY DEF Ends, OnlyMoves, Types, ProcTypes

LEMMA AdvanceActs ==
  ASSUME Types, NEW p \in Proc, Advance(p)
  PROVE  /\ at'[p] = IF file[p] = 5 THEN "up" ELSE "access"
         /\ file'[p] = IF file[p] = 5 THEN 5 ELSE file[p] + 1
         /\ \A q \in Proc \ {p} : at'[q] = at[q] /\ file'[q] = file[q]
BY OrderFacts DEF Advance, Types, ProcTypes

LEMMA MappedActs ==
  ASSUME Types, NEW p \in Proc, Mapped(p)
  PROVE  /\ view'[p][FileOf(p)] = IF FileOf(p) \in Growable THEN says[FileOf(p)] ELSE Full(FileOf(p))
         /\ \A g \in Files : g # FileOf(p) => view'[p][g] = view[p][g]
         /\ \A q \in Proc \ {p} : view'[q] = view[q]
BY FileOfFile DEF Mapped, Types, ProcTypes

LEMMA PassiveActs ==
  ASSUME Types, Sane, NEW p \in Proc,
         \/ Start(p) \/ MakeDirectory(p) \/ Map(p) \/ Fail(p) \/ Use(p) \/ IncRead(p)
         \/ IncStore(p) \/ (\E f \in Files : Fault(p, f)) \/ Kill(p) \/ Exit(p)
  PROVE  Passive(p)
<1>1. CASE Start(p)
  BY <1>1 DEF Start, files, history, Passive, OnlyMoves, Types, ProcTypes, FileTypes, Down
<1>2. CASE MakeDirectory(p)
  BY <1>2 DEF MakeDirectory, Passive, OnlyMoves, Types, ProcTypes, FileTypes
<1>3. CASE Map(p)
  <2>1. /\ at[p] = "map" /\ len[FileOf(p)] >= OpenNeeds(FileOf(p)) /\ Advance(p) /\ Mapped(p)
        /\ UNCHANGED <<len, says, lost, raced, cut, refused, crowded, step, target, used>>
    BY <1>3 DEF Map, files, history
  <2>2. \A g \in Files :
          \/ view'[p][g] \in {0, view[p][g]}
          \/ /\ OpensFile(p, g) /\ len[g] >= OpenNeeds(g)
             /\ view'[p][g] = IF g \in Growable THEN says[g] ELSE Full(g)
    BY <2>1, MappedActs DEF OpensFile
  <2>3. at'[p] \notin {"make", "map", "grow"} /\ OnlyMoves(p)
    BY <2>1, AdvanceActs, MappedActs DEF OnlyMoves
  <2>4. QED BY <2>1, <2>2, <2>3 DEF Passive, Types, FileTypes
<1>4. CASE Fail(p)
  <2>1. /\ Advance(p) /\ Cut(p) /\ view' = view
        /\ UNCHANGED <<len, says, lost, raced, refused, crowded, target, used>>
        /\ step' = [step EXCEPT ![p] = 1]
    BY <1>4 DEF Fail, files
  <2>2. at'[p] \notin {"make", "map", "grow"} /\ OnlyMoves(p)
    BY <2>1, AdvanceActs DEF OnlyMoves, Types, ProcTypes
  <2>3. cut \subseteq cut' /\ (at[p] = "make" /\ step[p] > 1 => FileOf(p) \in cut')
    BY <2>1 DEF Cut
  <2>4. QED BY <2>1, <2>2, <2>3 DEF Passive, Types, FileTypes
<1>5. CASE Use(p)
  BY <1>5, GrowableFiles DEF Use, procs, history, Passive, OnlyMoves, Calls, Full, Types, ProcTypes, FileTypes
<1>6. CASE IncRead(p)
  BY <1>6 DEF IncRead, files, Passive, OnlyMoves, Calls, Types, ProcTypes, FileTypes
<1>7. CASE IncStore(p)
  BY <1>7 DEF IncStore, Passive, OnlyMoves, Sane, Files, Types, ProcTypes, FileTypes
<1>8. CASE Exit(p) \/ Kill(p) \/ \E f \in Files : Fault(p, f)
  <2>1. /\ UNCHANGED <<len, says, lost, raced, refused, crowded, used>>
        /\ cut \subseteq cut'
        /\ at[p] = "make" /\ step[p] > 1 => FileOf(p) \in cut'
    BY <1>8 DEF Exit, Kill, Fault, Calls, Growing, Cut, files
  <2>2. \E how \in Down : Ends(p, how)
    BY <1>8 DEF Exit, Kill, Fault, Down
  <2>3. /\ at'[p] \notin {"make", "map", "grow"} /\ OnlyMoves(p)
        /\ \A g \in Files : view'[p][g] = 0
    BY <2>2, EndsActs DEF Down, Unmapped
  <2>4. QED BY <2>1, <2>3 DEF Passive, Types, FileTypes
<1>9. QED BY <1>1, <1>2, <1>3, <1>4, <1>5, <1>6, <1>7, <1>8

\* access: p makes the file or opens it.
LEMMA AccessActs ==
  ASSUME Types, NEW p \in Proc, Access(p)
  PROVE  /\ UNCHANGED <<len, says, used, lost, cut, refused, crowded, view, file, step, target,
                        failed>>
         /\ at[p] = "access"
         /\ at'[p] = IF len[FileOf(p)] = 0 THEN "make" ELSE "map"
         /\ \A q \in Proc \ {p} : at'[q] = at[q]
         /\ raced \subseteq raced'
         /\ \A q \in Proc \ {p} : Making(q, FileOf(p)) => FileOf(p) \in raced'
BY DEF Access, Absent, files, Types, ProcTypes

\* A step of CreateFile.
LEMMA MakeActs ==
  ASSUME Types, NEW p \in Proc, Make(p), NEW f, f = FileOf(p)
  PROVE  /\ at[p] = "make" /\ f \in Files /\ step[p] \in 1 .. 3
         /\ UNCHANGED <<cut, raced, refused, crowded, target, failed>>
         /\ \A g \in Files \ {f} : len'[g] = len[g] /\ says'[g] = says[g]
         /\ \/ f \in used /\ used' = used \ {f} /\ lost' = lost \cup {f}
            \/ used' = used /\ lost' = lost
         /\ OnlyMoves(p)
         /\ step[p] = 1 => len'[f] = AtLeast(len[f], 1) /\ says'[f] = says[f]
         /\ step[p] = 2 => IF f \in Growable
                           THEN len'[f] = AtLeast(len[f], 2) /\ says'[f] = 3
                           ELSE len'[f] = 2
         /\ step[p] = 3 => IF f \in Growable
                           THEN len'[f] \in {3, AtLeast(len[f], 3)} /\ says'[f] = says[f]
                           ELSE len'[f] = len[f]
         /\ step[p] < 3 => /\ step'[p] = step[p] + 1 /\ at'[p] = "make"
                           /\ file'[p] = file[p] /\ view'[p] = view[p]
         /\ step[p] = 3 => step'[p] = 1
         /\ step[p] = 3 /\ f \in Growable => /\ at'[p] = "map"
                                             /\ file'[p] = file[p] /\ view'[p] = view[p]
         /\ step[p] = 3 /\ f \notin Growable =>
              /\ Advance(p)
              /\ view'[p][f] = Full(f)
              /\ \A g \in Files : g # f => view'[p][g] = view[p][g]
<1> DEFINE what == Makes(f)[step[p]]
<1>1. f \in Files
  BY FileOfFile
<1>2. step[p] \in 1 .. 3 /\ Len(Makes(f)) = 3
  BY <1>1, MakesFacts DEF Types, ProcTypes
<1>3. /\ at[p] = "make" /\ UNCHANGED <<cut, raced, refused, crowded, target, failed>>
      /\ \/ f \in used /\ used' = used \ {f} /\ lost' = lost \cup {f}
         \/ used' = used /\ lost' = lost
  BY DEF Make
<1>4. /\ \A g \in Files \ {f} : len'[g] = len[g] /\ says'[g] = says[g]
      /\ len'[f] = Lengthened(f, what)
      /\ says'[f] = IF what = "header" THEN Full(f) ELSE says[f]
  BY <1>1 DEF Make, Types, FileTypes
<1>5. step[p] = 1 => len'[f] = AtLeast(len[f], 1) /\ says'[f] = says[f]
  BY <1>1, <1>4, MakesFacts DEF Lengthened
<1>6. step[p] = 2 => IF f \in Growable
                     THEN len'[f] = AtLeast(len[f], 2) /\ says'[f] = 3
                     ELSE len'[f] = 2
  BY <1>1, <1>4, MakesFacts DEF Lengthened, HeaderLength
<1>7. step[p] = 3 => IF f \in Growable
                     THEN len'[f] \in {3, AtLeast(len[f], 3)} /\ says'[f] = says[f]
                     ELSE len'[f] = len[f]
  BY <1>1, <1>4, MakesFacts DEF Lengthened
<1>8. CASE step[p] = 3 /\ f \notin Growable
  <2>1. Advance(p) /\ Mapped(p) /\ step' = [step EXCEPT ![p] = 1]
    BY <1>1, <1>2, <1>8, MakesFacts DEF Make
  <2>2. OnlyMoves(p)
    BY <1>3, <2>1, AdvanceActs, MappedActs DEF OnlyMoves, Types, ProcTypes
  <2>3. step'[p] = 1
    BY <2>1 DEF Types, ProcTypes
  <2>4. QED BY <1>1, <1>2, <1>3, <1>4, <1>7, <1>8, <2>1, <2>2, <2>3, MappedActs
<1>9. CASE step[p] = 3 /\ f \in Growable
  <2>1. at' = [at EXCEPT ![p] = "map"] /\ UNCHANGED <<file, view>> /\ step' = [step EXCEPT ![p] = 1]
    BY <1>1, <1>2, <1>9, MakesFacts DEF Make
  <2>2. OnlyMoves(p) /\ step'[p] = 1 /\ at'[p] = "map"
    BY <1>3, <2>1 DEF OnlyMoves, Types, ProcTypes
  <2>3. QED BY <1>1, <1>2, <1>3, <1>4, <1>7, <1>9, <2>1, <2>2
<1>10. CASE step[p] # 3
  <2>1. step' = [step EXCEPT ![p] = @ + 1] /\ UNCHANGED <<at, file, view>>
    BY <1>2, <1>10 DEF Make
  <2>2. OnlyMoves(p) /\ step'[p] = step[p] + 1
    BY <1>3, <2>1 DEF OnlyMoves, Types, ProcTypes
  <2>3. QED BY <1>1, <1>2, <1>3, <1>4, <1>5, <1>6, <1>10, <2>1, <2>2
<1>11. QED BY <1>8, <1>9, <1>10

\* What the steps of ExpandFile have in common.
Grows(p) ==
  /\ at[p] \in {"up", "grow"} /\ at'[p] \in {"up", "grow"}
  /\ UNCHANGED <<used, lost, cut, raced, counter, given, clash, read, objects>>
  /\ refused \subseteq refused' /\ crowded \subseteq crowded' /\ failed \subseteq failed'
  /\ OnlyMoves(p)

LEMMA GrowActs ==
  ASSUME Types, Sane, NEW p \in Proc, NEW f \in Growable, Grow(p, f)
  PROVE  /\ Grows(p) /\ UNCHANGED <<len, says, refused>>
         /\ at[p] = "up" /\ at'[p] = "grow" /\ FileOf(p)' = f /\ step'[p] = 1
         /\ read[p] = NotReading
         /\ view[p][f] # 0
         /\ target'[p] \in Targets(f)
         /\ \A g \in Files : view'[p][g] \in {0, view[p][g]} \/ (g = f /\ view'[p][g] = 2)
         /\ p \notin failed' => view'[p][f] = 2 /\ \A g \in Files \ {f} : view'[p][g] = view[p][g]
         /\ f \notin crowded' => \A q \in Proc : ~ Growing(q, f)
<1>1. /\ at[p] = "up" /\ read[p] = NotReading /\ step[p] = 1 /\ view[p][f] # 0
      /\ UNCHANGED <<len, says, step, used, lost, cut, raced, refused, counter, given, clash,
                     read, objects>>
      /\ f \in Files
  BY GrowableFiles DEF Grow, Calls, Full, HeaderLength, files, Sane
<1>2. at'[p] = "grow" /\ \A q \in Proc \ {p} : at'[q] = at[q]
  BY DEF Grow, Types, ProcTypes
<1>3. FileOf(p)' = f /\ \A q \in Proc \ {p} : file'[q] = file[q]
  <2>1. Order[CHOOSE i \in DOMAIN Order : Order[i] = f] = f
    BY <1>1, OrderFacts
  <2>2. QED BY <2>1 DEF Grow, FileOf, Types, ProcTypes
<1>4. target'[p] \in Targets(f) /\ \A q \in Proc \ {p} : target'[q] = target[q]
  BY DEF Grow, Types, ProcTypes
<1>5. PICK gone \in SUBSET Files :
        /\ view' = [view EXCEPT ![p] = [g \in Files |-> CASE g \in gone -> 0
                                                          [] g = f /\ g \notin gone -> HeaderLength
                                                          [] OTHER -> @[g]]]
        /\ failed' = IF gone = {} THEN failed ELSE failed \cup {p}
  BY DEF Grow
<1>6. /\ \A q \in Proc \ {p} : view'[q] = view[q]
      /\ \A g \in Files : view'[p][g] = CASE g \in gone -> 0
                                          [] g = f /\ g \notin gone -> 2
                                          [] OTHER -> view[p][g]
  BY <1>5 DEF Types, ProcTypes, HeaderLength
<1>7. /\ crowded \subseteq crowded' /\ failed \subseteq failed'
      /\ f \notin crowded' => \A q \in Proc : ~ Growing(q, f)
  BY <1>5 DEF Grow
<1>8. Grows(p)
  BY <1>1, <1>2, <1>3, <1>4, <1>6, <1>7 DEF Grows, OnlyMoves
<1>9. /\ \A g \in Files : view'[p][g] \in {0, view[p][g]} \/ (g = f /\ view'[p][g] = 2)
      /\ p \notin failed' => view'[p][f] = 2 /\ \A g \in Files \ {f} : view'[p][g] = view[p][g]
  BY <1>1, <1>5, <1>6
<1>10. QED BY <1>1, <1>2, <1>3, <1>4, <1>7, <1>8, <1>9

LEMMA GrowTruncateActs ==
  ASSUME Types, NEW p \in Proc, GrowTruncate(p), NEW f, f = FileOf(p)
  PROVE  /\ Grows(p) /\ UNCHANGED <<at, file, view, target, says, refused, crowded, failed>>
         /\ at[p] = "grow" /\ f \in Files
         /\ step'[p] = 2
         /\ len'[f] = target[p] /\ \A g \in Files \ {f} : len'[g] = len[g]
<1>1. f \in Files
  BY FileOfFile
<1>2. QED BY <1>1 DEF GrowTruncate, Grows, OnlyMoves, history, Types, ProcTypes, FileTypes

LEMMA ReturnActs ==
  ASSUME Types, NEW p \in Proc, Return(p)
  PROVE  /\ at'[p] = "up" /\ step'[p] = 1
         /\ \A q \in Proc \ {p} : /\ at'[q] = at[q] /\ file'[q] = file[q]
                                 /\ step'[q] = step[q] /\ target'[q] = target[q]
BY DEF Return, Types, ProcTypes

LEMMA GrowRefusedActs ==
  ASSUME Types, NEW p \in Proc, GrowRefused(p)
  PROVE  /\ Grows(p) /\ UNCHANGED <<len, says, view, crowded>> /\ at[p] = "grow" /\ step[p] = 1
         /\ \/ /\ FileOf(p) = "index" /\ "index" \in refused' /\ step'[p] = 2
               /\ UNCHANGED <<at, file, target, failed>>
            \/ at'[p] = "up" /\ step'[p] = 1 /\ p \in failed'
<1>1. /\ UNCHANGED <<len, says, view, crowded, used, lost, cut, raced, counter, given, clash, read,
                     objects>>
      /\ at[p] = "grow" /\ step[p] = 1
      /\ refused \subseteq refused' /\ failed \subseteq failed'
  BY DEF GrowRefused, files
<1>2. CASE FileOf(p) = "index"
  <2>1. "index" \in refused' /\ step' = [step EXCEPT ![p] = 2] /\ UNCHANGED <<at, file, target, failed>>
    BY <1>2 DEF GrowRefused
  <2>2. step'[p] = 2 /\ OnlyMoves(p)
    BY <1>1, <2>1 DEF OnlyMoves, Types, ProcTypes
  <2>3. QED BY <1>1, <1>2, <2>1, <2>2 DEF Grows
<1>3. CASE FileOf(p) # "index"
  <2>1. Return(p) /\ p \in failed'
    BY <1>3 DEF GrowRefused
  <2>2. QED BY <1>1, <2>1, ReturnActs DEF Grows, OnlyMoves
<1>4. QED BY <1>2, <1>3

LEMMA GrowStoreActs ==
  ASSUME Types, NEW p \in Proc, GrowStore(p), NEW f, f = FileOf(p)
  PROVE  /\ Grows(p) /\ UNCHANGED <<len, refused, crowded, failed>> /\ f \in Files
         /\ at[p] = "grow" /\ step[p] = 2 /\ view[p][f] # 0
         /\ at'[p] = "up" /\ step'[p] = 1
         /\ says'[f] = SaysNow(p, f) /\ \A g \in Files \ {f} : says'[g] = says[g]
         /\ view'[p][f] = target[p] /\ \A g \in Files \ {f} : view'[p][g] = view[p][g]
<1>1. f \in Files
  BY FileOfFile
<1>2. /\ UNCHANGED <<len, refused, crowded, failed, used, lost, cut, raced, counter, given, clash,
                     read, objects>>
      /\ at[p] = "grow" /\ step[p] = 2 /\ view[p][f] # 0 /\ Return(p)
      /\ says' = [says EXCEPT ![f] = SaysNow(p, f)]
      /\ view' = [view EXCEPT ![p][f] = target[p]]
  BY DEF GrowStore, history
<1>3. /\ says'[f] = SaysNow(p, f) /\ \A g \in Files \ {f} : says'[g] = says[g]
      /\ view'[p][f] = target[p] /\ \A g \in Files \ {f} : view'[p][g] = view[p][g]
      /\ \A q \in Proc \ {p} : view'[q] = view[q]
  BY <1>1, <1>2 DEF Types, ProcTypes, FileTypes
<1>4. QED BY <1>1, <1>2, <1>3, ReturnActs DEF Grows, OnlyMoves

\* The kinds of steps.
LEMMA Kinds ==
  ASSUME Types, Sane, NEW p \in Proc, Acts(p)
  PROVE  \/ Passive(p)
         \/ Access(p)
         \/ Make(p)
         \/ \E f \in Growable : Grow(p, f)
         \/ GrowTruncate(p)
         \/ GrowRefused(p)
         \/ GrowStore(p)
BY PassiveActs DEF Acts

-----------------------------------------------------------------------------
(* Every step keeps the rest of the invariant.                             *)

LEMMA SaneNext ==
  ASSUME Types, Sane, NEW p \in Proc, Acts(p)
  PROVE  Sane'
<1>1. CASE Make(p)
  <2>1. read' = read /\ read[p] = NotReading
    BY <1>1 DEF Make, Sane
  <2>2. at'[p] \in {"make", "map", "up", "access"} /\ (at'[p] # "make" => step'[p] = 1)
    BY <1>1, MakeActs, AdvanceActs
  <2>3. OnlyMoves(p) /\ target' = target
    BY <1>1, MakeActs
  <2>4. QED BY <2>1, <2>2, <2>3 DEF OnlyMoves, Sane, FileOf, Down
<1>2. CASE Start(p) \/ MakeDirectory(p) \/ Access(p)
  BY <1>2 DEF Start, MakeDirectory, Access, files, Sane, FileOf, Types, ProcTypes, Down
<1>3. CASE Map(p) \/ Fail(p)
  <2>1. /\ Advance(p) /\ at[p] \in {"map", "make"} /\ UNCHANGED <<target, read>>
        /\ step'[p] = 1 /\ \A q \in Proc \ {p} : step'[q] = step[q] /\ view'[q] = view[q]
    BY <1>3, MappedActs DEF Map, Fail, Sane, Types, ProcTypes
  <2>2. QED BY <2>1, AdvanceActs DEF Sane, FileOf, Down
<1>4. CASE Use(p)
  BY <1>4 DEF Use, procs, Sane, FileOf
<1>5. CASE IncRead(p)
  BY <1>5 DEF IncRead, files, Calls, Sane, FileOf, Types, ProcTypes
<1>6. CASE IncStore(p)
  BY <1>6 DEF IncStore, Sane, FileOf, Types, ProcTypes
<1>7. CASE Exit(p) \/ Kill(p) \/ \E f \in Files : Fault(p, f)
  <2>1. \E how \in Down : Ends(p, how)
    BY <1>7 DEF Exit, Kill, Fault, Down
  <2>2. QED BY <2>1, EndsActs DEF OnlyMoves, Sane, FileOf, Down
<1>8. ASSUME NEW f \in Growable, Grow(p, f) PROVE Sane'
  <2>1. target'[p] > 3
    <3>1. \A n \in Targets(f) : n > 3
      BY Bounds DEF Targets, Full
    <3>2. QED BY <1>8, <3>1, GrowActs
  <2>2. QED BY <1>8, <2>1, GrowActs DEF Grows, OnlyMoves, Sane, FileOf, Down
<1>9. CASE GrowTruncate(p)
  BY <1>9, GrowTruncateActs DEF Grows, OnlyMoves, Sane, FileOf
<1>10. CASE GrowRefused(p)
  BY <1>10, GrowRefusedActs DEF Grows, OnlyMoves, Sane, FileOf, Down
<1>11. CASE GrowStore(p)
  BY <1>11, GrowStoreActs DEF Grows, OnlyMoves, Sane, FileOf, Down
<1>12. QED BY <1>1, <1>2, <1>3, <1>4, <1>5, <1>6, <1>7, <1>8, <1>9, <1>10, <1>11 DEF Acts

\* No file gets shorter than CreateFile makes it.
LEMMA KeepsLength ==
  ASSUME Types, Sane, NEW p \in Proc, Acts(p), NEW f \in Files, NEW n \in 0 .. 3,
         n <= Full(f), n <= len[f]
  PROVE  n <= len'[f]
<1>1. len[f] \in Nat /\ Full(f) \in {2, 3}
  BY DEF Types, FileTypes, Full
<1>2. CASE Make(p) /\ f = FileOf(p)
  <2>1. \/ len'[f] = AtLeast(len[f], 1)
        \/ len'[f] = AtLeast(len[f], 2)
        \/ len'[f] = 2 /\ f \notin Growable
        \/ len'[f] \in {3, AtLeast(len[f], 3)}
        \/ len'[f] = len[f]
    BY <1>2, MakeActs
  <2>2. f \notin Growable => Full(f) = 2
    BY DEF Full
  <2>3. QED BY <1>1, <2>1, <2>2 DEF AtLeast
<1>3. CASE Make(p) /\ f # FileOf(p)
  BY <1>3, MakeActs
<1>4. CASE Passive(p) \/ Access(p)
  BY <1>4, AccessActs DEF Passive
<1>5. CASE (\E g \in Growable : Grow(p, g)) \/ GrowRefused(p) \/ GrowStore(p)
  BY <1>5, GrowActs, GrowRefusedActs, GrowStoreActs
<1>6. CASE GrowTruncate(p)
  <2>1. target[p] > 3 /\ target[p] \in Nat
    BY <1>6, GrowTruncateActs, Bounds DEF Sane, Types, ProcTypes
  <2>2. QED BY <1>1, <1>6, <2>1, GrowTruncateActs
<1>7. QED BY <1>2, <1>3, <1>4, <1>5, <1>6, Kinds

LEMMA HeadersNext ==
  ASSUME Types, Sane, Headers, Reached, NEW p \in Proc, Acts(p)
  PROVE  Headers'
<1> SUFFICES ASSUME NEW f \in Growable
             PROVE  /\ says'[f] = 0 <=> len'[f] < 2
                    /\ says'[f] # 0 => says'[f] > 2
  BY DEF Headers, HeaderLength
<1>1. f \in Files /\ len[f] \in Nat /\ says[f] \in Nat
  BY GrowableFiles DEF Types, FileTypes
<1>2. (says[f] = 0 <=> len[f] < 2) /\ (says[f] # 0 => says[f] > 2)
  BY DEF Headers, HeaderLength
<1>3. CASE Make(p) /\ f = FileOf(p)
  <2>1. len[f] >= step[p] - 1
    BY <1>1, <1>3, MakeActs DEF Reached, Making
  <2>2. QED BY <1>1, <1>2, <1>3, <2>1, MakeActs DEF AtLeast
<1>4. CASE Make(p) /\ f # FileOf(p)
  BY <1>1, <1>2, <1>4, MakeActs
<1>5. CASE Passive(p) \/ Access(p)
  BY <1>2, <1>5, AccessActs DEF Passive
<1>6. CASE (\E g \in Growable : Grow(p, g)) \/ GrowRefused(p)
  BY <1>2, <1>6, GrowActs, GrowRefusedActs
<1>7. CASE (GrowTruncate(p) \/ GrowStore(p)) /\ f # FileOf(p)
  BY <1>1, <1>2, <1>7, GrowTruncateActs, GrowStoreActs
<1>8. CASE (GrowTruncate(p) \/ GrowStore(p)) /\ f = FileOf(p)
  <2>1. Growing(p, f) /\ target[p] > 3 /\ target[p] \in Nat
    BY <1>8, GrowTruncateActs, GrowStoreActs, Bounds DEF Growing, Sane, Types, ProcTypes
  <2>2. len[f] >= 2
    BY <1>1, <2>1 DEF Reached, Floor, Growable
  <2>3. QED BY <1>1, <1>2, <1>8, <2>1, <2>2, GrowTruncateActs, GrowStoreActs DEF SaysNow
<1>9. QED BY <1>3, <1>4, <1>5, <1>6, <1>7, <1>8, Kinds

LEMMA ReachedNext ==
  ASSUME Types, Sane, Headers, Reached, NEW p \in Proc, Acts(p)
  PROVE  Reached'
<1> SUFFICES ASSUME NEW f \in Files
             PROVE  /\ f \in used' => len'[f] > 0
                    /\ \A q \in Proc : /\ view'[q][f] # 0 \/ Growing(q, f)' => len'[f] >= Floor(f)
                                       /\ OpensFile(q, f)' => len'[f] > 0
                                       /\ Making(q, f)' => len'[f] >= step'[q] - 1
                                       /\ f \notin Growable => view'[q][f] \in {0, Full(f)}
  BY DEF Reached
<1>1. /\ Floor(f) \in 1 .. 3 /\ Floor(f) <= Full(f)
      /\ len[f] \in Nat /\ len'[f] \in Nat
      /\ Full(f) \in {2, 3} /\ (f \in Growable => Full(f) = 3)
  BY TypesNext DEF Floor, Full, Growable, Files, Types, FileTypes
<1>2. /\ len[f] >= Floor(f) => len'[f] >= Floor(f)
      /\ len[f] > 0 => len'[f] > 0
      /\ len[f] >= 2 => len'[f] >= 2
  BY <1>1, KeepsLength
<1>3. \A q \in Proc : /\ view[q][f] # 0 \/ Growing(q, f) => len[f] >= Floor(f)
                      /\ OpensFile(q, f) => len[f] > 0
                      /\ Making(q, f) => len[f] >= step[q] - 1
                      /\ f \notin Growable => view[q][f] \in {0, Full(f)}
  BY DEF Reached
<1>4. f \in used => len[f] > 0
  BY DEF Reached
<1>5. ASSUME NEW q \in Proc \ {p}, OnlyMoves(p)
      PROVE  /\ view'[q][f] # 0 \/ Growing(q, f)' => len'[f] >= Floor(f)
             /\ OpensFile(q, f)' => len'[f] > 0
             /\ Making(q, f)' => len'[f] >= step'[q] - 1
             /\ f \notin Growable => view'[q][f] \in {0, Full(f)}
  <2>1. /\ at'[q] = at[q] /\ file'[q] = file[q] /\ step'[q] = step[q] /\ view'[q] = view[q]
        /\ step[q] \in 1 .. 3
    BY <1>5 DEF OnlyMoves, Types, ProcTypes
  <2>2. QED BY <1>1, <1>2, <1>3, <2>1 DEF Growing, OpensFile, Making, FileOf
<1>6. CASE Passive(p)
  <2>1. OnlyMoves(p) /\ len' = len /\ at'[p] \notin {"make", "map", "grow"}
    BY <1>6 DEF Passive
  <2>2. f \in used' => len'[f] > 0
    BY <1>1, <1>3, <1>4, <1>6 DEF Passive
  <2>3. CASE view'[p][f] \in {0, view[p][f]}
    BY <1>3, <1>5, <2>1, <2>2, <2>3 DEF Growing, OpensFile, Making
  <2>4. CASE /\ OpensFile(p, f) /\ len[f] >= OpenNeeds(f)
             /\ view'[p][f] = IF f \in Growable THEN says[f] ELSE Full(f)
    <3>1. len[f] >= Floor(f)
      <4>1. CASE f \in {"version", "sync", "data"}
        BY <2>4, <4>1 DEF OpenNeeds, Floor, HeaderLength
      <4>2. CASE f \in {"index", "fm"}
        <5>1. says[f] # 0
          BY <2>4, <4>2, <1>1 DEF OpenNeeds, HeaderLength, Headers, Growable, Types, FileTypes
        <5>2. says[f] > 2 /\ says[f] \in Nat
          BY <4>2, <5>1 DEF Headers, Growable, Types, FileTypes
        <5>3. QED BY <1>1, <2>4, <4>2, <5>1, <5>2 DEF OpenNeeds, Floor
      <4>3. QED BY <4>1, <4>2 DEF Files
    <3>2. QED BY <1>5, <2>1, <2>2, <2>4, <3>1 DEF Growing, OpensFile, Making
  <2>5. QED BY <1>6, <2>3, <2>4 DEF Passive
<1>7. CASE Access(p)
  <2>1. OnlyMoves(p) /\ UNCHANGED <<len, used, view, step, file>> /\ at'[p] \in {"make", "map"}
    BY <1>7, AccessActs DEF OnlyMoves
  <2>2. step[p] = 1
    BY <1>7, AccessActs DEF Sane
  <2>3. at'[p] = "map" /\ FileOf(p) = f => len[f] > 0
    BY <1>1, <1>7, AccessActs
  <2>4. QED BY <1>1, <1>3, <1>4, <1>5, <2>1, <2>2, <2>3 DEF Growing, OpensFile, Making, FileOf
<1>8. CASE Make(p)
  <2>1. OnlyMoves(p) /\ used' \subseteq used /\ step[p] \in 1 .. 3 /\ Making(p, FileOf(p))
    BY <1>8, MakeActs DEF Making
  <2>2. CASE f = FileOf(p)
    <3>1. len[f] >= step[p] - 1
      BY <1>3, <2>1, <2>2
    <3>2. CASE step[p] < 3
      BY <1>1, <1>2, <1>3, <1>4, <1>5, <1>8, <2>1, <2>2, <3>1, <3>2, MakeActs
         DEF Growing, OpensFile, Making, AtLeast
    <3>3. CASE step[p] = 3 /\ f \in Growable
      BY <1>1, <1>2, <1>3, <1>4, <1>5, <1>8, <2>1, <2>2, <3>1, <3>3, MakeActs
         DEF Growing, OpensFile, Making, AtLeast
    <3>4. CASE step[p] = 3 /\ f \notin Growable
      <4>1. at'[p] \notin {"make", "map", "grow"} /\ len'[f] = len[f] /\ view'[p][f] = Full(f)
        BY <1>8, <2>2, <3>4, MakeActs, AdvanceActs
      <4>2. len[f] >= Floor(f)
        BY <1>1, <3>1, <3>4 DEF Floor, Growable, Files
      <4>3. QED BY <1>2, <1>3, <1>4, <1>5, <2>1, <3>4, <4>1, <4>2 DEF Growing, OpensFile, Making
    <3>5. QED BY <2>1, <3>2, <3>3, <3>4
  <2>3. CASE f # FileOf(p)
    <3>1. len'[f] = len[f] /\ view'[p][f] = view[p][f]
      BY <1>8, <2>3, MakeActs
    <3>2. ~ Growing(p, f)' /\ ~ OpensFile(p, f)' /\ ~ Making(p, f)'
      BY <1>8, <2>1, <2>3, MakeActs, AdvanceActs DEF Growing, OpensFile, Making, FileOf
    <3>3. QED BY <1>3, <1>4, <1>5, <2>1, <3>1, <3>2
  <2>4. QED BY <2>2, <2>3
<1>9. ASSUME NEW g \in Growable, Grow(p, g)
      PROVE  /\ f \in used' => len'[f] > 0
             /\ \A q \in Proc : /\ view'[q][f] # 0 \/ Growing(q, f)' => len'[f] >= Floor(f)
                                /\ OpensFile(q, f)' => len'[f] > 0
                                /\ Making(q, f)' => len'[f] >= step'[q] - 1
                                /\ f \notin Growable => view'[q][f] \in {0, Full(f)}
  <2>1. /\ Grows(p) /\ at'[p] = "grow" /\ FileOf(p)' = g /\ view[p][g] # 0 /\ len' = len
        /\ view'[p][f] \in {0, view[p][f]} \/ (f = g /\ view'[p][f] = 2)
    BY <1>9, GrowActs
  <2>2. QED BY <1>3, <1>4, <1>5, <1>9, <2>1 DEF Grows, Growing, OpensFile, Making
<1>10. CASE GrowTruncate(p)
  <2>1. Grows(p) /\ UNCHANGED <<at, file, view>> /\ at[p] = "grow"
    BY <1>10, GrowTruncateActs
  <2>2. QED BY <1>2, <1>3, <1>4, <1>5, <2>1 DEF Grows, Growing, OpensFile, Making, FileOf
<1>11. CASE GrowRefused(p)
  <2>1. /\ Grows(p) /\ UNCHANGED <<len, view>> /\ at[p] = "grow"
        /\ at'[p] = "up" \/ UNCHANGED <<at, file>>
    BY <1>11, GrowRefusedActs
  <2>2. QED BY <1>2, <1>3, <1>4, <1>5, <2>1 DEF Grows, Growing, OpensFile, Making, FileOf
<1>12. CASE GrowStore(p)
  <2>1. /\ Grows(p) /\ len' = len /\ at[p] = "grow" /\ at'[p] = "up" /\ FileOf(p) \in Growable
        /\ Growing(p, FileOf(p))
        /\ f # FileOf(p) => view'[p][f] = view[p][f]
    BY <1>12, GrowStoreActs DEF Sane, Growing
  <2>2. QED BY <1>2, <1>3, <1>4, <1>5, <2>1 DEF Grows, Growing, OpensFile, Making
<1>13. QED BY <1>6, <1>7, <1>8, <1>9, <1>10, <1>11, <1>12, Kinds

LEMMA AloneNext ==
  ASSUME Types, Sane, Reached, MakerAlone, NEW p \in Proc, Acts(p)
  PROVE  MakerAlone'
<1> SUFFICES ASSUME NEW q \in Proc, NEW f \in Files, Making(q, f)', f \notin raced'
             PROVE  /\ f \notin used'
                    /\ len'[f] = step'[q] - 1
                    /\ f \in Growable /\ step'[q] = 3 => says'[f] = 3
                    /\ \A r \in Proc :
                         /\ view'[r][f] = 0 /\ ~ OpensFile(r, f)' /\ ~ Growing(r, f)'
                         /\ Making(r, f)' => r = q
  BY DEF MakerAlone
<1> DEFINE Alone(r) ==
      /\ f \notin used
      /\ len[f] = step[r] - 1
      /\ f \in Growable /\ step[r] = 3 => says[f] = 3
      /\ \A o \in Proc : /\ view[o][f] = 0 /\ ~ OpensFile(o, f) /\ ~ Growing(o, f)
                         /\ Making(o, f) => o = r
<1>1. \A r \in Proc : Making(r, f) /\ f \notin raced => Alone(r)
  BY DEF MakerAlone
<1>2. len[f] \in Nat /\ view \in [Proc -> [Files -> Nat]]
  BY DEF Types, FileTypes, ProcTypes
<1>3. CASE Make(p)
  <2>1. OnlyMoves(p) /\ raced' = raced /\ used' \subseteq used /\ step[p] \in 1 .. 3 /\ at[p] = "make"
    BY <1>3, MakeActs
  <2>2. CASE q = p
    <3>1. Making(p, f) /\ step[p] < 3 /\ step'[p] = step[p] + 1 /\ f = FileOf(p)
      BY <1>3, <2>1, <2>2, MakeActs, AdvanceActs DEF Making, FileOf
    <3>2. Alone(p)
      BY <1>1, <2>1, <3>1
    <3>3. len'[f] = step[p] /\ (f \in Growable /\ step[p] = 2 => says'[f] = 3)
      <4>1. len[f] = step[p] - 1
        BY <3>2
      <4>2. step[p] = 1 \/ step[p] = 2
        BY <2>1, <3>1
      <4>3. CASE step[p] = 1
        BY <1>3, <3>1, <4>1, <4>3, MakeActs DEF AtLeast
      <4>4. CASE step[p] = 2
        BY <1>3, <3>1, <4>1, <4>4, MakeActs DEF AtLeast
      <4>5. QED BY <4>2, <4>3, <4>4
    <3>4. \A r \in Proc : /\ view'[r][f] = 0 /\ ~ OpensFile(r, f)' /\ ~ Growing(r, f)'
                          /\ Making(r, f)' => r = p
      BY <1>3, <2>1, <3>1, <3>2, MakeActs DEF OnlyMoves, Making, OpensFile, Growing, FileOf
    <3>5. QED BY <2>1, <2>2, <3>1, <3>2, <3>3, <3>4
  <2>3. CASE q # p
    <3>1. Making(q, f) /\ step'[q] = step[q]
      BY <2>1, <2>3 DEF OnlyMoves, Making, FileOf
    <3>2. Alone(q) /\ FileOf(p) # f
      BY <1>1, <2>1, <2>3, <3>1 DEF Making
    <3>3. len'[f] = len[f] /\ says'[f] = says[f] /\ view'[p][f] = view[p][f]
      BY <1>3, <3>2, MakeActs
    <3>4. ~ OpensFile(p, f)' /\ ~ Growing(p, f)' /\ ~ Making(p, f)'
      BY <1>3, <2>1, <3>2, MakeActs, AdvanceActs DEF OpensFile, Growing, Making, FileOf
    <3>5. ASSUME NEW r \in Proc
          PROVE  /\ view'[r][f] = 0 /\ ~ OpensFile(r, f)' /\ ~ Growing(r, f)'
                 /\ Making(r, f)' => r = q
      <4>1. CASE r = p
        BY <3>2, <3>3, <3>4, <4>1 DEF OpensFile, Growing, Making, FileOf
      <4>2. CASE r # p
        BY <2>1, <3>2, <4>2 DEF OnlyMoves, OpensFile, Growing, Making, FileOf
      <4>3. QED BY <4>1, <4>2
    <3>6. f \notin used' /\ len'[f] = step'[q] - 1 /\ (f \in Growable /\ step'[q] = 3 => says'[f] = 3)
      BY <2>1, <3>1, <3>2, <3>3
    <3>7. QED BY <3>5, <3>6
  <2>4. QED BY <2>2, <2>3
<1>4. CASE Access(p)
  <2>1. /\ UNCHANGED <<len, says, used, view, file, step>> /\ at[p] = "access"
        /\ \A r \in Proc \ {p} : at'[r] = at[r]
        /\ at'[p] = IF len[FileOf(p)] = 0 THEN "make" ELSE "map"
        /\ raced \subseteq raced'
        /\ \A r \in Proc \ {p} : Making(r, FileOf(p)) => FileOf(p) \in raced'
    BY <1>4, AccessActs
  <2>2. CASE q = p
    <3>1. f = FileOf(p) /\ len[f] = 0 /\ step[p] = 1
      BY <2>1, <2>2 DEF Making, FileOf, Sane
    <3>2. f \notin used /\ \A r \in Proc : ~ OpensFile(r, f) /\ view[r][f] = 0 /\ ~ Growing(r, f)
      BY <3>1 DEF Reached, Floor
    <3>3. \A r \in Proc \ {p} : ~ Making(r, f)
      BY <2>1, <3>1
    <3>4. QED BY <2>1, <2>2, <3>1, <3>2, <3>3 DEF OpensFile, Growing, Making, FileOf
  <2>3. CASE q # p
    <3>1. Making(q, f) /\ f # FileOf(p) /\ f \notin raced
      BY <2>1, <2>3 DEF Making, FileOf
    <3>2. QED BY <1>1, <2>1, <2>3, <3>1 DEF OpensFile, Growing, Making, FileOf
  <2>4. QED BY <2>2, <2>3
<1>5. CASE Passive(p)
  <2>1. /\ OnlyMoves(p) /\ len' = len /\ says' = says /\ raced \subseteq raced'
        /\ at'[p] \notin {"make", "map", "grow"}
        /\ \A g \in used' : g \in used \/ (g \in Files /\ view[p][g] # 0)
        /\ view'[p][f] \in {0, view[p][f]} \/ OpensFile(p, f)
    BY <1>5 DEF Passive
  <2>2. Making(q, f) /\ step'[q] = step[q] /\ f \notin raced
    BY <2>1 DEF OnlyMoves, Making, FileOf
  <2>3. QED BY <1>1, <2>1, <2>2 DEF OnlyMoves, OpensFile, Growing, Making, FileOf
<1>6. ASSUME NEW g \in Growable, Grow(p, g) PROVE Making(q, f) /\ f \notin raced /\ Alone(q)' /\ q # p
  <2>1. /\ Grows(p) /\ UNCHANGED <<len, says>> /\ at'[p] = "grow" /\ FileOf(p)' = g
        /\ view[p][g] # 0
        /\ view'[p][f] \in {0, view[p][f]} \/ (f = g /\ view'[p][f] = 2)
    BY <1>6, GrowActs
  <2>2. Making(q, f) /\ step'[q] = step[q] /\ f \notin raced /\ q # p
    BY <2>1 DEF Grows, OnlyMoves, Making, FileOf
  <2>3. Alone(q) /\ f # g
    BY <1>1, <2>1, <2>2
  <2>4. ~ OpensFile(p, f)' /\ ~ Growing(p, f)' /\ ~ Making(p, f)' /\ view'[p][f] = 0
    BY <2>1, <2>3 DEF OpensFile, Growing, Making
  <2>5. QED BY <2>1, <2>2, <2>3, <2>4 DEF Grows, OnlyMoves, OpensFile, Growing, Making, FileOf
<1>7. CASE GrowTruncate(p) \/ GrowRefused(p) \/ GrowStore(p)
  <2>1. Grows(p) /\ Growing(p, FileOf(p)) /\ FileOf(p) \in Files
    BY <1>7, GrowTruncateActs, GrowRefusedActs, GrowStoreActs, FileOfFile DEF Growing
  <2>2. Making(q, f) /\ step'[q] = step[q] /\ f \notin raced /\ q # p
    BY <2>1 DEF Grows, OnlyMoves, Making, FileOf
  <2>3. Alone(q) /\ f # FileOf(p)
    BY <1>1, <2>1, <2>2
  <2>4. len'[f] = len[f] /\ says'[f] = says[f] /\ view'[p][f] = view[p][f]
    BY <1>7, <2>3, GrowTruncateActs, GrowRefusedActs, GrowStoreActs
  <2>5. at'[p] = "up" \/ (at'[p] = "grow" /\ file' = file)
    BY <1>7, GrowTruncateActs, GrowRefusedActs, GrowStoreActs
  <2>6. ~ OpensFile(p, f)' /\ ~ Growing(p, f)' /\ ~ Making(p, f)'
    BY <2>3, <2>5 DEF OpensFile, Growing, Making, FileOf
  <2>7. QED BY <2>1, <2>2, <2>3, <2>4, <2>6 DEF Grows, OnlyMoves, OpensFile, Growing, Making, FileOf
<1>8. QED BY <1>3, <1>4, <1>5, <1>6, <1>7, Kinds

LEMMA HalfMadeNext ==
  ASSUME Types, Sane, Reached, HalfMadeExplained, NEW p \in Proc, Acts(p)
  PROVE  HalfMadeExplained'
<1> SUFFICES ASSUME NEW f \in Files, len'[f] > 0, len'[f] < Full(f), f \notin cut'
             PROVE  \E q \in Proc : Making(q, f)' /\ step'[q] > 1
  BY DEF HalfMadeExplained
<1>1. /\ len[f] \in Nat /\ len'[f] \in Nat /\ len[f] < Full(f)
      /\ Full(f) = IF f \in Growable THEN 3 ELSE 2
  <2>1. len[f] \in Nat /\ len'[f] \in Nat /\ Full(f) = IF f \in Growable THEN 3 ELSE 2
    BY TypesNext DEF Types, FileTypes, Full
  <2>2. Full(f) <= len[f] => Full(f) <= len'[f]
    BY <2>1, KeepsLength
  <2>3. QED BY <2>1, <2>2
<1>2. CASE Make(p) /\ f = FileOf(p)
  <2>1. len[f] >= step[p] - 1 /\ step[p] \in 1 .. 3
    BY <1>2, MakeActs DEF Reached, Making
  <2>2. step[p] # 3
    BY <1>1, <1>2, <2>1, MakeActs DEF AtLeast
  <2>3. step'[p] > 1 /\ at'[p] = "make" /\ FileOf(p)' = f
    BY <1>2, <2>1, <2>2, MakeActs DEF FileOf
  <2>4. QED BY <2>3 DEF Making
<1>3. ASSUME len'[f] = len[f], OnlyMoves(p),
             Making(p, f) /\ step[p] > 1 => f \in cut', cut \subseteq cut'
      PROVE  \E q \in Proc : Making(q, f)' /\ step'[q] > 1
  <2>1. PICK q \in Proc : Making(q, f) /\ step[q] > 1
    BY <1>1, <1>3 DEF HalfMadeExplained
  <2>2. q # p
    BY <1>3, <2>1
  <2>3. QED BY <1>3, <2>1, <2>2 DEF OnlyMoves, Making, FileOf
<1>4. CASE Make(p) /\ f # FileOf(p)
  BY <1>3, <1>4, MakeActs DEF Making
<1>5. CASE Access(p)
  BY <1>3, <1>5, AccessActs DEF OnlyMoves, Making
<1>6. CASE Passive(p)
  BY <1>3, <1>6 DEF Passive, Making
<1>7. CASE (\E g \in Growable : Grow(p, g)) \/ GrowRefused(p) \/ GrowStore(p)
  BY <1>3, <1>7, GrowActs, GrowRefusedActs, GrowStoreActs DEF Grows, Making
<1>8. CASE GrowTruncate(p)
  <2>1. f # FileOf(p)
    BY <1>1, <1>8, GrowTruncateActs, Bounds DEF Sane, Types, ProcTypes
  <2>2. QED BY <1>3, <1>8, <2>1, GrowTruncateActs DEF Grows, Making
<1>9. QED BY <1>2, <1>4, <1>5, <1>6, <1>7, <1>8, Kinds

LEMMA LostNext ==
  ASSUME Types, Sane, MakerAlone, LostOnlyIfRaced, NEW p \in Proc, Acts(p)
  PROVE  LostOnlyIfRaced'
<1>1. CASE Make(p)
  BY <1>1, MakeActs DEF MakerAlone, Making, LostOnlyIfRaced
<1>2. CASE Access(p)
  BY <1>2, AccessActs DEF LostOnlyIfRaced
<1>3. CASE Passive(p)
  BY <1>3 DEF Passive, LostOnlyIfRaced
<1>4. CASE (\E f \in Growable : Grow(p, f)) \/ GrowTruncate(p) \/ GrowRefused(p) \/ GrowStore(p)
  BY <1>4, GrowActs, GrowTruncateActs, GrowRefusedActs, GrowStoreActs DEF Grows, LostOnlyIfRaced
<1>5. QED BY <1>1, <1>2, <1>3, <1>4, Kinds

LEMMA WellSizedNext ==
  ASSUME Types, Sane, Reached, MakerAlone, WellSized, NEW p \in Proc, Acts(p)
  PROVE  WellSized'
<1> SUFFICES ASSUME NEW f \in Growable, f \notin Upset', len'[f] > 0,
                    \A r \in Proc : ~ Making(r, f)'
             PROVE  /\ says'[f] > 2 /\ says'[f] <= len'[f]
                    /\ \A r \in Proc :
                         /\ view'[r][f] <= says'[f]
                         /\ Growing(r, f)' => /\ target'[r] >= says'[f]
                                              /\ f = "index" => target'[r] = says'[f] + 1
                                              /\ step'[r] = 2 => len'[f] = target'[r]
                                              /\ \A q \in Proc : Growing(q, f)' => q = r
  BY DEF WellSized
<1> DEFINE Fits == /\ says[f] > 2 /\ says[f] <= len[f]
                   /\ \A r \in Proc :
                        /\ view[r][f] <= says[f]
                        /\ Growing(r, f) => /\ target[r] >= says[f]
                                            /\ f = "index" => target[r] = says[f] + 1
                                            /\ step[r] = 2 => len[f] = target[r]
                                            /\ \A q \in Proc : Growing(q, f) => q = r
<1>1. /\ f \in Files /\ len[f] \in Nat /\ says[f] \in Nat
      /\ \A r \in Proc : view[r][f] \in Nat /\ target[r] \in Nat
  BY GrowableFiles, Bounds DEF Types, FileTypes, ProcTypes
<1>2. len[f] > 0 /\ f \notin Upset /\ (\A r \in Proc : ~ Making(r, f)) => Fits
  BY DEF WellSized
<1>3. ASSUME \A r \in Proc : ~ Making(r, f), Fits, OnlyMoves(p), UNCHANGED <<len, says>>,
             view'[p][f] \in {0, view[p][f], 2, says[f]}, ~ Growing(p, f)'
      PROVE  /\ says'[f] > 2 /\ says'[f] <= len'[f]
             /\ \A r \in Proc :
                  /\ view'[r][f] <= says'[f]
                  /\ Growing(r, f)' => /\ target'[r] >= says'[f]
                                       /\ f = "index" => target'[r] = says'[f] + 1
                                       /\ step'[r] = 2 => len'[f] = target'[r]
                                       /\ \A q \in Proc : Growing(q, f)' => q = r
  BY <1>1, <1>3 DEF OnlyMoves, Growing, FileOf
<1>4. CASE Make(p)
  <2>1. f \notin Upset /\ OnlyMoves(p) /\ at[p] = "make" /\ step[p] \in 1 .. 3
    BY <1>4, MakeActs DEF Upset
  <2>2. CASE f = FileOf(p)
    <3>1. step[p] = 3
      BY <1>4, <2>1, <2>2, MakeActs DEF Making, FileOf
    <3>2. /\ len[f] = 2 /\ says[f] = 3
          /\ \A r \in Proc : view[r][f] = 0 /\ ~ Growing(r, f)
      BY <1>1, <2>1, <2>2, <3>1 DEF MakerAlone, Making, Upset
    <3>3. /\ len'[f] = 3 /\ says'[f] = 3 /\ at'[p] = "map" /\ view'[p] = view[p]
      BY <1>4, <2>2, <3>1, <3>2, MakeActs DEF AtLeast
    <3>4. \A r \in Proc : view'[r][f] = 0 /\ ~ Growing(r, f)'
      BY <2>1, <3>2, <3>3 DEF OnlyMoves, Growing, FileOf
    <3>5. QED BY <3>3, <3>4
  <2>3. CASE f # FileOf(p)
    <3>1. len'[f] = len[f] /\ says'[f] = says[f] /\ view'[p][f] = view[p][f] /\ at'[p] # "grow"
      BY <1>1, <1>4, <2>3, MakeActs, AdvanceActs
    <3>2. \A r \in Proc : ~ Making(r, f)
      BY <2>1, <2>3 DEF OnlyMoves, Making, FileOf
    <3>3. Fits
      BY <1>2, <2>1, <3>1, <3>2
    <3>4. QED BY <2>1, <3>1, <3>3 DEF OnlyMoves, Growing, FileOf
  <2>4. QED BY <2>2, <2>3
<1>5. CASE Access(p)
  <2>1. /\ OnlyMoves(p) /\ UNCHANGED <<len, says, view>> /\ f \notin Upset
        /\ at[p] = "access" /\ at'[p] # "grow"
    BY <1>5, AccessActs DEF Upset, OnlyMoves
  <2>2. \A r \in Proc : ~ Making(r, f)
    BY <2>1 DEF OnlyMoves, Making, FileOf
  <2>3. QED BY <1>2, <1>3, <2>1, <2>2 DEF Growing
<1>6. CASE Passive(p)
  <2>1. /\ OnlyMoves(p) /\ UNCHANGED <<len, says>> /\ f \notin Upset /\ at'[p] # "grow"
        /\ view'[p][f] \in {0, view[p][f], says[f]}
        /\ at[p] = "make" /\ step[p] > 1 => FileOf(p) \in cut'
    BY <1>1, <1>6 DEF Passive, Upset
  <2>2. ~ Making(p, f)
    <3>1. SUFFICES ASSUME Making(p, f) PROVE FALSE
      OBVIOUS
    <3>2. step[p] = 1
      BY <2>1, <3>1 DEF Making, Upset, Types, ProcTypes
    <3>3. len[f] = 0
      BY <1>1, <2>1, <3>1, <3>2 DEF MakerAlone, Upset
    <3>4. QED BY <2>1, <3>3
  <2>3. \A r \in Proc : ~ Making(r, f)
    BY <2>1, <2>2 DEF OnlyMoves, Making, FileOf
  <2>4. QED BY <1>2, <1>3, <2>1, <2>3 DEF Growing
<1>7. ASSUME Grows(p), len[f] > 0
      PROVE  /\ OnlyMoves(p) /\ f \notin Upset /\ Fits
             /\ \A r \in Proc : ~ Making(r, f)
  <2>1. OnlyMoves(p) /\ f \notin Upset /\ at[p] # "make"
    BY <1>7 DEF Grows, Upset
  <2>2. \A r \in Proc : ~ Making(r, f)
    BY <2>1 DEF OnlyMoves, Making, FileOf
  <2>3. QED BY <1>2, <1>7, <2>1, <2>2
<1>8. ASSUME NEW g \in Growable, Grow(p, g)
      PROVE  /\ says'[f] > 2 /\ says'[f] <= len'[f]
             /\ \A r \in Proc :
                  /\ view'[r][f] <= says'[f]
                  /\ Growing(r, f)' => /\ target'[r] >= says'[f]
                                       /\ f = "index" => target'[r] = says'[f] + 1
                                       /\ step'[r] = 2 => len'[f] = target'[r]
                                       /\ \A q \in Proc : Growing(q, f)' => q = r
  <2>1. /\ Grows(p) /\ UNCHANGED <<len, says>> /\ FileOf(p)' = g /\ step'[p] = 1
        /\ target'[p] \in Targets(g)
        /\ view'[p][f] \in {0, view[p][f], 2}
        /\ g \notin crowded' => \A q \in Proc : ~ Growing(q, g)
    BY <1>1, <1>8, GrowActs
  <2>2. /\ OnlyMoves(p) /\ f \notin Upset /\ Fits
        /\ \A r \in Proc : ~ Making(r, f)
    BY <1>7, <2>1
  <2>3. CASE f # g
    <3>1. ~ Growing(p, f)'
      BY <2>1, <2>3 DEF Growing
    <3>2. QED BY <1>3, <2>1, <2>2, <3>1
  <2>4. CASE f = g
    <3>1. \A q \in Proc : ~ Growing(q, f)
      BY <2>1, <2>4 DEF Upset
    <3>2. target'[p] >= says[f] /\ (f = "index" => target'[p] = says[f] + 1)
      <4>1. f \notin raced \cup crowded
        BY <2>2 DEF Upset
      <4>2. f = "index" \/ f = "data" \/ f = "fm"
        BY DEF Growable
      <4>3. ASSUME NEW n \in Targets(f)
            PROVE  n >= says[f] /\ (f = "index" => n = says[f] + 1)
        <5>1. CASE f = "index"
          BY <1>1, <5>1 DEF Targets
        <5>2. CASE f = "data"
          BY <1>1, <5>2, Bounds DEF Targets
        <5>3. CASE f = "fm"
          BY <1>1, <4>1, <5>3 DEF Targets
        <5>4. QED BY <4>2, <5>1, <5>2, <5>3
      <4>4. QED BY <2>1, <2>4, <4>3
    <3>3. \A r \in Proc \ {p} : ~ Growing(r, f)' /\ view'[r] = view[r]
      BY <2>2, <3>1 DEF OnlyMoves, Growing, FileOf
    <3>4. view'[p][f] <= says[f]
      BY <1>1, <2>1, <2>2
    <3>5. QED BY <2>1, <2>2, <3>2, <3>3, <3>4
  <2>5. QED BY <2>3, <2>4
<1>9. CASE GrowTruncate(p)
  <2>1. /\ Grows(p) /\ UNCHANGED <<at, file, view, target, says>> /\ at[p] = "grow"
        /\ step'[p] = 2
        /\ len'[FileOf(p)] = target[p] /\ \A g \in Files \ {FileOf(p)} : len'[g] = len[g]
    BY <1>9, GrowTruncateActs
  <2>2. CASE f # FileOf(p)
    <3>1. len'[f] = len[f]
      BY <1>1, <2>1, <2>2
    <3>2. OnlyMoves(p) /\ Fits
      BY <1>7, <2>1, <3>1
    <3>3. QED BY <2>1, <2>2, <3>1, <3>2 DEF OnlyMoves, Growing, FileOf
  <2>3. CASE f = FileOf(p)
    <3>1. Growing(p, f)
      BY <2>1, <2>3 DEF Growing
    <3>2. OnlyMoves(p) /\ f \notin Upset /\ \A r \in Proc : ~ Making(r, f)
      BY <2>1 DEF Grows, Upset, OnlyMoves, Making, FileOf
    <3>3. len[f] > 0
      BY <1>1, <3>1 DEF Reached, Floor
    <3>4. Fits
      BY <1>2, <3>2, <3>3
    <3>5. QED BY <1>1, <2>1, <2>3, <3>1, <3>2, <3>4 DEF OnlyMoves, Growing, FileOf
  <2>4. QED BY <2>2, <2>3
<1>10. CASE GrowRefused(p)
  <2>1. /\ Grows(p) /\ UNCHANGED <<len, says, view>> /\ at[p] = "grow"
        /\ \/ FileOf(p) = "index" /\ "index" \in refused' /\ UNCHANGED <<at, file>>
           \/ at'[p] = "up"
    BY <1>10, GrowRefusedActs
  <2>2. ~ Growing(p, f)'
    BY <2>1 DEF Growing, FileOf, Upset
  <2>3. QED BY <1>3, <1>7, <2>1, <2>2
<1>11. CASE GrowStore(p)
  <2>1. /\ Grows(p) /\ len' = len /\ at[p] = "grow" /\ step[p] = 2 /\ at'[p] = "up"
        /\ says'[FileOf(p)] = SaysNow(p, FileOf(p))
        /\ \A g \in Files \ {FileOf(p)} : says'[g] = says[g]
        /\ view'[p][FileOf(p)] = target[p]
        /\ \A g \in Files \ {FileOf(p)} : view'[p][g] = view[p][g]
    BY <1>11, GrowStoreActs
  <2>2. /\ OnlyMoves(p) /\ f \notin Upset /\ Fits
        /\ \A r \in Proc : ~ Making(r, f)
    BY <1>7, <2>1
  <2>3. CASE f # FileOf(p)
    BY <1>1, <2>1, <2>2, <2>3 DEF OnlyMoves, Growing, FileOf
  <2>4. CASE f = FileOf(p)
    <3>1. Growing(p, f)
      BY <2>1, <2>4 DEF Growing
    <3>2. /\ target[p] >= says[f] /\ len[f] = target[p] /\ says'[f] = target[p]
          /\ \A q \in Proc \ {p} : ~ Growing(q, f)
      BY <2>1, <2>2, <2>4, <3>1 DEF SaysNow
    <3>3. \A r \in Proc : ~ Growing(r, f)'
      BY <2>1, <2>2, <3>2 DEF OnlyMoves, Growing, FileOf
    <3>4. \A r \in Proc : view'[r][f] <= target[p]
      BY <1>1, <2>1, <2>2, <2>4, <3>2 DEF OnlyMoves
    <3>5. QED BY <1>1, <2>1, <2>2, <3>2, <3>3, <3>4
  <2>5. QED BY <2>3, <2>4
<1>12. QED BY <1>4, <1>5, <1>6, <1>8, <1>9, <1>10, <1>11, Kinds

LEMMA MappedOrFailedNext ==
  ASSUME Types, Sane, Headers, MappedOrFailed, NEW p \in Proc, Acts(p)
  PROVE  MappedOrFailed'
<1> DEFINE Kept(r, f) == /\ Passed(r, f)' => view'[r][f] >= Full(f)
                         /\ Growing(r, f)' => view'[r][f] # 0
<1> SUFFICES ASSUME NEW r \in Proc, r \notin failed', NEW f \in Files
             PROVE  Kept(r, f)
  BY DEF MappedOrFailed
<1>1. /\ Full(f) \in {2, 3} /\ view[r][f] \in Nat /\ file[r] \in 1 .. 5
      /\ f \in Growable => Full(f) = 3 /\ says[f] \in Nat
  BY DEF Full, Types, FileTypes, ProcTypes
<1>2. r \notin failed => /\ Passed(r, f) => view[r][f] >= Full(f)
                         /\ Growing(r, f) => view[r][f] # 0
  BY DEF MappedOrFailed
<1>3. ASSUME OnlyMoves(p), r # p, r \notin failed PROVE Kept(r, f)
  BY <1>2, <1>3 DEF OnlyMoves, Passed, Growing, FileOf
<1>4. CASE Exit(p) \/ Kill(p) \/ \E g \in Files : Fault(p, g)
  <2>1. PICK how \in Down : Ends(p, how)
    BY <1>4 DEF Exit, Kill, Fault, Down
  <2>2. r # p => r \notin failed /\ OnlyMoves(p)
    BY <2>1, EndsActs
  <2>3. CASE r = p
    BY <2>1, <2>3, EndsActs DEF Passed, Growing, Down
  <2>4. QED BY <1>3, <2>2, <2>3
<1>5. CASE Start(p) \/ MakeDirectory(p)
  <2>1. /\ failed' = failed /\ view' = view /\ file' = file /\ at[p] \in Down \cup {"mkdir"}
        /\ at'[p] \in {"access", "mkdir", "off"}
        /\ OnlyMoves(p)
    BY <1>5, PassiveActs DEF Start, MakeDirectory, files, history, Passive, Types, ProcTypes
  <2>2. file[p] = 1
    BY <2>1 DEF Sane
  <2>3. CASE r = p
    BY <2>1, <2>2, <2>3 DEF Passed, Growing
  <2>4. QED BY <1>3, <2>1, <2>3
<1>6. CASE Access(p)
  <2>1. /\ failed' = failed /\ view' = view /\ file' = file /\ at[p] = "access"
        /\ at'[p] \in {"make", "map"}
        /\ OnlyMoves(p)
    BY <1>6, AccessActs DEF OnlyMoves
  <2>2. CASE r = p
    BY <1>2, <2>1, <2>2 DEF Passed, Growing
  <2>3. QED BY <1>3, <2>1, <2>2
<1>7. CASE Fail(p)
  <2>1. r # p /\ r \notin failed /\ OnlyMoves(p)
    BY <1>7, PassiveActs DEF Fail, Passive
  <2>2. QED BY <1>3, <2>1
<1>8. ASSUME r = p, r \notin failed, Advance(p), at[p] \in {"make", "map"},
             view'[p][FileOf(p)] >= Full(FileOf(p)),
             \A g \in Files : g # FileOf(p) => view'[p][g] = view[p][g]
      PROVE  Kept(r, f)
  <2>1. /\ at'[p] = IF file[p] = 5 THEN "up" ELSE "access"
        /\ file'[p] = IF file[p] = 5 THEN 5 ELSE file[p] + 1
    BY <1>8, AdvanceActs
  <2>2. CASE f = FileOf(p)
    BY <1>8, <2>1, <2>2 DEF Growing
  <2>3. CASE f # FileOf(p)
    <3>1. PICK i \in 1 .. 5 : Order[i] = f
      BY OrderFacts
    <3>2. i # file[p]
      BY <2>3, <3>1 DEF FileOf
    <3>3. Passed(p, f)' => i < file[p]
      <4>1. CASE file[p] = 5
        BY <3>2, <4>1
      <4>2. CASE file[p] # 5
        BY <1>1, <1>8, <2>1, <3>1, <3>2, <4>2, OrderFacts DEF Passed
      <4>3. QED BY <4>1, <4>2
    <3>4. i < file[p] => Passed(p, f)
      BY <1>8, <3>1 DEF Passed
    <3>5. ~ Growing(p, f)'
      BY <2>1 DEF Growing
    <3>6. QED BY <1>2, <1>8, <2>3, <3>3, <3>4, <3>5
  <2>4. QED BY <2>2, <2>3
<1>9. CASE Map(p)
  <2>1. /\ failed' = failed /\ Advance(p) /\ Mapped(p) /\ at[p] = "map"
        /\ len[FileOf(p)] >= OpenNeeds(FileOf(p)) /\ OnlyMoves(p)
    BY <1>9, PassiveActs DEF Map, history, Passive
  <2>2. view'[p][FileOf(p)] >= Full(FileOf(p))
    <3> DEFINE g == FileOf(p)
    <3>1. g \in Files /\ len[g] \in Nat /\ says[g] \in Nat
      BY FileOfFile DEF Types, FileTypes
    <3>2. CASE g \in Growable
      <4>1. len[g] >= HeaderLength
        BY <2>1, <3>1, <3>2 DEF OpenNeeds, Headers, HeaderLength, Growable
      <4>2. says[g] > 2
        BY <3>1, <3>2, <4>1 DEF Headers, HeaderLength
      <4>3. QED BY <2>1, <3>1, <3>2, <4>2, MappedActs DEF Full
    <3>3. CASE g \notin Growable
      BY <2>1, <3>3, MappedActs DEF Full
    <3>4. QED BY <3>2, <3>3
  <2>3. QED BY <1>3, <1>8, <2>1, <2>2, MappedActs
<1>10. CASE Make(p)
  <2> DEFINE g == FileOf(p)
  <2>1. failed' = failed /\ OnlyMoves(p) /\ at[p] = "make" /\ step[p] \in 1 .. 3 /\ g \in Files
    BY <1>10, MakeActs
  <2>2. CASE step[p] = 3 /\ g \notin Growable
    <3>1. Advance(p) /\ view'[p][g] = Full(g) /\ \A h \in Files : h # g => view'[p][h] = view[p][h]
      BY <1>10, <2>2, MakeActs
    <3>2. Full(g) \in {2, 3}
      BY DEF Full
    <3>3. QED BY <1>3, <1>8, <2>1, <3>1, <3>2
  <2>3. CASE ~ (step[p] = 3 /\ g \notin Growable)
    <3>1. at'[p] \in {"make", "map"} /\ file'[p] = file[p] /\ view'[p] = view[p]
      BY <1>10, <2>1, <2>3, MakeActs
    <3>2. r = p => Kept(r, f)
      BY <1>2, <2>1, <3>1 DEF Passed, Growing
    <3>3. QED BY <1>3, <2>1, <3>2
  <2>4. QED BY <2>2, <2>3
<1>11. CASE Use(p)
  BY <1>2, <1>11 DEF Use, procs, history, Passed, Growing, FileOf
<1>12. CASE IncRead(p) \/ IncStore(p)
  BY <1>2, <1>12 DEF IncRead, IncStore, Passed, Growing, FileOf
<1>13. ASSUME NEW g \in Growable, Grow(p, g) PROVE Kept(r, f)
  <2>1. /\ OnlyMoves(p) /\ failed \subseteq failed' /\ at[p] = "up"
        /\ at'[p] = "grow" /\ FileOf(p)' = g
        /\ p \notin failed' => view'[p][g] = 2 /\ \A h \in Files \ {g} : view'[p][h] = view[p][h]
    BY <1>13, GrowActs DEF Grows
  <2>2. CASE r = p
    BY <1>2, <2>1, <2>2 DEF Passed, Growing
  <2>3. QED BY <1>3, <2>1, <2>2
<1>14. CASE GrowTruncate(p)
  <2>1. OnlyMoves(p) /\ UNCHANGED <<at, file, view, failed>>
    BY <1>14, GrowTruncateActs DEF Grows
  <2>2. QED BY <1>2, <2>1 DEF Passed, Growing, FileOf
<1>15. CASE GrowRefused(p)
  <2>1. /\ OnlyMoves(p) /\ failed \subseteq failed' /\ view' = view
        /\ UNCHANGED <<at, file>> \/ p \in failed'
    BY <1>15, GrowRefusedActs DEF Grows
  <2>2. CASE r = p
    BY <1>2, <2>1, <2>2 DEF Passed, Growing, FileOf
  <2>3. QED BY <1>3, <2>1, <2>2
<1>16. CASE GrowStore(p)
  <2>1. /\ OnlyMoves(p) /\ failed' = failed /\ at[p] = "grow" /\ at'[p] = "up"
        /\ view'[p][FileOf(p)] = target[p]
        /\ \A h \in Files \ {FileOf(p)} : view'[p][h] = view[p][h]
        /\ target[p] > 3 /\ target[p] \in Nat
    BY <1>16, GrowStoreActs, Bounds DEF Grows, Sane, Types, ProcTypes
  <2>2. CASE r = p /\ f = FileOf(p)
    BY <1>1, <2>1, <2>2 DEF Growing
  <2>3. CASE r = p /\ f # FileOf(p)
    BY <1>2, <2>1, <2>3 DEF Passed, Growing
  <2>4. QED BY <1>3, <2>1, <2>2, <2>3
<1>17. QED BY <1>4, <1>5, <1>6, <1>7, <1>9, <1>10, <1>11, <1>12, <1>13, <1>14, <1>15, <1>16 DEF Acts

LEMMA CounterActs ==
  ASSUME Types, Sane, NEW p \in Proc, Acts(p), ~ Make(p), ~ IncRead(p), ~ IncStore(p)
  PROVE  /\ counter' = counter /\ given' = given /\ clash' = clash
         /\ raced \subseteq raced' /\ used \subseteq used'
         /\ \A q \in Proc : read'[q] = read[q] \/ read'[q] = NotReading
<1>1. CASE Start(p) \/ MakeDirectory(p) \/ Access(p) \/ Map(p)
  BY <1>1 DEF Start, MakeDirectory, Access, Map, files, history
<1>2. CASE Fail(p) \/ Use(p)
  BY <1>2 DEF Fail, Use, files, procs, history
<1>3. CASE Exit(p) \/ Kill(p) \/ \E f \in Files : Fault(p, f)
  BY <1>3 DEF Exit, Kill, Fault, Ends, files, history, Types, ProcTypes
<1>4. CASE (\E f \in Growable : Grow(p, f)) \/ GrowTruncate(p) \/ GrowRefused(p) \/ GrowStore(p)
  BY <1>4, GrowActs, GrowTruncateActs, GrowRefusedActs, GrowStoreActs DEF Grows
<1>5. QED BY <1>1, <1>2, <1>3, <1>4 DEF Acts

LEMMA CounterNext ==
  ASSUME Types, Sane, MakerAlone, CounterIsGiven, NEW p \in Proc, Acts(p)
  PROVE  CounterIsGiven'
<1> SUFFICES ASSUME "version" \notin raced'
             PROVE  /\ "version" \notin used' => given' = 0
                    /\ ~ clash' =>
                         /\ counter' = given'
                         /\ \A q \in Proc : read'[q] # NotReading => read'[q] = counter'
                         /\ \A q, r \in Proc :
                              read'[q] # NotReading /\ read'[r] # NotReading => q = r
  BY DEF CounterIsGiven
<1>1. CASE Make(p)
  <2> DEFINE f == FileOf(p)
  <2>1. /\ "version" \notin raced
        /\ read' = read /\ clash' = clash /\ given' = given
    BY <1>1 DEF Make
  <2>2. CASE f = "version"
    <3>1. Making(p, "version") /\ "version" \in Files
      BY <1>1, <2>2, MakeActs DEF Making
    <3>2. "version" \notin used /\ \A q \in Proc : view[q]["version"] = 0
      BY <2>1, <3>1 DEF MakerAlone
    <3>3. given = 0 /\ \A q \in Proc : read[q] = NotReading
      BY <2>1, <3>2 DEF CounterIsGiven, Sane
    <3>4. counter' = 0 \/ counter' = counter
      BY <1>1 DEF Make
    <3>5. ~ clash => counter = given
      BY <2>1 DEF CounterIsGiven
    <3>6. QED BY <2>1, <3>3, <3>4, <3>5
  <2>3. CASE f # "version"
    <3>1. counter' = counter
      <4>1. f \in Files /\ step[p] \in 1 .. 3
        BY FileOfFile DEF Types, ProcTypes
      <4>2. Makes(f)[step[p]] # "zero"
        BY <2>3, <4>1, MakesFacts DEF Files, Growable
      <4>3. QED BY <1>1, <4>2 DEF Make
    <3>2. "version" \in used => "version" \in used'
      BY <1>1, <2>3, MakeActs
    <3>3. QED BY <2>1, <3>1, <3>2 DEF CounterIsGiven
  <2>4. QED BY <2>2, <2>3
<1>2. CASE IncRead(p)
  <2>1. /\ counter' = counter /\ given' = given /\ used' = used /\ raced' = raced
        /\ read'[p] = counter /\ \A q \in Proc \ {p} : read'[q] = read[q]
    BY <1>2 DEF IncRead, files, Types, ProcTypes
  <2>2. ~ clash' => ~ clash /\ \A q \in Proc \ {p} : read[q] = NotReading
    BY <1>2 DEF IncRead, Sane
  <2>3. QED BY <2>1, <2>2 DEF CounterIsGiven
<1>3. CASE IncStore(p)
  <2>1. /\ counter' = read[p] + 1 /\ raced' = raced /\ clash' = clash
        /\ "version" \in used' /\ read[p] # NotReading
        /\ read'[p] = NotReading /\ \A q \in Proc \ {p} : read'[q] = read[q]
        /\ given' = AtLeast(given, read[p] + 1)
    BY <1>3 DEF IncStore, Types, ProcTypes
  <2>2. SUFFICES ASSUME ~ clash
                 PROVE  /\ counter' = given'
                        /\ \A q \in Proc : read'[q] = NotReading
    BY <2>1
  <2>3. /\ counter = given /\ read[p] = counter
        /\ \A q \in Proc \ {p} : read[q] = NotReading
    BY <2>1, <2>2 DEF CounterIsGiven
  <2>4. given \in Nat
    BY Bounds DEF Types, Counts
  <2>5. QED BY <2>1, <2>3, <2>4 DEF AtLeast
<1>4. CASE ~ Make(p) /\ ~ IncRead(p) /\ ~ IncStore(p)
  BY <1>4, CounterActs DEF CounterIsGiven
<1>5. QED BY <1>1, <1>2, <1>3, <1>4

-----------------------------------------------------------------------------
(* The theorems.                                                           *)

LEMMA NextGood == Good /\ [Next]_vars => Good'
<1> SUFFICES ASSUME Good, [Next]_vars PROVE Good'
  OBVIOUS
<1>1. CASE Next
  <2>1. PICK p \in Proc : Acts(p)
    BY <1>1, NextActs DEF Good
  <2>2. QED
    BY <2>1, TypesNext, SaneNext, HeadersNext, ReachedNext, AloneNext, HalfMadeNext, WellSizedNext,
       MappedOrFailedNext, CounterNext, LostNext, Zenon DEF Good
<1>2. CASE UNCHANGED vars
  <2>1. Types'
    BY <1>2, Zenon DEF vars, Good, Types, Truths, FileTypes, ProcTypes, Counts
  <2>2. Sane' /\ Headers' /\ LostOnlyIfRaced' /\ CounterIsGiven'
    BY <1>2, Zenon DEF vars, Good, Sane, FileOf, Headers, LostOnlyIfRaced, CounterIsGiven
  <2>3. Reached'
    BY <1>2 DEF vars, Good, Reached, Making, OpensFile, Growing, FileOf
  <2>4. MakerAlone'
    BY <1>2 DEF vars, Good, MakerAlone, Making, OpensFile, Growing, FileOf
  <2>5. HalfMadeExplained'
    BY <1>2 DEF vars, Good, HalfMadeExplained, Making, FileOf
  <2>6. WellSized'
    BY <1>2 DEF vars, Good, WellSized, Upset, Making, Growing, FileOf
  <2>7. MappedOrFailed'
    BY <1>2 DEF vars, Good, MappedOrFailed, Passed, Growing, FileOf
  <2>8. QED BY <2>1, <2>2, <2>3, <2>4, <2>5, <2>6, <2>7, Zenon DEF Good
<1>3. QED BY <1>1, <1>2

\* The inductive invariant of Entdb::Open, the expansions and IncVersion (entdb.cc:69,
\* sk_index.cc:325, data_pool.cc:87, fm_persistence_mgr.cc:222, version.cc:34): a maker nobody
\* races for its file is alone with it, a half-made file has a maker or was cut, and a file
\* nothing has upset is as long as its header says and its mappings reach.
THEOREM AlwaysGood == Spec => []Good
<1>1. QED BY InitGood, NextGood, PTL DEF Spec

\* Types, for every set of processes and all bounds.
THEOREM TypeCorrect == Spec => []TypeOK
<1>1. ASSUME Good PROVE TypeOK
  <2>1. /\ {dir, clash} \subseteq BOOLEAN
        /\ \A f \in Growable : says[f] = 0 <=> len[f] < HeaderLength
    BY <1>1 DEF Good, Types, Truths, Headers
  <2>2. QED BY <1>1, <2>1, OrderFacts DEF Good, Types, FileTypes, ProcTypes, Counts, Places, TypeOK
<1>2. QED BY AlwaysGood, <1>1, PTL

\* A late CreateFile stores over what a file holds, or cuts it off, only if two processes
\* raced for the file (data_pool.cc:20, version.cc:55), for every set of processes.
THEOREM NothingLostWithoutRace == Spec => []LostOnlyIfRaced
<1>1. Good => LostOnlyIfRaced
  BY DEF Good
<1>2. QED BY AlwaysGood, <1>1, PTL

\* IncVersion (version.cc:34) returns ever larger numbers as long as no two of its calls
\* overlap and nobody raced for the file, for every set of processes.
THEOREM NumbersGrow == Spec => VersionsGrow
<1>1. ASSUME Good, NEW p \in Proc, IncStore(p)
      PROVE  read[p] + 1 > given \/ clash \/ "version" \in raced
  <2>1. SUFFICES ASSUME ~ clash, "version" \notin raced PROVE read[p] + 1 > given
    OBVIOUS
  <2>2. read[p] = given /\ given \in Nat
    BY <1>1, <2>1, Bounds DEF IncStore, Good, CounterIsGiven, Types, Counts
  <2>3. QED BY <2>2
<1>2. Good /\ [Next]_vars =>
        [\A p \in Proc : IncStore(p) => \/ read[p] + 1 > given
                                        \/ clash
                                        \/ "version" \in raced]_vars
  BY <1>1
<1>3. QED BY AlwaysGood, <1>2, PTL DEF Spec, VersionsGrow

\* No file is shorter than what OpenFile and the operations touch (entdb.cc:89,
\* sk_index.cc:264, fm_persistence_mgr.cc:77), however often it was expanded and the processes
\* killed, unless its making was cut or is going on, it was raced for or expanded by two,
\* an expansion of the index was refused, or a call of the process itself has failed; for
\* every set of processes.
THEOREM EveryFaultExplained == Spec => FaultsExplained
<1>1. ASSUME Good, NEW p \in Proc, NEW f \in Files, Fault(p, f)
      PROVE  \/ f \in cut \cup refused \cup raced \cup crowded
             \/ \E q \in Proc : Making(q, f)
             \/ p \in failed /\ view[p][f] < Full(f)
  <2>1. /\ len[f] \in Nat /\ view[p][f] \in Nat /\ Full(f) \in {2, 3} /\ Floor(f) \in 1 .. 3
        /\ f \notin Growable => Full(f) = 2 /\ f \in {"version", "sync"}
    BY <1>1 DEF Good, Types, FileTypes, ProcTypes, Full, Floor, Growable, Files
  <2>2. f \in Growable /\ f \notin Upset /\ len[f] > 0 /\ (\A q \in Proc : ~ Making(q, f)) =>
          says[f] > 2 /\ says[f] <= len[f] /\ view[p][f] <= says[f]
    BY <1>1 DEF Good, WellSized
  <2>3. says[f] \in Nat
    BY <1>1 DEF Good, Types, FileTypes
  <2>4. CASE OpensFile(p, f) /\ len[f] < OpenNeeds(f)
    <3>1. len[f] > 0
      BY <1>1, <2>4 DEF Good, Reached
    <3>2. CASE f \in Growable
      BY <2>1, <2>2, <2>3, <2>4, <3>1, <3>2 DEF OpenNeeds, HeaderLength, Growable, Upset
    <3>3. CASE f \notin Growable
      BY <2>1, <2>4, <3>1, <3>3 DEF OpenNeeds
    <3>4. QED BY <3>2, <3>3
  <2>5. CASE at[p] = "up" /\ view[p][f] < Full(f)
    BY <1>1, <2>1, <2>5 DEF Good, MappedOrFailed, Passed
  <2>6. CASE at[p] = "up" /\ len[f] < view[p][f]
    <3>1. len[f] > 0
      BY <1>1, <2>1, <2>6 DEF Good, Reached
    <3>2. CASE f \in Growable
      BY <2>1, <2>2, <2>3, <2>6, <3>1, <3>2 DEF Upset
    <3>3. CASE f \notin Growable
      <4>1. len[f] < Full(f)
        BY <1>1, <2>1, <2>6, <3>3 DEF Good, Reached
      <4>2. QED BY <1>1, <3>1, <4>1 DEF Good, HalfMadeExplained
    <3>4. QED BY <3>2, <3>3
  <2>7. CASE Growing(p, f) /\ view[p][f] = 0
    BY <1>1, <2>1, <2>7 DEF Good, MappedOrFailed
  <2>8. QED BY <1>1, <2>4, <2>5, <2>6, <2>7 DEF Fault, Calls, OpensFile
<1>2. Good /\ [Next]_vars =>
        [\A p \in Proc, f \in Files : Fault(p, f) =>
           \/ f \in cut \cup refused \cup raced \cup crowded
           \/ \E q \in Proc : Making(q, f)
           \/ p \in failed /\ view[p][f] < Full(f)]_vars
  BY <1>1
<1>3. QED BY AlwaysGood, <1>2, PTL DEF Spec, FaultsExplained

\* A file that was left without its header, or, for the index and the free blocks, without
\* the rest of what CreateFile writes, is never completed, nor made again, nor mapped by
\* anyone (access in each OpenFile, sk_index.cc:253), for every set of processes.
THEOREM HalfMadeStaysHalfMade == Spec => HalfMadeForEver
<1>1. ASSUME Good, NEW f \in Files, HalfMade(f), NEW p \in Proc, Acts(p)
      PROVE  HalfMade(f)'
  <2>1. /\ len[f] \in Nat /\ len[f] > 0 /\ \A q \in Proc : ~ Making(q, f)
        /\ f \in Growable => len[f] < Floor(f)
    BY <1>1 DEF Good, Types, FileTypes, HalfMade, Unfinished, Floor, Growable, Files
  <2>2. ~ Growing(p, f) \/ f \notin Growable
    BY <1>1, <2>1, GrowableFiles DEF Good, Reached, Floor, Growable
  <2>3. len'[f] = len[f] /\ \A q \in Proc : ~ Making(q, f)'
    <3>1. CASE Passive(p)
      BY <1>1, <2>1, <3>1 DEF Passive, OnlyMoves, Making, FileOf
    <3>2. CASE Access(p)
      BY <1>1, <2>1, <3>2, AccessActs DEF Good, Making, FileOf
    <3>3. CASE Make(p)
      <4>1. FileOf(p) # f /\ at[p] = "make" /\ OnlyMoves(p) /\ len'[f] = len[f]
        BY <1>1, <2>1, <3>3, MakeActs DEF Good, Making
      <4>2. ~ Making(p, f)'
        BY <1>1, <3>3, <4>1, MakeActs, AdvanceActs DEF Good, Making, FileOf
      <4>3. QED BY <2>1, <4>1, <4>2 DEF OnlyMoves, Making, FileOf
    <3>4. CASE (\E g \in Growable : Grow(p, g)) \/ GrowRefused(p) \/ GrowStore(p)
      <4>1. Grows(p) /\ len' = len
        BY <1>1, <3>4, GrowActs, GrowRefusedActs, GrowStoreActs DEF Good
      <4>2. QED BY <2>1, <4>1 DEF Grows, OnlyMoves, Making, FileOf
    <3>5. CASE GrowTruncate(p)
      <4>1. Grows(p) /\ FileOf(p) \in Growable /\ Growing(p, FileOf(p))
        BY <1>1, <3>5, GrowTruncateActs DEF Good, Sane, Growing
      <4>2. f # FileOf(p)
        BY <2>2, <4>1
      <4>3. len'[f] = len[f]
        BY <1>1, <3>5, <4>2, GrowTruncateActs DEF Good
      <4>4. QED BY <2>1, <4>1, <4>3 DEF Grows, OnlyMoves, Making, FileOf
    <3>6. QED BY <1>1, <3>1, <3>2, <3>3, <3>4, <3>5, Kinds DEF Good
  <2>4. QED BY <1>1, <2>1, <2>3 DEF HalfMade, Unfinished
<1>2. Good /\ Good' /\ [Next]_vars =>
        [\A f \in Files : HalfMade(f) =>
           /\ HalfMade(f)'
           /\ f \in Growable => \A p \in Proc : view'[p][f] = 0]_vars
  <2>1. ASSUME Good, Good', Next, NEW f \in Files, HalfMade(f)
        PROVE  /\ HalfMade(f)'
               /\ f \in Growable => \A p \in Proc : view'[p][f] = 0
    <3>1. HalfMade(f)'
      BY <1>1, <2>1, NextActs DEF Good
    <3>2. f \in Growable => \A p \in Proc : view'[p][f] = 0
      <4>1. SUFFICES ASSUME f \in Growable, NEW p \in Proc PROVE view'[p][f] = 0
        OBVIOUS
      <4>2. len'[f] \in Nat /\ len'[f] < Floor(f)
        BY <2>1, <3>1, <4>1 DEF Good, Types, FileTypes, HalfMade, Unfinished, Floor, Growable
      <4>3. QED BY <2>1, <4>2 DEF Good, Reached, Floor
    <3>3. QED BY <3>1, <3>2
  <2>2. QED BY <2>1
<1>3. QED BY AlwaysGood, <1>2, PTL DEF Spec, HalfMadeForEver

-----------------------------------------------------------------------------
(* What SyncMgr gives out.                                                 *)

\* Once Open is past the index file it has the mutex and the condition for it, and in
\* the end all three objects, if SyncMgr has its file mapped.
PastIndex(p) ==
  \/ at[p] \in {"up", "grow"}
  \/ /\ at[p] \in {"access", "make", "map"}
     /\ file[p] > 3 \/ (file[p] = 3 /\ at[p] \in {"make", "map"})
PastFM(p) ==
  at[p] \in {"up", "grow"} \/ (at[p] \in {"make", "map"} /\ file[p] = 5)

GivenOut(o) ==
  /\ DOMAIN o \subseteq {"index_mutex", "index_cond", "fm_cond"}
  /\ "index_mutex" \in DOMAIN o => o.index_mutex = Object(3 * CondSize, MutexSize)
  /\ "index_cond" \in DOMAIN o =>
       o.index_cond = Object(0, CondSize) \/ o.index_cond = Object(3 * CondSize, CondSize)
  /\ "fm_cond" \in DOMAIN o => /\ "index_cond" \in DOMAIN o
                              /\ o.fm_cond = Object(4 * CondSize, CondSize)

ObjectsGood ==
  /\ DOMAIN objects = Proc
  /\ \A p \in Proc :
       /\ GivenOut(objects[p])
       /\ DOMAIN objects[p] # {} => len["sync"] > 0
       /\ PastIndex(p) /\ view[p]["sync"] # 0 =>
            {"index_mutex", "index_cond"} \subseteq DOMAIN objects[p]
       /\ PastFM(p) /\ view[p]["sync"] # 0 => "fm_cond" \in DOMAIN objects[p]

LEMMA Sizes == CondSize \in Nat \ {0} /\ MutexSize \in Nat \ {0} /\ MutexSize <= CondSize
BY SizesAssumption

\* The objects are asked for in Open's order, each from a fresh SyncMgr.
LEMMA AskedGood ==
  ASSUME Types, ObjectsGood, NEW p \in Proc, at[p] = "access"
  PROVE  /\ GivenOut(Asked(p, FileOf(p)))
         /\ view[p]["sync"] = 0 => Asked(p, FileOf(p)) = objects[p]
         /\ view[p]["sync"] # 0 =>
              /\ file[p] >= 3 => {"index_mutex", "index_cond"} \subseteq DOMAIN Asked(p, FileOf(p))
              /\ file[p] = 5 => "fm_cond" \in DOMAIN Asked(p, FileOf(p))
<1>1. file[p] \in 1 .. 5 /\ GivenOut(objects[p])
  BY DEF Types, ProcTypes, ObjectsGood
<1>2. CASE view[p]["sync"] = 0
  BY <1>1, <1>2 DEF Asked
<1>3. CASE view[p]["sync"] # 0 /\ file[p] = 3
  <2>1. Asked(p, FileOf(p)) =
          [index_mutex |-> mutexr(0, INDEX),
           index_cond  |-> condr(IF p \in MutexFirst THEN Moved(0) ELSE 0, INDEX)]
    BY <1>3 DEF Asked, FileOf, Order
  <2>2. mutexr(0, INDEX) = Object(3 * CondSize, MutexSize)
    BY Sizes DEF mutexr, Moved, INDEX, Object
  <2>3. condr(0, INDEX) = Object(0, CondSize) /\ condr(Moved(0), INDEX) = Object(3 * CondSize, CondSize)
    BY Sizes DEF condr, Moved, INDEX, Object
  <2>4. QED BY <1>3, <2>1, <2>2, <2>3 DEF GivenOut
<1>4. CASE view[p]["sync"] # 0 /\ file[p] = 5
  <2>1. Asked(p, FileOf(p)) =
          [name \in DOMAIN objects[p] \cup {"fm_cond"} |->
             IF name = "fm_cond" THEN condr(Moved(0), FM) ELSE objects[p][name]]
    BY <1>4 DEF Asked, FileOf, Order
  <2>2. condr(Moved(0), FM) = Object(4 * CondSize, CondSize)
    BY Sizes DEF condr, Moved, FM, Object
  <2>3. {"index_mutex", "index_cond"} \subseteq DOMAIN objects[p]
    BY <1>4 DEF ObjectsGood, PastIndex
  <2>4. QED BY <1>1, <1>4, <2>1, <2>2, <2>3 DEF GivenOut
<1>5. CASE view[p]["sync"] # 0 /\ file[p] \in {1, 2, 4}
  <2>1. Asked(p, FileOf(p)) = objects[p]
    BY <1>5 DEF Asked, FileOf, Order
  <2>2. QED BY <1>1, <1>5, <2>1 DEF ObjectsGood, PastIndex
<1>6. QED BY <1>1, <1>2, <1>3, <1>4, <1>5

LEMMA ObjectsNext ==
  ASSUME Good, ObjectsGood, NEW p \in Proc, Acts(p)
  PROVE  ObjectsGood'
<1> DEFINE Has(q) ==
      /\ GivenOut(objects[q])
      /\ DOMAIN objects[q] # {} => len["sync"] > 0
      /\ PastIndex(q) /\ view[q]["sync"] # 0 =>
           {"index_mutex", "index_cond"} \subseteq DOMAIN objects[q]
      /\ PastFM(q) /\ view[q]["sync"] # 0 => "fm_cond" \in DOMAIN objects[q]
<1>1. Types /\ Sane /\ "sync" \in Files /\ file[p] \in 1 .. 5
  BY DEF Good, Types, ProcTypes, Files
<1>2. len["sync"] > 0 => len'["sync"] > 0
  <2>1. len["sync"] \in Nat /\ len'["sync"] \in Nat /\ Full("sync") = 2
    BY <1>1, TypesNext DEF Types, FileTypes, Full, Growable
  <2>2. QED BY <1>1, <2>1, KeepsLength
<1>3. \A q \in Proc : Has(q)
  BY DEF ObjectsGood
<1>4. ASSUME OnlyMoves(p), objects' = objects,
             view'[p]["sync"] # 0 => /\ PastIndex(p)' => PastIndex(p) /\ view[p]["sync"] # 0
                                     /\ PastFM(p)' => PastFM(p) /\ view[p]["sync"] # 0
      PROVE  ObjectsGood'
  <2>1. ASSUME NEW q \in Proc PROVE Has(q)'
    <3>1. CASE q = p
      BY <1>2, <1>3, <1>4, <3>1
    <3>2. CASE q # p
      BY <1>2, <1>3, <1>4, <3>2 DEF OnlyMoves, PastIndex, PastFM
    <3>3. QED BY <3>1, <3>2
  <2>2. QED BY <1>4, <2>1 DEF ObjectsGood
<1>5. CASE Access(p)
  <2>1. /\ DOMAIN objects' = Proc /\ objects'[p] = Asked(p, FileOf(p))
        /\ \A q \in Proc \ {p} : objects'[q] = objects[q]
    BY <1>5 DEF Access, ObjectsGood
  <2>2. /\ UNCHANGED <<len, view, file>> /\ at[p] = "access" /\ at'[p] \in {"make", "map"}
        /\ \A q \in Proc \ {p} : at'[q] = at[q]
    BY <1>1, <1>5, AccessActs
  <2>3. view[p]["sync"] # 0 => len["sync"] > 0
    <3>1. len["sync"] \in Nat /\ Floor("sync") = 1
      BY <1>1 DEF Types, FileTypes, Floor
    <3>2. QED BY <1>1, <3>1 DEF Good, Reached
  <2>4. Has(p)'
    <3>1. DOMAIN objects'[p] # {} => len'["sync"] > 0
      BY <1>1, <1>3, <2>1, <2>2, <2>3, AskedGood
    <3>2. file'[p] = file[p] /\ view'[p]["sync"] = view[p]["sync"]
      BY <2>2
    <3>3. QED BY <1>1, <2>1, <2>2, <3>1, <3>2, AskedGood DEF PastIndex, PastFM
  <2>5. ASSUME NEW q \in Proc \ {p} PROVE Has(q)'
    BY <1>3, <2>1, <2>2 DEF PastIndex, PastFM
  <2>6. QED BY <2>1, <2>4, <2>5 DEF ObjectsGood
<1>6. CASE Exit(p) \/ Kill(p) \/ \E f \in Files : Fault(p, f)
  <2>1. PICK how \in Down : Ends(p, how)
    BY <1>6 DEF Exit, Kill, Fault, Down
  <2>2. GivenOut(Nothing) /\ DOMAIN Nothing = {}
    BY DEF GivenOut, Nothing
  <2>3. /\ DOMAIN objects' = Proc /\ objects'[p] = Nothing
        /\ \A q \in Proc \ {p} : objects'[q] = objects[q]
    BY <2>1 DEF Ends, ObjectsGood
  <2>4. at'[p] \in Down /\ OnlyMoves(p)
    BY <1>1, <2>1, EndsActs
  <2>5. Has(p)'
    BY <2>2, <2>3, <2>4 DEF PastIndex, PastFM, Down
  <2>6. ASSUME NEW q \in Proc \ {p} PROVE Has(q)'
    BY <1>2, <1>3, <2>3, <2>4 DEF OnlyMoves, PastIndex, PastFM
  <2>7. QED BY <2>3, <2>5, <2>6 DEF ObjectsGood
<1>7. CASE Make(p)
  <2>1. objects' = objects /\ OnlyMoves(p) /\ at[p] = "make" /\ step[p] \in 1 .. 3
    BY <1>1, <1>7, MakeActs DEF Make
  <2>2. CASE step[p] = 3 /\ FileOf(p) \notin Growable
    <3>1. file[p] \in {1, 2}
      BY <1>1, <2>2 DEF FileOf, Order, Growable
    <3>2. at'[p] = "access" /\ file'[p] <= 3
      BY <1>1, <1>7, <2>2, <3>1, MakeActs, AdvanceActs
    <3>3. ~ PastIndex(p)' /\ ~ PastFM(p)'
      BY <1>1, <3>1, <3>2, <1>7, <2>2, MakeActs, AdvanceActs DEF PastIndex, PastFM
    <3>4. QED BY <1>4, <2>1, <3>3
  <2>3. CASE ~ (step[p] = 3 /\ FileOf(p) \notin Growable)
    <3>1. at'[p] \in {"make", "map"} /\ file'[p] = file[p] /\ view'[p] = view[p]
      BY <1>1, <1>7, <2>1, <2>3, MakeActs
    <3>2. QED BY <1>4, <2>1, <3>1 DEF PastIndex, PastFM
  <2>4. QED BY <2>2, <2>3
<1>8. CASE Map(p) \/ Fail(p)
  <2>1. objects' = objects /\ Advance(p) /\ at[p] \in {"make", "map"} /\ OnlyMoves(p)
    BY <1>1, <1>8, PassiveActs DEF Map, Fail, Passive
  <2>2. file[p] > 2 => view'[p]["sync"] = view[p]["sync"]
    <3>1. file[p] > 2 => FileOf(p) # "sync"
      BY <1>1 DEF FileOf, Order
    <3>2. QED BY <1>1, <1>8, <3>1, MappedActs DEF Map, Fail
  <2>3. /\ at'[p] = IF file[p] = 5 THEN "up" ELSE "access"
        /\ file'[p] = IF file[p] = 5 THEN 5 ELSE file[p] + 1
    BY <1>1, <2>1, AdvanceActs
  <2>4. PastIndex(p)' => PastIndex(p) /\ file[p] > 2
    BY <1>1, <2>1, <2>3 DEF PastIndex
  <2>5. PastFM(p)' => PastFM(p) /\ file[p] > 2
    BY <1>1, <2>1, <2>3 DEF PastFM
  <2>6. QED BY <1>4, <2>1, <2>2, <2>4, <2>5
<1>9. CASE Start(p) \/ MakeDirectory(p)
  <2>1. /\ objects' = objects /\ file' = file /\ OnlyMoves(p)
        /\ at[p] \in Down \cup {"mkdir"} /\ at'[p] \in {"access", "mkdir", "off"}
    BY <1>1, <1>9, PassiveActs DEF Start, MakeDirectory, Passive, Types, ProcTypes
  <2>2. file[p] = 1
    BY <1>1, <2>1 DEF Sane
  <2>3. QED BY <1>4, <2>1, <2>2 DEF PastIndex, PastFM
<1>10. CASE Use(p) \/ IncRead(p) \/ IncStore(p)
  <2>1. UNCHANGED <<objects, at, file, view>> /\ OnlyMoves(p)
    BY <1>1, <1>10, PassiveActs DEF Use, IncRead, IncStore, procs, Passive
  <2>2. QED BY <1>4, <2>1 DEF PastIndex, PastFM
<1>11. CASE (\E f \in Growable : Grow(p, f)) \/ GrowTruncate(p) \/ GrowRefused(p) \/ GrowStore(p)
  <2>1. Grows(p)
    BY <1>1, <1>11, GrowActs, GrowTruncateActs, GrowRefusedActs, GrowStoreActs
  <2>2. view'[p]["sync"] # 0 => view[p]["sync"] # 0
    <3>1. "sync" \notin Growable
      BY DEF Growable
    <3>2. CASE \E f \in Growable : Grow(p, f)
      BY <1>1, <3>1, <3>2, GrowActs
    <3>3. CASE GrowTruncate(p) \/ GrowRefused(p)
      BY <1>1, <3>3, GrowTruncateActs, GrowRefusedActs
    <3>4. CASE GrowStore(p)
      BY <1>1, <3>1, <3>4, GrowStoreActs DEF Sane
    <3>5. QED BY <1>11, <3>2, <3>3, <3>4
  <2>3. QED BY <1>4, <2>1, <2>2 DEF Grows, PastIndex, PastFM
<1>12. QED BY <1>5, <1>6, <1>7, <1>8, <1>9, <1>10, <1>11 DEF Acts

\* The addresses mutexr and condr return (sync_mgr.cc:20, :39) are in what the sync file holds
\* unless its making was cut or is going on, and an open database none of whose calls failed
\* has all three, in whatever order SKIndex::Open's arguments are evaluated, when three mutexes are
\* at least as long as two conditions (with glibc they are 120 and 96 bytes).
THEOREM ObjectsStayInside ==
  ASSUME 2 * CondSize <= 3 * MutexSize
  PROVE  Spec => []ObjectsInFile
<1>1. Init => ObjectsGood
  <2>1. GivenOut(Nothing) /\ DOMAIN Nothing = {}
    BY DEF GivenOut, Nothing
  <2>2. QED BY <2>1 DEF Init, ObjectsGood, PastIndex, PastFM
<1>2. Good /\ ObjectsGood /\ [Next]_vars => ObjectsGood'
  <2>1. ASSUME Good, ObjectsGood, Next PROVE ObjectsGood'
    BY <2>1, NextActs, ObjectsNext DEF Good
  <2>2. ASSUME ObjectsGood, UNCHANGED vars PROVE ObjectsGood'
    BY <2>2 DEF vars, ObjectsGood, PastIndex, PastFM
  <2>3. QED BY <2>1, <2>2
<1>3. Good /\ ObjectsGood => ObjectsInFile
  <2> SUFFICES ASSUME Good, ObjectsGood, NEW p \in Proc
               PROVE  /\ \A name \in DOMAIN objects[p] :
                           \/ objects[p][name].to <= SyncBytes
                           \/ "sync" \in cut
                           \/ \E q \in Proc : Making(q, "sync")
                      /\ "fm_cond" \in DOMAIN objects[p] =>
                           Apart(objects[p].index_cond, objects[p].fm_cond)
                      /\ at[p] = "up" /\ p \notin failed =>
                           DOMAIN objects[p] = {"index_mutex", "index_cond", "fm_cond"}
    BY DEF ObjectsInFile
  <2>1. GivenOut(objects[p])
    BY DEF ObjectsGood
  <2>2. /\ 3 * CondSize + MutexSize <= FileSize /\ CondSize <= FileSize
        /\ 4 * CondSize <= FileSize /\ 5 * CondSize <= FileSize
    BY Sizes DEF FileSize
  <2>3. \A name \in DOMAIN objects[p] : objects[p][name].to <= FileSize
    BY <2>1, <2>2, Sizes DEF GivenOut, Object
  <2>4. "sync" \in Files /\ Full("sync") = 2 /\ len["sync"] \in Nat
    BY DEF Files, Full, Growable, Good, Types, FileTypes
  <2>5. DOMAIN objects[p] # {} =>
          SyncBytes = FileSize \/ "sync" \in cut \/ \E q \in Proc : Making(q, "sync")
    BY <2>4 DEF ObjectsGood, Good, HalfMadeExplained, SyncBytes
  <2>6. "fm_cond" \in DOMAIN objects[p] => Apart(objects[p].index_cond, objects[p].fm_cond)
    BY <2>1, Sizes DEF GivenOut, Object, Apart
  <2>7. ASSUME at[p] = "up", p \notin failed
        PROVE  DOMAIN objects[p] = {"index_mutex", "index_cond", "fm_cond"}
    <3>1. view[p]["sync"] # 0
      BY <2>4, <2>7 DEF Good, MappedOrFailed, Passed
    <3>2. QED BY <2>1, <2>7, <3>1 DEF ObjectsGood, GivenOut, PastIndex, PastFM
  <2>8. QED BY <2>3, <2>5, <2>6, <2>7
<1>4. QED BY <1>1, <1>2, <1>3, AlwaysGood, PTL DEF Spec

-----------------------------------------------------------------------------
(* One process.                                                            *)

\* With one process at a time no file is stored over or cut off by a late CreateFile, however
\* often it is killed while it makes or expands one (entdb.cc:69).
THEOREM AloneLosesNothing ==
  ASSUME \A p, q \in Proc : p = q
  PROVE  Spec => [](lost = {})
<1> DEFINE NoRace == raced \cap Files = {}
<1>1. Init => NoRace
  BY DEF Init
<1>2. Good /\ NoRace /\ [Next]_vars => NoRace'
  <2>1. ASSUME Good, NoRace, NEW p \in Proc, Acts(p) PROVE NoRace'
    <3>1. CASE Access(p)
      BY <2>1, <3>1 DEF Access
    <3>2. CASE MakeDirectory(p)
      BY <2>1, <3>2 DEF MakeDirectory, Files
    <3>3. CASE Start(p) \/ Make(p) \/ Map(p) \/ Fail(p) \/ Use(p) \/ IncRead(p) \/ IncStore(p)
      BY <2>1, <3>3 DEF Start, Make, Map, Fail, Use, IncRead, IncStore, history
    <3>4. CASE Exit(p) \/ Kill(p) \/ \E f \in Files : Fault(p, f)
      BY <2>1, <3>4 DEF Fault, Kill, Exit
    <3>5. CASE (\E f \in Growable : Grow(p, f)) \/ GrowTruncate(p) \/ GrowRefused(p) \/ GrowStore(p)
      BY <2>1, <3>5, GrowActs, GrowTruncateActs, GrowRefusedActs, GrowStoreActs DEF Grows, Good
    <3>6. QED BY <2>1, <3>1, <3>2, <3>3, <3>4, <3>5 DEF Acts
  <2>2. ASSUME NoRace, UNCHANGED vars PROVE NoRace'
    BY <2>2 DEF vars
  <2>3. QED BY <2>1, <2>2, NextActs DEF Good
<1>3. Good /\ NoRace => lost = {}
  BY DEF Good, LostOnlyIfRaced, Types, FileTypes
<1>4. QED BY <1>1, <1>2, <1>3, AlwaysGood, PTL DEF Spec
=============================================================================
