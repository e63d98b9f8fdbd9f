------------------------------ MODULE Startup ------------------------------
(***************************************************************************)
(* Entdb::Open (entdb.cc) step by step: the directory, then Version,       *)
(* SyncMgr, SKIndex, DataPool and the FMBMgr of MemoryMgr, each opening    *)
(* its file or making it first; and what the open database does to the     *)
(* lengths of the files.  Processes share the files and are killed at any  *)
(* step; open and ftruncate may fail, and Open looks at no status.         *)
(*                                                                         *)
(* A file is its length (len) and what its header says of it (says).       *)
(* Lengths are counted in the steps that lead to them: 0 is no file, 1 an  *)
(* empty one, 2 its first page, and every expansion leads to a greater     *)
(* one.  A mapping may be longer than its file; touching what is beyond    *)
(* the file's end kills the process (SIGBUS).                              *)
(*                                                                         *)
(* The version file (version.cc) is modelled with one of its counters.     *)
(* Its IncVersion has lost the file lock it was written for: reading and   *)
(* storing are two steps here.                                             *)
(***************************************************************************)
EXTENDS SyncMgr, FiniteSets, Sequences

CONSTANTS
  Proc,        \* the processes
  MaxEvents,   \* bound: so many kills, calls of open and ftruncate that fail, files
               \* opened while another process makes them, and expansions, together
  MaxLength,   \* bound: no expansion leads beyond this length
  MaxVersion,  \* bound: IncVersion is not called beyond this number
  MutexFirst   \* the processes whose compiler evaluates mutexr before condr

ASSUME StartupAssumption ==
  /\ {MaxEvents, MaxLength, MaxVersion} \subseteq Nat
  /\ MutexFirst \subseteq Proc

-----------------------------------------------------------------------------
(* The files.                                                              *)

Order == <<"version", "sync", "index", "data", "fm">>
Files == {"version", "sync", "index", "data", "fm"}

\* The files that have a header and are expanded.
Growable == {"index", "data", "fm"}

HeaderLength == 2

\* The length CreateFile gives a file.
Full(f) == IF f \in Growable THEN 3 ELSE 2

\* What each CreateFile does to its file, in order.  "create" leaves an empty file,
\* "header" and "body" write a page, "truncate" sets the length (with zeros).

\* The memcpy of zeros into the mapping comes last.
VersionMakes == <<"create", "truncate", "zero">>

\* Seeded bug: the length is not set.
SyncMakes_Short == <<"create", "init">>

SyncMakes == <<"create", "truncate", "init">>

\* Seeded bug: the length is not set.
IndexMakes_Short == <<"create", "header">>

IndexMakes == <<"create", "header", "truncate">>

\* Seeded bug: the header is written last.
DataMakes_HeaderLast == <<"create", "truncate", "header">>

DataMakes == <<"create", "header", "truncate">>

\* Seeded bug: the page of free blocks is not written.
FMMakes_NoBody == <<"create", "header">>

FMMakes == <<"create", "header", "body">>

Makes(f) ==
  CASE f = "version" -> VersionMakes
    [] f = "sync"    -> SyncMakes
    [] f = "index"   -> IndexMakes
    [] f = "data"    -> DataMakes
    [] f = "fm"      -> FMMakes

\* Version and SyncMgr keep the descriptor CreateFile has mapped; the others
\* close it and open the file again.
KeepsMapping(f) == f \in {"version", "sync"}

-----------------------------------------------------------------------------

VARIABLES
  dir,      \* does the directory exist?
  len,      \* file -> its length
  says,     \* file -> the length its header says, 0 without a header
  used,     \* the files something has been stored in since they were made
  counter,  \* a counter of the version file
  at,       \* process -> where it is: "off", "killed" (in Open), in Open ("mkdir",
            \* "access", "make", "map"), "up", or in an expansion ("grow")
  file,     \* process -> the place in Order of the file it is opening or expanding
  step,     \* process -> its next step of CreateFile or ExpandFile
  view,     \* process -> file -> how much of it is mapped, 0 for nothing
  target,   \* process -> the length its expansion leads to
  objects,  \* process -> what it got from SyncMgr: name -> Object
  read,     \* process -> what its IncVersion has read, or NotReading
  events,   \* the kills, failures, races and expansions so far
  (* history *)
  failed,   \* the processes that lack a mapping because a call of theirs went wrong
  cut,      \* the files whose making was cut by a kill or a failure
  refused,  \* the files whose header was changed after ftruncate refused
  raced,    \* the files (and "dir") opened by one process while another made it
  crowded,  \* the files two processes expanded at the same time
  lost,     \* the files whose contents a late CreateFile has stored over
  clash,    \* have two IncVersions overlapped?
  given     \* the largest number IncVersion has returned

files == <<dir, len, says, used, counter>>
procs == <<at, file, step, view, target, objects, read>>
history == <<failed, cut, refused, raced, crowded, lost, clash, given>>
vars == <<dir, len, says, used, counter, at, file, step, view, target, objects, read,
          events, failed, cut, refused, raced, crowded, lost, clash, given>>

NotReading == MaxVersion + 1
Nothing == [name \in {} |-> 0]
Unmapped == [f \in Files |-> 0]
Down == {"off", "killed"}

Init ==
  /\ dir = FALSE
  /\ len = [f \in Files |-> 0]
  /\ says = [f \in Files |-> 0]
  /\ used = {}
  /\ counter = 0
  /\ at = [p \in Proc |-> "off"]
  /\ file = [p \in Proc |-> 1]
  /\ step = [p \in Proc |-> 1]
  /\ view = [p \in Proc |-> Unmapped]
  /\ target = [p \in Proc |-> 0]
  /\ objects = [p \in Proc |-> Nothing]
  /\ read = [p \in Proc |-> NotReading]
  /\ events = 0
  /\ failed = {} /\ cut = {} /\ refused = {} /\ raced = {} /\ crowded = {} /\ lost = {}
  /\ clash = FALSE
  /\ given = 0

\* The file p is opening or expanding.
FileOf(p) == Order[file[p]]

Making(p, f) == at[p] = "make" /\ FileOf(p) = f
Growing(p, f) == at[p] = "grow" /\ FileOf(p) = f

\* What OpenFile touches of the file it has mapped: SKIndex and FMBMgr scan as far as
\* the header says, DataPool reads the header, the other two read nothing.
OpenNeeds(f) ==
  CASE f \in {"version", "sync"} -> 1
    [] f = "data"                -> HeaderLength
    [] f \in {"index", "fm"}     -> IF says[f] = 0 THEN HeaderLength ELSE says[f]

-----------------------------------------------------------------------------
(* Open.                                                                   *)

\* A new process calls Open and looks for the directory.
Start(p) ==
  /\ at[p] \in Down
  /\ at' = [at EXCEPT ![p] = IF dir THEN "access" ELSE "mkdir"]
  /\ UNCHANGED <<files, file, step, view, target, objects, read, events, history>>

\* mkdir fails when another process was faster, and Open gives up.
MakeDirectory(p) ==
  /\ at[p] = "mkdir"
  /\ dir' = TRUE
  /\ at' = [at EXCEPT ![p] = IF dir THEN "off" ELSE "access"]
  /\ raced' = IF dir THEN raced \cup {"dir"} ELSE raced
  /\ UNCHANGED <<len, says, used, counter, file, step, view, target, objects, read, events,
                 failed, cut, refused, crowded, lost, clash, given>>

\* What Open has asked SyncMgr for once it opens f.  The arguments of SKIndex::Open
\* are evaluated in an order the language leaves open.  Without a mapping data_ was
\* never set: what mutexr and condr return then is no place in the file.
Asked(p, f) ==
  CASE view[p]["sync"] = 0 -> objects[p]
    [] view[p]["sync"] # 0 /\ f = "index" ->
         [index_mutex |-> mutexr(0, INDEX),
          index_cond  |-> condr(IF p \in MutexFirst THEN Moved(0) ELSE 0, INDEX)]
    [] view[p]["sync"] # 0 /\ f = "fm" ->
         [name \in DOMAIN objects[p] \cup {"fm_cond"} |->
            IF name = "fm_cond" THEN condr(Moved(0), FM) ELSE objects[p][name]]
    [] OTHER -> objects[p]

\* Seeded bug: as the comment on FMBMgr::Open has it, a file that cannot be opened
\* is made.
Absent_OrShort(f) == len[f] < OpenNeeds(f)

\* Seeded bug: access's result is not looked at.
Absent_NotLooked(f) == TRUE

Absent(f) == len[f] = 0

\* access: an absent file is made, any other is opened as it is.
Access(p) ==
  /\ at[p] = "access"
  /\ at' = [at EXCEPT ![p] = IF Absent(FileOf(p)) THEN "make" ELSE "map"]
  /\ objects' = [objects EXCEPT ![p] = Asked(p, FileOf(p))]
  /\ raced' = IF \E q \in Proc \ {p} : Making(q, FileOf(p))
              THEN raced \cup {FileOf(p)} ELSE raced
  /\ events' = IF raced' = raced THEN events ELSE events + 1
  /\ events' <= MaxEvents
  /\ UNCHANGED <<files, file, step, view, target, read,
                 failed, cut, refused, crowded, lost, clash, given>>

\* Open goes on with the next component, whatever became of this one.
Advance(p) ==
  /\ at' = [at EXCEPT ![p] = IF file[p] = Len(Order) THEN "up" ELSE "access"]
  /\ file' = [file EXCEPT ![p] = IF @ = Len(Order) THEN @ ELSE @ + 1]

\* A file is mapped as far as its header says, or at its fixed length.
Mapped(p) ==
  view' = [view EXCEPT ![p][FileOf(p)] =
             IF FileOf(p) \in Growable THEN says[FileOf(p)] ELSE Full(FileOf(p))]

AtLeast(m, n) == IF m < n THEN n ELSE m

\* The length after a step of CreateFile.
Lengthened(f, what) ==
  CASE what = "create"   -> AtLeast(len[f], 1)
    [] what = "header"   -> AtLeast(len[f], HeaderLength)
    [] what = "body"     -> AtLeast(len[f], Full(f))
    [] what = "truncate" -> Full(f)
    [] OTHER             -> len[f]

\* Does the step destroy something that is in a file of this length?
Overwrites(f, what) ==
  \/ what \in {"header", "body", "zero", "init"}
  \/ what = "truncate" /\ len[f] > Full(f)

\* One step of CreateFile.
Make(p) ==
  LET f == FileOf(p)
      what == Makes(f)[step[p]]
      isLast == step[p] = Len(Makes(f))
  IN  /\ at[p] = "make"
      /\ len' = [len EXCEPT ![f] = Lengthened(f, what)]
      /\ says' = IF what = "header" THEN [says EXCEPT ![f] = Full(f)] ELSE says
      /\ IF f \in used /\ Overwrites(f, what)
         THEN used' = used \ {f} /\ lost' = lost \cup {f}
         ELSE UNCHANGED <<used, lost>>
      /\ counter' = IF what = "zero" THEN 0 ELSE counter
      /\ IF isLast
         THEN /\ step' = [step EXCEPT ![p] = 1]
              /\ IF KeepsMapping(f)
                 THEN Advance(p) /\ Mapped(p)
                 ELSE at' = [at EXCEPT ![p] = "map"] /\ UNCHANGED <<file, view>>
         ELSE step' = [step EXCEPT ![p] = @ + 1] /\ UNCHANGED <<at, file, view>>
      /\ UNCHANGED <<dir, target, objects, read, events,
                     failed, cut, refused, raced, crowded, clash, given>>

\* open, mmap, and the reads of OpenFile.
Map(p) ==
  /\ at[p] = "map"
  /\ len[FileOf(p)] >= OpenNeeds(FileOf(p))
  /\ Advance(p)
  /\ Mapped(p)
  /\ UNCHANGED <<files, step, target, objects, read, events, history>>

\* The making of a file is cut once the file exists.
Cut(p) == cut' = IF at[p] = "make" /\ step[p] > 1 THEN cut \cup {FileOf(p)} ELSE cut

\* open or ftruncate fails: CreateFile or OpenFile returns the error, Entdb::Open
\* goes on.
Fail(p) ==
  /\ events < MaxEvents
  /\ \/ at[p] = "map"
     \/ at[p] = "make" /\ Makes(FileOf(p))[step[p]] \in {"create", "truncate"}
  /\ events' = events + 1
  /\ Advance(p)
  /\ Cut(p)
  /\ failed' = failed \cup {p}
  /\ step' = [step EXCEPT ![p] = 1]
  /\ UNCHANGED <<files, view, target, objects, read,
                 refused, raced, crowded, lost, clash, given>>

-----------------------------------------------------------------------------
(* The open database.                                                      *)

\* The pool is not mapped since ExpandMemory has failed.  Put goes on to the index and
\* then writes to the pool.
Doomed(p) == view[p]["data"] = HeaderLength

\* p is in a call that touches f.
Calls(p, f) ==
  /\ at[p] = "up"
  /\ read[p] = NotReading
  /\ Doomed(p) => f \in {"index", "data"}

\* The stores of a Put or Delete within the length the files were made with, as far
\* as it comes.
Use(p) ==
  /\ used' = used \cup {f \in Growable : /\ Calls(p, f)
                                        /\ view[p][f] >= Full(f) /\ len[f] >= Full(f)}
  /\ used' # used
  /\ UNCHANGED <<dir, len, says, counter, procs, events, history>>

\* The lengths ExpandFile may choose.  The index is doubled, the pool grows by what the
\* request needs.  The header of the free blocks has two fields for its length: a kill may
\* have left the one behind that the new length is computed from, two processes may
\* have torn them further apart.
Targets(f) ==
  {n \in Full(f) + 1 .. MaxLength :
     CASE f = "index" -> n = says[f] + 1
       [] f = "data"  -> n > says[f]
       [] f = "fm"    -> n \in {says[f], says[f] + 1} \/ f \in raced \cup crowded}

\* ExpandFile begins with unmapping what the header says.  When another process has
\* expanded the file since, this is more than was mapped, and other mappings that lie
\* behind may go with it.  FMBMgr unmaps what it has mapped itself; after an expansion that
\* failed it does so again, whatever is there now.  (How full the file is is left open.)
Grow(p, f) ==
  /\ events < MaxEvents
  /\ Calls(p, f)
  /\ view[p][f] >= IF f = "fm" THEN HeaderLength ELSE Full(f)
  /\ events' = events + 1
  /\ \E n \in Targets(f) : target' = [target EXCEPT ![p] = n]
  /\ at' = [at EXCEPT ![p] = "grow"]
  /\ file' = [file EXCEPT ![p] = CHOOSE i \in DOMAIN Order : Order[i] = f]
  /\ \E gone \in SUBSET Files :
       /\ gone # {} => view[p][f] < IF f = "fm" THEN Full(f) ELSE says[f]
       /\ view' = [view EXCEPT ![p] =
                     [g \in Files |-> CASE g \in gone -> 0
                                        [] g = f /\ g \notin gone -> HeaderLength
                                        [] OTHER -> @[g]]]
       /\ failed' = IF gone = {} THEN failed ELSE failed \cup {p}
  /\ crowded' = IF \E q \in Proc : Growing(q, f) THEN crowded \cup {f} ELSE crowded
  /\ UNCHANGED <<files, step, objects, read, cut, refused, raced, lost, clash, given>>

\* ftruncate, which also makes shorter.
GrowTruncate(p) ==
  /\ at[p] = "grow" /\ step[p] = 1
  /\ len' = [len EXCEPT ![FileOf(p)] = target[p]]
  /\ step' = [step EXCEPT ![p] = 2]
  /\ UNCHANGED <<dir, says, used, counter, at, file, view, target, objects, read, events, history>>

\* ExpandFile returns.
Return(p) ==
  /\ at' = [at EXCEPT ![p] = "up"]
  /\ file' = [file EXCEPT ![p] = Len(Order)]
  /\ step' = [step EXCEPT ![p] = 1]
  /\ target' = [target EXCEPT ![p] = 0]

\* ftruncate fails.  SKIndex drops the status and goes on, the others return it, with
\* the file unmapped.
GrowRefused(p) ==
  /\ events < MaxEvents
  /\ at[p] = "grow" /\ step[p] = 1
  /\ events' = events + 1
  /\ IF FileOf(p) = "index"
     THEN /\ step' = [step EXCEPT ![p] = 2]
          /\ refused' = refused \cup {"index"}
          /\ UNCHANGED <<at, file, target, failed>>
     ELSE /\ Return(p)
          /\ failed' = failed \cup {p}
          /\ UNCHANGED refused
  /\ UNCHANGED <<files, view, objects, read,
                 cut, raced, crowded, lost, clash, given>>

\* SKIndex doubles what the header says now, the others store what they have computed.
SaysNow(p, f) == IF f = "index" THEN says[f] + 1 ELSE target[p]

\* The new length is mapped and stored in the header.
GrowStore(p) ==
  LET f == FileOf(p)
  IN  /\ at[p] = "grow" /\ step[p] = 2
      /\ view[p][f] # 0
      /\ says' = [says EXCEPT ![f] = SaysNow(p, f)]
      /\ view' = [view EXCEPT ![p][f] = target[p]]
      /\ Return(p)
      /\ UNCHANGED <<dir, len, used, counter, objects, read, events, history>>

\* IncVersion reads the counter ...
IncRead(p) ==
  /\ Calls(p, "version")
  /\ view[p]["version"] # 0 /\ len["version"] >= Full("version")
  /\ counter < MaxVersion
  /\ read' = [read EXCEPT ![p] = counter]
  /\ clash' = (clash \/ \E q \in Proc \ {p} : at[q] = "up" /\ read[q] # NotReading)
  /\ UNCHANGED <<files, at, file, step, view, target, objects, events,
                 failed, cut, refused, raced, crowded, lost, given>>

\* Seeded bug: the number read is stored, the next one returned.
IncStore_TooEarly(p) ==
  /\ at[p] = "up"
  /\ read[p] # NotReading
  /\ counter' = read[p]
  /\ read' = [read EXCEPT ![p] = NotReading]
  /\ used' = used \cup {"version"}
  /\ given' = AtLeast(given, read[p] + 1)
  /\ UNCHANGED <<dir, len, says, at, file, step, view, target, objects, events,
                 failed, cut, refused, raced, crowded, lost, clash>>

\* ... and stores and returns it plus one.
IncStore(p) ==
  /\ at[p] = "up"
  /\ read[p] # NotReading
  /\ counter' = read[p] + 1
  /\ read' = [read EXCEPT ![p] = NotReading]
  /\ used' = used \cup {"version"}
  /\ given' = AtLeast(given, read[p] + 1)
  /\ UNCHANGED <<dir, len, says, at, file, step, view, target, objects, events,
                 failed, cut, refused, raced, crowded, lost, clash>>

-----------------------------------------------------------------------------
(* How a process ends.                                                     *)

\* p is gone, and with it all it had in memory.
Ends(p, how) ==
  /\ at' = [at EXCEPT ![p] = how]
  /\ file' = [file EXCEPT ![p] = 1]
  /\ step' = [step EXCEPT ![p] = 1]
  /\ view' = [view EXCEPT ![p] = Unmapped]
  /\ target' = [target EXCEPT ![p] = 0]
  /\ objects' = [objects EXCEPT ![p] = Nothing]
  /\ read' = [read EXCEPT ![p] = NotReading]
  /\ failed' = failed \ {p}

\* p touches file f where it is not mapped or not there.  Nothing live touches the sync file.
Fault(p, f) ==
  /\ \/ at[p] = "map" /\ f = FileOf(p) /\ len[f] < OpenNeeds(f)
     \/ Calls(p, f) /\ f # "sync" /\ (view[p][f] < Full(f) \/ len[f] < view[p][f])
     \/ Growing(p, f) /\ step[p] = 2 /\ view[p][f] = 0
  /\ Ends(p, "off")
  /\ UNCHANGED <<files, events, cut, refused, raced, crowded, lost, clash, given>>

\* At any step.  What CreateFile and ExpandFile have done so far stays.
Kill(p) ==
  /\ events < MaxEvents
  /\ at[p] \notin Down
  /\ events' = events + 1
  /\ Ends(p, IF at[p] \in {"up", "grow"} THEN "off" ELSE "killed")
  /\ Cut(p)
  /\ UNCHANGED <<files, refused, raced, crowded, lost, clash, given>>

\* The process is done with the database.  What Close leaves in the files is what
\* was there.
Exit(p) ==
  /\ at[p] = "up"
  /\ read[p] = NotReading
  /\ ~ Doomed(p)
  /\ Ends(p, "off")
  /\ UNCHANGED <<files, events, cut, refused, raced, crowded, lost, clash, given>>

\* What the code of p does by itself once Open, IncVersion or ExpandFile is called.
Run(p) ==
  \/ MakeDirectory(p)
  \/ Access(p)
  \/ Make(p)
  \/ Map(p)
  \/ at[p] = "map" /\ Fault(p, FileOf(p))
  \/ GrowTruncate(p)
  \/ GrowStore(p)
  \/ IncStore(p)

Next ==
  \E p \in Proc :
    \/ Start(p)
    \/ Run(p)
    \/ Fail(p)
    \/ Use(p)
    \/ \E f \in Growable : Grow(p, f)
    \/ GrowRefused(p)
    \/ IncRead(p)
    \/ \E f \in Files : Fault(p, f)
    \/ Kill(p)
    \/ Exit(p)

\* The processes are scheduled fairly; nobody has to call anything.
Fairness == \A p \in Proc : WF_vars(Run(p))

Spec == Init /\ [][Next]_vars /\ Fairness
-----------------------------------------------------------------------------
(* Properties.                                                             *)

TypeOK ==
  /\ {dir, clash} \subseteq BOOLEAN
  /\ len \in [Files -> Nat] /\ says \in [Files -> Nat]
  /\ \A f \in Growable : says[f] = 0 <=> len[f] < HeaderLength
  /\ used \subseteq Files
  /\ counter \in 0 .. MaxVersion
  /\ at \in [Proc -> Down \cup {"mkdir", "access", "make", "map", "up", "grow"}]
  /\ file \in [Proc -> 1 .. Len(Order)]
  /\ step \in [Proc -> 1 .. 3]
  /\ view \in [Proc -> [Files -> Nat]]
  /\ target \in [Proc -> 0 .. MaxLength]
  /\ read \in [Proc -> 0 .. NotReading]
  /\ events \in 0 .. MaxEvents
  /\ failed \subseteq Proc
  /\ cut \subseteq Files /\ refused \subseteq {"index"} /\ crowded \subseteq Growable
  /\ raced \subseteq Files \cup {"dir"}
  /\ lost \subseteq Files
  /\ given \in 0 .. MaxVersion

\* The length below which a file cannot be opened or, for the two without a header, used.
Unfinished(f) == len[f] \in 1 .. IF f \in {"index", "fm"} THEN 2 ELSE 1

\* A file in the middle of whose CreateFile a process has ended.
HalfMade(f) == Unfinished(f) /\ \A p \in Proc : ~ Making(p, f)

\* access finds a half-made file: it is never completed nor made again, whoever
\* opens the database and however often, and no Open gets past it (past the version and sync
\* files, which it does not touch, it does).  A data file that has its header is no such
\* file: ExpandMemory completes it.
HalfMadeForEver ==
  [][\A f \in Files : HalfMade(f) =>
       /\ HalfMade(f)'
       /\ f \in Growable => \A p \in Proc : view'[p][f] = 0]_vars

\* A process is killed by a file that is too short, or not mapped, only if the making of
\* that file was cut by a kill or a failure, or is still going on; if the file was
\* opened while another process made it, or expanded by two at the same time; if an expansion
\* of the index was refused; or if a call of its own that maps the file went wrong.  In
\* particular neither a finished CreateFile nor a kill inside ExpandFile leaves a file short of
\* what its header says.
FaultsExplained ==
  [][\A p \in Proc, f \in Files : Fault(p, f) =>
       \/ f \in cut \cup refused \cup raced \cup crowded
       \/ \E q \in Proc : Making(q, f)
       \/ p \in failed /\ view[p][f] < Full(f)]_vars

\* What was stored in a file is stored over or cut off by a late CreateFile only if two
\* processes were opening the file while one of them made it: restarts and kills
\* of processes that take turns lose nothing.
LostOnlyIfRaced == lost \subseteq raced

\* IncVersion returns a number larger than all it has returned before, to whichever
\* process, unless two of its calls have overlapped or the file was opened
\* while another process made it.
VersionsGrow ==
  [][\A p \in Proc : IncStore(p) => \/ read[p] + 1 > given
                                    \/ clash
                                    \/ "version" \in raced]_vars

Apart(x, y) == x.to <= y.from \/ y.to <= x.from

\* The bytes the sync file really holds.
SyncBytes == IF len["sync"] >= Full("sync") THEN FileSize ELSE 0

\* The conditions and the mutex a process got from SyncMgr are inside what the file
\* holds unless its making was cut or is going on, its two conditions are apart, and
\* an open database has all three unless a call of its Open has failed, in whatever order
\* mutexr and condr were called.
ObjectsInFile ==
  \A p \in Proc :
    /\ \A name \in DOMAIN objects[p] :
         \/ objects[p][name].to <= SyncBytes
         \/ "sync" \in cut
         \/ \E q \in Proc : Making(q, "sync")
    /\ "fm_cond" \in DOMAIN objects[p] =>
         Apart(objects[p].index_cond, objects[p].fm_cond)
    /\ at[p] = "up" /\ p \notin failed =>
         DOMAIN objects[p] = {"index_mutex", "index_cond", "fm_cond"}

\* Open's work is done.
Opened(p) == at[p] = "up" /\ \A f \in Files : view[p][f] >= Full(f)

\* What keeps an Open from that.
Disturbed(p) ==
  \/ at[p] = "killed"
  \/ p \in failed
  \/ "dir" \in raced
  \/ Growable \cap (cut \cup refused \cup raced \cup crowded) # {}

\* An Open that is begun ends with every file mapped, unless the process is killed or a
\* call of its own fails, or one of the three files with a header was half-made, raced for,
\* or badly expanded.
OpenSucceeds ==
  \A p \in Proc : at[p] \in {"mkdir", "access", "make", "map"} ~> Opened(p) \/ Disturbed(p)
=============================================================================
