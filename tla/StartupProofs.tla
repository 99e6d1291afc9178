---------------------------- MODULE StartupProofs ----------------------------
(***************************************************************************)
(* Startup for any controllers, priorities, overrides and bounds: its      *)
(* types, that the device keeps its id and a URL written by hand stays     *)
(* (IdentityKept, ManualUrlKept), and that a sweep settles on the best     *)
(* controller that answered it (AdoptsBestOfSweep).                        *)
(*                                                                         *)
(* Neither of the first two is inductive: while a process rewrites the     *)
(* file, what the file said is only in that process's memory (base), and   *)
(* what it will say (draft) differs from that in one field.  Tidy follows  *)
(* the contents through the update.  That the service does not replace a   *)
(* URL written by hand needs, besides, that a process that is searching    *)
(* read the file before the URL was in it (Seeking).                       *)
(***************************************************************************)
EXTENDS Startup, SequenceTheorems, FiniteSetTheorems, WellFoundedInduction, TLAPS

\* The process has its configuration.
Loaded(p) == pc[p] # "off" /\ ~InLoad(p)

\* What the file says, or said before an update that is in progress, is right about the
\* device's id and the URL written by hand.
Right(f) ==
    /\ \A p \in Procs : Loaded(p) /\ mem[p].env.id = NoId => mem[p].cfg.id = f.id
    /\ byHand # NoUrl => f.url = byHand

\* The service has no controller and has not given up finding one.
Seeking ==
    \/ pc["service"] \in {"search", "await"}
    \/ pc["service"] \in {"merge", "create", "write"} /\ mem["service"].saving = "url"
    \/ /\ pc["service"] \in {"merge", "create", "write", "ready"}
       /\ mem["service"].cfg.url = NoUrl

\* What an update in progress will write: what it read, with the field it saves.
Draft(p) == [mem[p].base EXCEPT ![mem[p].saving] = mem[p].cfg[mem[p].saving]]

\* What a process holds in memory at each place.
WorkingAt(p) ==
    /\ pc[p] = "load" => mem[p].saving = "id"
    /\ pc[p] \notin {"off", "load"} => mem[p].cfg.id \in Ids
    /\ pc[p] \in {"create", "write"} => mem[p].draft = Draft(p)

Working == \A p \in Procs : WorkingAt(p)

\* Unless updates got mixed: one process at most is filling the file, the contents are right
\* in the file or in that process's memory, only an unusable id is replaced, and a service that
\* searches does so because there is no URL, or there was none when it read the file.
Tidy ==
    ~mixed =>
        /\ file # Broken
        /\ \A p, q \in Procs : pc[p] = "write" /\ pc[q] = "write" => p = q
        /\ \A p \in Procs : pc[p] = "write" => file = Default /\ Right(mem[p].base)
        /\ ~HalfWritten => Right(file)
        /\ \A p \in Procs :
              pc[p] \in {"create", "write"} /\ mem[p].saving = "id" => mem[p].base.id \notin Ids
        /\ Seeking /\ "service" \notin early => byHand = NoUrl

\* What a sweep has heard comes from controllers that ran during it.
Heard ==
    /\ \A i \in DOMAIN found : found[i] \in alive
    /\ pc["service"] # "await" => found = <<>>

-----------------------------------------------------------------------------
(* select_best *)

\* The priorities of the first n replies are r, and reply i is the best of them: the highest
\* priority, then the fastest.
BestOf(r, n, i) == \A j \in 1 .. n : r[j] < r[i] \/ (r[j] = r[i] /\ i =< j)

\* There is a best reply, however many there are: one reply is the best of itself, and of
\* the best so far and one more reply one is better.
LEMMA BestExists ==
    ASSUME NEW m \in Nat \ {0}, NEW r \in [1 .. m -> Int]
    PROVE  \E i \in 1 .. m : BestOf(r, m, i)
<1> DEFINE Bad == {n \in 1 .. m : ~\E i \in 1 .. n : BestOf(r, n, i)}
<1>1. m \in Bad \/ \E i \in 1 .. m : BestOf(r, m, i)
  OBVIOUS
<1> SUFFICES ASSUME Bad # {} PROVE FALSE
  BY <1>1
<1>2. PICK n \in Bad : \A k \in Bad : ~(k < n)
  <2>1. Bad \subseteq Nat
    OBVIOUS
  <2> HIDE DEF Bad
  <2>2. PICK n \in Bad : \A k \in Bad : ~(<<k, n>> \in OpToRel(<, Nat))
    BY <2>1, NatLessThanWellFounded, WFMin
  <2>3. \A k \in Bad : k < n => <<k, n>> \in OpToRel(<, Nat)
    BY <2>1 DEF OpToRel
  <2> QED
    BY <2>2, <2>3
<1>3. n \in 1 .. m /\ ~\E i \in 1 .. n : BestOf(r, n, i)
  OBVIOUS
<1>4. n # 1
  <2>1. n = 1 => BestOf(r, n, 1)
    BY DEF BestOf
  <2> QED
    BY <2>1, <1>3
<1>5. PICK i \in 1 .. n - 1 : BestOf(r, n - 1, i)
  BY <1>2, <1>3, <1>4
<1>6. i \in 1 .. m /\ i < n /\ r[i] \in Int /\ r[n] \in Int
  BY <1>3
<1>7. \A j \in 1 .. n : j = n \/ (j \in 1 .. n - 1 /\ r[j] \in Int)
  BY <1>3
<1>8. CASE r[n] =< r[i]
  <2>1. BestOf(r, n, i)
    BY <1>5, <1>6, <1>7, <1>8 DEF BestOf
  <2> QED
    BY <2>1, <1>3, <1>6
<1>9. CASE r[i] < r[n]
  <2> SUFFICES ASSUME NEW j \in 1 .. n PROVE r[j] < r[n] \/ (r[j] = r[n] /\ n =< j)
    <3>1. n \in 1 .. n
      BY <1>3
    <3> QED
      BY <1>3, <3>1 DEF BestOf
  <2>1. CASE j = n
    BY <2>1, <1>3, <1>6
  <2>2. CASE j \in 1 .. n - 1 /\ r[j] \in Int
    <3>1. r[j] < r[i] \/ r[j] = r[i]
      BY <2>2, <1>5, Zenon DEF BestOf
    <3> QED
      BY <2>2, <3>1, <1>6, <1>9
  <2> QED
    BY <1>7, <2>1, <2>2
<1> QED
  BY <1>6, <1>8, <1>9

\* select_best returns one of the replies, and no other has a higher priority.
LEMMA SelectsBest ==
    ASSUME NEW s \in Seq(Controllers), s # <<>>
    PROVE  /\ \E i \in DOMAIN s : SelectBest(s) = s[i]
           /\ \A j \in DOMAIN s : Priority[s[j]] =< Priority[SelectBest(s)]
<1> DEFINE b == CHOOSE i \in DOMAIN s : \A j \in DOMAIN s :
                   Priority[s[j]] < Priority[s[i]] \/ (Priority[s[j]] = Priority[s[i]] /\ i =< j)
<1>1. DOMAIN s = 1 .. Len(s) /\ \A j \in DOMAIN s : Priority[s[j]] \in Int
  BY StartupAssumption
<1>2. \E i \in DOMAIN s : \A j \in DOMAIN s :
         Priority[s[j]] < Priority[s[i]] \/ (Priority[s[j]] = Priority[s[i]] /\ i =< j)
  <2> DEFINE r == [j \in 1 .. Len(s) |-> Priority[s[j]]]
  <2>1. r \in [1 .. Len(s) -> Int] /\ Len(s) \in Nat \ {0}
    BY <1>1
  <2> HIDE DEF r
  <2>2. PICK i \in 1 .. Len(s) : BestOf(r, Len(s), i)
    BY <2>1, BestExists
  <2> QED
    BY <1>1, <2>2 DEF BestOf, r
<1>3. b \in DOMAIN s /\ \A j \in DOMAIN s :
         Priority[s[j]] < Priority[s[b]] \/ (Priority[s[j]] = Priority[s[b]] /\ b =< j)
  BY <1>2
<1>4. SelectBest(s) = s[b]
  BY DEF SelectBest
<1> HIDE DEF b
<1> QED
  BY <1>1, <1>3, <1>4

-----------------------------------------------------------------------------
(* Type correctness *)

\* An empty file, and the memory of a process that begins.
LEMMA BlankTypes == Default \in Files /\ Blank \in Memories /\ Default.id \notin Ids
BY StartupAssumption DEF Default, Blank, Files, Memories, Urls, Ids

\* The variables of the processes and of the service's life.
ProcOK ==
    /\ pc \in [Procs -> Places]
    /\ mem \in [Procs -> Memories]
    /\ alive \subseteq Controllers /\ found \in Seq(Valid)
    /\ main \in {"down", "starting", "pump", "stopping"}
    /\ (main = "down") <=> (pc["service"] = "off")
    /\ quit \in BOOLEAN
    /\ quit => main \in {"pump", "stopping"}
    /\ main # "starting" => ~InLoad("service")
    /\ early \subseteq Procs

\* A process that ends leaves nothing behind.
LEMMA EndedTypes ==
    ASSUME TypeOK, NEW p \in Procs, Ended(p)
    PROVE  ProcOK'
<1>1. pc' \in [Procs -> Places] /\ mem' \in [Procs -> Memories]
  BY BlankTypes DEF Ended, Goto, Remember, TypeOK, Places
<1>2. CASE p = "service"
  <2>1. pc'["service"] = "off" /\ main' = "down" /\ quit' = FALSE /\ alive' = {} /\ found' = <<>>
    BY <1>2 DEF Ended, Goto, TypeOK, Procs
  <2>2. found' \in Seq(Valid)
    BY <2>1
  <2>3. ~InLoad("service")'
    BY <2>1 DEF InLoad
  <2>4. early' \subseteq Procs
    BY DEF Ended, TypeOK
  <2> QED
    BY <1>1, <2>1, <2>2, <2>3, <2>4 DEF ProcOK
<1>3. CASE p = "cli"
  BY <1>1, <1>3 DEF Ended, Goto, Remember, TypeOK, ProcOK, Procs, InLoad, dvars, Places
<1> QED
  BY <1>2, <1>3 DEF Procs

\* A process that is running goes on, and the service's main thread does not.
LEMMA MoveTypes ==
    ASSUME TypeOK, NEW p \in Procs, NEW l \in Places \ {"off"}, NEW m \in Memories,
           pc[p] # "off", Goto(p, l), Remember(p, m), UNCHANGED <<main, quit, early>>,
           alive' \subseteq Controllers, found' \in Seq(Valid),
           p = "service" /\ main # "starting" =>
               l # "load" /\ (l \in {"merge", "create", "write"} => m.saving # "id")
    PROVE  ProcOK'
<1>1. /\ pc' \in [Procs -> Places] /\ mem' \in [Procs -> Memories]
      /\ pc'[p] = l /\ mem'[p] = m
      /\ \A q \in Procs \ {p} : pc'[q] = pc[q] /\ mem'[q] = mem[q]
  BY DEF Goto, Remember, TypeOK
<1>2. CASE p = "service"
  BY <1>1, <1>2 DEF TypeOK, ProcOK, Procs, InLoad
<1>3. CASE p = "cli"
  <2>1. pc'["service"] = pc["service"] /\ mem'["service"] = mem["service"]
    BY <1>1, <1>3 DEF Procs
  <2> QED
    BY <1>1, <2>1 DEF TypeOK, ProcOK, InLoad
<1> QED
  BY <1>2, <1>3 DEF Procs

\* persist_* leaves the rest of what a process knows alone.
LEMMA KeptTypes ==
    ASSUME TypeOK, NEW p \in Procs
    PROVE  /\ Kept(p) \in Memories
           /\ Kept(p).env = mem[p].env
           /\ Kept(p).cfg = mem[p].cfg
           /\ Kept(p).saving = "id"
BY BlankTypes DEF Kept, TypeOK, Memories

\* persist_* has succeeded.
LEMMA SavedTypes ==
    ASSUME TypeOK, NEW p \in Procs, pc[p] = "write", Saved(p)
    PROVE  ProcOK'
<1>1. CASE mem[p].saving = "url" /\ p = "cli"
  BY <1>1, EndedTypes DEF Saved
<1>2. CASE ~(mem[p].saving = "url" /\ p = "cli")
  <2>1. /\ Goto(p, IF mem[p].saving = "id" THEN "ready" ELSE "join")
        /\ Remember(p, Kept(p))
        /\ UNCHANGED svars
    BY <1>2 DEF Saved
  <2> QED
    BY <2>1, KeptTypes DEF Goto, Remember, svars, dvars, TypeOK, ProcOK, InLoad, Procs, Places
<1> QED
  BY <1>1, <1>2

\* persist_* has failed.
LEMMA SaveFailedTypes ==
    ASSUME TypeOK, NEW p \in Procs, pc[p] # "off", SaveFailed(p)
    PROVE  ProcOK'
<1>1. CASE mem[p].saving = "url" /\ p = "service"
  <2>1. Goto(p, "join") /\ Remember(p, Kept(p)) /\ UNCHANGED svars
    BY <1>1 DEF SaveFailed
  <2> QED
    BY <1>1, <2>1, KeptTypes DEF Goto, Remember, svars, dvars, TypeOK, ProcOK, InLoad, Procs, Places
<1>2. CASE ~(mem[p].saving = "url" /\ p = "service")
  BY <1>2, EndedTypes DEF SaveFailed
<1> QED
  BY <1>1, <1>2

\* One field of a file is replaced.
LEMMA UpdateTypes ==
    ASSUME NEW f \in Files, NEW c \in Files, NEW field \in {"id", "url"}
    PROVE  /\ [f EXCEPT ![field] = c[field]] \in Files
           /\ field = "id" => /\ [f EXCEPT ![field] = c[field]].id = c.id
                              /\ [f EXCEPT ![field] = c[field]].url = f.url
           /\ field = "url" => /\ [f EXCEPT ![field] = c[field]].id = f.id
                               /\ [f EXCEPT ![field] = c[field]].url = c.url
<1>1. CASE field = "id"
  BY <1>1 DEF Files
<1>2. CASE field = "url"
  BY <1>2 DEF Files
<1> QED
  BY <1>1, <1>2

\* What Load can leave the process with.
LEMMA LoadTypes ==
    ASSUME TypeOK, NEW p \in Procs, Load(p)
    PROVE  ProcOK' /\ ids' \in 0 .. MaxId
<1> DEFINE id == First(mem[p].env.id, file.id, NoId)
           url == First(mem[p].env.url, file.url, NoUrl)
<1>0. pc[p] = "load"
  BY DEF Load
<1>1. CASE file = Broken /\ Ended(p) /\ UNCHANGED ids
  BY <1>1, EndedTypes DEF TypeOK
<1>2. CASE file # Broken
  <2>1. file \in Files /\ mem[p] \in Memories
    BY <1>2 DEF TypeOK
  <2>2. url \in Urls
    BY <2>1 DEF First, Files, Memories
  <2>3. ASSUME NEW i \in Ids
        PROVE  [mem[p] EXCEPT !.cfg = [id |-> i, url |-> url]] \in Memories
    BY <2>1, <2>2 DEF Memories, Files
  <2>4. CASE /\ id \in Ids
             /\ Remember(p, [mem[p] EXCEPT !.cfg = [id |-> id, url |-> url]])
             /\ Goto(p, "ready")
             /\ UNCHANGED <<svars, ids>>
    <3>1. UNCHANGED <<main, quit, early, alive, found, ids>>
      BY <2>4 DEF svars, dvars
    <3>2. ProcOK'
      BY <1>0, <2>3, <2>4, <3>1, MoveTypes DEF TypeOK, Places
    <3> QED
      BY <3>1, <3>2 DEF TypeOK
  <2>5. CASE /\ ids < MaxId
             /\ ids' = ids + 1
             /\ Remember(p, [mem[p] EXCEPT !.cfg = [id |-> ids', url |-> url]])
             /\ Goto(p, "merge")
             /\ UNCHANGED svars
    <3>1. PICK i \in Int : i = ids'
      BY <2>5, StartupAssumption DEF TypeOK
    <3>2. i \in Ids /\ ids' \in 0 .. MaxId
      BY <2>5, <3>1, StartupAssumption DEF TypeOK, Ids
    <3>3. UNCHANGED <<main, quit, early, alive, found>>
      BY <2>5 DEF svars, dvars
    <3>4. p = "service" => main = "starting"
      BY <1>0 DEF TypeOK, InLoad
    <3> HIDE DEF url
    <3>5. ProcOK'
      BY <1>0, <2>3, <2>5, <3>1, <3>2, <3>3, <3>4, MoveTypes DEF TypeOK, Places
    <3> QED
      BY <3>2, <3>5
  <2> QED
    BY <1>2, <2>4, <2>5 DEF Load
<1> QED
  BY <1>1, <1>2 DEF Load

\* A step of process p.
LEMMA ProcessTypes ==
    ASSUME TypeOK, NEW p \in Procs, Process(p)
    PROVE  TypeOK'
<1> USE StartupAssumption, FilesAssumption
<1>1. ASSUME NEW e \in Overrides[p], Start(p, e) PROVE TypeOK'
  <2>1. e \in Files /\ [Blank EXCEPT !.env = e] \in Memories
    BY BlankTypes DEF Memories
  <2>2. mem' \in [Procs -> Memories]
    BY <1>1, <2>1 DEF Start, Remember, TypeOK
  <2> QED
    BY <1>1, <2>1, <2>2 DEF Start, Goto, Remember, fvars, evars, dvars, TypeOK, InLoad, Procs, Places
<1>2. CASE Load(p)
  BY <1>2, LoadTypes DEF Load, evars, TypeOK, ProcOK
<1>3. CASE Merge(p)
  <2>1. CASE file = Broken /\ SaveFailed(p)
    BY <1>3, <2>1, SaveFailedTypes DEF Merge, evars, TypeOK, ProcOK
  <2>2. CASE file # Broken
    <3>1. file \in Files /\ mem[p] \in Memories /\ mem[p].cfg \in Files
          /\ mem[p].saving \in {"id", "url"}
      BY <2>2 DEF TypeOK, Memories
    <3>2. Merged(p) \in Files
      BY <3>1, UpdateTypes DEF Merged
    <3> DEFINE m == [mem[p] EXCEPT !.draft = Merged(p), !.base = file]
    <3>3. m \in Memories /\ m.saving = mem[p].saving
      BY <3>1, <3>2 DEF Memories
    <3>4. /\ Goto(p, "create") /\ Remember(p, m) /\ pc[p] = "merge"
          /\ UNCHANGED <<main, quit, early, alive, found, file, byHand, up, events, ids>>
          /\ mixed' \in BOOLEAN
      BY <1>3, <2>2 DEF Merge, TypeOK, svars, dvars, evars
    <3>5. p = "service" /\ main # "starting" => m.saving # "id"
      BY <3>3, <3>4 DEF TypeOK, InLoad
    <3> HIDE DEF m
    <3>6. ProcOK'
      BY <3>3, <3>4, <3>5, MoveTypes DEF TypeOK, Places
    <3> QED
      BY <3>4, <3>6 DEF TypeOK, ProcOK
  <2> QED
    BY <1>3, <2>1, <2>2 DEF Merge
<1>4. CASE Create(p)
  <2>1. CASE SaveFailed(p) /\ UNCHANGED <<file, mixed>>
    BY <1>4, <2>1, SaveFailedTypes DEF Create, evars, TypeOK, ProcOK
  <2>2. CASE /\ file' = Default
             /\ Goto(p, "write")
             /\ mixed' = (mixed \/ HalfWritten \/ file # mem[p].base)
             /\ UNCHANGED <<mem, svars>>
    BY <1>4, <2>2, BlankTypes DEF Create, Goto, svars, dvars, evars, TypeOK, InLoad, Procs, Places
  <2> QED
    BY <1>4, <2>1, <2>2 DEF Create
<1>5. CASE Write(p)
  <2>1. mem[p].draft \in Files
    BY DEF TypeOK, Memories
  <2>2. /\ byHand' \in Urls /\ mixed' \in BOOLEAN
        /\ file' \in Files \cup {Broken} /\ UNCHANGED <<evars, ids>> /\ pc[p] = "write"
    BY <1>5, <2>1 DEF Write, TypeOK, Urls
  <2>3. CASE Saved(p)
    BY <2>2, <2>3, SavedTypes DEF evars, TypeOK, ProcOK
  <2>4. CASE SaveFailed(p)
    BY <2>2, <2>4, SaveFailedTypes DEF evars, TypeOK, ProcOK
  <2> QED
    BY <1>5, <2>3, <2>4 DEF Write
<1>6. CASE Crash(p)
  <2>1. events' \in 0 .. MaxEvents
    BY <1>6 DEF Crash, Event, TypeOK
  <2>2. file' \in Files \cup {Broken} /\ mixed' \in BOOLEAN
    BY <1>6 DEF Crash, TypeOK
  <2> QED
    BY <1>6, <2>1, <2>2, EndedTypes DEF Crash, TypeOK, ProcOK
<1> QED
  BY <1>1, <1>2, <1>3, <1>4, <1>5, <1>6 DEF Process

\* The URL to be persisted.
LEMMA PersistTypes ==
    ASSUME TypeOK, NEW p \in Procs, NEW c \in Controllers, pc[p] # "off", Persist(p, c),
           UNCHANGED <<main, quit, early>>, alive' \subseteq Controllers, found' \in Seq(Valid)
    PROVE  ProcOK'
<1> DEFINE m == [mem[p] EXCEPT !.saving = "url", !.cfg.url = c]
<1>1. mem[p] \in Memories /\ mem[p].cfg \in Files /\ c \in Urls
  BY DEF TypeOK, Memories, Urls
<1>2. [mem[p].cfg EXCEPT !.url = c] \in Files
  BY <1>1 DEF Files
<1>3. m \in Memories /\ m.saving = "url"
  BY <1>1, <1>2 DEF Memories
<1>4. Remember(p, m) /\ Goto(p, "merge")
  BY DEF Persist
<1> HIDE DEF m
<1> QED
  BY <1>3, <1>4, MoveTypes DEF Places

\* A step of the service, of the command line or of the environment.
LEMMA OtherTypes ==
    ASSUME TypeOK, Next, ~\E p \in Procs : Process(p)
    PROVE  TypeOK'
<1> USE StartupAssumption DEF evars, fvars, dvars, svars, pvars
<1>1. ASSUME NEW p \in Procs, NEW l \in Places \ {"off", "load", "merge", "create", "write"},
             pc[p] # "off", Goto(p, l), UNCHANGED <<mem, fvars, svars, evars, ids>>
      PROVE  TypeOK'
  <2>1. mem[p] \in Memories /\ Remember(p, mem[p])
    BY <1>1 DEF TypeOK, Remember
  <2>2. ProcOK'
    BY <1>1, <2>1, MoveTypes DEF TypeOK
  <2> QED
    BY <1>1, <2>2 DEF TypeOK, ProcOK
<1>2. CASE Resolve
  BY <1>2, <1>1 DEF Resolve, Procs, Places
<1>3. CASE Join
  BY <1>3, <1>1 DEF Join, Procs, Places
<1>4. CASE Sweep
  <2>1. mem["service"] \in Memories /\ Remember("service", mem["service"])
    BY <1>4 DEF TypeOK, Remember, Sweep, Procs
  <2>2. ProcOK'
    BY <1>4, <2>1, MoveTypes DEF TypeOK, Sweep, Procs, Places
  <2> QED
    BY <1>4, <2>2 DEF TypeOK, ProcOK, Sweep
<1>5. ASSUME NEW c \in Controllers, NEW same \in BOOLEAN, Receive(c, same) PROVE TypeOK'
  <2>1. found' \in Seq(Valid)
    BY <1>5 DEF TypeOK, Receive, Believed
  <2> QED
    BY <1>5, <2>1 DEF TypeOK, Receive, InLoad
<1>6. CASE Close
  <2>1. alive' \subseteq Controllers /\ found' \in Seq(Valid) /\ "service" \in Procs
    BY <1>6 DEF Close, Procs
  <2>2. CASE found = <<>>
    <3>1. mem["service"] \in Memories /\ Remember("service", mem["service"])
      BY <1>6, <2>2 DEF TypeOK, Remember, Close, Procs
    <3>2. ProcOK'
      BY <1>6, <2>1, <2>2, <3>1, MoveTypes DEF TypeOK, Close, NotFound, Places
    <3> QED
      BY <1>6, <3>2 DEF TypeOK, ProcOK, Close
  <2>3. CASE found # <<>>
    <3>1. found \in Seq(Controllers)
      BY DEF TypeOK
    <3>2. SelectBest(found) \in Controllers
      BY <2>3, <3>1, SelectsBest
    <3>3. ProcOK'
      BY <1>6, <2>1, <2>3, <3>2, PersistTypes DEF Close
    <3> QED
      BY <1>6, <3>3 DEF TypeOK, ProcOK, Close
  <2> QED
    BY <2>2, <2>3
<1>7. CASE Command
  <2>1. CASE Goto("cli", "search") /\ UNCHANGED <<mem, svars>>
    BY <1>7, <2>1, <1>1 DEF Command, Procs, Places
  <2>2. CASE Ended("cli")
    BY <1>7, <2>2, EndedTypes DEF Command, Procs, TypeOK, ProcOK
  <2> QED
    BY <1>7, <2>1, <2>2 DEF Command
<1>8. CASE Discover
  <2>1. ASSUME NEW c \in up \cap Valid, Persist("cli", c), UNCHANGED svars PROVE TypeOK'
    <3>1. ProcOK'
      BY <1>8, <2>1, PersistTypes DEF Discover, Procs, TypeOK
    <3> QED
      BY <1>8, <3>1 DEF TypeOK, ProcOK, Discover
  <2>2. CASE Ended("cli")
    BY <1>8, <2>2, EndedTypes DEF Discover, Procs, TypeOK, ProcOK
  <2> QED
    BY <1>8, <2>1, <2>2 DEF Discover
<1>9. CASE Enter
  BY <1>9 DEF Enter, TypeOK, InLoad
<1>10. CASE Stop
  BY <1>10 DEF Stop, TypeOK, InLoad
<1>11. CASE PumpEnds
  BY <1>11 DEF PumpEnds, TypeOK, InLoad
<1>12. CASE Flushed
  BY <1>12, EndedTypes DEF Flushed, Procs, TypeOK, ProcOK
<1>13. ASSUME NEW u \in HandUrls, Edit(u) PROVE TypeOK'
  <2>1. file' \in Files /\ byHand' \in Urls
    BY <1>13 DEF Edit, TypeOK, Files, Urls
  <2>2. events' \in 0 .. MaxEvents
    BY <1>13 DEF Edit, Event, TypeOK
  <2> QED
    BY <1>13, <2>1, <2>2 DEF Edit, TypeOK, InLoad
<1>14. ASSUME NEW c \in Controllers, Toggle(c) PROVE TypeOK'
  <2>1. events' \in 0 .. MaxEvents
    BY <1>14 DEF Toggle, Event, TypeOK
  <2> QED
    BY <1>14, <2>1 DEF Toggle, TypeOK, InLoad
<1> QED
  BY <1>2, <1>3, <1>4, <1>5, <1>6, <1>7, <1>8, <1>9, <1>10, <1>11, <1>12, <1>13, <1>14 DEF Next

\* The types, for any number of controllers, ids and events.
THEOREM TypeCorrect == Spec => []TypeOK
<1>1. Init => TypeOK
  <2> SUFFICES ASSUME Init PROVE TypeOK
    OBVIOUS
  <2>1. file \in Files /\ byHand \in Urls
    BY BlankTypes, StartupAssumption DEF Init, Files, Urls, Ids
  <2>2. ids \in 0 .. MaxId /\ events \in 0 .. MaxEvents
    BY StartupAssumption DEF Init
  <2>3. pc \in [Procs -> Places] /\ pc["service"] = "off" /\ mem \in [Procs -> Memories]
    BY BlankTypes DEF Init, Procs, Places
  <2>4. ~InLoad("service")
    BY <2>3 DEF InLoad
  <2>5. found \in Seq(Valid)
    BY DEF Init
  <2> QED
    BY <2>1, <2>2, <2>3, <2>4, <2>5 DEF Init, TypeOK
<1>2. TypeOK /\ [Next]_vars => TypeOK'
  <2> SUFFICES ASSUME TypeOK, [Next]_vars PROVE TypeOK'
    OBVIOUS
  <2>1. CASE Next
    BY <2>1, ProcessTypes, OtherTypes
  <2>2. CASE UNCHANGED vars
    BY <2>2 DEF vars, pvars, fvars, svars, dvars, evars, TypeOK, InLoad
  <2> QED
    BY <2>1, <2>2
<1> QED
  BY <1>1, <1>2, PTL DEF Spec

-----------------------------------------------------------------------------
(* The sweep *)

\* The end of a process touches no other process; the service's sweep is over with it.
LEMMA EndedFrame ==
    ASSUME TypeOK, NEW p \in Procs, Ended(p)
    PROVE  /\ pc'[p] = "off"
           /\ \A q \in Procs \ {p} : pc'[q] = pc[q] /\ mem'[q] = mem[q]
           /\ found' = <<>> \/ (p # "service" /\ UNCHANGED <<found, alive>>)
BY DEF TypeOK, Ended, Goto, Remember, dvars

\* A step of one process touches no other process, and no sweep but by ending it.
LEMMA ProcessFrame ==
    ASSUME TypeOK, NEW p \in Procs, Process(p)
    PROVE  /\ \A q \in Procs \ {p} : pc'[q] = pc[q] /\ mem'[q] = mem[q]
           /\ \/ found' = <<>>
              \/ UNCHANGED <<found, alive>> /\ (p = "service" => pc[p] # "await")
<1> USE DEF svars, dvars
<1>1. ASSUME NEW e \in Overrides[p], Start(p, e)
      PROVE  /\ \A q \in Procs \ {p} : pc'[q] = pc[q] /\ mem'[q] = mem[q]
             /\ UNCHANGED <<found, alive>> /\ pc[p] # "await"
  BY <1>1 DEF Start, Goto, Remember, TypeOK
<1>2. CASE Load(p)
  <2>1. CASE Ended(p)
    BY <2>1, EndedFrame
  <2>2. CASE ~Ended(p)
    <3>1. /\ \E l, m : Goto(p, l) /\ Remember(p, m)
          /\ pc[p] = "load" /\ UNCHANGED <<found, alive>>
      BY <1>2, <2>2 DEF Load
    <3> QED
      BY <3>1 DEF Goto, Remember, TypeOK
  <2> QED
    BY <2>1, <2>2
<1>3. CASE Merge(p)
  BY <1>3, EndedFrame DEF Merge, SaveFailed, Goto, Remember, TypeOK
<1>4. CASE Create(p)
  BY <1>4, EndedFrame DEF Create, SaveFailed, Goto, Remember, TypeOK
<1>5. CASE Write(p)
  BY <1>5, EndedFrame DEF Write, Saved, SaveFailed, Goto, Remember, TypeOK
<1>6. CASE Crash(p)
  BY <1>6, EndedFrame DEF Crash
<1> QED
  BY <1>1, <1>2, <1>3, <1>4, <1>5, <1>6 DEF Process

\* A step of a process does not begin to wait for replies.
LEMMA ProcessPlace ==
    ASSUME TypeOK, NEW p \in Procs, Process(p)
    PROVE  pc'[p] \in {"off", "load", "merge", "create", "write", "ready", "join"}
<1>1. ASSUME NEW l, Goto(p, l) PROVE pc'[p] = l
  BY <1>1 DEF Goto, TypeOK
<1>2. ASSUME NEW e \in Overrides[p], Start(p, e) PROVE pc'[p] = "load"
  BY <1>1, <1>2 DEF Start
<1>3. CASE Load(p)
  BY <1>1, <1>3 DEF Load, Ended
<1>4. CASE Merge(p) \/ Create(p)
  BY <1>1, <1>4 DEF Merge, Create, SaveFailed, Ended
<1>5. CASE Write(p)
  BY <1>1, <1>5 DEF Write, Saved, SaveFailed, Ended
<1>6. CASE Crash(p)
  BY <1>1, <1>6 DEF Crash, Ended
<1> QED
  BY <1>2, <1>3, <1>4, <1>5, <1>6 DEF Process

\* The sweep's bookkeeping: what was heard was sent during the sweep.
LEMMA HeardStep ==
    ASSUME TypeOK, TypeOK', Heard, [Next]_vars
    PROVE  Heard'
<1> USE DEF evars, fvars, dvars, svars, pvars
<1>1. ASSUME found' = <<>> PROVE Heard'
  BY <1>1 DEF Heard
<1>2. ASSUME UNCHANGED <<found, alive>>, pc'["service"] # "await" => pc["service"] # "await"
      PROVE  Heard'
  BY <1>2 DEF Heard
<1>3. ASSUME NEW p \in Procs, Process(p) PROVE Heard'
  <2>1. CASE p = "service"
    BY <1>1, <1>2, <1>3, <2>1, ProcessFrame, ProcessPlace
  <2>2. CASE p # "service"
    <3>1. pc'["service"] = pc["service"]
      BY <1>3, <2>2, ProcessFrame DEF Procs
    <3> QED
      BY <1>1, <1>2, <1>3, <3>1, ProcessFrame
  <2> QED
    BY <2>1, <2>2
<1>4. CASE Resolve \/ Join
  <2>1. UNCHANGED <<found, alive>> /\ pc["service"] # "await"
    BY <1>4 DEF Resolve, Join
  <2> QED
    BY <1>2, <2>1
<1>5. CASE Sweep
  <2>1. found = <<>> /\ found' = found
    BY <1>5 DEF Sweep, Heard
  <2> QED
    BY <1>1, <2>1
<1>6. ASSUME NEW c \in Controllers, NEW same \in BOOLEAN, Receive(c, same) PROVE Heard'
  <2>1. c \in alive /\ found' = Append(found, c) /\ alive' = alive /\ pc'["service"] = "await"
    BY <1>6 DEF Receive, Believed
  <2>2. \A i \in DOMAIN Append(found, c) : Append(found, c)[i] \in alive
    BY <2>1 DEF TypeOK, Heard
  <2> QED
    BY <2>1, <2>2 DEF Heard
<1>7. CASE Close
  BY <1>1, <1>7 DEF Close
<1>8. CASE Command \/ Discover
  <2>1. pc'["service"] = pc["service"] /\ UNCHANGED <<found, alive>>
    BY <1>8 DEF Command, Discover, Persist, Ended, Goto, TypeOK, Procs
  <2> QED
    BY <1>2, <2>1
<1>9. CASE Enter \/ Stop \/ PumpEnds
  BY <1>2, <1>9 DEF Enter, Stop, PumpEnds
<1>10. CASE Flushed
  BY <1>1, <1>10 DEF Flushed, Ended
<1>11. ASSUME NEW u \in HandUrls, Edit(u) PROVE Heard'
  BY <1>2, <1>11 DEF Edit
<1>12. ASSUME NEW c \in Controllers, Toggle(c) PROVE Heard'
  BY <1>12 DEF Toggle, Heard
<1>13. CASE UNCHANGED vars
  BY <1>2, <1>13 DEF vars
<1> QED
  BY <1>3, <1>4, <1>5, <1>6, <1>7, <1>8, <1>9, <1>10, <1>11, <1>12, <1>13 DEF Next

\* A sweep that heard somebody settles on one that ran during it and none is better.
LEMMA CloseAdopts ==
    ASSUME TypeOK, Heard, Close, found # <<>>
    PROVE  LET c == mem'["service"].cfg.url
           IN  c \in alive /\ \A i \in DOMAIN found : Priority[found[i]] =< Priority[c]
<1> DEFINE b == SelectBest(found)
<1>1. found \in Seq(Controllers)
  BY StartupAssumption DEF TypeOK
<1>2. /\ \E i \in DOMAIN found : b = found[i]
      /\ \A j \in DOMAIN found : Priority[found[j]] =< Priority[b]
  BY <1>1, SelectsBest
<1>3. mem["service"] \in Memories /\ mem["service"].cfg \in Files
  BY DEF TypeOK, Memories, Procs
<1>4. mem' = [mem EXCEPT !["service"] = [mem["service"] EXCEPT !.saving = "url", !.cfg.url = b]]
  BY DEF Close, Persist, Remember
<1> HIDE DEF b
<1>5. mem'["service"].cfg.url = b
  BY <1>3, <1>4 DEF TypeOK, Procs, Memories, Files
<1> QED
  BY <1>2, <1>5 DEF Heard

(***************************************************************************)
(* The controller that discover settles on answered this sweep, and no     *)
(* other one that did has a higher priority: for any number of controllers *)
(* and replies, with replies to earlier sweeps arriving at any time.       *)
(***************************************************************************)
THEOREM SweepAdoptsBest == Spec => AdoptsBestOfSweep
<1>1. Init => Heard
  BY DEF Init, Heard
<1>2. TypeOK /\ TypeOK' /\ Heard /\ [Next]_vars => Heard'
  BY HeardStep
<1>3. TypeOK /\ Heard =>
        [Close /\ found # <<>> =>
           LET c == mem'["service"].cfg.url
           IN  c \in alive /\ \A i \in DOMAIN found : Priority[found[i]] =< Priority[c]]_vars
  BY CloseAdopts
<1> QED
  BY <1>1, <1>2, <1>3, TypeCorrect, PTL DEF Spec, AdoptsBestOfSweep

-----------------------------------------------------------------------------
(* What each process works with *)

\* A process that goes on from p's place, with p's configuration or an update of it.
LEMMA WorkingMove ==
    ASSUME TypeOK, NEW p \in Procs, NEW l \in Places \ {"load"}, NEW m \in Memories,
           Goto(p, l), Remember(p, m), l # "off" => m.cfg.id \in Ids,
           l \in {"create", "write"} =>
               m.draft = [m.base EXCEPT ![m.saving] = m.cfg[m.saving]]
    PROVE  WorkingAt(p)'
<1>1. pc'[p] = l /\ mem'[p] = m
  BY DEF Goto, Remember, TypeOK
<1> QED
  BY <1>1 DEF WorkingAt, Draft

\* Processes that a step does not touch.
LEMMA WorkingOthers ==
    ASSUME Working, NEW p \in Procs, WorkingAt(p)',
           \A q \in Procs \ {p} : pc'[q] = pc[q] /\ mem'[q] = mem[q]
    PROVE  Working'
<1> SUFFICES ASSUME NEW q \in Procs PROVE WorkingAt(q)'
  BY DEF Working
<1>1. CASE q = p
  BY <1>1
<1>2. CASE q # p
  BY <1>2 DEF Working, WorkingAt, Draft
<1> QED
  BY <1>1, <1>2

\* config.rs keeps a usable id in every process, and drafts that differ in one field.
LEMMA WorkingProcess ==
    ASSUME TypeOK, Working, NEW p \in Procs, Process(p)
    PROVE  Working'
<1> SUFFICES WorkingAt(p)'
  BY ProcessFrame, WorkingOthers
<1> USE DEF svars, dvars
<1>1. mem[p] \in Memories /\ WorkingAt(p)
  BY DEF TypeOK, Working
<1>2. ASSUME Ended(p) PROVE WorkingAt(p)'
  BY <1>2, EndedFrame DEF WorkingAt
<1>3. ASSUME pc[p] \notin {"off", "load"}, SaveFailed(p) PROVE WorkingAt(p)'
  <2>1. CASE Ended(p)
    BY <1>2, <2>1
  <2>2. CASE Goto(p, "join") /\ Remember(p, Kept(p))
    BY <1>1, <1>3, <2>2, KeptTypes, WorkingMove DEF WorkingAt, Places
  <2> QED
    BY <1>3, <2>1, <2>2 DEF SaveFailed
<1>4. ASSUME NEW e \in Overrides[p], Start(p, e) PROVE WorkingAt(p)'
  <2>1. pc'[p] = "load" /\ mem'[p].saving = "id"
    BY <1>4 DEF Start, Goto, Remember, TypeOK, Blank
  <2> QED
    BY <2>1 DEF WorkingAt
<1>5. CASE Load(p)
  <2> DEFINE id == First(mem[p].env.id, file.id, NoId)
             url == First(mem[p].env.url, file.url, NoUrl)
  <2>1. CASE Ended(p)
    BY <1>2, <2>1
  <2>2. CASE ~Ended(p)
    <3>1. \E i \in Ids : /\ pc' = [pc EXCEPT ![p] = "ready"] \/ pc' = [pc EXCEPT ![p] = "merge"]
                         /\ mem' = [mem EXCEPT ![p] =
                                     [mem[p] EXCEPT !.cfg = [id |-> i, url |-> url]]]
      <4>1. CASE id \in Ids
        BY <1>5, <2>2, <4>1 DEF Load, Goto, Remember
      <4>2. CASE id \notin Ids
        <5>1. /\ ids < MaxId /\ ids' = ids + 1 /\ pc' = [pc EXCEPT ![p] = "merge"]
              /\ mem' = [mem EXCEPT ![p] = [mem[p] EXCEPT !.cfg = [id |-> ids', url |-> url]]]
          BY <1>5, <2>2, <4>2 DEF Load, Goto, Remember
        <5>2. ids' \in Ids
          BY <5>1, StartupAssumption DEF TypeOK, Ids
        <5> HIDE DEF url
        <5> QED
          BY <5>1, <5>2
      <4> QED
        BY <4>1, <4>2
    <3> HIDE DEF url
    <3>2. pc'[p] \in {"ready", "merge"} /\ mem'[p].cfg.id \in Ids
      BY <1>1, <3>1 DEF TypeOK, Memories
    <3> QED
      BY <3>2 DEF WorkingAt
  <2> QED
    BY <2>1, <2>2
<1>6. CASE Merge(p)
  <2>1. CASE SaveFailed(p)
    BY <1>3, <1>6, <2>1 DEF Merge
  <2>2. CASE ~SaveFailed(p)
    <3>1. /\ pc[p] = "merge" /\ Goto(p, "create")
          /\ Remember(p, [mem[p] EXCEPT !.draft = Merged(p), !.base = file])
      BY <1>6, <2>2 DEF Merge
    <3>2. /\ pc'[p] = "create"
          /\ mem'[p].draft = Merged(p) /\ mem'[p].base = file
          /\ mem'[p].cfg = mem[p].cfg /\ mem'[p].saving = mem[p].saving
      BY <1>1, <3>1 DEF Goto, Remember, TypeOK, Memories
    <3> QED
      BY <1>1, <3>1, <3>2 DEF WorkingAt, Draft, Merged
  <2> QED
    BY <2>1, <2>2
<1>7. CASE Create(p)
  <2>1. CASE SaveFailed(p)
    BY <1>3, <1>7, <2>1 DEF Create
  <2>2. CASE Goto(p, "write") /\ UNCHANGED mem
    <3>1. pc[p] = "create" /\ pc'[p] = "write" /\ mem'[p] = mem[p]
      BY <1>7, <2>2 DEF Create, Goto, TypeOK
    <3> QED
      BY <1>1, <3>1 DEF WorkingAt, Draft
  <2> QED
    BY <1>7, <2>1, <2>2 DEF Create
<1>8. CASE Write(p)
  <2>1. CASE Ended(p)
    BY <1>2, <2>1
  <2>2. CASE (Goto(p, "ready") \/ Goto(p, "join")) /\ Remember(p, Kept(p))
    <3>1. mem[p].cfg.id \in Ids
      BY <1>1, <1>8 DEF Write, WorkingAt
    <3> QED
      BY <2>2, <3>1, KeptTypes, WorkingMove DEF Places
  <2> QED
    BY <1>8, <2>1, <2>2 DEF Write, Saved, SaveFailed
<1>9. CASE Crash(p)
  BY <1>2, <1>9 DEF Crash
<1> QED
  BY <1>4, <1>5, <1>6, <1>7, <1>8, <1>9 DEF Process

\* The URL to be persisted is all that a search adds to what a process knows.
LEMMA PersistFrame ==
    ASSUME TypeOK, NEW p \in Procs, NEW c, Persist(p, c)
    PROVE  /\ pc'[p] = "merge"
           /\ mem'[p].saving = "url"
           /\ mem'[p].env = mem[p].env /\ mem'[p].cfg.id = mem[p].cfg.id
           /\ \A q \in Procs \ {p} : pc'[q] = pc[q] /\ mem'[q] = mem[q]
<1>1. mem[p] \in Memories /\ mem[p].cfg \in Files
  BY DEF TypeOK, Memories
<1> QED
  BY <1>1 DEF Persist, Goto, Remember, TypeOK, Memories, Files

\* The steps that are not of config.rs change a process's place, but not its work.
LEMMA WorkingOther ==
    ASSUME TypeOK, Working, Next, ~\E p \in Procs : Process(p)
    PROVE  Working'
<1> USE DEF evars, fvars, dvars, svars, pvars
<1>1. ASSUME UNCHANGED pvars PROVE Working'
  BY <1>1 DEF Working, WorkingAt, Draft
<1>2. ASSUME NEW p \in Procs, NEW l, pc[p] \notin {"off", "load"},
             l \notin {"off", "load", "create", "write"}, Goto(p, l), UNCHANGED mem
      PROVE  Working'
  <2>1. pc'[p] = l /\ \A q \in Procs \ {p} : pc'[q] = pc[q] /\ mem'[q] = mem[q]
    BY <1>2 DEF Goto, TypeOK
  <2>2. WorkingAt(p)'
    BY <1>2, <2>1 DEF Working, WorkingAt
  <2> QED
    BY <2>1, <2>2, WorkingOthers
<1>3. ASSUME NEW p \in Procs, Ended(p) PROVE Working'
  <2>1. WorkingAt(p)'
    BY <1>3, EndedFrame DEF WorkingAt
  <2> QED
    BY <1>3, <2>1, EndedFrame, WorkingOthers
<1>4. ASSUME NEW p \in Procs, NEW c, pc[p] \notin {"off", "load"}, Persist(p, c) PROVE Working'
  <2>1. WorkingAt(p)'
    BY <1>4, PersistFrame DEF Working, WorkingAt
  <2> QED
    BY <1>4, <2>1, PersistFrame, WorkingOthers
<1>5. "service" \in Procs /\ "cli" \in Procs
  BY DEF Procs
<1>6. CASE Resolve \/ Join \/ Sweep
  BY <1>2, <1>5, <1>6 DEF Resolve, Join, Sweep
<1>7. CASE Close
  BY <1>2, <1>4, <1>5, <1>7 DEF Close, NotFound
<1>8. CASE Command
  BY <1>2, <1>3, <1>5, <1>8 DEF Command
<1>9. CASE Discover
  BY <1>3, <1>4, <1>5, <1>9 DEF Discover
<1>10. CASE Flushed
  BY <1>3, <1>5, <1>10 DEF Flushed
<1>11. CASE Enter \/ Stop \/ PumpEnds
  BY <1>1, <1>11 DEF Enter, Stop, PumpEnds
<1>12. ASSUME NEW c \in Controllers, NEW same \in BOOLEAN, Receive(c, same) PROVE Working'
  BY <1>1, <1>12 DEF Receive
<1>13. ASSUME NEW u \in HandUrls, Edit(u) PROVE Working'
  BY <1>1, <1>13 DEF Edit
<1>14. ASSUME NEW c \in Controllers, Toggle(c) PROVE Working'
  BY <1>1, <1>14 DEF Toggle
<1> QED
  BY <1>6, <1>7, <1>8, <1>9, <1>10, <1>11, <1>12, <1>13, <1>14 DEF Next

-----------------------------------------------------------------------------
(* The file's contents *)

(***************************************************************************)
(* A step that leaves the file alone: no process begins or ends to fill    *)
(* it, what processes go by stays the same or is just read from it, a file *)
(* that has an id is not given another, and nobody begins to search who    *)
(* has seen a URL written by hand.                                         *)
(***************************************************************************)
LEMMA TidyKept ==
    ASSUME Tidy, file' = file, byHand' = byHand, mixed \in BOOLEAN, ~mixed' => ~mixed,
           ~mixed' => \A p \in Procs :
               /\ (pc'[p] = "write") <=> (pc[p] = "write")
               /\ pc[p] = "write" => mem'[p].base = mem[p].base
               /\ Loaded(p)' /\ mem'[p].env.id = NoId =>
                     \/ Loaded(p) /\ mem[p].env.id = NoId /\ mem'[p].cfg.id = mem[p].cfg.id
                     \/ ~HalfWritten /\ mem'[p].cfg.id = file.id
               /\ pc'[p] \in {"create", "write"} /\ mem'[p].saving = "id" =>
                     mem'[p].base.id \notin Ids,
           ~mixed' /\ Seeking' /\ "service" \notin early' =>
               (Seeking /\ "service" \notin early) \/ byHand = NoUrl
    PROVE  Tidy'
<1> SUFFICES ASSUME ~mixed'
             PROVE  /\ file' # Broken
                    /\ \A p, q \in Procs : pc'[p] = "write" /\ pc'[q] = "write" => p = q
                    /\ \A p \in Procs : pc'[p] = "write" => file' = Default /\ Right(mem[p].base)'
                    /\ ~HalfWritten' => Right(file)'
                    /\ \A p \in Procs :
                          pc'[p] \in {"create", "write"} /\ mem'[p].saving = "id" =>
                              mem'[p].base.id \notin Ids
                    /\ Seeking' /\ "service" \notin early' => byHand' = NoUrl
  BY DEF Tidy
<1>1. /\ file # Broken
      /\ \A p, q \in Procs : pc[p] = "write" /\ pc[q] = "write" => p = q
      /\ \A p \in Procs : pc[p] = "write" => file = Default /\ Right(mem[p].base)
      /\ ~HalfWritten => Right(file)
      /\ Seeking /\ "service" \notin early => byHand = NoUrl
  BY DEF Tidy
<1>2. HalfWritten' <=> HalfWritten
  BY DEF HalfWritten
<1>3. ASSUME NEW p \in Procs, pc[p] = "write" PROVE Right(mem[p].base)'
  <2>1. HalfWritten /\ Right(mem[p].base) /\ mem'[p].base = mem[p].base
    BY <1>1, <1>3 DEF HalfWritten
  <2> QED
    BY <2>1 DEF Right
<1>4. ~HalfWritten => Right(file)'
  BY <1>1 DEF Right
<1> QED
  BY <1>1, <1>2, <1>3, <1>4

\* The same for a step of one process that is not filling the file.
LEMMA TidyMove ==
    ASSUME TypeOK, Tidy, NEW p \in Procs, file' = file, byHand' = byHand, ~mixed' => ~mixed,
           \A q \in Procs \ {p} : pc'[q] = pc[q] /\ mem'[q] = mem[q],
           early \ {p} \subseteq early',
           ~mixed' =>
               /\ pc[p] # "write" /\ pc'[p] # "write"
               /\ Loaded(p)' /\ mem'[p].env.id = NoId =>
                     \/ Loaded(p) /\ mem[p].env.id = NoId /\ mem'[p].cfg.id = mem[p].cfg.id
                     \/ ~HalfWritten /\ mem'[p].cfg.id = file.id
               /\ pc'[p] = "create" /\ mem'[p].saving = "id" => mem'[p].base.id \notin Ids,
           p = "service" /\ ~mixed' /\ Seeking' =>
               (Seeking /\ early \subseteq early') \/ byHand = NoUrl
    PROVE  Tidy'
<1>1. ASSUME NEW q \in Procs, q # p, ~mixed'
      PROVE  /\ (pc'[q] = "write") <=> (pc[q] = "write")
             /\ pc[q] = "write" => mem'[q].base = mem[q].base
             /\ Loaded(q)' => Loaded(q) /\ mem'[q].cfg.id = mem[q].cfg.id
             /\ pc'[q] \in {"create", "write"} /\ mem'[q].saving = "id" =>
                   mem'[q].base.id \notin Ids
             /\ mem'[q].env.id = mem[q].env.id
  BY <1>1 DEF Loaded, InLoad, Tidy
<1>2. ~mixed' /\ Seeking' /\ "service" \notin early' =>
               (Seeking /\ "service" \notin early) \/ byHand = NoUrl
  <2>1. CASE p = "service"
    BY <2>1
  <2>2. CASE p # "service"
    <3>1. pc'["service"] = pc["service"] /\ mem'["service"] = mem["service"]
      BY <2>2 DEF Procs
    <3> QED
      BY <2>2, <3>1 DEF Seeking
  <2> QED
    BY <2>1, <2>2
<1>3. mixed \in BOOLEAN
  BY DEF TypeOK
<1>4. ~mixed' => \A q \in Procs :
               /\ (pc'[q] = "write") <=> (pc[q] = "write")
               /\ pc[q] = "write" => mem'[q].base = mem[q].base
               /\ Loaded(q)' /\ mem'[q].env.id = NoId =>
                     \/ Loaded(q) /\ mem[q].env.id = NoId /\ mem'[q].cfg.id = mem[q].cfg.id
                     \/ ~HalfWritten /\ mem'[q].cfg.id = file.id
               /\ pc'[q] \in {"create", "write"} /\ mem'[q].saving = "id" =>
                     mem'[q].base.id \notin Ids
  BY <1>1
<1> QED
  BY <1>2, <1>3, <1>4, TidyKept

\* A process that ends otherwise than while it fills the file.
LEMMA TidyEnded ==
    ASSUME TypeOK, Tidy, NEW p \in Procs, Ended(p), file' = file, byHand' = byHand,
           ~mixed' => ~mixed, ~mixed' => pc[p] # "write"
    PROVE  Tidy'
<1>1. /\ pc'[p] = "off"
      /\ \A q \in Procs \ {p} : pc'[q] = pc[q] /\ mem'[q] = mem[q]
      /\ early \ {p} \subseteq early'
  BY EndedFrame DEF Ended
<1>2. ~Loaded(p)'
  BY <1>1 DEF Loaded
<1>3. p = "service" => ~Seeking'
  BY <1>1 DEF Seeking
<1> QED
  BY <1>1, <1>2, <1>3, TidyMove

\* persist_* has failed.
LEMMA TidySaveFailed ==
    ASSUME TypeOK, Tidy, NEW p \in Procs, SaveFailed(p), file' = file, byHand' = byHand,
           ~mixed' => ~mixed, pc[p] \in {"merge", "create"}
    PROVE  Tidy'
<1>1. CASE Ended(p)
  BY <1>1, TidyEnded
<1>2. CASE mem[p].saving = "url" /\ p = "service"
  <2>1. Goto(p, "join") /\ Remember(p, Kept(p)) /\ UNCHANGED svars
    BY <1>2 DEF SaveFailed
  <2>2. /\ pc'[p] = "join" /\ mem'[p] = Kept(p) /\ early' = early
        /\ \A q \in Procs \ {p} : pc'[q] = pc[q] /\ mem'[q] = mem[q]
    BY <2>1 DEF Goto, Remember, svars, TypeOK
  <2>3. Loaded(p) /\ mem'[p].env = mem[p].env /\ mem'[p].cfg = mem[p].cfg
    BY <1>2, <2>2, KeptTypes DEF Loaded, InLoad
  <2>4. ~Seeking'
    BY <1>2, <2>2 DEF Seeking
  <2> QED
    BY <2>2, <2>3, <2>4, TidyMove
<1> QED
  BY <1>1, <1>2 DEF SaveFailed

\* config::load and persist_* up to the file's emptying.
LEMMA TidyRead ==
    ASSUME TypeOK, Tidy, Working, NEW p \in Procs, Load(p) \/ Merge(p)
    PROVE  Tidy'
<1>1. mem[p] \in Memories /\ mem[p].env \in Files /\ mem[p].cfg \in Files /\ mixed \in BOOLEAN
  BY DEF TypeOK, Memories
<1>2. CASE Load(p)
  <2>1. /\ pc[p] = "load" /\ file' = file /\ byHand' = byHand /\ (~mixed' => ~mixed /\ ~HalfWritten)
        /\ \A q \in Procs \ {p} : pc'[q] = pc[q] /\ mem'[q] = mem[q]
    BY <1>2, ProcessFrame DEF Load, Process
  <2>2. CASE Ended(p)
    BY <2>1, <2>2, TidyEnded
  <2>3. CASE ~Ended(p)
    <3> DEFINE id == First(mem[p].env.id, file.id, NoId)
               url == First(mem[p].env.url, file.url, NoUrl)
    <3>1. file # Broken /\ early' = early
      BY <1>2, <2>3 DEF Load, svars
    <3>2. /\ mem'[p].env = mem[p].env
          /\ mem'[p].cfg.url = url
          /\ mem'[p].saving = mem[p].saving
          /\ \/ pc'[p] = "ready" /\ mem'[p].cfg.id = id
             \/ pc'[p] = "merge"
      <4>1. \E i : mem' = [mem EXCEPT ![p] = [mem[p] EXCEPT !.cfg = [id |-> i, url |-> url]]]
                   /\ (pc' = [pc EXCEPT ![p] = "merge"] \/ (pc' = [pc EXCEPT ![p] = "ready"] /\ i = id))
        BY <1>2, <2>3 DEF Load, Goto, Remember
      <4> HIDE DEF id, url
      <4> QED
        BY <1>1, <4>1 DEF TypeOK, Memories
    <3>3. mem[p].saving = "id"
      BY <2>1 DEF Working, WorkingAt
    <3>4. Loaded(p)' /\ mem'[p].env.id = NoId => mem'[p].cfg.id = file.id
      BY <3>2, <3>3 DEF Loaded, InLoad, First
    <3>5. p = "service" /\ ~mixed' /\ Seeking' => byHand = NoUrl
      <4>1. p = "service" /\ Seeking' => url = NoUrl
        BY <3>2, <3>3 DEF Seeking
      <4>2. url = NoUrl => file.url = NoUrl
        BY DEF First
      <4>3. ~mixed' => Right(file)
        BY <2>1 DEF Tidy
      <4> HIDE DEF url
      <4> QED
        BY <4>1, <4>2, <4>3 DEF Right
    <3> HIDE DEF id, url
    <3> QED
      BY <2>1, <3>1, <3>2, <3>4, <3>5, TidyMove
  <2> QED
    BY <2>2, <2>3
<1>3. CASE Merge(p)
  <2>1. /\ pc[p] = "merge" /\ file' = file /\ byHand' = byHand /\ (~mixed' => ~mixed)
        /\ \A q \in Procs \ {p} : pc'[q] = pc[q] /\ mem'[q] = mem[q]
    BY <1>3, ProcessFrame DEF Merge, Process
  <2>2. CASE SaveFailed(p)
    BY <2>1, <2>2, TidySaveFailed
  <2>3. CASE ~SaveFailed(p)
    <3>1. /\ file # Broken /\ early' = early
          /\ Goto(p, "create")
          /\ Remember(p, [mem[p] EXCEPT !.draft = Merged(p), !.base = file])
          /\ ~mixed' => ~(mem[p].saving = "id" /\ file.id \in Ids)
      BY <1>3, <2>3 DEF Merge, svars
    <3>2. /\ pc'[p] = "create" /\ mem'[p].env = mem[p].env /\ mem'[p].cfg = mem[p].cfg
          /\ mem'[p].saving = mem[p].saving /\ mem'[p].base = file
      BY <1>1, <3>1 DEF Goto, Remember, TypeOK, Memories
    <3>3. Loaded(p)' => Loaded(p)
      BY <2>1, <3>2 DEF Loaded, InLoad
    <3>4. p = "service" /\ Seeking' => Seeking
      BY <2>1, <3>2 DEF Seeking
    <3> QED
      BY <2>1, <3>1, <3>2, <3>3, <3>4, TidyMove
  <2> QED
    BY <2>2, <2>3
<1> QED
  BY <1>2, <1>3

\* fs::write empties the file: what it said is in the base of the process that does.
LEMMA TidyCreate ==
    ASSUME TypeOK, Tidy, NEW p \in Procs, Create(p)
    PROVE  Tidy'
<1>1. pc[p] = "create" /\ byHand' = byHand /\ mixed \in BOOLEAN
  BY DEF Create, TypeOK
<1>2. CASE SaveFailed(p) /\ UNCHANGED <<file, mixed>>
  BY <1>1, <1>2, TidySaveFailed
<1>3. CASE /\ file' = Default
           /\ Goto(p, "write")
           /\ mixed' = (mixed \/ HalfWritten \/ file # mem[p].base)
           /\ UNCHANGED <<mem, svars>>
  <2> SUFFICES ASSUME ~mixed' PROVE Tidy'
    BY DEF Tidy
  <2>1. ~mixed /\ ~HalfWritten /\ mem[p].base = file /\ Right(file)
    BY <1>3 DEF Tidy
  <2>2. /\ pc'[p] = "write" /\ \A q \in Procs \ {p} : pc'[q] = pc[q]
        /\ mem' = mem /\ early' = early
    BY <1>3 DEF Goto, TypeOK, svars
  <2>3. \A q \in Procs : q # p => pc'[q] # "write"
    BY <2>1, <2>2 DEF HalfWritten
  <2>4. \A q \in Procs : Loaded(q)' => Loaded(q)
    BY <1>1, <2>2 DEF Loaded, InLoad
  <2>5. Right(mem[p].base)'
    BY <1>1, <2>1, <2>2, <2>4 DEF Right
  <2>6. Seeking' => Seeking
    <3>1. CASE p = "service"
      BY <1>1, <2>2, <3>1 DEF Seeking
    <3>2. CASE p # "service"
      BY <2>2, <3>2 DEF Seeking, Procs
    <3> QED
      BY <3>1, <3>2
  <2>7. file' # Broken
    BY <1>3, BlankTypes, FilesAssumption
  <2>8. HalfWritten'
    BY <2>2 DEF HalfWritten
  <2>9. \A q \in Procs : pc'[q] \in {"create", "write"} /\ mem'[q].saving = "id" =>
                             mem'[q].base.id \notin Ids
    BY <1>1, <2>1, <2>2 DEF Tidy
  <2>10. Seeking' /\ "service" \notin early' => byHand' = NoUrl
    BY <1>1, <2>1, <2>2, <2>6 DEF Tidy
  <2> QED
    BY <1>3, <2>2, <2>3, <2>5, <2>7, <2>8, <2>9, <2>10 DEF Tidy
<1> QED
  BY <1>2, <1>3 DEF Create

(***************************************************************************)
(* ... and fills it.  A draft with another URL keeps the id; a draft with  *)
(* another id is of a file without one, which no other process goes by.    *)
(***************************************************************************)
LEMMA TidyWrite ==
    ASSUME TypeOK, Tidy, Working, NEW p \in Procs, Write(p)
    PROVE  Tidy'
<1> SUFFICES ASSUME ~mixed' PROVE Tidy'
  BY DEF Tidy
<1> DEFINE d == mem[p].draft
           b == mem[p].base
<1>1. /\ pc[p] = "write" /\ file' = d /\ Saved(p) /\ ~mixed
      /\ byHand' = IF mem[p].saving = "url" /\ (p = "cli" \/ p \in early) THEN NoUrl ELSE byHand
  BY DEF Write, TypeOK
<1>2. /\ mem[p] \in Memories /\ b \in Files /\ d \in Files /\ mem[p].cfg \in Files
      /\ mem[p].saving \in {"id", "url"}
  BY DEF TypeOK, Memories
<1>3. /\ Right(b)
      /\ \A q \in Procs : q # p => pc[q] # "write"
      /\ mem[p].saving = "id" => b.id \notin Ids
      /\ Seeking /\ "service" \notin early => byHand = NoUrl
  BY <1>1 DEF Tidy
<1>4. /\ d = [b EXCEPT ![mem[p].saving] = mem[p].cfg[mem[p].saving]]
      /\ \A q \in Procs : pc[q] \notin {"off", "load"} => mem[q].cfg.id \in Ids
  BY <1>1 DEF Working, WorkingAt, Draft
<1>5. /\ mem[p].saving = "id" => d.id = mem[p].cfg.id /\ d.url = b.url
      /\ mem[p].saving = "url" => d.id = b.id
  <2> DEFINE u == [b EXCEPT ![mem[p].saving] = mem[p].cfg[mem[p].saving]]
  <2>1. /\ mem[p].saving = "id" => u.id = mem[p].cfg.id /\ u.url = b.url
        /\ mem[p].saving = "url" => u.id = b.id
    <3> HIDE DEF b
    <3> QED
      BY <1>2, UpdateTypes, Zenon
  <2> HIDE DEF u, d, b
  <2>2. d = u
    BY <1>4 DEF u
  <2> QED
    BY <2>1, <2>2
<1>6. \A q \in Procs \ {p} : pc'[q] = pc[q] /\ mem'[q] = mem[q]
  BY ProcessFrame DEF Process
<1>7. /\ pc'[p] \in {"off", "ready", "join"}
      /\ pc'[p] # "off" => /\ mem'[p].env = mem[p].env /\ mem'[p].cfg = mem[p].cfg
                           /\ early' = early
                           /\ pc'[p] = "ready" => mem[p].saving = "id"
      /\ early \ {p} \subseteq early'
  <2>1. CASE Ended(p)
    BY <2>1, EndedFrame DEF Ended
  <2>2. CASE ~Ended(p)
    BY <1>1, <2>2, KeptTypes DEF Saved, Goto, Remember, svars, TypeOK
  <2> QED
    BY <2>1, <2>2
<1>8. ~HalfWritten'
  BY <1>3, <1>6, <1>7 DEF HalfWritten
<1>9. ASSUME NEW q \in Procs, Loaded(q)', mem'[q].env.id = NoId
      PROVE  mem'[q].cfg.id = d.id
  <2>1. CASE q = p
    <3>1. mem'[p].env = mem[p].env /\ mem'[p].cfg = mem[p].cfg
      BY <1>7, <1>9, <2>1 DEF Loaded
    <3>2. CASE mem[p].saving = "id"
      BY <1>5, <2>1, <3>1, <3>2
    <3>3. CASE mem[p].saving = "url"
      <4>1. Loaded(p)
        BY <1>1, <3>3 DEF Loaded, InLoad
      <4> QED
        BY <1>3, <1>5, <1>9, <2>1, <3>1, <3>3, <4>1 DEF Right
    <3> QED
      BY <1>2, <3>2, <3>3
  <2>2. CASE q # p
    <3>1. Loaded(q) /\ mem'[q] = mem[q] /\ pc'[q] = pc[q]
      BY <1>6, <1>9, <2>2 DEF Loaded, InLoad
    <3>2. mem[q].cfg.id = b.id /\ mem[q].cfg.id \in Ids
      BY <1>3, <1>4, <1>9, <3>1 DEF Right, Loaded, InLoad
    <3> QED
      BY <1>2, <1>3, <1>5, <3>1, <3>2
  <2> QED
    BY <2>1, <2>2
<1>10. byHand' # NoUrl => d.url = byHand'
  <2>1. CASE mem[p].saving = "id"
    BY <1>1, <1>3, <1>5, <2>1 DEF Right
  <2>2. CASE mem[p].saving = "url"
    <3>1. p = "service" => Seeking
      BY <1>1, <2>2 DEF Seeking
    <3> QED
      BY <1>1, <1>3, <2>2, <3>1 DEF Procs
  <2> QED
    BY <1>2, <2>1, <2>2
<1>11. Seeking' /\ "service" \notin early' => byHand' = NoUrl
  <2>1. CASE p = "service"
    <3>1. Seeking' => pc'[p] = "ready" /\ mem[p].cfg.url = NoUrl /\ early' = early
      BY <1>7, <2>1 DEF Seeking
    <3>2. mem[p].cfg.url = NoUrl => Seeking
      BY <1>1, <2>1 DEF Seeking
    <3> QED
      BY <1>1, <1>3, <3>1, <3>2
  <2>2. CASE p # "service"
    <3>1. pc'["service"] = pc["service"] /\ mem'["service"] = mem["service"]
      BY <1>6, <2>2 DEF Procs
    <3>2. Seeking' => Seeking
      BY <3>1 DEF Seeking
    <3> QED
      BY <1>1, <1>3, <1>7, <2>2, <3>2
  <2> QED
    BY <2>1, <2>2
<1>12. \A q \in Procs :
          pc'[q] \in {"create", "write"} /\ mem'[q].saving = "id" => mem'[q].base.id \notin Ids
  BY <1>1, <1>6, <1>7 DEF Tidy
<1>13. \A q \in Procs : pc'[q] # "write"
  BY <1>3, <1>6, <1>7
<1>14. file' # Broken
  BY <1>1, <1>2, FilesAssumption
<1>15. Right(file)'
  BY <1>1, <1>9, <1>10 DEF Right
<1> QED
  BY <1>11, <1>12, <1>13, <1>14, <1>15 DEF Tidy

\* A process begins, or is killed.
LEMMA TidyStartCrash ==
    ASSUME TypeOK, Tidy, NEW p \in Procs, (\E e \in Overrides[p] : Start(p, e)) \/ Crash(p)
    PROVE  Tidy'
<1>1. mixed \in BOOLEAN
  BY DEF TypeOK
<1>2. CASE \E e \in Overrides[p] : Start(p, e)
  <2>1. /\ pc[p] = "off" /\ pc'[p] = "load" /\ early' = early
        /\ file' = file /\ byHand' = byHand /\ mixed' = mixed
        /\ \A q \in Procs \ {p} : pc'[q] = pc[q] /\ mem'[q] = mem[q]
    BY <1>2, ProcessFrame DEF Process, Start, Goto, fvars, TypeOK
  <2>2. ~Loaded(p)'
    BY <2>1 DEF Loaded, InLoad
  <2>3. p = "service" => ~Seeking'
    BY <2>1 DEF Seeking
  <2> QED
    BY <2>1, <2>2, <2>3, TidyMove
<1>3. CASE Crash(p)
  <2>1. /\ Ended(p) /\ byHand' = byHand /\ (~mixed' => ~mixed /\ pc[p] # "write")
        /\ pc[p] # "write" => file' = file
    BY <1>1, <1>3 DEF Crash
  <2>2. CASE pc[p] # "write"
    BY <2>1, <2>2, TidyEnded
  <2>3. CASE pc[p] = "write"
    BY <2>1, <2>3 DEF Tidy
  <2> QED
    BY <2>2, <2>3
<1> QED
  BY <1>2, <1>3

\* An edit by hand while nobody writes: every process that has read the file is early.
LEMMA TidyEdit ==
    ASSUME TypeOK, Tidy, NEW u \in HandUrls, Edit(u)
    PROVE  Tidy'
<1> SUFFICES ASSUME ~mixed' PROVE Tidy'
  BY DEF Tidy
<1>1. /\ ~mixed /\ ~HalfWritten /\ file # Broken /\ file' = [file EXCEPT !.url = u] /\ byHand' = u
      /\ early' = {p \in Procs : pc[p] \notin {"off", "load"}} /\ pc' = pc /\ mem' = mem
  BY DEF Edit, TypeOK, pvars
<1>2. file \in Files /\ file'.id = file.id /\ file'.url = u /\ file' \in Files
  <2>1. file \in Files
    BY <1>1 DEF TypeOK
  <2> QED
    BY <1>1, <2>1 DEF Files, Urls
<1>3. Right(file)
  BY <1>1 DEF Tidy
<1>4. Right(file)'
  BY <1>1, <1>2, <1>3 DEF Right, Loaded, InLoad
<1>5. Seeking' => "service" \in early'
  BY <1>1 DEF Seeking, Procs
<1>6. \A p \in Procs : pc'[p] # "write"
  BY <1>1 DEF HalfWritten
<1>7. \A p \in Procs : pc'[p] \in {"create", "write"} /\ mem'[p].saving = "id" =>
                          mem'[p].base.id \notin Ids
  BY <1>1 DEF Tidy
<1> QED
  BY <1>2, <1>4, <1>5, <1>6, <1>7, FilesAssumption DEF Tidy

\* The search, the service's life, and controllers that come and go leave the file alone.
LEMMA TidyOther ==
    ASSUME TypeOK, Tidy, Next, ~\E p \in Procs : Process(p)
    PROVE  Tidy'
<1> USE DEF evars, fvars, dvars, svars
<1>0. mixed \in BOOLEAN /\ "service" \in Procs /\ "cli" \in Procs
  BY DEF TypeOK, Procs
<1>1. ASSUME UNCHANGED <<pc, mem, file, mixed, byHand, early>> PROVE Tidy'
  BY <1>1 DEF Tidy, Right, Loaded, InLoad, HalfWritten, Seeking
<1>2. ASSUME NEW p \in Procs, NEW l, pc[p] \notin {"off", "load", "merge", "create", "write"},
             l \notin {"off", "load", "merge", "create", "write"}, Goto(p, l),
             UNCHANGED <<mem, file, mixed, byHand, early>>, p = "service" /\ Seeking' => Seeking
      PROVE  Tidy'
  <2>1. pc'[p] = l /\ \A q \in Procs \ {p} : pc'[q] = pc[q] /\ mem'[q] = mem[q]
    BY <1>2 DEF Goto, TypeOK
  <2>2. Loaded(p)
    BY <1>2 DEF Loaded, InLoad
  <2> QED
    BY <1>2, <2>1, <2>2, TidyMove
<1>3. ASSUME NEW p \in Procs, Ended(p), UNCHANGED <<file, byHand>>, ~mixed' => ~mixed,
             ~mixed' => pc[p] # "write"
      PROVE  Tidy'
  BY <1>3, TidyEnded
<1>4. ASSUME NEW p \in Procs, NEW c, pc[p] \in {"search", "await"}, Persist(p, c),
             UNCHANGED <<file, mixed, byHand, early>>
      PROVE  Tidy'
  <2>1. Loaded(p)
    BY <1>4 DEF Loaded, InLoad
  <2>2. p = "service" => Seeking
    BY <1>4 DEF Seeking
  <2> QED
    BY <1>4, <2>1, <2>2, PersistFrame, TidyMove
<1>5. CASE Resolve
  <2>1. Seeking' => Seeking
    <3>1. pc'["service"] = IF mem["service"].cfg.url = NoUrl THEN "search" ELSE "join"
      BY <1>0, <1>5 DEF Resolve, Goto, Searches, TypeOK
    <3> QED
      BY <1>5, <3>1 DEF Resolve, Seeking
  <2> QED
    BY <1>0, <1>2, <1>5, <2>1 DEF Resolve
<1>6. CASE Join
  <2>1. ~Seeking'
    <3>1. pc'["service"] \in {"deaf", "loops"}
      BY <1>0, <1>6 DEF Join, Goto, TypeOK
    <3> QED
      BY <3>1 DEF Seeking
  <2> QED
    BY <1>0, <1>2, <1>6, <2>1 DEF Join
<1>7. CASE Sweep
  <2>1. Seeking
    BY <1>7 DEF Sweep, Seeking
  <2> QED
    BY <1>0, <1>2, <1>7, <2>1 DEF Sweep
<1>8. CASE Close
  <2>1. Seeking
    BY <1>8 DEF Close, Seeking
  <2> QED
    BY <1>0, <1>2, <1>4, <1>8, <2>1 DEF Close, NotFound
<1>9. CASE Command
  BY <1>0, <1>2, <1>3, <1>9 DEF Command
<1>10. CASE Discover
  BY <1>0, <1>3, <1>4, <1>10 DEF Discover
<1>11. CASE Flushed
  BY <1>0, <1>3, <1>11 DEF Flushed
<1>12. CASE Enter \/ Stop \/ PumpEnds
  BY <1>1, <1>12 DEF Enter, Stop, PumpEnds, pvars
<1>13. ASSUME NEW c \in Controllers, NEW same \in BOOLEAN, Receive(c, same) PROVE Tidy'
  BY <1>1, <1>13 DEF Receive, pvars
<1>14. ASSUME NEW u \in HandUrls, Edit(u) PROVE Tidy'
  BY <1>14, TidyEdit
<1>15. ASSUME NEW c \in Controllers, Toggle(c) PROVE Tidy'
  BY <1>1, <1>15 DEF Toggle, pvars
<1> QED
  BY <1>5, <1>6, <1>7, <1>8, <1>9, <1>10, <1>11, <1>12, <1>13, <1>14, <1>15 DEF Next

\* The inductive invariant of agent.toml.
THEOREM ContentsKept == Spec => [](Working /\ Tidy)
<1>1. Init => Working /\ Tidy
  <2> SUFFICES ASSUME Init PROVE Working /\ Tidy
    OBVIOUS
  <2>1. \A p \in Procs : pc[p] = "off"
    BY DEF Init
  <2>2. Working
    BY <2>1 DEF Working, WorkingAt
  <2>3. ~HalfWritten /\ ~Seeking /\ \A p \in Procs : ~Loaded(p)
    BY <2>1 DEF HalfWritten, Seeking, Loaded, Procs
  <2>4. file \in Files
    BY BlankTypes, StartupAssumption DEF Init, Files, Urls, Ids
  <2>5. file # Broken /\ Right(file)
    BY <2>3, <2>4, FilesAssumption DEF Right, Init
  <2> QED
    BY <2>1, <2>2, <2>3, <2>5 DEF Tidy
<1>2. TypeOK /\ Working /\ Tidy /\ [Next]_vars => Working' /\ Tidy'
  <2> SUFFICES ASSUME TypeOK, Working, Tidy, [Next]_vars PROVE Working' /\ Tidy'
    OBVIOUS
  <2>1. ASSUME NEW p \in Procs, Process(p) PROVE Working' /\ Tidy'
    BY <2>1, WorkingProcess, TidyRead, TidyCreate, TidyWrite, TidyStartCrash DEF Process
  <2>2. CASE Next /\ ~\E p \in Procs : Process(p)
    BY <2>2, WorkingOther, TidyOther
  <2>3. CASE UNCHANGED vars
    BY <2>3 DEF vars, pvars, fvars, svars, Working, WorkingAt, Draft, Tidy, Right, Loaded, InLoad,
                HalfWritten, Seeking
  <2> QED
    BY <2>1, <2>2, <2>3
<1> QED
  BY <1>1, <1>2, TypeCorrect, PTL DEF Spec

(***************************************************************************)
(* The device keeps its identity: for any number of restarts, failed       *)
(* saves, edits by hand and searches, every process without an override    *)
(* goes by the id in the file, unless two updates overlapped.              *)
(***************************************************************************)
THEOREM IdentitySurvives == Spec => []IdentityKept
<1>1. Tidy => IdentityKept
  BY DEF Tidy, IdentityKept, Right, Loaded
<1> QED
  BY <1>1, ContentsKept, PTL

(***************************************************************************)
(* A URL written by hand is replaced only by discover --force or by a      *)
(* process that had read the file before: for any controllers, URLs and    *)
(* number of edits.                                                        *)
(***************************************************************************)
THEOREM ManualUrlSurvives == Spec => []ManualUrlKept
<1>1. Tidy => ManualUrlKept
  BY DEF Tidy, ManualUrlKept, Right
<1> QED
  BY <1>1, ContentsKept, PTL
=============================================================================
