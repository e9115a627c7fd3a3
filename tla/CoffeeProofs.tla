------------------------------ MODULE CoffeeProofs ------------------------------
(***************************************************************************)
(* Theorems about the file system: until the garbage collector takes a     *)
(* sector for the rest of a file and erases the files in it, a restart     *)
(* between any two writes loses none, and logs and descriptors stay those  *)
(* of their files.                                                         *)
(***************************************************************************)
EXTENDS Coffee, FiniteSetTheorems, WellFoundedInduction, TLAPS

\* A set of numbers has a least one.
LEMMA LeastNumber ==
  ASSUME NEW T \in SUBSET Nat, T # {}
  PROVE  \E x \in T : \A y \in T : x <= y
<1> DEFINE R == {r \in Nat \X Nat : r[1] < r[2]}
<1>1. IsWellFoundedOn(R, Nat)
  BY NatLessThanWellFounded, Zenon DEF OpToRel
<1>2. \A x, y \in Nat : <<x, y>> \notin R => y <= x
  OBVIOUS
<1> HIDE DEF R
<1>3. PICK x \in T : \A y \in T : ~(<<y, x>> \in R)
  BY <1>1, WFMin
<1> QED BY <1>2, <1>3

\* Min() of a set of numbers is one of them.
LEMMA MinIsIn ==
  ASSUME NEW T \in SUBSET Nat, T # {}
  PROVE  Min(T) \in T
<1>1. \E x \in T : \A y \in T : x <= y
  BY LeastNumber
<1> QED BY <1>1, Zenon DEF Min

--------------------------------------------------------------------------------
(* The inductive invariant                                                      *)

Named(p, name) == Active(p) /\ flash[p].name = name
IsFile(p) == Active(p) /\ flash[p].name[2] = "file"
SameSector(p, q) == p \div PagesPerSector = q \div PagesPerSector

\* What reserve() is called with, and what a call keeps between two steps.
Reserves ==
  [pc : {"reserve"}, purpose : {"reserve", "open", "log", "merge"}, name : FileName,
   fd : Fd \cup {NULL}, file : Page \cup {NULL}, from : Page \cup {NULL}, collected : BOOLEAN]
Collects == [pc : {"collect"}, sector : 0..NumSectors, skip_pages : Int, reserve : Reserves]
Links == [pc : {"link", "mark"}, file : Page, new : Page]
Copies == [pc : {"copy"}, file : Page, from : Page, new : Page, fd : Fd]
Removes == [pc : {"remove"}, file : Page, marks : Seq(Page), new : Page \cup {NULL}, fd : Fd \cup {NULL}]

Typed ==
  /\ flash \in [Page -> Header \cup {NULL}]
  /\ fds \in [Fd -> Desc \cup {NULL}]
  /\ task \in {Idle} \cup Reserves \cup Collects \cup Links \cup Copies \cup Removes
  /\ promised \subseteq Name /\ torn \subseteq Name /\ restarts \in 0..MaxRestarts

\* The pages of a sector are written from its first one on.
Prefix == \A p, q \in Page : SameSector(p, q) /\ q <= p /\ ~IsFree(p) => ~IsFree(q)

\* Only files have logs, their own, and one file of a name at most has one.
Logs ==
  /\ \A p \in Page : Active(p) /\ Modified(p) =>
       flash[p].name[2] = "file" /\ Named(flash[p].log_page, <<flash[p].name[1], "log">>)
  /\ \A p, q \in Page : Active(p) /\ Modified(p) /\ Active(q) /\ Modified(q)
                        /\ flash[p].name = flash[q].name => p = q

\* There are two files of a name only while one is merged, or after a restart then.
Merging == task.pc = "copy" \/ (task.pc = "remove" /\ task.new # NULL)
OneFile ==
  \A n \in Name \ torn : \A p, q \in Page :
    Named(p, <<n, "file">>) /\ Named(q, <<n, "file">>) /\ p # q =>
      Merging /\ p \in {task.file, task.new} /\ q \in {task.file, task.new}

Kept == \A n \in promised \ torn : \E p \in Page : Named(p, <<n, "file">>) /\ flash[p].whole

\* The descriptors of a file that is being removed are closed at the end, and those of a
\* file that gets a log know it at the end.
Removed(p) == task.pc = "remove" /\ p = task.file
Linked(p) == task.pc = "mark" /\ p = task.file
Descriptors ==
  \A fd \in Fd : fds[fd] # NULL /\ ~Removed(fds[fd].page) =>
    IsFile(fds[fd].page) /\ (Linked(fds[fd].page) \/ (fds[fd].modified <=> Modified(fds[fd].page)))

\* What a call relies on, from the checks it made before it was interrupted.
Creating(r) == r.purpose \in {"reserve", "open"} => 
  /\ r.name[2] = "file" /\ \A p \in Page : ~Named(p, r.name)
  /\ r.purpose = "open" => r.fd \in Fd
Logging(r) == r.purpose = "log" =>
  /\ r.name[2] = "log" /\ \A p \in Page : ~Named(p, r.name)
  /\ r.file \in Page /\ Named(r.file, <<r.name[1], "file">>) /\ ~Modified(r.file)
Merges(r) == r.purpose = "merge" =>
  /\ r.name[2] = "file" /\ r.fd \in Fd
  /\ r.file \in Page /\ Named(r.file, r.name) /\ r.from \in Page /\ Named(r.from, r.name)
  /\ r.name[1] \in torn \/ r.from = r.file
Reserving(r) == Creating(r) /\ Logging(r) /\ Merges(r)

Linking ==
  /\ IsFile(task.file) /\ ~Modified(task.file)
  /\ Named(task.new, <<flash[task.file].name[1], "log">>)
  /\ \A p \in Page : Active(p) /\ Modified(p) => flash[p].name # flash[task.file].name

Marking == IsFile(task.file) /\ Modified(task.file) /\ ~IsFree(task.new) /\ flash[task.new].name[2] = "log"

Copying ==
  /\ IsFile(task.file)
  /\ Named(task.from, flash[task.file].name) /\ Named(task.new, flash[task.file].name)
  /\ task.new \notin {task.file, task.from} /\ ~Modified(task.new) /\ ~flash[task.new].whole
  /\ flash[task.file].name[1] \in torn \/ task.from = task.file

\* remove_by_page() marks the file before its log.
Withdrawn(l) == ~IsFree(l) /\ flash[l].name[2] = "log"
                /\ \A p \in Page : Active(p) /\ Modified(p) => flash[p].log_page # l
Marks ==
  \/ Active(task.file) /\ task.marks = InOrder(task.file)
  \/ ~Active(task.file) /\ \E l \in Page : task.marks = <<l>> /\ Withdrawn(l)
  \/ ~Active(task.file) /\ task.marks = <<>>
Replaced ==
  /\ task.new \in Page /\ task.new # task.file /\ task.fd \in Fd
  /\ Named(task.new, flash[task.file].name) /\ ~Modified(task.new)
  /\ flash[task.file].name[1] \in promised \ torn => flash[task.new].whole
Removing ==
  /\ ~IsFree(task.file) /\ flash[task.file].name[2] = "file" /\ Marks
  /\ task.new = NULL => flash[task.file].name[1] \notin promised
  /\ task.new # NULL => Replaced

Calls ==
  /\ task.pc = "reserve" => Reserving(task)
  /\ task.pc = "collect" => Reserving(task.reserve)
  /\ task.pc = "link" => Linking
  /\ task.pc = "mark" => Marking
  /\ task.pc = "copy" => Copying
  /\ task.pc = "remove" => Removing

IInv == Typed /\ Prefix /\ Logs /\ OneFile /\ Kept /\ Descriptors /\ Calls

--------------------------------------------------------------------------------
(* Pages and sectors                                                            *)

LEMMA SectorOfPage ==
  ASSUME NEW p \in Page
  PROVE  /\ p \in Nat /\ p \div PagesPerSector \in 0..(NumSectors - 1)
<1>1. PagesPerSector \in Nat \ {0} /\ NumSectors \in Nat \ {0}
  BY SizeAssumption
<1>2. p \in Nat /\ p < NumSectors * PagesPerSector
  BY <1>1 DEF Page
<1> DEFINE s == p \div PagesPerSector
<1>3. s \in Nat /\ s * PagesPerSector <= p
  BY <1>1, <1>2
<1>4. s < NumSectors
  BY <1>1, <1>2, <1>3
<1> QED BY <1>1, <1>2, <1>3, <1>4

\* find_file() finds every active page of a name.
LEMMA FindsAll ==
  ASSUME Typed, Prefix, NEW name
  PROVE  Found(name) = {p \in Page : Named(p, name)}
<1>1. ASSUME NEW p \in Page, Named(p, name) PROVE p \in Found(name)
  <2>1. p \div PagesPerSector \in 0..(NumSectors - 1)
    BY SectorOfPage
  <2>2. p \in Walked(p \div PagesPerSector)
    BY <1>1 DEF Walked, InSector, Prefix, SameSector, Named, Active
  <2> QED BY <1>1, <2>1, <2>2 DEF Found, Named
<1>2. ASSUME NEW p \in Found(name) PROVE p \in Page /\ Named(p, name)
  BY <1>2 DEF Found, Walked, InSector, Named
<1> QED BY <1>1, <1>2

LEMMA RoomIsFree ==
  ASSUME Room # {}
  PROVE  /\ Min(Room) \in Page /\ IsFree(Min(Room))
         /\ \A q \in Page : SameSector(Min(Room), q) /\ q < Min(Room) => ~IsFree(q)
<1>1. Room \subseteq Nat
  BY SectorOfPage DEF Room
<1>2. Min(Room) \in Room
  BY <1>1, MinIsIn
<1> QED BY <1>2 DEF Room, InSector, SameSector

LEMMA FreeFd ==
  ASSUME FreeFds # {}
  PROVE  Min(FreeFds) \in Fd /\ fds[Min(FreeFds)] = NULL
<1>1. FreeFds \subseteq Nat
  BY SizeAssumption DEF FreeFds, Fd
<1>2. Min(FreeFds) \in FreeFds
  BY <1>1, MinIsIn
<1> QED BY <1>2 DEF FreeFds

LEMMA PagesAreFinite == IsFiniteSet(Page)
<1>1. NumSectors * PagesPerSector - 1 \in Int
  BY SizeAssumption
<1> QED BY <1>1, FS_Interval DEF Page


LEMMA PagesNotNull ==
  NULL \notin Page /\ NULL \notin Fd /\ NULL \notin Header /\ NULL \notin Desc
BY NullAssumption

--------------------------------------------------------------------------------
(* Steps that write nothing to the flash                                        *)

Unique ==
  \A n \in Name \ torn : \A p, q \in Page :
    Named(p, <<n, "file">>) /\ Named(q, <<n, "file">>) => p = q

LEMMA UniqueUnlessMerging ==
  ASSUME OneFile, ~Merging
  PROVE  Unique
BY DEF OneFile, Unique

LEMMA UniqueIsOneFile ==
  ASSUME Unique
  PROVE  OneFile
BY DEF OneFile, Unique

\* What they keep of the flash.
LEMMA SameFlash ==
  ASSUME IInv, flash' = flash, promised' \subseteq promised, torn \subseteq torn'
  PROVE  Prefix' /\ Logs' /\ Kept' /\ (Unique => Unique')
<1>1. Prefix'
  BY DEF IInv, Prefix, IsFree
<1>2. Logs'
  BY DEF IInv, Logs, Named, Active, Modified, IsFree
<1>3. Kept'
  BY DEF IInv, Kept, Named, Active, IsFree
<1>4. Unique => Unique'
  BY DEF Unique, Named, Active, IsFree
<1> QED BY <1>1, <1>2, <1>3, <1>4

LEMMA NoMerge ==
  ASSUME task.pc \notin {"copy", "remove"}
  PROVE  ~Merging
BY DEF Merging

LEMMA IdleFacts ==
  Idle.pc = "idle"
BY DEF Idle

LEMMA ReserveKeeps ==
  ASSUME IInv, NEW n \in Name, cfs_coffee_reserve(n)
  PROVE  IInv'
<1>1. task = Idle /\ task.pc = "idle" /\ flash' = flash /\ fds' = fds /\ promised' = promised /\ torn' = torn
      /\ restarts' = restarts
  BY IdleFacts DEF cfs_coffee_reserve
<1>2. task' \in Reserves /\ task'.pc = "reserve" /\ task'.purpose = "reserve" /\ task'.name = <<n, "file">>
  BY DEF cfs_coffee_reserve, Reserve, Reserves, FileName
<1>3. Typed'
  BY <1>1, <1>2 DEF IInv, Typed
<1>4. Prefix' /\ Logs' /\ Kept' /\ Unique'
  BY <1>1, SameFlash, NoMerge, UniqueUnlessMerging DEF IInv
<1>5. OneFile'
  BY <1>4 DEF Unique, OneFile
<1>6. Descriptors'
  BY <1>1, <1>2 DEF IInv, Descriptors, Removed, Linked, IsFile, Active, Modified, IsFree
<1>7. Calls'
  <2>1. \A p \in Page : ~Named(p, <<n, "file">>)
    BY FindsAll DEF cfs_coffee_reserve, IInv
  <2>2. \A p \in Page : ~Named(p, <<n, "file">>)'
    BY <1>1, <2>1 DEF Named, Active, IsFree
  <2> QED BY <1>2, <2>2 DEF Calls, Reserving, Creating, Logging, Merges, Named
<1> QED BY <1>3, <1>4, <1>5, <1>6, <1>7 DEF IInv

LEMMA OpenKeeps ==
  ASSUME IInv, NEW n \in Name, NEW write \in BOOLEAN, cfs_open(n, write)
  PROVE  IInv'
<1>1. task = Idle /\ task.pc = "idle" /\ flash' = flash /\ promised' = promised /\ torn' = torn
      /\ restarts' = restarts
  BY IdleFacts DEF cfs_open
<1>2. Prefix' /\ Logs' /\ Kept' /\ Unique'
  BY <1>1, SameFlash, NoMerge, UniqueUnlessMerging DEF IInv
<1>3. OneFile'
  BY <1>2 DEF Unique, OneFile
<1>4. PICK fd : fd = Min(FreeFds)
  OBVIOUS
<1>5. fd \in Fd /\ fds[fd] = NULL
  BY <1>4, FreeFd DEF cfs_open
<1>6. CASE /\ Found(<<n, "file">>) = {} /\ write
           /\ task' = Reserve("open", <<n, "file">>, fd, NULL, NULL)
           /\ UNCHANGED fds
  <2>1. task' \in Reserves /\ task'.pc = "reserve" /\ task'.purpose = "open" /\ task'.name = <<n, "file">>
        /\ task'.fd = fd
    BY <1>5, <1>6 DEF Reserve, Reserves, FileName
  <2>2. Typed'
    BY <1>1, <1>6, <2>1 DEF IInv, Typed
  <2>3. Descriptors'
    BY <1>1, <1>6, <2>1 DEF IInv, Descriptors, Removed, Linked, IsFile, Active, Modified, IsFree
  <2>4. Calls'
    <3>1. \A p \in Page : ~Named(p, <<n, "file">>)
      BY FindsAll, <1>6 DEF IInv
    <3>2. \A p \in Page : ~Named(p, <<n, "file">>)'
      BY <1>1, <3>1 DEF Named, Active, IsFree
    <3> QED BY <1>5, <2>1, <3>2 DEF Calls, Reserving, Creating, Logging, Merges, Named
  <2> QED BY <1>2, <1>3, <2>2, <2>3, <2>4 DEF IInv
<1>7. ASSUME NEW p \in Found(<<n, "file">>), UNCHANGED task,
             fds' = [fds EXCEPT ![fd] = [page |-> p, write |-> write, modified |-> Modified(p)]]
      PROVE  IInv'
  <2>1. p \in Page /\ Named(p, <<n, "file">>)
    BY FindsAll DEF IInv
  <2>0. PICK m \in BOOLEAN : m = Modified(p)
    <3>1. Modified(p) \in BOOLEAN
      BY DEF Modified
    <3> QED BY <3>1
  <2>2. PICK d : d = [page |-> p, write |-> write, modified |-> m]
    OBVIOUS
  <2>3. d \in Desc /\ d.page = p /\ (d.modified <=> Modified(p))
    BY <2>0, <2>1, <2>2 DEF Desc
  <2>4. fds' = [fds EXCEPT ![fd] = d]
    BY <1>7, <2>0, <2>2
  <2>5. Typed'
    BY <1>1, <1>7, <2>3, <2>4 DEF IInv, Typed
  <2>6. Descriptors'
    <3>1. \A e \in Fd : fds'[e] = IF e = fd THEN d ELSE fds[e]
      BY <2>4 DEF IInv, Typed
    <3>2. IsFile(p) /\ IsFile(p)' /\ (Modified(p) <=> Modified(p)')
      BY <1>1, <2>1 DEF Named, IsFile, Active, IsFree, Modified
    <3>3. \A e \in Fd : fds[e] # NULL => IsFile(fds[e].page) /\ (fds[e].modified <=> Modified(fds[e].page))
      BY <1>1 DEF IInv, Descriptors, Removed, Linked
    <3> QED BY <1>1, <2>3, <3>1, <3>2, <3>3 DEF Descriptors, IsFile, Active, IsFree, Modified
  <2>7. Calls'
    BY <1>1, <1>7 DEF Calls
  <2> QED BY <1>2, <1>3, <2>5, <2>6, <2>7 DEF IInv
<1> QED BY <1>4, <1>6, <1>7 DEF cfs_open

LEMMA CloseKeeps ==
  ASSUME IInv, NEW fd \in Fd, cfs_close(fd)
  PROVE  IInv'
<1>1. task = Idle /\ task.pc = "idle" /\ flash' = flash /\ promised' = promised /\ torn' = torn
      /\ restarts' = restarts /\ task' = task /\ fds' = [fds EXCEPT ![fd] = NULL]
  BY IdleFacts DEF cfs_close
<1>2. Prefix' /\ Logs' /\ Kept' /\ Unique'
  BY <1>1, SameFlash, NoMerge, UniqueUnlessMerging DEF IInv
<1>3. OneFile'
  BY <1>2 DEF Unique, OneFile
<1>4. Typed'
  BY <1>1 DEF IInv, Typed
<1>5. Descriptors'
  BY <1>1 DEF IInv, Typed, Descriptors, Removed, Linked, IsFile, Active, Modified, IsFree
<1>6. Calls'
  BY <1>1 DEF Calls
<1> QED BY <1>2, <1>3, <1>4, <1>5, <1>6 DEF IInv

LEMMA NameOfFile ==
  ASSUME Typed, NEW p \in Page, IsFile(p)
  PROVE  /\ flash[p] \in Header /\ flash[p].name \in FileName /\ flash[p].name[1] \in Name
         /\ flash[p].name = <<flash[p].name[1], "file">>
<1>1. flash[p] \in Header
  BY DEF Typed, IsFile, Active, IsFree
<1>2. flash[p].name \in FileName /\ flash[p].name[2] = "file"
  BY <1>1 DEF Header, IsFile
<1> QED BY <1>1, <1>2 DEF FileName

LEMMA CreateLogCalls ==
  ASSUME Typed, Prefix, NEW file \in Page, IsFile(file), ~Modified(file),
         task' = CreateLog(flash[file].name[1], file), flash' = flash
  PROVE  task' \in Reserves \cup {Idle} /\ task'.pc \in {"idle", "reserve"} /\ Calls'
<1>0. PICK n : n = flash[file].name[1]
  OBVIOUS
<1>1. n \in Name /\ Named(file, <<n, "file">>)
  BY <1>0, NameOfFile DEF Named, IsFile
<1>2. CASE Found(<<n, "log">>) = {}
  <2>1. task' = Reserve("log", <<n, "log">>, NULL, file, NULL)
    BY <1>0, <1>2 DEF CreateLog
  <2>2. task' \in Reserves /\ task'.pc = "reserve" /\ task'.purpose = "log" /\ task'.name = <<n, "log">>
        /\ task'.file = file
    BY <1>1, <2>1 DEF Reserve, Reserves, FileName
  <2>3. \A p \in Page : ~Named(p, <<n, "log">>)
    BY <1>2, FindsAll
  <2>4. \A p \in Page : ~Named(p, <<n, "log">>)'
    BY <2>3 DEF Named, Active, IsFree
  <2>5. Named(file, <<n, "file">>)' /\ ~Modified(file)'
    BY <1>1 DEF Named, Active, IsFree, Modified
  <2>6. task'.name[1] = n /\ task'.name[2] = "log"
    BY <2>2
  <2>7. Creating(task)' /\ Merges(task)'
    BY <2>2 DEF Creating, Merges
  <2>8. Logging(task)'
    <3>1. file \in Page /\ task'.purpose = "log"
      BY <2>2
    <3> QED BY <2>2, <2>4, <2>5, <2>6, <3>1 DEF Logging, Named, Active, IsFree, Modified
  <2> QED BY <2>2, <2>7, <2>8 DEF Calls, Reserving
<1>3. CASE Found(<<n, "log">>) # {}
  <2>1. task' = Idle /\ task'.pc = "idle"
    BY <1>0, <1>3, IdleFacts DEF CreateLog
  <2> QED BY <2>1 DEF Calls
<1> QED BY <1>2, <1>3

LEMMA WriteKeeps ==
  ASSUME IInv, NEW fd \in Fd, cfs_write(fd)
  PROVE  IInv'
<1>1. task = Idle /\ task.pc = "idle" /\ flash' = flash /\ promised' = promised /\ torn' = torn
      /\ restarts' = restarts /\ fds[fd] # NULL
  BY IdleFacts DEF cfs_write
<1>2. Prefix' /\ Logs' /\ Kept' /\ Unique' /\ Unique
  BY <1>1, SameFlash, NoMerge, UniqueUnlessMerging DEF IInv
<1>3. OneFile'
  BY <1>2 DEF Unique, OneFile
<1>4. PICK file : file = fds[fd].page
  OBVIOUS
<1>5. \A e \in Fd : fds[e] # NULL =>
        fds[e].page \in Page /\ IsFile(fds[e].page) /\ (fds[e].modified <=> Modified(fds[e].page))
  <2>1. \A e \in Fd : fds[e] # NULL => fds[e] \in Desc
    BY DEF IInv, Typed
  <2> QED BY <1>1, <2>1 DEF IInv, Descriptors, Removed, Linked, Desc
<1>6. file \in Page /\ IsFile(file)
  BY <1>1, <1>4, <1>5
<1>7. PICK name : name = flash[file].name
  OBVIOUS
<1>8. Named(file, name) /\ name \in FileName /\ name[1] \in Name /\ name[2] = "file" /\ name = <<name[1], "file">>
  BY <1>6, <1>7, NameOfFile DEF IInv, Named, IsFile
<1>9. write_log_page(file)
  BY <1>4 DEF cfs_write
<1>10. CASE /\ ~Modified(file)
            /\ task' = CreateLog(flash[file].name[1], file)
            /\ UNCHANGED fds
  <2>1. task' \in Reserves \cup {Idle} /\ task'.pc \in {"idle", "reserve"} /\ Calls'
    BY <1>1, <1>6, <1>10, CreateLogCalls DEF IInv
  <2>2. Typed'
    BY <1>1, <1>10, <2>1 DEF IInv, Typed
  <2>3. Descriptors'
    BY <1>1, <1>5, <1>10 DEF Descriptors, IsFile, Active, Modified, IsFree
  <2> QED BY <1>2, <1>3, <2>1, <2>2, <2>3 DEF IInv
<1>11. ASSUME Modified(file), FreeFds # {}, NEW from \in Found(name),
              fds' = [fds EXCEPT ![Min(FreeFds)] = [page |-> from, write |-> FALSE, modified |-> Modified(from)]],
              task' = Reserve("merge", name, Min(FreeFds), file, from)
       PROVE  IInv'
  <2>1. PICK f : f = Min(FreeFds)
    OBVIOUS
  <2>2. f \in Fd /\ fds[f] = NULL
    BY <1>11, <2>1, FreeFd
  <2>3. PICK m \in BOOLEAN : m = Modified(from)
    <3>1. Modified(from) \in BOOLEAN
      BY DEF Modified
    <3> QED BY <3>1
  <2>4. PICK d : d = [page |-> from, write |-> FALSE, modified |-> m]
    OBVIOUS
  <2>5. from \in Page /\ Named(from, name)
    BY FindsAll DEF IInv
  <2>6. d \in Desc /\ d.page = from /\ (d.modified <=> Modified(from))
    BY <2>3, <2>4, <2>5 DEF Desc
  <2>7. fds' = [fds EXCEPT ![f] = d]
    BY <1>11, <2>1, <2>3, <2>4
  <2>8. task' = Reserve("merge", name, f, file, from)
    BY <1>11, <2>1
  <2>9. task' \in Reserves /\ task'.pc = "reserve" /\ task'.purpose = "merge" /\ task'.name = name
        /\ task'.file = file /\ task'.fd = f /\ task'.from = from
    BY <1>6, <1>8, <2>2, <2>5, <2>8 DEF Reserve, Reserves
  <2>10. Typed'
    BY <1>1, <2>6, <2>7, <2>9 DEF IInv, Typed
  <2>11. Descriptors'
    <3>1. \A e \in Fd : fds'[e] = IF e = f THEN d ELSE fds[e]
      BY <2>7 DEF IInv, Typed
    <3>2. IsFile(from)
      BY <1>8, <2>5 DEF Named, IsFile
    <3>3. \A e \in Fd : fds'[e] # NULL =>
            IsFile(fds'[e].page) /\ (fds'[e].modified <=> Modified(fds'[e].page))
      BY <1>5, <2>6, <3>1, <3>2
    <3> QED BY <1>1, <3>3 DEF Descriptors, IsFile, Active, IsFree, Modified
  <2>12. Calls'
    <3>1. name[1] \in torn \/ from = file
      BY <1>2, <1>6, <1>8, <2>5 DEF Unique
    <3>2. Named(file, name)' /\ Named(from, name)'
      BY <1>1, <1>8, <2>5 DEF Named, Active, IsFree
    <3>3. Creating(task)' /\ Logging(task)'
      BY <2>9 DEF Creating, Logging
    <3>4. Merges(task)'
      BY <1>1, <1>6, <1>8, <2>2, <2>5, <2>9, <3>1, <3>2 DEF Merges
    <3> QED BY <2>9, <3>3, <3>4 DEF Calls, Reserving
  <2> QED BY <1>2, <1>3, <2>10, <2>11, <2>12 DEF IInv
<1>12. CASE Modified(file)
  <2>1. FreeFds # {} /\ \E from \in Found(name) :
           /\ fds' = [fds EXCEPT ![Min(FreeFds)] = [page |-> from, write |-> FALSE, modified |-> Modified(from)]]
           /\ task' = Reserve("merge", name, Min(FreeFds), file, from)
    BY <1>7, <1>9, <1>12, Zenon DEF write_log_page
  <2> QED BY <1>11, <1>12, <2>1
<1> QED BY <1>9, <1>10, <1>12 DEF write_log_page

LEMMA RemoveKeeps ==
  ASSUME IInv, NEW n \in Name, cfs_coffee_remove(n)
  PROVE  IInv'
<1>1. task = Idle /\ task.pc = "idle" /\ flash' = flash /\ fds' = fds /\ promised' = promised \ {n}
      /\ torn' = torn /\ restarts' = restarts
  BY IdleFacts DEF cfs_coffee_remove
<1>2. Prefix' /\ Logs' /\ Kept' /\ Unique'
  BY <1>1, SameFlash, NoMerge, UniqueUnlessMerging DEF IInv
<1>3. OneFile'
  BY <1>2 DEF Unique, OneFile
<1>4. PICK p \in Found(<<n, "file">>) : task' = Remove(p, NULL, NULL)
  BY DEF cfs_coffee_remove
<1>5. p \in Page /\ Named(p, <<n, "file">>)
  BY FindsAll DEF IInv
<1>6. PICK m : m = InOrder(p)
  OBVIOUS
<1>7. m \in Seq(Page)
  <2>1. flash[p] \in Header
    BY <1>5 DEF IInv, Typed, Named, Active, IsFree
  <2>2. flash[p].log_page \in Page
    BY <2>1 DEF Header
  <2> QED BY <1>5, <1>6, <2>2 DEF InOrder
<1>8. task' \in Removes /\ task'.pc = "remove" /\ task'.file = p /\ task'.marks = m /\ task'.new = NULL
  BY <1>4, <1>5, <1>6, <1>7 DEF Remove, Removes
<1>9. Typed'
  BY <1>1, <1>8 DEF IInv, Typed
<1>10. Descriptors'
  BY <1>1, <1>8 DEF IInv, Descriptors, Removed, Linked, IsFile, Active, Modified, IsFree
<1>11. Calls'
  <2>1. m = InOrder(p)'
    BY <1>1, <1>6 DEF InOrder, Modified
  <2>2. Marks'
    BY <1>1, <1>5, <1>8, <2>1 DEF Marks, Named, Active, IsFree
  <2>3. flash'[p].name = <<n, "file">> /\ ~IsFree(p)'
    BY <1>1, <1>5 DEF Named, Active, IsFree
  <2>4. Removing'
    BY <1>1, <1>8, <2>2, <2>3 DEF Removing
  <2> QED BY <1>8, <2>4 DEF Calls
<1> QED BY <1>2, <1>3, <1>9, <1>10, <1>11 DEF IInv

LEMMA SameReserving ==
  ASSUME flash' = flash, torn' = torn, NEW r, Reserving(r)
  PROVE  Reserving(r)'
<1>1. Creating(r)'
  BY DEF Reserving, Creating, Named, Active, IsFree
<1>2. Logging(r)'
  BY DEF Reserving, Logging, Named, Active, IsFree, Modified
<1>3. Merges(r)'
  BY DEF Reserving, Merges, Named, Active, IsFree
<1> QED BY <1>1, <1>2, <1>3 DEF Reserving

\* The shape of a call is told by its pc.
LEMMA Shapes ==
  ASSUME Typed
  PROVE  /\ task.pc = "reserve" => task \in Reserves
         /\ task.pc = "collect" => task \in Collects
         /\ task.pc \in {"link", "mark"} => task \in Links
         /\ task.pc = "copy" => task \in Copies
         /\ task.pc = "remove" => task \in Removes
<1>1. task \in {Idle} \cup Reserves \cup Collects \cup Links \cup Copies \cup Removes
  BY DEF Typed
<1>2. /\ task = Idle => task.pc = "idle"
      /\ task \in Reserves => task.pc = "reserve"
      /\ task \in Collects => task.pc = "collect"
      /\ task \in Links => task.pc \in {"link", "mark"}
      /\ task \in Copies => task.pc = "copy"
      /\ task \in Removes => task.pc = "remove"
  BY IdleFacts DEF Reserves, Collects, Links, Copies, Removes
<1> QED BY <1>1, <1>2

LEMMA FailsKeeps ==
  ASSUME IInv, ReserveFails
  PROVE  IInv'
<1>1. task.pc = "reserve" /\ flash' = flash /\ promised' = promised /\ torn' = torn /\ restarts' = restarts
  BY DEF ReserveFails
<1>2. Prefix' /\ Logs' /\ Kept' /\ Unique'
  BY <1>1, SameFlash, NoMerge, UniqueUnlessMerging DEF IInv
<1>3. OneFile'
  BY <1>2 DEF Unique, OneFile
<1>4. PICK r : r = task
  OBVIOUS
<1>5. r \in Reserves /\ Reserving(r)
  BY <1>1, <1>4, Shapes DEF IInv, Calls
<1>6. \A e \in Fd : fds[e] # NULL => IsFile(fds[e].page) /\ (fds[e].modified <=> Modified(fds[e].page))
  BY <1>1 DEF IInv, Descriptors, Removed, Linked
<1>7. CASE r.collected
  <2>1. task' = Idle /\ task'.pc = "idle"
    BY <1>1, <1>4, <1>7, IdleFacts DEF ReserveFails
  <2>2. fds' = [fds EXCEPT ![r.fd] = NULL] \/ fds' = fds
    BY <1>1, <1>4, <1>7 DEF ReserveFails
  <2>3. fds' \in [Fd -> Desc \cup {NULL}] /\ \A e \in Fd : fds'[e] = fds[e] \/ fds'[e] = NULL
    BY <2>2 DEF IInv, Typed
  <2>4. Typed'
    BY <1>1, <2>1, <2>3 DEF IInv, Typed
  <2>5. Descriptors'
    BY <1>1, <1>6, <2>3 DEF Descriptors, IsFile, Active, IsFree, Modified
  <2>6. Calls'
    BY <2>1 DEF Calls
  <2> QED BY <1>2, <1>3, <2>4, <2>5, <2>6 DEF IInv
<1>8. CASE ~r.collected
  <2>1. fds' = fds /\ task' = [pc |-> "collect", sector |-> 0, skip_pages |-> 0, reserve |-> r]
    BY <1>1, <1>4, <1>8 DEF ReserveFails
  <2>2. task' \in Collects /\ task'.pc = "collect" /\ task'.reserve = r
    BY <1>5, <2>1, SizeAssumption DEF Collects
  <2>3. Typed'
    BY <1>1, <2>1, <2>2 DEF IInv, Typed
  <2>4. Descriptors'
    BY <1>1, <1>6, <2>1 DEF Descriptors, IsFile, Active, IsFree, Modified
  <2>5. Calls'
    <3>1. Reserving(r)'
      BY <1>1, <1>5, SameReserving
    <3> QED BY <2>2, <3>1 DEF Calls
  <2> QED BY <1>2, <1>3, <2>3, <2>4, <2>5 DEF IInv
<1> QED BY <1>7, <1>8

LEMMA CollectEndsKeeps ==
  ASSUME IInv, CollectEnds
  PROVE  IInv'
<1>1. task.pc = "collect" /\ flash' = flash /\ promised' = promised /\ torn' = torn /\ restarts' = restarts
      /\ fds' = fds
  BY DEF CollectEnds
<1>2. Prefix' /\ Logs' /\ Kept' /\ Unique'
  BY <1>1, SameFlash, NoMerge, UniqueUnlessMerging DEF IInv
<1>3. OneFile'
  BY <1>2 DEF Unique, OneFile
<1>4. PICK r : r = task.reserve
  OBVIOUS
<1>5. r \in Reserves /\ Reserving(r)
  BY <1>1, <1>4, Shapes DEF IInv, Calls, Collects
<1>6. PICK t : t = [r EXCEPT !.collected = TRUE]
  OBVIOUS
<1>7. t \in Reserves /\ t.pc = "reserve" /\ t.purpose = r.purpose /\ t.name = r.name /\ t.fd = r.fd
      /\ t.file = r.file /\ t.from = r.from
  BY <1>5, <1>6 DEF Reserves
<1>8. task' = t
  BY <1>4, <1>6 DEF CollectEnds
<1>9. Typed'
  BY <1>1, <1>7, <1>8 DEF IInv, Typed
<1>10. Descriptors'
  BY <1>1, <1>7, <1>8 DEF IInv, Descriptors, Removed, Linked, IsFile, Active, IsFree, Modified
<1>11. Calls'
  <2>1. Reserving(t)
    BY <1>5, <1>7 DEF Reserving, Creating, Logging, Merges
  <2>2. Reserving(t)'
    BY <1>1, <2>1, SameReserving
  <2> QED BY <1>7, <1>8, <2>2 DEF Calls
<1> QED BY <1>2, <1>3, <1>9, <1>10, <1>11 DEF IInv

LEMMA RemoveEndsKeeps ==
  ASSUME IInv, RemoveEnds
  PROVE  IInv'
<1>1. task.pc = "remove" /\ task.new = NULL /\ flash' = flash /\ promised' = promised /\ torn' = torn
      /\ restarts' = restarts /\ task' = Idle /\ task'.pc = "idle"
  BY IdleFacts DEF RemoveEnds
<1>2. Prefix' /\ Logs' /\ Kept' /\ Unique'
  BY <1>1, SameFlash, UniqueUnlessMerging DEF IInv, Merging
<1>3. OneFile'
  BY <1>2 DEF Unique, OneFile
<1>4. \A e \in Fd : fds'[e] = IF fds[e] # NULL /\ fds[e].page = task.file THEN NULL ELSE fds[e]
  BY DEF RemoveEnds
<1>5. fds' \in [Fd -> Desc \cup {NULL}]
  BY <1>4 DEF RemoveEnds, IInv, Typed
<1>6. Typed'
  BY <1>1, <1>5 DEF IInv, Typed
<1>7. \A e \in Fd : fds'[e] # NULL =>
        fds'[e] = fds[e] /\ IsFile(fds[e].page) /\ (fds[e].modified <=> Modified(fds[e].page))
  BY <1>1, <1>4 DEF IInv, Descriptors, Removed, Linked
<1>8. Descriptors'
  BY <1>1, <1>7 DEF Descriptors, IsFile, Active, IsFree, Modified
<1>9. Calls'
  BY <1>1 DEF Calls
<1> QED BY <1>2, <1>3, <1>6, <1>8, <1>9 DEF IInv

LEMMA MergeEndsKeeps ==
  ASSUME IInv, MergeEnds
  PROVE  IInv'
<1>1. task.pc = "remove" /\ task.new # NULL /\ task.marks = <<>> /\ flash' = flash /\ promised' = promised
      /\ torn' = torn /\ restarts' = restarts
  BY DEF MergeEnds
<1>2. PICK file, new, f : file = task.file /\ new = task.new /\ f = task.fd
  OBVIOUS
<1>3. Removing /\ Replaced
  BY <1>1 DEF IInv, Calls, Removing
<1>4. new \in Page /\ IsFile(new) /\ ~Modified(new) /\ f \in Fd
  BY <1>2, <1>3 DEF Removing, Replaced, Named, IsFile
<1>5. ~Active(file)
  <2>1. task.marks # InOrder(task.file)
    BY <1>1 DEF InOrder
  <2> QED BY <1>2, <1>3, <2>1 DEF Removing, Marks
<1>6. Unique
  BY <1>1, <1>2, <1>5 DEF IInv, OneFile, Unique, Named
<1>7. Prefix' /\ Logs' /\ Kept' /\ Unique'
  BY <1>1, <1>6, SameFlash
<1>8. OneFile'
  BY <1>7 DEF Unique, OneFile
<1>9. task' \in Reserves \cup {Idle} /\ task'.pc \in {"idle", "reserve"} /\ Calls'
  <2>1. task' = CreateLog(flash[new].name[1], new)
    BY <1>2 DEF MergeEnds
  <2> QED BY <1>1, <1>4, <2>1, CreateLogCalls DEF IInv
<1>10. \A e \in Fd : fds'[e] = IF e = f THEN NULL
                               ELSE IF fds[e] # NULL /\ fds[e].page = file
                                    THEN [fds[e] EXCEPT !.page = new, !.modified = FALSE] ELSE fds[e]
  BY <1>2 DEF MergeEnds, Repointed
<1>11. ASSUME NEW e \in Fd
       PROVE  /\ fds'[e] \in Desc \cup {NULL}
              /\ fds'[e] # NULL => IsFile(fds'[e].page) /\ (fds'[e].modified <=> Modified(fds'[e].page))
  <2>1. PICK d : d = fds[e]
    OBVIOUS
  <2>2. d \in Desc \cup {NULL}
    BY <2>1 DEF IInv, Typed
  <2>3. CASE e = f
    BY <1>10, <2>3
  <2>4. CASE e # f /\ d # NULL /\ d.page = file
    <3>1. fds'[e] = [d EXCEPT !.page = new, !.modified = FALSE]
      BY <1>10, <2>1, <2>4
    <3>2. fds'[e] \in Desc /\ fds'[e].page = new /\ fds'[e].modified = FALSE
      BY <1>4, <2>2, <2>4, <3>1 DEF Desc
    <3> QED BY <1>4, <3>2
  <2>5. CASE e # f /\ ~(d # NULL /\ d.page = file)
    <3>1. fds'[e] = d
      BY <1>10, <2>1, <2>5
    <3> QED BY <1>1, <1>2, <2>1, <2>2, <2>5, <3>1 DEF IInv, Descriptors, Removed, Linked
  <2> QED BY <2>3, <2>4, <2>5
<1>12. Typed'
  <2>1. fds' \in [Fd -> Desc \cup {NULL}]
    <3>1. fds' = [e \in Fd |-> fds'[e]]
      BY DEF MergeEnds
    <3> QED BY <1>11, <3>1
  <2> QED BY <1>1, <1>9, <2>1 DEF IInv, Typed
<1>13. Descriptors'
  BY <1>1, <1>11 DEF Descriptors, IsFile, Active, IsFree, Modified
<1> QED BY <1>7, <1>8, <1>9, <1>12, <1>13 DEF IInv

LEMMA RestartKeeps ==
  ASSUME IInv, Restart
  PROVE  IInv'
<1>1. flash' = flash /\ promised' = promised /\ torn \subseteq torn' /\ torn' \subseteq Name
      /\ restarts' \in 0..MaxRestarts /\ task' = Idle /\ task'.pc = "idle"
      /\ fds' = [fd \in Fd |-> NULL]
  BY IdleFacts, SizeAssumption DEF Restart, IInv, Typed
<1>2. Prefix' /\ Logs' /\ Kept'
  BY <1>1, SameFlash
<1>3. OneFile'
  <2> SUFFICES ASSUME NEW n \in Name, n \notin torn', NEW p \in Page, NEW q \in Page,
                      Named(p, <<n, "file">>)', Named(q, <<n, "file">>)', p # q
               PROVE  FALSE
    BY DEF OneFile
  <2>1. Cardinality(Found(<<n, "file">>)) <= 1
    <3>1. Found(<<n, "file">>) = {r \in Page : Named(r, <<n, "file">>)}
      BY FindsAll DEF IInv
    <3>2. IsFiniteSet(Found(<<n, "file">>))
      BY <3>1, PagesAreFinite, FS_Subset
    <3>3. Cardinality(Found(<<n, "file">>)) \in Nat
      BY <3>2, FS_CardinalityType
    <3>4. ~(Cardinality(Found(<<n, "file">>)) > 1)
      BY DEF Restart
    <3> QED BY <3>3, <3>4
  <2>2. p \in Found(<<n, "file">>) /\ q \in Found(<<n, "file">>)
    <3>1. Named(p, <<n, "file">>) /\ Named(q, <<n, "file">>)
      BY <1>1 DEF Named, Active, IsFree
    <3> QED BY <3>1, FindsAll DEF IInv
  <2>3. {p, q} \in SUBSET Found(<<n, "file">>)
    BY <2>2
  <2>4. Cardinality({p, q}) = 2
    <3>1. IsFiniteSet({p}) /\ Cardinality({p}) = 1
      BY FS_Singleton
    <3>2. q \notin {p}
      OBVIOUS
    <3>3. Cardinality({p} \cup {q}) = Cardinality({p}) + 1
      BY <3>1, <3>2, FS_AddElement, Zenon
    <3>4. {p} \cup {q} = {p, q}
      OBVIOUS
    <3> QED BY <3>1, <3>3, <3>4
  <2>5. IsFiniteSet(Found(<<n, "file">>))
    <3>1. Found(<<n, "file">>) \in SUBSET Page
      BY FindsAll DEF IInv
    <3> QED BY <3>1, PagesAreFinite, FS_Subset
  <2>6. Cardinality({p, q}) <= Cardinality(Found(<<n, "file">>))
    BY <2>3, <2>5, FS_Subset
  <2>7. Cardinality(Found(<<n, "file">>)) \in Nat
    BY <2>5, FS_CardinalityType
  <2> QED BY <2>1, <2>4, <2>6, <2>7
<1>4. Typed'
  BY <1>1 DEF IInv, Typed
<1>5. Descriptors'
  BY <1>1 DEF Descriptors
<1>6. Calls'
  BY <1>1 DEF Calls
<1> QED BY <1>2, <1>3, <1>4, <1>5, <1>6 DEF IInv

--------------------------------------------------------------------------------
(* Steps that write one header                                                  *)

\* The step takes no page and frees none.
SameFree == \A p \in Page : IsFree(p)' <=> IsFree(p)

LEMMA WroteHeader ==
  ASSUME Typed, NEW p \in Page, NEW h \in Header, flash' = [flash EXCEPT ![p] = h]
  PROVE  /\ flash' \in [Page -> Header \cup {NULL}] /\ flash'[p] = h
         /\ \A q \in Page \ {p} : flash'[q] = flash[q]
BY DEF Typed

\* A page that was not free is none of the free ones.
LEMMA PrefixStays ==
  ASSUME Prefix, NEW p \in Page, ~IsFree(p), ~IsFree(p)',
         \A q \in Page \ {p} : flash'[q] = flash[q]
  PROVE  Prefix'
BY DEF Prefix, IsFree

\* A log, an active page that has one, and its file are different pages.
LEMMA LogOfFile ==
  ASSUME Typed, Logs, NEW p \in Page, Active(p), Modified(p)
  PROVE  /\ flash[p].log_page \in Page /\ flash[p].log_page # p /\ IsFile(p)
         /\ Named(flash[p].log_page, <<flash[p].name[1], "log">>) /\ ~IsFile(flash[p].log_page)
<1>1. flash[p] \in Header /\ flash[p].log_page \in Page
  BY DEF Typed, Active, IsFree, Header
<1>2. IsFile(p) /\ Named(flash[p].log_page, <<flash[p].name[1], "log">>)
  BY DEF Logs, IsFile
<1>3. ~IsFile(flash[p].log_page)
  BY <1>2 DEF Named, IsFile
<1> QED BY <1>1, <1>2, <1>3

LEMMA ZeroIsPage == 0 \in Page
<1>1. NumSectors * PagesPerSector >= 1
  BY SizeAssumption
<1>2. NumSectors * PagesPerSector \in Int
  BY SizeAssumption
<1> QED BY <1>1, <1>2 DEF Page

\* What the write of a new header keeps.
LEMMA NewHeader ==
  ASSUME IInv, NEW p \in Page, NEW h \in Header, IsFree(p),
         \A q \in Page : SameSector(p, q) /\ q < p => ~IsFree(q),
         h.flags = {}, flash' = [flash EXCEPT ![p] = h]
  PROVE  /\ Prefix' /\ Logs' /\ ~IsFree(p)' /\ Active(p)' /\ ~Modified(p)'
         /\ \A q \in Page : ~IsFree(q) => q # p /\ flash'[q] = flash[q]
         /\ \A q \in Page : Active(q)' <=> (q = p \/ Active(q))
<1>1. flash'[p] = h /\ \A q \in Page \ {p} : flash'[q] = flash[q]
  BY WroteHeader DEF IInv
<1>2. h # NULL
  BY PagesNotNull
<1>3. ~IsFree(p)' /\ Active(p)' /\ ~Modified(p)'
  BY <1>1, <1>2 DEF IsFree, Active, Modified
<1>4. \A q \in Page : ~IsFree(q) => q # p /\ flash'[q] = flash[q]
  BY <1>1
<1>5. \A q \in Page : Active(q)' <=> (q = p \/ Active(q))
  BY <1>1, <1>3 DEF Active, IsFree
<1>6. Prefix'
  <2> SUFFICES ASSUME NEW r \in Page, NEW q \in Page, SameSector(r, q), q <= r, ~IsFree(r)'
               PROVE  ~IsFree(q)'
    BY DEF Prefix, SameSector
  <2>1. CASE q = p
    BY <1>3, <2>1
  <2>2. CASE q # p /\ r = p
    <3>1. q < p
      BY <2>2, SectorOfPage
    <3> QED BY <1>1, <2>2, <3>1 DEF IsFree
  <2>3. CASE q # p /\ r # p
    BY <1>1, <2>3 DEF IInv, Prefix, IsFree
  <2> QED BY <2>1, <2>2, <2>3
<1>7. \A q \in Page : Active(q)' /\ Modified(q)' => q # p /\ Active(q) /\ Modified(q) /\ flash'[q] = flash[q]
  BY <1>1, <1>3, <1>5 DEF Modified
<1>8. \A q, name : q \in Page /\ Named(q, name) => Named(q, name)'
  BY <1>4, <1>5 DEF Named, Active
<1>9. Logs'
  <2>1. ASSUME NEW q \in Page, Active(q)', Modified(q)'
        PROVE  (flash[q].name[2] = "file" /\ Named(flash[q].log_page, <<flash[q].name[1], "log">>))'
    <3>1. Active(q) /\ Modified(q) /\ flash'[q] = flash[q]
      BY <1>7, <2>1
    <3>2. PICK l : l = flash[q].log_page
      OBVIOUS
    <3>3. l \in Page /\ Named(l, <<flash[q].name[1], "log">>) /\ flash[q].name[2] = "file"
      BY <3>1, <3>2, LogOfFile DEF IInv, IsFile
    <3>4. flash'[l] = flash[l] /\ Active(l)'
      BY <1>4, <1>5, <3>3 DEF Named, Active
    <3> QED BY <3>1, <3>2, <3>3, <3>4 DEF Named, Active, IsFree
  <2>2. ASSUME NEW q \in Page, NEW r \in Page, Active(q)', Modified(q)', Active(r)', Modified(r)',
               flash'[q].name = flash'[r].name
        PROVE  q = r
    BY <1>7, <2>2 DEF IInv, Logs
  <2> QED BY <2>1, <2>2 DEF Logs, Named
<1> QED BY <1>3, <1>4, <1>5, <1>6, <1>9

LEMMA ReserveWritesKeeps ==
  ASSUME IInv, ReserveWrites
  PROVE  /\ IInv' /\ Room # {}
         /\ \A q \in Page : ~IsFree(q) => ~IsFree(q)'
         /\ \A q \in Page \ {Min(Room)} : IsFree(q) => IsFree(q)'
<1>1. task.pc = "reserve" /\ Room # {} /\ torn' = torn /\ restarts' = restarts
  BY DEF ReserveWrites
<1>2. PICK r, p, h : r = task /\ p = Min(Room)
                     /\ h = [name |-> r.name, flags |-> {}, log_page |-> 0, whole |-> (r.purpose # "merge")]
  OBVIOUS
<1>3. r \in Reserves /\ Reserving(r)
  BY <1>1, <1>2, Shapes DEF IInv, Calls
<1>4. p \in Page /\ IsFree(p) /\ \A q \in Page : SameSector(p, q) /\ q < p => ~IsFree(q)
  BY <1>1, <1>2, RoomIsFree
<1>5. h \in Header /\ h.flags = {} /\ h.name = r.name /\ (h.whole <=> r.purpose # "merge")
  BY <1>2, <1>3, ZeroIsPage DEF Header, Reserves
<1>6. flash' = [flash EXCEPT ![p] = h]
  BY <1>2 DEF ReserveWrites
<1>7. /\ Prefix' /\ Logs' /\ ~IsFree(p)' /\ Active(p)' /\ ~Modified(p)'
      /\ \A q \in Page : ~IsFree(q) => q # p /\ flash'[q] = flash[q]
      /\ \A q \in Page : Active(q)' <=> (q = p \/ Active(q))
  BY <1>4, <1>5, <1>6, NewHeader
<1>8. flash' \in [Page -> Header \cup {NULL}] /\ flash'[p] = h
  BY <1>4, <1>5, <1>6, WroteHeader DEF IInv
<1>9. Unique
  BY <1>1, NoMerge, UniqueUnlessMerging DEF IInv
<1>10. \A q \in Page : \A name : Named(q, name)' <=> (q = p /\ name = r.name) \/ Named(q, name)
  BY <1>4, <1>5, <1>7, <1>8 DEF Named, Active
<1>11. \A q \in Page : IsFile(q) => q # p /\ IsFile(q)' /\ (Modified(q)' <=> Modified(q))
  BY <1>7 DEF IsFile, Active, Modified
<1>12. \A e \in Fd : fds[e] # NULL =>
         fds[e].page \in Page /\ IsFile(fds[e].page) /\ (fds[e].modified <=> Modified(fds[e].page))
  <2>1. \A e \in Fd : fds[e] # NULL => fds[e].page \in Page
    BY DEF IInv, Typed, Desc
  <2> QED BY <1>1, <2>1 DEF IInv, Descriptors, Removed, Linked
<1>13. r.name \in FileName /\ r.name = <<r.name[1], r.name[2]>> /\ r.name[1] \in Name
  BY <1>3 DEF Reserves, FileName
<1>14. ASSUME promised' = promised PROVE Kept'
  <2> SUFFICES ASSUME NEW n \in promised \ torn
               PROVE  \E q \in Page : Named(q, <<n, "file">>)' /\ flash'[q].whole
    BY <1>1, <1>14 DEF Kept, Named
  <2>1. PICK q \in Page : Named(q, <<n, "file">>) /\ flash[q].whole
    BY DEF IInv, Kept
  <2> QED BY <1>7, <1>10, <2>1 DEF Named, Active
<1>15. ASSUME fds' = fds, task'.pc \notin {"remove", "mark"} PROVE Descriptors'
  BY <1>11, <1>12, <1>15 DEF Descriptors
<1>16. ASSUME r.purpose \in {"reserve", "open"}, promised' = promised \cup {r.name[1]}, task' = Idle,
              fds' \in [Fd -> Desc \cup {NULL}], Descriptors'
       PROVE  IInv'
  <2>1. task'.pc = "idle" /\ r.name = <<r.name[1], "file">> /\ \A q \in Page : ~Named(q, r.name)
    BY <1>3, <1>13, <1>16, IdleFacts DEF Reserving, Creating
  <2>2. Typed'
    BY <1>1, <1>8, <1>13, <1>16 DEF IInv, Typed
  <2>3. OneFile'
    <3>1. ASSUME NEW n \in Name \ torn, NEW q \in Page, NEW s \in Page,
                 Named(q, <<n, "file">>)', Named(s, <<n, "file">>)'
          PROVE  q = s
      <4>1. (q = p /\ <<n, "file">> = r.name) \/ Named(q, <<n, "file">>)
        BY <1>10, <3>1
      <4>2. (s = p /\ <<n, "file">> = r.name) \/ Named(s, <<n, "file">>)
        BY <1>10, <3>1
      <4> QED BY <1>9, <2>1, <4>1, <4>2 DEF Unique
    <3> QED BY <1>1, <3>1 DEF OneFile, Named
  <2>4. Kept'
    <3> SUFFICES ASSUME NEW n \in promised' \ torn
                 PROVE  \E q \in Page : Named(q, <<n, "file">>)' /\ flash'[q].whole
      BY <1>1 DEF Kept, Named
    <3>1. CASE n = r.name[1]
      <4>1. <<n, "file">> = r.name
        BY <2>1, <3>1
      <4>2. Named(p, <<n, "file">>)' /\ flash'[p].whole
        BY <1>4, <1>5, <1>8, <1>10, <1>16, <4>1
      <4> QED BY <1>4, <4>2
    <3>2. CASE n # r.name[1]
      <4>1. PICK q \in Page : Named(q, <<n, "file">>) /\ flash[q].whole
        BY <1>16, <3>2 DEF IInv, Kept
      <4> QED BY <1>7, <1>10, <4>1 DEF Named, Active
    <3> QED BY <3>1, <3>2
  <2>5. Calls'
    BY <2>1 DEF Calls
  <2> QED BY <1>7, <1>16, <2>2, <2>3, <2>4, <2>5 DEF IInv
<1>17. ASSUME r.purpose = "reserve" PROVE IInv'
  <2>1. promised' = promised \cup {r.name[1]} /\ task' = Idle /\ fds' = fds
    BY <1>2, <1>17 DEF ReserveWrites
  <2>2. Descriptors'
    BY <1>15, <2>1, IdleFacts
  <2>3. fds' \in [Fd -> Desc \cup {NULL}]
    BY <2>1 DEF IInv, Typed
  <2> QED BY <1>16, <1>17, <2>1, <2>2, <2>3
<1>18. ASSUME r.purpose = "open" PROVE IInv'
  <2>1. PICK d : d = [page |-> p, write |-> TRUE, modified |-> FALSE]
    OBVIOUS
  <2>2. promised' = promised \cup {r.name[1]} /\ task' = Idle /\ fds' = [fds EXCEPT ![r.fd] = d]
    BY <1>2, <1>18, <2>1 DEF ReserveWrites
  <2>3. d \in Desc /\ d.page = p /\ d.modified = FALSE
    BY <1>4, <2>1 DEF Desc
  <2>4. r.fd \in Fd
    BY <1>3, <1>18 DEF Reserving, Creating
  <2>5. fds' \in [Fd -> Desc \cup {NULL}] /\ \A e \in Fd : fds'[e] = IF e = r.fd THEN d ELSE fds[e]
    BY <2>2, <2>3, <2>4 DEF IInv, Typed
  <2>6. IsFile(p)' /\ ~Modified(p)'
    <3>1. r.name[2] = "file"
      BY <1>3, <1>18 DEF Reserving, Creating
    <3> QED BY <1>5, <1>7, <1>8, <3>1 DEF IsFile
  <2>7. Descriptors'
    <3>1. ASSUME NEW e \in Fd, fds'[e] # NULL
          PROVE  (IsFile(fds[e].page) /\ (fds[e].modified <=> Modified(fds[e].page)))'
      <4>1. CASE e = r.fd
        BY <2>3, <2>5, <2>6, <4>1 DEF IsFile, Active, IsFree, Modified
      <4>2. CASE e # r.fd
        BY <1>11, <1>12, <2>5, <3>1, <4>2 DEF IsFile, Active, IsFree, Modified
      <4> QED BY <4>1, <4>2
    <3> QED BY <3>1 DEF Descriptors
  <2> QED BY <1>16, <1>18, <2>2, <2>5, <2>7
<1>19. ASSUME r.purpose = "log" PROVE IInv'
  <2>1. fds' = fds /\ promised' = promised /\ task' = [pc |-> "link", file |-> r.file, new |-> p]
    BY <1>2, <1>19 DEF ReserveWrites
  <2>2. /\ r.name[2] = "log" /\ \A q \in Page : ~Named(q, r.name)
        /\ r.file \in Page /\ Named(r.file, <<r.name[1], "file">>) /\ ~Modified(r.file)
    BY <1>3, <1>19 DEF Reserving, Logging
  <2>3. task' \in Links /\ task'.pc = "link" /\ task'.file = r.file /\ task'.new = p
    BY <1>4, <2>1, <2>2 DEF Links
  <2>4. Typed'
    BY <1>1, <1>8, <2>1, <2>3 DEF IInv, Typed
  <2>5. OneFile'
    <3>1. \A n : \A q \in Page : Named(q, <<n, "file">>)' => Named(q, <<n, "file">>)
      BY <1>10, <2>2
    <3> QED BY <1>1, <1>9, <3>1 DEF Unique, OneFile
  <2>6. Linking'
    <3>1. flash'[r.file] = flash[r.file] /\ Active(r.file)' /\ Active(r.file)
          /\ flash[r.file].name = <<r.name[1], "file">>
      BY <1>7, <2>2 DEF Named, Active
    <3>2. IsFile(r.file)' /\ ~Modified(r.file)'
      BY <2>2, <3>1 DEF IsFile, Modified
    <3>3. Named(p, <<r.name[1], "log">>)'
      BY <1>4, <1>10, <1>13, <2>2
    <3>4. ASSUME NEW q \in Page, Active(q)', Modified(q)', flash'[q].name = flash'[r.file].name PROVE FALSE
      <4>1. q # p
        BY <1>7, <3>4
      <4>2. Active(q) /\ flash'[q] = flash[q]
        BY <1>7, <3>4, <4>1 DEF Active
      <4>3. Modified(q) /\ flash[q].name[1] = r.name[1]
        BY <3>1, <3>4, <4>2 DEF Modified
      <4>4. flash[q].log_page \in Page /\ Named(flash[q].log_page, <<r.name[1], "log">>)
        BY <4>2, <4>3, LogOfFile DEF IInv
      <4> QED BY <1>13, <2>2, <4>4
    <3> QED BY <2>3, <3>1, <3>2, <3>3, <3>4 DEF Linking, IsFile, Named, Modified
  <2>7. Calls'
    BY <2>3, <2>6 DEF Calls
  <2>8. Descriptors'
    BY <1>15, <2>1, <2>3
  <2> QED BY <1>7, <1>14, <2>1, <2>4, <2>5, <2>7, <2>8 DEF IInv
<1>20. ASSUME r.purpose = "merge" PROVE IInv'
  <2>1. fds' = fds /\ promised' = promised
        /\ task' = [pc |-> "copy", file |-> r.file, from |-> r.from, new |-> p, fd |-> r.fd]
    BY <1>2, <1>20 DEF ReserveWrites
  <2>2. /\ r.name[2] = "file" /\ r.fd \in Fd
        /\ r.file \in Page /\ Named(r.file, r.name) /\ r.from \in Page /\ Named(r.from, r.name)
        /\ r.name[1] \in torn \/ r.from = r.file
    BY <1>3, <1>20 DEF Reserving, Merges
  <2>3. task' \in Copies /\ task'.pc = "copy" /\ task'.file = r.file /\ task'.new = p /\ task'.from = r.from
        /\ task'.fd = r.fd
    BY <1>4, <2>1, <2>2 DEF Copies
  <2>4. Typed'
    BY <1>1, <1>8, <2>1, <2>3 DEF IInv, Typed
  <2>5. OneFile'
    <3>1. ASSUME NEW n \in Name \ torn, NEW q \in Page, NEW s \in Page,
                 Named(q, <<n, "file">>)', Named(s, <<n, "file">>)', q # s
          PROVE  q \in {r.file, p} /\ s \in {r.file, p}
      <4>1. (q = p /\ <<n, "file">> = r.name) \/ Named(q, <<n, "file">>)
        BY <1>10, <3>1
      <4>2. (s = p /\ <<n, "file">> = r.name) \/ Named(s, <<n, "file">>)
        BY <1>10, <3>1
      <4>3. CASE <<n, "file">> = r.name
        BY <1>9, <2>2, <3>1, <4>1, <4>2, <4>3 DEF Unique
      <4>4. CASE <<n, "file">> # r.name
        BY <1>9, <3>1, <4>1, <4>2, <4>4 DEF Unique
      <4> QED BY <4>3, <4>4
    <3> QED BY <1>1, <2>3, <3>1 DEF OneFile, Named, Merging
  <2>6. Copying'
    <3>1. flash'[r.file] = flash[r.file] /\ IsFile(r.file)' /\ flash[r.file].name = r.name /\ r.file # p
      <4>1. IsFile(r.file)
        BY <2>2 DEF Named, IsFile
      <4> QED BY <1>7, <1>11, <2>2, <4>1 DEF Named, Active
    <3>2. r.from # p
      BY <1>4, <2>2 DEF Named, Active
    <3>3. Named(r.from, r.name)' /\ Named(p, r.name)'
      BY <1>4, <1>10, <2>2
    <3>4. ~flash'[p].whole
      BY <1>5, <1>8, <1>20
    <3> QED BY <1>1, <1>7, <2>2, <2>3, <3>1, <3>2, <3>3, <3>4 DEF Copying, IsFile, Named, Modified
  <2>7. Calls'
    BY <2>3, <2>6 DEF Calls
  <2>8. Descriptors'
    BY <1>15, <2>1, <2>3
  <2> QED BY <1>7, <1>14, <2>1, <2>4, <2>5, <2>7, <2>8 DEF IInv
<1>21. \A q \in Page : (~IsFree(q) => ~IsFree(q)') /\ (q # p /\ IsFree(q) => IsFree(q)')
  <2>1. \A q \in Page \ {p} : flash'[q] = flash[q]
    BY <1>4, <1>5, <1>6, WroteHeader DEF IInv
  <2> QED BY <1>7, <2>1 DEF IsFree
<1>22. r.purpose \in {"reserve", "open", "log", "merge"}
  BY <1>3 DEF Reserves
<1> QED BY <1>1, <1>2, <1>17, <1>18, <1>19, <1>20, <1>21, <1>22

LEMMA LinkKeeps ==
  ASSUME IInv, LinkLog
  PROVE  IInv' /\ SameFree
<1>1. task.pc = "link" /\ task \in Links /\ Linking /\ fds' = fds /\ promised' = promised /\ torn' = torn
      /\ restarts' = restarts
  BY Shapes DEF LinkLog, IInv, Calls
<1>2. PICK t, file, new : t = task /\ file = task.file /\ new = task.new
  OBVIOUS
<1>3. file \in Page /\ new \in Page /\ IsFile(file) /\ ~Modified(file)
      /\ Named(new, <<flash[file].name[1], "log">>)
      /\ \A p \in Page : Active(p) /\ Modified(p) => flash[p].name # flash[file].name
  BY <1>1, <1>2 DEF Linking, Links
<1>4. PICK o : o = flash[file]
  OBVIOUS
<1>5. o \in Header /\ o.name[2] = "file" /\ "OBSOLETE" \notin o.flags /\ o # NULL
  BY <1>3, <1>4, NameOfFile DEF IInv, IsFile, Active, IsFree
<1>6. PICK h : h = [o EXCEPT !.flags = @ \cup {"MODIFIED"}, !.log_page = new]
  OBVIOUS
<1>7. h \in Header /\ h.name = o.name /\ h.whole = o.whole /\ h.flags = o.flags \cup {"MODIFIED"} /\ h.log_page = new
  BY <1>3, <1>5, <1>6 DEF Header
<1>8. flash' = [flash EXCEPT ![file] = h]
  <2>1. flash' = [flash EXCEPT ![file].flags = @ \cup {"MODIFIED"}, ![file].log_page = new]
    BY <1>2 DEF LinkLog
  <2>2. flash \in [Page -> Header \cup {NULL}]
    BY DEF IInv, Typed
  <2> QED BY <1>3, <1>4, <1>5, <1>6, <2>1, <2>2 DEF Header
<1>9. flash' \in [Page -> Header \cup {NULL}] /\ flash'[file] = h /\ \A q \in Page \ {file} : flash'[q] = flash[q]
  BY <1>3, <1>7, <1>8, WroteHeader DEF IInv
<1>10. ~IsFree(file) /\ ~IsFree(file)' /\ Active(file) /\ Active(file)' /\ Modified(file)' /\ IsFile(file)'
  BY <1>3, <1>4, <1>5, <1>7, <1>9, PagesNotNull DEF IsFile, Active, IsFree, Modified
<1>11. \A q \in Page : (Active(q)' <=> Active(q)) /\ (Active(q) => flash'[q].name = flash[q].name /\ flash'[q].whole = flash[q].whole)
  BY <1>4, <1>7, <1>9, <1>10 DEF Active, IsFree
<1>12. \A q \in Page : \A name : Named(q, name)' <=> Named(q, name)
  BY <1>11 DEF Named
<1>13. PICK u : u = [t EXCEPT !.pc = "mark"]
  OBVIOUS
<1>14. u \in Links /\ u.pc = "mark" /\ u.file = file /\ u.new = new
  BY <1>1, <1>2, <1>13 DEF Links
<1>15. task' = u
  BY <1>2, <1>13 DEF LinkLog
<1>16. Typed'
  BY <1>1, <1>9, <1>14, <1>15 DEF IInv, Typed
<1>17. Prefix'
  BY <1>3, <1>9, <1>10, PrefixStays DEF IInv
<1>18. file # new /\ Active(new)' /\ flash'[new] = flash[new] /\ flash[new].name = <<o.name[1], "log">> /\ ~IsFree(new)
  <2>1. file # new
    BY <1>3, <1>4, <1>5 DEF Named
  <2> QED BY <1>3, <1>4, <1>9, <1>11, <2>1 DEF Named, Active
<1>19. Logs'
  <2>1. ASSUME NEW q \in Page, Active(q)', Modified(q)'
        PROVE  (flash[q].name[2] = "file" /\ Named(flash[q].log_page, <<flash[q].name[1], "log">>))'
    <3>1. CASE q = file
      BY <1>5, <1>7, <1>9, <1>18, <3>1 DEF Named, Active, IsFree
    <3>2. CASE q # file
      <4>1. Active(q) /\ Modified(q) /\ flash'[q] = flash[q]
        BY <1>9, <1>11, <2>1, <3>2 DEF Modified
      <4>2. PICK l : l = flash[q].log_page
        OBVIOUS
      <4>3. l \in Page /\ Named(l, <<flash[q].name[1], "log">>) /\ flash[q].name[2] = "file"
        BY <4>1, <4>2, LogOfFile DEF IInv, IsFile
      <4>4. Named(l, <<flash[q].name[1], "log">>)'
        BY <1>11, <4>1, <4>3 DEF Named
      <4> QED BY <4>1, <4>2, <4>3, <4>4 DEF Named, Active, IsFree
    <3> QED BY <3>1, <3>2
  <2>2. ASSUME NEW q \in Page, NEW r \in Page, Active(q)', Modified(q)', Active(r)', Modified(r)',
               flash'[q].name = flash'[r].name
        PROVE  q = r
    <3>1. \A s \in Page \ {file} : Active(s)' /\ Modified(s)' => Active(s) /\ Modified(s) /\ flash[s].name # o.name
                                   /\ flash'[s].name = flash[s].name
      BY <1>3, <1>4, <1>9, <1>11 DEF Modified
    <3>2. flash'[file].name = o.name
      BY <1>7, <1>9
    <3> QED BY <2>2, <3>1, <3>2 DEF IInv, Logs
  <2> QED BY <2>1, <2>2 DEF Logs, Named
<1>20. OneFile'
  <2>1. Unique
    BY <1>1, NoMerge, UniqueUnlessMerging DEF IInv
  <2> QED BY <1>1, <1>12, <2>1 DEF Unique, OneFile
<1>21. Kept'
  <2> SUFFICES ASSUME NEW n \in promised \ torn
               PROVE  \E q \in Page : Named(q, <<n, "file">>)' /\ flash'[q].whole
    BY <1>1 DEF Kept, Named
  <2>1. PICK q \in Page : Named(q, <<n, "file">>) /\ flash[q].whole
    BY DEF IInv, Kept
  <2> QED BY <1>11, <1>12, <2>1 DEF Named
<1>22. Descriptors'
  <2>1. ASSUME NEW e \in Fd, fds[e] # NULL
        PROVE  IsFile(fds[e].page)' /\ (fds[e].page = file \/ (fds[e].modified <=> Modified(fds[e].page)'))
    <3>1. PICK p : p = fds[e].page
      OBVIOUS
    <3>2. p \in Page /\ IsFile(p) /\ (fds[e].modified <=> Modified(p))
      <4>1. p \in Page
        BY <2>1, <3>1 DEF IInv, Typed, Desc
      <4> QED BY <1>1, <2>1, <3>1, <4>1 DEF IInv, Descriptors, Removed, Linked
    <3>3. IsFile(p)' /\ (p = file \/ (Modified(p)' <=> Modified(p)))
      BY <1>9, <1>11, <3>2 DEF IsFile, Modified
    <3> QED BY <1>1, <3>1, <3>2, <3>3 DEF IsFile, Active, IsFree, Modified
  <2> QED BY <1>1, <1>14, <1>15, <2>1 DEF Descriptors, Linked
<1>23. Calls'
  <2>1. Marking'
    BY <1>10, <1>14, <1>15, <1>18 DEF Marking, IsFile, Active, Modified, IsFree
  <2> QED BY <1>14, <1>15, <2>1 DEF Calls
<1>24. SameFree
  BY <1>9, <1>10 DEF SameFree, IsFree
<1> QED BY <1>16, <1>17, <1>19, <1>20, <1>21, <1>22, <1>23, <1>24 DEF IInv

\* What a write keeps that changes neither the name of a page nor whether it is active,
\* modified or whole.
LEMMA SameHeaders ==
  ASSUME IInv, torn' = torn, promised' = promised,
         \A q \in Page : (IsFree(q)' <=> IsFree(q)) /\ (Active(q)' <=> Active(q)),
         \A q \in Page : ~IsFree(q) => /\ (Modified(q)' <=> Modified(q))
                                       /\ flash'[q].name = flash[q].name /\ flash'[q].log_page = flash[q].log_page
  PROVE  /\ Prefix' /\ Logs' /\ (Unique => Unique')
         /\ \A q \in Page : \A name : Named(q, name)' <=> Named(q, name)
         /\ \A q \in Page : IsFile(q) => IsFile(q)' /\ (Modified(q)' <=> Modified(q))
<1>1. Prefix'
  BY DEF IInv, Prefix, SameSector
<1>2. \A q \in Page : \A name : Named(q, name)' <=> Named(q, name)
  BY DEF Named, Active
<1>3. \A q \in Page : IsFile(q) => IsFile(q)' /\ (Modified(q)' <=> Modified(q))
  BY DEF IsFile, Active
<1>4. Unique => Unique'
  BY <1>2 DEF Unique
<1>5. \A q \in Page : Active(q)' /\ Modified(q)' => Active(q) /\ Modified(q)
        /\ flash'[q].name = flash[q].name /\ flash'[q].log_page = flash[q].log_page
  BY DEF Active
<1>6. Logs'
  <2>1. ASSUME NEW q \in Page, Active(q)', Modified(q)'
        PROVE  (flash[q].name[2] = "file" /\ Named(flash[q].log_page, <<flash[q].name[1], "log">>))'
    <3>1. Active(q) /\ Modified(q) /\ flash'[q].name = flash[q].name /\ flash'[q].log_page = flash[q].log_page
      BY <1>5, <2>1
    <3>2. PICK l : l = flash[q].log_page
      OBVIOUS
    <3>3. l \in Page /\ Named(l, <<flash[q].name[1], "log">>) /\ flash[q].name[2] = "file"
      BY <3>1, <3>2, LogOfFile DEF IInv, IsFile
    <3>4. Active(l)' /\ flash'[l].name = <<flash[q].name[1], "log">>
      BY <3>3 DEF Named, Active
    <3> QED BY <3>1, <3>2, <3>3, <3>4 DEF Named, Active, IsFree
  <2>2. ASSUME NEW q \in Page, NEW r \in Page, Active(q)', Modified(q)', Active(r)', Modified(r)',
               flash'[q].name = flash'[r].name
        PROVE  q = r
    BY <1>5, <2>2 DEF IInv, Logs
  <2> QED BY <2>1, <2>2 DEF Logs, Named
<1> QED BY <1>1, <1>2, <1>3, <1>4, <1>6

LEMMA MarkKeeps ==
  ASSUME IInv, MarkLog
  PROVE  IInv' /\ SameFree
<1>1. task.pc = "mark" /\ task \in Links /\ Marking /\ promised' = promised /\ torn' = torn
      /\ restarts' = restarts /\ task' = Idle /\ task'.pc = "idle"
  BY Shapes, IdleFacts DEF MarkLog, IInv, Calls
<1>2. PICK file, new : file = task.file /\ new = task.new
  OBVIOUS
<1>3. file \in Page /\ new \in Page /\ IsFile(file) /\ Modified(file) /\ ~IsFree(new)
  BY <1>1, <1>2 DEF Marking, Links
<1>4. PICK o : o = flash[new]
  OBVIOUS
<1>5. o \in Header /\ o # NULL
  BY <1>3, <1>4 DEF IInv, Typed, IsFree
<1>6. PICK h : h = [o EXCEPT !.flags = @ \cup {"LOG"}]
  OBVIOUS
<1>7. h \in Header /\ h.name = o.name /\ h.whole = o.whole /\ h.flags = o.flags \cup {"LOG"} /\ h.log_page = o.log_page
  BY <1>5, <1>6 DEF Header
<1>8. flash' = [flash EXCEPT ![new] = h]
  BY <1>2, <1>4, <1>6 DEF MarkLog
<1>9. flash' \in [Page -> Header \cup {NULL}] /\ flash'[new] = h /\ \A q \in Page \ {new} : flash'[q] = flash[q]
  BY <1>3, <1>7, <1>8, WroteHeader DEF IInv
<1>10. /\ \A q \in Page : (IsFree(q)' <=> IsFree(q)) /\ (Active(q)' <=> Active(q))
       /\ \A q \in Page : ~IsFree(q) =>
            /\ (Modified(q)' <=> Modified(q)) /\ flash'[q].name = flash[q].name
            /\ flash'[q].log_page = flash[q].log_page /\ flash'[q].whole = flash[q].whole
  <2>1. ~IsFree(new)' /\ (Active(new)' <=> Active(new)) /\ (Modified(new)' <=> Modified(new))
    BY <1>3, <1>4, <1>5, <1>7, <1>9, PagesNotNull DEF IsFree, Active, Modified
  <2> QED BY <1>3, <1>4, <1>7, <1>9, <2>1 DEF IsFree, Active, Modified
<1>11. Unique
  BY <1>1, NoMerge, UniqueUnlessMerging DEF IInv
<1>12. /\ Prefix' /\ Logs' /\ Unique'
       /\ \A q \in Page : \A name : Named(q, name)' <=> Named(q, name)
       /\ \A q \in Page : IsFile(q) => IsFile(q)' /\ (Modified(q)' <=> Modified(q))
  BY <1>1, <1>10, <1>11, SameHeaders
<1>13. OneFile'
  BY <1>12 DEF Unique, OneFile
<1>14. Kept'
  <2> SUFFICES ASSUME NEW n \in promised \ torn
               PROVE  \E q \in Page : Named(q, <<n, "file">>)' /\ flash'[q].whole
    BY <1>1 DEF Kept, Named
  <2>1. PICK q \in Page : Named(q, <<n, "file">>) /\ flash[q].whole
    BY DEF IInv, Kept
  <2> QED BY <1>10, <1>12, <2>1 DEF Named, Active
<1>15. \A e \in Fd : fds'[e] = IF fds[e] # NULL /\ fds[e].page = file
                               THEN [fds[e] EXCEPT !.modified = TRUE] ELSE fds[e]
  BY <1>2 DEF MarkLog
<1>16. ASSUME NEW e \in Fd
       PROVE  /\ fds'[e] \in Desc \cup {NULL}
              /\ fds'[e] # NULL => (IsFile(fds[e].page) /\ (fds[e].modified <=> Modified(fds[e].page)))'
  <2>1. PICK d : d = fds[e]
    OBVIOUS
  <2>2. d \in Desc \cup {NULL}
    BY <2>1 DEF IInv, Typed
  <2>3. CASE d # NULL /\ d.page = file
    <3>1. fds'[e] = [d EXCEPT !.modified = TRUE]
      BY <1>15, <2>1, <2>3
    <3>2. fds'[e] \in Desc /\ fds'[e].page = file /\ fds'[e].modified = TRUE
      BY <2>2, <2>3, <3>1 DEF Desc
    <3>3. IsFile(file)' /\ Modified(file)'
      BY <1>3, <1>12
    <3> QED BY <3>2, <3>3 DEF IsFile, Active, IsFree, Modified
  <2>4. CASE ~(d # NULL /\ d.page = file)
    <3>1. fds'[e] = d
      BY <1>15, <2>1, <2>4
    <3>2. d # NULL => d.page \in Page /\ IsFile(d.page) /\ (d.modified <=> Modified(d.page))
      <4>1. d # NULL => d.page \in Page
        BY <2>2 DEF Desc
      <4> QED BY <1>1, <1>2, <2>1, <2>4, <4>1 DEF IInv, Descriptors, Removed, Linked
    <3>3. d # NULL => IsFile(d.page)' /\ (d.modified <=> Modified(d.page)')
      BY <1>12, <3>2
    <3> QED BY <2>2, <3>1, <3>3 DEF IsFile, Active, IsFree, Modified
  <2> QED BY <2>3, <2>4
<1>17. Typed'
  <2>1. fds' \in [Fd -> Desc \cup {NULL}]
    <3>1. fds' = [e \in Fd |-> fds'[e]]
      BY DEF MarkLog
    <3> QED BY <1>16, <3>1
  <2> QED BY <1>1, <1>9, <2>1 DEF IInv, Typed
<1>18. Descriptors'
  BY <1>16 DEF Descriptors
<1>19. Calls'
  BY <1>1 DEF Calls
<1>20. SameFree
  BY <1>10 DEF SameFree
<1> QED BY <1>12, <1>13, <1>14, <1>17, <1>18, <1>19, <1>20 DEF IInv

LEMMA CopyKeeps ==
  ASSUME IInv, Copy
  PROVE  IInv' /\ SameFree
<1>1. task.pc = "copy" /\ task \in Copies /\ Copying /\ fds' = fds /\ promised' = promised /\ torn' = torn
      /\ restarts' = restarts
  BY Shapes DEF Copy, IInv, Calls
<1>2. PICK file, from, new, fd : file = task.file /\ from = task.from /\ new = task.new /\ fd = task.fd
  OBVIOUS
<1>3. PICK name : name = flash[file].name
  OBVIOUS
<1>4. /\ file \in Page /\ from \in Page /\ new \in Page /\ fd \in Fd
      /\ IsFile(file) /\ Named(file, name) /\ Named(from, name) /\ Named(new, name)
      /\ new # file /\ new # from /\ ~Modified(new) /\ ~flash[new].whole
      /\ name[1] \in torn \/ from = file
  BY <1>1, <1>2, <1>3 DEF Copying, Copies, IsFile, Named
<1>5. name \in FileName /\ name[1] \in Name /\ name = <<name[1], "file">> /\ flash[file] \in Header
  BY <1>3, <1>4, NameOfFile DEF IInv
<1>6. PICK o, w : o = flash[new] /\ w = flash[from].whole
  OBVIOUS
<1>7. o \in Header /\ o # NULL /\ w \in BOOLEAN
  BY <1>4, <1>6 DEF IInv, Typed, Named, Active, IsFree, Header
<1>8. PICK h : h = [o EXCEPT !.whole = w]
  OBVIOUS
<1>9. h \in Header /\ h.name = o.name /\ h.whole = w /\ h.flags = o.flags /\ h.log_page = o.log_page
  BY <1>7, <1>8 DEF Header
<1>10. flash' = [flash EXCEPT ![new] = h]
  BY <1>2, <1>6, <1>8 DEF Copy
<1>11. flash' \in [Page -> Header \cup {NULL}] /\ flash'[new] = h /\ \A q \in Page \ {new} : flash'[q] = flash[q]
  BY <1>4, <1>9, <1>10, WroteHeader DEF IInv
<1>12. /\ \A q \in Page : (IsFree(q)' <=> IsFree(q)) /\ (Active(q)' <=> Active(q))
       /\ \A q \in Page : ~IsFree(q) =>
            /\ (Modified(q)' <=> Modified(q)) /\ flash'[q].name = flash[q].name
            /\ flash'[q].log_page = flash[q].log_page
  <2>1. ~IsFree(new) /\ ~IsFree(new)' /\ (Active(new)' <=> Active(new)) /\ (Modified(new)' <=> Modified(new))
    BY <1>4, <1>6, <1>7, <1>9, <1>11, PagesNotNull DEF IsFree, Active, Modified
  <2> QED BY <1>4, <1>6, <1>9, <1>11, <2>1 DEF IsFree, Active, Modified
<1>13. /\ Prefix' /\ Logs'
       /\ \A q \in Page : \A m : Named(q, m)' <=> Named(q, m)
       /\ \A q \in Page : IsFile(q) => IsFile(q)' /\ (Modified(q)' <=> Modified(q))
  BY <1>1, <1>12, SameHeaders
<1>14. PICK m : m = InOrder(file)
  OBVIOUS
<1>15. m \in Seq(Page)
  <2>1. flash[file].log_page \in Page
    BY <1>5 DEF Header
  <2> QED BY <1>4, <1>14, <2>1 DEF InOrder
<1>16. task' = [pc |-> "remove", file |-> file, marks |-> m, new |-> new, fd |-> fd]
  BY <1>2, <1>14 DEF Copy, Remove
<1>17. task' \in Removes /\ task'.pc = "remove" /\ task'.file = file /\ task'.marks = m /\ task'.new = new
       /\ task'.fd = fd
  BY <1>4, <1>15, <1>16 DEF Removes
<1>18. new # NULL
  BY <1>4, PagesNotNull
<1>19. Typed'
  BY <1>1, <1>11, <1>17 DEF IInv, Typed
<1>20. OneFile'
  BY <1>1, <1>2, <1>13, <1>17, <1>18 DEF IInv, OneFile, Merging, Named
<1>21. \A q \in Page \ {new} : flash'[q].whole = flash[q].whole
  BY <1>11
<1>22. Kept'
  <2> SUFFICES ASSUME NEW n \in promised \ torn
               PROVE  \E q \in Page : Named(q, <<n, "file">>)' /\ flash'[q].whole
    BY <1>1 DEF Kept, Named
  <2>1. PICK q \in Page : Named(q, <<n, "file">>) /\ flash[q].whole
    BY DEF IInv, Kept
  <2>2. q # new
    BY <1>4, <2>1
  <2> QED BY <1>13, <1>21, <2>1, <2>2
<1>23. Descriptors'
  <2>1. ASSUME NEW e \in Fd, fds[e] # NULL
        PROVE  (IsFile(fds[e].page) /\ (fds[e].modified <=> Modified(fds[e].page)))'
    <3>1. PICK p : p = fds[e].page
      OBVIOUS
    <3>2. p \in Page /\ IsFile(p) /\ (fds[e].modified <=> Modified(p))
      <4>1. p \in Page
        BY <2>1, <3>1 DEF IInv, Typed, Desc
      <4> QED BY <1>1, <2>1, <3>1, <4>1 DEF IInv, Descriptors, Removed, Linked
    <3>3. IsFile(p)' /\ (Modified(p)' <=> Modified(p))
      BY <1>13, <3>2
    <3> QED BY <1>1, <3>1, <3>2, <3>3 DEF IsFile, Active, IsFree, Modified
  <2> QED BY <1>1, <2>1 DEF Descriptors
<1>24. Calls'
  <2>1. flash'[file] = flash[file] /\ Active(file)' /\ Active(file)
    BY <1>4, <1>11, <1>12 DEF Named
  <2>2. Marks'
    <3>1. m = InOrder(file)'
      BY <1>14, <2>1 DEF InOrder, Modified
    <3> QED BY <1>17, <2>1, <3>1 DEF Marks, Active, IsFree, InOrder, Modified
  <2>3. name[1] \in promised \ torn => flash'[new].whole
    <3>1. ASSUME name[1] \in promised \ torn PROVE flash[file].whole
      <4>1. PICK q \in Page : Named(q, name) /\ flash[q].whole
        BY <1>5, <3>1 DEF IInv, Kept
      <4>2. q # new
        BY <1>4, <4>1
      <4>3. q = file \/ q \in {file, new}
        BY <1>2, <1>4, <1>5, <3>1, <4>1 DEF IInv, OneFile
      <4> QED BY <4>1, <4>2, <4>3
    <3> QED BY <1>4, <1>6, <1>9, <1>11, <3>1
  <2>4. Named(new, name)' /\ ~Modified(new)'
    BY <1>4, <1>12, <1>13 DEF Named, Active
  <2>5. Replaced'
    BY <1>1, <1>3, <1>4, <1>17, <2>1, <2>3, <2>4 DEF Replaced, Named, Modified
  <2>6. Removing'
    BY <1>1, <1>3, <1>4, <1>17, <1>18, <2>1, <2>2, <2>5 DEF Removing, Active, IsFree, IsFile
  <2> QED BY <1>17, <2>6 DEF Calls
<1>25. SameFree
  BY <1>12 DEF SameFree
<1> QED BY <1>13, <1>19, <1>20, <1>22, <1>23, <1>24, <1>25 DEF IInv

\* The step that marks a page: what it does to the header and the call.
LEMMA Marked ==
  ASSUME IInv, MarkObsolete, NEW p \in Page, p = Head(task.marks), ~IsFree(p)
  PROVE  /\ flash' \in [Page -> Header \cup {NULL}] /\ \A q \in Page \ {p} : flash'[q] = flash[q]
         /\ ~IsFree(p)' /\ ~Active(p)' /\ flash'[p].name = flash[p].name
         /\ task' \in Removes /\ task'.pc = "remove" /\ task'.file = task.file
         /\ task'.marks = Tail(task.marks) /\ task'.new = task.new /\ task'.fd = task.fd
         /\ Typed' /\ Prefix'
<1>1. task.pc = "remove" /\ task.marks # <<>> /\ task \in Removes /\ fds' = fds /\ promised' = promised
      /\ torn' = torn /\ restarts' = restarts
  BY Shapes DEF MarkObsolete, IInv
<1>2. PICK o : o = flash[p]
  OBVIOUS
<1>3. o \in Header /\ o # NULL
  BY <1>2 DEF IInv, Typed, IsFree
<1>4. PICK h : h = [o EXCEPT !.flags = @ \cup {"OBSOLETE"}]
  OBVIOUS
<1>5. h \in Header /\ h.name = o.name /\ h.flags = o.flags \cup {"OBSOLETE"}
  BY <1>3, <1>4 DEF Header
<1>6. flash' = [flash EXCEPT ![p] = h]
  BY <1>2, <1>4 DEF MarkObsolete
<1>7. flash' \in [Page -> Header \cup {NULL}] /\ flash'[p] = h /\ \A q \in Page \ {p} : flash'[q] = flash[q]
  BY <1>5, <1>6, WroteHeader DEF IInv
<1>8. ~IsFree(p)' /\ ~Active(p)' /\ flash'[p].name = flash[p].name
  BY <1>2, <1>5, <1>7, PagesNotNull DEF IsFree, Active
<1>9. PICK t, m : t = task /\ m = Tail(task.marks)
  OBVIOUS
<1>10. task' = [t EXCEPT !.marks = m]
  BY <1>9 DEF MarkObsolete
<1>11. m \in Seq(Page)
  BY <1>1, <1>9 DEF Removes
<1>12. task' \in Removes /\ task'.pc = "remove" /\ task'.file = t.file /\ task'.marks = m
       /\ task'.new = t.new /\ task'.fd = t.fd
  BY <1>1, <1>9, <1>10, <1>11 DEF Removes
<1>13. Typed'
  BY <1>1, <1>7, <1>12 DEF IInv, Typed
<1>14. Prefix'
  BY <1>7, <1>8, PrefixStays DEF IInv
<1> QED BY <1>7, <1>8, <1>9, <1>12, <1>13, <1>14

LEMMA MarkObsoleteKeeps ==
  ASSUME IInv, MarkObsolete
  PROVE  IInv' /\ SameFree
<1>1. task.pc = "remove" /\ task.marks # <<>> /\ task \in Removes /\ Removing /\ fds' = fds
      /\ promised' = promised /\ torn' = torn
  BY Shapes DEF MarkObsolete, IInv, Calls
<1>2. PICK file, new : file = task.file /\ new = task.new
  OBVIOUS
<1>3. file \in Page /\ ~IsFree(file) /\ flash[file].name[2] = "file" /\ Marks
      /\ (new = NULL => flash[file].name[1] \notin promised) /\ (new # NULL => Replaced)
  BY <1>1, <1>2 DEF Removing, Removes
<1>4. flash[file] \in Header /\ flash[file].name = <<flash[file].name[1], "file">> /\ flash[file].name[1] \in Name
      /\ flash[file].log_page \in Page
  <2>1. flash[file] \in Header
    BY <1>3 DEF IInv, Typed, IsFree
  <2> QED BY <1>3, <2>1 DEF Header, FileName
<1>5. \A e \in Fd : fds[e] # NULL /\ fds[e].page # file =>
        fds[e].page \in Page /\ IsFile(fds[e].page) /\ (fds[e].modified <=> Modified(fds[e].page))
  <2>1. \A e \in Fd : fds[e] # NULL => fds[e].page \in Page
    BY DEF IInv, Typed, Desc
  <2> QED BY <1>1, <1>2, <2>1 DEF IInv, Descriptors, Removed, Linked
<1>6. ASSUME NEW p \in Page, p = Head(task.marks), ~IsFree(p), p = file \/ (flash[p].name[2] = "log" /\ p # file),
             \A q \in Page \ {p} : Active(q) /\ Modified(q) => flash[q].log_page # p,
             Marks'
      PROVE  IInv' /\ SameFree
  <2>1. /\ \A q \in Page \ {p} : flash'[q] = flash[q]
        /\ ~IsFree(p)' /\ ~Active(p)' /\ flash'[p].name = flash[p].name
        /\ task' \in Removes /\ task'.pc = "remove" /\ task'.file = file /\ task'.new = new /\ task'.fd = task.fd
        /\ Typed' /\ Prefix'
    BY <1>2, <1>6, Marked
  <2>2. \A q \in Page : Active(q)' => q # p /\ Active(q) /\ flash'[q] = flash[q]
    BY <2>1 DEF Active, IsFree
  <2>3. \A q \in Page \ {p} : Active(q) => Active(q)' /\ flash'[q] = flash[q]
    BY <2>1 DEF Active, IsFree
  <2>4. \A q \in Page : \A name : Named(q, name)' => Named(q, name) /\ q # p
    BY <2>2 DEF Named
  <2>5. Logs'
    <3>1. ASSUME NEW q \in Page, Active(q)', Modified(q)'
          PROVE  (flash[q].name[2] = "file" /\ Named(flash[q].log_page, <<flash[q].name[1], "log">>))'
      <4>1. q # p /\ Active(q) /\ Modified(q) /\ flash'[q] = flash[q]
        BY <2>2, <3>1 DEF Modified
      <4>2. PICK l : l = flash[q].log_page
        OBVIOUS
      <4>3. l \in Page /\ Named(l, <<flash[q].name[1], "log">>) /\ flash[q].name[2] = "file"
        BY <4>1, <4>2, LogOfFile DEF IInv, IsFile
      <4>4. l # p
        BY <1>6, <4>1, <4>2
      <4>5. Active(l)' /\ flash'[l] = flash[l]
        BY <2>3, <4>3, <4>4 DEF Named
      <4> QED BY <4>1, <4>2, <4>3, <4>5 DEF Named, Active, IsFree
    <3>2. ASSUME NEW q \in Page, NEW r \in Page, Active(q)', Modified(q)', Active(r)', Modified(r)',
                 flash'[q].name = flash'[r].name
          PROVE  q = r
      <4>1. Active(q) /\ Modified(q) /\ Active(r) /\ Modified(r) /\ flash[q].name = flash[r].name
        BY <2>2, <3>2 DEF Modified
      <4> QED BY <4>1 DEF IInv, Logs
    <3> QED BY <3>1, <3>2 DEF Logs, Named
  <2>6. OneFile'
    BY <1>1, <1>2, <2>1, <2>4 DEF IInv, OneFile, Merging, Named
  <2>7. Kept'
    <3> SUFFICES ASSUME NEW n \in promised \ torn
                 PROVE  \E q \in Page : Named(q, <<n, "file">>)' /\ flash'[q].whole
      BY <1>1 DEF Kept, Named
    <3>1. PICK q \in Page : Named(q, <<n, "file">>) /\ flash[q].whole
      BY DEF IInv, Kept
    <3>2. CASE q # p
      BY <2>3, <3>1, <3>2 DEF Named
    <3>3. CASE q = p
      <4>1. q = file /\ n = flash[file].name[1]
        BY <1>6, <3>1, <3>3 DEF Named
      <4>2. new # NULL /\ Replaced
        BY <1>3, <4>1
      <4>3. new \in Page /\ new # p /\ Named(new, <<n, "file">>) /\ flash[new].whole
        BY <1>2, <1>4, <3>3, <4>1, <4>2 DEF Replaced
      <4> QED BY <2>3, <4>3 DEF Named
    <3> QED BY <3>2, <3>3
  <2>8. Descriptors'
    <3>1. ASSUME NEW e \in Fd, fds[e] # NULL, fds[e].page # file
          PROVE  (IsFile(fds[e].page) /\ (fds[e].modified <=> Modified(fds[e].page)))'
      <4>1. PICK q : q = fds[e].page
        OBVIOUS
      <4>2. q \in Page /\ IsFile(q) /\ (fds[e].modified <=> Modified(q)) /\ q # file
        BY <1>5, <3>1, <4>1
      <4>3. q # p /\ Active(q)
        BY <1>6, <4>2 DEF IsFile
      <4>4. Active(q)' /\ flash'[q] = flash[q]
        BY <2>3, <4>2, <4>3
      <4> QED BY <1>1, <4>1, <4>2, <4>4 DEF IsFile, Active, IsFree, Modified
    <3> QED BY <1>1, <2>1, <3>1 DEF Descriptors, Removed
  <2>9. Removing'
    <3>1. ~IsFree(file)' /\ flash'[file].name = flash[file].name
      BY <1>3, <2>1 DEF IsFree
    <3>2. ASSUME new # NULL PROVE Replaced'
      <4>1. new \in Page /\ new # file /\ task.fd \in Fd /\ Named(new, flash[file].name) /\ ~Modified(new)
            /\ (flash[file].name[1] \in promised \ torn => flash[new].whole)
        BY <1>2, <1>3, <3>2 DEF Replaced
      <4>2. new # p
        BY <1>3, <1>6, <4>1 DEF Named
      <4>3. flash'[new] = flash[new] /\ Named(new, flash[file].name)' /\ ~Modified(new)'
        BY <2>3, <3>1, <4>1, <4>2 DEF Named, Modified
      <4> QED BY <1>1, <2>1, <3>1, <4>1, <4>3 DEF Replaced, Named, Modified
    <3> QED BY <1>1, <1>3, <1>6, <2>1, <3>1, <3>2 DEF Removing, IsFree
  <2>10. Calls'
    BY <2>1, <2>9 DEF Calls
  <2>11. SameFree
    BY <1>6, <2>1 DEF SameFree, IsFree
  <2> QED BY <2>1, <2>5, <2>6, <2>7, <2>8, <2>10, <2>11 DEF IInv
<1>7. CASE Active(file) /\ task.marks = InOrder(file)
  <2>1. file = Head(task.marks)
    BY <1>7 DEF InOrder
  <2>2. /\ \A q \in Page \ {file} : flash'[q] = flash[q]
        /\ ~IsFree(file)' /\ ~Active(file)' /\ flash'[file].name = flash[file].name
        /\ task'.file = file /\ task'.marks = Tail(task.marks)
    BY <1>2, <1>3, <2>1, Marked
  <2>3. \A q \in Page \ {file} : Active(q) /\ Modified(q) => flash[q].log_page # file
    <3>1. IsFile(file)
      BY <1>3, <1>7 DEF IsFile
    <3> QED BY <3>1, LogOfFile DEF IInv
  <2>4. Marks'
    <3>1. CASE Modified(file)
      <4>1. PICK l : l = flash[file].log_page
        OBVIOUS
      <4>2. Tail(task.marks) = <<l>>
        BY <1>7, <3>1, <4>1 DEF InOrder
      <4>3. l \in Page /\ l # file /\ Named(l, <<flash[file].name[1], "log">>)
        BY <1>3, <1>7, <3>1, <4>1, LogOfFile DEF IInv
      <4>4. ~IsFree(l)' /\ flash'[l] = flash[l] /\ flash'[l].name[2] = "log"
        BY <2>2, <4>3 DEF Named, Active, IsFree
      <4>5. ASSUME NEW q \in Page, Active(q)', Modified(q)', flash'[q].log_page = l PROVE FALSE
        <5>1. q # file
          BY <2>2, <4>5
        <5>2. Active(q) /\ Modified(q) /\ flash[q].log_page = l
          BY <2>2, <4>5, <5>1 DEF Active, IsFree, Modified
        <5>3. Named(l, <<flash[q].name[1], "log">>) /\ IsFile(q)
          BY <5>2, LogOfFile DEF IInv
        <5>4. flash[q].name[1] = flash[file].name[1]
          BY <4>3, <5>3 DEF Named
        <5>5. flash[q].name = flash[file].name
          BY <1>4, <5>3, <5>4, NameOfFile DEF IInv
        <5> QED BY <1>3, <1>7, <3>1, <5>1, <5>2, <5>5 DEF IInv, Logs
      <4>6. Withdrawn(l)'
        BY <4>3, <4>4, <4>5 DEF Withdrawn
      <4> QED BY <2>2, <4>2, <4>3, <4>6 DEF Marks, Active, IsFree
    <3>2. CASE ~Modified(file)
      <4>1. Tail(task.marks) = <<>>
        BY <1>7, <3>2 DEF InOrder
      <4> QED BY <2>2, <4>1 DEF Marks, Active, IsFree
    <3> QED BY <3>1, <3>2
  <2> QED BY <1>3, <1>6, <2>1, <2>3, <2>4
<1>8. ASSUME ~Active(file), NEW l \in Page, task.marks = <<l>>, Withdrawn(l)
      PROVE  IInv' /\ SameFree
  <2>1. l = Head(task.marks) /\ Tail(task.marks) = <<>> /\ ~IsFree(l) /\ flash[l].name[2] = "log" /\ l # file
    BY <1>3, <1>8 DEF Withdrawn
  <2>2. flash'[file] = flash[file] /\ task'.file = file /\ task'.marks = <<>>
    BY <1>2, <1>3, <2>1, Marked
  <2>3. Marks'
    BY <1>8, <2>2 DEF Marks, Active, IsFree
  <2> QED BY <1>6, <1>8, <2>1, <2>3 DEF Withdrawn
<1> QED BY <1>1, <1>2, <1>3, <1>7, <1>8 DEF Marks

--------------------------------------------------------------------------------
(* The garbage collector                                                        *)

\* What one turn of the collector does to a sector, and its counts.
LEMMA SectorSizes ==
  ASSUME NEW s
  PROVE  /\ Cardinality(Walked(s)) \in Nat
         /\ Cardinality({p \in Walked(s) : Active(p)}) \in Nat
         /\ Cardinality({p \in Walked(s) : Active(p)}) = 0 => \A p \in Walked(s) : ~Active(p)
<1>1. Walked(s) \in SUBSET Page /\ {p \in Walked(s) : Active(p)} \in SUBSET Page
  BY DEF Walked, InSector
<1>2. IsFiniteSet(Walked(s)) /\ IsFiniteSet({p \in Walked(s) : Active(p)})
  BY <1>1, PagesAreFinite, FS_Subset
<1>3. Cardinality({p \in Walked(s) : Active(p)}) = 0 => {p \in Walked(s) : Active(p)} = {}
  BY <1>2, FS_EmptySet
<1> QED BY <1>2, <1>3, FS_CardinalityType

Erased(s) == [p \in Page |-> IF p \in InSector(s) THEN NULL ELSE flash[p]]

LEMMA CollectTurns ==
  ASSUME Typed, Collect
  PROVE  /\ task.pc = "collect" /\ task \in Collects /\ task.sector \in 0..(NumSectors - 1)
         /\ task' \in Collects /\ task'.pc = "collect" /\ task'.reserve = task.reserve
         /\ flash' = flash \/ flash' = Erased(task.sector)
<1>1. task.pc = "collect" /\ task \in Collects /\ task.sector < NumSectors
  BY Shapes DEF Collect
<1>2. PICK t, s, k : t = task /\ s = task.sector /\ k = task.skip_pages
  OBVIOUS
<1>3. t \in Collects /\ s \in 0..(NumSectors - 1) /\ k \in Int /\ PagesPerSector \in Nat
  <2>1. NumSectors \in Nat /\ PagesPerSector \in Nat
    BY SizeAssumption
  <2> QED BY <1>1, <1>2, <2>1 DEF Collects
<1>4. PICK skip \in Int : task' = [t EXCEPT !.sector = s + 1, !.skip_pages = skip]
  <2>1. PICK inside \in BOOLEAN : inside = (s > 0 /\ (k < 0 \/ k > PagesPerSector))
    OBVIOUS
  <2>2. PICK active : active = IF inside THEN 0 ELSE Cardinality({p \in Walked(s) : Active(p)})
    OBVIOUS
  <2>3. PICK obsolete : obsolete = IF inside THEN PagesPerSector ELSE Cardinality(Walked(s)) - active
    OBVIOUS
  <2>4. active \in Int /\ obsolete \in Int
    BY <1>3, <2>2, <2>3, SectorSizes
  <2>5. PICK skip : skip = IF inside THEN k - PagesPerSector ELSE active + obsolete - PagesPerSector
    OBVIOUS
  <2>6. skip \in Int
    BY <1>3, <2>4, <2>5
  <2>7. task' = [t EXCEPT !.sector = s + 1, !.skip_pages = skip]
    BY <1>2, <2>1, <2>2, <2>3, <2>5, Zenon DEF Collect
  <2> QED BY <2>6, <2>7
<1>5. task' \in Collects /\ task'.pc = "collect" /\ task'.reserve = t.reserve
  <2>1. NumSectors \in Nat
    BY SizeAssumption
  <2>2. s + 1 \in 0..NumSectors
    BY <1>3, <2>1
  <2> QED BY <1>3, <1>4, <2>2 DEF Collects
<1>6. flash' = flash \/ flash' = Erased(task.sector)
  BY Zenon DEF Collect, Erased
<1> QED BY <1>1, <1>2, <1>3, <1>5, <1>6

\* That no active file is erased, of one step.
ErasesNone == \A p \in Page : Active(p) => flash'[p] # NULL

LEMMA CollectKeeps ==
  ASSUME IInv, Collect, ErasesNone
  PROVE  IInv'
<1>1. /\ task.pc = "collect" /\ task \in Collects /\ task.sector \in 0..(NumSectors - 1)
      /\ task' \in Collects /\ task'.pc = "collect" /\ task'.reserve = task.reserve
      /\ flash' = flash \/ flash' = Erased(task.sector)
  BY CollectTurns DEF IInv
<1>2. fds' = fds /\ promised' = promised /\ torn' = torn /\ restarts' = restarts
  BY DEF Collect
<1>3. PICK s : s = task.sector
  OBVIOUS
<1>4. flash' \in [Page -> Header \cup {NULL}]
      /\ \A p \in Page : flash'[p] = flash[p] \/ (flash'[p] = NULL /\ p \in InSector(s))
  BY <1>1, <1>3 DEF IInv, Typed, Erased
<1>5. \A p \in Page : (Active(p)' <=> Active(p)) /\ (Active(p) => flash'[p] = flash[p])
  BY <1>4 DEF ErasesNone, Active, IsFree
<1>6. \A p \in Page : \A name : Named(p, name)' <=> Named(p, name)
  BY <1>5 DEF Named
<1>7. Prefix'
  <2>1. CASE flash' = flash
    BY <2>1 DEF IInv, Prefix, IsFree
  <2>2. CASE flash' = Erased(s)
    <3>1. \A p \in Page : IsFree(p)' <=> (p \in InSector(s) \/ IsFree(p))
      BY <2>2 DEF Erased, IsFree
    <3>2. \A p, q \in Page : SameSector(p, q) => (p \in InSector(s) <=> q \in InSector(s))
      BY DEF SameSector, InSector
    <3> QED BY <3>1, <3>2 DEF IInv, Prefix, SameSector
  <2> QED BY <1>1, <1>3, <2>1, <2>2
<1>8. Logs'
  <2>1. \A q \in Page : Active(q)' /\ Modified(q)' => Active(q) /\ Modified(q) /\ flash'[q] = flash[q]
    BY <1>5 DEF Modified
  <2>2. ASSUME NEW q \in Page, Active(q)', Modified(q)'
        PROVE  (flash[q].name[2] = "file" /\ Named(flash[q].log_page, <<flash[q].name[1], "log">>))'
    <3>1. Active(q) /\ Modified(q) /\ flash'[q] = flash[q]
      BY <2>1, <2>2
    <3>2. PICK l : l = flash[q].log_page
      OBVIOUS
    <3>3. l \in Page /\ Named(l, <<flash[q].name[1], "log">>) /\ flash[q].name[2] = "file"
      BY <3>1, <3>2, LogOfFile DEF IInv, IsFile
    <3>4. flash'[l] = flash[l] /\ Active(l)'
      BY <1>5, <3>3 DEF Named
    <3> QED BY <3>1, <3>2, <3>3, <3>4 DEF Named, Active, IsFree
  <2>3. ASSUME NEW q \in Page, NEW r \in Page, Active(q)', Modified(q)', Active(r)', Modified(r)',
               flash'[q].name = flash'[r].name
        PROVE  q = r
    BY <2>1, <2>3 DEF IInv, Logs
  <2> QED BY <2>2, <2>3 DEF Logs, Named
<1>9. Unique
  BY <1>1, NoMerge, UniqueUnlessMerging DEF IInv
<1>10. OneFile'
  BY <1>2, <1>6, <1>9 DEF Unique, OneFile
<1>11. Kept'
  <2> SUFFICES ASSUME NEW n \in promised \ torn
               PROVE  \E q \in Page : Named(q, <<n, "file">>)' /\ flash'[q].whole
    BY <1>2 DEF Kept, Named
  <2>1. PICK q \in Page : Named(q, <<n, "file">>) /\ flash[q].whole
    BY DEF IInv, Kept
  <2> QED BY <1>5, <1>6, <2>1 DEF Named
<1>12. Descriptors'
  <2>1. ASSUME NEW e \in Fd, fds[e] # NULL
        PROVE  (IsFile(fds[e].page) /\ (fds[e].modified <=> Modified(fds[e].page)))'
    <3>1. PICK p : p = fds[e].page
      OBVIOUS
    <3>2. p \in Page /\ IsFile(p) /\ (fds[e].modified <=> Modified(p))
      <4>1. p \in Page
        BY <2>1, <3>1 DEF IInv, Typed, Desc
      <4> QED BY <1>1, <2>1, <3>1, <4>1 DEF IInv, Descriptors, Removed, Linked
    <3>3. flash'[p] = flash[p]
      BY <1>5, <3>2 DEF IsFile
    <3> QED BY <1>2, <3>1, <3>2, <3>3 DEF IsFile, Active, IsFree, Modified
  <2> QED BY <1>2, <2>1 DEF Descriptors
<1>13. Typed'
  BY <1>1, <1>2, <1>4 DEF IInv, Typed
<1>14. Calls'
  <2>1. PICK r : r = task.reserve
    OBVIOUS
  <2>2. Reserving(r)
    BY <1>1, <2>1 DEF IInv, Calls
  <2>3. Creating(r)'
    BY <1>6, <2>2 DEF Reserving, Creating
  <2>4. Logging(r)'
    <3>1. ASSUME r.purpose = "log" PROVE flash'[r.file] = flash[r.file]
      BY <1>5, <2>2, <3>1 DEF Reserving, Logging, Named
    <3> QED BY <1>6, <2>2, <3>1 DEF Reserving, Logging, Modified
  <2>5. Merges(r)'
    BY <1>2, <1>6, <2>2 DEF Reserving, Merges
  <2>6. Reserving(r)'
    BY <2>3, <2>4, <2>5 DEF Reserving
  <2> QED BY <1>1, <2>1, <2>6 DEF Calls
<1> QED BY <1>7, <1>8, <1>10, <1>11, <1>12, <1>13, <1>14 DEF IInv

--------------------------------------------------------------------------------
(* The invariant is kept                                                        *)

LEMMA Starts ==
  ASSUME Init
  PROVE  IInv
<1>1. \A p \in Page : IsFree(p)
  BY DEF Init, IsFree
<1>2. Typed
  BY SizeAssumption DEF Init, Typed
<1>3. Prefix /\ Logs /\ OneFile
  BY <1>1 DEF Prefix, Logs, OneFile, Named, Active
<1>4. Kept /\ Descriptors
  BY DEF Init, Kept, Descriptors
<1>5. Calls
  BY IdleFacts DEF Init, Calls
<1> QED BY <1>2, <1>3, <1>4, <1>5 DEF IInv

LEMMA Stutters ==
  ASSUME IInv, UNCHANGED vars
  PROVE  IInv'
<1>1. flash' = flash /\ fds' = fds /\ task' = task /\ promised' = promised /\ torn' = torn
      /\ restarts' = restarts
  BY DEF vars
<1>2. Typed' /\ Prefix' /\ Logs' /\ Kept'
  BY <1>1, SameFlash DEF IInv, Typed
<1>3. OneFile'
  BY <1>1 DEF IInv, OneFile, Named, Active, IsFree, Merging
<1>4. Descriptors'
  BY <1>1 DEF IInv, Descriptors, Removed, Linked, IsFile, Active, IsFree, Modified
<1>5. Calls'
  <2>1. Linking => Linking'
    BY <1>1 DEF Linking, IsFile, Named, Active, IsFree, Modified
  <2>2. Marking => Marking'
    BY <1>1 DEF Marking, IsFile, Active, IsFree, Modified
  <2>3. Copying => Copying'
    BY <1>1 DEF Copying, IsFile, Named, Active, IsFree, Modified
  <2>4. Replaced => Replaced'
    BY <1>1 DEF Replaced, Named, Active, IsFree, Modified
  <2>5. Marks => Marks'
    BY <1>1 DEF Marks, Withdrawn, InOrder, Active, IsFree, Modified
  <2>6. Removing => Removing'
    BY <1>1, <2>4, <2>5 DEF Removing, IsFree
  <2>7. \A r : Reserving(r) => Reserving(r)'
    BY <1>1, SameReserving
  <2> QED BY <1>1, <2>1, <2>2, <2>3, <2>6, <2>7 DEF IInv, Calls
<1> QED BY <1>2, <1>3, <1>4, <1>5 DEF IInv

LEMMA Keeps ==
  ASSUME IInv, [Next]_vars, ErasesNone \/ UNCHANGED vars
  PROVE  IInv'
<1>1. CASE UNCHANGED vars
  BY <1>1, Stutters
<1>2. ASSUME NEW n \in Name, cfs_coffee_reserve(n) PROVE IInv'
  BY <1>2, ReserveKeeps
<1>3. ASSUME NEW n \in Name, cfs_coffee_remove(n) PROVE IInv'
  BY <1>3, RemoveKeeps
<1>4. ASSUME NEW n \in Name, NEW write \in BOOLEAN, cfs_open(n, write) PROVE IInv'
  BY <1>4, OpenKeeps
<1>5. ASSUME NEW fd \in Fd, cfs_write(fd) PROVE IInv'
  BY <1>5, WriteKeeps
<1>6. ASSUME NEW fd \in Fd, cfs_close(fd) PROVE IInv'
  BY <1>6, CloseKeeps
<1>7. CASE ReserveWrites
  BY <1>7, ReserveWritesKeeps
<1>8. CASE ReserveFails
  BY <1>8, FailsKeeps
<1>9. CASE Collect
  <2>1. CASE ErasesNone
    BY <1>9, <2>1, CollectKeeps
  <2> QED BY <1>1, <2>1
<1>10. CASE CollectEnds
  BY <1>10, CollectEndsKeeps
<1>11. CASE LinkLog
  BY <1>11, LinkKeeps
<1>12. CASE MarkLog
  BY <1>12, MarkKeeps
<1>13. CASE Copy
  BY <1>13, CopyKeeps
<1>14. CASE MarkObsolete
  BY <1>14, MarkObsoleteKeeps
<1>15. CASE RemoveEnds
  BY <1>15, RemoveEndsKeeps
<1>16. CASE MergeEnds
  BY <1>16, MergeEndsKeeps
<1>17. CASE Restart
  BY <1>17, RestartKeeps
<1> QED BY <1>1, <1>2, <1>3, <1>4, <1>5, <1>6, <1>7, <1>8, <1>9, <1>10, <1>11, <1>12, <1>13, <1>14, <1>15,
           <1>16, <1>17 DEF Next

\* The invariant says what the runs check.
LEMMA InvariantImplies ==
  ASSUME IInv
  PROVE  TypeOK /\ NothingLost /\ LogIsLive /\ DescriptorsAgree
<1>1. TypeOK
  <2>1. task.pc \in {"idle", "reserve", "collect", "link", "mark", "copy", "remove"}
    BY IdleFacts DEF IInv, Typed, Reserves, Collects, Links, Copies, Removes
  <2> QED BY <2>1 DEF IInv, Typed, TypeOK
<1>2. NothingLost
  <2> SUFFICES ASSUME NEW n \in promised \ torn
               PROVE  \E p \in Found(<<n, "file">>) : flash[p].whole
    BY DEF NothingLost
  <2>1. PICK p \in Page : Named(p, <<n, "file">>) /\ flash[p].whole
    BY DEF IInv, Kept
  <2>2. p \in Found(<<n, "file">>)
    BY <2>1, FindsAll DEF IInv
  <2> QED BY <2>1, <2>2
<1>3. LogIsLive
  <2> SUFFICES ASSUME NEW p \in Page, Active(p), Modified(p)
               PROVE  /\ Named(flash[p].log_page, <<flash[p].name[1], "log">>)
                      /\ \A q \in Page \ {p} : Active(q) /\ Modified(q) => flash[q].log_page # flash[p].log_page
    BY DEF LogIsLive, Named
  <2>1. IsFile(p) /\ Named(flash[p].log_page, <<flash[p].name[1], "log">>)
    BY LogOfFile DEF IInv
  <2>2. ASSUME NEW q \in Page, q # p, Active(q), Modified(q), flash[q].log_page = flash[p].log_page
        PROVE  FALSE
    <3>1. IsFile(q) /\ Named(flash[q].log_page, <<flash[q].name[1], "log">>)
      BY <2>2, LogOfFile DEF IInv
    <3>2. flash[q].name[1] = flash[p].name[1]
      BY <2>1, <2>2, <3>1 DEF Named
    <3>3. flash[q].name = flash[p].name
      BY <2>1, <3>1, <3>2, NameOfFile DEF IInv
    <3> QED BY <2>2, <3>3 DEF IInv, Logs
  <2> QED BY <2>1, <2>2
<1>4. DescriptorsAgree
  BY IdleFacts DEF IInv, Descriptors, Removed, Linked, IsFile, DescriptorsAgree
<1> QED BY <1>1, <1>2, <1>3, <1>4

--------------------------------------------------------------------------------
(* What the collector counts is not erased while a file is in it                *)

\* Only the collector frees a page.
LEMMA OthersEraseNone ==
  ASSUME IInv, [Next]_vars, ~Collect
  PROVE  ErasesNone
<1>1. CASE flash' = flash
  BY <1>1 DEF ErasesNone, Active, IsFree
<1>2. CASE SameFree
  BY <1>2 DEF SameFree, ErasesNone, Active, IsFree
<1>3. CASE ReserveWrites
  BY <1>3, ReserveWritesKeeps DEF ErasesNone, Active, IsFree
<1>4. flash' = flash \/ ReserveWrites \/ LinkLog \/ MarkLog \/ Copy \/ MarkObsolete
  BY DEF Next, vars, cfs_coffee_reserve, cfs_coffee_remove, cfs_open, cfs_write, cfs_close, ReserveFails,
         CollectEnds, RemoveEnds, MergeEnds, Restart
<1> QED BY <1>1, <1>2, <1>3, <1>4, LinkKeeps, MarkKeeps, CopyKeeps, MarkObsoleteKeeps

\* The collector erases a sector that it counted only when no page in it is active, since
\* it counted all that are written; one that it did not count it may erase with its files.
LEMMA CountedIsErasedRightly ==
  ASSUME IInv, Collect, ~erased'
  PROVE  ErasesNone
<1>1. PICK s : s = task.sector
  OBVIOUS
<1>2. PICK inside \in BOOLEAN :
        inside <=> (s > 0 /\ (task.skip_pages < 0 \/ task.skip_pages > PagesPerSector))
  OBVIOUS
<1>3. flash' = flash \/ flash' = Erased(s)
  BY <1>1, CollectTurns DEF IInv
<1>4. CASE inside
  <2>1. ~(\E p \in InSector(s) : Active(p))
    BY <1>1, <1>2, <1>4, Zenon DEF Collect
  <2> QED BY <1>3, <2>1 DEF Erased, ErasesNone, Active, IsFree
<1>5. CASE ~inside /\ flash' # flash
  <2>1. PICK active : active = Cardinality({p \in Walked(s) : Active(p)})
    OBVIOUS
  <2>2. active = 0
    BY <1>1, <1>2, <1>5, <2>1 DEF Collect, Erasable
  <2>3. \A p \in Walked(s) : ~Active(p)
    BY <2>1, <2>2, SectorSizes
  <2>4. \A p \in InSector(s) : ~Active(p)
    BY <2>3 DEF IInv, Prefix, SameSector, Walked, InSector, Active
  <2> QED BY <1>3, <1>5, <2>4 DEF Erased, ErasesNone, Active, IsFree
<1>6. CASE flash' = flash
  BY <1>6 DEF ErasesNone, Active, IsFree
<1> QED BY <1>4, <1>5, <1>6

\* Once a sector was mistaken, nothing more is said.
LEMMA MistakeIsKept ==
  ASSUME erased \in BOOLEAN, [Next]_vars
  PROVE  erased' \in BOOLEAN /\ (erased => erased')
<1>1. CASE Collect
  BY <1>1, Zenon DEF Collect
<1>2. erased' = erased \/ Collect
  BY DEF Next, vars, cfs_coffee_reserve, cfs_coffee_remove, cfs_open, cfs_write, cfs_close, ReserveWrites,
         ReserveFails, CollectEnds, LinkLog, MarkLog, Copy, MarkObsolete, RemoveEnds, MergeEnds, Restart
<1> QED BY <1>1, <1>2

--------------------------------------------------------------------------------
(* The theorems                                                                 *)

Safe == erased \in BOOLEAN /\ (~erased => IInv)

\* Until the collector mistakes a sector, every step keeps the invariant, and so does a
\* restart after any step.
THEOREM Invariant == Spec => []Safe
<1>1. Init => Safe
  BY Starts DEF Safe, Init
<1>2. ASSUME Safe, [Next]_vars PROVE Safe'
  <2>1. erased' \in BOOLEAN /\ (erased => erased')
    BY <1>2, MistakeIsKept DEF Safe
  <2>2. ASSUME ~erased' PROVE IInv'
    <3>1. IInv
      BY <1>2, <2>1, <2>2 DEF Safe
    <3>2. ErasesNone
      BY <1>2, <2>2, <3>1, OthersEraseNone, CountedIsErasedRightly
    <3> QED BY <1>2, <3>1, <3>2, Keeps
  <2> QED BY <2>1, <2>2 DEF Safe
<1> QED BY <1>1, <1>2, PTL DEF Spec

\* Of all numbers of files, pages, sectors, descriptors and restarts: until then a file that
\* was created and not removed is found whole (merge_log(), cfs_garbage_collect()).
THEOREM FilesAreKept == Spec => []NothingLost
<1>1. Safe => NothingLost
  BY InvariantImplies DEF Safe, NothingLost
<1> QED BY <1>1, Invariant, PTL

\* Of all numbers: until then the log that a file names is its own and there (create_log(),
\* remove_by_page()).
THEOREM LogsAreLive == Spec => []LogIsLive
<1>1. Safe => LogIsLive
  BY InvariantImplies DEF Safe, LogIsLive
<1> QED BY <1>1, Invariant, PTL

\* Of all numbers: until then an open descriptor is that of a file that is there, and knows
\* whether it has a log.
THEOREM DescriptorsAreThoseOfFiles == Spec => []DescriptorsAgree
<1>1. Safe => DescriptorsAgree
  BY InvariantImplies DEF Safe, DescriptorsAgree
<1> QED BY <1>1, Invariant, PTL

\* The types of the model, until then.
THEOREM Types == Spec => []TypeOK
<1>1. Safe => TypeOK
  BY InvariantImplies DEF Safe, TypeOK
<1> QED BY <1>1, Invariant, PTL

================================================================================
