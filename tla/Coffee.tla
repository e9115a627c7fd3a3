--------------------------------- MODULE Coffee ---------------------------------
(***************************************************************************)
(* The Coffee file system, core/cfs/cfs-coffee.c: files and their logs in  *)
(* the pages of a flash memory, the merge of a file with its log, and the  *)
(* garbage collector that erases sectors.  The node may restart between    *)
(* any two writes to the flash; what is in RAM is then lost.               *)
(*                                                                         *)
(* One call of a program is under way at a time.  Each write of a file     *)
(* header and each turn of the garbage collector is a step.  Of the data   *)
(* of a file it is kept whether it is whole.  Files and logs are of one    *)
(* size, the page of this module: no file crosses the border of a sector.  *)
(* The directory cache makes finding a file faster and decides which one   *)
(* is found when there are several of one name: any may be.  That a log is *)
(* full is left open: a write to a file with a log adds a record, which    *)
(* changes no header, or merges.                                           *)
(***************************************************************************)
EXTENDS Integers, FiniteSets, FiniteSetsExt, Sequences

CONSTANTS Name,            \* the names of files
          NumSectors, PagesPerSector,
          NumFds,          \* COFFEE_FD_SET_SIZE
          MaxRestarts,     \* bound: restarts
          NULL             \* a free page, a free descriptor

ASSUME SizeAssumption ==
  NumSectors \in Nat \ {0} /\ PagesPerSector \in Nat \ {0} /\ NumFds \in Nat /\ MaxRestarts \in Nat

VARIABLES
  flash,     \* the header in each page
  fds,       \* coffee_fd_set
  task,      \* the call under way
  promised,  \* auxiliary: the files that were created and not removed
  torn,      \* auxiliary: the names of which a restart left two files
  erased,    \* auxiliary: the collector took a sector with files in it for the rest of a file
  restarts

vars == <<flash, fds, task, promised, torn, erased, restarts>>

Page == 0..(NumSectors * PagesPerSector - 1)
Fd == 1..NumFds
InSector(s) == {p \in Page : p \div PagesPerSector = s}

\* The name of the log of a file is that of the file with a suffix.
FileName == Name \X {"file", "log"}
Header == [name : FileName, flags : SUBSET {"OBSOLETE", "MODIFIED", "LOG"}, log_page : Page,
           whole : BOOLEAN]
Desc == [page : Page, write : BOOLEAN, modified : BOOLEAN]
Idle == [pc |-> "idle"]

ASSUME NullAssumption == NULL \notin Page /\ NULL \notin Fd /\ NULL \notin Header /\ NULL \notin Desc

Init ==
  /\ flash = [p \in Page |-> NULL]
  /\ fds = [fd \in Fd |-> NULL]
  /\ task = Idle
  /\ promised = {}
  /\ torn = {}
  /\ erased = FALSE
  /\ restarts = 0

--------------------------------------------------------------------------------
(* Pages                                                                        *)

IsFree(p) == flash[p] = NULL
Active(p) == ~IsFree(p) /\ "OBSOLETE" \notin flash[p].flags
Modified(p) == "MODIFIED" \in flash[p].flags

\* The pages of a sector that are looked at: after a free page the rest is taken for free.
Walked(s) == {p \in InSector(s) : \A q \in InSector(s) : q <= p => ~IsFree(q)}

\* find_file().
Found(name) ==
  {p \in UNION {Walked(s) : s \in 0..(NumSectors - 1)} : Active(p) /\ flash[p].name = name}

\* find_contiguous_pages(): free pages count only when the next sector begins with one.
Room ==
  {p \in Page : /\ IsFree(p) /\ \A q \in InSector(p \div PagesPerSector) : q < p => ~IsFree(q)
                /\ LET next == (p \div PagesPerSector + 1) * PagesPerSector
                   IN next \in Page /\ IsFree(next)}

FreeFds == {fd \in Fd : fds[fd] = NULL}

\* reserve() of a page, for a file that is created, a log or the merge of a file.  fd is
\* the descriptor to open or to close again, file the file concerned, from what is copied.
Reserve(purpose, name, fd, file, from) ==
  [pc |-> "reserve", purpose |-> purpose, name |-> name, fd |-> fd, file |-> file, from |-> from,
   collected |-> FALSE]

--------------------------------------------------------------------------------
(* Calls of programs.  Those that fail at once change nothing.                  *)

cfs_coffee_reserve(n) ==
  /\ task = Idle /\ Found(<<n, "file">>) = {}
  /\ task' = Reserve("reserve", <<n, "file">>, NULL, NULL, NULL)
  /\ UNCHANGED <<flash, fds, promised, torn, erased, restarts>>

\* A file that is not there is created, unless it is only to be read.
cfs_open(n, write) ==
  /\ task = Idle /\ FreeFds # {}
  /\ LET fd == Min(FreeFds)
     IN \/ \E p \in Found(<<n, "file">>) :
             /\ fds' = [fds EXCEPT ![fd] = [page |-> p, write |-> write, modified |-> Modified(p)]]
             /\ UNCHANGED task
        \/ /\ Found(<<n, "file">>) = {} /\ write
           /\ task' = Reserve("open", <<n, "file">>, fd, NULL, NULL)
           /\ UNCHANGED fds
  /\ UNCHANGED <<flash, promised, torn, erased, restarts>>

cfs_close(fd) ==
  /\ task = Idle /\ fds[fd] # NULL
  /\ fds' = [fds EXCEPT ![fd] = NULL]
  /\ UNCHANGED <<flash, task, promised, torn, erased, restarts>>

\* The task that create_log() begins: it fails when there is a log of this name.
CreateLog(name, file) ==
  IF Found(<<name, "log">>) = {} THEN Reserve("log", <<name, "log">>, NULL, file, NULL) ELSE Idle

\* write_log_page(): it creates the log of the file, or merge_log() begins, with
\* cfs_open() and reserve().
write_log_page(file) ==
  LET name == flash[file].name
  IN \/ /\ ~Modified(file)
        /\ task' = CreateLog(name[1], file)
        /\ UNCHANGED fds
     \/ /\ Modified(file) /\ FreeFds # {}
        /\ \E from \in Found(name) :
             LET d == [page |-> from, write |-> FALSE, modified |-> Modified(from)]
             IN /\ fds' = [fds EXCEPT ![Min(FreeFds)] = d]
                /\ task' = Reserve("merge", name, Min(FreeFds), file, from)

\* cfs_write() to a part that is already written.
cfs_write(fd) ==
  /\ task = Idle /\ fds[fd] # NULL /\ fds[fd].write
  /\ write_log_page(fds[fd].page)
  /\ UNCHANGED <<flash, promised, torn, erased, restarts>>

\* remove_by_page(): the headers to mark obsolete, in this order.
LogFirst(file) == IF Modified(file) THEN <<flash[file].log_page, file>> ELSE <<file>>
InOrder(file) == IF Modified(file) THEN <<file, flash[file].log_page>> ELSE <<file>>
Remove(file, new, fd) == [pc |-> "remove", file |-> file, marks |-> InOrder(file), new |-> new, fd |-> fd]

cfs_coffee_remove(n) ==
  /\ task = Idle
  /\ \E p \in Found(<<n, "file">>) : task' = Remove(p, NULL, NULL)
  /\ promised' = promised \ {n}
  /\ UNCHANGED <<flash, fds, torn, erased, restarts>>

--------------------------------------------------------------------------------
(* reserve() and the garbage collector                                          *)

\* The header is written, and the caller goes on.
ReserveWrites ==
  /\ task.pc = "reserve" /\ Room # {}
  /\ LET p == Min(Room)
         n == task.name[1]
     IN /\ flash' = [flash EXCEPT ![p] = [name |-> task.name, flags |-> {}, log_page |-> 0,
                                          whole |-> task.purpose # "merge"]]
        /\ \/ /\ task.purpose = "reserve"
              /\ promised' = promised \cup {n} /\ task' = Idle /\ UNCHANGED fds
           \/ /\ task.purpose = "open"
              /\ promised' = promised \cup {n} /\ task' = Idle
              /\ fds' = [fds EXCEPT ![task.fd] = [page |-> p, write |-> TRUE, modified |-> FALSE]]
           \/ /\ task.purpose = "log"
              /\ task' = [pc |-> "link", file |-> task.file, new |-> p]
              /\ UNCHANGED <<fds, promised>>
           \/ /\ task.purpose = "merge"
              /\ task' = [pc |-> "copy", file |-> task.file, from |-> task.from, new |-> p, fd |-> task.fd]
              /\ UNCHANGED <<fds, promised>>
  /\ UNCHANGED <<torn, erased, restarts>>

\* There is no room: garbage is collected once; then the call fails.
ReserveFails ==
  /\ task.pc = "reserve" /\ Room = {}
  /\ IF task.collected
     THEN /\ task' = Idle
          /\ fds' = IF task.purpose = "merge" THEN [fds EXCEPT ![task.fd] = NULL] ELSE fds
     ELSE /\ task' = [pc |-> "collect", sector |-> 0, skip_pages |-> 0, reserve |-> task]
          /\ UNCHANGED fds
  /\ UNCHANGED <<flash, promised, torn, erased, restarts>>

ErasableIfObsolete(active, obsolete) == obsolete > 0
Erasable(active, obsolete) == active = 0 /\ obsolete > 0

\* One sector in cfs_garbage_collect(), with get_sector_status().  skip_pages, kept from
\* the sector before, is negative when that one ends with free pages.  It is compared
\* with COFFEE_PAGES_PER_SECTOR, an unsigned long, to which it is converted.
Collect ==
  /\ task.pc = "collect" /\ task.sector < NumSectors
  /\ LET s == task.sector
         inside == s > 0 /\ (task.skip_pages < 0 \/ task.skip_pages > PagesPerSector)
         active == IF inside THEN 0 ELSE Cardinality({p \in Walked(s) : Active(p)})
         obsolete == IF inside THEN PagesPerSector ELSE Cardinality(Walked(s)) - active
         skip == IF inside THEN task.skip_pages - PagesPerSector
                 ELSE active + obsolete - PagesPerSector
     IN /\ flash' = IF Erasable(active, obsolete)
                    THEN [p \in Page |-> IF p \in InSector(s) THEN NULL ELSE flash[p]] ELSE flash
        /\ erased' = (erased \/ (inside /\ \E p \in InSector(s) : Active(p)))
        /\ task' = [task EXCEPT !.sector = s + 1, !.skip_pages = skip]
  /\ UNCHANGED <<fds, promised, torn, restarts>>

CollectEnds ==
  /\ task.pc = "collect" /\ task.sector = NumSectors
  /\ task' = [task.reserve EXCEPT !.collected = TRUE]
  /\ UNCHANGED <<flash, fds, promised, torn, erased, restarts>>

--------------------------------------------------------------------------------
(* create_log(), merge_log(), remove_by_page()                                  *)

\* The header of the file is written with the page of the log, then that of the log.
LinkLog ==
  /\ task.pc = "link"
  /\ flash' = [flash EXCEPT ![task.file].flags = @ \cup {"MODIFIED"}, ![task.file].log_page = task.new]
  /\ task' = [task EXCEPT !.pc = "mark"]
  /\ UNCHANGED <<fds, promised, torn, erased, restarts>>

MarkLog ==
  /\ task.pc = "mark"
  /\ flash' = [flash EXCEPT ![task.new].flags = @ \cup {"LOG"}]
  /\ fds' = [fd \in Fd |-> IF fds[fd] # NULL /\ fds[fd].page = task.file
                           THEN [fds[fd] EXCEPT !.modified = TRUE] ELSE fds[fd]]
  /\ task' = Idle
  /\ UNCHANGED <<promised, torn, erased, restarts>>

\* The data is copied, and the removal of the old file begins.
Copy ==
  /\ task.pc = "copy"
  /\ flash' = [flash EXCEPT ![task.new].whole = flash[task.from].whole]
  /\ task' = Remove(task.file, task.new, task.fd)
  /\ UNCHANGED <<fds, promised, torn, erased, restarts>>

MarkObsolete ==
  /\ task.pc = "remove" /\ task.marks # <<>>
  /\ flash' = [flash EXCEPT ![Head(task.marks)].flags = @ \cup {"OBSOLETE"}]
  /\ task' = [task EXCEPT !.marks = Tail(@)]
  /\ UNCHANGED <<fds, promised, torn, erased, restarts>>

\* The descriptors of a removed file are closed.
RemoveEnds ==
  /\ task.pc = "remove" /\ task.marks = <<>> /\ task.new = NULL
  /\ fds' = [fd \in Fd |-> IF fds[fd] # NULL /\ fds[fd].page = task.file THEN NULL ELSE fds[fd]]
  /\ task' = Idle
  /\ UNCHANGED <<flash, promised, torn, erased, restarts>>

\* Those of a merged file get the new one; then cfs_write() tries again.
KeptModified(d) == [d EXCEPT !.page = task.new]
Repointed(d) == [d EXCEPT !.page = task.new, !.modified = FALSE]
MergeEnds ==
  /\ task.pc = "remove" /\ task.marks = <<>> /\ task.new # NULL
  /\ fds' = [fd \in Fd |-> IF fd = task.fd THEN NULL
                           ELSE IF fds[fd] # NULL /\ fds[fd].page = task.file THEN Repointed(fds[fd])
                           ELSE fds[fd]]
  /\ task' = CreateLog(flash[task.new].name[1], task.new)
  /\ UNCHANGED <<flash, promised, torn, erased, restarts>>

--------------------------------------------------------------------------------
\* The node restarts, between any two steps.
Restart ==
  /\ restarts < MaxRestarts
  /\ restarts' = restarts + 1
  /\ torn' = torn \cup {n \in Name : Cardinality(Found(<<n, "file">>)) > 1}
  /\ fds' = [fd \in Fd |-> NULL]
  /\ task' = Idle
  /\ UNCHANGED <<flash, promised, erased>>

Next ==
  \/ \E n \in Name :
       \/ cfs_coffee_reserve(n) \/ cfs_coffee_remove(n)
       \/ \E write \in BOOLEAN : cfs_open(n, write)
  \/ \E fd \in Fd : cfs_write(fd) \/ cfs_close(fd)
  \/ ReserveWrites \/ ReserveFails \/ Collect \/ CollectEnds
  \/ LinkLog \/ MarkLog \/ Copy \/ MarkObsolete \/ RemoveEnds \/ MergeEnds \/ Restart

Spec == Init /\ [][Next]_vars

--------------------------------------------------------------------------------
\* What follows is said of a file system of which the collector erased no file.  It does so
\* when a sector before ends with free pages (Collect): the comparison of skip_pages then
\* takes the sector, with the files in it, for the rest of a file that began before it.

TypeOK ==
  ~erased =>
    /\ flash \in [Page -> Header \cup {NULL}] /\ fds \in [Fd -> Desc \cup {NULL}]
    /\ task.pc \in {"idle", "reserve", "collect", "link", "mark", "copy", "remove"}
    /\ promised \subseteq Name /\ torn \subseteq Name /\ restarts \in 0..MaxRestarts

\* Until the collector mistakes a sector, a file that was created and not removed is found
\* whole, whatever merges, failed reservations, garbage collections and restarts come
\* between; a restart inside a merge, which leaves two files of the name, is the other
\* exception (merge_log() removes the old file only when the new one is written).
NothingLost ==
  ~erased => \A n \in promised \ torn : \E p \in Found(<<n, "file">>) : flash[p].whole

\* Until then a file that says it has a log has it, alone: a restart finds no file whose log
\* is obsolete, erased by a collection that counted its sector, or that of another file
\* (create_log() and remove_by_page(): what names a page is written after it and withdrawn
\* before it).
LogIsLive ==
  ~erased =>
    \A p \in Page : Active(p) /\ Modified(p) =>
      LET l == flash[p].log_page
      IN /\ Active(l) /\ flash[l].name = <<flash[p].name[1], "log">>
         /\ \A q \in Page \ {p} : Active(q) /\ Modified(q) => flash[q].log_page # l

\* Until then an open descriptor is that of a file that exists, and knows whether to read
\* its log: others may have merged or removed the file, or given it a log (create_log(),
\* merge_log() and remove_by_page() change the descriptors of all who have it open).
DescriptorsAgree ==
  task = Idle /\ ~erased =>
    \A fd \in Fd : fds[fd] # NULL =>
      Active(fds[fd].page) /\ (fds[fd].modified <=> Modified(fds[fd].page))

\* "A sector is erasable if there are only free or obsolete pages in it."
ErasesNoActiveFile == [][\A p \in Page : Active(p) => flash'[p] # NULL]_vars
================================================================================
