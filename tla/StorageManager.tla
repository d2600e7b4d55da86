--------------------------- MODULE StorageManager ---------------------------
(***************************************************************************)
(* The storage manager looks after the storages of one owner.  It follows  *)
(* the blocks of a node's log and keeps, for every file of a unit it has   *)
(* seen, the storages that have it and those of them it looks after, and   *)
(* when the file was last reported as read; in memory, how often files     *)
(* were served.  From that it tells its storages what to store, on a       *)
(* timer, and what to remove, when asked to clear one.                     *)
(***************************************************************************)
EXTENDS NodeLog

CONSTANTS
  Stale,        \* 100 * 144, the blocks after which a file not read may go
  LeastUse      \* 3, a file must be served more often than that to be stored
                \* once more

VARIABLES
  sm,           \* what the manager knows, see NoFiles
  miscounted    \* a sync has failed since the start of the process

managerVars == <<sm, miscounted>>

NoFiles == [ok |-> TRUE,        \* FALSE: an exception was thrown
            taken |-> <<>>,     \* the entries applied, known by log_index
            head |-> 0,         \* head_block_index, which counts the first block
            files |-> <<>>,     \* file -> [all, own, report]: all_storages,
                                \* own_storages, last_report
            storages |-> {},    \* the storages it looks after
            usage |-> <<>>]     \* m_file_usage_map

-----------------------------------------------------------------------------
(* One transaction of a block *)

\* A file is known from the first unit it is in.  A revert leaves it known: it
\* may be in another unit as well.
UnitSeen(m, t, forward) ==
  IF t.kind # "unit" \/ ~ forward THEN m
  ELSE [m EXCEPT !.files =
          @ @@ [f \in t.files |-> [all |-> {}, own |-> {}, report |-> 0]]]

UpdateSeen(m, t, forward) ==
  IF t.kind # "update" \/ t.file \notin DOMAIN m.files THEN m
  ELSE IF (t.status = "store") = forward
       THEN [m EXCEPT !.files[t.file].all = @ \union {t.storage},
                      !.files[t.file].own = @ \union ({t.storage} \intersect m.storages)]
       ELSE [m EXCEPT !.files[t.file].all = @ \ {t.storage},
                      !.files[t.file].own = @ \ {t.storage}]

ReportSeen(m, t, number, forward) ==
  IF ~ m.ok \/ t.kind # "statistics" THEN m
  ELSE IF ~ forward THEN [m EXCEPT !.usage = Without(@, number)]
  ELSE IF ~ DOMAIN t.served \subseteq DOMAIN m.files THEN [m EXCEPT !.ok = FALSE]
  ELSE [m EXCEPT !.usage = Counted(@, number, t.served),
                 !.files = [f \in DOMAIN t.served |-> [@[f] EXCEPT !.report = number]] @@ @]

TxSeen(m, t, number, forward) ==
  ReportSeen(UpdateSeen(UnitSeen(m, t, forward), t, forward), t, number, forward)

-----------------------------------------------------------------------------
(* sm_daemon::sync: only blocks count, each with its own number *)

BlockApplied(m, e) ==
  IF ~ m.ok THEN m
  ELSE LET start == [m EXCEPT !.taken = Append(@, e), !.head = @ + (IF e.type = "block" THEN 1 ELSE 0)]
       IN  IF e.type = "tx" THEN start
           ELSE FoldLeft(LAMBDA r, t : TxSeen(r, t, start.head, TRUE), start, e.txs)

BlockReverted(m) ==
  LET e == Last(m.taken)
      start == [m EXCEPT !.taken = Front(@), !.head = @ - (IF e.type = "block" THEN 1 ELSE 0)]
  IN  IF ~ m.ok \/ e.type = "tx" THEN start
      ELSE FoldRight(LAMBDA t, r : TxSeen(r, t, m.head, FALSE), e.txs, start)

Synced(m, course) ==
  FoldLeft(LAMBDA r, e : IF e.type = "back" THEN BlockReverted(r) ELSE BlockApplied(r, e),
           [m EXCEPT !.ok = TRUE], course)

ManagerInit ==
  /\ sm = NoFiles
  /\ miscounted = FALSE

\* A sync that fails discards all but the usage, which is not a file.
ManagerDiscard(after) ==
  /\ sm' = [sm EXCEPT !.usage = after.usage, !.ok = after.ok]
  /\ miscounted' = (miscounted \/ after.usage # sm.usage)

\* On a timer: sync, save, commit.  It breaks as the commander's does.
ManagerSync ==
  \E c \in Courses(sm.taken) :
  \E after \in {Synced(sm, c)} :
    \/ after.ok /\ sm' = after /\ UNCHANGED miscounted
    \/ ~ after.ok /\ ManagerDiscard(after)
    \/ ~ miscounted /\ after.usage # sm.usage /\ ManagerDiscard(after)

\* Fault: a storage looked after from now on counts from now on.
ImportStorageEmpty ==
  \E s \in world.accounts \ sm.storages :
    /\ sm' = [sm EXCEPT !.storages = @ \union {s}]
    /\ UNCHANGED miscounted

\* import_storage, of a storage not looked after yet
ImportStorage ==
  \E s \in world.accounts \ sm.storages :
    /\ sm' = [sm EXCEPT !.storages = @ \union {s},
                        !.files = [f \in DOMAIN @ |->
                                     [@[f] EXCEPT !.own = @ \union ({s} \intersect sm.files[f].all)]]]
    /\ UNCHANGED miscounted

\* Before it sends commands, every 600 seconds, it forgets what is too old.
ManagerForgets ==
  /\ sm' = [sm EXCEPT !.usage = Recent(@, sm.head)]
  /\ UNCHANGED miscounted

ManagerRestart ==
  /\ sm' = [sm EXCEPT !.usage = <<>>]
  /\ miscounted' = FALSE

ManagerNext ==
  ManagerSync \/ ImportStorage \/ ManagerForgets \/ ManagerRestart

-----------------------------------------------------------------------------
(* The commands it sends *)

\* On the timer: one more storage for a file served more than others, as long as
\* one of its storages does not have it.
StoreCommands(m) ==
  LET served == Served(m.usage, m.head)
      wanted == {f \in DOMAIN served \intersect DOMAIN m.files :
                   Cardinality(m.files[f].own) < Cardinality(m.storages)}
      counts == {served[f] : f \in wanted}
      threshold == Max({LeastUse, (Min(counts) + Max(counts)) \div 2})
  IN  IF wanted = {} THEN {}
      ELSE {[file |-> f, storage |-> CHOOSE s \in m.storages \ m.files[f].own : TRUE] :
              f \in {g \in wanted : served[g] > threshold}}

\* Fault: a block early.
ClearCommandsEarly(m, storage) ==
  {f \in DOMAIN m.files :
     storage \in m.files[f].own /\ m.files[f].report <= Before(m.head, Stale)}

\* clear_storage: files of the storage that nobody has read for long
ClearCommands(m, storage) ==
  {f \in DOMAIN m.files :
     storage \in m.files[f].own /\ m.files[f].report < Before(m.head, Stale)}

\* import_storage, of a storage looked after already: what it has is commanded
\* again.
StoreAgainCommands(m, storage) == {f \in DOMAIN m.files : storage \in m.files[f].own}

-----------------------------------------------------------------------------
Holders(txs, f) ==
  {s \in {t.storage : t \in {u \in world.tx : u.kind = "update"}} : Holding(txs, s, f)}

\* The storages the manager has for a file do have it, and it misses none that
\* stored the file after the first unit it is in; those it looks after are
\* exactly the ones among them, whenever they were imported and whatever blocks
\* were taken back.  (process_storage_transactions, import_storage; a file
\* stored before its first unit is not known yet, and a revert leaves it known.)
HoldersAreKnown ==
  \A f \in DOMAIN sm.files :
    LET blocks == SelectSeq(sm.taken, LAMBDA e : e.type = "block")
        txs == AllTxs(blocks)
        naming == {i \in DOMAIN txs : txs[i].kind = "unit" /\ f \in txs[i].files}
        since == IF naming = {} THEN <<>> ELSE SubSeq(txs, Min(naming), Len(txs))
    IN
    /\ Holders(since, f) \subseteq sm.files[f].all
    /\ sm.files[f].all \subseteq Holders(txs, f)
    /\ sm.files[f].own = sm.files[f].all \intersect sm.storages

\* A storage is told to remove only a file it has and that no block of the last
\* hundred days reports as read, once the chain is that old; before that every
\* file seems not to have been read.  (clear_storage: "100 days".)
RemovalsAreDue ==
  \A s \in sm.storages :
    /\ ClearCommands(sm, s) \subseteq StoreAgainCommands(sm, s)
    /\ sm.head >= Stale =>
         \A f \in ClearCommands(sm, s), n \in (sm.head - Stale - 1)..(sm.head - 1) :
           \A i \in DOMAIN ReportsOf(sm.taken, n) : f \notin DOMAIN ReportsOf(sm.taken, n)[i].served

\* While no sync has failed, a storage is told to store only a file that the blocks
\* of the last day report more often than the least, and that it is not known to
\* have.  (The timer of manager::run.)
StoringIsDue ==
  ~ miscounted =>
    \A c \in StoreCommands(sm) :
      LET recent == FlattenSeq([i \in 1..Window |-> ReportsOf(sm.taken, sm.head - i)])
      IN  /\ c.storage \in sm.storages \ sm.files[c.file].all
          /\ FoldLeft(LAMBDA sum, t : IF c.file \in DOMAIN t.served THEN sum + t.served[c.file]
                                      ELSE sum, 0, recent) > LeastUse
=============================================================================
