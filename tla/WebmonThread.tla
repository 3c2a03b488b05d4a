----------------------------- MODULE WebmonThread -----------------------------
(***************************************************************************)
(* The webmon thread (webmon.c): it refreshes its page for ever from the   *)
(* tables, one locked row at a time, and is not told of the program's end. *)
(* Of its page only what it reads at each step matters here; the parts     *)
(* that depend on nothing shared (header, settings, graph) are left out.   *)
(***************************************************************************)
EXTENDS MondTables

WebLabels == {"off", "start", "rows", "lockList", "completed", "files"}

WebLocals == [pc : WebLabels, i : RowIds, dangling : BOOLEAN]

(* The mutexes of the tables are gone: locking one fails, and that calls
   exit(-1). *)
TablesDestroyed == cmd.pc = "return"

(* A new page, if its file can be opened: the system thread's flag is read
   here, without a lock, and decides whether the system row is shown. *)
WebmonRefresh ==
  /\ web.pc = "start"
  /\ web' = [web EXCEPT !.pc = "rows",
               !.i = IF systemThreadState = "RUNNING" THEN SystemRow ELSE 1]
  /\ UNCHANGED <<tables, globals, threads, proc, cmd, status>>

(* fopen fails: the file the user named, or the descriptors left. *)
WebmonRefused ==
  /\ web.pc = "start"
  /\ status' = "refused"
  /\ UNCHANGED <<tables, globals, threads, proc, cmd, web>>

(* Show one row, under its mutex, if its startTime is set. *)
WebmonShowRow ==
  /\ web.pc = "rows"
  /\ IF TablesDestroyed
     THEN status' = "crashed" /\ UNCHANGED web
     ELSE /\ rowLock[web.i] = NoTid
          /\ web' = [web EXCEPT
                       !.i  = IF web.i = THREAD_TABLE_SIZE THEN 0 ELSE web.i + 1,
                       !.pc = IF web.i = THREAD_TABLE_SIZE THEN "lockList" ELSE "rows"]
          /\ UNCHANGED status
  /\ UNCHANGED <<tables, globals, threads, proc, cmd>>

(* Lock the completed list and start to walk it.  Once the program's end has
   destroyed the list, completedList is a NULL pointer. *)
WebmonLockList ==
  /\ web.pc = "lockList"
  /\ ~ListLocked
  /\ IF listExists
     THEN web' = [web EXCEPT !.pc = "completed"] /\ UNCHANGED status
     ELSE status' = "crashed" /\ UNCHANGED web
  /\ UNCHANGED <<tables, globals, threads, proc, cmd>>

(* The end of the walk.  If the nodes were freed in its middle, it reads freed
   memory: it gets through unharmed or it crashes. *)
WebmonUnlockList ==
  /\ web.pc = "completed"
  /\ \/ web' = [web EXCEPT !.pc = "files", !.dangling = FALSE] /\ UNCHANGED status
     \/ web.dangling /\ status' = "crashed" /\ UNCHANGED web
  /\ UNCHANGED <<tables, globals, threads, proc, cmd>>

(* Show the file table, each entry under its mutex, and sleep. *)
WebmonShowFiles ==
  /\ web.pc = "files"
  /\ IF TablesDestroyed
     THEN status' = "crashed" /\ UNCHANGED web
     ELSE web' = [web EXCEPT !.pc = "start"] /\ UNCHANGED status
  /\ UNCHANGED <<tables, globals, threads, proc, cmd>>

WebmonNext ==
  \/ WebmonRefresh \/ WebmonRefused \/ WebmonShowRow \/ WebmonLockList \/ WebmonUnlockList
  \/ WebmonShowFiles
=============================================================================
