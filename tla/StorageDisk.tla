----------------------------- MODULE StorageDisk -----------------------------
(***************************************************************************)
(* Persistence of one StorageManager: the dirty flag, the persistence       *)
(* thread, save() with its temporary file, load(), shutdown, and crashes at  *)
(* any point.  The contents of entries_ are abstracted to the number of      *)
(* changes they include; a file holds such a number, or Torn when it was     *)
(* written only in part.                                                    *)
(***************************************************************************)
EXTENDS Integers, Sequences

CONSTANTS
    Users,       \* threads that change the store or call save()
    None,
    Torn,        \* content of a file that was not written completely
    MaxChanges,  \* bounds: changes,
    MaxFaults,   \* file operations that fail,
    MaxCrashes   \* crashes

Saver == "persistence"     \* persistence_thread_
Closer == "destructor"     \* the thread in shutdown()
Threads == Users \cup {Saver, Closer}

ASSUME DiskAssumption ==
    /\ Users \cap {Saver, Closer} = {} /\ None \notin Threads
    /\ MaxChanges \in Nat /\ MaxFaults \in Nat /\ MaxCrashes \in Nat
    /\ None \notin Nat /\ Torn \notin Nat /\ None # Torn

Content == 0..MaxChanges
File == Content \cup {None, Torn}

VARIABLES
    mem,      \* entries_, or None while the process is down
    dirty,    \* dirty_
    data,     \* the data file
    tmp,      \* the temporary file
    mutex,    \* holder of storage_mutex_
    pc,       \* control state of every thread
    life,     \* "up", "closing" (running_ is false), "closed", "crashed"
    saved,    \* the content of the last save() that returned true
    faults,   \* the operations that failed
    crashes

vars == <<mem, dirty, data, tmp, mutex, pc, life, saved, faults, crashes>>
files == <<data, tmp>>

Start == [t \in Threads |-> IF t = Saver THEN "loop" ELSE "idle"]

Init ==
    /\ mem = 0 /\ dirty = FALSE /\ data = None /\ tmp = None
    /\ mutex = None /\ pc = Start /\ life = "up" /\ saved = 0
    /\ faults = <<>> /\ crashes = 0

\* A file operation fails.
Fails(op) == Len(faults) < MaxFaults /\ faults' = Append(faults, op)

Goto(t, l) == pc' = [pc EXCEPT ![t] = l]

-----------------------------------------------------------------------------
\* put, remove, compact, a sync response: entries_ changes under the lock ...
change(u) ==
    /\ pc[u] = "idle" /\ life = "up" /\ mutex = None
    /\ mem < MaxChanges
    /\ mem' = mem + 1
    /\ Goto(u, "mark")
    /\ UNCHANGED <<dirty, files, mutex, life, saved, faults, crashes>>

\* ... and is marked after the lock is released.
mark_dirty(u) ==
    /\ pc[u] = "mark"
    /\ dirty' = TRUE
    /\ Goto(u, "idle")
    /\ UNCHANGED <<mem, files, mutex, life, saved, faults, crashes>>

-----------------------------------------------------------------------------
(* save() and write_data_file(), with storage_mutex_ held throughout. *)


save_begin(t) ==
    /\ mutex = None
    /\ mutex' = t
    /\ Goto(t, "open")
    /\ UNCHANGED <<mem, dirty, files, life, saved, faults, crashes>>

AfterSave(t) == IF t = Saver THEN "loop" ELSE IF t = Closer THEN "closed" ELSE "idle"

\* write_data_file returns false; a failed final save is not repeated.
save_failed(t) ==
    /\ mutex' = None
    /\ Goto(t, AfterSave(t))
    /\ life' = IF t = Closer THEN "closed" ELSE life
    /\ UNCHANGED <<mem, dirty, saved, crashes>>


write_open(t) ==
    /\ pc[t] = "open"
    /\ \/ Fails("open") /\ save_failed(t) /\ UNCHANGED files
       \/ /\ tmp' = Torn
          /\ Goto(t, "write")
          /\ UNCHANGED <<mem, dirty, data, mutex, life, saved, faults, crashes>>

\* The entries are written; the results of fwrite and fclose are not looked at.
write_entries(t) ==
    /\ pc[t] = "write"
    /\ \/ tmp' = mem /\ UNCHANGED faults
       \/ Fails("write") /\ UNCHANGED tmp
    /\ Goto(t, "delete")
    /\ UNCHANGED <<mem, dirty, data, mutex, life, saved, crashes>>

write_delete(t) ==
    /\ pc[t] = "delete"
    /\ data' = None
    /\ Goto(t, "rename")
    /\ UNCHANGED <<mem, dirty, tmp, mutex, life, saved, faults, crashes>>

\* rename_file; on failure the temporary file is deleted, too.
write_rename(t) ==
    /\ pc[t] = "rename"
    /\ tmp' = None
    /\ \/ Fails("rename") /\ save_failed(t) /\ UNCHANGED data
       \/ /\ data' = tmp
          /\ Goto(t, "saved")
          /\ UNCHANGED <<mem, dirty, mutex, life, saved, faults, crashes>>

\* (Mutant: the flag stays set.)
save_done_keeps_flag(t) ==
    /\ pc[t] = "saved"
    /\ saved' = mem
    /\ mutex' = None
    /\ Goto(t, AfterSave(t))
    /\ life' = IF t = Closer THEN "closed" ELSE life
    /\ UNCHANGED <<mem, dirty, files, faults, crashes>>

save_done(t) ==
    /\ pc[t] = "saved"
    /\ dirty' = FALSE
    /\ saved' = mem
    /\ mutex' = None
    /\ Goto(t, AfterSave(t))
    /\ life' = IF t = Closer THEN "closed" ELSE life
    /\ UNCHANGED <<mem, files, faults, crashes>>

Saving(t) ==
    write_open(t) \/ write_entries(t) \/ write_delete(t) \/ write_rename(t) \/ save_done(t)

-----------------------------------------------------------------------------
\* save() called by the user.
user_save(u) == pc[u] = "idle" /\ life = "up" /\ save_begin(u)

\* persistence_thread_loop: woken by the interval or by mark_dirty.
persistence_save == pc[Saver] = "loop" /\ life = "up" /\ dirty /\ save_begin(Saver)

persistence_exit ==
    /\ pc[Saver] = "loop" /\ life = "closing"
    /\ Goto(Saver, "exited")
    /\ UNCHANGED <<mem, dirty, files, mutex, life, saved, faults, crashes>>

\* shutdown(): called when no other thread uses the store any more.
shutdown ==
    /\ life = "up" /\ \A u \in Users : pc[u] = "idle"
    /\ life' = "closing"
    /\ UNCHANGED <<mem, dirty, files, mutex, pc, saved, faults, crashes>>

\* The thread is joined; the final save is made if the flag is set.
final_save ==
    /\ life = "closing" /\ pc[Saver] = "exited" /\ pc[Closer] = "idle"
    /\ \/ dirty /\ save_begin(Closer)
       \/ /\ ~dirty
          /\ life' = "closed" /\ Goto(Closer, "closed")
          /\ UNCHANGED <<mem, dirty, files, mutex, saved, faults, crashes>>

Crash ==
    /\ life \in {"up", "closing"} /\ crashes < MaxCrashes
    /\ crashes' = crashes + 1
    /\ life' = "crashed" /\ mem' = None
    /\ UNCHANGED <<dirty, files, mutex, pc, saved, faults>>

\* A new process: load() takes what the data file holds, nothing if there is
\* none, the entries before the break if it is torn; a temporary file is ignored.
load ==
    /\ life = "crashed"
    /\ mem' \in CASE data = None -> {0} [] data = Torn -> 0..saved [] OTHER -> {data}
    /\ dirty' = FALSE /\ mutex' = None /\ pc' = Start /\ life' = "up"
    /\ UNCHANGED <<files, saved, faults, crashes>>

UserStep(u) == change(u) \/ mark_dirty(u) \/ user_save(u)

SaverStep == persistence_save \/ persistence_exit \/ Saving(Saver)

Running == life \in {"up", "closing"}

Next ==
    \/ Running /\ ((\E u \in Users : UserStep(u) \/ Saving(u)) \/ SaverStep
                    \/ shutdown \/ final_save \/ Saving(Closer))
    \/ Crash \/ load

Spec == Init /\ [][Next]_vars

\* Threads that can go on do so; the persistence thread gets the lock in turn.
FairSpec ==
    /\ Spec
    /\ \A u \in Users : WF_vars(Running /\ (mark_dirty(u) \/ Saving(u)))
    /\ SF_vars(Running /\ SaverStep)

-----------------------------------------------------------------------------
(* Properties. *)

\* Contents, files, control states have their types.
TypeOK ==
    /\ mem \in IF life = "crashed" THEN {None} ELSE Content
    /\ dirty \in BOOLEAN
    /\ data \in File /\ tmp \in File
    /\ mutex \in Threads \cup {None}
    /\ pc \in [Threads -> {"idle", "loop", "mark", "open", "write", "delete", "rename",
                           "saved", "exited", "closed"}]
    /\ life \in {"up", "closing", "closed", "crashed"}
    /\ saved \in Content /\ crashes \in 0..MaxCrashes

Failed(op) == \E i \in 1..Len(faults) : faults[i] = op



\* A shutdown without failures leaves everything on disk.
ShutdownSaves ==
    life = "closed" /\ faults = <<>> => data = mem \/ (mem = 0 /\ data = None)

\* What a successful save() wrote is there after a crash and a restart.
SavedSurvives == life = "up" => mem >= saved

\* A change is saved by the persistence thread sooner or later, however many
\* of its attempts fail in between.
DirtyGetsSaved == (dirty /\ life = "up") ~> (~dirty \/ life # "up")

=============================================================================
