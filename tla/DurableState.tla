---------------------------- MODULE DurableState ----------------------------
(***************************************************************************)
(* The durable state files below the coordination protocol: the journals   *)
(* of gateway and OT adapter (coordination_journal.py), the plant's        *)
(* checkpoint (plant_checkpoint.py) and the command that provisions them   *)
(* (m4i_coordination_init.py).  A file is replaced through a temporary     *)
(* file, under a writer lock held for the life of the process.  A process  *)
(* may be killed between any two system calls, a call may fail, and a      *)
(* power loss leaves of each directory what was last synced.               *)
(*                                                                         *)
(* What a file holds is the number of writes it has seen: 0 is the empty   *)
(* document, 1 of the plant is its baseline.  Ownership and modes, which   *)
(* keep a runtime out until the command has succeeded, are `provisioned`.  *)
(***************************************************************************)
EXTENDS Integers, Sequences

CONSTANTS
    Runtimes,     \* processes that may run a service on one of the files
    MaxWrites,    \* bound on the writes of a file
    MaxUpsets     \* bound on kills, failing calls and power losses

Stores == <<"journal", "plant">>
StoreNames == {"journal", "plant"}
Initializer == "initializer"

ASSUME DurableAssumption ==
    MaxWrites \in Nat /\ MaxUpsets \in Nat /\ Initializer \notin Runtimes

Processes == Runtimes \cup {Initializer}
Missing == -1

VARIABLES
    file,         \* store -> what the file holds now
    lockFile,     \* store -> the writer lock's file exists
    synced,       \* store -> [file, lockFile] as a power loss would leave them
    litter,       \* store -> a killed writer left its temporary file behind
    process,      \* process -> its place and its memory
    provisioned,  \* the command has handed everything to the runtimes
    answered,     \* history, store -> the writes a caller was told of
    upsets        \* kills, failing calls and power losses so far

durableVars == <<file, lockFile, synced, litter, process, provisioned, answered, upsets>>

Down == [pc |-> "down", at |-> 0, locked |-> FALSE, memory |-> Missing, next |-> Missing,
         unusable |-> FALSE]

DurableInit ==
    /\ file = [k \in StoreNames |-> Missing]
    /\ lockFile = [k \in StoreNames |-> FALSE]
    /\ synced = [k \in StoreNames |-> [file |-> Missing, lockFile |-> FALSE]]
    /\ litter = [k \in StoreNames |-> FALSE]
    /\ process = [p \in Processes |-> Down]
    /\ provisioned = FALSE
    /\ answered = [k \in StoreNames |-> <<>>]
    /\ upsets = 0

Store(p) == Stores[process[p].at]
Set(p, value) == process' = [process EXCEPT ![p] = value]
Goto(p, pc) == Set(p, [process[p] EXCEPT !.pc = pc])
Upset == upsets < MaxUpsets /\ upsets' = upsets + 1
OnlyProcess == UNCHANGED <<file, lockFile, synced, litter, provisioned, answered>>

\* The flock of the store's lock file.
Locked(k) == \E p \in Processes : process[p].locked /\ Store(p) = k

----
(* Opening a store. *)

\* _require_isolated_targets, _prepare_empty_directory: nothing may be there.
NothingThere ==
    \A k \in StoreNames : file[k] = Missing /\ ~lockFile[k] /\ ~litter[k]

BeginProvisioning ==
    /\ process[Initializer].pc = "down"
    /\ ~provisioned /\ NothingThere
    /\ Set(Initializer, [Down EXCEPT !.pc = "open", !.at = 1])
    /\ OnlyProcess /\ UNCHANGED upsets

\* Compose starts a service only after the command has succeeded.
StartRuntime(p, at) ==
    /\ p \in Runtimes /\ process[p].pc = "down" /\ provisioned
    /\ Set(p, [Down EXCEPT !.pc = "open", !.at = at])
    /\ OnlyProcess /\ UNCHANGED upsets

\* The journal's lock file is created whenever it is not there; the plant's only
\* by the command, which insists on creating it.
MayOpenLock(p) ==
    Store(p) = "journal" \/ (p = Initializer <=> ~lockFile[Store(p)])

OpenLock(p) ==
    /\ process[p].pc = "open"
    /\ IF MayOpenLock(p) /\ ~Locked(Store(p))
       THEN /\ Set(p, [process[p] EXCEPT !.pc = "locked", !.locked = TRUE])
            /\ lockFile' = [lockFile EXCEPT ![Store(p)] = TRUE]
       ELSE Set(p, IF p = Initializer THEN [process[p] EXCEPT !.pc = "cleanup"] ELSE Down)
            /\ UNCHANGED lockFile
    /\ UNCHANGED <<file, synced, litter, provisioned, answered, upsets>>

\* The constructor under its lock: the command writes the empty document where no
\* file is, a service reads what is there.
CreateEmpty ==
    /\ process[Initializer].pc = "locked"
    /\ Set(Initializer, IF file[Store(Initializer)] = Missing
                        THEN [process[Initializer] EXCEPT !.pc = "temporary", !.next = 0]
                        ELSE [process[Initializer] EXCEPT !.pc = "cleanup", !.locked = FALSE])
    /\ OnlyProcess /\ UNCHANGED upsets

\* _read, _load: no service without its journal.
LoadJournal(p) ==
    /\ p \in Runtimes /\ process[p].pc = "locked" /\ Store(p) = "journal"
    /\ LET found == file[Store(p)] IN
       Set(p, IF found = Missing THEN Down
              ELSE [process[p] EXCEPT !.pc = "serving", !.memory = found])
    /\ OnlyProcess /\ UNCHANGED upsets

LoadCheckpoint(p) ==
    /\ p \in Runtimes /\ process[p].pc = "locked" /\ Store(p) = "plant"
    /\ LET found == file[Store(p)] IN
       Set(p, IF found = Missing THEN Down
              ELSE [process[p] EXCEPT !.pc = "loaded", !.memory = found])
    /\ OnlyProcess /\ UNCHANGED upsets

NoBaseline(p) == Store(p) = "plant" /\ process[p].memory = 0

InstallBaseline(p) ==
    /\ process[p].pc = "loaded" /\ NoBaseline(p)
    /\ Set(p, [process[p] EXCEPT !.pc = "temporary", !.next = 1])
    /\ OnlyProcess /\ UNCHANGED upsets

\* restore_state: everything is solved and compared on a candidate network, and only
\* then becomes the plant's state.  A digest that differs or a power flow that does not
\* converge ends the start.
RestoreState(p) ==
    /\ process[p].pc = "loaded" /\ ~NoBaseline(p)
    /\ Goto(p, "serving") \/ Set(p, Down)
    /\ OnlyProcess /\ UNCHANGED upsets

----
(* Writing it. *)

\* _store: the journal writes from its memory without looking at the file.
StoreRecord(p) ==
    /\ process[p].pc = "serving" /\ Store(p) = "journal" /\ ~process[p].unusable
    /\ process[p].memory < MaxWrites
    /\ Set(p, [process[p] EXCEPT !.pc = "temporary", !.next = process[p].memory + 1])
    /\ OnlyProcess /\ UNCHANGED upsets

\* verify_current: the live state must still be what the file holds.
MatchesFile(p) == process[p].memory = file[Store(p)]

\* _verified_checkpoint_state, asked before anything the plant serves.
VerifiedState(p) == ~process[p].unusable /\ MatchesFile(p)

\* commit_next, before the plant changes in memory.
CommitCheckpoint(p) ==
    /\ process[p].pc = "serving" /\ Store(p) = "plant" /\ VerifiedState(p)
    /\ process[p].memory < MaxWrites
    /\ Set(p, [process[p] EXCEPT !.pc = "temporary", !.next = process[p].memory + 1])
    /\ OnlyProcess /\ UNCHANGED upsets

\* A system call of _persist fails: the store is unusable until it is opened again.
\* The command cleans up; a plant without its baseline does not start.
PersistFails(p) ==
    Set(p, IF p = Initializer
           THEN [process[p] EXCEPT !.pc = "cleanup", !.locked = FALSE]
           ELSE IF NoBaseline(p) THEN Down
           ELSE [process[p] EXCEPT !.pc = "serving", !.unusable = TRUE])

\* The temporary file, under a name of its own, written and synced.
WriteTemporary(p) ==
    /\ process[p].pc = "temporary"
    /\ \/ Goto(p, "replace") /\ UNCHANGED upsets
       \/ PersistFails(p) /\ Upset
    /\ OnlyProcess

\* before_replace: the effect's deadline is looked at last.  Too late is no failure of
\* the store, and the temporary file goes.
DeadlinePassed(p) ==
    /\ process[p].pc = "replace" /\ p \in Runtimes /\ Store(p) = "plant"
    /\ ~NoBaseline(p)
    /\ Goto(p, "serving")
    /\ OnlyProcess /\ UNCHANGED upsets

Replace(p) ==
    /\ process[p].pc = "replace"
    /\ \/ /\ file' = [file EXCEPT ![Store(p)] = process[p].next]
          /\ Goto(p, "sync") /\ UNCHANGED upsets
       \/ PersistFails(p) /\ Upset /\ UNCHANGED file
    /\ UNCHANGED <<lockFile, synced, litter, provisioned, answered>>

\* Faulty variant: a directory that cannot be synced does not matter.
SyncDirectoryBestEffort(p) ==
    /\ process[p].pc = "sync"
    /\ \/ /\ synced' = [synced EXCEPT ![Store(p)] =
                          [file |-> file[Store(p)], lockFile |-> lockFile[Store(p)]]]
          /\ UNCHANGED upsets
       \/ UNCHANGED synced /\ Upset
    /\ Goto(p, "confirm")
    /\ UNCHANGED <<file, lockFile, litter, provisioned, answered>>

SyncDirectory(p) ==
    /\ process[p].pc = "sync"
    /\ \/ /\ synced' = [synced EXCEPT ![Store(p)] =
                          [file |-> file[Store(p)], lockFile |-> lockFile[Store(p)]]]
          /\ Goto(p, "confirm") /\ UNCHANGED upsets
       \/ PersistFails(p) /\ Upset /\ UNCHANGED synced
    /\ UNCHANGED <<file, lockFile, litter, provisioned, answered>>

\* The plant reads its file once more, which under the writer lock still holds what was
\* written; then the memory changes and the caller is told.
Confirm(p) ==
    /\ p \in Runtimes /\ process[p].pc = "confirm"
    /\ Store(p) = "plant" => file[Store(p)] = process[p].next
    /\ Set(p, [process[p] EXCEPT !.pc = "serving", !.memory = process[p].next])
    /\ answered' = [answered EXCEPT ![Store(p)] = Append(@, process[p].next)]
    /\ UNCHANGED <<file, lockFile, synced, litter, provisioned, upsets>>

----
(* The rest of the provisioning command. *)

NextArtifact ==
    /\ process[Initializer].pc = "confirm"
    /\ Set(Initializer, IF process[Initializer].at < Len(Stores)
                        THEN [Down EXCEPT !.pc = "open", !.at = process[Initializer].at + 1]
                        ELSE [Down EXCEPT !.pc = "assign", !.at = 1])
    /\ OnlyProcess /\ UNCHANGED upsets

\* Files and then directories go to their runtime accounts.
AssignArtifacts ==
    /\ process[Initializer].pc = "assign"
    /\ \/ provisioned' = TRUE /\ Set(Initializer, Down) /\ UNCHANGED upsets
       \/ Goto(Initializer, "cleanup") /\ Upset /\ UNCHANGED provisioned
    /\ UNCHANGED <<file, lockFile, synced, litter, answered>>

\* _remove_initialized_artifacts; the directories are not synced.
RemoveArtifacts ==
    /\ process[Initializer].pc = "cleanup"
    /\ file' = [k \in StoreNames |-> Missing]
    /\ lockFile' = [k \in StoreNames |-> FALSE]
    /\ Set(Initializer, Down)
    /\ UNCHANGED <<synced, litter, provisioned, answered, upsets>>

----
(* Ends of processes. *)

\* close: the lock goes with the process.
CloseStore(p) ==
    /\ p \in Runtimes /\ process[p].pc = "serving"
    /\ Set(p, Down)
    /\ OnlyProcess /\ UNCHANGED upsets

Kill(p) ==
    /\ process[p].pc \notin {"down", "serving"}
    /\ Upset
    /\ Set(p, Down)
    /\ litter' = [litter EXCEPT ![Store(p)] = @ \/ process[p].pc \in {"temporary", "replace"}]
    /\ UNCHANGED <<file, lockFile, synced, provisioned, answered>>

PowerLoss ==
    /\ Upset
    /\ process' = [p \in Processes |-> Down]
    /\ file' = [k \in StoreNames |-> synced[k].file]
    /\ lockFile' = [k \in StoreNames |-> synced[k].lockFile]
    /\ UNCHANGED <<synced, litter, provisioned, answered>>

DurableNext ==
    \/ BeginProvisioning \/ CreateEmpty \/ NextArtifact \/ AssignArtifacts \/ RemoveArtifacts
    \/ \E p \in Runtimes, at \in DOMAIN Stores : StartRuntime(p, at)
    \/ \E p \in Processes :
        \/ OpenLock(p) \/ WriteTemporary(p) \/ Replace(p) \/ SyncDirectory(p) \/ Kill(p)
    \/ \E p \in Runtimes :
        \/ LoadJournal(p) \/ LoadCheckpoint(p) \/ InstallBaseline(p) \/ RestoreState(p)
        \/ StoreRecord(p) \/ CommitCheckpoint(p) \/ DeadlinePassed(p) \/ Confirm(p)
        \/ CloseStore(p)
    \/ PowerLoss

DurableSpec == DurableInit /\ [][DurableNext]_durableVars

----
(* Properties. *)

\* Whatever call failed, wherever a process was killed, and after a power loss at any
\* moment: a write a caller was told of is in the file and stays, no write is told of
\* twice, and what a usable service has in memory is what a restart would load
\* (_persist, commit_next, _LifetimeWriterLock).
AnsweredSurvives ==
    /\ \A k \in StoreNames : \A i \in DOMAIN answered[k] :
        /\ answered[k][i] <= file[k] /\ answered[k][i] <= synced[k].file
        /\ \A j \in 1..(i - 1) : answered[k][j] < answered[k][i]
    /\ \A p \in Runtimes :
        process[p].pc \in {"serving", "temporary", "replace"}
            /\ ~process[p].unusable
            => process[p].memory = file[Store(p)]
=============================================================================
