---------------------------- MODULE CompanionSetup ----------------------------
(***************************************************************************)
(* Guided setup of the OpenCode companion, service/companion-setup.ts: it  *)
(* puts a bundle's files where OpenCode loads them and an entry into the   *)
(* user's configuration, or takes them out again.  No step is atomic with  *)
(* the next, any may fail, the service may be killed between them, another *)
(* service may do the same, and the user edits the same files.             *)
(*                                                                         *)
(* A bundle is its version, which stands for the content of each of its    *)
(* files; the modules are one file.  What JSON looks like, modes, links    *)
(* and owners are left out, as are the bounds of what is read.             *)
(***************************************************************************)
EXTENDS Integers, Sequences, Functions

CONSTANTS
    Pid,        \* services, each of which runs once
    Version,    \* of their bundles
    None,
    MaxEdits, MaxTasks, MaxFaults   \* bounds; a fault is a failed step or a crash

Edited == 0     \* what the user made of a file
SetupAssumption ==
    /\ Version \subseteq Nat \ {Edited}
    /\ None \notin Nat /\ None \notin [{"modules", "index.js", "package.json", "owner"} -> {None} \cup Nat]

\* Mutant: the marker is written first.
MarkerFirst == <<"owner", "modules", "index.js", "package.json">>

\* replaceOrder: the modules before the entry point, the marker last.
Order == <<"modules", "index.js", "package.json", "owner">>
File  == {"modules", "index.js", "package.json"}     \* COMPANION_FILES

VARIABLES
    addon,      \* the directory: None, or what its files hold
    config,     \* OpenCode's configuration: the entry's revision or None, and the user's edits
    lock,       \* .mlx-scope-setup.lock: the pid in it
    service,    \* pid -> its process and setup task
    last,       \* history: the version last being installed, None while that is being undone
    kept,       \* history: files the user edited while nobody set up, and how often the configuration
    raced,      \* history: two tasks had the lock
    edits, tasks, faults    \* bounds

setupVars == <<addon, config, lock, service, last, kept, raced, edits, tasks, faults>>

Empty == [f \in Range(Order) |-> None]
Content == IF addon = None THEN Empty ELSE addon

\* Of some files, the one that comes first.
FirstOf(files) == Order[CHOOSE i \in DOMAIN Order : Order[i] \in files /\ \A j \in 1 .. i - 1 : Order[j] \notin files]

newService == [state |-> "off", version |-> None, pc |-> "none", kind |-> None, info |-> None,
               todo |-> {}, replaced |-> {}, created |-> FALSE, seen |-> None, attempt |-> 1]

Locked == {"check", "mkdir", "replace", "commit", "rename", "remove", "restore", "unlock"}
Holders == {p \in Pid : service[p].pc \in Locked}

Managed(files) == files["owner"] # None

----------------------------------------------------------------------------
(* What is found and refused.                                              *)

\* inspect: a directory without the package is another's.
Inspectable == addon # None => addon["package.json"] # None

\* Mutant: what differs from the marker is replaced.
AlwaysPrepared(files, v) == TRUE

\* prepareBundle: of a managed file, only what Scope wrote, or what this bundle holds, is replaced.
Prepared(files, v) ==
    Managed(files) => \A f \in File : files[f] \in {None, files["owner"], v}

\* An automatic update: managed, configured, unedited and outdated.
Updatable(v) ==
    /\ Managed(Content) /\ config.entry # None
    /\ \A f \in File : Content[f] = Content["owner"]
    /\ Content["owner"] # v

Begin(p, kind) ==
    /\ service[p].state = "up" /\ service[p].pc = "none" /\ tasks < MaxTasks
    /\ Inspectable
    /\ kind # "disable" => Prepared(Content, service[p].version)
    /\ kind = "update" => Updatable(service[p].version)
    /\ service' = [service EXCEPT ![p] = [newService EXCEPT !.state = "up", !.version = service[p].version, !.pc = "lock",
                      !.kind = kind, !.info = [files |-> Content, config |-> config]]]
    /\ tasks' = tasks + 1
    /\ UNCHANGED <<addon, config, lock, last, kept, raced, edits, faults>>

----------------------------------------------------------------------------
(* The lock: made exclusively; one whose process is gone is removed.        *)

To(p, pc) == service' = [service EXCEPT ![p].pc = pc]
GiveUp(p) == service' = [service EXCEPT ![p] = [newService EXCEPT !.state = "up", !.version = service[p].version]]

SetupLock(p) ==
    /\ service[p].pc = "lock"
    /\ \/ lock = None /\ lock' = p /\ To(p, "check") /\ raced' = (raced \/ Holders # {})
       \/ /\ lock # None /\ UNCHANGED <<lock, raced>>
          /\ IF service[lock].state = "up" THEN GiveUp(p)
             ELSE service' = [service EXCEPT ![p].pc = "recheck", ![p].seen = lock]
    /\ UNCHANGED <<addon, config, last, kept, edits, tasks, faults>>

Recheck(p) ==
    /\ service[p].pc = "recheck"
    /\ IF lock = service[p].seen THEN To(p, "unlink") ELSE GiveUp(p)
    /\ UNCHANGED <<addon, config, lock, last, kept, raced, edits, tasks, faults>>

Unlink(p) ==
    /\ service[p].pc = "unlink"
    /\ lock' = None
    /\ IF lock = None \/ service[p].attempt = 2 THEN GiveUp(p)
       ELSE service' = [service EXCEPT ![p].pc = "lock", ![p].attempt = 2]
    /\ UNCHANGED <<addon, config, last, kept, raced, edits, tasks, faults>>

Unlock(p) ==
    /\ service[p].pc = "unlock"
    /\ lock' = None /\ GiveUp(p)
    /\ UNCHANGED <<addon, config, last, kept, raced, edits, tasks, faults>>

----------------------------------------------------------------------------
(* The task.                                                               *)

\* A failure before the configuration is committed is rolled back.
Failed(s) ==
    [s EXCEPT !.pc = IF s.replaced # {} \/ s.created THEN "restore" ELSE "unlock", !.todo = s.replaced]

\* checkUnchanged and checkInstallation
Check(p) ==
    LET s == service[p]
        v == s.version
        changed == {f \in Range(Order) : s.info.files[f] # v}
    IN  /\ s.pc = "check"
        /\ service' = [service EXCEPT ![p] =
              IF config # s.info.config \/ Content # s.info.files THEN Failed(s)
              ELSE IF s.kind = "disable" THEN [s EXCEPT !.pc = "commit"]
              ELSE [s EXCEPT !.pc = "mkdir", !.todo = changed]]
        /\ UNCHANGED <<addon, config, lock, last, kept, raced, edits, tasks, faults>>

Mkdir(p) ==
    /\ service[p].pc = "mkdir"
    /\ addon' = Content
    /\ service' = [service EXCEPT ![p].pc = "replace", ![p].created = (addon = None)]
    /\ UNCHANGED <<config, lock, last, kept, raced, edits, tasks, faults>>

\* replaceFiles: one rename after the other.
Replace(p) ==
    LET s == service[p]
        f == FirstOf(s.todo)
    IN  /\ s.pc = "replace"
        /\ IF s.todo = {} THEN To(p, "commit") /\ UNCHANGED <<addon, last, kept>>
           ELSE /\ addon' = [Content EXCEPT ![f] = s.version]
                /\ service' = [service EXCEPT ![p].todo = @ \ {f}, ![p].replaced = @ \cup {f}]
                /\ last' = s.version
                \* Enable takes over what is not managed
                /\ kept' = IF Managed(s.info.files) THEN kept ELSE [kept EXCEPT !.files = @ \ {f}]
        /\ UNCHANGED <<config, lock, raced, edits, tasks, faults>>

\* configText
NewEntry(s) == IF s.kind = "disable" THEN None ELSE s.version

\* Mutant: the configuration read first is written back.
IsAsRead(s) == TRUE

IsUnchanged(s) == config = s.info.config

\* commitConfig: once more unchanged, then the rename.
Commit(p) ==
    LET s == service[p]
    IN  /\ s.pc = "commit"
        /\ service' = [service EXCEPT ![p] = IF IsUnchanged(s) THEN [s EXCEPT !.pc = "rename"] ELSE Failed(s)]
        /\ UNCHANGED <<addon, config, lock, last, kept, raced, edits, tasks, faults>>

Rename(p) ==
    LET s == service[p]
    IN  /\ s.pc = "rename"
        /\ config' = IF NewEntry(s) = s.info.config.entry THEN config ELSE [s.info.config EXCEPT !.entry = NewEntry(s)]
        /\ service' = [service EXCEPT ![p] =
              IF s.kind = "disable" /\ Managed(s.info.files) THEN [s EXCEPT !.pc = "remove", !.todo = Range(Order)]
              ELSE [s EXCEPT !.pc = "unlock"]]
        /\ UNCHANGED <<addon, lock, last, kept, raced, edits, tasks, faults>>

\* Disabling removes what Scope wrote, the marker, and the directory if that was all.
Withdraw(p) ==
    LET s == service[p]
        f == FirstOf(s.todo)
    IN  /\ s.pc = "remove"
        /\ IF s.todo = {}
           THEN To(p, "unlock") /\ addon' = IF Content = Empty THEN None ELSE addon
           ELSE /\ service' = [service EXCEPT ![p].todo = @ \ {f}]
                /\ addon' = IF addon # None /\ addon[f] = s.info.files["owner"] THEN [addon EXCEPT ![f] = None] ELSE addon
        /\ UNCHANGED <<config, lock, last, kept, raced, edits, tasks, faults>>

\* restoreFiles, in the same order again; removeFlat of a directory that was made, in any.
Restore(p) ==
    LET s == service[p]
        f == FirstOf(s.todo)
    IN  /\ s.pc = "restore"
        /\ IF s.created /\ Content = Empty THEN addon' = None /\ To(p, "unlock")
           ELSE IF s.created
           THEN (\E g \in Range(Order) : Content[g] # None /\ addon' = [addon EXCEPT ![g] = None]) /\ UNCHANGED service
           ELSE IF s.todo = {} THEN To(p, "unlock") /\ UNCHANGED addon
           ELSE /\ addon' = [Content EXCEPT ![f] = s.info.files[f]]
                /\ service' = [service EXCEPT ![p].todo = @ \ {f}]
        /\ last' = IF s.todo = {} THEN s.version ELSE None
        /\ UNCHANGED <<config, lock, kept, raced, edits, tasks, faults>>

Fault == faults < MaxFaults /\ faults' = faults + 1

\* A file system call fails; after the commit, and while restoring, that ends the task.
StepFails(p) ==
    LET s == service[p]
    IN  /\ s.pc \in Locked \ {"unlock"} /\ Fault
        /\ service' = [service EXCEPT ![p] = IF s.pc \in {"remove", "restore"} THEN [s EXCEPT !.pc = "unlock"] ELSE Failed(s)]
        /\ UNCHANGED <<addon, config, lock, last, kept, raced, edits, tasks>>

Crash(p) ==
    /\ service[p].pc # "none" /\ Fault
    /\ service' = [service EXCEPT ![p] = [newService EXCEPT !.state = "dead"]]
    /\ UNCHANGED <<addon, config, lock, last, kept, raced, edits, tasks>>

Launch(p, v) ==
    /\ service[p].state = "off"
    /\ service' = [service EXCEPT ![p].state = "up", ![p].version = v]
    /\ UNCHANGED <<addon, config, lock, last, kept, raced, edits, tasks, faults>>

\* The user.
Edit == edits < MaxEdits /\ edits' = edits + 1

EditFile(f) ==
    /\ addon # None /\ addon[f] # None /\ Edit
    /\ addon' = [addon EXCEPT ![f] = Edited]
    /\ kept' = IF Holders = {} THEN [kept EXCEPT !.files = @ \cup {f}] ELSE kept
    /\ UNCHANGED <<config, lock, service, last, raced, tasks, faults>>

\* An edit between the check and the rename is lost.
EditConfig ==
    /\ Edit
    /\ config' = [config EXCEPT !.notes = @ + 1]
    /\ kept' = IF \E p \in Pid : service[p].pc = "rename" THEN kept ELSE [kept EXCEPT !.notes = @ + 1]
    /\ UNCHANGED <<addon, lock, service, last, raced, tasks, faults>>

SetupInit ==
    /\ addon = None /\ config = [entry |-> None, notes |-> 0] /\ lock = None
    /\ service = [p \in Pid |-> newService]
    /\ last = None /\ kept = [files |-> {}, notes |-> 0] /\ raced = FALSE
    /\ edits = 0 /\ tasks = 0 /\ faults = 0

SetupNext ==
    \/ EditConfig \/ \E f \in File : EditFile(f)
    \/ \E p \in Pid :
          \/ \E v \in Version : Launch(p, v)
          \/ \E kind \in {"enable", "disable", "update"} : Begin(p, kind)
          \/ SetupLock(p) \/ Recheck(p) \/ Unlink(p) \/ Unlock(p)
          \/ Check(p) \/ Mkdir(p) \/ Replace(p) \/ Commit(p) \/ Rename(p) \/ Withdraw(p) \/ Restore(p)
          \/ StepFails(p) \/ Crash(p)

----------------------------------------------------------------------------
\* Whatever fails, crashes or is rolled back: OpenCode's configuration never names
\* an addon of which a file is missing, and an installation the user did not touch
\* can be finished by the bundle that was being installed.  A first installation
\* cut short before its package.json cannot, nor can a rollback cut short, and two
\* tasks that share the lock may do anything.
InstallationIsWhole ==
    raced \/ /\ config.entry # None => \A f \in File : Content[f] # None
             /\ last # None /\ kept.files = {} /\ edits = 0 /\ Inspectable => Prepared(Content, last)

\* What the user edited while nobody was setting up is still there, until Enable
\* takes over an addon Scope does not manage; and no edit of the configuration is
\* lost but one between the last look at it and the rename.
EditsSurvive ==
    raced \/ /\ \A f \in kept.files : Content[f] = Edited
             /\ config.notes >= kept.notes

\* The installation and what is the user's both outlast setup.
SetupIsSafe == InstallationIsWhole /\ EditsSurvive

\* "never remove a replaced/live lock": two setups do not run at a time.
LockIsExclusive == \A p, q \in Holders : p = q
==============================================================================
