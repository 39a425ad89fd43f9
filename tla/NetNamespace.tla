---------------------------- MODULE NetNamespace ----------------------------
(***************************************************************************)
(* The namespace registry of src/vnet/unix/net_namespace.go: the startup  *)
(* scan of /var/run/netns, the inotify watcher, the add and delete paths, *)
(* the rescan on an nsid message, and the initial-sync barrier counted in *)
(* netlink_dump_done.                                                      *)
(*                                                                         *)
(* Every namespace object the code allocates (&net_namespace{...}) is an  *)
(* element of Objs; namespace_by_name maps a name to the object last      *)
(* registered under it.  The callbacks (scan entries, watcher events,     *)
(* rescans) run one at a time on one control thread; an add holds that    *)
(* thread through its setns retry loop.  The initial dump each object     *)
(* starts with listen completes later, at any time, and then calls       *)
(* netlink_dump_done.                                                      *)
(*                                                                         *)
(* The file system is the environment: "ip netns add" creates the file   *)
(* and later bind-mounts it (setns fails until then), "ip netns del"      *)
(* removes it; inotify reports both once the watch is set.                *)
(***************************************************************************)
EXTENDS Naturals, Sequences, FiniteSets, SequencesExt

CONSTANTS
  Names,          \* names of entries that may appear in /var/run/netns
  Default,        \* "default": the name of the handcrafted default namespace
  InitialDir,     \* the entries present at startup
  MaxObjs,        \* most namespace objects allocated in a behaviour
  SetnsAttempts,  \* failed setns attempts that fit in the 10ms window
  MaxDirChanges,  \* bound on "ip netns add/del" in a behaviour
  MaxRescans,     \* bound on nsid messages that trigger a rescan
  UINT_MAX        \* ^uint(0)

ASSUME /\ Default \notin Names
       /\ InitialDir \subseteq Names
       /\ MaxObjs \in Nat \ {0} /\ SetnsAttempts \in Nat \ {0}

Objs == 1..MaxObjs
Indices == 0..MaxObjs - 1
None == -1
AllNames == Names \cup {Default}

(* An inotify event as decode returns it: the entry's name and whether   *)
(* its mask has IN_DELETE (else IN_CREATE, the only other event watched). *)
InotifyEvent == [name : Names, del : BOOLEAN]

VARIABLES
  dir,           \* entries of /var/run/netns
  mounted,       \* entries already bind-mounted: setns on them succeeds
  watching,      \* the inotify watch is set
  inotify,       \* inotify events not yet read: [name, del]
  pc,            \* the control thread: what it is doing
  scan,          \* the read_dir snapshot still to be walked
  ret,           \* where the control thread goes when the scan ends
  adding,        \* the object whose add is in its setns loop, or None
  tries,         \* failed setns attempts of that add
  nsByName,      \* namespace_by_name: name -> object, or None
  obj,           \* the allocated objects
  nObjs,         \* objects allocated so far
  entries,       \* namespace_pool.entries: index -> object, or None
  done,          \* n_initial_namespace_done
  loaded,        \* the count each object's increment has loaded
  nInitial,      \* n_initial_namespace
  initialNames,  \* names registered when n_initial_namespace was set
  fired,         \* calls of netlink_dump_done_for_all_namespaces
  panicked,      \* the process panicked
  changes,       \* file system changes so far
  rescans        \* rescans so far

vars == <<dir, mounted, watching, inotify, pc, scan, ret, adding, tries,
          nsByName, obj, nObjs, entries, done, loaded, nInitial, initialNames,
          fired, panicked, changes, rescans>>

(* An object: its name, its pool index (or None), whether it holds its    *)
(* raw and netlink sockets, and the state of its initial dump.            *)
ObjRec == [name : AllNames, index : Indices \cup {None}, sockets : BOOLEAN,
           dump : {"none", "running", "loaded", "stored", "done"}]

FreeIndices == {i \in Indices : entries[i] = None}
Registered == {n \in AllNames : nsByName[n] # None}

(* The deferred increment of a Go uint.                                   *)
Inc(n) == IF n = UINT_MAX THEN 0 ELSE n + 1

Panic == panicked' = TRUE

(* fd_for_path opens the entry: it succeeds while the entry exists.        *)
fd_for_path(name) == name \in dir

(* nsid_for_path fails when fd_for_path does; otherwise it asks the       *)
(* default namespace's socket for the nsid (a value the model omits).     *)
nsid_for_path(name) == fd_for_path(name)

(* allocate_sockets and iomux_add, inside the namespace: the raw and the  *)
(* two netlink sockets of object o are made and registered.               *)
allocate_sockets(o) == [obj EXCEPT ![o].sockets = TRUE]

-----------------------------------------------------------------------------
(* add_del_nsid for an add, with the start of ns.add: a new object is     *)
(* registered under name (replacing whatever was there) and given a free *)
(* pool index; the control thread then enters the setns loop.             *)
NewNamespace(name) ==
  LET o == nObjs + 1 IN
  /\ nObjs < MaxObjs
  /\ \E i \in FreeIndices :
       /\ obj' = [obj EXCEPT ![o] = [name |-> name, index |-> i,
                                     sockets |-> FALSE, dump |-> "none"]]
       /\ entries' = [entries EXCEPT ![i] = o]
  /\ nObjs' = o
  /\ nsByName' = [nsByName EXCEPT ![name] = o]
  /\ adding' = o /\ tries' = 0

(* watch_namespace_add_del(dir, name, false): nsid_for_path opens the     *)
(* entry (and panics if it is gone), then the namespace is added.         *)
WatchAdd(name) ==
  \/ /\ ~nsid_for_path(name)
     /\ Panic
     /\ UNCHANGED <<obj, entries, nObjs, nsByName, adding, tries>>
  \/ /\ nsid_for_path(name)
     /\ NewNamespace(name)
     /\ UNCHANGED panicked

(* watch_namespace_add_del(dir, name, true): an unknown name panics;      *)
(* otherwise add_del_nsid deletes the map entry, and nothing else.        *)
WatchDel(name) ==
  \/ /\ nsByName[name] = None
     /\ Panic
     /\ UNCHANGED nsByName
  \/ /\ nsByName[name] # None
     /\ nsByName' = [nsByName EXCEPT ![name] = None]
     /\ UNCHANGED panicked

-----------------------------------------------------------------------------
(* namespace_init, the handcrafted default namespace: pool index,         *)
(* namespace_by_name entry, sockets configured, listen started; then the  *)
(* initial read_dir snapshot.                                              *)
namespace_init ==
  /\ ~panicked
  /\ pc = "boot"
  /\ \E i \in FreeIndices :
       /\ obj' = [obj EXCEPT ![1] = [name |-> Default, index |-> i,
                                     sockets |-> TRUE, dump |-> "running"]]
       /\ entries' = [entries EXCEPT ![i] = 1]
  /\ nObjs' = 1
  /\ nsByName' = [nsByName EXCEPT ![Default] = 1]
  /\ scan' = SetToSeq(dir) /\ ret' = "count" /\ pc' = "scan"
  /\ UNCHANGED <<dir, mounted, watching, inotify, adding, tries, done, loaded,
                 nInitial, initialNames, fired, panicked, changes, rescans>>

(* read_dir: the next entry of the snapshot goes to                       *)
(* watch_namespace_add_del as an add; an exhausted snapshot returns.      *)
read_dir ==
  /\ ~panicked
  /\ pc = "scan" /\ adding = None
  /\ \/ /\ scan = <<>>
        /\ pc' = ret
        /\ UNCHANGED <<scan, obj, entries, nObjs, nsByName, adding, tries,
                       panicked>>
     \/ /\ scan # <<>>
        /\ scan' = Tail(scan)
        /\ WatchAdd(Head(scan))
        /\ UNCHANGED pc
  /\ UNCHANGED <<dir, mounted, watching, inotify, ret, done, loaded, nInitial,
                 initialNames, fired, changes, rescans>>

(* Mutant of add: the setns loop without the 10ms window.              *)
addNoWindow ==
  /\ ~panicked
  /\ adding # None
  /\ LET o == adding IN
     \/ /\ ~fd_for_path(obj[o].name)
        /\ Panic
        /\ UNCHANGED <<obj, adding, tries>>
     \/ /\ obj[o].name \in mounted
        /\ obj' = [allocate_sockets(o) EXCEPT ![o].dump = "running"]
        /\ adding' = None /\ tries' = 0
        /\ UNCHANGED panicked
     \/ /\ obj[o].name \in dir \ mounted
        /\ tries' = tries + 1
        /\ UNCHANGED <<obj, adding, panicked>>
  /\ UNCHANGED <<dir, mounted, watching, inotify, pc, scan, ret, nsByName,
                 nObjs, entries, done, loaded, nInitial, initialNames, fired,
                 changes, rescans>>

(* One pass of ns.add's loop: fd_for_path panics if the entry is gone;    *)
(* setns succeeds on a mounted entry, and then allocate_sockets, iomux_add,*)
(* configure and listen follow; a failure is retried until the 10ms       *)
(* window is over, then panics.                                            *)
add ==
  /\ ~panicked
  /\ adding # None
  /\ LET o == adding IN
     \/ /\ ~fd_for_path(obj[o].name)
        /\ Panic
        /\ UNCHANGED <<obj, adding, tries>>
     \/ /\ obj[o].name \in mounted
        /\ obj' = [allocate_sockets(o) EXCEPT ![o].dump = "running"]
        /\ adding' = None /\ tries' = 0
        /\ UNCHANGED panicked
     \/ /\ obj[o].name \in dir \ mounted
        /\ tries + 1 >= SetnsAttempts
        /\ Panic
        /\ UNCHANGED <<obj, adding, tries>>
     \/ /\ obj[o].name \in dir \ mounted
        /\ tries + 1 < SetnsAttempts
        /\ tries' = tries + 1
        /\ UNCHANGED <<obj, adding, panicked>>
  /\ UNCHANGED <<dir, mounted, watching, inotify, pc, scan, ret, nsByName,
                 nObjs, entries, done, loaded, nInitial, initialNames, fired, changes,
                 rescans>>

(* m.n_initial_namespace = uint(len(nm.namespace_by_name)), after the     *)
(* initial scan.                                                           *)
set_initial_count ==
  /\ ~panicked
  /\ pc = "count"
  /\ nInitial' = Cardinality(Registered)
  /\ initialNames' = Registered
  /\ pc' = "unwatched"
  /\ UNCHANGED <<dir, mounted, watching, inotify, scan, ret, adding, tries,
                 nsByName, obj, nObjs, entries, done, loaded, fired, panicked, changes,
                 rescans>>

(* watch_for_new_net_namespaces: the watch goroutine sets the inotify     *)
(* watch; changes before this are never reported.                        *)
watch_for_new_net_namespaces ==
  /\ ~panicked
  /\ pc = "unwatched"
  /\ watching' = TRUE /\ pc' = "watch"
  /\ UNCHANGED <<dir, mounted, inotify, scan, ret, adding, tries, nsByName,
                 obj, nObjs, entries, done, loaded, nInitial, initialNames, fired,
                 panicked, changes, rescans>>

(* watch_dir: the next IN_CREATE or IN_DELETE event.                      *)
watch_dir ==
  /\ ~panicked
  /\ pc = "watch" /\ adding = None
  /\ inotify # <<>>
  /\ inotify' = Tail(inotify)
  /\ LET e == Head(inotify) IN
     \/ /\ ~e.del
        /\ WatchAdd(e.name)
     \/ /\ e.del
        /\ WatchDel(e.name)
        /\ UNCHANGED <<obj, entries, nObjs, adding, tries>>
  /\ UNCHANGED <<dir, mounted, watching, pc, scan, ret, done, loaded, nInitial,
                 initialNames, fired, changes, rescans>>

(* netnsMessage: an nsid message makes the control thread read the       *)
(* directory again and add every entry, known or not.                     *)
netnsMessage ==
  /\ ~panicked
  /\ pc \in {"unwatched", "watch"} /\ adding = None
  /\ rescans < MaxRescans
  /\ rescans' = rescans + 1
  /\ scan' = SetToSeq(dir) /\ ret' = pc /\ pc' = "scan"
  /\ UNCHANGED <<dir, mounted, watching, inotify, adding, tries, nsByName,
                 obj, nObjs, entries, done, loaded, nInitial, initialNames, fired,
                 panicked, changes>>

(* netlink_dump_done, called from the receive path of object o when its  *)
(* initial dump has ended.  nm.n_initial_namespace_done++ is a plain Go   *)
(* increment: its load and its store are separate steps, so two         *)
(* namespaces completing together can interleave between them.           *)
netlink_dump_done_load(o) ==
  /\ ~panicked
  /\ obj[o].dump = "running"
  /\ obj' = [obj EXCEPT ![o].dump = "loaded"]
  /\ loaded' = [loaded EXCEPT ![o] = done]
  /\ UNCHANGED <<dir, mounted, watching, inotify, pc, scan, ret, adding, tries,
                 nsByName, nObjs, entries, done, nInitial, initialNames, fired,
                 panicked, changes, rescans>>

(* The store of the incremented count.                                     *)
netlink_dump_done_store(o) ==
  /\ ~panicked
  /\ obj[o].dump = "loaded"
  /\ obj' = [obj EXCEPT ![o].dump = "stored"]
  /\ done' = Inc(loaded[o])
  /\ UNCHANGED <<dir, mounted, watching, inotify, pc, scan, ret, adding, tries,
                 nsByName, nObjs, entries, nInitial, initialNames, loaded, fired,
                 panicked, changes, rescans>>

(* The comparison with n_initial_namespace; on a match the count is set  *)
(* to ^uint(0) and the barrier fires.  The comparison reads the shared    *)
(* count again or reuses the value just stored: with the unsynchronised   *)
(* increments either is an outcome the compiled code can have.            *)
netlink_dump_done_compare(o) ==
  /\ ~panicked
  /\ obj[o].dump = "stored"
  /\ obj' = [obj EXCEPT ![o].dump = "done"]
  /\ \E c \in {done, Inc(loaded[o])} :
       IF c = nInitial
         THEN done' = UINT_MAX /\ fired' = fired + 1
         ELSE UNCHANGED <<done, fired>>
  /\ UNCHANGED <<dir, mounted, watching, inotify, pc, scan, ret, adding, tries,
                 nsByName, nObjs, entries, nInitial, initialNames, loaded,
                 panicked, changes, rescans>>

-----------------------------------------------------------------------------
(* The file system (environment).                                          *)

Report(name, isDel) ==
  inotify' = IF watching THEN Append(inotify, [name |-> name, del |-> isDel])
                         ELSE inotify

(* ip netns add: the file appears; the bind mount follows in Mount.       *)
DirAdd(name) ==
  /\ ~panicked
  /\ changes < MaxDirChanges /\ name \notin dir
  /\ changes' = changes + 1
  /\ dir' = dir \cup {name}
  /\ Report(name, FALSE)
  /\ UNCHANGED <<mounted, watching, pc, scan, ret, adding, tries, nsByName,
                 obj, nObjs, entries, done, loaded, nInitial, initialNames, fired,
                 panicked, rescans>>

Mount(name) ==
  /\ ~panicked
  /\ name \in dir \ mounted
  /\ mounted' = mounted \cup {name}
  /\ UNCHANGED <<dir, watching, inotify, pc, scan, ret, adding, tries,
                 nsByName, obj, nObjs, entries, done, loaded, nInitial, initialNames,
                 fired, panicked, changes, rescans>>

(* ip netns del.                                                           *)
DirDel(name) ==
  /\ ~panicked
  /\ changes < MaxDirChanges /\ name \in dir
  /\ changes' = changes + 1
  /\ dir' = dir \ {name} /\ mounted' = mounted \ {name}
  /\ Report(name, TRUE)
  /\ UNCHANGED <<watching, pc, scan, ret, adding, tries, nsByName, obj, nObjs,
                 entries, done, loaded, nInitial, initialNames, fired, panicked,
                 rescans>>

-----------------------------------------------------------------------------
Init ==
  /\ dir = InitialDir /\ mounted = InitialDir
  /\ watching = FALSE /\ inotify = <<>>
  /\ pc = "boot" /\ scan = <<>> /\ ret = "count"
  /\ adding = None /\ tries = 0
  /\ nsByName = [n \in AllNames |-> None]
  /\ obj = [o \in Objs |-> [name |-> Default, index |-> None,
                            sockets |-> FALSE, dump |-> "none"]]
  /\ nObjs = 0
  /\ entries = [i \in Indices |-> None]
  /\ done = 0 /\ loaded = [o \in Objs |-> 0] /\ nInitial = 0 /\ initialNames = {} /\ fired = 0
  /\ panicked = FALSE
  /\ changes = 0 /\ rescans = 0

(* A panic ends the process: every action is guarded by ~panicked.        *)
Next ==
  \/ namespace_init \/ read_dir \/ add \/ set_initial_count
  \/ watch_for_new_net_namespaces \/ watch_dir \/ netnsMessage
  \/ \E o \in Objs : netlink_dump_done_load(o) \/ netlink_dump_done_store(o)
                        \/ netlink_dump_done_compare(o)
  \/ \E n \in Names : DirAdd(n) \/ Mount(n) \/ DirDel(n)

(* The control thread and the dumps make progress; the bind mount of a    *)
(* new entry is eventually done.  File system changes and nsid messages   *)
(* are not assumed.                                                        *)
Fairness ==
  /\ WF_vars(namespace_init \/ read_dir \/ add \/ set_initial_count
              \/ watch_for_new_net_namespaces \/ watch_dir)
  /\ \A o \in Objs : WF_vars(netlink_dump_done_load(o))
  /\ \A o \in Objs : WF_vars(netlink_dump_done_store(o))
  /\ \A o \in Objs : WF_vars(netlink_dump_done_compare(o))
  /\ \A n \in Names : WF_vars(Mount(n))

Spec == Init /\ [][Next]_vars /\ Fairness

-----------------------------------------------------------------------------
(* Properties.                                                             *)

TypeOK ==
  /\ dir \subseteq Names /\ mounted \subseteq dir
  /\ watching \in BOOLEAN
  /\ inotify \in Seq(InotifyEvent)
  /\ pc \in {"boot", "scan", "count", "unwatched", "watch"}
  /\ scan \in Seq(Names) /\ ret \in {"count", "unwatched", "watch"}
  /\ adding \in Objs \cup {None} /\ tries \in 0..SetnsAttempts
  /\ nsByName \in [AllNames -> Objs \cup {None}]
  /\ obj \in [Objs -> ObjRec] /\ nObjs \in 0..MaxObjs
  /\ entries \in [Indices -> Objs \cup {None}]
  /\ done \in Nat \cup {UINT_MAX} /\ nInitial \in Nat
  /\ loaded \in [Objs -> Nat \cup {UINT_MAX}]
  /\ initialNames \subseteq AllNames /\ fired \in Nat
  /\ panicked \in BOOLEAN

(* Spec 8.6: the barrier (netlink_dump_done_for_all_namespaces) fires at *)
(* most once, and only when every namespace known at startup has         *)
(* completed its initial dump, whatever other namespaces complete.        *)
BarrierFiresOnceAfterStartupDumps ==
  /\ fired <= 1
  /\ fired > 0 =>
       \A n \in initialNames :
         \E o \in 1..nObjs : obj[o].name = n /\ obj[o].dump = "done"

(* Spec 4.4: once the startup namespaces have been added and nothing      *)
(* panics, the barrier eventually fires.                                   *)
BarrierEventuallyFires == <>(fired > 0 \/ panicked)

=============================================================================
