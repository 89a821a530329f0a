----------------------------- MODULE NsLifecycle -----------------------------
(***************************************************************************)
(* The set of tracked network namespaces (pkg/xtcp/ns_*.go).               *)
(*                                                                         *)
(* reconcile compares nsMap with the namespaces a scan found: it deletes   *)
(* the entries of the ones that are gone and reserves an entry for each    *)
(* new one, starting a netNamespaceInstance goroutine for it.  The         *)
(* instance enters the namespace on a locked thread, opens a socket there, *)
(* starts the socket's netlinker, publishes the socket in nsMap and waits  *)
(* for its context.  nsMap is shared without a lock, so every access to it *)
(* is a step of its own.  reconcileMu lets one reconcile run at a time, so *)
(* the poller's and the background one are a single process here.          *)
(*                                                                         *)
(* Left out, for nothing here depends on them: fdToNsMap, which a log line *)
(* reads, pollTime and the counters behind the namespace gauge.            *)
(*                                                                         *)
(* An instance is <<inode, generation>>; the default socket of the         *)
(* daemon's own namespace Self is the instance <<Self, 1>>.                *)
(***************************************************************************)
EXTENDS Integers, FiniteSets

CONSTANTS
  Inodes,         \* inodes of network namespaces
  Self,           \* x.selfNsInode
  Generations,    \* bound: how often an inode is added
  SocketFds,      \* bound: file descriptors of the netlink sockets
  MaxReconciles   \* bound on the reconcile passes

ASSUME InodesAssumption ==
  IsFiniteSet(Inodes) /\ Self \in Inodes
ASSUME InstancesAssumption ==
  /\ Generations \in Nat \ {0} /\ MaxReconciles \in Nat
  /\ IsFiniteSet(SocketFds) /\ SocketFds \subseteq Nat
  /\ SocketFds # {}

Instances == Inodes \X (1 .. Generations)
Default   == <<Self, 1>>
DefaultFd == CHOOSE fd \in SocketFds : TRUE
NotOpen   == -1
None      == <<>>
Items     == [inst : Instances, fd : SocketFds \cup {NotOpen}]

VARIABLES
  nsMap,        \* inode -> netNSitem or None
  rpc,          \* where reconcile is: "idle", "delete" or "add"
  live,         \* the inodes its scan found
  todo,         \* inodes the current loop of reconcile has still to visit
  del,          \* the nsDelete in progress, or None
  reconciles,   \* passes started
  canceled,     \* instances whose own context is canceled
  rootDone,     \* the daemon's context is canceled
  pc,           \* where each instance is
  netns,        \* the namespace of each instance's OS thread
  thread,       \* that thread: "none", "locked", "pooled" or "dead"
  sock,         \* the socket number each instance opened
  owner,        \* fd -> the instance whose open socket it is, or None
  sockNs,       \* fd -> the namespace its socket was created in
  nl            \* where each instance's netlinker is

recVars  == <<rpc, live, todo, del, reconciles>>
ctxVars  == <<canceled, rootDone>>
thrVars  == <<netns, thread>>
sockVars == <<sock, owner, sockNs>>
vars == <<nsMap, recVars, ctxVars, pc, thrVars, sockVars, nl>>

(* openDefaultNetLinkSocket has stored the daemon's own namespace.         *)
Init ==
  /\ nsMap = [ino \in Inodes |->
                IF ino = Self THEN [inst |-> Default, fd |-> DefaultFd] ELSE None]
  /\ rpc = "idle" /\ live = {} /\ todo = {} /\ del = None /\ reconciles = 0
  /\ canceled = {} /\ rootDone = FALSE
  /\ pc = [i \in Instances |-> IF i = Default THEN "default" ELSE "unused"]
  /\ netns = [i \in Instances |-> Self]
  /\ thread = [i \in Instances |-> "none"]
  /\ sock = [i \in Instances |-> IF i = Default THEN DefaultFd ELSE NotOpen]
  /\ owner = [fd \in SocketFds |-> IF fd = DefaultFd THEN Default ELSE None]
  /\ sockNs = [fd \in SocketFds |-> Self]
  /\ nl = [i \in Instances |-> "off"]

(* ctx.Err() # nil for the context of instance i.                          *)
Canceled(i) == rootDone \/ i \in canceled

------------------------------------------------------------------------------
(* reconcile, under reconcileMu.                                           *)

(* discoverNamespaces: any set of inodes may be found, for namespaces come *)
(* and go and the scan sees only what it may read.                         *)
ReconcileScan ==
  /\ rpc = "idle"
  /\ reconciles < MaxReconciles
  /\ reconciles' = reconciles + 1
  /\ live' \in SUBSET Inodes
  /\ todo' = Inodes
  /\ rpc' = "delete"
  /\ UNCHANGED <<nsMap, del, ctxVars, pc, thrVars, sockVars, nl>>

(* nsMap.Range visits an inode: one that is not live, and is not Self, is  *)
(* handed to nsDelete, which loads its item.                               *)
RangeVisit(ino) ==
  /\ rpc = "delete"
  /\ del = None
  /\ ino \in todo
  /\ todo' = todo \ {ino}
  /\ del' = IF ino # Self /\ ino \notin live /\ nsMap[ino] # None
            THEN [inode |-> ino, item |-> nsMap[ino], step |-> "cancel"]
            ELSE None
  /\ UNCHANGED <<nsMap, rpc, live, reconciles, ctxVars, pc, thrVars, sockVars, nl>>

(* nsDelete: netNSItem.cancel().                                           *)
DeleteCancel ==
  /\ del # None
  /\ del.step = "cancel"
  /\ canceled' = canceled \cup {del.item.inst}
  /\ del' = [del EXCEPT !.step = "unmap"]
  /\ UNCHANGED <<nsMap, rpc, live, todo, reconciles, rootDone, pc, thrVars, sockVars, nl>>

(* nsDelete: nsMap.Delete(inode), whatever the entry is by now.            *)
DeleteUnmap ==
  /\ del # None
  /\ del.step = "unmap"
  /\ nsMap' = [nsMap EXCEPT ![del.inode] = None]
  /\ del' = None
  /\ UNCHANGED <<rpc, live, todo, reconciles, ctxVars, pc, thrVars, sockVars, nl>>

(* The second loop of reconcile begins, over the live inodes.              *)
RangeEnds ==
  /\ rpc = "delete"
  /\ del = None
  /\ todo = {}
  /\ rpc' = "add"
  /\ todo' = live
  /\ UNCHANGED <<nsMap, live, del, reconciles, ctxVars, pc, thrVars, sockVars, nl>>

(* Mutant: nsAdd starts the goroutine without reserving the entry.         *)
AddVisitWithoutReserve(ino) ==
  /\ rpc = "add"
  /\ ino \in todo
  /\ todo' = todo \ {ino}
  /\ \/ /\ nsMap[ino] # None
        /\ UNCHANGED <<pc, thread>>
     \/ /\ nsMap[ino] = None
        /\ \E i \in Instances :
             /\ i[1] = ino
             /\ pc[i] = "unused"
             /\ pc' = [pc EXCEPT ![i] = "enter"]
             /\ thread' = [thread EXCEPT ![i] = "locked"]
  /\ UNCHANGED <<nsMap, rpc, live, del, reconciles, ctxVars, netns, sockVars, nl>>

(* Mutant: the reserved entry's socketFD keeps its zero value.             *)
AddVisitWithZeroFd(ino) ==
  /\ rpc = "add"
  /\ ino \in todo
  /\ todo' = todo \ {ino}
  /\ \/ /\ nsMap[ino] # None
        /\ UNCHANGED <<nsMap, pc, thread>>
     \/ /\ nsMap[ino] = None
        /\ \E i \in Instances :
             /\ i[1] = ino
             /\ pc[i] = "unused"
             /\ \A g \in 1 .. i[2] - 1 : pc[<<ino, g>>] # "unused"
             /\ nsMap' = [nsMap EXCEPT ![ino] = [inst |-> i, fd |-> 0]]
             /\ pc' = [pc EXCEPT ![i] = "enter"]
             /\ thread' = [thread EXCEPT ![i] = "locked"]
  /\ UNCHANGED <<rpc, live, del, reconciles, ctxVars,
                 netns, sockVars, nl>>

(* reconcile and nsAdd: a tracked inode is left alone; for another one     *)
(* LoadOrStore reserves the entry and the goroutine is started.            *)
AddVisit(ino) ==
  /\ rpc = "add"
  /\ ino \in todo
  /\ todo' = todo \ {ino}
  /\ \/ /\ nsMap[ino] # None
        /\ UNCHANGED <<nsMap, pc, thread>>
     \/ /\ nsMap[ino] = None
        /\ \E i \in Instances :
             /\ i[1] = ino
             /\ pc[i] = "unused"
             /\ \A g \in 1 .. i[2] - 1 : pc[<<ino, g>>] # "unused"
             /\ nsMap' = [nsMap EXCEPT ![ino] = [inst |-> i, fd |-> NotOpen]]
             /\ pc' = [pc EXCEPT ![i] = "enter"]
             /\ thread' = [thread EXCEPT ![i] = "locked"]
  /\ UNCHANGED <<rpc, live, del, reconciles, ctxVars,
                 netns, sockVars, nl>>

ReconcileEnds ==
  /\ rpc = "add"
  /\ todo = {}
  /\ rpc' = "idle"
  /\ live' = {}
  /\ UNCHANGED <<nsMap, todo, del, reconciles, ctxVars, pc, thrVars, sockVars, nl>>

------------------------------------------------------------------------------
(* netNamespaceInstance.                                                   *)

(* openAndSetNSWithRetries: a failed setns leaves the thread where it was, *)
(* and the instance goes on.                                               *)
EnterNamespace(i) ==
  /\ pc[i] = "enter"
  /\ pc' = [pc EXCEPT ![i] = "entered"]
  /\ \/ netns' = [netns EXCEPT ![i] = i[1]]
     \/ netns' = netns
  /\ UNCHANGED <<nsMap, recVars, ctxVars, thread, sockVars, nl>>

(* A canceled instance, or one whose Socket or Bind failed, gives up.      *)
OpenSocket(i) ==
  /\ pc[i] = "entered"
  /\ \/ /\ pc' = [pc EXCEPT ![i] = "leave"]
        /\ UNCHANGED sockVars
     \/ /\ ~Canceled(i)
        /\ \E fd \in SocketFds :
             /\ owner[fd] = None
             /\ owner' = [owner EXCEPT ![fd] = i]
             /\ sock' = [sock EXCEPT ![i] = fd]
             /\ sockNs' = [sockNs EXCEPT ![fd] = netns[i]]
        /\ pc' = [pc EXCEPT ![i] = "opened"]
  /\ UNCHANGED <<nsMap, recVars, ctxVars, thrVars, nl>>

(* createNetlinkersAndStore: nothing is started or stored for a canceled   *)
(* namespace; otherwise the netlinker starts.                              *)
StartNetlinker(i) ==
  /\ pc[i] = "opened"
  /\ IF Canceled(i)
     THEN pc' = [pc EXCEPT ![i] = "wait"] /\ UNCHANGED nl
     ELSE pc' = [pc EXCEPT ![i] = "store"] /\ nl' = [nl EXCEPT ![i] = "check"]
  /\ UNCHANGED <<nsMap, recVars, ctxVars, thrVars, sockVars>>

(* createNetlinkersAndStore: nsMap.Store(inode, nsi).                      *)
StoreItem(i) ==
  /\ pc[i] = "store"
  /\ nsMap' = [nsMap EXCEPT ![i[1]] = [inst |-> i, fd |-> sock[i]]]
  /\ pc' = [pc EXCEPT ![i] = "recheck"]
  /\ UNCHANGED <<recVars, ctxVars, thrVars, sockVars, nl>>

(* Mutant: the store is not checked against a delete that raced it.        *)
RecheckSkipped(i) ==
  /\ pc[i] = "recheck"
  /\ pc' = [pc EXCEPT ![i] = "wait"]
  /\ UNCHANGED <<nsMap, recVars, ctxVars, thrVars, sockVars, nl>>

(* createNetlinkersAndStore: did a delete race the store?                  *)
Recheck(i) ==
  /\ pc[i] = "recheck"
  /\ pc' = [pc EXCEPT ![i] = IF Canceled(i) THEN "undo" ELSE "wait"]
  /\ UNCHANGED <<nsMap, recVars, ctxVars, thrVars, sockVars, nl>>

(* ... then undo it: nsMap.Delete(inode), whatever the entry is by now.    *)
UndoStore(i) ==
  /\ pc[i] = "undo"
  /\ nsMap' = [nsMap EXCEPT ![i[1]] = None]
  /\ pc' = [pc EXCEPT ![i] = "wait"]
  /\ UNCHANGED <<recVars, ctxVars, thrVars, sockVars, nl>>

(* Mutant: the instance does not wait before its deferred closeSocket.     *)
CloseSocketAtOnce(i) ==
  /\ pc[i] = "wait"
  /\ owner' = [owner EXCEPT ![sock[i]] = None]
  /\ sockNs' = [sockNs EXCEPT ![sock[i]] = Self]
  /\ pc' = [pc EXCEPT ![i] = "leave"]
  /\ UNCHANGED <<nsMap, recVars, ctxVars, thrVars, sock, nl>>

(* Mutant: the instance waits for the daemon's context, not its own.       *)
CloseSocketOnShutdown(i) ==
  /\ pc[i] = "wait"
  /\ rootDone
  /\ owner' = [owner EXCEPT ![sock[i]] = None]
  /\ sockNs' = [sockNs EXCEPT ![sock[i]] = Self]
  /\ pc' = [pc EXCEPT ![i] = "leave"]
  /\ UNCHANGED <<nsMap, recVars, ctxVars, thrVars, sock, nl>>

(* <-nsCtx.Done(), then the deferred closeSocket (the namespace of a       *)
(* closed fd means nothing and is reset).                                  *)
CloseSocket(i) ==
  /\ pc[i] = "wait"
  /\ Canceled(i)
  /\ owner' = [owner EXCEPT ![sock[i]] = None]
  /\ sockNs' = [sockNs EXCEPT ![sock[i]] = Self]
  /\ pc' = [pc EXCEPT ![i] = "leave"]
  /\ UNCHANGED <<nsMap, recVars, ctxVars, thrVars, sock, nl>>

(* The deferred restore: the thread goes back to the pool only when it is  *)
(* in its original namespace again; if that namespace could not be saved   *)
(* at the start or not be entered now, the runtime ends the thread.        *)
LeaveThread(i) ==
  /\ pc[i] = "leave"
  /\ pc' = [pc EXCEPT ![i] = "exited"]
  /\ \/ /\ netns' = [netns EXCEPT ![i] = Self]
        /\ thread' = [thread EXCEPT ![i] = "pooled"]
     \/ /\ thread' = [thread EXCEPT ![i] = "dead"]
        /\ UNCHANGED netns
  /\ UNCHANGED <<nsMap, recVars, ctxVars, sockVars, nl>>

------------------------------------------------------------------------------
(* The netlinker of instance i, reduced to its use of the socket number.   *)
(* The default socket is closed by nobody; its netlinker is left out.      *)

(* checkDoneNonBlocking at the top of the receive loop.                    *)
NetlinkerCheck(i) ==
  /\ nl[i] = "check"
  /\ nl' = [nl EXCEPT ![i] = IF Canceled(i) THEN "off" ELSE "recv"]
  /\ UNCHANGED <<nsMap, recVars, ctxVars, pc, thrVars, sockVars>>

(* Recvfrom(fd), on whatever socket has the number by now.                 *)
NetlinkerRead(i) ==
  /\ nl[i] = "recv"
  /\ nl' = [nl EXCEPT ![i] = "check"]
  /\ UNCHANGED <<nsMap, recVars, ctxVars, pc, thrVars, sockVars>>

(* The daemon shuts down.                                                  *)
Shutdown ==
  /\ ~rootDone
  /\ rootDone' = TRUE
  /\ UNCHANGED <<nsMap, recVars, canceled, pc, thrVars, sockVars, nl>>

Reconcile ==
  \/ ReconcileScan
  \/ \E ino \in Inodes : RangeVisit(ino) \/ AddVisit(ino)
  \/ DeleteCancel \/ DeleteUnmap
  \/ RangeEnds \/ ReconcileEnds

NamespaceInstance(i) ==
  \/ EnterNamespace(i) \/ OpenSocket(i) \/ StartNetlinker(i)
  \/ StoreItem(i) \/ Recheck(i) \/ UndoStore(i)
  \/ CloseSocket(i) \/ LeaveThread(i)

NetlinkerLoop(i) == NetlinkerCheck(i) \/ NetlinkerRead(i)

Next ==
  \/ Reconcile
  \/ \E i \in Instances : NamespaceInstance(i) \/ NetlinkerLoop(i)
  \/ Shutdown

Spec == Init /\ [][Next]_vars

(* Goroutines that can run do run; setns retries and the receive timeout   *)
(* are bounded, so each step of theirs ends.                               *)
FairSpec ==
  /\ Spec
  /\ \A i \in Instances : WF_vars(NamespaceInstance(i)) /\ WF_vars(NetlinkerLoop(i))

------------------------------------------------------------------------------
Deleting(ino) == del # None /\ del.inode = ino
Storing(i)    == pc[i] \in {"recheck", "undo"}
Running(i)    == pc[i] \notin {"unused", "exited"}
Quiet         == rpc = "idle" /\ \A i \in Instances : pc[i] \in {"unused", "default", "wait", "exited"}

(* Every variable has its type.                                            *)
TypeOK ==
  /\ nsMap \in [Inodes -> Items \cup {None}]
  /\ rpc \in {"idle", "delete", "add"}
  /\ live \subseteq Inodes /\ todo \subseteq Inodes
  /\ del \in {None} \cup [inode : Inodes, item : Items,
                          step : {"cancel", "unmap"}]
  /\ reconciles \in 0 .. MaxReconciles
  /\ canceled \subseteq Instances
  /\ rootDone \in BOOLEAN
  /\ pc \in [Instances ->
              {"default", "unused", "enter", "entered", "opened", "store", "recheck",
               "undo", "wait", "leave", "exited"}]
  /\ netns \in [Instances -> Inodes]
  /\ thread \in [Instances -> {"none", "locked", "pooled", "dead"}]
  /\ sock \in [Instances -> SocketFds \cup {NotOpen}]
  /\ owner \in [SocketFds -> Instances \cup {None}]
  /\ sockNs \in [SocketFds -> Inodes]
  /\ nl \in [Instances -> {"off", "check", "recv"}]

(* A deleted namespace does not stay polled: an entry of a canceled        *)
(* instance is there only while nsDelete is removing it or the instance    *)
(* that stored it is about to undo the store (createNetlinkersAndStore).   *)
CanceledEntryIsTransient ==
  \A ino \in Inodes :
    nsMap[ino] # None /\ nsMap[ino].inst \in canceled =>
      Deleting(ino) \/ Storing(nsMap[ino].inst)

(* The map leads the poller to no closed or reused number: an entry with a *)
(* socket, of an instance that is not canceled, names a socket which that  *)
(* instance holds open (netNamespaceInstance closes it after its context). *)
(* A canceled entry that is not removed yet, and a poller that has already *)
(* read the number, are not covered.                                       *)
PublishedSocketIsOpen ==
  \A ino \in Inodes :
    nsMap[ino] # None /\ nsMap[ino].fd # NotOpen /\ ~Canceled(nsMap[ino].inst) =>
      owner[nsMap[ino].fd] = nsMap[ino].inst

(* Nothing leaks: an instance whose context is canceled, by nsDelete or by *)
(* the shutdown, ends, gives its thread up and closes its socket, and its  *)
(* netlinker ends with it.                                                 *)
Gone(i) == pc[i] = "exited" /\ nl[i] = "off" /\ \A fd \in SocketFds : owner[fd] # i
CanceledInstanceEnds ==
  \A i \in Instances \ {Default} : (pc[i] # "unused" /\ Canceled(i)) ~> Gone(i)

(* A running namespace can be torn down: the entry of its inode is its     *)
(* own, so nsDelete reaches its cancel(), even when it was deleted and     *)
(* found again while an earlier instance was still in setns.               *)
NoOrphan ==
  \A i \in Instances :
    /\ Running(i)
    /\ ~Canceled(i)
    /\ \A g \in 1 .. i[2] - 1 : sock[<<i[1], g>>] = NotOpen
    => nsMap[i[1]] # None /\ nsMap[i[1]].inst = i

------------------------------------------------------------------------------
(* What the comments and documents say of the code.                        *)

(* ns_add.go: nsDelete can always reach cancel() of a running instance;    *)
(* checked when nothing is being stored or undone.                         *)
CancelIsReachable ==
  Quiet => \A i \in Instances :
    pc[i] = "wait" /\ ~Canceled(i) => nsMap[i[1]] # None /\ nsMap[i[1]].inst = i

(* deserialize.go: NetnsInode, the inode the netlinker was started with,   *)
(* is the namespace the socket lives in that is being read.                *)
LabelIsNamespace ==
  \A i \in Instances :
    nl[i] = "recv" /\ owner[sock[i]] # None => sockNs[sock[i]] = i[1]
==============================================================================
