-------------------------- MODULE NsLifecycleProofs --------------------------
(***************************************************************************)
(* Proofs about the tracked namespaces, for any inodes, generations,       *)
(* socket numbers and reconcile passes.  The inductive invariant says what *)
(* an instance owns at each point of its life (Opening), whose entries     *)
(* nsMap and the nsDelete in progress hold (Entries, Deletion), and that a *)
(* running instance no delete has reached is the last one of its inode     *)
(* (Generation, Reachable).                                                *)
(***************************************************************************)
EXTENDS NsLifecycle, TLAPS

(* The states in which an instance has its socket open.                    *)
HasSocket == {"default", "opened", "store", "recheck", "undo", "wait"}

(* An instance holds its own socket from OpenSocket to CloseSocket, and    *)
(* none before; it undoes a store only when its context is canceled.       *)
Opening ==
  \A i \in Instances :
    /\ pc[i] \in HasSocket => sock[i] \in SocketFds /\ owner[sock[i]] = i
    /\ pc[i] \in {"unused", "enter", "entered"} => sock[i] = NotOpen
    /\ pc[i] = "unused" => i \notin canceled
    /\ pc[i] = "undo" => Canceled(i)

(* An entry is of an instance of its inode that was started; one with a    *)
(* socket, of an instance not canceled, is as that instance stored it.     *)
Entries ==
  \A ino \in Inodes : nsMap[ino] # None =>
    /\ nsMap[ino].inst[1] = ino
    /\ pc[nsMap[ino].inst] # "unused"
    /\ nsMap[ino].fd # NotOpen /\ ~Canceled(nsMap[ino].inst) =>
         /\ pc[nsMap[ino].inst] \in {"default", "recheck", "wait"}
         /\ sock[nsMap[ino].inst] = nsMap[ino].fd

(* nsDelete holds an entry of the inode it removes, and has canceled its   *)
(* instance before it removes it; nothing is added meanwhile.              *)
Deletion ==
  del # None =>
    /\ rpc = "delete"
    /\ del.item.inst[1] = del.inode
    /\ pc[del.item.inst] # "unused"
    /\ del.step = "unmap" => del.item.inst \in canceled

(* A running instance that is not canceled, of an inode for which no       *)
(* earlier instance has opened a socket.                                   *)
Sole(i) ==
  /\ Running(i)
  /\ ~Canceled(i)
  /\ \A g \in 1 .. i[2] - 1 : sock[<<i[1], g>>] = NotOpen

(* The instances of an inode start in the order of their generations, and  *)
(* none starts after one that is Sole.                                     *)
Generation ==
  \A i, j \in Instances :
    i[1] = j[1] /\ i[2] < j[2] =>
      /\ pc[j] # "unused" => pc[i] # "unused"
      /\ Sole(i) => pc[j] = "unused"

(* What nsDelete has loaded for the inode of such an instance is its item. *)
Reachable ==
  \A i \in Instances :
    Sole(i) => /\ nsMap[i[1]] # None /\ nsMap[i[1]].inst = i
               /\ del # None /\ del.inode = i[1] => del.item.inst = i

IInv ==
  /\ TypeOK /\ Opening /\ Entries /\ Deletion /\ Generation /\ Reachable
  /\ CanceledEntryIsTransient

------------------------------------------------------------------------------
(* The constants: an instance is a pair of its inode and its generation,   *)
(* -1 is no socket number, and an item is not None.                        *)
LEMMA InstanceFacts ==
  /\ \A i \in Instances : i[1] \in Inodes /\ i[2] \in 1 .. Generations /\ i = <<i[1], i[2]>>
  /\ \A ino \in Inodes, g \in 1 .. Generations : <<ino, g>> \in Instances
  /\ Default \in Instances /\ Default[1] = Self /\ Default[2] = 1
BY InodesAssumption, InstancesAssumption DEF Instances, Default

LEMMA SocketFacts ==
  /\ NotOpen \notin SocketFds
  /\ DefaultFd \in SocketFds
BY InstancesAssumption DEF NotOpen, DefaultFd

LEMMA ItemFacts ==
  /\ \A x \in Items : x # None /\ x.inst \in Instances /\ x.fd \in SocketFds \cup {NotOpen}
  /\ \A i \in Instances, fd \in SocketFds \cup {NotOpen} :
       /\ [inst |-> i, fd |-> fd] \in Items
       /\ [inst |-> i, fd |-> fd] # None
       /\ [inst |-> i, fd |-> fd].inst = i
       /\ [inst |-> i, fd |-> fd].fd = fd
BY DEF Items, None

(* A delete in progress is not None.                                       *)
LEMMA DeletingIsNotNone ==
  \A d \in [inode : Inodes, item : Items, step : {"cancel", "unmap"}] : d # None
BY DEF None

(* An instance is not None, so a socket that is owned is not free.         *)
LEMMA NoneIsNoInstance == \A i \in Instances : i # None
BY DEF Instances, None

(* The variables start with their types.                                   *)
LEMMA TypeInit == Init => TypeOK
<1> SUFFICES ASSUME Init PROVE TypeOK
  OBVIOUS
<1>1. nsMap \in [Inodes -> Items \cup {None}]
  BY InstanceFacts, SocketFacts, ItemFacts DEF Init
<1>2. sock \in [Instances -> SocketFds \cup {NotOpen}] /\ owner \in [SocketFds -> Instances \cup {None}]
  BY InstanceFacts, SocketFacts DEF Init
<1>3. /\ pc \in [Instances ->
                {"default", "unused", "enter", "entered", "opened", "store", "recheck",
                 "undo", "wait", "leave", "exited"}]
      /\ reconciles \in 0 .. MaxReconciles
  BY InstancesAssumption DEF Init
<1> QED
  BY <1>1, <1>2, <1>3, InodesAssumption, Zenon DEF Init, TypeOK

(* No step changes a type.                                                 *)
LEMMA TypeStep == TypeOK /\ [Next]_vars => TypeOK'
<1> SUFFICES ASSUME TypeOK, [Next]_vars PROVE TypeOK'
  OBVIOUS
<1> DEFINE PCs == {"default", "unused", "enter", "entered", "opened", "store", "recheck",
                   "undo", "wait", "leave", "exited"}
           Threads == {"none", "locked", "pooled", "dead"}
           Fds == SocketFds \cup {NotOpen}
<1>0. /\ nsMap \in [Inodes -> Items \cup {None}]
      /\ del \in {None} \cup [inode : Inodes, item : Items, step : {"cancel", "unmap"}]
      /\ pc \in [Instances -> PCs]
      /\ netns \in [Instances -> Inodes]
      /\ thread \in [Instances -> Threads]
      /\ sock \in [Instances -> Fds]
      /\ owner \in [SocketFds -> Instances \cup {None}]
      /\ sockNs \in [SocketFds -> Inodes]
      /\ nl \in [Instances -> {"off", "check", "recv"}]
  BY DEF TypeOK
<1>1. CASE ReconcileScan
  <2>1. reconciles' \in 0 .. MaxReconciles
    BY <1>1, InstancesAssumption DEF ReconcileScan, TypeOK
  <2> QED
    BY <1>1, <2>1, Zenon DEF TypeOK, ReconcileScan, ctxVars, thrVars, sockVars
<1>2. ASSUME NEW ino \in Inodes, RangeVisit(ino) PROVE TypeOK'
  <2>1. /\ del' \in {None} \cup [inode : Inodes, item : Items, step : {"cancel", "unmap"}]
        /\ todo' \subseteq Inodes
    BY <1>0, <1>2 DEF RangeVisit, TypeOK
  <2> QED
    BY <1>2, <2>1, Zenon DEF TypeOK, RangeVisit, ctxVars, thrVars, sockVars
<1>3. ASSUME NEW ino \in Inodes, AddVisit(ino) PROVE TypeOK'
  <2>1. /\ nsMap' \in [Inodes -> Items \cup {None}]
        /\ pc' \in [Instances -> PCs]
        /\ thread' \in [Instances -> Threads]
    BY <1>0, <1>3, ItemFacts DEF AddVisit
  <2>2. todo' \subseteq Inodes
    BY <1>3 DEF AddVisit, TypeOK
  <2> QED
    BY <1>3, <2>1, <2>2, Zenon DEF TypeOK, AddVisit, ctxVars, sockVars
<1>4. CASE DeleteCancel
  <2>1. del \in [inode : Inodes, item : Items, step : {"cancel", "unmap"}]
    BY <1>0, <1>4 DEF DeleteCancel
  <2>2. /\ canceled' \subseteq Instances
        /\ del' \in [inode : Inodes, item : Items, step : {"cancel", "unmap"}]
    BY <1>4, <2>1, ItemFacts DEF DeleteCancel, TypeOK
  <2> QED
    BY <1>4, <2>2, Zenon DEF TypeOK, DeleteCancel, thrVars, sockVars
<1>5. CASE DeleteUnmap
  <2>1. nsMap' \in [Inodes -> Items \cup {None}]
    BY <1>0, <1>5 DEF DeleteUnmap
  <2> QED
    BY <1>5, <2>1, Zenon DEF TypeOK, DeleteUnmap, ctxVars, thrVars, sockVars
<1>6. CASE RangeEnds \/ ReconcileEnds
  BY <1>6, Zenon DEF TypeOK, RangeEnds, ReconcileEnds, ctxVars, thrVars, sockVars
<1>7. ASSUME NEW i \in Instances, EnterNamespace(i) PROVE TypeOK'
  <2>1. pc' \in [Instances -> PCs] /\ netns' \in [Instances -> Inodes]
    BY <1>0, <1>7, InstanceFacts, Zenon DEF EnterNamespace
  <2> QED
    BY <1>7, <2>1, Zenon DEF TypeOK, EnterNamespace, recVars, ctxVars, sockVars
<1>8. ASSUME NEW i \in Instances, OpenSocket(i) PROVE TypeOK'
  <2>1. /\ pc' \in [Instances -> PCs]
        /\ sock' \in [Instances -> Fds]
        /\ owner' \in [SocketFds -> Instances \cup {None}]
        /\ sockNs' \in [SocketFds -> Inodes]
    BY <1>0, <1>8 DEF OpenSocket, sockVars
  <2> QED
    BY <1>8, <2>1, Zenon DEF TypeOK, OpenSocket, recVars, ctxVars, thrVars
<1>9. ASSUME NEW i \in Instances, StartNetlinker(i) PROVE TypeOK'
  <2>1. pc' \in [Instances -> PCs] /\ nl' \in [Instances -> {"off", "check", "recv"}]
    BY <1>0, <1>9 DEF StartNetlinker
  <2> QED
    BY <1>9, <2>1, Zenon DEF TypeOK, StartNetlinker, recVars, ctxVars, thrVars, sockVars
<1>10. ASSUME NEW i \in Instances, StoreItem(i) \/ UndoStore(i) \/ Recheck(i) PROVE TypeOK'
  <2>1. nsMap' \in [Inodes -> Items \cup {None}] /\ pc' \in [Instances -> PCs]
    BY <1>0, <1>10, ItemFacts DEF StoreItem, UndoStore, Recheck
  <2> QED
    BY <1>10, <2>1, Zenon DEF TypeOK, StoreItem, UndoStore, Recheck, recVars, ctxVars, thrVars,
       sockVars
<1>11. ASSUME NEW i \in Instances, CloseSocket(i) PROVE TypeOK'
  <2>1. /\ pc' \in [Instances -> PCs]
        /\ owner' \in [SocketFds -> Instances \cup {None}]
        /\ sockNs' \in [SocketFds -> Inodes]
    BY <1>0, <1>11, InodesAssumption, Zenon DEF CloseSocket
  <2> QED
    BY <1>11, <2>1, Zenon DEF TypeOK, CloseSocket, recVars, ctxVars, thrVars
<1>12. ASSUME NEW i \in Instances, LeaveThread(i) PROVE TypeOK'
  <2>1. /\ pc' \in [Instances -> PCs]
        /\ netns' \in [Instances -> Inodes]
        /\ thread' \in [Instances -> Threads]
    BY <1>0, <1>12, InodesAssumption DEF LeaveThread
  <2> QED
    BY <1>12, <2>1, Zenon DEF TypeOK, LeaveThread, recVars, ctxVars, sockVars
<1>13. ASSUME NEW i \in Instances, NetlinkerLoop(i) PROVE TypeOK'
  <2>1. nl' \in [Instances -> {"off", "check", "recv"}]
    BY <1>0, <1>13 DEF NetlinkerLoop, NetlinkerCheck, NetlinkerRead
  <2> QED
    BY <1>13, <2>1, Zenon DEF TypeOK, NetlinkerLoop, NetlinkerCheck, NetlinkerRead, recVars,
       ctxVars, thrVars, sockVars
<1>14. CASE Shutdown \/ UNCHANGED vars
  BY <1>14, Zenon DEF TypeOK, Shutdown, vars, recVars, ctxVars, thrVars, sockVars
<1> QED
  BY <1>1, <1>2, <1>3, <1>4, <1>5, <1>6, <1>7, <1>8, <1>9, <1>10, <1>11, <1>12, <1>13,
     <1>14, Zenon DEF Next, Reconcile, NamespaceInstance

------------------------------------------------------------------------------
(* The instances and their sockets.                                        *)

(* The types that the steps below use.                                     *)
LEMMA InstanceTypes ==
  ASSUME TypeOK
  PROVE  /\ pc \in [Instances -> {"default", "unused", "enter", "entered", "opened", "store",
                                  "recheck", "undo", "wait", "leave", "exited"}]
         /\ sock \in [Instances -> SocketFds \cup {NotOpen}]
         /\ owner \in [SocketFds -> Instances \cup {None}]
         /\ nsMap \in [Inodes -> Items \cup {None}]
         /\ canceled \subseteq Instances
         /\ del # None => /\ del.inode \in Inodes /\ del.item \in Items
                          /\ del.item.inst \in Instances
BY ItemFacts DEF TypeOK

(* What a step of reconcile changes of the instances: it cancels the one   *)
(* whose item nsDelete holds, or starts one (nsDelete, nsAdd).             *)
LEMMA ReconcileFacts ==
  ASSUME Reconcile
  PROVE  /\ UNCHANGED <<rootDone, sockVars>>
         /\ \/ UNCHANGED <<canceled, pc>>
            \/ DeleteCancel
            \/ \E ino \in Inodes : AddVisit(ino) /\ nsMap[ino] = None
BY Zenon DEF Reconcile, ReconcileScan, RangeVisit, AddVisit, DeleteCancel, DeleteUnmap, RangeEnds,
   ReconcileEnds, ctxVars

(* Initially only the default socket is open.                              *)
LEMMA OpeningInit == Init => Opening
BY InstanceFacts, SocketFacts DEF Init, Opening, HasSocket, Canceled

(* An instance's socket is its own from Socket to closeSocket, whatever    *)
(* the other instances open and close (openNetLinkSocketWithFailureTimer,  *)
(* closeSocket).                                                           *)
LEMMA OpeningStep == TypeOK /\ Opening /\ Deletion /\ [Next]_vars => Opening'
<1> SUFFICES ASSUME TypeOK, Opening, Deletion, [Next]_vars, NEW j \in Instances
             PROVE  /\ pc'[j] \in HasSocket => sock'[j] \in SocketFds /\ owner'[sock'[j]] = j
                    /\ pc'[j] \in {"unused", "enter", "entered"} => sock'[j] = NotOpen
                    /\ pc'[j] = "unused" => j \notin canceled'
                    /\ pc'[j] = "undo" => Canceled(j)'
  BY DEF Opening
<1> DEFINE Goal ==
             /\ pc'[j] \in HasSocket => sock'[j] \in SocketFds /\ owner'[sock'[j]] = j
             /\ pc'[j] \in {"unused", "enter", "entered"} => sock'[j] = NotOpen
             /\ pc'[j] = "unused" => j \notin canceled'
             /\ pc'[j] = "undo" => Canceled(j)'
<1>0. /\ pc \in [Instances -> {"default", "unused", "enter", "entered", "opened", "store",
                               "recheck", "undo", "wait", "leave", "exited"}]
      /\ sock \in [Instances -> SocketFds \cup {NotOpen}]
      /\ owner \in [SocketFds -> Instances \cup {None}]
      /\ pc[j] \in HasSocket => sock[j] \in SocketFds /\ owner[sock[j]] = j
      /\ pc[j] \in {"unused", "enter", "entered"} => sock[j] = NotOpen
      /\ pc[j] = "unused" => j \notin canceled
      /\ pc[j] = "undo" => Canceled(j)
  BY InstanceTypes DEF Opening
<1>1. CASE Reconcile
  <2>1. CASE UNCHANGED <<canceled, pc>>
    BY <1>0, <1>1, <2>1, ReconcileFacts DEF Canceled, sockVars
  <2>2. CASE DeleteCancel
    BY <1>0, <2>2 DEF DeleteCancel, Deletion, Canceled, sockVars
  <2>3. ASSUME NEW ino \in Inodes, AddVisit(ino), nsMap[ino] = None PROVE Goal
    BY <1>0, <2>3 DEF AddVisit, Canceled, sockVars, ctxVars, HasSocket
  <2> QED
    BY <1>1, <2>1, <2>2, <2>3, ReconcileFacts
<1>2. ASSUME NEW i \in Instances, OpenSocket(i) PROVE Goal
  BY <1>0, <1>2, NoneIsNoInstance DEF OpenSocket, Canceled, sockVars, ctxVars, HasSocket
<1>3. ASSUME NEW i \in Instances, CloseSocket(i) PROVE Goal
  <2>1. sock[i] \in SocketFds /\ owner[sock[i]] = i
    BY <1>3 DEF CloseSocket, Opening, HasSocket
  <2> QED
    BY <1>0, <1>3, <2>1 DEF CloseSocket, Canceled, ctxVars, HasSocket
<1>4. ASSUME NEW i \in Instances,
             \/ EnterNamespace(i) \/ StartNetlinker(i) \/ StoreItem(i)
             \/ Recheck(i) \/ UndoStore(i) \/ LeaveThread(i)
      PROVE  Goal
  <2>1. /\ UNCHANGED <<sock, owner, canceled, rootDone>>
        /\ \/ pc[i] = "enter" /\ pc' = [pc EXCEPT ![i] = "entered"]
           \/ pc[i] \in HasSocket /\ \E p \in {"wait", "store", "recheck"} :
                                        pc' = [pc EXCEPT ![i] = p]
           \/ Canceled(i) /\ pc[i] \in HasSocket /\ pc' = [pc EXCEPT ![i] = "undo"]
           \/ pc' = [pc EXCEPT ![i] = "exited"]
    BY <1>4 DEF EnterNamespace, StartNetlinker, StoreItem, Recheck, UndoStore, LeaveThread,
       ctxVars, sockVars, HasSocket
  <2> QED
    BY <1>0, <2>1 DEF Canceled, HasSocket
<1>5. CASE UNCHANGED <<pc, ctxVars, sockVars>>
  BY <1>0, <1>5 DEF Canceled, ctxVars, sockVars
<1>6. CASE Shutdown
  BY <1>0, <1>6 DEF Shutdown, Canceled, sockVars
<1>7. ASSUME NEW i \in Instances, NetlinkerLoop(i) PROVE Goal
  BY <1>5, <1>7, Zenon DEF NetlinkerLoop, NetlinkerCheck, NetlinkerRead
<1>8. CASE UNCHANGED vars
  BY <1>5, <1>8, Zenon DEF vars
<1> QED
  BY <1>1, <1>2, <1>3, <1>4, <1>6, <1>7, <1>8, Zenon DEF Next, NamespaceInstance

(* What is never taken back: a canceled context, a socket number, a start; *)
(* an instance that published its socket keeps waiting for its context.    *)
LEMMA Lasting ==
  ASSUME TypeOK, Opening, [Next]_vars, NEW j \in Instances
  PROVE  /\ Canceled(j) => Canceled(j)'
         /\ j \in canceled => j \in canceled'
         /\ sock[j] # NotOpen => sock'[j] = sock[j]
         /\ pc[j] # "unused" => pc'[j] # "unused"
         /\ pc[j] = "exited" => pc'[j] = "exited"
         /\ pc[j] \in {"default", "recheck", "wait"} /\ ~Canceled(j)
              => pc'[j] \in {"default", "recheck", "wait"}
<1> DEFINE Goal ==
             /\ Canceled(j) => Canceled(j)'
             /\ j \in canceled => j \in canceled'
             /\ sock[j] # NotOpen => sock'[j] = sock[j]
             /\ pc[j] # "unused" => pc'[j] # "unused"
             /\ pc[j] = "exited" => pc'[j] = "exited"
             /\ pc[j] \in {"default", "recheck", "wait"} /\ ~Canceled(j)
                  => pc'[j] \in {"default", "recheck", "wait"}
<1>0. /\ pc \in [Instances -> {"default", "unused", "enter", "entered", "opened", "store",
                               "recheck", "undo", "wait", "leave", "exited"}]
      /\ sock \in [Instances -> SocketFds \cup {NotOpen}]
  BY InstanceTypes
<1>1. CASE Reconcile
  <2>1. CASE UNCHANGED <<canceled, pc>>
    BY <1>1, <2>1, ReconcileFacts DEF Canceled, sockVars
  <2>2. CASE DeleteCancel
    BY <2>2 DEF DeleteCancel, Canceled, sockVars
  <2>3. ASSUME NEW ino \in Inodes, AddVisit(ino), nsMap[ino] = None PROVE Goal
    BY <1>0, <2>3 DEF AddVisit, Canceled, sockVars, ctxVars
  <2> QED
    BY <1>1, <2>1, <2>2, <2>3, ReconcileFacts
<1>2. ASSUME NEW i \in Instances, OpenSocket(i) PROVE Goal
  <2>1. sock[i] = NotOpen
    BY <1>2 DEF OpenSocket, Opening
  <2> QED
    BY <1>0, <1>2, <2>1 DEF OpenSocket, Canceled, sockVars, ctxVars
<1>3. ASSUME NEW i \in Instances,
             \/ EnterNamespace(i) \/ StartNetlinker(i) \/ StoreItem(i) \/ Recheck(i)
             \/ UndoStore(i) \/ CloseSocket(i) \/ LeaveThread(i)
      PROVE  Goal
  <2>1. /\ UNCHANGED <<sock, canceled, rootDone>>
        /\ \/ \E p \in {"entered", "wait", "store", "recheck", "undo", "leave"} :
                pc' = [pc EXCEPT ![i] = p]
           \/ pc' = [pc EXCEPT ![i] = "exited"]
        /\ pc[i] # "exited"
        /\ pc[i] \in {"default", "recheck", "wait"} /\ ~Canceled(i)
             => pc[i] = "recheck" /\ pc' = [pc EXCEPT ![i] = "wait"]
    BY <1>3 DEF EnterNamespace, StartNetlinker, StoreItem, Recheck, UndoStore, CloseSocket,
       LeaveThread, ctxVars, sockVars
  <2> QED
    BY <1>0, <2>1 DEF Canceled
<1>4. CASE UNCHANGED <<pc, ctxVars, sockVars>>
  BY <1>4 DEF Canceled, ctxVars, sockVars
<1>5. CASE Shutdown
  BY <1>5 DEF Shutdown, Canceled, sockVars
<1>6. ASSUME NEW i \in Instances, NetlinkerLoop(i) PROVE Goal
  BY <1>4, <1>6, Zenon DEF NetlinkerLoop, NetlinkerCheck, NetlinkerRead
<1>7. CASE UNCHANGED vars
  BY <1>4, <1>7, Zenon DEF vars
<1> QED
  BY <1>1, <1>2, <1>3, <1>5, <1>6, <1>7, Zenon DEF Next, NamespaceInstance

------------------------------------------------------------------------------
(* The entries of nsMap.                                                   *)

(* The steps that change nsMap: nsDelete and the undo empty an entry,      *)
(* nsAdd fills an empty one, and an instance stores its own.               *)
LEMMA MapFacts ==
  ASSUME [Next]_vars
  PROVE  \/ UNCHANGED nsMap
         \/ DeleteUnmap
         \/ \E ino \in Inodes : AddVisit(ino) /\ nsMap[ino] = None
         \/ \E i \in Instances : StoreItem(i) \/ UndoStore(i)
<1>1. CASE Reconcile
  BY <1>1, Zenon DEF Reconcile, ReconcileScan, RangeVisit, AddVisit, DeleteCancel, RangeEnds,
     ReconcileEnds
<1>2. ASSUME NEW i \in Instances, NamespaceInstance(i)
      PROVE  UNCHANGED nsMap \/ StoreItem(i) \/ UndoStore(i)
  BY <1>2, Zenon DEF NamespaceInstance, EnterNamespace, OpenSocket, StartNetlinker, Recheck,
     CloseSocket, LeaveThread
<1>3. ASSUME NEW i \in Instances, NetlinkerLoop(i) PROVE UNCHANGED nsMap
  BY <1>3, Zenon DEF NetlinkerLoop, NetlinkerCheck, NetlinkerRead
<1>4. CASE Shutdown \/ UNCHANGED vars
  BY <1>4, Zenon DEF Shutdown, vars
<1> QED
  BY <1>1, <1>2, <1>3, <1>4, Zenon DEF Next

LEMMA EntriesInit == Init => Entries
BY InstanceFacts, SocketFacts, ItemFacts DEF Init, Entries

(* An entry stays of its inode, and an entry with a socket stays the one   *)
(* its instance stored, until a delete or the undo removes it.             *)
LEMMA EntriesStep == TypeOK /\ Opening /\ Entries /\ [Next]_vars => Entries'
<1> SUFFICES ASSUME TypeOK, Opening, Entries, [Next]_vars,
                    NEW ino \in Inodes, nsMap'[ino] # None
             PROVE  /\ nsMap'[ino].inst[1] = ino
                    /\ pc'[nsMap'[ino].inst] # "unused"
                    /\ nsMap'[ino].fd # NotOpen /\ ~Canceled(nsMap[ino].inst)' =>
                         /\ pc'[nsMap'[ino].inst] \in {"default", "recheck", "wait"}
                         /\ sock'[nsMap'[ino].inst] = nsMap'[ino].fd
  BY Zenon DEF Entries
<1>0. /\ nsMap \in [Inodes -> Items \cup {None}]
      /\ pc \in [Instances -> {"default", "unused", "enter", "entered", "opened", "store",
                               "recheck", "undo", "wait", "leave", "exited"}]
  BY InstanceTypes
<1>1. CASE nsMap'[ino] = nsMap[ino]
  <2> DEFINE k == nsMap[ino].inst
  <2>1. k \in Instances
    BY <1>0, <1>1, ItemFacts
  <2>2. /\ k[1] = ino /\ pc[k] # "unused"
        /\ nsMap[ino].fd # NotOpen /\ ~Canceled(k) =>
             pc[k] \in {"default", "recheck", "wait"} /\ sock[k] = nsMap[ino].fd
    BY <1>1 DEF Entries
  <2>3. Canceled(nsMap[ino].inst)' <=> (rootDone' \/ k \in canceled')
    BY <1>1 DEF Canceled
  <2>4. ~(rootDone' \/ k \in canceled') => ~Canceled(k)
    BY <2>1, Lasting DEF Canceled
  <2> HIDE DEF k
  <2>5. /\ pc'[k] # "unused"
        /\ pc[k] \in {"default", "recheck", "wait"} /\ ~Canceled(k)
             => pc'[k] \in {"default", "recheck", "wait"}
        /\ sock[k] # NotOpen => sock'[k] = sock[k]
    BY <2>1, <2>2, Lasting
  <2> QED
    BY <1>1, <2>2, <2>3, <2>4, <2>5 DEF k
<1>2. CASE nsMap'[ino] # nsMap[ino]
  <2>1. CASE DeleteUnmap
    BY <1>0, <1>2, <2>1 DEF DeleteUnmap
  <2>2. ASSUME NEW n \in Inodes, AddVisit(n), nsMap[n] = None,
               NEW i \in Instances, i[1] = n,
               nsMap' = [nsMap EXCEPT ![n] = [inst |-> i, fd |-> NotOpen]],
               pc' = [pc EXCEPT ![i] = "enter"]
        PROVE  nsMap'[ino].inst[1] = ino /\ pc'[nsMap'[ino].inst] # "unused" /\ nsMap'[ino].fd = NotOpen
    BY <1>0, <1>2, <2>2, ItemFacts
  <2>3. ASSUME NEW i \in Instances, StoreItem(i)
        PROVE  /\ nsMap'[ino].inst[1] = ino
               /\ pc'[nsMap'[ino].inst] = "recheck"
               /\ sock'[nsMap'[ino].inst] = nsMap'[ino].fd
    <3>1. ino = i[1] /\ nsMap'[ino] = [inst |-> i, fd |-> sock[i]]
      BY <1>0, <1>2, <2>3 DEF StoreItem
    <3> QED
      BY <1>0, <2>3, <3>1 DEF StoreItem, sockVars
  <2>4. ASSUME NEW i \in Instances, UndoStore(i) PROVE FALSE
    BY <1>0, <1>2, <2>4 DEF UndoStore
  <2>5. CASE \E n \in Inodes : AddVisit(n) /\ nsMap[n] = None
    BY <2>2, <2>5, Zenon DEF AddVisit
  <2> QED
    BY <1>2, <2>1, <2>3, <2>4, <2>5, MapFacts
<1> QED
  BY <1>1, <1>2

------------------------------------------------------------------------------
(* The nsDelete in progress.                                               *)

(* reconcile leaves its first loop only between two deletes.               *)
LEMMA DeleteFacts ==
  ASSUME [Next]_vars
  PROVE  \/ UNCHANGED del /\ (del # None /\ rpc = "delete" => rpc' = "delete")
         \/ DeleteUnmap
         \/ DeleteCancel
         \/ \E ino \in Inodes : RangeVisit(ino)
<1>1. CASE Reconcile
  BY <1>1 DEF Reconcile, ReconcileScan, AddVisit, RangeEnds, ReconcileEnds
<1>2. CASE UNCHANGED recVars
  BY <1>2 DEF recVars
<1>3. ASSUME NEW i \in Instances, NamespaceInstance(i) \/ NetlinkerLoop(i)
      PROVE  UNCHANGED recVars
  BY <1>3, Zenon DEF NamespaceInstance, EnterNamespace, OpenSocket, StartNetlinker, StoreItem,
     Recheck, UndoStore, CloseSocket, LeaveThread, NetlinkerLoop, NetlinkerCheck, NetlinkerRead
<1>4. CASE Shutdown \/ UNCHANGED vars
  BY <1>2, <1>4, Zenon DEF Shutdown, vars
<1> QED
  BY <1>1, <1>2, <1>3, <1>4, Zenon DEF Next

(* nsDelete works on the item it loaded, and cancels it first.             *)
LEMMA DeletionStep ==
  TypeOK /\ Opening /\ Entries /\ Deletion /\ [Next]_vars => Deletion'
<1> SUFFICES ASSUME TypeOK, Opening, Entries, Deletion, [Next]_vars, del' # None
             PROVE  /\ rpc' = "delete"
                    /\ del'.item.inst[1] = del'.inode
                    /\ pc'[del'.item.inst] # "unused"
                    /\ del'.step = "unmap" => del'.item.inst \in canceled'
  BY Zenon DEF Deletion
<1>0. /\ nsMap \in [Inodes -> Items \cup {None}]
      /\ del # None => del.item.inst \in Instances
  BY InstanceTypes
<1>1. CASE UNCHANGED del /\ (del # None /\ rpc = "delete" => rpc' = "delete")
  <2>1. /\ del # None /\ rpc = "delete" /\ del.item.inst[1] = del.inode
        /\ pc[del.item.inst] # "unused"
        /\ del.step = "unmap" => del.item.inst \in canceled
    BY <1>1 DEF Deletion
  <2> QED
    BY <1>0, <1>1, <2>1, Lasting
<1>2. CASE DeleteUnmap
  BY <1>2 DEF DeleteUnmap
<1>3. CASE DeleteCancel
  <2>1. /\ del # None /\ rpc = "delete" /\ del.item.inst[1] = del.inode
        /\ pc[del.item.inst] # "unused"
    BY <1>3 DEF Deletion, DeleteCancel
  <2>2. del'.item = del.item /\ del'.inode = del.inode
    BY <1>3, <2>1 DEF DeleteCancel, TypeOK
  <2> QED
    BY <1>3, <2>1, <2>2 DEF DeleteCancel
<1>4. ASSUME NEW ino \in Inodes, RangeVisit(ino)
      PROVE  /\ rpc' = "delete"
             /\ del'.item.inst[1] = del'.inode
             /\ pc'[del'.item.inst] # "unused"
             /\ del'.step = "cancel"
  <2>1. /\ del' = [inode |-> ino, item |-> nsMap[ino], step |-> "cancel"]
        /\ nsMap[ino] # None
        /\ rpc' = "delete" /\ pc' = pc
    BY <1>4 DEF RangeVisit
  <2>2. nsMap[ino].inst[1] = ino /\ pc[nsMap[ino].inst] # "unused"
    BY <2>1 DEF Entries
  <2> QED
    BY <2>1, <2>2
<1> QED
  BY <1>1, <1>2, <1>3, <1>4, DeleteFacts

------------------------------------------------------------------------------
(* The instances of an inode.                                              *)

(* An instance becomes Sole only when it is started.                       *)
LEMMA SoleBefore ==
  ASSUME TypeOK, Opening, [Next]_vars, NEW i \in Instances, Sole(i)'
  PROVE  Sole(i) \/ (pc[i] = "unused" /\ pc'[i] # "unused")
<1>1. ~Canceled(i)
  BY Lasting DEF Sole
<1>2. pc'[i] \notin {"unused", "exited"} /\ pc[i] # "exited"
  BY Lasting DEF Sole, Running
<1>3. ASSUME NEW g \in 1 .. i[2] - 1 PROVE sock[<<i[1], g>>] = NotOpen
  <2>1. <<i[1], g>> \in Instances
    BY InstanceFacts, InstancesAssumption
  <2> QED
    BY <2>1, Lasting DEF Sole
<1> QED
  BY <1>1, <1>2, <1>3 DEF Sole, Running

(* Only nsAdd starts an instance, and it reserves the entry for it.        *)
LEMMA StartFacts ==
  ASSUME TypeOK, [Next]_vars, NEW i \in Instances, pc[i] = "unused", pc'[i] # "unused"
  PROVE  /\ rpc = "add" /\ UNCHANGED del
         /\ nsMap[i[1]] = None
         /\ nsMap'[i[1]] # None /\ nsMap'[i[1]].inst = i
         /\ \A g \in 1 .. i[2] - 1 : pc[<<i[1], g>>] # "unused"
         /\ \A j \in Instances : j # i => pc'[j] = pc[j]
<1>0. /\ pc \in [Instances -> {"default", "unused", "enter", "entered", "opened", "store",
                               "recheck", "undo", "wait", "leave", "exited"}]
      /\ nsMap \in [Inodes -> Items \cup {None}]
  BY InstanceTypes
<1>1. \E ino \in Inodes : AddVisit(ino) /\ nsMap[ino] = None
  <2>1. CASE Reconcile
    BY <2>1, ReconcileFacts DEF DeleteCancel
  <2>2. ASSUME NEW k \in Instances, NamespaceInstance(k) PROVE FALSE
    <3>1. pc[k] # "unused" /\ pc' = [pc EXCEPT ![k] = pc'[k]]
      BY <1>0, <2>2 DEF NamespaceInstance, EnterNamespace, OpenSocket, StartNetlinker, StoreItem,
         Recheck, UndoStore, CloseSocket, LeaveThread
    <3> QED
      BY <1>0, <3>1
  <2>3. ASSUME NEW k \in Instances, NetlinkerLoop(k) PROVE FALSE
    BY <2>3 DEF NetlinkerLoop, NetlinkerCheck, NetlinkerRead
  <2>4. CASE Shutdown \/ UNCHANGED vars
    BY <2>4 DEF Shutdown, vars
  <2> QED
    BY <2>1, <2>2, <2>3, <2>4 DEF Next
<1>2. PICK ino \in Inodes : AddVisit(ino) /\ nsMap[ino] = None
  BY <1>1
<1>3. PICK k \in Instances :
        /\ k[1] = ino
        /\ \A g \in 1 .. k[2] - 1 : pc[<<ino, g>>] # "unused"
        /\ nsMap' = [nsMap EXCEPT ![ino] = [inst |-> k, fd |-> NotOpen]]
        /\ pc' = [pc EXCEPT ![k] = "enter"]
  BY <1>2 DEF AddVisit
<1>4. k = i
  BY <1>0, <1>3
<1> QED
  BY <1>0, <1>2, <1>3, <1>4, ItemFacts DEF AddVisit

(* The instances of an inode start in order, and none starts while a Sole  *)
(* one is tracked: nsAdd finds its entry (LoadOrStore).                    *)
LEMMA GenerationStep ==
  TypeOK /\ Opening /\ Generation /\ Reachable /\ [Next]_vars => Generation'
<1> SUFFICES ASSUME TypeOK, Opening, Generation, Reachable, [Next]_vars,
                    NEW i \in Instances, NEW j \in Instances,
                    i[1] = j[1], i[2] < j[2], pc'[j] # "unused"
             PROVE  pc'[i] # "unused" /\ ~Sole(i)'
  BY DEF Generation
<1>0. i # j /\ i = <<j[1], i[2]>> /\ i[2] \in 1 .. j[2] - 1
  BY InstanceFacts, InstancesAssumption
<1>1. CASE pc[j] # "unused"
  <2>1. pc[i] # "unused" /\ ~Sole(i)
    BY <1>1 DEF Generation
  <2> QED
    BY <2>1, Lasting, SoleBefore
<1>2. CASE pc[j] = "unused"
  <2>1. nsMap[j[1]] = None /\ pc[i] # "unused"
    BY <1>0, <1>2, StartFacts
  <2>2. ~Sole(i)
    BY <2>1 DEF Reachable
  <2> QED
    BY <2>1, <2>2, Lasting, SoleBefore
<1> QED
  BY <1>1, <1>2

(* Another instance of the inode of a Sole one can neither store nor undo. *)
LEMMA SoleStores ==
  ASSUME TypeOK, Opening, Generation, NEW i \in Instances, Sole(i), NEW k \in Instances,
         k[1] = i[1], pc[k] \in {"store", "undo"}
  PROVE  k = i /\ pc[k] = "store"
<1>1. sock[k] \in SocketFds /\ (pc[k] = "undo" => Canceled(k))
  BY DEF Opening, HasSocket
<1>2. ~(k[2] < i[2])
  <2> SUFFICES ASSUME k[2] < i[2] PROVE FALSE
    OBVIOUS
  <2>1. k[2] \in 1 .. i[2] - 1 /\ k = <<i[1], k[2]>>
    BY InstanceFacts, InstancesAssumption
  <2>2. sock[k] = NotOpen
    BY <2>1 DEF Sole
  <2> QED
    BY <1>1, <2>2, SocketFacts
<1>3. ~(i[2] < k[2])
  BY DEF Generation
<1>4. k = i
  BY <1>2, <1>3, InstanceFacts, InstancesAssumption
<1> QED
  BY <1>1, <1>4 DEF Sole

(* The entry of a Sole instance stays its own until nsDelete has canceled  *)
(* it: nsMap.Delete(inode) and nsMap.Store reach no entry of another one.  *)
LEMMA ReachableStep ==
  TypeOK /\ Opening /\ Deletion /\ Generation /\ Reachable /\ [Next]_vars => Reachable'
<1> SUFFICES ASSUME TypeOK, Opening, Deletion, Generation, Reachable, [Next]_vars,
                    NEW i \in Instances, Sole(i)'
             PROVE  /\ nsMap'[i[1]] # None /\ nsMap'[i[1]].inst = i
                    /\ del' # None /\ del'.inode = i[1] => del'.item.inst = i
  BY DEF Reachable
<1>0. /\ nsMap \in [Inodes -> Items \cup {None}]
      /\ sock \in [Instances -> SocketFds \cup {NotOpen}]
      /\ i[1] \in Inodes
  BY InstanceTypes, InstanceFacts
<1>1. CASE pc[i] = "unused" /\ pc'[i] # "unused"
  BY <1>1, StartFacts DEF Deletion
<1>2. CASE Sole(i)
  <2>0. /\ nsMap[i[1]] # None /\ nsMap[i[1]].inst = i
        /\ del # None /\ del.inode = i[1] => del.item.inst = i
        /\ ~Canceled(i)
    BY <1>2 DEF Reachable, Sole
  <2>1. nsMap'[i[1]] # None /\ nsMap'[i[1]].inst = i
    <3>1. CASE DeleteUnmap
      <4>1. del.inode # i[1]
        BY <2>0, <3>1 DEF DeleteUnmap, Deletion, Canceled
      <4> QED
        BY <1>0, <2>0, <3>1, <4>1 DEF DeleteUnmap
    <3>2. ASSUME NEW n \in Inodes, AddVisit(n), nsMap[n] = None
          PROVE  nsMap'[i[1]] = nsMap[i[1]]
      BY <1>0, <2>0, <3>2 DEF AddVisit
    <3>3. ASSUME NEW k \in Instances, StoreItem(k) \/ UndoStore(k)
          PROVE  nsMap'[i[1]] # None /\ nsMap'[i[1]].inst = i
      <4>1. CASE k[1] # i[1]
        BY <1>0, <2>0, <3>3, <4>1 DEF StoreItem, UndoStore
      <4>2. CASE k[1] = i[1]
        <5>1. k = i /\ pc[k] = "store"
          BY <1>2, <3>3, <4>2, SoleStores DEF StoreItem, UndoStore
        <5>2. nsMap'[i[1]] = [inst |-> i, fd |-> sock[i]]
          BY <1>0, <3>3, <5>1 DEF StoreItem, UndoStore
        <5> QED
          BY <1>0, <5>2, ItemFacts
      <4> QED
        BY <4>1, <4>2
    <3> QED
      BY <2>0, <3>1, <3>2, <3>3, MapFacts
  <2>2. ASSUME del' # None, del'.inode = i[1] PROVE del'.item.inst = i
    <3>1. CASE DeleteUnmap
      BY <2>2, <3>1 DEF DeleteUnmap
    <3>2. CASE DeleteCancel
      <4>1. del' = [del EXCEPT !.step = "unmap"] /\ del # None
        BY <3>2 DEF DeleteCancel
      <4>2. del'.item = del.item /\ del'.inode = del.inode
        BY <4>1 DEF TypeOK
      <4> QED
        BY <2>0, <2>2, <4>1, <4>2
    <3>3. ASSUME NEW ino \in Inodes, RangeVisit(ino) PROVE del'.item.inst = i
      BY <2>0, <2>2, <3>3 DEF RangeVisit
    <3> QED
      BY <2>0, <2>2, <3>1, <3>2, <3>3, DeleteFacts
  <2> QED
    BY <2>1, <2>2
<1> QED
  BY <1>1, <1>2, SoleBefore

------------------------------------------------------------------------------
(* The entries of canceled instances.                                      *)

(* A canceled instance that has stored its entry goes on to undo it.       *)
LEMMA StoringFacts ==
  ASSUME TypeOK, [Next]_vars, NEW k \in Instances, k \in canceled, Storing(k)
  PROVE  Storing(k)' \/ UndoStore(k)
<1>0. pc \in [Instances -> {"default", "unused", "enter", "entered", "opened", "store",
                            "recheck", "undo", "wait", "leave", "exited"}]
  BY InstanceTypes
<1>1. CASE Reconcile
  <2>1. CASE UNCHANGED pc
    BY <2>1 DEF Storing
  <2>2. ASSUME NEW ino \in Inodes, AddVisit(ino) PROVE Storing(k)'
    BY <1>0, <2>2 DEF AddVisit, Storing
  <2> QED
    BY <1>1, <2>1, <2>2, ReconcileFacts DEF DeleteCancel
<1>2. ASSUME NEW i \in Instances, NamespaceInstance(i), i # k PROVE Storing(k)'
  <2>1. pc' = [pc EXCEPT ![i] = pc'[i]]
    BY <1>0, <1>2 DEF NamespaceInstance, EnterNamespace, OpenSocket, StartNetlinker, StoreItem,
       Recheck, UndoStore, CloseSocket, LeaveThread
  <2> QED
    BY <1>0, <1>2, <2>1 DEF Storing
<1>3. CASE NamespaceInstance(k)
  BY <1>0, <1>3 DEF NamespaceInstance, EnterNamespace, OpenSocket, StartNetlinker, StoreItem,
     Recheck, CloseSocket, LeaveThread, Storing, Canceled
<1>4. ASSUME NEW i \in Instances, NetlinkerLoop(i) PROVE Storing(k)'
  BY <1>4 DEF NetlinkerLoop, NetlinkerCheck, NetlinkerRead, Storing
<1>5. CASE Shutdown \/ UNCHANGED vars
  BY <1>5 DEF Shutdown, vars, Storing
<1> QED
  BY <1>1, <1>2, <1>3, <1>4, <1>5 DEF Next

(* A context is canceled by nsDelete, or with all of them.                 *)
LEMMA CancelFacts ==
  ASSUME [Next]_vars
  PROVE  UNCHANGED canceled \/ DeleteCancel
<1>1. CASE Reconcile
  BY <1>1, ReconcileFacts DEF AddVisit, ctxVars
<1>2. ASSUME NEW i \in Instances, NamespaceInstance(i) \/ NetlinkerLoop(i)
      PROVE  UNCHANGED canceled
  BY <1>2, Zenon DEF NamespaceInstance, EnterNamespace, OpenSocket, StartNetlinker, StoreItem,
     Recheck, UndoStore, CloseSocket, LeaveThread, NetlinkerLoop, NetlinkerCheck, NetlinkerRead,
     ctxVars
<1>3. CASE Shutdown \/ UNCHANGED vars
  BY <1>3, Zenon DEF Shutdown, vars, ctxVars
<1> QED
  BY <1>1, <1>2, <1>3, Zenon DEF Next

(* nsDelete removes what it cancels, and a store that raced it is undone,  *)
(* in whatever order Store, cancel and Delete happen.                      *)
LEMMA TransientStep ==
  /\ TypeOK /\ Opening /\ Entries /\ Deletion /\ CanceledEntryIsTransient
  /\ [Next]_vars
  => CanceledEntryIsTransient'
<1> SUFFICES ASSUME TypeOK, Opening, Entries, Deletion, CanceledEntryIsTransient, [Next]_vars,
                    NEW ino \in Inodes, nsMap'[ino] # None, nsMap'[ino].inst \in canceled'
             PROVE  \/ del' # None /\ del'.inode = ino
                    \/ pc'[nsMap'[ino].inst] \in {"recheck", "undo"}
  BY Zenon DEF CanceledEntryIsTransient, Deleting, Storing
<1>0. /\ nsMap \in [Inodes -> Items \cup {None}]
      /\ pc \in [Instances -> {"default", "unused", "enter", "entered", "opened", "store",
                               "recheck", "undo", "wait", "leave", "exited"}]
      /\ del \in {None} \cup [inode : Inodes, item : Items, step : {"cancel", "unmap"}]
  BY InstanceTypes DEF TypeOK
<1>1. CASE nsMap'[ino] = nsMap[ino]
  <2> DEFINE k == nsMap[ino].inst
  <2>1. nsMap[ino] # None /\ k \in Instances /\ k[1] = ino
    BY <1>0, <1>1, ItemFacts DEF Entries
  <2>2. DeleteCancel => del' # None /\ del'.inode = del.inode
    <3> SUFFICES ASSUME DeleteCancel PROVE del' # None /\ del'.inode = del.inode
      OBVIOUS
    <3>1. /\ del \in [inode : Inodes, item : Items, step : {"cancel", "unmap"}]
          /\ del' = [del EXCEPT !.step = "unmap"]
      BY <1>0 DEF DeleteCancel
    <3>2. del' \in [inode : Inodes, item : Items, step : {"cancel", "unmap"}]
      BY <3>1
    <3> QED
      BY <3>1, <3>2, DeletingIsNotNone
  <2>3. CASE k \notin canceled
    <3>1. DeleteCancel /\ k = del.item.inst /\ del # None
      BY <1>1, <2>3, CancelFacts DEF DeleteCancel
    <3> QED
      BY <2>1, <2>2, <3>1 DEF Deletion
  <2>4. CASE k \in canceled /\ Deleting(ino)
    <3>1. ~DeleteUnmap
      BY <1>0, <1>1, <2>1, <2>4 DEF DeleteUnmap, Deleting
    <3>2. ~\E n \in Inodes : RangeVisit(n)
      BY <2>4 DEF RangeVisit, Deleting
    <3> QED
      BY <2>2, <2>4, <3>1, <3>2, DeleteFacts DEF Deleting
  <2>5. CASE k \in canceled /\ Storing(k)
    <3>1. PICK i \in Instances : i = k
      BY <2>1
    <3>2. ~UndoStore(i)
      BY <1>0, <1>1, <2>1, <3>1 DEF UndoStore
    <3>3. Storing(i)'
      BY <2>5, <3>1, <3>2, StoringFacts
    <3> QED
      BY <1>1, <3>1, <3>3 DEF Storing
  <2> QED
    BY <2>1, <2>3, <2>4, <2>5 DEF CanceledEntryIsTransient
<1>2. CASE nsMap'[ino] # nsMap[ino]
  <2>1. CASE DeleteUnmap
    BY <1>0, <1>2, <2>1 DEF DeleteUnmap
  <2>2. ASSUME NEW n \in Inodes, AddVisit(n), nsMap[n] = None PROVE FALSE
    <3>1. PICK i \in Instances :
            pc[i] = "unused" /\ nsMap' = [nsMap EXCEPT ![n] = [inst |-> i, fd |-> NotOpen]]
      BY <2>2 DEF AddVisit
    <3>2. nsMap'[ino].inst = i /\ canceled' = canceled
      BY <1>0, <1>2, <2>2, <3>1 DEF AddVisit, ctxVars
    <3> QED
      BY <3>1, <3>2 DEF Opening
  <2>3. ASSUME NEW i \in Instances, StoreItem(i) PROVE pc'[nsMap'[ino].inst] = "recheck"
    BY <1>0, <1>2, <2>3 DEF StoreItem
  <2>4. ASSUME NEW i \in Instances, UndoStore(i) PROVE FALSE
    BY <1>0, <1>2, <2>4 DEF UndoStore
  <2> QED
    BY <1>2, <2>1, <2>2, <2>3, <2>4, MapFacts
<1> QED
  BY <1>1, <1>2

------------------------------------------------------------------------------
(* Initially the daemon's own namespace is tracked, and nothing else.      *)
LEMMA InitInv == Init => IInv
<1> SUFFICES ASSUME Init PROVE IInv
  OBVIOUS
<1>1. Deletion
  BY DEF Init, Deletion
<1>2. \A i \in Instances : pc[i] = "unused" <=> i # Default
  BY DEF Init
<1>3. Generation
  BY <1>2, InstanceFacts, InstancesAssumption DEF Generation, Sole, Running
<1>4. Reachable
  <2>1. nsMap[Self] = [inst |-> Default, fd |-> DefaultFd] /\ del = None
    BY InodesAssumption DEF Init
  <2> QED
    BY <1>2, <2>1, InstanceFacts, ItemFacts, SocketFacts DEF Reachable, Sole, Running
<1>5. CanceledEntryIsTransient
  BY DEF Init, CanceledEntryIsTransient
<1> QED
  BY <1>1, <1>3, <1>4, <1>5, TypeInit, OpeningInit, EntriesInit DEF IInv

(* The namespaces are tracked as the invariant says, always.               *)
THEOREM Invariance == Spec => []IInv
<1>1. IInv /\ [Next]_vars => IInv'
  BY TypeStep, OpeningStep, EntriesStep, DeletionStep, GenerationStep, ReachableStep,
     TransientStep, Zenon DEF IInv
<1> QED
  BY <1>1, InitInv, PTL DEF Spec

(* No step of reconcile, of an instance or of a netlinker leaves a         *)
(* variable without its type.                                              *)
THEOREM TypeCorrect == Spec => []TypeOK
<1>1. IInv => TypeOK
  BY DEF IInv
<1> QED
  BY <1>1, Invariance, PTL

(* A deleted namespace does not stay polled: in every state the entry of a *)
(* canceled instance is being removed by nsDelete, or was just stored by   *)
(* that instance, which is about to undo it.                               *)
THEOREM CanceledEntriesGo == Spec => []CanceledEntryIsTransient
<1>1. IInv => CanceledEntryIsTransient
  BY DEF IInv
<1> QED
  BY <1>1, Invariance, PTL

(* The map leads the poller to no closed or reused number: in every state  *)
(* an entry with a socket, of an instance that is not canceled, names a    *)
(* socket which that instance holds open.                                  *)
THEOREM PolledSocketsAreOpen == Spec => []PublishedSocketIsOpen
<1>1. IInv => PublishedSocketIsOpen
  <2> SUFFICES ASSUME IInv, NEW ino \in Inodes, nsMap[ino] # None, nsMap[ino].fd # NotOpen,
                      ~Canceled(nsMap[ino].inst)
               PROVE  owner[nsMap[ino].fd] = nsMap[ino].inst
    BY DEF PublishedSocketIsOpen
  <2>1. nsMap[ino].inst \in Instances
    BY InstanceTypes, ItemFacts DEF IInv
  <2>2. /\ pc[nsMap[ino].inst] \in {"default", "recheck", "wait"}
        /\ sock[nsMap[ino].inst] = nsMap[ino].fd
    BY DEF IInv, Entries
  <2> QED
    BY <2>1, <2>2 DEF IInv, Opening, HasSocket
<1> QED
  BY <1>1, Invariance, PTL

(* A running namespace can be torn down: until an earlier instance of its  *)
(* inode has opened a socket, the entry of the inode is its own, so that   *)
(* nsDelete finds its cancel function.                                     *)
THEOREM NoRunningOrphan == Spec => []NoOrphan
<1>1. IInv => NoOrphan
  BY DEF IInv, NoOrphan, Reachable, Sole
<1> QED
  BY <1>1, Invariance, PTL

------------------------------------------------------------------------------
(* The daemon's own namespace.                                             *)

(* Its entry is the one openDefaultNetLinkSocket stored, its socket is     *)
(* open and its context not canceled by any delete.                        *)
OwnNamespaceTracked ==
  /\ nsMap[Self] = [inst |-> Default, fd |-> DefaultFd]
  /\ owner[DefaultFd] = Default
  /\ Default \notin canceled

(* No delete is of it, and no other instance of it is ever started.        *)
OwnAlone ==
  /\ del # None => del.inode # Self
  /\ pc[Default] = "default" /\ sock[Default] = DefaultFd
  /\ \A i \in Instances : i[1] = Self /\ i # Default => pc[i] = "unused"
  /\ nsMap[Self] = [inst |-> Default, fd |-> DefaultFd]
  /\ Default \notin canceled

LEMMA OwnAloneInit == Init => OwnAlone
BY InodesAssumption, InstanceFacts DEF Init, OwnAlone

(* reconcile passes the daemon's own inode over when it deletes, and finds *)
(* its entry when it adds, so that no goroutine is there to touch it.      *)
LEMMA OwnAloneStep == TypeOK /\ Opening /\ Deletion /\ OwnAlone /\ [Next]_vars => OwnAlone'
<1> SUFFICES ASSUME TypeOK, Opening, Deletion, OwnAlone, [Next]_vars PROVE OwnAlone'
  OBVIOUS
<1>0. /\ pc \in [Instances -> {"default", "unused", "enter", "entered", "opened", "store",
                               "recheck", "undo", "wait", "leave", "exited"}]
      /\ nsMap \in [Inodes -> Items \cup {None}]
  BY InstanceTypes
<1>1. Self \in Inodes /\ Default \in Instances /\ Default[1] = Self /\ DefaultFd \in SocketFds
  BY InodesAssumption, InstanceFacts, SocketFacts
<1>2. nsMap[Self] # None /\ sock[Default] # NotOpen
  BY <1>1, ItemFacts, SocketFacts DEF OwnAlone
<1>3. sock'[Default] = DefaultFd
  BY <1>1, <1>2, Lasting DEF OwnAlone
<1>4. CASE Reconcile
  <2>1. del' # None => del'.inode # Self
    <3>1. UNCHANGED del \/ del' = None \/ DeleteCancel \/ \E ino \in Inodes : RangeVisit(ino)
      BY <1>4, Zenon DEF Reconcile, ReconcileScan, AddVisit, DeleteUnmap, RangeEnds, ReconcileEnds
    <3>2. CASE DeleteCancel
      <4>1. del # None /\ del' = [del EXCEPT !.step = "unmap"]
        BY <3>2, Zenon DEF DeleteCancel
      <4> QED
        BY <4>1 DEF OwnAlone, TypeOK
    <3>3. ASSUME NEW ino \in Inodes, RangeVisit(ino) PROVE del' # None => del'.inode # Self
      BY <3>3 DEF RangeVisit
    <3> QED
      BY <3>1, <3>2, <3>3, Zenon DEF OwnAlone
  <2>2. nsMap'[Self] = nsMap[Self]
    <3>1. CASE DeleteUnmap
      BY <1>0, <1>1, <3>1 DEF DeleteUnmap, OwnAlone
    <3>2. ASSUME NEW ino \in Inodes, AddVisit(ino), nsMap[ino] = None PROVE nsMap'[Self] = nsMap[Self]
      BY <1>0, <1>1, <1>2, <3>2 DEF AddVisit
    <3>3. UNCHANGED nsMap \/ DeleteUnmap \/ \E ino \in Inodes : AddVisit(ino) /\ nsMap[ino] = None
      BY <1>4, Zenon DEF Reconcile, ReconcileScan, RangeVisit, AddVisit, DeleteCancel, RangeEnds,
         ReconcileEnds
    <3> QED
      BY <3>1, <3>2, <3>3, Zenon
  <2>3. \A i \in Instances : i[1] = Self => pc'[i] = pc[i]
    <3>1. ASSUME NEW ino \in Inodes, AddVisit(ino), nsMap[ino] = None
          PROVE  \A i \in Instances : i[1] = Self => pc'[i] = pc[i]
      BY <1>0, <1>2, <3>1 DEF AddVisit
    <3>2. CASE DeleteCancel
      BY <3>2, Zenon DEF DeleteCancel
    <3> QED
      BY <1>4, <3>1, <3>2, ReconcileFacts, Zenon
  <2>4. Default \notin canceled'
    <3>1. CASE DeleteCancel
      <4>1. canceled' = canceled \cup {del.item.inst} /\ del # None
        BY <3>1, Zenon DEF DeleteCancel
      <4>2. del.item.inst[1] # Self
        BY <4>1 DEF Deletion, OwnAlone
      <4> QED
        BY <1>1, <4>1, <4>2 DEF OwnAlone
    <3>2. ASSUME NEW ino \in Inodes, AddVisit(ino) PROVE UNCHANGED canceled
      BY <3>2, Zenon DEF AddVisit, ctxVars
    <3> QED
      BY <1>4, <3>1, <3>2, ReconcileFacts, Zenon DEF OwnAlone
  <2> QED
    BY <1>1, <1>3, <2>1, <2>2, <2>3, <2>4, Zenon DEF OwnAlone
<1>5. ASSUME NEW i \in Instances, NamespaceInstance(i) PROVE OwnAlone'
  <2>1. UNCHANGED <<del, canceled>>
    BY <1>5, Zenon DEF NamespaceInstance, EnterNamespace, OpenSocket, StartNetlinker, StoreItem,
       Recheck, UndoStore, CloseSocket, LeaveThread, recVars, ctxVars
  <2>2. pc[i] \notin {"unused", "default"}
    BY <1>5 DEF NamespaceInstance, EnterNamespace, OpenSocket, StartNetlinker, StoreItem, Recheck,
       UndoStore, CloseSocket, LeaveThread
  <2>3. i[1] # Self
    BY <2>2 DEF OwnAlone
  <2>4. \E p : pc' = [pc EXCEPT ![i] = p]
    BY <1>5, Zenon DEF NamespaceInstance, EnterNamespace, OpenSocket, StartNetlinker, StoreItem,
       Recheck, UndoStore, CloseSocket, LeaveThread
  <2>5. \A j \in Instances : j[1] = Self => pc'[j] = pc[j]
    BY <1>0, <2>3, <2>4
  <2>6. UNCHANGED nsMap \/ \E x : nsMap' = [nsMap EXCEPT ![i[1]] = x]
    BY <1>5, Zenon DEF NamespaceInstance, EnterNamespace, OpenSocket, StartNetlinker, StoreItem,
       Recheck, UndoStore, CloseSocket, LeaveThread
  <2>7. nsMap'[Self] = nsMap[Self]
    BY <1>0, <1>1, <2>3, <2>6
  <2> QED
    BY <1>1, <1>3, <2>1, <2>5, <2>7, Zenon DEF OwnAlone
<1>6. CASE UNCHANGED <<nsMap, del, canceled, pc>>
  BY <1>3, <1>6, Zenon DEF OwnAlone
<1>7. ASSUME NEW i \in Instances, NetlinkerLoop(i) PROVE OwnAlone'
  BY <1>6, <1>7, Zenon DEF NetlinkerLoop, NetlinkerCheck, NetlinkerRead, recVars, ctxVars
<1>8. CASE Shutdown \/ UNCHANGED vars
  BY <1>6, <1>8, Zenon DEF Shutdown, vars, recVars, ctxVars
<1> QED
  BY <1>4, <1>5, <1>7, <1>8, Zenon DEF Next

(* Whatever the scans find or miss, the daemon's own namespace stays in    *)
(* nsMap with its open socket, and no delete cancels it (reconcile).       *)
THEOREM OwnNamespaceStays == Spec => []OwnNamespaceTracked
<1>1. IInv /\ OwnAlone /\ [Next]_vars => OwnAlone'
  BY OwnAloneStep, Zenon DEF IInv
<1>2. IInv /\ OwnAlone => OwnNamespaceTracked
  <2> SUFFICES ASSUME IInv, OwnAlone PROVE OwnNamespaceTracked
    OBVIOUS
  <2>1. Opening
    BY Zenon DEF IInv
  <2> QED
    BY <2>1, InstanceFacts DEF Opening, HasSocket, OwnAlone, OwnNamespaceTracked
<1> QED
  BY <1>1, <1>2, OwnAloneInit, Invariance, PTL DEF Spec

------------------------------------------------------------------------------
(* What a netlinker reads.                                                 *)

(* A netlinker whose context is not canceled receives on the socket of its *)
(* own instance, which lives in the namespace of the instance's thread.    *)
ReadsOwnSocket ==
  \A i \in Instances :
    nl[i] = "recv" /\ ~Canceled(i) => owner[sock[i]] = i /\ sockNs[sock[i]] = netns[i]

(* Until its context is canceled, the instance of a netlinker holds on.    *)
Listening ==
  \A i \in Instances :
    nl[i] # "off" /\ ~Canceled(i) => pc[i] \in {"store", "recheck", "wait"}

(* An open socket is in the namespace its instance's thread is in.         *)
Within ==
  \A i \in Instances : pc[i] \in HasSocket => sockNs[sock[i]] = netns[i]

(* An instance closes its socket only when its context is canceled.        *)
LEMMA ListeningStep == TypeOK /\ Opening /\ Listening /\ [Next]_vars => Listening'
<1> SUFFICES ASSUME TypeOK, Opening, Listening, [Next]_vars, NEW j \in Instances,
                    nl'[j] # "off", ~Canceled(j)'
             PROVE  pc'[j] \in {"store", "recheck", "wait"}
  BY Zenon DEF Listening
<1> DEFINE Goal == pc'[j] \in {"store", "recheck", "wait"}
<1>0. /\ pc \in [Instances -> {"default", "unused", "enter", "entered", "opened", "store",
                               "recheck", "undo", "wait", "leave", "exited"}]
      /\ nl \in [Instances -> {"off", "check", "recv"}]
  BY Zenon DEF TypeOK
<1>1. ~Canceled(j)
  BY Lasting
<1>2. nl[j] # "off" => pc[j] \in {"store", "recheck", "wait"}
  BY <1>1, Zenon DEF Listening
<1>3. ASSUME NEW i \in Instances, StartNetlinker(i) PROVE Goal
  BY <1>0, <1>1, <1>2, <1>3 DEF StartNetlinker
<1>4. ASSUME NEW i \in Instances, NetlinkerLoop(i) PROVE Goal
  <2>1. nl[i] # "off" /\ UNCHANGED pc /\ \E p : nl' = [nl EXCEPT ![i] = p]
    BY <1>4 DEF NetlinkerLoop, NetlinkerCheck, NetlinkerRead
  <2> QED
    BY <1>0, <1>2, <2>1
<1>5. ASSUME NEW i \in Instances,
             \/ EnterNamespace(i) \/ OpenSocket(i) \/ StoreItem(i) \/ Recheck(i)
             \/ UndoStore(i) \/ CloseSocket(i) \/ LeaveThread(i)
      PROVE  Goal
  <2>1. /\ UNCHANGED nl
        /\ \E p : pc' = [pc EXCEPT ![i] = p]
    BY <1>5, Zenon DEF EnterNamespace, OpenSocket, StoreItem, Recheck, UndoStore, CloseSocket,
       LeaveThread
  <2>2. pc[i] \in {"store", "recheck", "wait"} /\ ~Canceled(i)
          => \E p \in {"recheck", "wait"} : pc' = [pc EXCEPT ![i] = p]
    BY <1>5 DEF EnterNamespace, OpenSocket, StoreItem, Recheck, UndoStore, CloseSocket, LeaveThread
  <2> QED
    BY <1>0, <1>1, <1>2, <2>1, <2>2
<1>6. CASE UNCHANGED <<pc, nl>>
  BY <1>2, <1>6
<1>7. CASE Reconcile
  <2>1. UNCHANGED nl
    BY <1>7, Zenon DEF Reconcile, ReconcileScan, RangeVisit, AddVisit, DeleteCancel, DeleteUnmap,
       RangeEnds, ReconcileEnds
  <2>2. CASE DeleteCancel
    BY <1>6, <2>1, <2>2, Zenon DEF DeleteCancel
  <2>3. ASSUME NEW ino \in Inodes, AddVisit(ino), nsMap[ino] = None PROVE Goal
    BY <1>0, <1>2, <2>1, <2>3 DEF AddVisit
  <2> QED
    BY <1>6, <1>7, <2>1, <2>2, <2>3, ReconcileFacts, Zenon
<1>8. CASE Shutdown \/ UNCHANGED vars
  BY <1>6, <1>8, Zenon DEF Shutdown, vars
<1> QED
  BY <1>3, <1>4, <1>5, <1>7, <1>8, Zenon DEF Next, NamespaceInstance

(* Sockets are opened on the locked thread, which stays where it is until  *)
(* its instance has closed the socket (openNetLinkSocketWithFailureTimer). *)
LEMMA WithinStep == TypeOK /\ Opening /\ Within /\ [Next]_vars => Within'
<1> SUFFICES ASSUME TypeOK, Opening, Within, [Next]_vars, NEW j \in Instances,
                    pc'[j] \in HasSocket
             PROVE  sockNs'[sock'[j]] = netns'[j]
  BY Zenon DEF Within
<1> DEFINE Goal == sockNs'[sock'[j]] = netns'[j]
<1>0. /\ pc \in [Instances -> {"default", "unused", "enter", "entered", "opened", "store",
                               "recheck", "undo", "wait", "leave", "exited"}]
      /\ sock \in [Instances -> SocketFds \cup {NotOpen}]
      /\ owner \in [SocketFds -> Instances \cup {None}]
      /\ sockNs \in [SocketFds -> Inodes]
      /\ netns \in [Instances -> Inodes]
  BY Zenon DEF TypeOK
<1>1. pc[j] \in HasSocket => /\ sock[j] \in SocketFds /\ owner[sock[j]] = j
                             /\ sockNs[sock[j]] = netns[j]
  BY Zenon DEF Opening, Within
<1>2. ASSUME NEW i \in Instances, OpenSocket(i) PROVE Goal
  BY <1>0, <1>1, <1>2, NoneIsNoInstance DEF OpenSocket, sockVars, thrVars, HasSocket
<1>3. ASSUME NEW i \in Instances, CloseSocket(i) PROVE Goal
  <2>1. sock[i] \in SocketFds /\ owner[sock[i]] = i
    BY <1>3 DEF CloseSocket, Opening, HasSocket
  <2> QED
    BY <1>0, <1>1, <1>3, <2>1 DEF CloseSocket, thrVars, HasSocket
<1>4. ASSUME NEW i \in Instances, EnterNamespace(i) \/ LeaveThread(i) PROVE Goal
  BY <1>0, <1>1, <1>4 DEF EnterNamespace, LeaveThread, sockVars, HasSocket
<1>5. ASSUME NEW i \in Instances, StartNetlinker(i) \/ StoreItem(i) \/ Recheck(i) \/ UndoStore(i)
      PROVE  Goal
  <2>1. UNCHANGED <<netns, sock, sockNs>> /\ pc[i] \in HasSocket
    BY <1>5 DEF StartNetlinker, StoreItem, Recheck, UndoStore, thrVars, sockVars, HasSocket
  <2>2. \E p : pc' = [pc EXCEPT ![i] = p]
    BY <1>5, Zenon DEF StartNetlinker, StoreItem, Recheck, UndoStore
  <2>3. pc[j] \in HasSocket
    BY <1>0, <2>1, <2>2
  <2> QED
    BY <1>1, <2>1, <2>3, Zenon
<1>6. CASE UNCHANGED <<pc, netns, sock, sockNs>>
  BY <1>1, <1>6, Zenon
<1>7. CASE Reconcile
  <2>1. UNCHANGED <<netns, sock, sockNs>>
    BY <1>7, Zenon DEF Reconcile, ReconcileScan, RangeVisit, AddVisit, DeleteCancel, DeleteUnmap,
       RangeEnds, ReconcileEnds, thrVars, sockVars
  <2>2. CASE DeleteCancel
    BY <1>6, <2>1, <2>2, Zenon DEF DeleteCancel
  <2>3. ASSUME NEW ino \in Inodes, AddVisit(ino), nsMap[ino] = None PROVE Goal
    <3>1. pc[j] \in HasSocket
      BY <1>0, <2>3 DEF AddVisit, HasSocket
    <3> QED
      BY <1>1, <2>1, <3>1, Zenon
  <2> QED
    BY <1>6, <1>7, <2>1, <2>2, <2>3, ReconcileFacts, Zenon
<1>8. ASSUME NEW i \in Instances, NetlinkerLoop(i) PROVE Goal
  BY <1>6, <1>8, Zenon DEF NetlinkerLoop, NetlinkerCheck, NetlinkerRead, thrVars, sockVars
<1>9. CASE Shutdown \/ UNCHANGED vars
  BY <1>6, <1>9, Zenon DEF Shutdown, vars, thrVars, sockVars
<1> QED
  BY <1>2, <1>3, <1>4, <1>5, <1>7, <1>8, <1>9, Zenon DEF Next, NamespaceInstance

(* A netlinker receives on another instance's socket only after its own    *)
(* context was canceled; until then what it receives is mislabelled only   *)
(* if its thread did not enter the namespace (netNamespaceInstance).       *)
THEOREM NetlinkersReadTheirOwn == Spec => []ReadsOwnSocket
<1>1. Init => Listening /\ Within
  BY InstanceFacts, SocketFacts DEF Init, Listening, Within, HasSocket
<1>2. IInv /\ Listening /\ Within /\ [Next]_vars => Listening' /\ Within'
  BY ListeningStep, WithinStep, Zenon DEF IInv
<1>3. IInv /\ Listening /\ Within => ReadsOwnSocket
  <2> SUFFICES ASSUME IInv, Listening, Within, NEW i \in Instances, nl[i] = "recv", ~Canceled(i)
               PROVE  owner[sock[i]] = i /\ sockNs[sock[i]] = netns[i]
    BY Zenon DEF ReadsOwnSocket
  <2>1. pc[i] \in HasSocket
    BY DEF Listening, HasSocket
  <2>2. Opening
    BY Zenon DEF IInv
  <2> QED
    BY <2>1, <2>2, Zenon DEF Opening, Within
<1> QED
  BY <1>1, <1>2, <1>3, Invariance, PTL DEF Spec
==============================================================================
