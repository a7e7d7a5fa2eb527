------------------------------- MODULE Binder -------------------------------
(***************************************************************************)
(* The binder driver of src/module/new/binder.c: processes (binder_proc)  *)
(* with their threads (binder_thread), the process queue and per-thread   *)
(* inboxes, each process's object registry, the transaction engine        *)
(* (BC_TRANSACTION / BC_REPLY), the read dispatcher (binder_thread_read),  *)
(* death-notification requests, the looper counters and spawn gate,       *)
(* SET_MAX_THREADS, SET_CONTEXT_MGR (the global context manager) and       *)
(* binder_release.                                                         *)
(*                                                                         *)
(* A queue is named by its owner: process p's proc->queue is p, thread     *)
(* t's thread->queue is t.  Each ioctl command is one or more steps of the *)
(* calling thread; pc says where the thread is.                            *)
(***************************************************************************)
EXTENDS Integers, Sequences, FiniteSets, Bitwise
LOCAL INSTANCE SequencesExt

CONSTANTS
    Procs,          \* open binder file descriptors (one binder_proc each)
    Threads,        \* thread pids
    ProcOf,         \* the process each thread belongs to
    Binders,        \* userspace binder pointers other than NULL
    Cookies,        \* userspace cookies of BINDER descriptors
    Foreign,        \* an owner value in a descriptor naming no live queue
    Payloads,       \* the payloads userspace sends (see Desc, NoData, Plain)
    NotifyBinders,  \* binder pointers named by death-notification commands
    Uids,           \* effective uids of the callers
    MaxThreadsVals, \* arguments of BINDER_SET_MAX_THREADS
    ReadSizes,      \* read_size of a BINDER_WRITE_READ, in command words
    NonBlock,       \* O_NONBLOCK at open (proc->non_block, thread->non_block)
    LooperActive,   \* BINDER_LOOPER_STATE_ACTIVE: used, defined in no file
    StateGarbage,   \* values a fresh thread->state may hold (never initialised)
    DeadTagsEqual,  \* whether BC_DEAD_BINDER = BR_DEAD_BINDER in binder.h
    SendBound,      \* model bound: messages one thread may send
    LooperBound,    \* model bound on |num_loopers| and |pending_loopers|
    NULL, Undef

Queues == Procs \cup Threads
Owners == Procs \cup {Foreign}

ASSUME /\ ProcOf \in [Threads -> Procs]
       /\ Foreign \notin Queues /\ Procs \cap Threads = {}
       /\ NonBlock \in BOOLEAN /\ DeadTagsEqual \in BOOLEAN
       /\ LooperActive \in 1..3 /\ StateGarbage \subseteq 0..3
       /\ ReadSizes \subseteq Nat \ {0}

VARIABLES
    procq,          \* proc->queue, per process
    tq,             \* thread->queue, per thread
    incoming,       \* thread->incoming_transactions, head = top of stack
    pending,        \* thread->pending_replies
    state,          \* thread->state (looper bits)
    pc,             \* where the thread is: userspace or inside an ioctl
    rsz,            \* read-buffer words left in binder_thread_read
    out,            \* what the current read call has put in the read buffer
    held,           \* a message taken off a queue, to be put back (ENOSPC)
    sent,           \* messages each thread has sent (they are named by it)
    objs,           \* proc->obj_tree: (owner, binder) -> real_cookie
    notifiers,      \* obj->notifiers of each process's owned objects
    numLoopers, pendingLoopers, maxThreads,   \* looper accounting
    procState,      \* "open", "released", "bug" (BUG_ON) or "enomem"
    ctxMgr,         \* context_mgr_obj: NULL or the object's key
    ctxUid,         \* context_mgr_uid
    ctxRet,         \* what the last BINDER_SET_CONTEXT_MGR returned
    oops            \* memory-safety faults the code has hit: "stale queue", "null deref"

thrVars == <<tq, incoming, pending, state, pc, rsz, out, held, sent>>
procVars == <<procq, objs, notifiers, numLoopers, pendingLoopers, maxThreads,
              procState>>
vars == <<thrVars, procVars, ctxMgr, ctxUid, ctxRet, oops>>

(* Payloads: no data, data without offsets, or one flat_binder_object.     *)
Desc(ty, b, c) == [kind |-> "obj", type |-> ty, binder |-> b, cookie |-> c]
NoData == [kind |-> "none", type |-> NULL, binder |-> NULL, cookie |-> NULL]
Plain  == [kind |-> "plain", type |-> NULL, binder |-> NULL, cookie |-> NULL]

Ids == Threads \X (1..SendBound)
Msg(ty, id, ow, rq, b, pl, c) ==
    [type |-> ty, id |-> id, oneway |-> ow, reply |-> rq, obj |-> b,
     pl |-> pl, cookie |-> c]
MsgTypes == {"BC_TRANSACTION", "BC_REPLY", "BR_TRANSACTION_COMPLETE",
             "BC_REQUEST_DEATH_NOTIFICATION", "BC_CLEAR_DEATH_NOTIFICATION",
             "BC_DEAD_BINDER"}
Messages ==
    [type : MsgTypes, id : Ids \cup {NULL}, oneway : BOOLEAN,
     reply : Queues \cup {NULL}, obj : Binders \cup {NULL}, pl : Payloads,
     cookie : Cookies \cup {NULL}]
OutItems ==
    [cmd : {"BR_TRANSACTION", "BR_REPLY"}, id : Ids]
    \cup [cmd : {"BR_SPAWN_LOOPER", "UNWRITTEN", "BR_DEAD_BINDER",
                 "BR_CLEAR_DEATH_NOTIFICATION_DONE"}, id : {NULL}]

Queue(q) == IF q \in Procs THEN procq[q] ELSE tq[q]
QueueProc(q) == IF q \in Procs THEN q ELSE ProcOf[q]

(* Replace queue q's contents by s (its owner's variable is the one that   *)
(* changes).                                                               *)
SetQueue(q, s) ==
    /\ procq' = IF q \in Procs THEN [procq EXCEPT ![q] = s] ELSE procq
    /\ tq' = IF q \in Procs THEN tq ELSE [tq EXCEPT ![q] = s]

-----------------------------------------------------------------------------
(* Registry of process p: _binder_find_obj / _binder_new_obj.               *)
Found(p, owner, b) == <<owner, b>> \in DOMAIN objs[p]
(* _binder_new_obj: insert unless present (the existing entry wins).        *)
Intern(p, owner, b, cookie) ==
    IF Found(p, owner, b) THEN objs[p]
    ELSE [k \in DOMAIN objs[p] \cup {<<owner, b>>} |->
              IF k = <<owner, b>> THEN cookie ELSE objs[p][k]]

(* bcmd_write_msg_buf as bcmd_write_transaction uses it.  The offsets loop  *)
(* never advances p, so a descriptor the first pass accepts is translated  *)
(* again forever ("spin": a BINDER becomes a HANDLE owned by this process, *)
(* which is then found on every later pass); bcmd_write_transaction tests   *)
(* !r, so r = 0 refuses the message and an error sends it untranslated.     *)
WriteXlate(p, pl) ==
    CASE pl.kind = "none"                                  -> "send"
      [] pl.kind = "plain"                                 -> "refuse"
      [] pl.type = "BINDER"                                -> "spin"
      [] pl.type = "HANDLE" /\ Found(p, pl.cookie, pl.binder) -> "spin"
      [] OTHER                                             -> "send"
WriteObjs(p, pl) ==
    IF pl.kind = "obj" /\ pl.type = "BINDER"
    THEN [objs EXCEPT ![p] = Intern(p, p, pl.binder, pl.cookie)] ELSE objs

(* bcmd_read_flat_obj, repeated on one descriptor by the read loop: a      *)
(* HANDLE is interned with real_cookie uninitialised; one owned by this    *)
(* process turns into a BINDER and then fails with EFAULT; one with another *)
(* owner is accepted forever.  Any other type fails with EFAULT.            *)
ReadXlate(p, pl) ==
    CASE pl.kind # "obj"                            -> "ok"
      [] pl.type = "HANDLE" /\ pl.cookie # p        -> "spin"
      [] OTHER                                      -> "efault"
ReadObjs(p, pl) ==
    IF pl.kind = "obj" /\ pl.type = "HANDLE"
    THEN [objs EXCEPT ![p] = Intern(p, pl.cookie, pl.binder, Undef)] ELSE objs

(* Read-buffer words a decoded transaction takes: the aligned header        *)
(* (command word and transaction_data) and the data.                       *)
TxnWords(m) == 2 + (IF m.pl.kind = "none" THEN 0 ELSE 1)

ClearBits(x, m) == x - (x & m)

-----------------------------------------------------------------------------
Init ==
    /\ procq = [p \in Procs |-> <<>>]
    /\ tq = [t \in Threads |-> <<>>]
    /\ incoming = [t \in Threads |-> <<>>]
    /\ pending = [t \in Threads |-> 0]
    \* binder_new_thread never initialises thread->state (kmalloc)
    /\ state \in [Threads -> StateGarbage]
    /\ pc = [t \in Threads |-> "user"]
    /\ rsz = [t \in Threads |-> 0]
    /\ out = [t \in Threads |-> <<>>]
    /\ held = [t \in Threads |-> NULL]
    /\ sent = [t \in Threads |-> 0]
    /\ objs = [p \in Procs |-> [k \in {} |-> Undef]]
    /\ notifiers = [p \in Procs |-> [b \in NotifyBinders |-> <<>>]]
    /\ numLoopers = [p \in Procs |-> 0]
    /\ pendingLoopers = [p \in Procs |-> 0]
    /\ maxThreads = [p \in Procs |-> 0]
    /\ procState = [p \in Procs |-> "open"]
    /\ ctxMgr = NULL /\ ctxUid = -1
    /\ ctxRet = "NONE"
    /\ oops = {}

(* A thread in userspace, free to issue an ioctl on its open descriptor.    *)
Idle(t) == procState[ProcOf[t]] = "open" /\ pc[t] = "user"

(* The command failed in-band: thread->last_error = err.  No code reads     *)
(* last_error (binder_thread_write's "if (err) {}" is empty), so the model  *)
(* does not keep it and the step changes nothing the driver uses.           *)
Failed(t, err) == UNCHANGED vars

(* The write or read loop keeps translating the same descriptor.            *)
Spin(t) == pc' = [pc EXCEPT ![t] = "spin"]

(* A mutant of OweReply: the TF_ONE_WAY test inverted.                     *)
OweReplyInverted(t, ow) ==
    IF ow THEN [pending EXCEPT ![t] = @ + 1] ELSE pending

(* thread->pending_replies++ after a BC_TRANSACTION without TF_ONE_WAY.    *)
OweReply(t, ow) ==
    IF ow THEN pending ELSE [pending EXCEPT ![t] = @ + 1]

(* bcmd_write_transaction's target: handle 0 is context_mgr_obj, any other  *)
(* handle is looked up with binder_find_obj (owner = the caller's queue).   *)
(* The message goes to the object's owner queue.                            *)
Target(p, h) == IF h = 0 THEN ctxMgr # NULL ELSE Found(p, p, h)
Dest(p, h) == IF h = 0 THEN ctxMgr[1] ELSE p

(* bcmd_write_msg to the queue of a released process: the stored pointer   *)
(* names a freed msg_queue; the write is modelled as failing.               *)
Open(q) == procState[QueueProc(q)] = "open"

(* BC_TRANSACTION (bcmd_write_transaction).                                 *)
Transaction(t, h, ow, pl) ==
    LET p == ProcOf[t]
        d == Dest(p, h)
    IN
    /\ Idle(t)
    /\ \/ ~Target(p, h) /\ Failed(t, "BR_FAILED_REPLY")
       \/ Target(p, h) /\ WriteXlate(p, pl) = "refuse"
          /\ Failed(t, "BR_FAILED_REPLY")
       \/ /\ Target(p, h) /\ WriteXlate(p, pl) = "spin"
          /\ Spin(t)
          /\ objs' = WriteObjs(p, pl)
          /\ UNCHANGED <<tq, incoming, pending, state, rsz, out,
                         held, sent, procq, notifiers, numLoopers,
                         pendingLoopers, maxThreads, procState, ctxMgr,
                         ctxUid, ctxRet, oops>>
       \/ /\ Target(p, h) /\ WriteXlate(p, pl) = "send" /\ Open(d)
          /\ sent[t] < SendBound
          /\ procq' = [procq EXCEPT ![d] = Append(@,
                 Msg("BC_TRANSACTION", <<t, sent[t] + 1>>, ow,
                     IF ow THEN NULL ELSE t, IF h = 0 THEN NULL ELSE h,
                     pl, NULL))]
          /\ pending' = OweReply(t, ow)
          /\ sent' = [sent EXCEPT ![t] = @ + 1]
          /\ pc' = [pc EXCEPT ![t] = "complete"]
          /\ UNCHANGED <<tq, incoming, state, rsz, out, held, objs,
                         notifiers, numLoopers, pendingLoopers, maxThreads,
                         procState, ctxMgr, ctxUid, ctxRet, oops>>
       \/ /\ Target(p, h) /\ WriteXlate(p, pl) = "send" /\ ~Open(d)
          /\ oops' = oops \cup {"stale queue"}
          /\ UNCHANGED <<tq, incoming, pending, state, pc, rsz, out, held,
                         sent, procVars, ctxMgr, ctxUid, ctxRet>>

(* BC_REPLY (bcmd_write_transaction) as written: the top incoming          *)
(* transaction is popped and reallocated, then obj_id_init(&msg->obj_id,    *)
(* NULL, NULL) reads proc->queue through the NULL proc (line 140): the      *)
(* kernel oopses and kills the replying thread inside the ioctl.  The       *)
(* popped request is on no queue any more and no reply is sent.             *)
Reply(t, pl) ==
    /\ Idle(t)
    /\ \/ incoming[t] = <<>> /\ Failed(t, "BR_FAILED_REPLY")
       \/ /\ incoming[t] # <<>>
          /\ incoming' = [incoming EXCEPT ![t] = Tail(@)]
          /\ pc' = [pc EXCEPT ![t] = "oops"]
          /\ oops' = oops \cup {"null deref"}
          /\ UNCHANGED <<tq, pending, state, rsz, out, held, sent, procVars,
                         ctxMgr, ctxUid, ctxRet>>

(* BC_REPLY with obj_id_init's evident intent, an obj_id of (NULL, NULL):   *)
(* the reused message goes to the saved reply_queue.  The popped            *)
(* transaction is freed when the reply fails.                               *)
ReplyFixed(t, pl) ==
    LET p == ProcOf[t]
        x == Head(incoming[t])
    IN
    /\ Idle(t)
    /\ \/ incoming[t] = <<>> /\ Failed(t, "BR_FAILED_REPLY")
       \/ /\ incoming[t] # <<>>
          /\ incoming' = [incoming EXCEPT ![t] = Tail(@)]
          /\ \/ /\ WriteXlate(p, pl) = "refuse"
                /\ UNCHANGED <<tq, pc, objs, oops>>
             \/ /\ WriteXlate(p, pl) = "spin"
                /\ Spin(t)
                /\ objs' = WriteObjs(p, pl)
                /\ UNCHANGED <<tq, oops>>
             \/ /\ WriteXlate(p, pl) = "send" /\ Open(x.reply)
                /\ tq' = [tq EXCEPT ![x.reply] = Append(@,
                       [x EXCEPT !.type = "BC_REPLY", !.pl = pl, !.obj = NULL,
                                 !.oneway = FALSE, !.reply = t])]
                /\ pc' = [pc EXCEPT ![t] = "complete"]
                /\ UNCHANGED <<objs, oops>>
             \/ /\ WriteXlate(p, pl) = "send" /\ ~Open(x.reply)
                /\ oops' = oops \cup {"stale queue"}
                /\ UNCHANGED <<tq, pc, objs>>
          /\ UNCHANGED <<pending, state, rsz, out, held, sent, procq,
                         notifiers, numLoopers, pendingLoopers, maxThreads,
                         procState, ctxMgr, ctxUid, ctxRet>>

(* The tail of bcmd_write_transaction: BR_TRANSACTION_COMPLETE goes on the  *)
(* caller's own inbox after the message itself was enqueued.                *)
Complete(t) ==
    /\ pc[t] = "complete"
    /\ tq' = [tq EXCEPT ![t] = Append(@,
                 Msg("BR_TRANSACTION_COMPLETE", NULL, FALSE, NULL, NULL,
                     NoData, NULL))]
    /\ pc' = [pc EXCEPT ![t] = "user"]
    /\ UNCHANGED <<incoming, pending, state, rsz, out, held, sent,
                   procVars, ctxMgr, ctxUid, ctxRet, oops>>

(* BC_REQUEST/CLEAR_DEATH_NOTIFICATION (bcmd_write_notifier): the binder is *)
(* looked up among the caller's own objects only, and the request goes to  *)
(* that object's owner queue, which is the caller's own process queue.      *)
Notifier(t, cmd, b, c) ==
    LET p == ProcOf[t] IN
    /\ Idle(t)
    /\ \/ ~Found(p, p, b) /\ Failed(t, "BR_FAILED_REPLY")
       \/ /\ Found(p, p, b) /\ sent[t] < SendBound
          /\ procq' = [procq EXCEPT ![p] = Append(@,
                 Msg(cmd, NULL, FALSE, p, b, NoData, c))]
          /\ sent' = [sent EXCEPT ![t] = @ + 1]
          /\ UNCHANGED <<tq, incoming, pending, state, pc, rsz, out,
                         held, objs, notifiers, numLoopers, pendingLoopers,
                         maxThreads, procState, ctxMgr, ctxUid, ctxRet,
                         oops>>

(* bcmd_write_looper: the thread's state bits change, and the process's    *)
(* counters move by dn and dp under proc->lock.                             *)
LooperStep(t, st, dn, dp) ==
    LET p == ProcOf[t] IN
    /\ -LooperBound <= numLoopers[p] + dn
    /\ numLoopers[p] + dn <= LooperBound
    /\ -LooperBound <= pendingLoopers[p] + dp
    /\ pendingLoopers[p] + dp <= LooperBound
    /\ state' = [state EXCEPT ![t] = st]
    /\ numLoopers' = [numLoopers EXCEPT ![p] = @ + dn]
    /\ pendingLoopers' = [pendingLoopers EXCEPT ![p] = @ + dp]
    /\ UNCHANGED <<procq, tq, incoming, pending, pc, rsz, out, held,
                   sent, objs, notifiers, maxThreads, procState, ctxMgr,
                   ctxUid, ctxRet, oops>>

EnteredBit == 2     \* BINDER_LOOPER_STATE_ENTERED

(* BC_ENTER_LOOPER *)
EnterLooper(t) ==
    /\ Idle(t)
    /\ \/ (state[t] & LooperActive) # 0 /\ Failed(t, "BR_FAILED_REPLY")
       \/ /\ (state[t] & LooperActive) = 0
          /\ LooperStep(t, state[t] | EnteredBit, 1, 0)

(* BC_EXIT_LOOPER: clears the ACTIVE bits, not ENTERED.                     *)
ExitLooper(t) ==
    /\ Idle(t)
    /\ \/ (state[t] & EnteredBit) = 0 /\ Failed(t, "BR_FAILED_REPLY")
       \/ /\ (state[t] & EnteredBit) # 0
          /\ LooperStep(t, ClearBits(state[t], LooperActive), -1, 0)

(* BC_REGISTER_LOOPER: pending_loopers-- and no state bit is set.           *)
RegisterLooper(t) ==
    /\ Idle(t)
    /\ \/ (state[t] & LooperActive) # 0 /\ Failed(t, "BR_FAILED_REPLY")
       \/ (state[t] & LooperActive) = 0 /\ LooperStep(t, state[t], 0, -1)

(* BINDER_SET_MAX_THREADS (cmd_set_max_threads).                            *)
SetMaxThreads(t, n) ==
    /\ Idle(t)
    /\ maxThreads' = [maxThreads EXCEPT ![ProcOf[t]] = n]
    /\ UNCHANGED <<thrVars, procq, objs, notifiers, numLoopers,
                   pendingLoopers, procState, ctxMgr, ctxUid, ctxRet,
                   oops>>

(* The tail of cmd_set_context_mgr: the uid check, then                     *)
(* context_mgr_obj = binder_new_obj(proc, NULL), the object (p, NULL) of    *)
(* the caller's registry (an existing one is returned as it is).            *)
ClaimContextMgr(t, u) ==
    LET p == ProcOf[t] IN
    \/ /\ ctxUid # -1 /\ ctxUid # u
       /\ ctxRet' = "EPERM"
       /\ UNCHANGED <<ctxMgr, ctxUid, objs>>
    \/ /\ ctxUid \in {-1, u}
       /\ ctxUid' = u
       /\ objs' = [objs EXCEPT ![p] = Intern(p, p, NULL, NULL)]
       /\ ctxMgr' = <<p, NULL>>
       /\ ctxRet' = "SUCCESS"

(* BINDER_SET_CONTEXT_MGR as written: if (!context_mgr_obj) return -EBUSY.  *)
SetContextMgr(t, u) ==
    /\ Idle(t)
    /\ \/ ctxMgr = NULL /\ ctxRet' = "EBUSY"
                        /\ UNCHANGED <<ctxMgr, ctxUid, objs>>
       \/ ctxMgr # NULL /\ ClaimContextMgr(t, u)
    /\ UNCHANGED <<thrVars, procq, notifiers, numLoopers, pendingLoopers,
                   maxThreads, procState, oops>>

(* The evident intent of that test (EBUSY once a manager is set); the one  *)
(* deviation from the code, used to reach the rest of the driver.           *)
SetContextMgrFixed(t, u) ==
    /\ Idle(t)
    /\ \/ ctxMgr # NULL /\ ctxRet' = "EBUSY"
                        /\ UNCHANGED <<ctxMgr, ctxUid, objs>>
       \/ ctxMgr = NULL /\ ClaimContextMgr(t, u)
    /\ UNCHANGED <<thrVars, procq, notifiers, numLoopers, pendingLoopers,
                   maxThreads, procState, oops>>

-----------------------------------------------------------------------------
(* binder_thread_read.  The read is a loop of steps of the reading thread; *)
(* rsz is the buffer space left, in command words, out what was put there. *)

(* A mutant of ReadQueue: pending replies no longer pin the thread queue.   *)
ReadQueueNoPending(t) ==
    IF tq[t] # <<>> THEN t ELSE ProcOf[t]

(* The queue the loop reads: the thread's own while it has messages or     *)
(* owes replies to itself, otherwise the process queue.                     *)
ReadQueue(t) ==
    IF tq[t] # <<>> \/ pending[t] # 0 THEN t ELSE ProcOf[t]

Item(cmd, id) == [cmd |-> cmd, id |-> id]

(* bcmd_spawn_on_busy, then the loop.  With more than one message on the   *)
(* process queue it returns sizeof(cmd) whether or not it wrote            *)
(* BR_SPAWN_LOOPER (no room under max_threads leaves the word unwritten).   *)
StartRead(t, rs) ==
    LET p == ProcOf[t]
        room == numLoopers[p] + pendingLoopers[p] < maxThreads[p]
    IN
    /\ Idle(t)
    /\ pc' = [pc EXCEPT ![t] = "read"]
    /\ \/ /\ Len(procq[p]) <= 1
          /\ rsz' = [rsz EXCEPT ![t] = rs]
          /\ UNCHANGED <<out, pendingLoopers>>
       \/ /\ Len(procq[p]) > 1 /\ room /\ pendingLoopers[p] < LooperBound
          /\ out' = [out EXCEPT ![t] = <<Item("BR_SPAWN_LOOPER", NULL)>>]
          /\ rsz' = [rsz EXCEPT ![t] = rs - 1]
          /\ pendingLoopers' = [pendingLoopers EXCEPT ![p] = @ + 1]
       \/ /\ Len(procq[p]) > 1 /\ ~room
          /\ out' = [out EXCEPT ![t] = <<Item("UNWRITTEN", NULL)>>]
          /\ rsz' = [rsz EXCEPT ![t] = rs - 1]
          /\ UNCHANGED pendingLoopers
    /\ UNCHANGED <<tq, incoming, pending, state, held, sent, procq,
                   objs, notifiers, numLoopers, maxThreads, procState, ctxMgr,
                   ctxUid, ctxRet, oops>>

(* The buffer is full: return p - buf.                                      *)
ReadReturn(t) ==
    /\ pc[t] = "read" /\ rsz[t] = 0
    /\ pc' = [pc EXCEPT ![t] = "user"]
    /\ out' = [out EXCEPT ![t] = <<>>]
    /\ UNCHANGED <<tq, incoming, pending, state, rsz, held, sent,
                   procVars, ctxMgr, ctxUid, ctxRet, oops>>

(* The read returns an error: what it already put in the buffer is never  *)
(* reported (read_consumed is not advanced); a message the caller took off  *)
(* its queue for this pass is freed with it.                               *)
ReadFails(t) ==
    /\ pc' = [pc EXCEPT ![t] = "user"]
    /\ out' = [out EXCEPT ![t] = <<>>]
    /\ rsz' = [rsz EXCEPT ![t] = 0]

(* The chosen queue is empty: read_msg_queue blocks, or fails at once on a *)
(* non-blocking descriptor.                                                 *)
ReadEmpty(t) ==
    /\ pc[t] = "read" /\ rsz[t] > 0 /\ NonBlock
    /\ Queue(ReadQueue(t)) = <<>>
    /\ ReadFails(t)
    /\ UNCHANGED <<tq, incoming, pending, state, held, sent,
                   procVars, ctxMgr, ctxUid, ctxRet, oops>>

(* Take the head of the read queue; the remaining actions dispatch on it.   *)
Taking(t) == pc[t] = "read" /\ rsz[t] > 0 /\ Queue(ReadQueue(t)) # <<>>
Taken(t) == Head(Queue(ReadQueue(t)))
PopRead(t) == SetQueue(ReadQueue(t), Tail(Queue(ReadQueue(t))))

(* A mutant of Fits: the ENOSPC test off by one word.                      *)
FitsOffByOne(t, m) == TxnWords(m) <= rsz[t] + 1

(* data_off + data_size > size fails with -ENOSPC.                          *)
Fits(t, m) == TxnWords(m) <= rsz[t]

(* A mutant of IsSyncTxn: the TF_ONE_WAY test dropped.                     *)
IsSyncTxnAnyTxn(m) == m.type = "BC_TRANSACTION"

(* A BC_TRANSACTION without / with TF_ONE_WAY.                             *)
IsSyncTxn(m) == m.type = "BC_TRANSACTION" /\ ~m.oneway
IsOneWayTxn(m) == m.type = "BC_TRANSACTION" /\ m.oneway

(* BC_TRANSACTION / BC_REPLY (bcmd_read_transaction).  ENOSPC keeps the   *)
(* message aside to be put back; a sync transaction is pushed on           *)
(* incoming_transactions; a reply settles one pending reply.               *)
ReadTransaction(t) ==
    LET p == ProcOf[t]
        m == Taken(t)
    IN
    /\ Taking(t) /\ m.type \in {"BC_TRANSACTION", "BC_REPLY"}
    /\ PopRead(t)
    /\ \/ /\ ~Fits(t, m)
          /\ held' = [held EXCEPT ![t] = <<ReadQueue(t), m>>]
          /\ pc' = [pc EXCEPT ![t] = "rehead"]
          /\ UNCHANGED <<incoming, pending, rsz, out, objs>>
       \/ /\ Fits(t, m) /\ ReadXlate(p, m.pl) = "efault"
          /\ objs' = ReadObjs(p, m.pl)
          /\ ReadFails(t)
          /\ UNCHANGED <<incoming, pending, held>>
       \/ /\ Fits(t, m) /\ ReadXlate(p, m.pl) = "spin"
          /\ objs' = ReadObjs(p, m.pl)
          /\ Spin(t)
          /\ UNCHANGED <<incoming, pending, rsz, out, held>>
       \/ /\ Fits(t, m) /\ ReadXlate(p, m.pl) = "ok"
          /\ out' = [out EXCEPT ![t] = Append(@, Item(
                 IF m.type = "BC_TRANSACTION" THEN "BR_TRANSACTION"
                 ELSE "BR_REPLY", m.id))]
          /\ rsz' = [rsz EXCEPT ![t] = @ - TxnWords(m)]
          /\ incoming' =
                 IF IsSyncTxn(m)
                 THEN [incoming EXCEPT ![t] = <<m>> \o @] ELSE incoming
          /\ pending' =
                 IF m.type = "BC_REPLY" /\ pending[t] > 0
                 THEN [pending EXCEPT ![t] = @ - 1] ELSE pending
          /\ UNCHANGED <<pc, held, objs>>
    /\ UNCHANGED <<state, sent, notifiers, numLoopers,
                   pendingLoopers, maxThreads, procState, ctxMgr, ctxUid,
                   ctxRet, oops>>

(* A mutant of Rehead: the put-back continues the loop instead of breaking *)
(* out of it, so the reader takes the same message again.                  *)
ReheadContinue(t) ==
    /\ pc[t] = "rehead"
    /\ SetQueue(held[t][1], <<held[t][2]>> \o Queue(held[t][1]))
    /\ held' = [held EXCEPT ![t] = NULL]
    /\ pc' = [pc EXCEPT ![t] = "read"]
    /\ UNCHANGED <<out, rsz, incoming, pending, state, sent, objs, notifiers,
                   numLoopers, pendingLoopers, maxThreads, procState, ctxMgr,
                   ctxUid, ctxRet, oops>>

(* ENOSPC: put the message back at the head of the queue it came from and  *)
(* return; other threads may have read or written that queue meanwhile.    *)
Rehead(t) ==
    /\ pc[t] = "rehead"
    /\ SetQueue(held[t][1], <<held[t][2]>> \o Queue(held[t][1]))
    /\ held' = [held EXCEPT ![t] = NULL]
    /\ pc' = [pc EXCEPT ![t] = "user"]
    /\ out' = [out EXCEPT ![t] = <<>>]
    /\ rsz' = [rsz EXCEPT ![t] = 0]
    /\ UNCHANGED <<incoming, pending, state, sent, objs, notifiers,
                   numLoopers, pendingLoopers, maxThreads, procState, ctxMgr,
                   ctxUid, ctxRet, oops>>

(* BC_REQUEST/CLEAR_DEATH_NOTIFICATION (bcmd_read_notifier).  The object   *)
(* is the reader's own (only its own threads post to its process queue,    *)
(* and objects live until release), so the EFAULT of a failed lookup is    *)
(* not reachable.  A request appends a notifier and writes nothing; a clear *)
(* removes the first notifier with the same cookie and notify_queue and    *)
(* writes BR_CLEAR_DEATH_NOTIFICATION_DONE, or does nothing.                *)
NotifierIs(m, n) == n.cookie = m.cookie /\ n.queue = m.reply
ReadNotifier(t) ==
    LET p == ProcOf[t]
        m == Taken(t)
        ns == notifiers[p][m.obj]
        match == \E i \in DOMAIN ns : NotifierIs(m, ns[i])
    IN
    /\ Taking(t)
    /\ m.type \in {"BC_REQUEST_DEATH_NOTIFICATION",
                   "BC_CLEAR_DEATH_NOTIFICATION"}
    /\ Found(p, p, m.obj)
    /\ PopRead(t)
    /\ \/ /\ m.type = "BC_REQUEST_DEATH_NOTIFICATION"
          /\ notifiers' = [notifiers EXCEPT ![p][m.obj] =
                              Append(@, [cookie |-> m.cookie, queue |-> m.reply])]
          /\ UNCHANGED <<out, rsz>>
       \/ /\ m.type = "BC_CLEAR_DEATH_NOTIFICATION" /\ match
          /\ notifiers' = [notifiers EXCEPT ![p][m.obj] =
                              RemoveFirstMatch(@, LAMBDA n : NotifierIs(m, n))]
          /\ out' = [out EXCEPT ![t] =
                        Append(@, Item("BR_CLEAR_DEATH_NOTIFICATION_DONE", NULL))]
          /\ rsz' = [rsz EXCEPT ![t] = @ - 1]
       \/ /\ m.type = "BC_CLEAR_DEATH_NOTIFICATION" /\ ~match
          /\ UNCHANGED <<notifiers, out, rsz>>
    /\ UNCHANGED <<incoming, pending, state, pc, held, sent, objs,
                   numLoopers, pendingLoopers, maxThreads, procState, ctxMgr,
                   ctxUid, ctxRet, oops>>

(* case BR_DEAD_BINDER (bcmd_read_dead_binder): reached by the BC_DEAD_BINDER *)
(* messages release writes only if the two tags have the same value.  It  *)
(* writes BR_DEAD_BINDER and leaves pending_replies as it is.               *)
ReadDeadBinder(t) ==
    /\ Taking(t) /\ DeadTagsEqual /\ Taken(t).type = "BC_DEAD_BINDER"
    /\ PopRead(t)
    /\ out' = [out EXCEPT ![t] = Append(@, Item("BR_DEAD_BINDER", NULL))]
    /\ rsz' = [rsz EXCEPT ![t] = @ - 1]
    /\ UNCHANGED <<incoming, pending, state, pc, held, sent, objs,
                   notifiers, numLoopers, pendingLoopers, maxThreads,
                   procState, ctxMgr, ctxUid, ctxRet, oops>>

(* default: the message is freed and the read returns -EFAULT.  This is    *)
(* what happens to every BR_TRANSACTION_COMPLETE the write side queues.     *)
Unhandled == {"BR_TRANSACTION_COMPLETE"} \cup
             (IF DeadTagsEqual THEN {} ELSE {"BC_DEAD_BINDER"})
ReadUnknown(t) ==
    /\ Taking(t) /\ Taken(t).type \in Unhandled
    /\ PopRead(t)
    /\ ReadFails(t)
    /\ UNCHANGED <<incoming, pending, state, held, sent, objs,
                   notifiers, numLoopers, pendingLoopers, maxThreads,
                   procState, ctxMgr, ctxUid, ctxRet, oops>>

-----------------------------------------------------------------------------
(* binder_release (binder_free_proc), once no thread of p is inside an     *)
(* ioctl.  free_msg_queue hands every queued message to free_queued_msg:   *)
(* a BC_TRANSACTION becomes BC_DEAD_BINDER and goes to its reply_queue,    *)
(* where a one-way one (reply_queue NULL) hits BUG_ON; the rest is freed.  *)
(* binder_free_thread does the same to every incoming transaction, thread  *)
(* by thread in pid order (ord): a call diverted to a thread of p freed    *)
(* earlier in that order is written to a freed queue, one diverted to a   *)
(* thread freed later is freed with it.  Every death notifier of an owned  *)
(* object is then written to its notify_queue, which is always p's own     *)
(* queue, freed by then; that write fails, so the message is reused and    *)
(* only the first kmalloc can fail (nomem): binder_free_proc then returns  *)
(* -ENOMEM with proc->lock held and proc never freed.  context_mgr_obj     *)
(* keeps pointing at p's freed object.                                      *)
RepliesTo(m, r) == m.reply = r
Dead(m) == [m EXCEPT !.type = "BC_DEAD_BINDER"]
ThreadsOf(p) == {t \in Threads : ProcOf[t] = p}
HasNotifiers(p) == \E b \in NotifyBinders : notifiers[p][b] # <<>>
(* A call on ord[j]'s incoming stack whose caller ord[i] was freed first.   *)
FreedFirst(ord) ==
    \E i, j \in 1..Len(ord) :
        /\ i < j
        /\ \E k \in DOMAIN incoming[ord[j]] : RepliesTo(incoming[ord[j]][k], ord[i])

Release(p) ==
    /\ procState[p] = "open"
    /\ \A t \in ThreadsOf(p) : pc[t] = "user"
    /\ \/ /\ \E i \in DOMAIN procq[p] : IsOneWayTxn(procq[p][i])
          /\ procState' = [procState EXCEPT ![p] = "bug"]
          /\ UNCHANGED <<thrVars, procq, objs, notifiers, numLoopers,
                         pendingLoopers, maxThreads, ctxMgr, ctxUid, ctxRet,
                         oops>>
       \/ /\ \A i \in DOMAIN procq[p] : ~IsOneWayTxn(procq[p][i])
          /\ \E ord \in SetToSeqs(ThreadsOf(p)), nomem \in BOOLEAN :
             LET dv == SelectSeq(procq[p], LAMBDA m : IsSyncTxn(m))
                       \o FlattenSeq([i \in 1..Len(ord) |-> incoming[ord[i]]])
                 To(r) == [i \in 1..Len(SelectSeq(dv, LAMBDA m : RepliesTo(m, r)))
                             |-> Dead(SelectSeq(dv, LAMBDA m : RepliesTo(m, r))[i])]
                 stale == \/ \E i \in DOMAIN dv :
                                 /\ QueueProc(dv[i].reply) # p
                                 /\ ~Open(dv[i].reply)
                          \/ FreedFirst(ord)
                          \/ ~nomem /\ HasNotifiers(p)
             IN
             /\ nomem => HasNotifiers(p)
             /\ tq' = [t \in Threads |->
                         IF ProcOf[t] = p THEN <<>>
                         ELSE IF Open(t) THEN tq[t] \o To(t) ELSE tq[t]]
             /\ oops' = IF stale THEN oops \cup {"stale queue"} ELSE oops
             /\ procState' = [procState EXCEPT ![p] =
                                 IF nomem THEN "enomem" ELSE "released"]
          /\ procq' = [procq EXCEPT ![p] = <<>>]
          /\ incoming' = [t \in Threads |->
                            IF ProcOf[t] = p THEN <<>> ELSE incoming[t]]
          /\ objs' = [objs EXCEPT ![p] = [k \in {} |-> Undef]]
          /\ notifiers' = [notifiers EXCEPT ![p] =
                              [b \in NotifyBinders |-> <<>>]]
          /\ UNCHANGED <<pending, state, pc, rsz, out, held, sent,
                         numLoopers, pendingLoopers, maxThreads, ctxMgr,
                         ctxUid, ctxRet>>

-----------------------------------------------------------------------------
(* One ioctl step of thread t, other than BINDER_SET_CONTEXT_MGR.           *)
ThreadStep(t) ==
    \/ \E h \in {0} \cup Binders, ow \in BOOLEAN, pl \in Payloads :
          Transaction(t, h, ow, pl)
    \/ Complete(t)
    \/ \E cmd \in {"BC_REQUEST_DEATH_NOTIFICATION",
                   "BC_CLEAR_DEATH_NOTIFICATION"},
          b \in NotifyBinders, c \in Cookies : Notifier(t, cmd, b, c)
    \/ EnterLooper(t) \/ ExitLooper(t) \/ RegisterLooper(t)
    \/ \E n \in MaxThreadsVals : SetMaxThreads(t, n)
    \/ \E rs \in ReadSizes : StartRead(t, rs)
    \/ ReadReturn(t) \/ ReadEmpty(t) \/ ReadTransaction(t) \/ Rehead(t)
    \/ ReadNotifier(t) \/ ReadDeadBinder(t) \/ ReadUnknown(t)

(* The driver as written. *)
Next ==
    \/ \E t \in Threads : ThreadStep(t)
    \/ \E t \in Threads, pl \in Payloads : Reply(t, pl)
    \/ \E t \in Threads, u \in Uids : SetContextMgr(t, u)
    \/ \E p \in Procs : Release(p)
Spec == Init /\ [][Next]_vars

(* The driver with SET_CONTEXT_MGR's test corrected, so that handle 0      *)
(* names a process and transactions flow.                                   *)
NextFixedCM ==
    \/ \E t \in Threads : ThreadStep(t)
    \/ \E t \in Threads, pl \in Payloads : Reply(t, pl)
    \/ \E t \in Threads, u \in Uids : SetContextMgrFixed(t, u)
    \/ \E p \in Procs : Release(p)
SpecFixedCM == Init /\ [][NextFixedCM]_vars

(* The driver with BC_REPLY's obj_id_init corrected as well, so that       *)
(* replies reach their callers.  It only adds behaviours to SpecFixedCM     *)
(* (the oops leaves a request popped and nothing sent, as a refused reply   *)
(* does), so the safety runs use it; the liveness runs do not.              *)
NextFixed ==
    \/ \E t \in Threads : ThreadStep(t)
    \/ \E t \in Threads, pl \in Payloads : ReplyFixed(t, pl)
    \/ \E t \in Threads, u \in Uids : SetContextMgrFixed(t, u)
    \/ \E p \in Procs : Release(p)
SpecFixed == Init /\ [][NextFixed]_vars

(* Fairness.  Once a thread is inside the ioctl, the kernel runs it on:    *)
(* the TR_COMPLETE tail of bcmd_write_transaction and each iteration of    *)
(* binder_thread_read's loop are eventually taken while they stay enabled. *)
(* A reader blocked in read_msg_queue on an empty queue is not enabled.    *)
(* Userspace calls (sends, replies, the start of a read, SET_* commands,   *)
(* close) get no fairness: a program may stop making them.                 *)
KernelStep(t) ==
    \/ Complete(t) \/ ReadReturn(t) \/ ReadEmpty(t) \/ ReadTransaction(t)
    \/ Rehead(t) \/ ReadNotifier(t) \/ ReadDeadBinder(t) \/ ReadUnknown(t)
Fairness == \A t \in Threads : WF_vars(KernelStep(t))
FairSpecFixedCM == SpecFixedCM /\ Fairness

-----------------------------------------------------------------------------
(* Properties. *)

MaxRead == CHOOSE r \in ReadSizes : \A s \in ReadSizes : s <= r

TypeOK ==
    /\ procq \in [Procs -> Seq(Messages)]
    /\ tq \in [Threads -> Seq(Messages)]
    /\ incoming \in [Threads -> Seq(Messages)]
    /\ pending \in [Threads -> 0..SendBound]
    /\ state \in [Threads -> 0..3]
    /\ pc \in [Threads -> {"user", "complete", "spin", "read", "rehead", "oops"}]
    /\ rsz \in [Threads -> 0..MaxRead]
    /\ out \in [Threads -> Seq(OutItems)]
    /\ held \in [Threads -> {NULL} \cup (Queues \X Messages)]
    /\ sent \in [Threads -> 0..SendBound]
    /\ \A p \in Procs :
          /\ DOMAIN objs[p] \subseteq Owners \X (Binders \cup {NULL})
          /\ \A k \in DOMAIN objs[p] : objs[p][k] \in Cookies \cup {NULL, Undef}
    /\ notifiers \in [Procs -> [NotifyBinders ->
                         Seq([cookie : Cookies, queue : Queues])]]
    /\ numLoopers \in [Procs -> -LooperBound..LooperBound]
    /\ pendingLoopers \in [Procs -> -LooperBound..LooperBound]
    /\ maxThreads \in [Procs -> {0} \cup MaxThreadsVals]
    /\ procState \in [Procs -> {"open", "released", "bug", "enomem"}]
    /\ ctxMgr \in {NULL} \cup (Procs \X {NULL})
    /\ ctxUid \in Uids \cup {-1}
    /\ ctxRet \in {"NONE", "SUCCESS", "EBUSY", "EPERM"}
    /\ oops \subseteq {"stale queue", "null deref"}

Live(t) == procState[ProcOf[t]] = "open"

(* The messages in flight on t's behalf: its sync requests, the replies to *)
(* them and their BC_DEAD_BINDER substitutes, wherever they are queued,    *)
(* stacked or held aside.                                                   *)
OwedTo(m, t) ==
    /\ m.id # NULL /\ m.id[1] = t
    /\ \/ IsSyncTxn(m)
       \/ m.type \in {"BC_REPLY", "BC_DEAD_BINDER"}
CountIn(s, t) == Cardinality({i \in DOMAIN s : OwedTo(s[i], t)})
Owed(t) ==
    LET ins(q) == IF q \in Procs THEN CountIn(procq[q], t)
                  ELSE CountIn(tq[q], t) + CountIn(incoming[q], t)
                       + (IF held[q] = NULL THEN 0
                          ELSE CountIn(<<held[q][2]>>, t))
    IN MapThenSumSet(ins, {q \in Queues : procState[QueueProc(q)] = "open"})

(* ReplyAccounting: a thread's pending_replies never falls below the       *)
(* number of its synchronous calls still in flight.  pending_replies is    *)
(* raised in bcmd_write_transaction after the enqueue, lowered in          *)
(* bcmd_read_transaction on each BR_REPLY, and it is what pins the reader *)
(* to its own queue; were it low, a waiting caller would read the process *)
(* queue and take on new work while its answer is on the way.              *)
ReplyAccounting == \A t \in Threads : Live(t) => Owed(t) <= pending[t]

(* CallerNeverServesOwnCall: a thread never finds its own synchronous call *)
(* on its incoming_transactions stack.  binder_thread_read keeps a thread  *)
(* that owes replies on its thread queue, so even when its call goes to    *)
(* its own process (the context manager calling handle 0) another thread  *)
(* has to take it.                                                          *)
CallerNeverServesOwnCall ==
    \A t \in Threads : \A i \in DOMAIN incoming[t] : incoming[t][i].id[1] # t

(* NoOrphanedWait: a thread that owes itself replies has one on the way.   *)
(* A caller blocks on its thread queue while pending_replies > 0; if the   *)
(* call or its answer is dropped (a BC_REPLY oopses after popping the     *)
(* request, a read that fails frees what it took, BR_DEAD_BINDER leaves    *)
(* pending_replies as it was) the caller waits for ever.                   *)
NoOrphanedWait == \A t \in Threads : Live(t) => pending[t] <= Owed(t)

(* ContextMgrSettable: BINDER_SET_CONTEXT_MGR answers EBUSY only when a   *)
(* context manager is already set (cmd_set_context_mgr).                   *)
ContextMgrSettable ==
    ctxRet = "EBUSY" => ctxMgr # NULL

(* ReleaseCompletes: closing a binder descriptor always frees the process: *)
(* binder_free_proc neither hits the BUG_ON of free_queued_msg nor returns *)
(* -ENOMEM half way with proc->lock held.                                   *)
ReleaseCompletes == \A p \in Procs : procState[p] \in {"open", "released"}

(* TranslationTerminates: the flat-object loops of bcmd_write_msg_buf and  *)
(* bcmd_read_transaction always finish.                                     *)
TranslationTerminates == \A t \in Threads : pc[t] # "spin"

(* LooperCountsNonNegative: num_loopers and pending_loopers, as kept by    *)
(* bcmd_write_looper and bcmd_spawn_on_busy, never go negative.            *)
LooperCountsNonNegative ==
    \A p \in Procs : numLoopers[p] >= 0 /\ pendingLoopers[p] >= 0

(* MemorySafe: the driver never touches memory it does not own: no message *)
(* is written to the queue of a process binder_release has freed (through *)
(* a dangling context_mgr_obj, a reply_queue or a notify_queue), and no    *)
(* BC_REPLY dereferences the NULL proc of obj_id_init.                     *)
MemorySafe == oops = {}

(* DeliveredInOrder: messages on one queue reach readers in the order    *)
(* they were queued.  binder_thread_read takes the head, and on ENOSPC     *)
(* puts it back with bcmd_write_msg_head after the fact; no other reader   *)
(* of that queue may copy out a later message while the earlier one is     *)
(* held aside.                                                             *)
CopiesMessage(t) ==
    /\ Len(out'[t]) > Len(out[t])
    /\ out'[t][Len(out'[t])].cmd \in {"BR_TRANSACTION", "BR_REPLY"}
DeliveredInOrder ==
    [][\A t \in Threads :
          CopiesMessage(t) =>
             ~\E u \in Threads \ {t} : held[u] # NULL /\ held[u][1] = ReadQueue(t)
      ]_vars

(* IoctlReturns: on a non-blocking descriptor a thread in the TR_COMPLETE *)
(* tail of bcmd_write_transaction or in the read loop eventually returns   *)
(* to userspace (a BC_REPLY never gets there: it oopses at line 671, which *)
(* MemorySafe reports).  binder_thread_read's loop ends                    *)
(* only on a full buffer, an error (EAGAIN on an empty queue included) or *)
(* the break after the ENOSPC put-back; a loop that took the put-back     *)
(* message again would never end.                                         *)
IoctlReturns ==
    \A t \in Threads : pc[t] \in {"complete", "read", "rehead"} ~> pc[t] = "user"

(* A transaction or reply the current read has already copied out.         *)
HasCopied(t) == \E i \in DOMAIN out[t] : out[t][i].cmd \in {"BR_TRANSACTION", "BR_REPLY"}

(* ReadWithDataReturns: a read that has copied a BR_TRANSACTION or BR_REPLY *)
(* into the buffer eventually returns it to userspace.  The loop of        *)
(* binder_thread_read goes on reading while size >= 4, so on a blocking   *)
(* descriptor it sleeps in read_msg_queue with the copied work in hand.    *)
ReadWithDataReturns ==
    \A t \in Threads : (pc[t] = "read" /\ HasCopied(t)) ~> pc[t] = "user"

-----------------------------------------------------------------------------
(* Refinement of BinderCall.  A call is an id; its status is read off the *)
(* message that carries it, wherever that is.                              *)
MsgStatus(m) ==
    CASE IsOneWayTxn(m)       -> "oneway"
      [] IsSyncTxn(m)         -> "queued"
      [] m.type = "BC_REPLY"  -> "answered"
      [] OTHER                -> "dead"
Carriers(c) ==
    LET In(s) == {MsgStatus(s[i]) : i \in {j \in DOMAIN s : s[j].id = c}}
    IN  UNION {In(procq[p]) : p \in Procs}
        \cup UNION {In(tq[t]) : t \in Threads}
        \cup UNION {In(IF held[t] = NULL THEN <<>> ELSE <<held[t][2]>>)
                    : t \in Threads}
        \cup {"serving" : t \in {u \in Threads :
                                  \E i \in DOMAIN incoming[u] :
                                     incoming[u][i].id = c}}
CallStatus ==
    [c \in Ids |->
        IF sent[c[1]] < c[2] THEN "idle"
        ELSE IF Carriers(c) = {} THEN "done"
        ELSE CHOOSE s \in Carriers(c) : TRUE]

Call == INSTANCE BinderCall WITH Calls <- Ids, status <- CallStatus

(* CallLifecycle: the driver implements BinderCall.  Every call moves only *)
(* forward through queued, served, answered or dead, and done: a one-way  *)
(* call is never pushed on incoming_transactions, a reply is never sent   *)
(* for a call no thread popped, release kills only unanswered synchronous *)
(* calls, and no call ever comes back after it is gone (a message put back *)
(* or duplicated by the read loop, the reply path or release would).      *)
CallLifecycle == Call!Spec
=============================================================================
