--------------------------- MODULE WebhookOutbox ----------------------------
(***************************************************************************)
(* The webhook outbox of gr-probe-plane (webhook_outbox.rs) with its       *)
(* durable directory: pending and dead-letter queues in the memory of each *)
(* process, two JSONL files that every change rewrites from memory, and    *)
(* drains that take items out, post them and put the failed ones back.     *)
(*                                                                         *)
(* Each process has a mutex around its queues, held while the files are    *)
(* rewritten; the rewrite is serialised between processes by a file lock.  *)
(* The two files are replaced one after the other.                         *)
(*                                                                         *)
(* Abstractions.  An item is its identity and its attempt count.  Which    *)
(* pending items are due when a drain looks is left open, and so are the   *)
(* max_n and max_attempts of the request.  A post answers 2xx or it fails  *)
(* (any other status, or an error).  The file lock is always obtained.     *)
(* mark_webhook_ok and mark_webhook_failed have no caller in the service   *)
(* and are left out.                                                       *)
(***************************************************************************)
EXTENDS Integers, Sequences, FiniteSets

CONSTANTS Proc,         \* processes that share the durable directory
          Enqueuer, Drainer,   \* request threads of each process
          MaxItems,
          MaxOutbox,    \* MAX_OUTBOX
          MaxDlq,       \* MAX_DLQ
          MaxN,         \* the largest max_n a request may ask for
          MaxAttempts,  \* the largest max_attempts a request may ask for
          MaxCrash, MaxDiskFail,   \* bounds
          None

Id == 1..MaxItems

Thread == Proc \X (Enqueuer \cup Drainer)

ASSUME ConstAssumption ==
    /\ MaxItems \in Nat /\ MaxOutbox \in Nat /\ MaxDlq \in Nat
    /\ MaxN \in Nat \ {0} /\ MaxAttempts \in Nat \ {0}
    /\ MaxCrash \in Nat /\ MaxDiskFail \in Nat
    /\ Enqueuer \cap Drainer = {}
    /\ IsFiniteSet(Proc) /\ IsFiniteSet(Drainer)
    /\ None \notin Proc /\ None \notin Id

VARIABLES
    up,             \* running processes
    pending, dlq,   \* the queues of each process
    filePending, fileDlq,   \* webhook_pending.jsonl, webhook_dlq.jsonl
    th,             \* what each thread is doing
    owner,          \* history: the process that took item i in, or None
    acked,          \* history: items whose enqueue has returned
    delivered,      \* history: items answered with 2xx
    dropped,        \* history: items the dead-letter limit discarded
    crashes, diskFails

vars == <<up, pending, dlq, filePending, fileDlq, th, owner, acked, delivered,
          dropped, crashes, diskFails>>

OutboxItem == [id : Id, attempts : 0..MaxAttempts]

(* hand holds the items a drain took and has not dealt with; then is where *)
(* the thread goes when the files have been rewritten.                     *)
ThreadType == [pc : {"idle", "post", "failed", "save_pending", "save_dlq"},
               hand : Seq(OutboxItem), item : Id \cup {None},
               then : {"idle", "post"}]

Idle == [pc |-> "idle", hand |-> <<>>, item |-> None, then |-> "idle"]

TypeOK ==
    /\ up \subseteq Proc
    /\ pending \in [Proc -> Seq(OutboxItem)]
    /\ dlq \in [Proc -> Seq(OutboxItem)]
    /\ filePending \in Seq(OutboxItem) /\ fileDlq \in Seq(OutboxItem)
    /\ th \in [Thread -> ThreadType]
    /\ owner \in [Id -> Proc \cup {None}]
    /\ acked \subseteq Id /\ delivered \subseteq Id /\ dropped \subseteq Id
    /\ crashes \in 0..MaxCrash /\ diskFails \in 0..MaxDiskFail

Init ==
    /\ up = Proc
    /\ pending = [p \in Proc |-> <<>>] /\ dlq = [p \in Proc |-> <<>>]
    /\ filePending = <<>> /\ fileDlq = <<>>
    /\ th = [t \in Thread |-> Idle]
    /\ owner = [i \in Id |-> None]
    /\ acked = {} /\ delivered = {} /\ dropped = {}
    /\ crashes = 0 /\ diskFails = 0

-----------------------------------------------------------------------------
Saving(t) == th[t].pc \in {"save_pending", "save_dlq"}

(* The process's mutex is free.                                            *)
MutexFree(p) == \A t \in Thread : t[1] = p => ~ Saving(t)

Ids(s) == {s[k].id : k \in 1..Len(s)}

(* The front of a queue is popped while it is longer than n.               *)
Excess(s, n) == IF Len(s) > n THEN Len(s) - n ELSE 0
Cut(s, n) == SubSeq(s, 1, Excess(s, n))
Trim(s, n) == SubSeq(s, Excess(s, n) + 1, Len(s))

(* Push to the dead-letter queue; its limit discards the oldest for good.  *)
PushDlq(p, s) ==
    LET full == dlq[p] \o s IN
    /\ dlq' = [dlq EXCEPT ![p] = Trim(full, MaxDlq)]
    /\ dropped' = dropped \cup Ids(Cut(full, MaxDlq))

\* Mutant: the limit on pending items is not applied.
Overflow_Mut(s) == <<>>

(* What an enqueue moves to the dead-letter queue: the oldest pending.     *)
Overflow(s) == Cut(s, MaxOutbox)

(* enqueue_webhook: push, apply both limits, save.  Ids are times of day:  *)
(* they are taken in order.                                                *)
enqueue_webhook(t, i) ==
    LET p == t[1]
        q == Append(pending[p], [id |-> i, attempts |-> 0])
    IN
    /\ th[t].pc = "idle" /\ p \in up /\ MutexFree(p)
    /\ owner[i] = None /\ \A j \in 1..(i - 1) : owner[j] # None
    /\ owner' = [owner EXCEPT ![i] = p]
    /\ pending' = [pending EXCEPT ![p] = SubSeq(q, Len(Overflow(q)) + 1, Len(q))]
    /\ PushDlq(p, Overflow(q))
    /\ th' = [th EXCEPT ![t] = [Idle EXCEPT !.pc = "save_pending", !.item = i]]
    /\ UNCHANGED <<up, filePending, fileDlq, acked, delivered, crashes,
                   diskFails>>

(* persist_boxes writes the pending file from memory; a failed write is    *)
(* ignored.                                                                *)
SavePending(t) ==
    /\ th[t].pc = "save_pending"
    /\ \A u \in Thread : th[u].pc # "save_dlq"
    /\ \/ filePending' = pending[t[1]] /\ UNCHANGED diskFails
       \/ /\ diskFails < MaxDiskFail /\ diskFails' = diskFails + 1
          /\ UNCHANGED filePending
    /\ th' = [th EXCEPT ![t].pc = "save_dlq"]
    /\ UNCHANGED <<up, pending, dlq, fileDlq, owner, acked, delivered,
                   dropped, crashes>>

(* Then the dead-letter file; the locks are released, and an enqueue       *)
(* returns.                                                                *)
SaveDlq(t) ==
    /\ th[t].pc = "save_dlq"
    /\ \/ fileDlq' = dlq[t[1]] /\ UNCHANGED diskFails
       \/ /\ diskFails < MaxDiskFail /\ diskFails' = diskFails + 1
          /\ UNCHANGED fileDlq
    /\ acked' = acked \cup ({th[t].item} \ {None})
    /\ th' = [th EXCEPT ![t] = [@ EXCEPT !.pc = th[t].then, !.item = None]]
    /\ UNCHANGED <<up, pending, dlq, filePending, owner, delivered, dropped,
                   crashes>>

-----------------------------------------------------------------------------
(* The items of s at the positions K, in their order: a set of one queue.  *)
Picked(s, K) ==
    LET enum == {f \in [1..Cardinality(K) -> K] :
                    /\ \A i, j \in DOMAIN f : i < j => f[i] < f[j]
                    /\ \A k \in K : \E i \in DOMAIN f : f[i] = k}
    IN {[i \in DOMAIN f |-> s[f[i]]] : f \in enum}

\* Mutant: items stay queued until they are delivered.
Rest_Mut(s, K) == {s}

(* The pending items a drain leaves.                                       *)
Rest(s, K) == Picked(s, DOMAIN s \ K)

(* drain_webhooks takes the first max_n due items out of memory; the files *)
(* are not rewritten.                                                      *)
drain_webhooks(t, K) ==
    LET p == t[1] IN
    /\ th[t].pc = "idle" /\ p \in up /\ MutexFree(p)
    /\ Cardinality(K) <= MaxN
    /\ \E rest \in Rest(pending[p], K) : pending' = [pending EXCEPT ![p] = rest]
    /\ \E ready \in Picked(pending[p], K) :
          th' = [th EXCEPT ![t] = [Idle EXCEPT !.pc = "post", !.hand = ready]]
    /\ UNCHANGED <<up, dlq, filePending, fileDlq, owner, acked, delivered,
                   dropped, crashes, diskFails>>

(* http_post_json of the next item: 2xx, or a failure that will be noted.  *)
Post(t) ==
    /\ th[t].pc = "post" /\ th[t].hand # <<>>
    /\ \/ /\ delivered' = delivered \cup {Head(th[t].hand).id}
          /\ th' = [th EXCEPT ![t].hand = Tail(@)]
       \/ th' = [th EXCEPT ![t].pc = "failed"] /\ UNCHANGED delivered
    /\ UNCHANGED <<up, pending, dlq, filePending, fileDlq, owner, acked,
                   dropped, crashes, diskFails>>

\* Mutant: one attempt too many.
Exhausted_Mut(x, limit) == x.attempts > limit

Exhausted(x, limit) == x.attempts >= limit

(* A failed item goes to the dead letters after max_attempts, else to the  *)
(* end of the pending queue; both save.                                    *)
PostFailed(t, limit) ==
    LET p == t[1]
        x == [Head(th[t].hand) EXCEPT !.attempts = @ + 1]
    IN
    /\ th[t].pc = "failed" /\ MutexFree(p)
    /\ IF Exhausted(x, limit)
       THEN PushDlq(p, <<x>>) /\ UNCHANGED pending
       ELSE /\ pending' = [pending EXCEPT ![p] = Append(@, x)]
            /\ UNCHANGED <<dlq, dropped>>
    /\ th' = [th EXCEPT ![t] = [@ EXCEPT !.pc = "save_pending",
                                         !.hand = Tail(th[t].hand),
                                         !.then = "post"]]
    /\ UNCHANGED <<up, filePending, fileDlq, owner, acked, delivered, crashes,
                   diskFails>>

\* Mutant: the drain does not save at its end.
DrainEnd_Mut(t) ==
    /\ th[t].pc = "post" /\ th[t].hand = <<>>
    /\ MutexFree(t[1])
    /\ th' = [th EXCEPT ![t] = Idle]
    /\ UNCHANGED <<up, pending, dlq, filePending, fileDlq, owner, acked,
                   delivered, dropped, crashes, diskFails>>

(* After its last item the drain saves once more.                          *)
DrainEnd(t) ==
    /\ th[t].pc = "post" /\ th[t].hand = <<>>
    /\ MutexFree(t[1])
    /\ th' = [th EXCEPT ![t] = [Idle EXCEPT !.pc = "save_pending"]]
    /\ UNCHANGED <<up, pending, dlq, filePending, fileDlq, owner, acked,
                   delivered, dropped, crashes, diskFails>>

-----------------------------------------------------------------------------
Crash(p) ==
    /\ p \in up /\ crashes < MaxCrash
    /\ crashes' = crashes + 1
    /\ up' = up \ {p}
    /\ pending' = [pending EXCEPT ![p] = <<>>]
    /\ dlq' = [dlq EXCEPT ![p] = <<>>]
    /\ th' = [t \in Thread |-> IF t[1] = p THEN Idle ELSE th[t]]
    /\ UNCHANGED <<filePending, fileDlq, owner, acked, delivered, dropped,
                   diskFails>>

(* boxes(): the queues are loaded from the files under the file lock.      *)
boxes(p) ==
    /\ p \notin up
    /\ \A u \in Thread : th[u].pc # "save_dlq"
    /\ up' = up \cup {p}
    /\ pending' = [pending EXCEPT ![p] = filePending]
    /\ dlq' = [dlq EXCEPT ![p] = fileDlq]
    /\ UNCHANGED <<filePending, fileDlq, th, owner, acked, delivered, dropped,
                   crashes, diskFails>>

Next ==
    \/ \E t \in Proc \X Enqueuer, i \in Id : enqueue_webhook(t, i)
    \/ \E t \in Proc \X Drainer :
          \/ \E K \in SUBSET DOMAIN pending[t[1]] : drain_webhooks(t, K)
          \/ \E limit \in 1..MaxAttempts : PostFailed(t, limit)
          \/ Post(t) \/ DrainEnd(t)
    \/ \E t \in Thread : SavePending(t) \/ SaveDlq(t)
    \/ \E p \in Proc : Crash(p) \/ boxes(p)

Spec == Init /\ [][Next]_vars

-----------------------------------------------------------------------------
Occurrences(s, i) == Cardinality({k \in 1..Len(s) : s[k].id = i})

(* The places an item is in, counted: the queues and hands of the process  *)
(* that took it in, and the two ends, delivered and discarded.             *)
Places(i) ==
    LET p == owner[i] IN
      Occurrences(pending[p], i) + Occurrences(dlq[p], i)
    + Cardinality({t \in Thread : t[1] = p /\ Occurrences(th[t].hand, i) > 0})
    + (IF i \in delivered THEN 1 ELSE 0) + (IF i \in dropped THEN 1 ELSE 0)

(* While its process runs, an item that was taken in is in exactly one     *)
(* place: concurrent enqueues, drains and saves neither lose it nor let    *)
(* two drains post it.                                                     *)
InOnePlace ==
    crashes = 0 => \A i \in Id : owner[i] # None => Places(i) = 1

(* The items in the hands of p, as pairs of a thread and a position.       *)
InHand(p) == {x \in Thread \X (1..MaxN) :
                 x[1][1] = p /\ x[2] <= Len(th[x[1]].hand)}

(* The queue and the hands of a process hold no more than MAX_OUTBOX and   *)
(* one full drain each, although failed items are put back without         *)
(* looking at the limit.                                                   *)
OutboxBounded ==
    \A p \in Proc : Len(pending[p]) + Cardinality(InHand(p))
                       <= MaxOutbox + MaxN * Cardinality(Drainer)

Quiet == \A t \in Thread : th[t].pc = "idle"

(* With one process and a disk that works, whenever no request is being    *)
(* served the files hold exactly what memory holds: a restart then loses   *)
(* and repeats nothing.                                                    *)
SavedWhenQuiet ==
    (Quiet /\ diskFails = 0 /\ Cardinality(Proc) = 1) =>
        \A p \in up : filePending = pending[p] /\ fileDlq = dlq[p]

=============================================================================
