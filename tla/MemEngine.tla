----------------------------- MODULE MemEngine ------------------------------
(***************************************************************************)
(* The in-memory backend: a committed map that every transaction copies, a *)
(* gate of a flag and a condition variable that admits one writer, and     *)
(* readers that page through their copy.                                   *)
(***************************************************************************)
EXTENDS Bounds

CONSTANTS
  Thread, Key,
  Ask,           \* ranges a caller asks for
  PageLimit,     \* SCAN_PAGE
  MaxChanges     \* bound: keys inserted or removed in a behaviour

ASSUME MemAssumption == PageLimit \in Nat \ {0} /\ MaxChanges \in Nat

VARIABLES
  committed,     \* Shared.committed
  held,          \* Gate.held
  pc,            \* where each thread is
  view,          \* its copy: MemRead.snapshot or MemWrite.working
  writes,        \* history: what its write transaction changed
  scan,          \* its scan, if any: what was asked, the bounds now, the keys so far
  changes        \* how many insertions and removals there were

vars == <<committed, held, pc, view, writes, scan, changes>>

NoScan == [state |-> "none"]
Untouched == [k \in Key |-> "kept"]

TypeOK ==
  /\ committed \subseteq Key /\ held \in BOOLEAN
  /\ pc \in [Thread -> {"idle", "reading", "acquire", "asleep", "clone",
                        "writing", "release", "notify"}]
  /\ view \in [Thread -> SUBSET Key]
  /\ writes \in [Thread -> [Key -> {"kept", "put", "removed"}]]
  /\ DOMAIN scan = Thread
  /\ changes \in 0..MaxChanges

Init ==
  /\ committed = {} /\ held = FALSE
  /\ pc = [t \in Thread |-> "idle"]
  /\ view = [t \in Thread |-> {}]
  /\ writes = [t \in Thread |-> Untouched]
  /\ scan = [t \in Thread |-> NoScan]
  /\ changes = 0

Goes(t, from, to) == pc[t] = from /\ pc' = [pc EXCEPT ![t] = to]

-----------------------------------------------------------------------------
(* Reading.                                                                *)

BeginRead(t) ==
  /\ Goes(t, "idle", "reading")
  /\ view' = [view EXCEPT ![t] = committed]
  /\ UNCHANGED <<committed, held, writes, scan, changes>>

(* One scan at a time: a second one would only multiply the states. *)
StartScan(t, ask) ==
  /\ pc[t] = "reading" /\ \A u \in Thread : scan[u] = NoScan
  /\ scan' = [scan EXCEPT ![t] =
       [state |-> "paging", ask |-> ask, bounds |-> BoundsOf(ask), read |-> <<>>]]
  /\ UNCHANGED <<committed, held, pc, view, writes, changes>>

(* One turn of the paging loop; an empty page ends it. *)
NextPage(t) ==
  /\ scan[t].state = "paging" /\ ~Panics(scan[t].bounds)
  /\ LET page == Page(view[t], scan[t].bounds, PageLimit) IN
     scan' = [scan EXCEPT ![t] =
       IF page = <<>> THEN [state |-> "done", ask |-> @.ask, read |-> @.read]
       ELSE [@ EXCEPT !.read = @ \o page, !.bounds = AdvancePast(@, Last(page))]]
  /\ UNCHANGED <<committed, held, pc, view, writes, changes>>

EndRead(t) ==
  /\ Goes(t, "reading", "idle") /\ scan[t].state # "paging"
  /\ view' = [view EXCEPT ![t] = {}]
  /\ scan' = [scan EXCEPT ![t] = NoScan]
  /\ UNCHANGED <<committed, held, writes, changes>>

-----------------------------------------------------------------------------
(* Writing.                                                                *)

CallWrite(t) ==
  /\ Goes(t, "idle", "acquire")
  /\ UNCHANGED <<committed, held, view, writes, scan, changes>>

Acquire(t) ==
  /\ Goes(t, "acquire", "clone") /\ ~held
  /\ held' = TRUE
  /\ UNCHANGED <<committed, view, writes, scan, changes>>

Sleep(t) ==
  /\ Goes(t, "acquire", "asleep") /\ held
  /\ UNCHANGED <<committed, held, view, writes, scan, changes>>

(* Mutant: a thread that wakes takes the slot without looking at the flag. *)
WakeUnchecked(t) ==
  /\ Goes(t, "asleep", "clone")
  /\ held' = TRUE
  /\ UNCHANGED <<committed, view, writes, scan, changes>>

(* A condition variable may wake a waiter for no reason. *)
Wake(t) ==
  /\ Goes(t, "asleep", "acquire")
  /\ UNCHANGED <<committed, held, view, writes, scan, changes>>

Clone(t) ==
  /\ Goes(t, "clone", "writing")
  /\ view' = [view EXCEPT ![t] = committed]
  /\ UNCHANGED <<committed, held, writes, scan, changes>>

InsertKey(t, k) ==
  /\ pc[t] = "writing" /\ changes < MaxChanges
  /\ view' = [view EXCEPT ![t] = @ \cup {k}]
  /\ writes' = [writes EXCEPT ![t][k] = "put"]
  /\ changes' = changes + 1
  /\ UNCHANGED <<committed, held, pc, scan>>

RemoveKey(t, k) ==
  /\ pc[t] = "writing" /\ changes < MaxChanges
  /\ view' = [view EXCEPT ![t] = @ \ {k}]
  /\ writes' = [writes EXCEPT ![t][k] = "removed"]
  /\ changes' = changes + 1
  /\ UNCHANGED <<committed, held, pc, scan>>

Commit(t) ==
  /\ Goes(t, "writing", "release")
  /\ committed' = view[t]
  /\ view' = [view EXCEPT ![t] = {}]
  /\ writes' = [writes EXCEPT ![t] = Untouched]
  /\ UNCHANGED <<held, scan, changes>>

(* abort, or a transaction dropped by an early return. *)
Abort(t) ==
  /\ Goes(t, "writing", "release")
  /\ view' = [view EXCEPT ![t] = {}]
  /\ writes' = [writes EXCEPT ![t] = Untouched]
  /\ UNCHANGED <<committed, held, scan, changes>>

(* Mutant: the flag is cleared and nobody is told. *)
ReleaseSilently(t) ==
  /\ Goes(t, "release", "idle")
  /\ held' = FALSE
  /\ UNCHANGED <<committed, view, writes, scan, changes>>

Release(t) ==
  /\ Goes(t, "release", "notify")
  /\ held' = FALSE
  /\ UNCHANGED <<committed, view, writes, scan, changes>>

(* notify_one wakes one waiter, any of them. *)
Notify(t) ==
  /\ pc[t] = "notify"
  /\ LET asleep == { u \in Thread : pc[u] = "asleep" } IN
     IF asleep = {} THEN pc' = [pc EXCEPT ![t] = "idle"]
     ELSE \E u \in asleep : pc' = [pc EXCEPT ![t] = "idle", ![u] = "acquire"]
  /\ UNCHANGED <<committed, held, view, writes, scan, changes>>

-----------------------------------------------------------------------------

Next ==
  \E t \in Thread :
    \/ BeginRead(t) \/ NextPage(t) \/ EndRead(t)
    \/ \E ask \in Ask : StartScan(t, ask)
    \/ CallWrite(t) \/ Acquire(t) \/ Sleep(t) \/ Wake(t) \/ Clone(t)
    \/ \E k \in Key : InsertKey(t, k) \/ RemoveKey(t, k)
    \/ Commit(t) \/ Abort(t) \/ Release(t) \/ Notify(t)

Spec == Init /\ [][Next]_vars

(* A thread inside begin_write or a release runs on; a caller may hold its *)
(* transaction for as long as it likes, and nobody is woken for nothing.   *)
FairSpec ==
  Spec /\ \A t \in Thread :
            WF_vars(Acquire(t) \/ Sleep(t) \/ Clone(t) \/ Release(t) \/ Notify(t))

-----------------------------------------------------------------------------
(* Properties.                                                             *)

(* The thread that holds the slot: from acquire to release. *)
Holds(t) == pc[t] \in {"clone", "writing", "release"}

(* What a write transaction makes of a content. *)
Applied(content, w) ==
  { k \in Key : w[k] = "put" \/ (w[k] = "kept" /\ k \in content) }

(* The slot is taken exactly while one thread holds it. *)
SlotOwned ==
  /\ held <=> \E t \in Thread : Holds(t)
  /\ \A t, u \in Thread : Holds(t) /\ Holds(u) => t = u

(* A writer works on the last commit with its own changes. *)
CopyCurrent ==
  \A t \in Thread :
    /\ pc[t] = "writing" => view[t] = Applied(committed, writes[t])
    /\ pc[t] # "writing" => writes[t] = Untouched

(* The gate admits one writer, and no commit loses what an earlier one     *)
(* wrote: the copy a writer commits never grows stale.                     *)
MemInv == TypeOK /\ SlotOwned /\ CopyCurrent

(* A free slot with waiters asleep is about to be taken, or somebody is    *)
(* about to be woken: no release leaves everybody asleep.                  *)
NoLostWakeup ==
  ~held /\ (\E t \in Thread : pc[t] = "asleep") =>
    \E t \in Thread : pc[t] \in {"acquire", "notify"}

(* A slot that is free while a thread waits for it is taken.               *)
SlotTaken ==
  (~held /\ \E t \in Thread : pc[t] \in {"acquire", "asleep"}) ~> held

Meant(k, ask) ==
  CASE ask.form = "all"     -> TRUE
    [] ask.form = "point"   -> k = ask.key
    [] ask.form = "between" -> ~Less(k, ask.key) /\ Less(k, ask.before)
    [] ask.form = "from"    -> ~Less(k, ask.key)
    [] ask.form = "before"  -> Less(k, ask.before)
    [] ask.form = "prefix"  -> IsPrefix(ask.key, k)

(* A scan read page by page while others commit returns every key of its   *)
(* snapshot that was asked for, once and in order, and never panics.       *)
ScanExact ==
  \A t \in Thread :
    /\ scan[t].state = "paging" => ~Panics(scan[t].bounds)
    /\ scan[t].state = "done" =>
         scan[t].read = SetToSortSeq({ k \in view[t] : Meant(k, scan[t].ask) }, Less)

(* The backend keeps the contract: it implements Engine.                   *)
Contract == INSTANCE Engine WITH
  txn <- [t \in Thread |-> CASE pc[t] = "reading" -> "read"
                             [] pc[t] = "writing" -> "write"
                             [] OTHER -> "none"],
  snapshot <- [t \in Thread |-> IF pc[t] = "reading" THEN view[t] ELSE {}],
  buffer <- writes

ImplementsEngine == Contract!EngineSpec
=============================================================================
