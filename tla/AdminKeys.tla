------------------------------ MODULE AdminKeys ------------------------------
(***************************************************************************)
(* The key store and the write limiter of the Admin API                    *)
(* (src/admin/security.py, src/admin/app.py).  Every worker process keeps  *)
(* its own list of keys and its own rolling windows; all of them persist   *)
(* the whole list to one file, which only a starting process reads.        *)
(*                                                                         *)
(* Handlers do not await between authentication and answer, so a request   *)
(* is one step, save a rotation: it persists twice, and another process    *)
(* or a crash may come in between.  A crash may also cut write_text short. *)
(***************************************************************************)
EXTENDS Integers, Sequences, FiniteSetsExt

CONSTANTS
    Worker,     \* admin processes
    Key,        \* keys there may ever be
    Bootstrap,  \* the write keys of the settings, known by their ids
    NoKey,      \* no deactivate_key_id in a rotation
    Lifetime,   \* lifetimes an administrator asks for; 0: the key stays
    Limit,      \* write actions of a key in a window; the code takes 0 as none
    Window,     \* length of the rolling window
    Horizon,    \* bound on the clock
    MaxActions  \* bound on the write actions in one life of a worker

ASSUME ConstantsOK ==
    /\ Bootstrap \subseteq Key
    /\ NoKey \notin Key
    /\ Lifetime \subseteq Nat
    /\ Limit \in Nat \ {0}
    /\ Window \in Nat \ {0}
    /\ Horizon \in Nat
    /\ MaxActions \in Nat

VARIABLES
    running,  \* the worker processes that are up
    disk,     \* the file: "missing", "torn" by a crash, or "whole"
    file,     \* the keys of a whole file
    mem,      \* _keys of every worker
    job,      \* what a worker has left of a rotation
    slots,    \* WriteActionRateLimiter._events of every worker
    now,      \* the clock
    issued,   \* ids given out so far
    behind,   \* running workers that another one's write went past
    revoked,  \* keys reported deactivated, until a worker behind writes
    grants    \* every write action a key was granted in this life of a worker

vars == <<running, disk, file, mem, job, slots, now, issued, behind, revoked, grants>>

Role == {"read", "write"}
KeyRecord ==
    [role : Role \union {"none"}, active : BOOLEAN, expires : Nat]
Table == [Key -> KeyRecord]
Idle == [busy |-> FALSE, role |-> "read", drop |-> NoKey]
Job == [busy : BOOLEAN, role : Role, drop : Key \union {NoKey}]

Bootstrapped ==
    [k \in Key |-> IF k \in Bootstrap
                   THEN [role |-> "write", active |-> TRUE, expires |-> 0]
                   ELSE [role |-> "none", active |-> FALSE, expires |-> 0]]

Init ==
    /\ running = {}
    /\ disk = "missing"
    /\ file = Bootstrapped
    /\ mem = [w \in Worker |-> Bootstrapped]
    /\ job = [w \in Worker |-> Idle]
    /\ slots = [w \in Worker |-> [k \in Key |-> <<>>]]
    /\ now = 0
    /\ issued = Bootstrap
    /\ behind = {}
    /\ revoked = {}
    /\ grants = [w \in Worker |-> [k \in Key |-> <<>>]]

-----------------------------------------------------------------------------
(* authenticate, is_allowed and the limiter.                               *)

Live(record) == record.active /\ (record.expires = 0 \/ now < record.expires)
Writes(record) == record.role = "write" /\ Live(record)

MayWrite(w, k) == w \in running /\ ~job[w].busy /\ Writes(mem[w][k])

(* Slots are dropped from the left up to the first that is young enough.   *)
Recent(times) ==
    LET live == {i \in 1..Len(times) : now - times[i] < Window}
    IN  SubSeq(times, IF live = {} THEN Len(times) + 1 ELSE Min(live), Len(times))

Free_OneMore(w, k) == Len(Recent(slots[w][k])) <= Limit
Free(w, k) == Len(Recent(slots[w][k])) < Limit

Grant(w, k) ==
    /\ MayWrite(w, k)
    /\ Free(w, k)
    /\ FoldFunction(LAMBDA times, n : Len(times) + n, 0, grants[w]) < MaxActions
    /\ slots' = [slots EXCEPT ![w][k] = Append(Recent(@), now)]
    /\ grants' = [grants EXCEPT ![w][k] = Append(@, now)]

(* 429: the old slots are dropped even so.                                 *)
Limited(w, k) ==
    /\ MayWrite(w, k)
    /\ ~Free(w, k)
    /\ slots' = [slots EXCEPT ![w][k] = Recent(@)]
    /\ UNCHANGED <<running, disk, file, mem, job, now, issued, behind, revoked, grants>>

(* Deactivation in memory alone, which the next start undoes.              *)
Persist_OnlyCreated(w, table, dropped) ==
    /\ mem' = [mem EXCEPT ![w] = table]
    /\ file' = IF dropped = {} THEN table ELSE file
    /\ disk' = "whole"
    /\ behind' = running \ {w}
    /\ revoked' = (IF w \in behind THEN {} ELSE revoked) \union dropped

(* _persist: the whole list of the worker replaces the file, and whoever   *)
(* else runs does not notice.  A worker that is behind undoes revocations. *)
Persist(w, table, dropped) ==
    /\ mem' = [mem EXCEPT ![w] = table]
    /\ file' = table
    /\ disk' = "whole"
    /\ behind' = running \ {w}
    /\ revoked' = (IF w \in behind THEN {} ELSE revoked) \union dropped

-----------------------------------------------------------------------------
(* Handlers.                                                               *)

(* The old key goes first: nothing is left if the process dies now.        *)
Rotate_DropsFirst(w, k, new, role, life, drop) ==
    /\ Grant(w, k)
    /\ new \notin issued
    /\ issued' = issued \union {new}
    /\ drop \in Key
    /\ Persist(w, [mem[w] EXCEPT ![drop].active = FALSE], {drop})
    /\ job' = [job EXCEPT ![w] = [busy |-> TRUE, role |-> role, drop |-> new]]
    /\ UNCHANGED <<running, now>>

(* The time to live is not counted from now.                               *)
Rotate_Relative(w, k, new, role, life, drop) ==
    /\ Grant(w, k)
    /\ new \notin issued
    /\ issued' = issued \union {new}
    /\ Persist(w, [mem[w] EXCEPT ![new] =
                     [role |-> role, active |-> TRUE, expires |-> life - now]], {})
    /\ job' = [job EXCEPT ![w] = [busy |-> TRUE, role |-> role, drop |-> drop]]
    /\ UNCHANGED <<running, now>>

(* rotate_admin_key up to the answer of create_key.                        *)
Rotate(w, k, new, role, life, drop) ==
    /\ Grant(w, k)
    /\ new \notin issued
    /\ issued' = issued \union {new}
    /\ Persist(w, [mem[w] EXCEPT ![new] =
                     [role |-> role, active |-> TRUE,
                      expires |-> IF life = 0 THEN 0 ELSE now + life]], {})
    /\ job' = [job EXCEPT ![w] = [busy |-> TRUE, role |-> role, drop |-> drop]]
    /\ UNCHANGED <<running, now>>

(* deactivate_key persists only what it changes.                           *)
Deactivated(w, k) ==
    /\ k \in Key
    /\ mem[w][k].active
    /\ Persist(w, [mem[w] EXCEPT ![k].active = FALSE], {k})

FinishRotation(w) ==
    /\ job[w].busy
    /\ \/ Deactivated(w, job[w].drop)
       \/ /\ job[w].drop \in Key => ~mem[w][job[w].drop].active
          /\ UNCHANGED <<disk, file, mem, behind, revoked>>
    /\ job' = [job EXCEPT ![w] = Idle]
    /\ UNCHANGED <<running, slots, now, issued, grants>>

Deactivate(w, k, drop) ==
    /\ Grant(w, k)
    /\ Deactivated(w, drop)
    /\ UNCHANGED <<running, job, now, issued>>

(* Route changes, reloads, and a deactivation that answers 404.            *)
OtherWrite(w, k) ==
    /\ Grant(w, k)
    /\ UNCHANGED <<running, disk, file, mem, job, now, issued, behind, revoked>>

-----------------------------------------------------------------------------
(* Processes and time.                                                     *)

(* _load_or_bootstrap; json.loads refuses a torn file, and no worker comes *)
(* up until one that still runs has written it again.                      *)
Start(w) ==
    /\ w \notin running
    /\ disk # "torn"
    /\ running' = running \union {w}
    /\ file' = IF disk = "missing" THEN Bootstrapped ELSE file
    /\ mem' = [mem EXCEPT ![w] = file']
    /\ disk' = "whole"
    /\ slots' = [slots EXCEPT ![w] = [k \in Key |-> <<>>]]
    /\ grants' = [grants EXCEPT ![w] = [k \in Key |-> <<>>]]
    /\ UNCHANGED <<job, now, issued, behind, revoked>>

Crash(w) ==
    /\ w \in running
    /\ running' = running \ {w}
    /\ behind' = behind \ {w}
    /\ job' = [job EXCEPT ![w] = Idle]
    /\ UNCHANGED <<disk, file, mem, slots, now, issued, revoked, grants>>

(* The crash comes inside write_text, of a request or of a rotation.       *)
CrashWriting(w) ==
    /\ w \in running
    /\ job[w].busy \/ \E k \in Key : MayWrite(w, k) /\ Free(w, k)
    /\ running' = running \ {w}
    /\ behind' = behind \ {w}
    /\ disk' = "torn"
    /\ job' = [job EXCEPT ![w] = Idle]
    /\ UNCHANGED <<file, mem, slots, now, issued, revoked, grants>>

(* The two writes of one rotation take no time.                            *)
Tick ==
    /\ now < Horizon
    /\ \A w \in Worker : ~job[w].busy
    /\ now' = now + 1
    /\ UNCHANGED <<running, disk, file, mem, job, slots, issued, behind, revoked, grants>>

Request(w, k) ==
    \/ \E new \in Key, role \in Role, life \in Lifetime, drop \in Key \union {NoKey} :
          Rotate(w, k, new, role, life, drop)
    \/ \E drop \in Key : Deactivate(w, k, drop)
    \/ OtherWrite(w, k)
    \/ Limited(w, k)

Next ==
    \/ \E w \in Worker :
          \/ \E k \in Key : Request(w, k)
          \/ FinishRotation(w)
          \/ Start(w)
          \/ Crash(w)
          \/ CrashWriting(w)
    \/ Tick

Spec == Init /\ [][Next]_vars

-----------------------------------------------------------------------------
(* Properties.                                                             *)

(* Keys, jobs and slots keep their types, a down worker has no rotation    *)
(* left, and only running workers are behind (the store and the limiter of *)
(* src/admin/security.py and src/admin/app.py).                            *)
TypeOK ==
    /\ running \subseteq Worker
    /\ disk \in {"missing", "torn", "whole"}
    /\ file \in Table
    /\ mem \in [Worker -> Table]
    /\ job \in [Worker -> Job]
    /\ \A w \in Worker : job[w].busy => w \in running
    /\ slots \in [Worker -> [Key -> Seq(Nat)]]
    /\ now \in Nat
    /\ issued \subseteq Key
    /\ behind \subseteq running
    /\ revoked \subseteq issued
    /\ grants \in [Worker -> [Key -> Seq(Nat)]]

(* A key reported as deactivated stays out, through crashes and restarts:  *)
(* neither the file nor any worker that is not behind has it active.  Only *)
(* the write of a worker that is behind can bring it back                  *)
(* (deactivate_key, src/admin/security.py:176-188).                        *)
Revoked ==
    \A k \in revoked :
        /\ disk = "whole" => ~file[k].active
        /\ \A w \in running \ behind : ~mem[w][k].active

(* A write key is granted at most Limit actions in any window of a life of *)
(* a worker (WriteActionRateLimiter.allow, src/admin/app.py:52-62).        *)
WindowBound ==
    \A w \in Worker, k \in Key :
        \A i \in 1..(Len(grants[w][k]) - Limit) :
            grants[w][k][i + Limit] - grants[w][k][i] >= Window

(* Whether an administrator could write with the keys of the file.         *)
Manageable == disk = "whole" /\ \E k \in Key : Writes(file[k])

(* Only a deactivation by hand or a rotation to a read key takes the last  *)
(* write key out of the file: a rotation to a write key never does, even   *)
(* when it is cut in the middle or another worker writes in between        *)
(* (rotate_admin_key, src/admin/app.py:629-636).                           *)
RotationKeeps ==
    [][Manageable /\ ~Manageable' /\ now' = now /\ disk' = "whole"
         => \E w \in running :
               \/ ~job[w].busy /\ ~job'[w].busy /\ mem'[w] # mem[w]
               \/ job[w].busy /\ ~job'[w].busy /\ job[w].role = "read"]_vars
=============================================================================
