------------------------------ MODULE Compose ------------------------------
(***************************************************************************)
(* The compose publisher of `pbps ui` (crates/pbps-ui/src/compose): the    *)
(* viewers over one repository, each answering one request at a time; the  *)
(* durable receipts and resource records under the repository's Git        *)
(* directory; the private and the public refs; and the remote.             *)
(*                                                                         *)
(* A step of a viewer ends at the durable write, the Git command or the    *)
(* remote exchange it makes.  Between two steps the viewer may die, a      *)
(* person may move or delete a branch, and another viewer may run.  Every  *)
(* operation starts from the same base commit of the same project, the     *)
(* case in which operations are not independent.                           *)
(***************************************************************************)
EXTENDS Naturals, FiniteSets

CONSTANTS
    Ops,        \* operation (and candidate) identities
    NoOp,       \* no operation
    Viewers,    \* `pbps ui` processes over the repository
    Nobody,     \* a lock nobody holds
    MaxGen,     \* bound: delivery generations drawn for one operation
    Kinds,      \* the kinds of faults a run considers
    MaxFaults   \* bound: faults

FaultKinds == {"crash", "save", "unavailable", "delay", "branch", "remote",
               "authority", "age", "vanish"}

ASSUME ComposeAssumption ==
    /\ NoOp \notin Ops
    /\ Nobody \notin Viewers
    /\ MaxGen \in Nat
    /\ Kinds \subseteq FaultKinds
    /\ MaxFaults \in Nat

VARIABLES
    receipt,    \* the durable phase of each operation's receipt
    gen,        \* the delivery generation in it, 0 before the first attempt
    res,        \* each operation's resource record
    roots,      \* the private refs that exist for each operation
    litter,     \* directories holding a temporary file nobody acknowledged
    owner,      \* the viewer that holds owner.lock
    resLock,    \* the viewer that holds resources.lock
    local,      \* the output branch in the repository
    remote,     \* the output branch at the remote
    flight,     \* pushes whose answer was lost and that may still land
    stale,      \* the reviewed base, destination or signing policy changed
    old,        \* previews older than 24 hours
    run,        \* the request each viewer is answering
    mem,        \* what each viewer keeps in memory between requests
    faults,     \* what remains of the bound on faults
    hist        \* what was done, for the properties; no step reads it

durable == <<receipt, gen, res, roots, litter>>
git     == <<local, remote, flight>>
world   == <<stale, old>>
locks   == <<owner, resLock>>
vars    == <<durable, locks, git, world, run, mem, faults, hist>>

Stages == {"none", "preparing", "commit_known", "prepared", "local_attempt",
           "local_published", "remote_attempt", "remote_delivered"}

\* Phase::LocalPublished, whatever the remote phase.
Published == {"local_published", "remote_attempt", "remote_delivered"}

PinKinds == {"base", "commit"}
Pins     == {"none", "intent", "owned", "retired"}

Resources == [state: {"none", "capturing", "sealed", "confirmed", "retiring",
                      "retained", "spent", "removed"},
              keep: BOOLEAN, rejected: BOOLEAN, snapshot: {"none", "live", "retired"},
              base: Pins, commit: Pins]

Refs == {"absent", "commit", "other"}

Jobs == {"none", "preview", "withdraw", "confirm", "expired", "conflict",
         "release", "retry", "republish", "cleanup", "forget", "resources"}

Points == {"idle", "discard", "retire", "ret_snapshot", "ret_base", "ret_commit",
           "ret_end", "retired", "unretired", "capture", "cap_record", "cap_snapshot", "cap_pin", "cap_ref",
           "cap_own", "cap_check", "open", "list", "handle", "load",
           "preparing", "commit_tree", "commit_known", "pin", "pin_ref", "pin_own",
           "prepared", "resume", "publish_local", "local_attempt", "install",
           "local_published", "publish_remote", "remote_attempt", "authorize",
           "push", "remote_delivered", "regenerate", "republish", "finish",
           "answer", "refused", "remove", "removed"}

Problems == {"none", "stale", "uncertain", "other"}

Runs == [pc: Points, job: Jobs, op: Ops \cup {NoOp}, req: 0..MaxGen,
         next: 0..MaxGen, problem: Problems,
         todo: SUBSET Ops, conflict: BOOLEAN, again: BOOLEAN,
         said: Ops \cup {NoOp}]

\* Candidates: `current`, `unpublished`, `alternative_base`; and the HTTP
\* layer's `receiptless`.
Memories == [kind: {"none", "previewed", "confirmed", "releasing"},
             held: Ops \cup {NoOp}, unpublished: SUBSET Ops,
             receiptless: Ops \cup {NoOp}, alternative: BOOLEAN]

TypeOK ==
    /\ receipt \in [Ops -> Stages]
    /\ gen \in [Ops -> 0..MaxGen]
    /\ res \in [Ops -> Resources]
    /\ roots \in [Ops -> SUBSET PinKinds]
    /\ litter \subseteq {"receipts", "resources"}
    /\ owner \in Viewers \cup {Nobody}
    /\ resLock \in Viewers \cup {Nobody}
    /\ local \in [Ops -> Refs]
    /\ remote \in [Ops -> Refs]
    /\ flight \subseteq Ops
    /\ stale \in BOOLEAN
    /\ old \subseteq Ops
    /\ run \in [Viewers -> Runs]
    /\ mem \in [Viewers -> Memories]
    /\ faults \in 0..MaxFaults
    /\ hist \in [commits: [Ops -> Nat], branches: [Ops -> Nat],
                 pushes: [Ops -> [0..MaxGen -> Nat]], landed: SUBSET Ops,
                 vanished: SUBSET Ops]

Fresh == [pc |-> "idle", job |-> "none", op |-> NoOp, req |-> 0, next |-> 0,
          problem |-> "none", todo |-> {}, conflict |-> FALSE,
          again |-> FALSE, said |-> NoOp]

Blank == [kind |-> "none", held |-> NoOp, unpublished |-> {},
          receiptless |-> NoOp, alternative |-> FALSE]

NoResource == [state |-> "none", keep |-> FALSE, rejected |-> FALSE,
               snapshot |-> "none", base |-> "none", commit |-> "none"]

Init ==
    /\ receipt = [o \in Ops |-> "none"]
    /\ gen = [o \in Ops |-> 0]
    /\ res = [o \in Ops |-> NoResource]
    /\ roots = [o \in Ops |-> {}]
    /\ litter = {}
    /\ owner = Nobody /\ resLock = Nobody
    /\ local = [o \in Ops |-> "absent"]
    /\ remote = [o \in Ops |-> "absent"]
    /\ flight = {}
    /\ stale = FALSE
    /\ old = {}
    /\ run = [v \in Viewers |-> Fresh]
    /\ mem = [v \in Viewers |-> Blank]
    /\ faults = MaxFaults
    /\ hist = [commits |-> [o \in Ops |-> 0], branches |-> [o \in Ops |-> 0],
               pushes |-> [o \in Ops |-> [g \in 0..MaxGen |-> 0]], landed |-> {},
               vanished |-> {}]
-----------------------------------------------------------------------------
(* Requests, their ends, and the faults they meet.                          *)

At(v, l) == run[v].pc = l

Goto(v, l) == run' = [run EXCEPT ![v].pc = l]

\* Leave the straight path with a problem; finish reloads the receipt.
Abandon(v, l, p) == run' = [run EXCEPT ![v].pc = l, ![v].problem = p]

\* Answer the page.  `o` is the operation the answer calls unpublished, if any.
End(v, o) ==
    /\ run' = [run EXCEPT ![v] = [Fresh EXCEPT !.said = o]]
    /\ owner' = IF owner = v THEN Nobody ELSE owner

Fault(k) == k \in Kinds /\ faults > 0 /\ faults' = faults - 1

NoFault == UNCHANGED faults

\* Publications::open: owner.lock is not waited for, and a temporary file
\* nobody acknowledged closes the store.
CanOpen == owner = Nobody /\ "receipts" \notin litter

\* Resources::locked, and the names() every read of a record starts with.
CanLock == resLock = Nobody /\ "resources" \notin litter

\* Records::save: the write is made and acknowledged; or it fails, made or
\* not, and may leave its temporary file behind.
Persist(v, s, g, ok, bad) ==
    LET o    == run[v].op
        made == /\ receipt' = [receipt EXCEPT ![o] = s]
                /\ gen' = [gen EXCEPT ![o] = g]
                /\ UNCHANGED litter
    IN  \/ made /\ Goto(v, ok) /\ NoFault
        \/ made /\ Abandon(v, bad, "uncertain") /\ Fault("save")
        \/ /\ UNCHANGED <<receipt, gen>>
           /\ litter' \in {litter, litter \cup {"receipts"}}
           /\ Abandon(v, bad, "uncertain")
           /\ Fault("save")

\* Resources::save, under resources.lock; a failure releases the lock.
SaveResource(v, r, holder, ok, bad) ==
    LET o    == run[v].op
        made == res' = [res EXCEPT ![o] = r] /\ UNCHANGED litter
    IN  \/ made /\ resLock' = holder /\ Goto(v, ok) /\ NoFault
        \/ /\ resLock' = Nobody
           /\ Abandon(v, bad, "uncertain")
           /\ Fault("save")
           /\ \/ made
              \/ UNCHANGED res /\ litter' \in {litter, litter \cup {"resources"}}

\* Resources::verify_pins.
Verified(o) ==
    \A k \in PinKinds : res[o][k] \in {"intent", "owned"}
                            => res[o][k] = "owned" /\ k \in roots[o]

\* Resources::admit, before and after the commit is known.
Admitted(o) ==
    CanLock /\ res[o].state \in {"confirmed", "retained"} /\ Verified(o)

Rooted(o) == Admitted(o) /\ res[o].commit = "owned"

\* Mutant of Let: a forgotten confirmation counts as unpublished too.
LetUnpublished(m, o) ==
    IF m.kind = "none" \/ m.held # o THEN m
    ELSE [m EXCEPT !.kind = "none", !.held = NoOp, !.alternative = FALSE,
                   !.unpublished = @ \cup {o}]

\* Candidates::released: the workflow lets the operation go; only a preview
\* is known to be unpublished.
Let(m, o) ==
    IF m.kind = "none" \/ m.held # o THEN m
    ELSE [m EXCEPT !.kind = "none", !.held = NoOp, !.alternative = FALSE,
                   !.unpublished = IF m.kind = "previewed" THEN @ \cup {o} ELSE @]

\* Candidates::release_if_spent.
LetIfSpent(m) ==
    IF /\ m.kind \in {"previewed", "confirmed"}
       /\ "resources" \notin litter
       /\ res[m.held].state = "spent"
    THEN Let(m, m.held) ELSE m

\* The workflow records that it gave the operation up unpublished.
GiveUp(m, o) == [m EXCEPT !.kind = "none", !.held = NoOp, !.unpublished = @ \cup {o}]
-----------------------------------------------------------------------------
(* Retirement of an operation's private resources.                          *)

\* cleanup keeps the commit's root; a resumed retirement keeps its choice.
Keep(v) == \/ run[v].job = "cleanup"
           \/ run[v].job = "resources" /\ res[run[v].op].keep

\* retire_locked up to the durable intent.  `discard` is discard_preview and
\* expire, which want a sealed preview; `retire` is retire.
StartRetirement(v) ==
    LET o == run[v].op
        r == res[o]
        done == r.state = "spent" \/ (Keep(v) /\ r.state = "retained")
        begun == r.state = "retiring" /\ r.keep = Keep(v)
        fresh == r.state \in {"sealed", "confirmed", "retained"} /\ Verified(o)
        may == CanLock /\ (At(v, "discard") => r.state = "sealed")
    IN  /\ run[v].pc \in {"discard", "retire"}
        /\ \/ may /\ done /\ Goto(v, "retired") /\ UNCHANGED <<res, resLock, litter, faults>>
           \/ /\ may /\ begun /\ Goto(v, "ret_snapshot") /\ resLock' = v
              /\ UNCHANGED <<res, litter, faults>>
           \/ /\ may /\ ~done /\ fresh
              /\ SaveResource(v, [r EXCEPT !.state = "retiring", !.keep = Keep(v)],
                              v, "ret_snapshot", "unretired")
           \/ /\ ~may \/ ~(done \/ begun \/ fresh)
              /\ Abandon(v, "unretired", "uncertain")
              /\ UNCHANGED <<res, resLock, litter, faults>>
        /\ UNCHANGED <<receipt, gen, roots, owner, git, world, mem, hist>>

\* A retirement stops before it removes anything more.
RetirementStops(v) ==
    /\ Abandon(v, "unretired", "uncertain") /\ resLock' = Nobody
    /\ UNCHANGED <<res, roots, litter>>

\* Inventory::retire removes the snapshot; the record then says so.
RetireSnapshot(v) ==
    LET r == res[run[v].op]
    IN  /\ At(v, "ret_snapshot")
        /\ \/ r.snapshot # "retired"
              /\ SaveResource(v, [r EXCEPT !.snapshot = "retired"], v, "ret_base", "unretired")
           \/ r.snapshot = "retired" /\ Goto(v, "ret_base")
              /\ UNCHANGED <<res, resLock, litter, faults>>
           \/ r.snapshot # "retired" /\ RetirementStops(v) /\ Fault("unavailable")
        /\ UNCHANGED <<receipt, gen, roots, owner, git, world, mem, hist>>

\* Mutant of RetirePin: the pin is recorded as retired before its ref is deleted.
RetirePinRecordFirst(v, k, l, next) ==
    LET o == run[v].op
        r == res[o]
        skip == r[k] \in {"none", "retired"} \/ (k = "commit" /\ Keep(v))
    IN  /\ At(v, l)
        /\ \/ skip /\ Goto(v, next) /\ UNCHANGED <<res, roots, resLock, litter, faults>>
           \/ /\ ~skip
              /\ SaveResource(v, [r EXCEPT ![k] = "retired"], v, next, "unretired")
              /\ roots' = IF run'[v].pc = next THEN [roots EXCEPT ![o] = @ \ {k}] ELSE roots
        /\ UNCHANGED <<receipt, gen, owner, git, world, mem, hist>>

\* One turn of the loop over the pins: delete the ref, then record it.
RetirePin(v, k, l, next) ==
    LET o == run[v].op
        r == res[o]
        skip == r[k] \in {"none", "retired"} \/ (k = "commit" /\ Keep(v))
    IN  /\ At(v, l)
        /\ \/ skip /\ Goto(v, next) /\ UNCHANGED <<res, roots, resLock, litter, faults>>
           \/ /\ ~skip /\ r[k] = "owned"
              /\ roots' = [roots EXCEPT ![o] = @ \ {k}]
              /\ SaveResource(v, [r EXCEPT ![k] = "retired"], v, next, "unretired")
           \/ ~skip /\ r[k] = "owned" /\ RetirementStops(v) /\ Fault("unavailable")
           \/ ~skip /\ r[k] = "intent" /\ RetirementStops(v) /\ NoFault
        /\ UNCHANGED <<receipt, gen, owner, git, world, mem, hist>>

RetireBase(v) == RetirePin(v, "base", "ret_base", "ret_commit")
RetireCommit(v) == RetirePin(v, "commit", "ret_commit", "ret_end")

\* Mutant of EndRetirement: the tombstone keeps the retired pins.
EndRetirementWithPins(v) ==
    /\ At(v, "ret_end")
    /\ SaveResource(v, [res[run[v].op] EXCEPT !.state = IF Keep(v) THEN "retained" ELSE "spent"],
                    Nobody, "retired", "unretired")
    /\ UNCHANGED <<receipt, gen, roots, owner, git, world, mem, hist>>

\* A rejected capture leaves no record, a cleanup keeps the commit's root,
\* and every other retirement leaves a tombstone that revokes the handle.
EndRetirement(v) ==
    LET r == res[run[v].op]
    IN  /\ At(v, "ret_end")
        /\ \/ /\ r.rejected /\ UNCHANGED litter
              /\ SaveResource(v, [NoResource EXCEPT !.state = "removed"],
                              Nobody, "retired", "unretired")
           \/ /\ ~r.rejected
              /\ SaveResource(v,
                     IF Keep(v) THEN [r EXCEPT !.state = "retained"]
                     ELSE [NoResource EXCEPT !.state = "spent", !.snapshot = "retired"],
                     Nobody, "retired", "unretired")
        /\ UNCHANGED <<receipt, gen, roots, owner, git, world, mem, hist>>
-----------------------------------------------------------------------------
(* The reconciler.  Each phase leads to at most one durable write.          *)

\* Mutant of Reconciled: any branch at the remote is taken for the delivery.
ReconciledPresent(o) ==
    CASE receipt[o] = "commit_known" /\ Rooted(o)                 -> "prepared"
      [] receipt[o] = "local_attempt" /\ local[o] = "commit"      -> "local_published"
      [] receipt[o] = "remote_attempt" /\ remote[o] # "absent"    -> "remote_delivered"
      [] OTHER                                                    -> receipt[o]

\* What the receipt becomes when the evidence is read.
Reconciled(o) ==
    CASE receipt[o] = "commit_known" /\ Rooted(o)                 -> "prepared"
      [] receipt[o] = "local_attempt" /\ local[o] = "commit"      -> "local_published"
      [] receipt[o] = "remote_attempt" /\ remote[o] = "commit"    -> "remote_delivered"
      [] OTHER                                                    -> receipt[o]

\* reconcile, with the receipt loaded: the write is acknowledged, or it
\* fails, or the evidence could not be read at all.
Reconcile(o, delivered) ==
    LET made == receipt' = [receipt EXCEPT ![o] = Reconciled(o)] /\ UNCHANGED litter
    IN  \/ /\ made /\ NoFault
           /\ delivered = (/\ Reconciled(o) = "remote_delivered"
                           /\ local[o] = "commit" /\ remote[o] = "commit"
                           /\ Admitted(o) /\ res[o].commit = "owned")
        \/ made /\ Fault("save") /\ ~delivered
        \/ /\ UNCHANGED receipt /\ litter' \in {litter, litter \cup {"receipts"}}
           /\ Reconciled(o) # receipt[o]
           /\ Fault("save") /\ ~delivered
        \/ UNCHANGED <<receipt, litter>> /\ Fault("unavailable") /\ ~delivered

\* finish: reload the receipt and reconcile it.
Finish(v) ==
    LET o == run[v].op
    IN  /\ At(v, "finish")
        /\ \/ /\ receipt[o] # "none" /\ "receipts" \notin litter
              /\ \E d \in BOOLEAN : Reconcile(o, d)
           \/ /\ receipt[o] = "none" \/ "receipts" \in litter
              /\ UNCHANGED <<receipt, litter, faults>>
        /\ End(v, NoOp)
        /\ mem' = IF run[v].job = "confirm"
                  THEN [mem EXCEPT ![v].receiptless = NoOp] ELSE mem
        /\ UNCHANGED <<gen, res, roots, resLock, git, world, hist>>
-----------------------------------------------------------------------------
(* preview: give up the previous candidate, capture, seal, admit the base.  *)

\* What a new request starts from.
Request(v, j, o, l) == [Fresh EXCEPT !.job = j, !.op = o, !.pc = l]

Preview(v) ==
    LET m == LetIfSpent(mem[v])
    IN  /\ At(v, "idle")
        /\ \/ m.kind = "confirmed" /\ run' = [run EXCEPT ![v] = Fresh]
           \/ m.kind = "releasing"
              /\ run' = [run EXCEPT ![v] = Request(v, "preview", m.held, "retire")]
           \/ m.kind = "previewed"
              /\ run' = [run EXCEPT ![v] = Request(v, "preview", m.held, "discard")]
           \/ m.kind = "none"
              /\ run' = [run EXCEPT ![v] = Request(v, "preview", NoOp, "capture")]
        \* A previewed candidate is taken before its retirement is tried.
        /\ mem' = [mem EXCEPT ![v] = IF m.kind = "previewed"
                                     THEN [m EXCEPT !.kind = "none", !.held = NoOp] ELSE m]
        /\ UNCHANGED <<durable, locks, git, world, faults, hist>>

\* Resources::begin takes the lock and a fresh id.  (When Ops has no fresh
\* id left the request ends: a bound of the model.)
Capture(v) ==
    /\ At(v, "capture")
    /\ \/ /\ CanLock
          /\ \E o \in Ops :
                /\ res[o].state = "none"
                /\ run' = [run EXCEPT ![v].op = o, ![v].pc = "cap_record"]
          /\ resLock' = v /\ UNCHANGED owner
       \/ /\ ~CanLock \/ \A o \in Ops : res[o].state # "none"
          /\ End(v, NoOp) /\ UNCHANGED resLock
    /\ UNCHANGED <<durable, git, world, mem, faults, hist>>

\* The record comes before the snapshot's directory, and then names it.
BeginRecord(v) ==
    LET r == res[run[v].op]
    IN  /\ \/ /\ At(v, "cap_record")
              /\ SaveResource(v, [r EXCEPT !.state = "capturing"], v, "cap_snapshot", "answer")
           \/ /\ At(v, "cap_snapshot")
              /\ SaveResource(v, [r EXCEPT !.snapshot = "live"], v, "cap_pin", "answer")
        /\ UNCHANGED <<receipt, gen, roots, owner, git, world, mem, hist>>

\* Resources::pin, for the base and for the exact commit: the intent, the
\* ref, and the acknowledgment.
PinIntent(v, k, l, next, bad) ==
    /\ At(v, l)
    /\ SaveResource(v, [res[run[v].op] EXCEPT ![k] = "intent"], v, next, bad)
    /\ UNCHANGED <<receipt, gen, roots, owner, git, world, mem, hist>>

PinRef(v, k, l, next, bad) ==
    /\ At(v, l)
    /\ \/ /\ roots' = [roots EXCEPT ![run[v].op] = @ \cup {k}]
          /\ Goto(v, next) /\ NoFault /\ UNCHANGED resLock
       \/ /\ UNCHANGED roots /\ Abandon(v, bad, "uncertain")
          /\ resLock' = Nobody /\ Fault("unavailable")
    /\ UNCHANGED <<receipt, gen, res, litter, owner, git, world, mem, hist>>

PinOwn(v, k, l, next, bad) ==
    /\ At(v, l)
    /\ SaveResource(v, [res[run[v].op] EXCEPT ![k] = "owned"], Nobody, next, bad)
    /\ UNCHANGED <<receipt, gen, roots, owner, git, world, mem, hist>>

PinBase(v) == \/ PinIntent(v, "base", "cap_pin", "cap_ref", "answer")
              \/ PinRef(v, "base", "cap_ref", "cap_own", "answer")
              \/ PinOwn(v, "base", "cap_own", "cap_check", "answer")

\* The candidate is checked: it fails, it is rejected and its capture is
\* retired at once, or it is sealed and becomes the workflow's candidate.
Seal(v) ==
    LET o == run[v].op
    IN  /\ At(v, "cap_check")
        /\ \/ /\ ~(CanLock /\ Verified(o))
              /\ Goto(v, "answer") /\ UNCHANGED <<res, resLock, litter, faults, mem>>
           \/ /\ Fault("unavailable")
              /\ Goto(v, "answer") /\ UNCHANGED <<res, resLock, litter, mem>>
           \/ /\ CanLock /\ Verified(o)
              /\ SaveResource(v, [res[o] EXCEPT !.state = "retiring", !.rejected = TRUE],
                              v, "ret_snapshot", "answer")
              /\ UNCHANGED mem
           \/ /\ CanLock /\ Verified(o)
              /\ SaveResource(v, [res[o] EXCEPT !.state = "sealed"], Nobody, "open", "answer")
              /\ mem' = IF run'[v].pc = "open"
                        THEN [mem EXCEPT ![v].kind = "previewed", ![v].held = o] ELSE mem
        /\ UNCHANGED <<receipt, gen, roots, owner, git, world, hist>>

\* Mutant of AdmitBase: the publications are waited for.
AdmitBaseWaits(v) ==
    /\ At(v, "open")
    /\ CanOpen /\ owner' = v
    /\ run' = [run EXCEPT ![v].pc = "list",
                          ![v].todo = {o \in Ops : receipt[o] # "none"}]
    /\ UNCHANGED <<durable, resLock, git, world, mem, faults, hist>>

\* admit_base opens the publications, or fails and withdraws the preview.
AdmitBase(v) ==
    /\ At(v, "open")
    /\ \/ /\ CanOpen /\ owner' = v
          /\ run' = [run EXCEPT ![v].pc = "list",
                                ![v].todo = {o \in Ops : receipt[o] # "none"}]
       \/ /\ ~CanOpen /\ UNCHANGED owner
          /\ run' = [run EXCEPT ![v].job = "withdraw", ![v].pc = "discard"]
    /\ UNCHANGED <<durable, resLock, git, world, mem, faults, hist>>

\* Mutant of ListOne: only an unresolved receipt is in the way.
ListOneUnresolved(v, o) ==
    /\ At(v, "list") /\ o \in run[v].todo
    /\ \E d \in BOOLEAN :
          /\ Reconcile(o, d)
          /\ run' = [run EXCEPT ![v].todo = @ \ {o},
                                ![v].conflict = @ \/ (o # run[v].op /\ ~d)]
    /\ UNCHANGED <<gen, res, roots, locks, git, world, mem, hist>>

\* Publications::list reconciles one receipt; sibling_conflict reads the
\* outcome.
ListOne(v, o) ==
    /\ At(v, "list") /\ o \in run[v].todo
    /\ \E d \in BOOLEAN :
          /\ Reconcile(o, d)
          /\ run' = [run EXCEPT ![v].todo = @ \ {o},
                         ![v].conflict = @ \/ (o # run[v].op /\ ~(d /\ mem[v].alternative))]
    /\ UNCHANGED <<gen, res, roots, locks, git, world, mem, hist>>

\* The receipts cannot be read: a preview is withdrawn; a confirmation has
\* attempted nothing and says so.
Unlisted(v) ==
    /\ At(v, "list") /\ Fault("unavailable")
    /\ \/ /\ run[v].job = "preview" /\ owner' = Nobody
          /\ run' = [run EXCEPT ![v].job = "withdraw", ![v].pc = "discard"]
       \/ run[v].job = "confirm" /\ End(v, run[v].op)
    /\ UNCHANGED <<durable, resLock, git, world, mem, hist>>

\* After the gate: a conflict withdraws the preview; otherwise the preview is
\* handed out, or the confirmation goes on.
Gated(v) ==
    /\ At(v, "list") /\ run[v].todo = {}
    /\ \/ /\ run[v].conflict
          /\ run' = [run EXCEPT ![v].pc = "discard",
                         ![v].job = IF @ = "preview" THEN "withdraw" ELSE "conflict"]
          /\ owner' = IF run[v].job = "preview" THEN Nobody ELSE owner
       \/ ~run[v].conflict /\ run[v].job = "preview" /\ End(v, NoOp)
       \/ ~run[v].conflict /\ run[v].job = "confirm" /\ Goto(v, "handle") /\ UNCHANGED owner
    /\ UNCHANGED <<durable, resLock, git, world, mem, faults, hist>>

\* A request that ends without a claim.
Answer(v) ==
    /\ At(v, "answer")
    /\ End(v, NoOp)
    /\ UNCHANGED <<durable, resLock, git, world, mem, faults, hist>>
-----------------------------------------------------------------------------
(* confirm.                                                                 *)

\* The HTTP layer, up to the owner lock.  A handle recorded as given up needs
\* no lock; without the lock only a handle known to have no receipt is told
\* that nothing was attempted; an unconfirmed preview passes the gate again.
Confirm(v, o) ==
    LET m == mem[v]
        preview == m.kind = "previewed" /\ m.held = o
    IN  /\ At(v, "idle")
        /\ res[o].state \notin {"none", "capturing", "removed"}
        /\ \/ o \in m.unpublished /\ End(v, o)
           \/ /\ o \notin m.unpublished /\ ~CanOpen
              /\ End(v, IF preview \/ m.receiptless = o THEN o ELSE NoOp)
           \/ /\ o \notin m.unpublished /\ CanOpen
              /\ owner' = v
              /\ run' = [run EXCEPT ![v] =
                    [Request(v, "confirm", o, IF preview THEN "list" ELSE "handle") EXCEPT
                        !.todo = IF preview THEN {p \in Ops : receipt[p] # "none"} ELSE {},
                        !.again = ~preview]]
        /\ UNCHANGED <<durable, resLock, git, world, mem, faults, hist>>

\* Candidates::confirm.  Only a handle given up unpublished, a releasing
\* candidate and an expired preview are refused definitely.
Handle(v) ==
    LET o == run[v].op
        m == LetIfSpent(mem[v])
        mine == m.held = o
        live == m.kind \in {"previewed", "confirmed"} /\ mine
        expired == m.kind = "previewed" /\ o \in old
        may == CanLock /\ res[o].state \in {"sealed", "confirmed", "retained"} /\ Verified(o)
    IN  /\ At(v, "handle")
        /\ \/ /\ ~live
              /\ End(v, IF o \in m.unpublished \/ (m.kind = "releasing" /\ mine)
                        THEN o ELSE NoOp)
              /\ mem' = [mem EXCEPT ![v] = m]
              /\ UNCHANGED <<res, resLock, litter, faults>>
           \/ /\ live /\ expired
              /\ run' = [run EXCEPT ![v].job = "expired", ![v].pc = "discard"]
              /\ UNCHANGED <<mem, owner, res, resLock, litter, faults>>
           \/ /\ live /\ ~expired /\ ~may
              /\ Goto(v, "answer")
              /\ UNCHANGED <<mem, owner, res, resLock, litter, faults>>
           \/ /\ live /\ ~expired /\ may
              /\ SaveResource(v, IF res[o].state = "retained" THEN res[o]
                                 ELSE [res[o] EXCEPT !.state = "confirmed"],
                              Nobody, "load", "answer")
              /\ mem' = IF run'[v].pc = "load"
                        THEN [mem EXCEPT ![v].kind = "confirmed"] ELSE mem
              /\ UNCHANGED owner
        /\ UNCHANGED <<receipt, gen, roots, git, world, hist>>

\* Resources::preparation_recorded: the commit's pin outlives a lost receipt.
PreparationRecorded(o) == res[o].commit # "none"

\* confirm_observed up to the durable commit intent: a receipt is
\* reconciled; a recorded preparation without one stays unavailable; any
\* other failed prerequisite is a definite refusal.
Load(v) ==
    LET o == run[v].op
        readable == "resources" \notin litter
        recorded == PreparationRecorded(o)
    IN  /\ At(v, "load")
        /\ \/ /\ receipt[o] # "none" \/ "receipts" \in litter
              /\ Goto(v, "finish") /\ NoFault
           \/ /\ receipt[o] = "none" /\ "receipts" \notin litter
              /\ \/ readable /\ recorded /\ Goto(v, "finish") /\ NoFault
                 \/ readable /\ ~recorded /\ Admitted(o) /\ stale
                    /\ Abandon(v, "refused", "stale") /\ NoFault
                 \/ readable /\ ~recorded /\ Admitted(o) /\ ~stale /\ local[o] = "absent"
                    /\ Goto(v, "preparing") /\ NoFault
                 \/ /\ ~readable \/ (~recorded /\ (~Admitted(o) \/ local[o] # "absent"))
                    /\ Abandon(v, "refused", "other") /\ NoFault
                 \/ Abandon(v, "refused", "other") /\ Fault("unavailable")
        /\ UNCHANGED <<durable, locks, git, world, mem, hist>>

\* Mutant of Preparing: every failed write is taken for a definite refusal.
PreparingOrRefused(v) ==
    /\ At(v, "preparing")
    /\ Persist(v, "preparing", 0, "commit_tree", "refused")
    /\ UNCHANGED <<res, roots, locks, git, world, mem, hist>>

\* Persist Preparing.  If that failed and no receipt is there, commit-tree
\* was never invoked and the refusal is definite.
Preparing(v) ==
    LET o == run[v].op
    IN  /\ At(v, "preparing")
        /\ \/ /\ Persist(v, "preparing", 0, "commit_tree", "finish")
              /\ receipt'[o] # "none" \/ "receipts" \in litter'
           \/ /\ Fault("save") /\ UNCHANGED <<receipt, gen, litter>>
              /\ Abandon(v, "refused", "uncertain")
        /\ UNCHANGED <<res, roots, locks, git, world, mem, hist>>

\* The one commit-tree invocation.
CommitTree(v) ==
    LET o == run[v].op
    IN  /\ At(v, "commit_tree")
        /\ hist' = [hist EXCEPT !.commits[o] = @ + 1]
        /\ \/ Goto(v, "commit_known") /\ NoFault
           \/ Abandon(v, "finish", "other") /\ Fault("unavailable")
        /\ UNCHANGED <<durable, locks, git, world, mem>>

CommitKnown(v) ==
    /\ At(v, "commit_known")
    /\ Persist(v, "commit_known", 0, "pin", "finish")
    /\ UNCHANGED <<res, roots, locks, git, world, mem, hist>>

\* Resources::known_commit.
PinCommit(v) ==
    LET may == CanLock /\ res[run[v].op].state = "confirmed" /\ res[run[v].op].commit = "none"
    IN  \/ At(v, "pin") /\ may /\ PinIntent(v, "commit", "pin", "pin_ref", "finish")
        \/ /\ At(v, "pin") /\ ~may /\ Abandon(v, "finish", "uncertain")
           /\ UNCHANGED <<durable, locks, git, world, mem, faults, hist>>
        \/ PinRef(v, "commit", "pin_ref", "pin_own", "finish")
        \/ PinOwn(v, "commit", "pin_own", "prepared", "finish")

Prepared(v) ==
    /\ At(v, "prepared")
    /\ Persist(v, "prepared", 0, "publish_local", "finish")
    /\ UNCHANGED <<res, roots, locks, git, world, mem, hist>>

\* The answer to a refused confirmation; a stale authority releases the
\* candidate.
AnswerRefused(v) ==
    LET o == run[v].op
    IN  /\ At(v, "refused")
        /\ \/ /\ run[v].problem = "stale"
              /\ mem' = [mem EXCEPT ![v].receiptless = o, ![v].kind = "releasing"]
              /\ run' = [run EXCEPT ![v].job = "release", ![v].pc = "retire"]
              /\ UNCHANGED owner
           \/ /\ run[v].problem # "stale"
              /\ mem' = [mem EXCEPT ![v].receiptless = o]
              /\ End(v, o)
        /\ UNCHANGED <<durable, resLock, git, world, faults, hist>>
-----------------------------------------------------------------------------
(* Publication.                                                             *)

\* publish_local up to Git's prepared transaction, which holds the branch's
\* lock until it commits or aborts.
PublishLocal(v) ==
    LET o == run[v].op
        may == Rooted(o) /\ ~stale /\ local[o] = "absent"
    IN  /\ At(v, "publish_local")
        /\ \/ may /\ Goto(v, "local_attempt") /\ NoFault
           \/ ~may /\ Abandon(v, "finish", "other") /\ NoFault
           \/ Abandon(v, "finish", "other") /\ Fault("unavailable")
        /\ UNCHANGED <<durable, locks, git, world, mem, hist>>

\* A failed write aborts the transaction.
LocalAttempt(v) ==
    /\ At(v, "local_attempt")
    /\ Persist(v, "local_attempt", 0, "install", "finish")
    /\ UNCHANGED <<res, roots, locks, git, world, mem, hist>>

\* The transaction commits; its acknowledgment, or the flush, may be lost.
Install(v) ==
    LET o == run[v].op
    IN  /\ At(v, "install")
        /\ \/ /\ local' = [local EXCEPT ![o] = "commit"]
              /\ hist' = [hist EXCEPT !.branches[o] = @ + 1]
              /\ \/ Goto(v, "local_published") /\ NoFault
                 \/ Abandon(v, "finish", "uncertain") /\ Fault("unavailable")
           \/ /\ UNCHANGED <<local, hist>>
              /\ Abandon(v, "finish", "other") /\ Fault("unavailable")
        /\ UNCHANGED <<durable, locks, remote, flight, world, mem>>

LocalPublished(v) ==
    /\ At(v, "local_published")
    /\ Persist(v, "local_published", 0, "publish_remote", "finish")
    /\ UNCHANGED <<res, roots, locks, git, world, mem, hist>>

\* publish_remote up to its first write: the remote branch is absent, or
\* already the commit.
PublishRemote(v) ==
    LET o == run[v].op
        may == Rooted(o) /\ ~stale /\ local[o] = "commit" /\ gen[o] < MaxGen
        to(l) == run' = [run EXCEPT ![v].pc = l, ![v].next = gen[o] + 1]
    IN  /\ At(v, "publish_remote")
        /\ \/ may /\ remote[o] = "absent" /\ to("remote_attempt") /\ NoFault
           \/ may /\ remote[o] = "commit" /\ to("remote_delivered") /\ NoFault
           \/ ~(may /\ remote[o] \in {"absent", "commit"})
              /\ Abandon(v, "finish", "other") /\ NoFault
           \/ Abandon(v, "finish", "other") /\ Fault("unavailable")
        /\ UNCHANGED <<durable, locks, git, world, mem, hist>>

RemoteAttempt(v) ==
    /\ At(v, "remote_attempt")
    /\ Persist(v, "remote_attempt", run[v].next, "authorize", "finish")
    /\ UNCHANGED <<res, roots, locks, git, world, mem, hist>>

\* authorized_push, up to the push.
Authorize(v) ==
    LET o == run[v].op
    IN  /\ At(v, "authorize")
        /\ \/ Rooted(o) /\ Goto(v, "push")
           \/ ~Rooted(o) /\ Abandon(v, "finish", "uncertain")
        /\ UNCHANGED <<durable, locks, git, world, mem, faults, hist>>

\* transport::push, which expects the branch absent: it lands, it is
\* refused, or its answer is lost and it may land later.
Push(v) ==
    LET o == run[v].op
    IN  /\ At(v, "push")
        /\ \/ /\ remote[o] = "absent" /\ remote' = [remote EXCEPT ![o] = "commit"]
              /\ Goto(v, "remote_delivered") /\ UNCHANGED flight /\ NoFault
           \/ /\ remote[o] # "absent"
              /\ Abandon(v, "finish", "other") /\ UNCHANGED <<remote, flight>> /\ NoFault
           \/ /\ flight' = flight \cup {o} /\ UNCHANGED remote
              /\ Abandon(v, "finish", "other") /\ Fault("delay")
        /\ hist' = [hist EXCEPT !.pushes[o][run[v].req] = @ + 1,
                                !.landed = IF remote'[o] = "commit" THEN @ \cup {o} ELSE @]
        /\ UNCHANGED <<durable, locks, local, world, mem>>

RemoteDelivered(v) ==
    /\ At(v, "remote_delivered")
    /\ Persist(v, "remote_delivered", run[v].next, "finish", "finish")
    /\ UNCHANGED <<res, roots, locks, git, world, mem, hist>>
-----------------------------------------------------------------------------
(* The requests about a recorded operation.                                 *)

\* A request that opens the publications and works on one operation.
OpenFor(v, j, o, l) ==
    /\ At(v, "idle") /\ CanOpen
    /\ owner' = v
    /\ run' = [run EXCEPT ![v] = Request(v, j, o, l)]
    /\ UNCHANGED <<durable, resLock, git, world, mem, faults, hist>>

\* recover, and each receipt `list` shows: read and reconcile only.
Recover(v, o) == receipt[o] # "none" /\ OpenFor(v, "retry", o, "finish")

\* retry: only work without a durable attempt goes on.
Retry(v, o) == receipt[o] # "none" /\ OpenFor(v, "retry", o, "resume")

\* resume_preparation: an acknowledged root completes the receipt.
Resume(v) ==
    LET o == run[v].op
        owned == res[o].commit = "owned" /\ "resources" \notin litter
    IN  /\ At(v, "resume")
        /\ \/ /\ receipt[o] = "commit_known" /\ owned /\ Rooted(o)
              /\ Persist(v, "prepared", 0, "publish_local", "finish")
           \/ /\ receipt[o] = "commit_known" /\ ~(owned /\ Rooted(o))
              /\ Goto(v, "finish") /\ UNCHANGED <<receipt, gen, litter, faults>>
           \/ /\ receipt[o] # "commit_known"
              /\ Goto(v, CASE receipt[o] = "prepared"        -> "publish_local"
                           [] receipt[o] = "local_published" -> "publish_remote"
                           [] OTHER                          -> "finish")
              /\ UNCHANGED <<receipt, gen, litter, faults>>
        /\ UNCHANGED <<res, roots, locks, git, world, mem, hist>>

\* republish names a generation the page was shown; any request may be
\* repeated or late.
Republish(v, o, g) ==
    /\ receipt[o] # "none" /\ g <= gen[o]
    /\ At(v, "idle") /\ CanOpen
    /\ owner' = v
    /\ run' = [run EXCEPT ![v] =
          [Request(v, "republish", o,
                   IF receipt[o] \in Published /\ g = gen[o] /\ g # 0 /\ g < MaxGen
                   THEN "regenerate" ELSE "finish") EXCEPT !.req = g, !.next = g]]
    /\ UNCHANGED <<durable, resLock, git, world, mem, faults, hist>>

\* Mutant of Regenerate: the remote is observed first.
RegenerateAfter(v) ==
    /\ At(v, "regenerate")
    /\ Goto(v, "republish")
    /\ UNCHANGED <<durable, locks, git, world, mem, faults, hist>>

\* The request is consumed before the remote is observed.
Regenerate(v) ==
    /\ At(v, "regenerate")
    /\ Persist(v, "remote_attempt", run[v].next + 1, "republish", "finish")
    /\ UNCHANGED <<res, roots, locks, git, world, mem, hist>>

Reobserve(v) ==
    LET o == run[v].op
        may == ~stale /\ local[o] = "commit"
        to(l) == run' = [run EXCEPT ![v].pc = l, ![v].next = @ + 1]
    IN  /\ At(v, "republish")
        /\ \/ may /\ remote[o] = "absent" /\ to("authorize") /\ NoFault
           \/ may /\ remote[o] = "commit" /\ to("remote_delivered") /\ NoFault
           \/ ~(may /\ remote[o] # "other") /\ Abandon(v, "finish", "other") /\ NoFault
           \/ Abandon(v, "finish", "other") /\ Fault("unavailable")
        /\ UNCHANGED <<durable, locks, git, world, mem, hist>>

\* cleanup: only a delivered operation's snapshot and base root retire.
Cleanup(v, o) ==
    /\ receipt[o] # "none"
    /\ OpenFor(v, "cleanup", o, IF receipt[o] = "remote_delivered" THEN "retire" ELSE "finish")

\* Mutant of Forget: a publication that is not delivered can be forgotten.
ForgetPublished(v, o) ==
    /\ res[o].state \notin {"none", "removed"}
    /\ OpenFor(v, "forget", o,
               CASE receipt[o] \in Published -> "retire"
                 [] receipt[o] = "none"      -> "removed"
                 [] OTHER                    -> "answer")

\* forget: only a delivered receipt; without one, only the report.
Forget(v, o) ==
    /\ res[o].state \notin {"none", "removed"}
    /\ OpenFor(v, "forget", o,
               CASE receipt[o] = "remote_delivered" -> "retire"
                 [] receipt[o] = "none"             -> "removed"
                 [] OTHER                           -> "answer")

\* The last step of forget: the receipt goes, its resources being spent.
RemoveReceipt(v) ==
    LET o == run[v].op
    IN  /\ At(v, "remove")
        /\ \/ receipt' = [receipt EXCEPT ![o] = "none"] /\ Goto(v, "removed") /\ NoFault
           \/ /\ receipt' \in {receipt, [receipt EXCEPT ![o] = "none"]}
              /\ Goto(v, "answer") /\ Fault("save")
        /\ UNCHANGED <<gen, res, roots, litter, locks, git, world, mem, hist>>

\* The report of a retirement: a spent operation is let go.
Report(v) ==
    LET o == run[v].op
    IN  /\ At(v, "removed")
        /\ mem' = [mem EXCEPT ![v] = IF res[o].state = "spent" THEN Let(@, o) ELSE @]
        /\ End(v, NoOp)
        /\ UNCHANGED <<durable, resLock, git, world, faults, hist>>

\* recover_resources: a preview without a receipt may have expired; a
\* retirement that began is resumed.
RecoverResources(v, o) ==
    /\ res[o].state \notin {"none", "removed"}
    /\ OpenFor(v, "resources", o,
               IF receipt[o] = "none" /\ res[o].state = "sealed" /\ o \in old THEN "discard"
               ELSE IF res[o].state = "retiring" THEN "retire" ELSE "removed")

\* `alternative`: the workflow may start a sibling of a delivered result.
Alternative(v, o) ==
    LET m == mem[v]
    IN  /\ At(v, "idle") /\ CanOpen /\ receipt[o] # "none"
        /\ \E d \in BOOLEAN :
              /\ Reconcile(o, d)
              /\ mem' = IF d /\ (m.kind = "none" \/ (m.kind = "confirmed" /\ m.held = o))
                        THEN [mem EXCEPT ![v].kind = "none", ![v].held = NoOp,
                                         ![v].alternative = TRUE]
                        ELSE mem
        /\ run' = [run EXCEPT ![v] = Fresh]
        /\ UNCHANGED <<gen, res, roots, locks, git, world, hist>>

\* What a request does once its retirement is done.
Retired(v) ==
    LET o == run[v].op
    IN  /\ At(v, "retired")
        /\ \/ /\ run[v].job = "preview" /\ res[o].state = "removed"
              /\ End(v, NoOp) /\ UNCHANGED mem
           \/ /\ run[v].job = "preview" /\ res[o].state # "removed"
              /\ mem' = [mem EXCEPT ![v] = GiveUp(@, o)]
              /\ run' = [run EXCEPT ![v].op = NoOp, ![v].pc = "capture"] /\ UNCHANGED owner
           \/ /\ run[v].job \in {"withdraw", "conflict", "expired", "release"}
              /\ mem' = [mem EXCEPT ![v] = GiveUp(@, o)]
              /\ End(v, IF run[v].job = "withdraw" THEN NoOp ELSE o)
           \/ /\ run[v].job \in {"cleanup", "forget", "resources"}
              /\ Goto(v, CASE run[v].job = "cleanup" -> "finish"
                           [] run[v].job = "forget"  -> "remove"
                           [] OTHER                  -> "removed")
              /\ UNCHANGED <<mem, owner>>
        /\ UNCHANGED <<durable, resLock, git, world, faults, hist>>

\* And once it has failed.
Unretired(v) ==
    LET o == run[v].op
    IN  /\ At(v, "unretired")
        /\ \/ run[v].job = "cleanup" /\ Goto(v, "finish") /\ UNCHANGED owner
           \/ /\ run[v].job # "cleanup"
              /\ End(v, IF run[v].job \in {"conflict", "release"} THEN o ELSE NoOp)
        /\ UNCHANGED <<durable, resLock, git, world, mem, faults, hist>>
-----------------------------------------------------------------------------
(* What happens around the viewers.                                         *)

\* A viewer dies.  Its memory and locks go; a push it started may land.
Crash(v) ==
    LET o == run[v].op
        pushing == At(v, "push")
    IN  /\ Fault("crash")
        /\ run' = [run EXCEPT ![v] = Fresh]
        /\ mem' = [mem EXCEPT ![v] = Blank]
        /\ owner' = IF owner = v THEN Nobody ELSE owner
        /\ resLock' = IF resLock = v THEN Nobody ELSE resLock
        /\ \/ UNCHANGED <<flight, hist>>
           \/ /\ pushing /\ flight' = flight \cup {o}
              /\ hist' = [hist EXCEPT !.pushes[o][run[v].req] = @ + 1]
        /\ UNCHANGED <<durable, local, remote, world>>

\* A push whose answer was lost reaches the remote.
Land(o) ==
    /\ o \in flight
    /\ flight' = flight \ {o}
    /\ remote' = [remote EXCEPT ![o] = IF @ = "absent" THEN "commit" ELSE @]
    /\ hist' = [hist EXCEPT !.landed = IF remote[o] = "absent" THEN @ \cup {o} ELSE @]
    /\ UNCHANGED <<durable, locks, local, world, run, mem, faults>>

\* Somebody deletes or replaces a branch; Git's lock protects a prepared one.
TouchLocal(o) ==
    /\ Fault("branch")
    /\ \A v \in Viewers : run[v].op = o => run[v].pc \notin {"local_attempt", "install"}
    /\ \E r \in {"absent", "other"} : r # local[o] /\ local' = [local EXCEPT ![o] = r]
    /\ UNCHANGED <<durable, locks, remote, flight, world, run, mem, hist>>

TouchRemote(o) ==
    /\ Fault("remote")
    /\ \E r \in {"absent", "other"} : r # remote[o] /\ remote' = [remote EXCEPT ![o] = r]
    /\ UNCHANGED <<durable, locks, local, flight, world, run, mem, hist>>

\* The remote base moves, the destination or the signing policy changes, or
\* what changed is put back.
ChangeAuthority ==
    /\ Fault("authority") /\ stale' = ~stale
    /\ UNCHANGED <<durable, locks, git, old, run, mem, hist>>

\* A day passes over a preview.
Age(o) ==
    /\ Fault("age") /\ o \notin old /\ old' = old \cup {o}
    /\ UNCHANGED <<durable, locks, git, stale, run, mem, hist>>

\* A receipt goes missing after its commit was given a root.
Vanish(o) ==
    /\ Fault("vanish") /\ owner = Nobody
    /\ receipt[o] # "none" /\ res[o].commit # "none"
    /\ receipt' = [receipt EXCEPT ![o] = "none"]
    /\ hist' = [hist EXCEPT !.vanished = @ \cup {o}]
    /\ UNCHANGED <<gen, res, roots, litter, locks, git, world, run, mem>>

\* A person resolves the temporary files.
Resolve ==
    /\ litter # {} /\ litter' = {}
    /\ UNCHANGED <<receipt, gen, res, roots, locks, git, world, run, mem, faults, hist>>
-----------------------------------------------------------------------------
\* A step of the request in hand.
Step(v) ==
    \/ StartRetirement(v) \/ RetireSnapshot(v) \/ RetireBase(v) \/ RetireCommit(v)
    \/ EndRetirement(v) \/ Retired(v) \/ Unretired(v)
    \/ Capture(v) \/ BeginRecord(v) \/ PinBase(v) \/ Seal(v) \/ AdmitBase(v)
    \/ (\E o \in Ops : ListOne(v, o)) \/ Unlisted(v) \/ Gated(v) \/ Handle(v) \/ Load(v)
    \/ Preparing(v) \/ CommitTree(v) \/ CommitKnown(v) \/ PinCommit(v) \/ Prepared(v)
    \/ PublishLocal(v) \/ LocalAttempt(v) \/ Install(v) \/ LocalPublished(v)
    \/ PublishRemote(v) \/ RemoteAttempt(v) \/ Authorize(v) \/ Push(v)
    \/ RemoteDelivered(v) \/ Resume(v) \/ Regenerate(v) \/ Reobserve(v)
    \/ RemoveReceipt(v) \/ Report(v) \/ Finish(v) \/ Answer(v) \/ AnswerRefused(v)

\* A new request.
Ask(v) ==
    \/ Preview(v)
    \/ \E o \in Ops :
          \/ Confirm(v, o) \/ Recover(v, o) \/ Retry(v, o) \/ Cleanup(v, o)
          \/ Forget(v, o) \/ RecoverResources(v, o) \/ Alternative(v, o)
          \/ \E g \in 0..MaxGen : Republish(v, o, g)

Around ==
    \/ \E v \in Viewers : Crash(v)
    \/ \E o \in Ops : Land(o) \/ TouchLocal(o) \/ TouchRemote(o) \/ Age(o) \/ Vanish(o)
    \/ ChangeAuthority \/ Resolve

Next == (\E v \in Viewers : Step(v) \/ Ask(v)) \/ Around

Spec == Init /\ [][Next]_vars

\* A viewer runs the request it is answering to its end.
FairSpec == Spec /\ \A v \in Viewers : WF_vars(Step(v))
-----------------------------------------------------------------------------
(* Properties.                                                              *)

P == INSTANCE Publication WITH
        Operations <- Ops, Authorizations <- 0..MaxGen,
        made <- hist.commits, created <- hist.branches, sent <- hist.pushes

\* What the publisher promises: one commit-tree, one branch creation after
\* it, and one push per authorization, through deaths, lost answers, deleted
\* branches, vanished receipts and repeated requests (run.rs: "absence after
\* authorization is never permission to recreate a branch or regenerate a
\* commit"; "a replay after later deletion is not new informed
\* authorization").
Promised == P!PubSpec

\* Every resource record the transitions write passes the validation every
\* read and write applies (Resources::validate), so no interruption produces
\* a record recovery refuses.  Every variable keeps its type with it.
ShapeValid ==
    /\ TypeOK
    /\ \A o \in Ops :
        LET r == res[o]
        IN  /\ r.state = "none" => r = NoResource
            /\ r.state \in {"capturing", "sealed", "confirmed", "spent"} => ~r.keep
            /\ r.state \in {"removed", "spent"} => r.base = "none" /\ r.commit = "none"
            /\ r.state = "capturing" =>
                  /\ r.snapshot # "retired" /\ r.base # "retired" /\ r.commit = "none"
                  /\ r.base # "none" => r.snapshot = "live"
            /\ r.state \in {"sealed", "confirmed"} => r.snapshot = "live" /\ r.base = "owned"
            /\ r.state = "sealed" => r.commit = "none"
            /\ r.state = "confirmed" => r.commit # "retired"
            /\ r.state = "retiring" =>
                  /\ r.snapshot \in {"live", "retired"}
                  /\ r.base \in {"owned", "retired"}
                  /\ r.commit \in {"none", "owned", "retired"}
                  /\ r.keep => r.commit = "owned"
                  /\ r.snapshot # "retired" => r.base = "owned" /\ r.commit # "retired"
                  /\ r.commit = "retired" => r.base = "retired"
            /\ r.state = "retained" => r.keep /\ r.base = "retired" /\ r.commit = "owned"
            /\ r.state \in {"retained", "spent"} => r.snapshot = "retired"
            /\ r.rejected => r.state = "retiring" /\ ~r.keep /\ r.commit = "none"

\* No private ref is orphaned: a root that exists is one the operation's
\* record still names and has not recorded as retired, which is what the
\* census of begin and list demands before anything else is admitted.
NoOrphanRoot ==
    \A o \in Ops : \A k \in roots[o] : res[o][k] \in {"intent", "owned"}

\* An answer that tells the page nothing was published (410, not_attempted,
\* or a Refused outcome) is true: no receipt, no commit, no branch, unless
\* the receipt itself was lost.
NothingPublished ==
    \A v \in Viewers :
        LET o == run[v].said
        IN  o \in Ops \ hist.vanished
                => receipt[o] = "none" /\ hist.commits[o] = 0 /\ hist.branches[o] = 0

\* A handle a workflow recorded as given up unpublished stays unpublished,
\* whatever any viewer does later with it.
GivenUpIsFinal ==
    \A v \in Viewers : \A o \in mem[v].unpublished :
        receipt[o] = "none" /\ hist.commits[o] = 0

\* Until its delivery is authorized, a prepared operation's exact commit has
\* an acknowledged root that exists; an authorized one has it too unless
\* somebody asked to forget the receipt.
CommitRooted ==
    \A o \in Ops :
        LET rooted == res[o].commit = "owned" /\ "commit" \in roots[o]
            forgetting == res[o].state = "spent" \/ (res[o].state = "retiring" /\ ~res[o].keep)
        IN  /\ receipt[o] \in {"prepared", "local_attempt", "local_published"} => rooted
            /\ receipt[o] \in {"remote_attempt", "remote_delivered"} => rooted \/ forgetting

\* A receipt says delivered only of a commit the remote has held.
DeliveredHappened ==
    \A o \in Ops : receipt[o] = "remote_delivered" => o \in hist.landed

\* A confirmation that consumes a preview starts no second result beside a
\* receipt of the same base, unless that one is delivered and the workflow
\* asked for an alternative (#854, #874).
Starts(v, o) == /\ run[v].pc = "preparing" /\ run[v].op = o
                /\ receipt[o] = "none" /\ receipt'[o] = "preparing"

Sibling(v, o) == \E p \in Ops \ {o} :
                     /\ receipt[p] # "none"
                     /\ ~(receipt[p] = "remote_delivered" /\ mem[v].alternative)

PreviewStartsNoSibling ==
    [][\A v \in Viewers, o \in Ops :
          Starts(v, o) /\ ~run[v].again => ~Sibling(v, o)]_vars

\* docs/UI.md, of every confirmation: "if another viewer publishes from that
\* base after this preview was shown, confirming it is refused, nothing is
\* published" (compose_http.rs rechecks only an unconfirmed preview).
ConfirmationRechecked ==
    [][\A v \in Viewers, o \in Ops :
          Starts(v, o) => \A p \in Ops \ {o} :
              receipt[p] \in Published => mem[v].alternative]_vars

\* Every request ends, whatever fails and whoever holds the locks.
RequestsEnd == \A v \in Viewers : run[v].pc # "idle" ~> run[v].pc = "idle"
=============================================================================
