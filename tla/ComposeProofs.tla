--------------------------- MODULE ComposeProofs ---------------------------
(***************************************************************************)
(* Proofs about Compose, for any number of operations, viewers, delivery   *)
(* generations and faults.  The inductive invariant says what is true of   *)
(* each operation (OpOK), what a viewer at each point of a request knows   *)
(* of its operation (ViewerOK), and that at most one viewer has an         *)
(* operation that is not published yet (Alone).                            *)
(***************************************************************************)
EXTENDS Compose, TLAPS

\* The requests that give a candidate up: it is then unpublished.
Giving == {"preview", "withdraw", "conflict", "expired", "release"}

\* They do not hold owner.lock, but for the list.
Unowned == {"none", "preview", "withdraw"}

UnownedPoints == {"idle", "discard", "retire", "ret_snapshot", "ret_base", "ret_commit", "ret_end",
                  "retired", "unretired", "capture", "cap_record", "cap_snapshot", "cap_pin",
                  "cap_ref", "cap_own", "cap_check", "open", "list", "answer"}

Retiring == {"ret_snapshot", "ret_base", "ret_commit", "ret_end"}

Capturing == {"cap_record", "cap_snapshot", "cap_pin", "cap_ref", "cap_own", "cap_check"}

\* The points at which a viewer holds resources.lock.
Locking == (Retiring \cup Capturing \cup {"pin_ref", "pin_own"}) \ {"cap_check"}

\* confirm, from the confirmed record to the prepared receipt.
Confirming == {"load", "refused", "preparing", "commit_tree", "commit_known", "pin", "pin_ref",
               "pin_own", "prepared"}

\* What follows a receipt, in the requests that publish.
Publishing == {"publish_local", "local_attempt", "install", "local_published", "publish_remote",
               "remote_attempt"}

Delivering == {"authorize", "push", "remote_delivered"}

\* A confirmation that may have written its receipt.
Going == (Confirming \ {"load", "refused", "preparing"}) \cup Publishing \cup Delivering \cup {"finish"}

Owning(v) == run[v].job \notin Unowned \/ run[v].pc = "list"

\* The viewer is giving the candidate up, or capturing it.
GivesUp(v, o) == run[v].op = o /\ run[v].job \in Giving /\ run[v].pc # "answer"

Claims(v, o) == mem[v].held = o \/ GivesUp(v, o)

Unstarted(o) == receipt[o] = "none" /\ hist.commits[o] = 0

Unsent(o) == gen[o] = 0 /\ \A g \in 0..MaxGen : hist.pushes[o][g] = 0

Rooting(o) == res[o].commit = "owned" /\ "commit" \in roots[o]

Forgetting(o) == res[o].state = "spent" \/ (res[o].state = "retiring" /\ ~res[o].keep)

Early == {"preparing", "commit_known", "prepared", "local_attempt", "local_published"}

\* What every record the transitions write looks like (Resources::validate).
Shape(r) ==
    /\ r.state = "none" => r = NoResource
    /\ r.state \in {"capturing", "sealed", "confirmed", "spent"} => ~r.keep
    /\ r.state \in {"removed", "spent"} => r.base = "none" /\ r.commit = "none"
    /\ r.state = "capturing" =>
          /\ r.snapshot # "retired" /\ r.base # "retired" /\ r.commit = "none"
          /\ r.base # "none" => r.snapshot = "live"
    /\ r.state \in {"sealed", "confirmed"} => r.snapshot = "live" /\ r.base = "owned"
    /\ r.state = "sealed" => r.commit = "none"
    /\ r.state = "confirmed" => r.commit # "retired"
    /\ r.state = "retiring" =>
          /\ r.snapshot \in {"live", "retired"}
          /\ r.base \in {"owned", "retired"}
          /\ r.commit \in {"none", "owned", "retired"}
          /\ r.keep => r.commit = "owned"
          /\ r.snapshot # "retired" => r.base = "owned" /\ r.commit # "retired"
          /\ r.commit = "retired" => r.base = "retired"
    /\ r.state = "retained" => r.keep /\ r.base = "retired" /\ r.commit = "owned"
    /\ r.state \in {"retained", "spent"} => r.snapshot = "retired"
    /\ r.rejected => r.state = "retiring" /\ ~r.keep /\ r.commit = "none"

\* An operation's record and its private refs.
Sound(r, refs) ==
    /\ Shape(r)
    /\ "base" \in refs => r.base \in {"intent", "owned"}
    /\ "commit" \in refs => r.commit \in {"intent", "owned"}
    /\ /\ r.commit = "owned"
       /\ r.state \in {"confirmed", "retained"} \/ (r.state = "retiring" /\ r.keep)
       => "commit" \in refs

RecordOK(o) == Sound(res[o], roots[o])

\* An operation's receipt, beside its record and what was done.
ReceiptOK(o) ==
    /\ res[o].state \in {"none", "capturing", "sealed", "removed"} \/ res[o].rejected => Unstarted(o)
    /\ receipt[o] = "none" /\ hist.commits[o] # 0 =>
          res[o].state = "spent" \/ (o \in hist.vanished /\ res[o].commit # "none")
    /\ receipt[o] \in Early => res[o].state = "confirmed" /\ Unsent(o)
    /\ receipt[o] \in {"prepared", "local_attempt", "local_published"} => Rooting(o)
    /\ receipt[o] \in {"remote_attempt", "remote_delivered"} => Rooting(o) \/ Forgetting(o)

\* What was done for an operation.
DoneOK(o) ==
    /\ hist.commits[o] \in {0, 1} /\ hist.branches[o] \in {0, 1}
    /\ hist.commits[o] = 0 => hist.branches[o] = 0 /\ Unsent(o)
    /\ receipt[o] \notin {"none", "preparing"} => hist.commits[o] = 1
    /\ receipt[o] \in {"preparing", "commit_known", "prepared"} => hist.branches[o] = 0
    /\ receipt[o] \in Published \/ local[o] = "commit" => hist.branches[o] = 1
    /\ \A g \in 1..MaxGen : g >= gen[o] => hist.pushes[o][g] = 0
    /\ receipt[o] = "remote_delivered" \/ remote[o] = "commit" => o \in hist.landed

OpOK(o) == RecordOK(o) /\ ReceiptOK(o) /\ DoneOK(o)

\* Where a viewer is in its request, and which locks it then holds.
PlaceOK(v) ==
    LET r == run[v]
    IN  /\ r.job = "none" <=> r.pc = "idle"
        /\ r.pc \in {"idle", "capture"} <=> r.op = NoOp
        /\ r.job \in Unowned => r.pc \in UnownedPoints
        /\ r.pc \in Capturing \cup {"capture", "open"} => r.job = "preview"
        /\ r.pc = "list" => r.job \in {"preview", "confirm"}
        /\ r.pc \in Confirming \cup {"handle"} => r.job = "confirm"
        /\ r.pc = "resume" => r.job = "retry"
        /\ r.pc \in Publishing => r.job \in {"confirm", "retry"}
        /\ r.pc \in {"regenerate", "republish"} => r.job = "republish" /\ r.next < MaxGen
        /\ r.pc \in Delivering => r.job \in {"confirm", "retry", "republish"}
        /\ r.pc = "finish" => r.job \in {"confirm", "retry", "republish", "cleanup"}
        /\ r.pc = "remove" => r.job = "forget"
        /\ r.job \in {"confirm", "retry"} => r.req = 0
        /\ r.said # NoOp => r.pc = "idle"
        /\ Owning(v) => owner = v
        /\ r.pc \in Locking => resLock = v

\* What a viewer keeps between requests.
MemoryOK(v) ==
    LET m == mem[v]
    IN  /\ m.kind = "none" <=> m.held = NoOp
        /\ m.held \in Ops => res[m.held].state # "none"
        /\ m.kind \in {"previewed", "releasing"} => Unstarted(m.held)
        /\ run[v].pc \in Confirming => m.kind = "confirmed" /\ m.held = run[v].op
        /\ run[v].pc = "list" /\ run[v].job = "confirm" => m.kind = "previewed" /\ m.held = run[v].op

\* Nobody but v can start o.
Only(v, o) == res[o].state # "none" /\ \A u \in Viewers : Claims(u, o) => u = v

\* What a viewer has said, or will say, of an operation.
SayingOK(v) ==
    /\ run[v].said \in Ops => /\ Only(v, run[v].said)
                              /\ Unstarted(run[v].said) \/ run[v].said \in hist.vanished
    /\ \A o \in mem[v].unpublished : /\ res[o].state # "none" /\ Unstarted(o)
                                     /\ \A u \in Viewers : ~Claims(u, o)
    /\ mem[v].receiptless \in Ops =>
          /\ Only(v, mem[v].receiptless)
          /\ \/ Unstarted(mem[v].receiptless) \/ mem[v].receiptless \in hist.vanished
             \/ run[v].op = mem[v].receiptless /\ run[v].job = "confirm" /\ run[v].pc \in Going

\* What a viewer that captures or retires knows of the record.
HandsOK(v) ==
    LET l == run[v].pc
        r == res[run[v].op]
    IN  /\ l = "cap_record" => r = NoResource
        /\ l \in Capturing \ {"cap_record"} => r.state = "capturing"
        /\ l = "cap_snapshot" => r.snapshot = "none" /\ r.base = "none"
        /\ l \in {"cap_pin", "cap_ref", "cap_own", "cap_check"} => r.snapshot = "live"
        /\ l = "cap_pin" => r.base = "none"
        /\ l \in {"cap_ref", "cap_own"} => r.base = "intent"
        /\ l = "cap_own" => "base" \in roots[run[v].op]
        /\ l = "cap_check" => r.base = "owned"
        /\ l \in Retiring => /\ r.state = "retiring"
                             /\ run[v].job # "resources" => r.keep = (run[v].job = "cleanup")
        /\ l \in Retiring \ {"ret_snapshot"} => r.snapshot = "retired"
        /\ l \in {"ret_commit", "ret_end"} => r.base = "retired"
        /\ l = "ret_end" => r.keep \/ r.commit \in {"none", "retired"}

\* Whose retirement it is.
RetireOK(v) ==
    LET l == run[v].pc
        o == run[v].op
    IN  /\ o \in Ops /\ GivesUp(v, o) => Unstarted(o) /\ (res[o].state # "none" \/ l = "cap_record")
        /\ run[v].job \in {"cleanup", "forget"} /\ l \in Retiring \cup {"discard", "retire"} =>
              l # "discard" /\ receipt[o] = "remote_delivered"
        /\ run[v].job = "resources" /\ l = "retire" => res[o].state \in {"retiring", "spent", "removed"}
        /\ run[v].job = "resources" /\ l = "discard" => Unstarted(o)
        /\ l \in {"discard", "retire"} \cup Retiring =>
              run[v].job \in Giving \cup {"cleanup", "forget", "resources"}
        /\ l = "remove" \/ (l = "retired" /\ run[v].job = "forget") => res[o].state = "spent"

\* What a viewer that publishes knows of the receipt.
StageOK(v) ==
    LET l == run[v].pc
        o == run[v].op
    IN  /\ l = "load" => res[o].state \in {"confirmed", "retained"}
        /\ l = "preparing" => Unstarted(o) /\ res[o].state = "confirmed" /\ res[o].commit = "none"
        /\ l = "refused" => /\ receipt[o] = "none"
                            /\ hist.commits[o] = 0 \/ o \in hist.vanished
                            /\ run[v].problem = "stale" => hist.commits[o] = 0
        /\ l = "commit_tree" => receipt[o] = "preparing" /\ hist.commits[o] = 0
        /\ l = "commit_known" => receipt[o] = "preparing" /\ hist.commits[o] = 1
        /\ l \in {"pin", "pin_ref", "pin_own", "prepared"} => receipt[o] = "commit_known"
        /\ l \in {"pin_ref", "pin_own"} => res[o].commit = "intent"
        /\ l = "pin_own" => "commit" \in roots[o]
        /\ l = "prepared" => Rooting(o)
        /\ l \in {"publish_local", "local_attempt"} => receipt[o] = "prepared"
        /\ l = "install" => receipt[o] = "local_attempt" /\ hist.branches[o] = 0
        /\ l = "local_published" => receipt[o] = "local_attempt" /\ hist.branches[o] = 1
        /\ l \in {"publish_remote", "remote_attempt"} => receipt[o] = "local_published"
        /\ l = "remote_attempt" => run[v].next = 1
        /\ l \in {"authorize", "push"} =>
              receipt[o] = "remote_attempt" /\ gen[o] = run[v].next /\ hist.pushes[o][run[v].req] = 0
        /\ l \in {"authorize", "push", "republish"} => run[v].req < gen[o]
        /\ l = "remote_delivered" =>
              /\ receipt[o] \in {"local_published", "remote_attempt"} /\ o \in hist.landed
              /\ run[v].next >= 1 /\ run[v].next >= gen[o]
        /\ l = "regenerate" =>
              /\ receipt[o] \in {"remote_attempt", "remote_delivered"}
              /\ gen[o] = run[v].next /\ run[v].next = run[v].req /\ run[v].next >= 1
        /\ l = "republish" =>
              /\ receipt[o] = "remote_attempt" /\ gen[o] = run[v].next + 1
              /\ hist.pushes[o][run[v].req] = 0

ViewerOK(v) ==
    PlaceOK(v) /\ MemoryOK(v) /\ SayingOK(v) /\ HandsOK(v) /\ RetireOK(v) /\ StageOK(v)

\* One viewer at most has an operation that is not published yet.
Alone == \A u, v \in Viewers : \A o \in Ops : Claims(u, o) /\ Claims(v, o) => u = v

IInv ==
    /\ TypeOK
    /\ \A o \in Ops : OpOK(o)
    /\ \A v \in Viewers : ViewerOK(v)
    /\ Alone
-----------------------------------------------------------------------------
(* What a step of one viewer leaves alone.                                  *)

Same(p) ==
    /\ res'[p] = res[p] /\ roots'[p] = roots[p]
    /\ receipt'[p] = receipt[p] /\ gen'[p] = gen[p]
    /\ local'[p] = local[p] /\ remote'[p] = remote[p]
    /\ hist'.commits[p] = hist.commits[p] /\ hist'.branches[p] = hist.branches[p]
    /\ hist'.pushes[p] = hist.pushes[p]

\* A step of v that works on o.
Frame(v, o) ==
    /\ \A u \in Viewers \ {v} : /\ run'[u] = run[u] /\ mem'[u] = mem[u]
                                /\ owner = u => owner' = u
                                /\ resLock = u => resLock' = u
    /\ \A p \in Ops \ {o} : Same(p)
    /\ hist.landed \subseteq hist'.landed /\ hist'.vanished = hist.vanished

\* What the locks and the claims promise the other viewers of it.
Spares(v, o) ==
    /\ owner \notin {v, Nobody} =>
          /\ receipt'[o] = receipt[o] /\ gen'[o] = gen[o]
          /\ hist'.commits[o] = hist.commits[o] /\ hist'.branches[o] = hist.branches[o]
          /\ hist'.pushes[o] = hist.pushes[o]
    /\ resLock \notin {v, Nobody} => res'[o] = res[o] /\ roots'[o] = roots[o]
    /\ \/ res'[o] = res[o] /\ roots'[o] = roots[o]
       \/ owner = v /\ res[o].state # "capturing"
       \/ GivesUp(v, o)
    /\ res[o].state # "none" => res'[o].state # "none"
    /\ res[o].state = "spent" => res'[o].state = "spent"
    /\ owner # v /\ res[o].state \in {"retiring", "spent", "removed"} =>
          res'[o].state \in {"retiring", "spent", "removed"}
    /\ Unstarted(o) => Unstarted(o)' \/ (mem[v].held = o /\ mem[v].kind = "confirmed")
    /\ \A p \in Ops : Claims(v, p)' =>
          Claims(v, p) \/ (res[p].state = "none" /\ resLock = Nobody)

\* The other viewers' claims are what they were.
LEMMA OthersClaim ==
    ASSUME NEW v \in Viewers, NEW o, Frame(v, o), NEW u \in Viewers, u # v, NEW p
    PROVE  Claims(u, p)' <=> Claims(u, p)
BY DEF Frame, Claims, GivesUp

LEMMA OthersUnstarted ==
    ASSUME NEW v \in Viewers, NEW o, Frame(v, o), Spares(v, o),
           NEW p \in Ops, Unstarted(p), mem[v].held # p
    PROVE  Unstarted(p)'
BY DEF Frame, Same, Spares, Unstarted

LEMMA OthersKnown ==
    ASSUME NEW v \in Viewers, NEW o, Frame(v, o), Spares(v, o),
           NEW p \in Ops, res[p].state # "none"
    PROVE  res'[p].state # "none"
BY DEF Frame, Same, Spares

LEMMA OthersPlace ==
    ASSUME NEW v \in Viewers, NEW o, Frame(v, o), NEW u \in Viewers, u # v, PlaceOK(u)
    PROVE  PlaceOK(u)'
<1>1. run'[u] = run[u] /\ (owner = u => owner' = u) /\ (resLock = u => resLock' = u)
  BY DEF Frame
<1> QED
  BY <1>1 DEF PlaceOK, Owning

LEMMA OthersMemory ==
    ASSUME TypeOK, Alone, NEW v \in Viewers, NEW o, Frame(v, o), Spares(v, o),
           NEW u \in Viewers, u # v, MemoryOK(u)
    PROVE  MemoryOK(u)'
<1>1. run'[u] = run[u] /\ mem'[u] = mem[u]
  BY DEF Frame
<1>2. mem[u] \in Memories
  BY DEF TypeOK
<1>3. ASSUME mem[u].held \in Ops PROVE res'[mem[u].held].state # "none"
  BY <1>3, OthersKnown DEF MemoryOK
<1>4. ASSUME mem[u].kind \in {"previewed", "releasing"} PROVE Unstarted(mem[u].held)'
  <2>1. mem[u].held \in Ops /\ Unstarted(mem[u].held)
    BY <1>2, <1>4 DEF MemoryOK, Memories
  <2>2. mem[v].held # mem[u].held
    BY <2>1 DEF Alone, Claims
  <2>3. Unstarted(mem[u].held)'
    <3> DEFINE p == mem[u].held
    <3>1. p \in Ops /\ Unstarted(p) /\ mem[v].held # p
      BY <2>1, <2>2
    <3> HIDE DEF p
    <3>2. receipt'[p] = "none" /\ hist'.commits[p] = 0
      BY <3>1, OthersUnstarted DEF Unstarted
    <3> QED
      BY <1>1, <3>2 DEF Unstarted, p
  <2> QED
    BY <2>3
<1> QED
  BY <1>1, <1>3, <1>4 DEF MemoryOK

LEMMA OthersSaying ==
    ASSUME TypeOK, Alone, NEW v \in Viewers, NEW o, Frame(v, o), Spares(v, o),
           NEW u \in Viewers, u # v, SayingOK(u)
    PROVE  SayingOK(u)'
<1>1. run'[u] = run[u] /\ mem'[u] = mem[u] /\ hist'.vanished = hist.vanished
  BY DEF Frame
<1>2. mem[u] \in Memories /\ run[u] \in Runs
  BY DEF TypeOK
<1>3. ASSUME NEW p \in Ops, Only(u, p)
      PROVE  /\ Only(u, p)'
             /\ Unstarted(p) => Unstarted(p)'
  <2>1. res'[p].state # "none"
    BY <1>3, OthersKnown DEF Only
  <2>2. \A w \in Viewers : Claims(w, p)' => w = u
    <3>1. ~Claims(v, p)
      BY <1>3 DEF Only
    <3>2. ~Claims(v, p)'
      BY <1>3, <3>1 DEF Only, Spares
    <3> QED
      BY <1>3, <3>2, OthersClaim DEF Only
  <2>3. Unstarted(p) => Unstarted(p)'
    <3>1. mem[v].held # p
      BY <1>3 DEF Only, Claims
    <3> QED
      BY <3>1, OthersUnstarted
  <2> QED
    BY <2>1, <2>2, <2>3 DEF Only
<1>4. ASSUME NEW p \in mem[u].unpublished
      PROVE  res'[p].state # "none" /\ Unstarted(p)' /\ \A w \in Viewers : ~Claims(w, p)'
  <2>1. p \in Ops /\ res[p].state # "none" /\ Unstarted(p) /\ \A w \in Viewers : ~Claims(w, p)
    BY <1>2, <1>4 DEF SayingOK, Memories
  <2>2. Only(u, p)
    BY <2>1 DEF Only
  <2>3. Only(u, p)' /\ Unstarted(p)'
    BY <1>3, <2>1, <2>2
  <2>4. ~Claims(u, p)'
    BY <2>1, OthersClaim
  <2> QED
    BY <2>3, <2>4 DEF Only
<1>5. run[u].said \in Ops => /\ Only(u, run[u].said)'
                             /\ Unstarted(run[u].said)' \/ run[u].said \in hist'.vanished
  <2> DEFINE p == run[u].said
  <2>1. p \in Ops => Only(u, p) /\ (Unstarted(p) \/ p \in hist.vanished)
    BY DEF SayingOK
  <2>3. p' = p
    BY <1>1 DEF p
  <2> HIDE DEF p
  <2>2. p \in Ops => Only(u, p)' /\ (Unstarted(p)' \/ p \in hist'.vanished)
    BY <1>1, <1>3, <2>1, <2>3
  <2> QED
    BY <1>1, <2>2, <2>3 DEF p, Only, Unstarted
<1>6. mem[u].receiptless \in Ops =>
          /\ Only(u, mem[u].receiptless)'
          /\ \/ Unstarted(mem[u].receiptless)' \/ mem[u].receiptless \in hist'.vanished
             \/ run[u].op = mem[u].receiptless /\ run[u].job = "confirm" /\ run[u].pc \in Going
  <2> DEFINE p == mem[u].receiptless
  <2>1. p \in Ops => /\ Only(u, p)
                     /\ \/ Unstarted(p) \/ p \in hist.vanished
                        \/ run[u].op = p /\ run[u].job = "confirm" /\ run[u].pc \in Going
    BY DEF SayingOK
  <2>3. p' = p
    BY <1>1 DEF p
  <2> HIDE DEF p
  <2>2. p \in Ops => /\ Only(u, p)'
                     /\ \/ Unstarted(p)' \/ p \in hist'.vanished
                        \/ run[u].op = p /\ run[u].job = "confirm" /\ run[u].pc \in Going
    BY <1>1, <1>3, <2>1, <2>3
  <2> QED
    BY <1>1, <2>2, <2>3 DEF p, Only, Unstarted
<1> QED
  BY <1>1, <1>4, <1>5, <1>6 DEF SayingOK

LEMMA OthersHands ==
    ASSUME TypeOK, Alone, Nobody \notin Viewers,
           NEW v \in Viewers, NEW o, Frame(v, o), Spares(v, o),
           NEW u \in Viewers, u # v, PlaceOK(u), PlaceOK(v), HandsOK(u)
    PROVE  HandsOK(u)'
<1>1. run'[u] = run[u]
  BY DEF Frame
<1>2. CASE run[u].pc \in Locking
  <2>1. resLock = u /\ run[u].op \in Ops
    BY <1>2 DEF PlaceOK, Locking, Retiring, Capturing, TypeOK, Runs
  <2>2. res'[run[u].op] = res[run[u].op] /\ roots'[run[u].op] = roots[run[u].op]
    BY <2>1 DEF Frame, Same, Spares
  <2> QED
    BY <1>1, <2>2 DEF HandsOK
<1>3. CASE run[u].pc = "cap_check"
  <2>1. run[u].op \in Ops /\ GivesUp(u, run[u].op)
    BY <1>3 DEF PlaceOK, Capturing, TypeOK, Runs, GivesUp, Giving
  <2>2. res[run[u].op].state = "capturing"
    BY <1>3 DEF HandsOK, Capturing
  <2>3. ~GivesUp(v, run[u].op)
    BY <2>1 DEF Alone, Claims
  <2>4. res'[run[u].op] = res[run[u].op] /\ roots'[run[u].op] = roots[run[u].op]
    BY <2>1, <2>2, <2>3 DEF Frame, Same, Spares
  <2> QED
    BY <1>1, <2>4 DEF HandsOK
<1>4. CASE run[u].pc \notin Locking \cup {"cap_check"}
  BY <1>1, <1>4 DEF HandsOK, Locking, Capturing, Retiring
<1> QED
  BY <1>2, <1>3, <1>4

LEMMA OthersRetire ==
    ASSUME TypeOK, Alone, Nobody \notin Viewers,
           NEW v \in Viewers, NEW o, Frame(v, o), Spares(v, o),
           NEW u \in Viewers, u # v, PlaceOK(u), PlaceOK(v), RetireOK(u)
    PROVE  RetireOK(u)'
<1> DEFINE p == run[u].op
<1>1. run'[u] = run[u]
  BY DEF Frame
<1>2. run[u] \in Runs
  BY DEF TypeOK
<1>3. ASSUME p \in Ops, GivesUp(u, p)
      PROVE  Unstarted(p)' /\ (res'[p].state # "none" \/ run[u].pc = "cap_record")
  <2>1. Unstarted(p) /\ mem[v].held # p /\ (res[p].state # "none" \/ run[u].pc = "cap_record")
    BY <1>3 DEF RetireOK, Alone, Claims
  <2>2. res[p].state # "none" => res'[p].state # "none"
    BY <1>3, OthersKnown
  <2>3. receipt'[p] = "none" /\ hist'.commits[p] = 0
    BY <1>3, <2>1, OthersUnstarted DEF Unstarted
  <2> QED
    BY <1>1, <2>1, <2>2, <2>3 DEF Unstarted
<1>4. ASSUME p \in Ops, run[u].job \notin Unowned
      PROVE  /\ owner = u
             /\ receipt'[p] = receipt[p] /\ hist'.commits[p] = hist.commits[p]
             /\ res[p].state = "spent" => res'[p].state = "spent"
             /\ res[p].state \in {"retiring", "spent", "removed"} =>
                   res'[p].state \in {"retiring", "spent", "removed"}
  <2>1. owner = u
    BY <1>4 DEF PlaceOK, Owning
  <2> QED
    BY <1>4, <2>1 DEF Frame, Same, Spares
<1>5. run[u].pc \notin {"idle", "capture"} => p \in Ops
  BY <1>2 DEF PlaceOK, Runs
<1> QED
  BY <1>1, <1>3, <1>4, <1>5
     DEF RetireOK, GivesUp, Unstarted, Unowned, PlaceOK, Retiring

LEMMA OthersStage ==
    ASSUME TypeOK, Alone, Nobody \notin Viewers,
           NEW v \in Viewers, NEW o, Frame(v, o), Spares(v, o),
           NEW u \in Viewers, u # v, PlaceOK(u), MemoryOK(u), StageOK(u)
    PROVE  StageOK(u)'
<1> DEFINE p == run[u].op
<1>1. run'[u] = run[u] /\ hist.landed \subseteq hist'.landed /\ hist'.vanished = hist.vanished
  BY DEF Frame
<1>2. run[u] \in Runs
  BY DEF TypeOK
<1>3. CASE run[u].pc \in Confirming \cup Publishing \cup Delivering \cup {"regenerate", "republish"}
  <2>1. owner = u /\ p \in Ops
    BY <1>2, <1>3
       DEF PlaceOK, Owning, Unowned, Runs, Confirming, Publishing, Delivering
  <2>2. /\ receipt'[p] = receipt[p] /\ gen'[p] = gen[p]
        /\ hist'.commits[p] = hist.commits[p] /\ hist'.branches[p] = hist.branches[p]
        /\ hist'.pushes[p] = hist.pushes[p]
    BY <2>1 DEF Frame, Same, Spares
  <2>3. run[u].pc \in Confirming => res'[p] = res[p] /\ roots'[p] = roots[p]
    <3>1. run[u].pc \in Confirming => ~GivesUp(v, p)
      BY <2>1 DEF MemoryOK, Alone, Claims
    <3> QED
      BY <2>1, <3>1 DEF Frame, Same, Spares
  <2> QED
    BY <1>1, <2>2, <2>3 DEF StageOK, Unstarted, Rooting, Confirming
<1>4. CASE run[u].pc \notin Confirming \cup Publishing \cup Delivering \cup {"regenerate", "republish"}
  BY <1>1, <1>4 DEF StageOK, Confirming, Publishing, Delivering
<1> QED
  BY <1>3, <1>4

LEMMA OthersOps ==
    ASSUME NEW v \in Viewers, NEW o, Frame(v, o), NEW p \in Ops, p # o, OpOK(p)
    PROVE  OpOK(p)'
<1>1. Same(p) /\ hist.landed \subseteq hist'.landed /\ hist'.vanished = hist.vanished
  BY DEF Frame
<1>2. RecordOK(p)'
  BY <1>1 DEF Same, OpOK, RecordOK
<1>3. ReceiptOK(p)'
  BY <1>1 DEF Same, OpOK, ReceiptOK, Unstarted, Unsent, Rooting, Forgetting
<1>4. DoneOK(p)'
  BY <1>1 DEF Same, OpOK, DoneOK, Unsent
<1> QED
  BY <1>2, <1>3, <1>4 DEF OpOK

LEMMA OthersAlone ==
    ASSUME IInv, Nobody \notin Viewers,
           NEW v \in Viewers, NEW o, Frame(v, o), Spares(v, o)
    PROVE  Alone'
<1>1. ASSUME NEW u \in Viewers, u # v, NEW p \in Ops, Claims(u, p)', Claims(v, p)'
      PROVE  FALSE
  <2>1. Claims(u, p)
    BY <1>1, OthersClaim
  <2>2. ~Claims(v, p)
    BY <1>1, <2>1 DEF IInv, Alone
  <2>3. res[p].state = "none" /\ resLock = Nobody
    BY <1>1, <2>2 DEF Spares
  <2>4. mem[u].held # p
    BY <2>3 DEF IInv, ViewerOK, MemoryOK
  <2>5. GivesUp(u, p)
    BY <2>1, <2>4 DEF Claims
  <2>6. run[u].pc = "cap_record"
    BY <2>3, <2>5 DEF IInv, ViewerOK, RetireOK, GivesUp
  <2> QED
    BY <2>3, <2>6 DEF IInv, ViewerOK, PlaceOK, Locking, Capturing
<1>2. \A u \in Viewers : u # v => \A p \in Ops : ~(Claims(u, p)' /\ Claims(v, p)')
  BY <1>1
<1>3. ASSUME NEW u \in Viewers, NEW w \in Viewers, u # v, w # v, NEW p \in Ops,
             Claims(u, p)', Claims(w, p)'
      PROVE  u = w
  BY <1>3, OthersClaim DEF IInv, Alone
<1> QED
  BY <1>2, <1>3 DEF Alone

\* A step of v that works on o keeps the invariant if it keeps what concerns
\* the two of them.
LEMMA StepKeeps ==
    ASSUME IInv, NEW v \in Viewers, NEW o, TypeOK', Frame(v, o), Spares(v, o),
           o \in Ops => OpOK(o)', ViewerOK(v)'
    PROVE  IInv'
<1>0. Nobody \notin Viewers
  BY ComposeAssumption
<1>1. ASSUME NEW p \in Ops PROVE OpOK(p)'
  BY OthersOps DEF IInv
<1>2. ASSUME NEW u \in Viewers, u # v PROVE ViewerOK(u)'
  <2>1. /\ PlaceOK(u) /\ MemoryOK(u) /\ SayingOK(u) /\ HandsOK(u) /\ RetireOK(u) /\ StageOK(u)
        /\ PlaceOK(v) /\ TypeOK /\ Alone
    BY <1>2 DEF IInv, ViewerOK
  <2>2. PlaceOK(u)' /\ MemoryOK(u)' /\ SayingOK(u)'
    BY <1>2, <2>1, OthersPlace, OthersMemory, OthersSaying
  <2>3. HandsOK(u)' /\ RetireOK(u)' /\ StageOK(u)'
    BY <1>0, <1>2, <2>1, OthersHands, OthersRetire, OthersStage
  <2> QED
    BY <2>2, <2>3 DEF ViewerOK
<1>3. Alone'
  BY <1>0, OthersAlone
<1> QED
  BY <1>1, <1>2, <1>3 DEF IInv

\* A step that leaves every operation alone.
LEMMA QuietKeeps ==
    ASSUME IInv, NEW v \in Viewers, TypeOK', ViewerOK(v)',
           UNCHANGED <<receipt, gen, res, roots, local, remote, hist>>,
           \A u \in Viewers \ {v} : /\ run'[u] = run[u] /\ mem'[u] = mem[u]
                                    /\ owner = u => owner' = u
                                    /\ resLock = u => resLock' = u,
           \A p \in Ops : Claims(v, p)' =>
              Claims(v, p) \/ (res[p].state = "none" /\ resLock = Nobody)
    PROVE  IInv'
<1>1. Frame(v, NoOp)
  BY DEF Frame, Same
<1>2. Spares(v, NoOp)
  BY DEF Spares, Unstarted
<1> QED
  BY <1>1, <1>2, StepKeeps, ComposeAssumption
-----------------------------------------------------------------------------
(* What a step of v keeps for v itself.                                     *)

LEMMA SayingKept ==
    ASSUME IInv, NEW v \in Viewers, NEW o, Frame(v, o), Spares(v, o),
           mem'[v].unpublished = mem[v].unpublished,
           mem'[v].receiptless = mem[v].receiptless,
           run'[v].said = NoOp,
           \A p \in Ops : mem[v].receiptless = p =>
              \/ Unstarted(p)' \/ p \in hist.vanished
              \/ run'[v].op = p /\ run'[v].job = "confirm" /\ run'[v].pc \in Going
    PROVE  SayingOK(v)'
<1>1. mem[v] \in Memories /\ SayingOK(v) /\ hist'.vanished = hist.vanished /\ NoOp \notin Ops
  BY ComposeAssumption DEF IInv, TypeOK, ViewerOK, Frame
<1>2. ASSUME NEW p \in Ops, Only(v, p) PROVE Only(v, p)'
  BY <1>2, OthersClaim, OthersKnown DEF Only
<1>3. ASSUME NEW p \in mem[v].unpublished
      PROVE  res'[p].state # "none" /\ Unstarted(p)' /\ \A w \in Viewers : ~Claims(w, p)'
  <2>1. p \in Ops /\ res[p].state # "none" /\ Unstarted(p) /\ \A w \in Viewers : ~Claims(w, p)
    BY <1>1, <1>3 DEF SayingOK, Memories
  <2>2. mem[v].held # p
    BY <2>1 DEF Claims
  <2>3. ~Claims(v, p)'
    BY <2>1 DEF Spares
  <2> QED
    BY <2>1, <2>2, <2>3, OthersClaim, OthersKnown, OthersUnstarted
<1>4. mem[v].receiptless \in Ops => Only(v, mem[v].receiptless)'
  <2> DEFINE p == mem[v].receiptless
  <2>1. p' = p
    BY DEF p
  <2>2. p \in Ops => Only(v, p)
    BY <1>1 DEF SayingOK
  <2> HIDE DEF p
  <2>3. p \in Ops => Only(v, p)'
    BY <1>2, <2>1, <2>2
  <2> QED
    BY <2>3 DEF p
<1>5. mem[v].receiptless \in Ops =>
          \/ Unstarted(mem[v].receiptless)' \/ mem[v].receiptless \in hist'.vanished
          \/ run'[v].op = mem[v].receiptless /\ run'[v].job = "confirm" /\ run'[v].pc \in Going
  <2> DEFINE p == mem[v].receiptless
  <2>1. p' = p
    BY DEF p
  <2>2. p \in Ops => \/ receipt'[p] = "none" /\ hist'.commits[p] = 0
                     \/ p \in hist.vanished
                     \/ run'[v].op = p /\ run'[v].job = "confirm" /\ run'[v].pc \in Going
    BY DEF Unstarted
  <2> QED
    BY <1>1, <2>1, <2>2 DEF Unstarted
<1> QED
  BY <1>1, <1>3, <1>4, <1>5 DEF SayingOK, Only, Unstarted

LEMMA MemoryKept ==
    ASSUME IInv, NEW v \in Viewers, NEW o, Frame(v, o), Spares(v, o), mem'[v] = mem[v],
           run'[v].pc \in Confirming => mem[v].kind = "confirmed" /\ mem[v].held = run'[v].op,
           run'[v].pc = "list" /\ run'[v].job = "confirm" =>
              mem[v].kind = "previewed" /\ mem[v].held = run'[v].op
    PROVE  MemoryOK(v)'
<1> DEFINE p == mem[v].held
<1>1. mem[v] \in Memories /\ MemoryOK(v) /\ p' = p
  BY DEF IInv, TypeOK, ViewerOK
<1>2. p \in Ops => res[p].state # "none"
  BY <1>1 DEF MemoryOK
<1>3. p \in Ops => res'[p].state # "none"
  BY <1>2, OthersKnown
<1>4. ASSUME mem[v].kind \in {"previewed", "releasing"}
      PROVE  receipt'[p] = "none" /\ hist'.commits[p] = 0
  <2>1. p \in Ops /\ receipt[p] = "none" /\ hist.commits[p] = 0
    BY <1>1, <1>4 DEF MemoryOK, Memories, Unstarted
  <2> QED
    BY <1>4, <2>1 DEF Frame, Same, Spares, Unstarted
<1> QED
  BY <1>1, <1>3, <1>4 DEF MemoryOK, Unstarted

\* A step of v within its request that keeps its memory.
LEMMA MoveKeeps ==
    ASSUME IInv, NEW v \in Viewers, NEW o, TypeOK', Frame(v, o), Spares(v, o),
           o \in Ops => OpOK(o)',
           mem'[v] = mem[v], run'[v].said = NoOp, run'[v].op = run[v].op,
           run[v].job = "confirm" => run'[v].job = "confirm",
           run[v].pc \in Going /\ run[v].job = "confirm" => run'[v].pc \in Going,
           run'[v].pc \in Confirming => run[v].pc \in Confirming,
           run'[v].pc = "list" /\ run'[v].job = "confirm" =>
              run[v].pc = "list" /\ run[v].job = "confirm",
           \A p \in Ops : Unstarted(p) => Unstarted(p)' \/
              (run'[v].op = p /\ run'[v].job = "confirm" /\ run'[v].pc \in Going),
           PlaceOK(v)', HandsOK(v)', RetireOK(v)', StageOK(v)'
    PROVE  IInv'
<1>1. MemoryOK(v) /\ SayingOK(v)
  BY DEF IInv, ViewerOK
<1>2. MemoryOK(v)'
  BY <1>1, MemoryKept DEF MemoryOK
<1>3. \A p \in Ops : mem[v].receiptless = p =>
          \/ Unstarted(p)' \/ p \in hist.vanished
          \/ run'[v].op = p /\ run'[v].job = "confirm" /\ run'[v].pc \in Going
  BY <1>1 DEF SayingOK
<1>4. SayingOK(v)'
  BY <1>3, SayingKept
<1> QED
  BY <1>2, <1>4, StepKeeps DEF ViewerOK
\* A step of v within its request that leaves every operation alone.  Whether
\* another operation becomes v's is said by `job` and `pc`.
LEMMA WalkKeeps ==
    ASSUME IInv, NEW v \in Viewers, TypeOK', mem' = mem,
           UNCHANGED <<receipt, gen, res, roots, local, remote, hist>>,
           \A u \in Viewers \ {v} : /\ run'[u] = run[u]
                                    /\ owner = u => owner' = u
                                    /\ resLock = u => resLock' = u,
           run'[v].said = NoOp, run'[v].op = run[v].op,
           run'[v].job \in Giving /\ run'[v].pc # "answer" /\ run[v].op \in Ops =>
              \/ run[v].job \in Giving /\ run[v].pc # "answer"
              \/ mem[v].held = run[v].op,
           run[v].job = "confirm" /\ run[v].pc \in Going =>
              run'[v].job = "confirm" /\ run'[v].pc \in Going,
           run'[v].pc \in Confirming => run[v].pc \in Confirming,
           run'[v].pc = "list" /\ run'[v].job = "confirm" =>
              run[v].pc = "list" /\ run[v].job = "confirm",
           PlaceOK(v)', HandsOK(v)', RetireOK(v)', StageOK(v)'
    PROVE  IInv'
<1>1. Frame(v, NoOp)
  BY DEF Frame, Same
<1>2. \A p \in Ops : Claims(v, p)' => Claims(v, p)
  BY DEF Claims, GivesUp
<1>3. Spares(v, NoOp)
  BY <1>2 DEF Spares, Unstarted
<1>4. MemoryOK(v) /\ SayingOK(v)
  BY DEF IInv, ViewerOK
<1>5. MemoryOK(v)'
  BY <1>1, <1>3, <1>4, MemoryKept DEF MemoryOK
<1>6. \A p \in Ops : mem[v].receiptless = p =>
          \/ Unstarted(p)' \/ p \in hist.vanished
          \/ run'[v].op = p /\ run'[v].job = "confirm" /\ run'[v].pc \in Going
  BY <1>4 DEF SayingOK, Unstarted
<1>7. SayingOK(v)'
  BY <1>1, <1>3, <1>6, SayingKept
<1> QED
  BY <1>1, <1>3, <1>5, <1>7, StepKeeps, ComposeAssumption DEF ViewerOK

\* The types after a step that only moves within a request.
LEMMA WalkTyped ==
    ASSUME IInv, NEW v \in Viewers, NEW m \in Runs, run' = [run EXCEPT ![v] = m],
           faults' \in 0..MaxFaults, owner' \in Viewers \cup {Nobody},
           mem' \in [Viewers -> Memories],
           UNCHANGED <<durable, resLock, git, world, hist>>
    PROVE  /\ TypeOK' /\ run'[v] = m
           /\ \A u \in Viewers \ {v} : run'[u] = run[u]
BY DEF IInv, TypeOK, durable, git, world

\* Goto and Abandon.
LEMMA PacesTyped ==
    ASSUME IInv, NEW v \in Viewers, NEW l \in Points,
           Goto(v, l) \/ \E p \in Problems : Abandon(v, l, p)
    PROVE  \E m \in Runs :
              /\ run' = [run EXCEPT ![v] = m]
              /\ m.pc = l /\ m.job = run[v].job /\ m.op = run[v].op /\ m.req = run[v].req
              /\ m.next = run[v].next /\ m.said = run[v].said
              /\ m.todo = run[v].todo /\ m.conflict = run[v].conflict
<1>1. run \in [Viewers -> Runs] /\ run[v] \in Runs
  BY DEF IInv, TypeOK
<1>2. CASE Goto(v, l)
  <2>1. [run[v] EXCEPT !.pc = l] \in Runs
    BY <1>1 DEF Runs
  <2> QED
    BY <1>1, <1>2, <2>1 DEF Goto, Runs
<1>3. CASE \E p \in Problems : Abandon(v, l, p)
  <2>1. PICK p \in Problems : Abandon(v, l, p)
    BY <1>3
  <2> DEFINE m == [run[v] EXCEPT !.pc = l, !.problem = p]
  <2>2. m \in Runs
    BY <1>1 DEF Runs
  <2>3. run' = [run EXCEPT ![v] = m]
    BY <1>1, <2>1 DEF Abandon
  <2> QED
    BY <1>1, <2>2, <2>3 DEF Runs
<1> QED
  BY <1>2, <1>3

\* The same for a step that changes the memory or answers.
LEMMA SayingNow ==
    ASSUME IInv, NEW v \in Viewers, NEW o, Frame(v, o), Spares(v, o),
           NEW m \in Memories, mem'[v] = m, NEW s \in Ops \cup {NoOp}, run'[v].said = s,
           s \in Ops => Only(v, s) /\ (Unstarted(s)' \/ s \in hist.vanished),
           \A p \in m.unpublished \ mem[v].unpublished :
              Only(v, p) /\ Unstarted(p)' /\ ~Claims(v, p)',
           m.receiptless \in Ops =>
              /\ Only(v, m.receiptless)
              /\ \/ Unstarted(m.receiptless)' \/ m.receiptless \in hist.vanished
                 \/ run'[v].op = m.receiptless /\ run'[v].job = "confirm" /\ run'[v].pc \in Going
    PROVE  SayingOK(v)'
<1>1. mem[v] \in Memories /\ SayingOK(v) /\ hist'.vanished = hist.vanished /\ NoOp \notin Ops
  BY ComposeAssumption DEF IInv, TypeOK, ViewerOK, Frame
<1>2. ASSUME NEW p \in Ops, Only(v, p) PROVE Only(v, p)'
  BY <1>2, OthersClaim, OthersKnown DEF Only
<1>3. ASSUME NEW p \in m.unpublished
      PROVE  res'[p].state # "none" /\ Unstarted(p)' /\ \A w \in Viewers : ~Claims(w, p)'
  <2>0. p \in Ops
    BY DEF Memories
  <2>1. CASE p \in mem[v].unpublished
    <3>1. res[p].state # "none" /\ Unstarted(p) /\ \A w \in Viewers : ~Claims(w, p)
      BY <1>1, <2>1 DEF SayingOK
    <3>2. mem[v].held # p
      BY <3>1 DEF Claims
    <3>3. ~Claims(v, p)'
      BY <2>0, <3>1 DEF Spares
    <3> QED
      BY <2>0, <3>1, <3>2, <3>3, OthersClaim, OthersKnown, OthersUnstarted
  <2>2. CASE p \notin mem[v].unpublished
    <3>1. Only(v, p) /\ Unstarted(p)' /\ ~Claims(v, p)'
      BY <1>3, <2>2
    <3> QED
      BY <1>2, <2>0, <3>1 DEF Only
  <2> QED
    BY <2>1, <2>2
<1>4. m.receiptless \in Ops => Only(v, m.receiptless)'
  BY <1>2
<1>5. s \in Ops => Only(v, s)'
  BY <1>2
<1>6. SayingOK(v)' <=>
        /\ s \in Ops => Only(v, s)' /\ (Unstarted(s)' \/ s \in hist'.vanished)
        /\ \A p \in m.unpublished :
              res'[p].state # "none" /\ Unstarted(p)' /\ \A w \in Viewers : ~Claims(w, p)'
        /\ m.receiptless \in Ops =>
              /\ Only(v, m.receiptless)'
              /\ \/ Unstarted(m.receiptless)' \/ m.receiptless \in hist'.vanished
                 \/ run'[v].op = m.receiptless /\ run'[v].job = "confirm" /\ run'[v].pc \in Going
  BY DEF SayingOK, Only, Unstarted
<1> QED
  BY <1>1, <1>3, <1>4, <1>5, <1>6

\* The answer: the viewer is idle again.
LEMMA EndingKeeps ==
    ASSUME IInv, NEW v \in Viewers, NEW o, TypeOK', Frame(v, o), Spares(v, o),
           o \in Ops => OpOK(o)', NEW x \in Ops \cup {NoOp}, run'[v] = [Fresh EXCEPT !.said = x],
           MemoryOK(v)', SayingOK(v)'
    PROVE  IInv'
<1>1. /\ run'[v].pc = "idle" /\ run'[v].job = "none" /\ run'[v].op = NoOp /\ NoOp \notin Ops
  BY ComposeAssumption DEF Fresh
<1>2. PlaceOK(v)'
  BY <1>1 DEF PlaceOK, Owning, Unowned, UnownedPoints, Locking, Retiring, Capturing, Confirming,
              Publishing, Delivering
<1>3. HandsOK(v)' /\ StageOK(v)' /\ RetireOK(v)'
  BY <1>1 DEF HandsOK, StageOK, RetireOK, GivesUp, Giving, Capturing, Retiring
<1> QED
  BY <1>2, <1>3, StepKeeps DEF ViewerOK

\* What an answer that leaves every operation alone does.
Ended(v, x, m) ==
    /\ TypeOK' /\ Frame(v, NoOp) /\ Spares(v, NoOp)
    /\ run'[v] = [Fresh EXCEPT !.said = x] /\ mem'[v] = m
    /\ run'[v].said = x /\ run'[v].pc = "idle" /\ run'[v].job = "none" /\ run'[v].op = NoOp
    /\ UNCHANGED <<receipt, gen, res, roots, local, remote, hist>>

LEMMA FreshTyped ==
    ASSUME NEW x \in Ops \cup {NoOp}
    PROVE  [Fresh EXCEPT !.said = x] \in Runs
<1>1. MaxGen \in Nat
  BY ComposeAssumption
<1>2. 0 \in 0..MaxGen
  BY <1>1
<1>3. "idle" \in Points /\ "none" \in Jobs /\ "none" \in Problems
  BY DEF Points, Jobs, Problems
<1>4. Fresh \in Runs
  BY <1>2, <1>3 DEF Fresh, Runs
<1> QED
  BY <1>4 DEF Runs

LEMMA FreshSays ==
    Fresh = [Fresh EXCEPT !.said = NoOp]
<1>1. MaxGen \in Nat
  BY ComposeAssumption
<1>2. 0 \in 0..MaxGen
  BY <1>1
<1>3. "idle" \in Points /\ "none" \in Jobs /\ "none" \in Problems
  BY DEF Points, Jobs, Problems
<1>4. Fresh \in Runs
  BY <1>2, <1>3 DEF Fresh, Runs
<1>5. PICK f \in Runs : f = Fresh
  BY <1>4
<1>6. f.said = NoOp
  BY <1>5 DEF Fresh
<1>7. f = [f EXCEPT !.said = f.said]
  BY DEF Runs
<1> QED
  BY <1>5, <1>6, <1>7

LEMMA EndFrame ==
    ASSUME IInv, NEW v \in Viewers, NEW x \in Ops \cup {NoOp}, End(v, x), NEW m \in Memories,
           mem' = [mem EXCEPT ![v] = m], m.held \in {mem[v].held, NoOp}, faults' \in 0..MaxFaults,
           UNCHANGED <<durable, resLock, git, world, hist>>
    PROVE  Ended(v, x, m)
<1>1. TypeOK /\ Nobody \notin Viewers /\ NoOp \notin Ops
  BY ComposeAssumption DEF IInv
<1>2. UNCHANGED <<receipt, gen, res, roots, litter, local, remote, flight, stale, old, hist, resLock>>
  BY DEF durable, git, world
<1>3. [Fresh EXCEPT !.said = x] \in Runs
  BY FreshTyped
<1>4. run' \in [Viewers -> Runs] /\ mem' \in [Viewers -> Memories]
  BY <1>1, <1>3 DEF End, TypeOK
<1>5. owner' \in Viewers \cup {Nobody}
  BY <1>1 DEF End, TypeOK
<1>6. TypeOK'
  BY <1>1, <1>2, <1>4, <1>5 DEF TypeOK
<1>7. run'[v] = [Fresh EXCEPT !.said = x] /\ mem'[v] = m
  BY <1>1 DEF End, TypeOK
<1>8. run'[v].said = x /\ run'[v].pc = "idle" /\ run'[v].job = "none" /\ run'[v].op = NoOp
  BY <1>7 DEF Fresh
<1>9. Frame(v, NoOp)
  BY <1>1, <1>2 DEF Frame, Same, End, TypeOK
<1>10. \A p \in Ops : Claims(v, p)' => Claims(v, p)
  BY <1>1, <1>7, <1>8 DEF Claims, GivesUp
<1>11. Spares(v, NoOp)
  BY <1>2, <1>10 DEF Spares, Unstarted
<1> QED
  BY <1>2, <1>6, <1>7, <1>8, <1>9, <1>11 DEF Ended

\* An answer, with what the viewer then keeps.
LEMMA EndKeeps ==
    ASSUME IInv, NEW v \in Viewers, NEW x \in Ops \cup {NoOp}, End(v, x), NEW m \in Memories,
           mem' = [mem EXCEPT ![v] = m], faults' \in 0..MaxFaults,
           UNCHANGED <<durable, resLock, git, world, hist>>,
           \/ m.kind = mem[v].kind /\ m.held = mem[v].held
           \/ m.kind = "none" /\ m.held = NoOp,
           x \in Ops => Only(v, x) /\ (Unstarted(x) \/ x \in hist.vanished),
           \A p \in m.unpublished \ mem[v].unpublished : Only(v, p) /\ Unstarted(p) /\ m.held # p,
           m.receiptless \in Ops =>
              /\ Only(v, m.receiptless)
              /\ Unstarted(m.receiptless) \/ m.receiptless \in hist.vanished
    PROVE  IInv'
<1>1. mem[v] \in Memories /\ MemoryOK(v) /\ NoOp \notin Ops
  BY ComposeAssumption DEF IInv, TypeOK, ViewerOK
<1>2. m.held \in {mem[v].held, NoOp}
  OBVIOUS
<1>3. Ended(v, x, m)
  BY <1>2, EndFrame
<1>4. /\ TypeOK' /\ Frame(v, NoOp) /\ Spares(v, NoOp)
      /\ run'[v] = [Fresh EXCEPT !.said = x] /\ mem'[v] = m
      /\ run'[v].said = x /\ run'[v].pc = "idle" /\ run'[v].job = "none" /\ run'[v].op = NoOp
      /\ UNCHANGED <<receipt, gen, res, roots, local, remote, hist>>
  BY <1>3 DEF Ended
<1>5. MemoryOK(v)'
  BY <1>1, <1>4 DEF MemoryOK, Memories, Confirming, Unstarted
<1>6. \A p \in Ops : Unstarted(p)' <=> Unstarted(p)
  BY <1>4 DEF Unstarted
<1>7. \A p \in m.unpublished \ mem[v].unpublished : Only(v, p) /\ Unstarted(p)' /\ ~Claims(v, p)'
  <2>1. \A p \in m.unpublished : p \in Ops
    BY DEF Memories
  <2> QED
    BY <1>1, <1>4, <1>6, <2>1 DEF Claims, GivesUp
<1>8. SayingOK(v)'
  BY <1>4, <1>6, <1>7, SayingNow
<1> QED
  BY <1>4, <1>5, <1>8, EndingKeeps, ComposeAssumption

\* An answer that keeps the memory.
LEMMA EndPlain ==
    ASSUME IInv, NEW v \in Viewers, NEW x \in Ops \cup {NoOp}, End(v, x), mem' = mem,
           faults' \in 0..MaxFaults, UNCHANGED <<durable, resLock, git, world, hist>>,
           ~(run[v].job = "confirm" /\ run[v].pc \in Going),
           x \in Ops => Only(v, x) /\ (Unstarted(x) \/ x \in hist.vanished)
    PROVE  IInv'
<1>1. mem[v] \in Memories /\ mem' = [mem EXCEPT ![v] = mem[v]] /\ SayingOK(v)
  BY DEF IInv, TypeOK, ViewerOK
<1>2. PICK m \in Memories : m = mem[v]
  BY <1>1
<1>3. m.receiptless \in Ops =>
        Only(v, m.receiptless) /\ (Unstarted(m.receiptless) \/ m.receiptless \in hist.vanished)
  BY <1>1, <1>2 DEF SayingOK
<1> QED
  BY <1>1, <1>2, <1>3, EndKeeps
-----------------------------------------------------------------------------
(* Steps that write a record or a private ref.                              *)

Recording(v, r, refs, l, h) ==
    /\ res' = [res EXCEPT ![run[v].op] = r] /\ roots' = [roots EXCEPT ![run[v].op] = refs]
    /\ resLock \in {v, Nobody} /\ resLock' = h /\ h \in {v, Nobody}
    /\ \E p \in Problems : run' = [run EXCEPT ![v].pc = l, ![v].problem = p]
    /\ litter' \subseteq {"receipts", "resources"} /\ faults' \in 0..MaxFaults
    /\ UNCHANGED <<receipt, gen, owner, git, world, hist>>

LEMMA FaultTyped ==
    ASSUME TypeOK, (\E k \in FaultKinds : Fault(k)) \/ NoFault
    PROVE  faults' \in 0..MaxFaults
<1>1. MaxFaults \in Nat
  BY ComposeAssumption
<1> QED
  BY <1>1 DEF TypeOK, Fault, NoFault

\* A save that succeeds, that is made and fails, and that fails.
LEMMA SaveRecords ==
    ASSUME IInv, NEW v \in Viewers, NEW r, NEW h \in {v, Nobody}, NEW ok, NEW bad, NEW refs,
           SaveResource(v, r, h, ok, bad), resLock \in {v, Nobody},
           roots' = [roots EXCEPT ![run[v].op] = refs],
           UNCHANGED <<receipt, gen, owner, git, world, hist>>
    PROVE  \/ Recording(v, r, refs, ok, h)
           \/ Recording(v, r, refs, bad, Nobody)
           \/ Recording(v, res[run[v].op], refs, bad, Nobody)
<1>1. TypeOK /\ run[v] \in Runs
  BY DEF IInv, TypeOK
<1>2. faults' \in 0..MaxFaults
  BY <1>1, FaultTyped DEF SaveResource, FaultKinds
<1>3. res = [res EXCEPT ![run[v].op] = res[run[v].op]]
  BY <1>1 DEF TypeOK
<1>4. run = [run EXCEPT ![v].problem = run[v].problem]
  BY <1>1 DEF TypeOK, Runs
<1>5. CASE /\ res' = [res EXCEPT ![run[v].op] = r] /\ UNCHANGED litter
           /\ resLock' = h /\ Goto(v, ok)
  <2>1. run' = [run EXCEPT ![v].pc = ok, ![v].problem = run[v].problem]
    BY <1>1, <1>5 DEF Goto, TypeOK, Runs
  <2> QED
    BY <1>1, <1>2, <1>5, <2>1 DEF Recording, TypeOK, Runs
<1>6. CASE /\ resLock' = Nobody /\ Abandon(v, bad, "uncertain")
           /\ \/ res' = [res EXCEPT ![run[v].op] = r] /\ UNCHANGED litter
              \/ UNCHANGED res /\ litter' \in {litter, litter \cup {"resources"}}
  BY <1>1, <1>2, <1>3, <1>6 DEF Recording, Abandon, TypeOK, Problems
<1> QED
  BY <1>5, <1>6 DEF SaveResource

LEMMA MoveTyped ==
    ASSUME NEW v \in Viewers, run \in [Viewers -> Runs], NEW l \in Points, NEW p \in Problems,
           run' = [run EXCEPT ![v].pc = l, ![v].problem = p]
    PROVE  /\ run' \in [Viewers -> Runs]
           /\ run'[v] = [run[v] EXCEPT !.pc = l, !.problem = p]
           /\ \A u \in Viewers \ {v} : run'[u] = run[u]
<1> DEFINE r == [run[v] EXCEPT !.pc = l, !.problem = p]
<1>1. run[v] \in Runs
  OBVIOUS
<1>2. r \in Runs
  BY <1>1 DEF Runs
<1>3. run' = [run EXCEPT ![v] = r]
  OBVIOUS
<1> QED
  BY <1>2, <1>3

LEMMA RecordingTyped ==
    ASSUME IInv, NEW v \in Viewers, NEW r \in Resources, NEW refs \in SUBSET PinKinds,
           NEW l \in Points, NEW h, Recording(v, r, refs, l, h), mem' \in [Viewers -> Memories]
    PROVE  TypeOK'
<1>1. TypeOK
  BY DEF IInv
<1>2. PICK p \in Problems : run' = [run EXCEPT ![v].pc = l, ![v].problem = p]
  BY DEF Recording
<1>3. run' \in [Viewers -> Runs]
  BY <1>1, <1>2, MoveTyped DEF TypeOK
<1> QED
  BY <1>1, <1>3 DEF Recording, TypeOK, git, world

Moved(v, o, r, refs, l) ==
    /\ run'[v].pc = l /\ run'[v].job = run[v].job /\ run'[v].op = o
    /\ run'[v].req = run[v].req /\ run'[v].next = run[v].next /\ run'[v].said = run[v].said
    /\ \A u \in Viewers \ {v} : run'[u] = run[u]
    /\ res'[o] = r /\ roots'[o] = refs
    /\ \A p \in Ops \ {o} : res'[p] = res[p] /\ roots'[p] = roots[p]

LEMMA RecordingMoves ==
    ASSUME IInv, NEW v \in Viewers, NEW o \in Ops, run[v].op = o, NEW r, NEW refs, NEW l \in Points, NEW h,
           Recording(v, r, refs, l, h)
    PROVE  Moved(v, o, r, refs, l)
<1>1. TypeOK /\ run[v] \in Runs
  BY DEF IInv, TypeOK
<1>2. PICK p \in Problems : run' = [run EXCEPT ![v].pc = l, ![v].problem = p]
  BY DEF Recording
<1>3. /\ run'[v] = [run[v] EXCEPT !.pc = l, !.problem = p]
      /\ \A u \in Viewers \ {v} : run'[u] = run[u]
  BY <1>1, <1>2, MoveTyped DEF TypeOK
<1> QED
  BY <1>1, <1>3 DEF Recording, Moved, TypeOK, Runs

LEMMA RecordingKeeps ==
    ASSUME IInv, NEW v \in Viewers, NEW r \in Resources, NEW refs \in SUBSET PinKinds,
           NEW l \in Points, NEW h, Recording(v, r, refs, l, h), mem' = mem,
           NEW o \in Ops, run[v].op = o, run[v].pc # "answer",
           \/ owner = v /\ res[o].state # "capturing"
           \/ GivesUp(v, o)
           \/ r = res[o] /\ refs = roots[o],
           res[o].state # "none" => r.state # "none",
           res[o].state = "spent" => r.state = "spent",
           res[o].state \in {"retiring", "spent", "removed"} =>
              owner = v \/ r.state \in {"retiring", "spent", "removed"},
           Sound(r, refs), ReceiptOK(o)',
           run[v].pc \in Going /\ run[v].job = "confirm" => l \in Going,
           l \in Confirming => run[v].pc \in Confirming,
           l # "list",
           PlaceOK(v)', HandsOK(v)', RetireOK(v)', StageOK(v)'
    PROVE  IInv'
<1>0. Moved(v, o, r, refs, l)
  BY RecordingMoves
<1>1. /\ run'[v].pc = l /\ run'[v].job = run[v].job /\ run'[v].op = o
      /\ run'[v].req = run[v].req /\ run'[v].next = run[v].next /\ run'[v].said = run[v].said
      /\ \A u \in Viewers \ {v} : run'[u] = run[u]
      /\ res'[o] = r /\ roots'[o] = refs
      /\ \A p \in Ops \ {o} : res'[p] = res[p] /\ roots'[p] = roots[p]
  BY <1>0 DEF Moved
<1>2. TypeOK'
  BY RecordingTyped DEF IInv, TypeOK
<1>3. /\ UNCHANGED <<receipt, gen, owner, local, remote, hist>>
      /\ resLock \in {v, Nobody} /\ resLock' \in {v, Nobody}
  BY DEF Recording, git
<1>4. Nobody \notin Viewers /\ NoOp \notin Ops
  BY ComposeAssumption
<1>5. \A u \in Viewers \ {v} : /\ run'[u] = run[u] /\ mem'[u] = mem[u]
                               /\ owner = u => owner' = u
                               /\ resLock = u => resLock' = u
  BY <1>1, <1>3, <1>4
<1>6. Frame(v, o)
  BY <1>1, <1>3, <1>5 DEF Frame, Same
<1>7. \A p \in Ops : Claims(v, p)' => Claims(v, p)
  BY <1>1 DEF Claims, GivesUp
<1>8. Spares(v, o)
  BY <1>1, <1>3, <1>7 DEF Spares, Unstarted
<1>9. OpOK(o)'
  <2>1. Sound(res'[o], roots'[o])
    BY <1>1
  <2>2. RecordOK(o)'
    BY <1>1, <2>1 DEF RecordOK
  <2>3. DoneOK(o)'
    BY <1>1, <1>3 DEF IInv, OpOK, DoneOK, Unsent
  <2> QED
    BY <2>2, <2>3 DEF OpOK
<1>10. run'[v].said = NoOp
  <2>1. run[v].pc # "idle" /\ PlaceOK(v) /\ run[v] \in Runs
    BY <1>4 DEF IInv, ViewerOK, PlaceOK, TypeOK
  <2> QED
    BY <1>1, <2>1 DEF PlaceOK
<1>11. \A p \in Ops : Unstarted(p) => Unstarted(p)'
  BY <1>3 DEF Unstarted
<1> QED
  BY <1>1, <1>2, <1>6, <1>8, <1>9, <1>10, <1>11, MoveKeeps

\* The same, for a step that also takes the operation into the memory.
LEMMA TakingKeeps ==
    ASSUME IInv, NEW v \in Viewers, NEW o \in Ops, run[v].op = o, NEW r \in Resources, NEW refs \in SUBSET PinKinds,
           NEW l \in {"open", "load"}, NEW h, Recording(v, r, refs, l, h),
           NEW m \in Memories, mem' = [mem EXCEPT ![v] = m], m.held = o,
           m.kind \in {"previewed", "confirmed"}, m.kind = "previewed" => Unstarted(o),
           l = "load" => m.kind = "confirmed",
           m.unpublished = mem[v].unpublished, m.receiptless = mem[v].receiptless,
           mem[v].held = o \/ GivesUp(v, o),
           run[v].pc \in {"cap_check", "handle"},
           (owner = v /\ res[o].state # "capturing") \/ GivesUp(v, o),
           res[o].state \notin {"retiring", "spent", "removed"}, r.state # "none",
           Sound(r, refs), ReceiptOK(o)',
           PlaceOK(v)', HandsOK(v)', RetireOK(v)', StageOK(v)'
    PROVE  IInv'
<1>0. l \in Points
  BY DEF Points
<1>1. Moved(v, o, r, refs, l)
  BY <1>0, RecordingMoves
<1>2. /\ run'[v].pc = l /\ run'[v].job = run[v].job /\ run'[v].op = o /\ run'[v].said = run[v].said
      /\ \A u \in Viewers \ {v} : run'[u] = run[u]
      /\ res'[o] = r /\ roots'[o] = refs
      /\ \A p \in Ops \ {o} : res'[p] = res[p] /\ roots'[p] = roots[p]
  BY <1>1 DEF Moved
<1>3. mem' \in [Viewers -> Memories] /\ mem'[v] = m /\ \A u \in Viewers \ {v} : mem'[u] = mem[u]
  BY DEF IInv, TypeOK
<1>4. TypeOK'
  BY <1>0, <1>3, RecordingTyped
<1>5. /\ UNCHANGED <<receipt, gen, owner, local, remote, hist>>
      /\ resLock \in {v, Nobody} /\ resLock' \in {v, Nobody}
  BY DEF Recording, git
<1>6. Nobody \notin Viewers /\ NoOp \notin Ops /\ PlaceOK(v) /\ MemoryOK(v) /\ SayingOK(v)
  BY ComposeAssumption DEF IInv, ViewerOK
<1>7. Frame(v, o)
  BY <1>2, <1>3, <1>5, <1>6 DEF Frame, Same
<1>8. \A p \in Ops : Claims(v, p)' => Claims(v, p)
  BY <1>2, <1>3 DEF Claims, GivesUp
<1>9. Spares(v, o)
  BY <1>2, <1>5, <1>8 DEF Spares, Unstarted
<1>10. OpOK(o)'
  <2>1. Sound(res'[o], roots'[o])
    BY <1>2
  <2>2. RecordOK(o)'
    BY <1>2, <2>1 DEF RecordOK
  <2>3. DoneOK(o)'
    BY <1>2, <1>5 DEF IInv, OpOK, DoneOK, Unsent
  <2> QED
    BY <2>2, <2>3 DEF OpOK
<1>11. MemoryOK(v)'
  BY <1>2, <1>3, <1>5, <1>6 DEF MemoryOK, Unstarted, Confirming
<1>12. SayingOK(v)'
  <2>1. run'[v].said = NoOp
    BY <1>2, <1>6 DEF PlaceOK
  <2>2. run[v].pc \notin Going
    BY DEF Going, Confirming, Publishing, Delivering
  <2>3. \A p \in Ops : mem[v].receiptless = p =>
              \/ Unstarted(p)' \/ p \in hist.vanished
              \/ run'[v].op = p /\ run'[v].job = "confirm" /\ run'[v].pc \in Going
    BY <1>5, <1>6, <2>2 DEF SayingOK, Unstarted
  <2> QED
    BY <1>3, <1>7, <1>9, <2>1, <2>3, SayingKept
<1> QED
  BY <1>4, <1>7, <1>9, <1>10, <1>11, <1>12, StepKeeps DEF ViewerOK
-----------------------------------------------------------------------------
(* Retirement.                                                              *)

\* Whoever retires either gives the operation up or holds owner.lock.
LEMMA RetirerMay ==
    ASSUME IInv, NEW v \in Viewers, run[v].pc \in {"discard", "retire"} \cup Retiring
    PROVE  /\ owner = v \/ GivesUp(v, run[v].op)
           /\ run[v].op \in Ops /\ run[v].pc # "answer" /\ run[v].said = NoOp
           /\ run[v].job # "none" /\ run[v].job \in Giving \cup {"cleanup", "forget", "resources"}
<1>1. run[v] \in Runs /\ PlaceOK(v) /\ RetireOK(v)
  BY DEF IInv, TypeOK, ViewerOK
<1> QED
  BY <1>1 DEF PlaceOK, RetireOK, Owning, GivesUp, Giving, Unowned, Retiring, Runs

LEMMA RetiringKeeps ==
    ASSUME IInv, NEW v \in Viewers, NEW o \in Ops, run[v].op = o, run[v].pc \in Retiring,
           NEW r \in Resources, NEW refs \in SUBSET PinKinds,
           NEW l \in Retiring \cup {"unretired"}, NEW h, Recording(v, r, refs, l, h), mem' = mem,
           l \in Retiring => h = v,
           r.state = "retiring", r.keep = res[o].keep, r.rejected = res[o].rejected,
           r.commit = "none" <=> res[o].commit = "none",
           r.keep => r.commit = res[o].commit /\ ("commit" \in roots[o] => "commit" \in refs),
           Sound(r, refs),
           l \in Retiring \ {"ret_snapshot"} => r.snapshot = "retired",
           l \in {"ret_commit", "ret_end"} => r.base = "retired",
           l = "ret_end" => r.keep \/ r.commit \in {"none", "retired"}
    PROVE  IInv'
<1>0. l \in Points /\ l \notin Going /\ l \notin Confirming /\ l # "list"
  BY DEF Points, Retiring, Going, Confirming, Publishing, Delivering
<1>1. Moved(v, o, r, refs, l)
  BY <1>0, RecordingMoves
<1>2. /\ owner = v \/ GivesUp(v, o)
      /\ run[v].pc # "answer" /\ run[v].said = NoOp /\ run[v].job # "none"
  BY RetirerMay
<1>3. res[o].state = "retiring" /\ PlaceOK(v) /\ HandsOK(v) /\ RetireOK(v) /\ OpOK(o)
  BY DEF IInv, ViewerOK, HandsOK
<1>4. UNCHANGED <<receipt, gen, owner, hist>> /\ resLock' = h
  BY DEF Recording
<1>5. ReceiptOK(o)'
  BY <1>1, <1>3, <1>4 DEF Moved, OpOK, ReceiptOK, Unstarted, Unsent, Early, Rooting, Forgetting
<1>6. PlaceOK(v)'
  BY <1>0, <1>1, <1>2, <1>3, <1>4
     DEF Moved, PlaceOK, Owning, Unowned, UnownedPoints, Locking, Retiring, Capturing, Confirming,
         Publishing, Delivering
<1>7. HandsOK(v)'
  BY <1>1, <1>3 DEF Moved, HandsOK, Retiring, Capturing
<1>8. RetireOK(v)'
  BY <1>1, <1>3, <1>4, RetirerMay DEF Moved, RetireOK, GivesUp, Unstarted, Retiring
<1>9. StageOK(v)'
  BY <1>1 DEF Moved, StageOK, Retiring
<1>10. run[v].pc \notin Going
  BY DEF Retiring, Going, Confirming, Publishing, Delivering
<1> QED
  BY <1>0, <1>2, <1>3, <1>5, <1>6, <1>7, <1>8, <1>9, <1>10, RecordingKeeps

\* A step that finds nothing to write, and one that stops.
LEMMA GotoRecords ==
    ASSUME IInv, NEW v \in Viewers, run[v].op \in Ops, NEW l, Goto(v, l), resLock \in {v, Nobody},
           resLock' \in {v, Nobody}, UNCHANGED <<res, roots, litter, faults>>,
           UNCHANGED <<receipt, gen, owner, git, world, hist>>
    PROVE  Recording(v, res[run[v].op], roots[run[v].op], l, resLock')
<1>1. TypeOK /\ run[v] \in Runs
  BY DEF IInv, TypeOK
<1>2. run' = [run EXCEPT ![v].pc = l, ![v].problem = run[v].problem]
  BY <1>1 DEF Goto, TypeOK, Runs
<1> QED
  BY <1>1, <1>2 DEF Recording, TypeOK, Runs

LEMMA StopRecords ==
    ASSUME IInv, NEW v \in Viewers, run[v].op \in Ops, resLock \in {v, Nobody},
           RetirementStops(v), Fault("unavailable") \/ NoFault,
           UNCHANGED <<receipt, gen, owner, git, world, hist>>
    PROVE  Recording(v, res[run[v].op], roots[run[v].op], "unretired", Nobody)
<1>1. TypeOK /\ run[v] \in Runs
  BY DEF IInv, TypeOK
<1>2. faults' \in 0..MaxFaults
  BY <1>1, FaultTyped DEF FaultKinds
<1> QED
  BY <1>1, <1>2 DEF Recording, RetirementStops, Abandon, TypeOK, Problems

LEMMA RetireSnapshotKeeps ==
    ASSUME IInv, NEW v \in Viewers, RetireSnapshot(v)
    PROVE  IInv'
<1>0. PICK o \in Ops : o = run[v].op
  BY RetirerMay DEF RetireSnapshot, At, Retiring
<1>1. /\ run[v].pc \in Retiring /\ run[v].pc = "ret_snapshot" /\ resLock = v
      /\ res[o].state = "retiring" /\ Sound(res[o], roots[o]) /\ HandsOK(v)
      /\ res[o] \in Resources /\ roots[o] \in SUBSET PinKinds
      /\ roots = [roots EXCEPT ![o] = roots[o]] /\ res = [res EXCEPT ![o] = res[o]]
  BY <1>0 DEF IInv, TypeOK, ViewerOK, HandsOK, PlaceOK, Locking, Retiring, RetireSnapshot, At,
             OpOK, RecordOK
<1> DEFINE r == [res[o] EXCEPT !.snapshot = "retired"]
<1>2. /\ r \in Resources /\ r.snapshot = "retired" /\ r.state = "retiring" /\ r.keep = res[o].keep
      /\ r.rejected = res[o].rejected /\ r.commit = res[o].commit /\ r.base = res[o].base
  BY <1>1 DEF Resources
<1>3. Sound(r, roots[o])
  BY <1>1, <1>2 DEF Sound, Shape
<1>4. /\ UNCHANGED <<receipt, gen, roots, owner, git, world, mem, hist>>
      /\ \/ SaveResource(v, r, v, "ret_base", "unretired")
         \/ /\ res[o].snapshot = "retired" /\ Goto(v, "ret_base")
            /\ UNCHANGED <<res, resLock, litter, faults>>
         \/ RetirementStops(v) /\ Fault("unavailable")
  BY <1>0 DEF RetireSnapshot
<1> HIDE DEF r
<1>5. CASE SaveResource(v, r, v, "ret_base", "unretired")
  <2>1. \/ Recording(v, r, roots[o], "ret_base", v)
        \/ Recording(v, r, roots[o], "unretired", Nobody)
        \/ Recording(v, res[o], roots[o], "unretired", Nobody)
    <3>1. roots' = [roots EXCEPT ![run[v].op] = roots[o]] /\ mem' = mem
      BY <1>0, <1>1, <1>4
    <3> QED
      BY <1>0, <1>1, <1>4, <1>5, <3>1, SaveRecords
  <2> QED
    BY <1>0, <1>1, <1>2, <1>3, <1>4, <2>1, RetiringKeeps DEF Retiring
<1>6. CASE /\ res[o].snapshot = "retired" /\ Goto(v, "ret_base")
           /\ UNCHANGED <<res, resLock, litter, faults>>
  <2>1. Recording(v, res[o], roots[o], "ret_base", v)
    BY <1>0, <1>1, <1>4, <1>6, GotoRecords
  <2> QED
    BY <1>0, <1>1, <1>4, <1>6, <2>1, RetiringKeeps DEF Retiring
<1>7. CASE RetirementStops(v) /\ Fault("unavailable")
  <2>1. Recording(v, res[o], roots[o], "unretired", Nobody)
    BY <1>0, <1>1, <1>4, <1>7, StopRecords
  <2> QED
    BY <1>0, <1>1, <1>4, <2>1, RetiringKeeps DEF Retiring
<1> QED
  BY <1>4, <1>5, <1>6, <1>7

LEMMA RetireBaseKeeps ==
    ASSUME IInv, NEW v \in Viewers, RetireBase(v)
    PROVE  IInv'
<1>0. PICK o \in Ops : o = run[v].op
  BY RetirerMay DEF RetireBase, RetirePin, At, Retiring
<1>1. /\ run[v].pc \in Retiring /\ run[v].pc = "ret_base" /\ resLock = v
      /\ res[o].state = "retiring" /\ Sound(res[o], roots[o]) /\ res[o].snapshot = "retired"
      /\ res[o] \in Resources /\ roots[o] \in SUBSET PinKinds
      /\ roots = [roots EXCEPT ![o] = roots[o]] /\ res = [res EXCEPT ![o] = res[o]]
  BY <1>0 DEF IInv, TypeOK, ViewerOK, HandsOK, PlaceOK, Locking, Retiring, RetireBase, RetirePin, At,
             OpOK, RecordOK
<1> DEFINE r == [res[o] EXCEPT !.base = "retired"]
           refs == roots[o] \ {"base"}
<1>2. /\ r \in Resources /\ r.snapshot = "retired" /\ r.state = "retiring" /\ r.keep = res[o].keep
      /\ r.rejected = res[o].rejected /\ r.commit = res[o].commit /\ r.base = "retired"
      /\ refs \in SUBSET PinKinds /\ ("commit" \in roots[o] => "commit" \in refs)
  BY <1>1 DEF Resources, Pins
<1>3. Sound(r, refs) /\ Sound(res[o], refs)
  BY <1>1, <1>2 DEF Sound, Shape
<1>4. /\ UNCHANGED <<receipt, gen, owner, git, world, mem, hist>>
      /\ \/ /\ res[o].base \in {"none", "retired"} /\ Goto(v, "ret_commit")
            /\ UNCHANGED <<res, roots, resLock, litter, faults>>
         \/ /\ roots' = [roots EXCEPT ![run[v].op] = refs]
            /\ SaveResource(v, r, v, "ret_commit", "unretired")
         \/ RetirementStops(v) /\ (Fault("unavailable") \/ NoFault)
  BY <1>0, <1>1 DEF RetireBase, RetirePin
<1> HIDE DEF r, refs
<1>5. CASE /\ roots' = [roots EXCEPT ![run[v].op] = refs]
           /\ SaveResource(v, r, v, "ret_commit", "unretired")
  <2>1. \/ Recording(v, r, refs, "ret_commit", v)
        \/ Recording(v, r, refs, "unretired", Nobody)
        \/ Recording(v, res[o], refs, "unretired", Nobody)
    BY <1>0, <1>1, <1>4, <1>5, SaveRecords
  <2> QED
    BY <1>0, <1>1, <1>2, <1>3, <1>4, <2>1, RetiringKeeps DEF Retiring
<1>6. CASE /\ res[o].base \in {"none", "retired"} /\ Goto(v, "ret_commit")
           /\ UNCHANGED <<res, roots, resLock, litter, faults>>
  <2>1. Recording(v, res[o], roots[o], "ret_commit", v)
    BY <1>0, <1>1, <1>4, <1>6, GotoRecords
  <2>2. res[o].base = "retired"
    BY <1>1, <1>6 DEF Sound, Shape
  <2> QED
    BY <1>0, <1>1, <1>4, <2>1, <2>2, RetiringKeeps DEF Retiring
<1>7. CASE RetirementStops(v) /\ (Fault("unavailable") \/ NoFault)
  <2>1. Recording(v, res[o], roots[o], "unretired", Nobody)
    BY <1>0, <1>1, <1>4, <1>7, StopRecords
  <2> QED
    BY <1>0, <1>1, <1>4, <2>1, RetiringKeeps DEF Retiring
<1> QED
  BY <1>4, <1>5, <1>6, <1>7

LEMMA RetireCommitKeeps ==
    ASSUME IInv, NEW v \in Viewers, RetireCommit(v)
    PROVE  IInv'
<1>0. PICK o \in Ops : o = run[v].op
  BY RetirerMay DEF RetireCommit, RetirePin, At, Retiring
<1>1. /\ run[v].pc \in Retiring /\ run[v].pc = "ret_commit" /\ resLock = v
      /\ res[o].state = "retiring" /\ Sound(res[o], roots[o])
      /\ res[o].snapshot = "retired" /\ res[o].base = "retired"
      /\ res[o] \in Resources /\ roots[o] \in SUBSET PinKinds
      /\ roots = [roots EXCEPT ![o] = roots[o]] /\ res = [res EXCEPT ![o] = res[o]]
  BY <1>0 DEF IInv, TypeOK, ViewerOK, HandsOK, PlaceOK, Locking, Retiring, RetireCommit, RetirePin, At,
             OpOK, RecordOK
<1>k. Keep(v) = res[o].keep
  <2>1. run[v].job # "resources" => res[o].keep = (run[v].job = "cleanup")
    BY <1>0, <1>1 DEF IInv, ViewerOK, HandsOK
  <2> QED
    BY <1>0, <1>1, <2>1 DEF Keep, Resources
<1> DEFINE r == [res[o] EXCEPT !.commit = "retired"]
           refs == roots[o] \ {"commit"}
<1>2. /\ r \in Resources /\ r.snapshot = "retired" /\ r.state = "retiring" /\ r.keep = res[o].keep
      /\ r.rejected = res[o].rejected /\ r.commit = "retired" /\ r.base = "retired"
      /\ refs \in SUBSET PinKinds
  BY <1>1 DEF Resources, Pins
<1>3. ~res[o].keep /\ res[o].commit = "owned" => Sound(r, refs) /\ Sound(res[o], refs)
  BY <1>1, <1>2 DEF Sound, Shape
<1>4. /\ UNCHANGED <<receipt, gen, owner, git, world, mem, hist>>
      /\ \/ /\ res[o].commit \in {"none", "retired"} \/ res[o].keep
            /\ Goto(v, "ret_end")
            /\ UNCHANGED <<res, roots, resLock, litter, faults>>
         \/ /\ roots' = [roots EXCEPT ![run[v].op] = refs]
            /\ ~res[o].keep /\ res[o].commit = "owned"
            /\ SaveResource(v, r, v, "ret_end", "unretired")
         \/ RetirementStops(v) /\ (Fault("unavailable") \/ NoFault)
  BY <1>0, <1>1, <1>k DEF RetireCommit, RetirePin
<1> HIDE DEF r, refs
<1>5. CASE /\ roots' = [roots EXCEPT ![run[v].op] = refs]
           /\ ~res[o].keep /\ res[o].commit = "owned"
           /\ SaveResource(v, r, v, "ret_end", "unretired")
  <2>1. \/ Recording(v, r, refs, "ret_end", v)
        \/ Recording(v, r, refs, "unretired", Nobody)
        \/ Recording(v, res[o], refs, "unretired", Nobody)
    BY <1>0, <1>1, <1>4, <1>5, SaveRecords
  <2> QED
    BY <1>0, <1>1, <1>2, <1>3, <1>4, <1>5, <2>1, RetiringKeeps DEF Retiring
<1>6. CASE /\ res[o].commit \in {"none", "retired"} \/ res[o].keep
           /\ Goto(v, "ret_end")
           /\ UNCHANGED <<res, roots, resLock, litter, faults>>
  <2>1. Recording(v, res[o], roots[o], "ret_end", v)
    BY <1>0, <1>1, <1>4, <1>6, GotoRecords
  <2> QED
    BY <1>0, <1>1, <1>4, <1>6, <2>1, RetiringKeeps DEF Retiring
<1>7. CASE RetirementStops(v) /\ (Fault("unavailable") \/ NoFault)
  <2>1. Recording(v, res[o], roots[o], "unretired", Nobody)
    BY <1>0, <1>1, <1>4, <1>7, StopRecords
  <2> QED
    BY <1>0, <1>1, <1>4, <2>1, RetiringKeeps DEF Retiring
<1> QED
  BY <1>4, <1>5, <1>6, <1>7

LEMMA EndRetirementKeeps ==
    ASSUME IInv, NEW v \in Viewers, EndRetirement(v)
    PROVE  IInv'
<1>0. PICK o \in Ops : o = run[v].op
  BY RetirerMay DEF EndRetirement, At, Retiring
<1>1. /\ run[v].pc \in Retiring /\ run[v].pc = "ret_end" /\ resLock = v
      /\ res[o].state = "retiring" /\ Sound(res[o], roots[o])
      /\ res[o].snapshot = "retired" /\ res[o].base = "retired"
      /\ res[o].keep \/ res[o].commit \in {"none", "retired"}
      /\ res[o] \in Resources /\ roots[o] \in SUBSET PinKinds
      /\ roots = [roots EXCEPT ![o] = roots[o]] /\ res = [res EXCEPT ![o] = res[o]]
      /\ PlaceOK(v) /\ RetireOK(v) /\ OpOK(o)
  BY <1>0 DEF IInv, TypeOK, ViewerOK, HandsOK, PlaceOK, Locking, Retiring, EndRetirement, At,
             OpOK, RecordOK
<1>k. Keep(v) = res[o].keep /\ (res[o].keep => owner = v)
  <2>1. run[v].job # "resources" => res[o].keep = (run[v].job = "cleanup")
    BY <1>0, <1>1 DEF IInv, ViewerOK, HandsOK
  <2>2. run[v].job \in {"cleanup", "resources"} => owner = v
    BY <1>1 DEF PlaceOK, Owning, Unowned
  <2> QED
    BY <1>0, <1>1, <2>1, <2>2 DEF Keep, Resources
<1>2. /\ owner = v \/ GivesUp(v, o)
      /\ run[v].pc # "answer" /\ run[v].said = NoOp /\ run[v].job # "none"
  BY <1>0, <1>1, RetirerMay
<1>3. ASSUME NEW r \in Resources, NEW l \in {"retired", "unretired"},
             Recording(v, r, roots[o], l, Nobody), mem' = mem,
             Sound(r, roots[o]), r.state \in {"removed", "retained", "spent"},
             r.state = "removed" => Unstarted(o),
             r.state = "retained" => res[o].keep /\ r.commit = res[o].commit,
             ~r.rejected
      PROVE  IInv'
  <2>0. l \in Points /\ l \notin Going /\ l \notin Confirming /\ l # "list"
    BY DEF Points, Retiring, Going, Confirming, Publishing, Delivering
  <2>1. Moved(v, o, r, roots[o], l)
    BY <1>0, <1>3, <2>0, RecordingMoves
  <2>4. UNCHANGED <<receipt, gen, owner, hist>> /\ resLock' = Nobody
    BY <1>3 DEF Recording
  <2>5. ReceiptOK(o)'
    BY <1>1, <1>3, <2>1, <2>4
       DEF Moved, OpOK, ReceiptOK, Unstarted, Unsent, Early, Rooting, Forgetting
  <2>6. PlaceOK(v)'
    BY <1>0, <1>1, <1>2, <2>0, <2>1, <2>4
       DEF Moved, PlaceOK, Owning, Unowned, UnownedPoints, Locking, Retiring, Capturing, Confirming,
           Publishing, Delivering
  <2>7. HandsOK(v)'
    BY <2>1 DEF Moved, HandsOK, Retiring, Capturing
  <2>8. RetireOK(v)'
    <3>1. run[v].job = "forget" => r.state = "spent"
      <4>1. run[v].job = "forget" => ~res[o].keep /\ receipt[o] = "remote_delivered"
        BY <1>0, <1>1 DEF IInv, ViewerOK, HandsOK, RetireOK, Retiring
      <4> QED
        BY <1>3, <4>1 DEF Unstarted
    <3> QED
      BY <1>0, <1>1, <1>3, <2>1, <2>4, <3>1 DEF Moved, RetireOK, GivesUp, Unstarted, Retiring
  <2>9. StageOK(v)'
    BY <2>1 DEF Moved, StageOK
  <2>10. run[v].pc \notin Going
    BY <1>1 DEF Retiring, Going, Confirming, Publishing, Delivering
  <2>11. owner = v \/ r.state \in {"retiring", "spent", "removed"}
    BY <1>3, <1>k
  <2> QED
    BY <1>0, <1>1, <1>2, <1>3, <2>0, <2>5, <2>6, <2>7, <2>8, <2>9, <2>10, <2>11, RecordingKeeps
<1> DEFINE gone == [NoResource EXCEPT !.state = "removed"]
           kept == [res[o] EXCEPT !.state = "retained"]
           spent == [NoResource EXCEPT !.state = "spent", !.snapshot = "retired"]
<1>4. /\ UNCHANGED <<receipt, gen, roots, owner, git, world, mem, hist>>
      /\ \E r \in Resources :
           /\ SaveResource(v, r, Nobody, "retired", "unretired")
           /\ \/ res[o].rejected /\ r = gone
              \/ ~res[o].rejected /\ res[o].keep /\ r = kept
              \/ ~res[o].rejected /\ ~res[o].keep /\ r = spent
  <2>1. gone \in Resources /\ kept \in Resources /\ spent \in Resources
    BY <1>1 DEF Resources, NoResource, Pins
  <2> QED
    BY <1>0, <1>k, <2>1 DEF EndRetirement
<1>5. PICK r \in Resources :
           /\ SaveResource(v, r, Nobody, "retired", "unretired")
           /\ \/ res[o].rejected /\ r = gone
              \/ ~res[o].rejected /\ res[o].keep /\ r = kept
              \/ ~res[o].rejected /\ ~res[o].keep /\ r = spent
  BY <1>4
<1>6. \/ Recording(v, r, roots[o], "retired", Nobody)
      \/ Recording(v, r, roots[o], "unretired", Nobody)
      \/ Recording(v, res[o], roots[o], "unretired", Nobody)
  <2>1. roots' = [roots EXCEPT ![run[v].op] = roots[o]]
    BY <1>0, <1>1, <1>4
  <2> QED
    BY <1>0, <1>1, <1>4, <1>5, <2>1, SaveRecords
<1>7. CASE Recording(v, res[o], roots[o], "unretired", Nobody)
  BY <1>0, <1>1, <1>4, <1>7, RetiringKeeps DEF Retiring
<1>8. /\ Sound(r, roots[o]) /\ r.state \in {"removed", "retained", "spent"}
      /\ r.state = "removed" => Unstarted(o)
      /\ r.state = "retained" => res[o].keep /\ r.commit = res[o].commit
      /\ ~r.rejected
  <2>1. CASE res[o].rejected /\ r = gone
    <3>1. r.state = "removed" /\ r.base = "none" /\ r.commit = "none" /\ ~r.rejected /\ ~r.keep
      BY <2>1 DEF NoResource
    <3>2. "base" \notin roots[o] /\ "commit" \notin roots[o]
      BY <1>1, <2>1 DEF Sound, Shape
    <3> QED
      BY <1>1, <2>1, <3>1, <3>2 DEF Sound, Shape, OpOK, ReceiptOK
  <2>2. CASE ~res[o].rejected /\ res[o].keep /\ r = kept
    <3>1. /\ r.state = "retained" /\ r.base = "retired" /\ r.commit = res[o].commit
          /\ ~r.rejected /\ r.keep /\ r.snapshot = "retired"
      BY <1>1, <2>2 DEF Resources
    <3> QED
      BY <1>1, <2>2, <3>1 DEF Sound, Shape
  <2>3. CASE ~res[o].rejected /\ ~res[o].keep /\ r = spent
    <3>1. /\ r.state = "spent" /\ r.base = "none" /\ r.commit = "none" /\ ~r.rejected /\ ~r.keep
          /\ r.snapshot = "retired"
      BY <2>3 DEF NoResource
    <3>2. "base" \notin roots[o] /\ "commit" \notin roots[o]
      BY <1>1, <2>3 DEF Sound, Shape
    <3> QED
      BY <3>1, <3>2 DEF Sound, Shape
  <2> QED
    BY <1>5, <2>1, <2>2, <2>3
<1>9. mem' = mem
  BY <1>4
<1> QED
  BY <1>3, <1>6, <1>7, <1>8, <1>9

\* A retirement that begins, goes on, finds nothing to do or is not admitted.
LEMMA StartingKeeps ==
    ASSUME IInv, NEW v \in Viewers, NEW o \in Ops, run[v].op = o,
           run[v].pc \in {"discard", "retire"}, NEW r \in Resources,
           NEW l \in {"retired", "ret_snapshot", "unretired"}, NEW h,
           Recording(v, r, roots[o], l, h), mem' = mem,
           l = "ret_snapshot" => h = v /\ r.state = "retiring" /\
              (run[v].job # "resources" => r.keep = (run[v].job = "cleanup")),
           l = "retired" /\ run[v].job = "forget" => r.state = "spent",
           \/ r = res[o]
           \/ /\ res[o].state \in {"sealed", "confirmed", "retained"}
              /\ r.state = "retiring" /\ r.commit = res[o].commit /\ r.rejected = res[o].rejected,
           Sound(r, roots[o]), ReceiptOK(o)'
    PROVE  IInv'
<1>0. l \in Points /\ l \notin Going /\ l \notin Confirming /\ l # "list" /\ run[v].pc \notin Going
  BY DEF Points, Going, Confirming, Publishing, Delivering
<1>1. Moved(v, o, r, roots[o], l)
  BY <1>0, RecordingMoves
<1>2. /\ owner = v \/ GivesUp(v, o)
      /\ run[v].pc # "answer" /\ run[v].said = NoOp /\ run[v].job # "none"
      /\ run[v].job \in Giving \cup {"cleanup", "forget", "resources"}
  BY RetirerMay
<1>3. PlaceOK(v) /\ RetireOK(v)
  BY DEF IInv, ViewerOK
<1>4. UNCHANGED <<receipt, gen, owner, hist>> /\ resLock' = h
  BY DEF Recording
<1>6. PlaceOK(v)'
  BY <1>0, <1>1, <1>2, <1>3, <1>4
     DEF Moved, PlaceOK, Owning, Unowned, UnownedPoints, Locking, Retiring, Capturing, Confirming,
         Publishing, Delivering
<1>7. HandsOK(v)'
  BY <1>1 DEF Moved, HandsOK, Retiring, Capturing
<1>8. RetireOK(v)'
  BY <1>1, <1>2, <1>3, <1>4 DEF Moved, RetireOK, GivesUp, Unstarted, Retiring
<1>9. StageOK(v)'
  BY <1>1 DEF Moved, StageOK
<1>10. roots[o] \in SUBSET PinKinds
  BY DEF IInv, TypeOK
<1>11. \/ owner = v /\ res[o].state # "capturing"
       \/ GivesUp(v, o)
       \/ r = res[o] /\ roots[o] = roots[o]
  BY <1>2
<1>12. /\ res[o].state # "none" => r.state # "none"
       /\ res[o].state = "spent" => r.state = "spent"
       /\ res[o].state \in {"retiring", "spent", "removed"} =>
             owner = v \/ r.state \in {"retiring", "spent", "removed"}
  OBVIOUS
<1> QED
  BY <1>0, <1>2, <1>6, <1>7, <1>8, <1>9, <1>10, <1>11, <1>12, RecordingKeeps

LEMMA StartRetirementKeeps ==
    ASSUME IInv, NEW v \in Viewers, StartRetirement(v)
    PROVE  IInv'
<1>0. PICK o \in Ops : o = run[v].op
  BY RetirerMay DEF StartRetirement
<1>1. /\ run[v].pc \in {"discard", "retire"}
      /\ Sound(res[o], roots[o]) /\ res[o] \in Resources /\ roots[o] \in SUBSET PinKinds
      /\ roots = [roots EXCEPT ![o] = roots[o]]
      /\ PlaceOK(v) /\ RetireOK(v) /\ OpOK(o) /\ RecordOK(o) /\ ReceiptOK(o)
  BY <1>0 DEF IInv, TypeOK, ViewerOK, StartRetirement, OpOK, RecordOK
<1>2. UNCHANGED <<receipt, gen, roots, owner, git, world, mem, hist>>
  BY DEF StartRetirement
<1>3. /\ owner = v \/ GivesUp(v, o)
      /\ run[v].job \in Giving \cup {"cleanup", "forget", "resources"}
  BY <1>0, <1>1, RetirerMay
<1>k. /\ Keep(v) \in BOOLEAN
      /\ run[v].job # "resources" => Keep(v) = (run[v].job = "cleanup")
      /\ run[v].job = "resources" => Keep(v) = res[o].keep
  BY <1>0, <1>1 DEF Keep, Resources
<1> DEFINE r == [res[o] EXCEPT !.state = "retiring", !.keep = Keep(v)]
           fresh == res[o].state \in {"sealed", "confirmed", "retained"} /\ Verified(o)
           done == res[o].state = "spent" \/ (Keep(v) /\ res[o].state = "retained")
           may == CanLock /\ (At(v, "discard") => res[o].state = "sealed")
<1>4. /\ r \in Resources /\ r.state = "retiring" /\ r.keep = Keep(v)
      /\ r.commit = res[o].commit /\ r.base = res[o].base /\ r.snapshot = res[o].snapshot
      /\ r.rejected = res[o].rejected
  BY <1>1, <1>k DEF Resources
<1>5. \/ /\ resLock = Nobody /\ done /\ Goto(v, "retired")
         /\ UNCHANGED <<res, resLock, litter, faults>>
      \/ /\ resLock = Nobody /\ res[o].state = "retiring" /\ res[o].keep = Keep(v)
         /\ Goto(v, "ret_snapshot") /\ resLock' = v
         /\ UNCHANGED <<res, litter, faults>>
      \/ /\ resLock = Nobody /\ may /\ ~done /\ fresh
         /\ SaveResource(v, r, v, "ret_snapshot", "unretired")
      \/ Abandon(v, "unretired", "uncertain") /\ UNCHANGED <<res, resLock, litter, faults>>
  BY <1>0 DEF StartRetirement, CanLock
<1>6. ReceiptOK(o)' \/ res' # res
  BY <1>1, <1>2 DEF ReceiptOK, Unstarted, Unsent, Rooting, Forgetting
<1> HIDE DEF r
<1>7. CASE /\ resLock = Nobody /\ done /\ Goto(v, "retired")
           /\ UNCHANGED <<res, resLock, litter, faults>>
  <2>1. Recording(v, res[o], roots[o], "retired", Nobody)
    BY <1>0, <1>2, <1>7, GotoRecords
  <2>2. run[v].job = "forget" => res[o].state = "spent"
    BY <1>7, <1>k
  <2> QED
    BY <1>0, <1>1, <1>2, <1>6, <1>7, <2>1, <2>2, StartingKeeps
<1>8. CASE /\ resLock = Nobody /\ res[o].state = "retiring" /\ res[o].keep = Keep(v)
           /\ Goto(v, "ret_snapshot") /\ resLock' = v
           /\ UNCHANGED <<res, litter, faults>>
  <2>1. Recording(v, res[o], roots[o], "ret_snapshot", v)
    BY <1>0, <1>2, <1>8, GotoRecords
  <2> QED
    BY <1>0, <1>1, <1>2, <1>6, <1>8, <1>k, <2>1, StartingKeeps
<1>9. CASE Abandon(v, "unretired", "uncertain") /\ UNCHANGED <<res, resLock, litter, faults>>
  <2>1. PICK m \in Runs :
           /\ run' = [run EXCEPT ![v] = m] /\ m.pc = "unretired"
           /\ m.job = run[v].job /\ m.op = run[v].op /\ m.req = run[v].req
           /\ m.next = run[v].next /\ m.said = run[v].said
    BY <1>9, PacesTyped DEF Points, Problems
  <2>2. TypeOK' /\ run'[v] = m /\ \A u \in Viewers \ {v} : run'[u] = run[u]
    BY <1>2, <1>9, <2>1, WalkTyped DEF IInv, TypeOK, durable
  <2>3. run[v].said = NoOp /\ run[v].job # "none" /\ run[v].pc \notin Going
    BY <1>1, RetirerMay DEF Going, Confirming, Publishing, Delivering
  <2>4. PlaceOK(v)'
    BY <1>0, <1>1, <1>2, <1>3, <2>1, <2>2, <2>3
       DEF PlaceOK, Owning, Unowned, UnownedPoints, Locking, Retiring, Capturing, Confirming,
           Publishing, Delivering
  <2>5. HandsOK(v)' /\ StageOK(v)'
    BY <2>1, <2>2 DEF HandsOK, StageOK, Capturing, Retiring
  <2>6. RetireOK(v)'
    BY <1>1, <1>2, <1>9, <2>1, <2>2 DEF RetireOK, GivesUp, Unstarted, Retiring
  <2> QED
    BY <1>1, <1>2, <1>9, <2>1, <2>2, <2>3, <2>4, <2>5, <2>6, WalkKeeps DEF git, Confirming
<1>10. CASE /\ resLock = Nobody /\ may /\ ~done /\ fresh
            /\ SaveResource(v, r, v, "ret_snapshot", "unretired")
  <2>1. \/ Recording(v, r, roots[o], "ret_snapshot", v)
        \/ Recording(v, r, roots[o], "unretired", Nobody)
        \/ Recording(v, res[o], roots[o], "unretired", Nobody)
    <3>1. roots' = [roots EXCEPT ![run[v].op] = roots[o]]
      BY <1>0, <1>1, <1>2
    <3> QED
      BY <1>0, <1>2, <1>10, <3>1, SaveRecords
  <2>2. /\ res[o].base = "intent" => FALSE
        /\ res[o].commit = "intent" => FALSE
        /\ res[o].commit = "owned" => "commit" \in roots[o]
    BY <1>10 DEF Verified, PinKinds
  <2>3. run[v].job = "resources" => ~Keep(v) /\ Unstarted(o)
    BY <1>0, <1>1, <1>10, <1>k DEF RetireOK, Sound, Shape, At
  <2>4. run[v].job \in {"cleanup", "forget"} =>
           receipt[o] = "remote_delivered" /\ Rooting(o) /\ res[o].state # "sealed"
    BY <1>0, <1>1, <1>10 DEF RetireOK, ReceiptOK, Unstarted, Forgetting
  <2>5. run[v].job \in Giving => Unstarted(o) /\ ~Keep(v)
    BY <1>0, <1>1, <1>k DEF RetireOK, GivesUp, Giving
  <2>6. Keep(v) => Rooting(o) /\ res[o].state = "confirmed"
    BY <1>3, <1>10, <1>k, <2>3, <2>4, <2>5 DEF Giving
  <2>7. receipt[o] \notin Early
    BY <1>3, <2>3, <2>4, <2>5 DEF Unstarted, Early
  <2>9. ~res[o].rejected
    BY <1>1, <1>10 DEF Sound, Shape
  <2>8. Sound(r, roots[o])
    <3>1. /\ r.state = "retiring" /\ ~r.rejected
          /\ r.keep => r.commit = "owned" /\ "commit" \in roots[o]
          /\ r.snapshot \in {"live", "retired"} /\ r.base \in {"owned", "retired"}
          /\ r.commit \in {"none", "owned"}
          /\ r.snapshot # "retired" => r.base = "owned"
      BY <1>1, <1>4, <1>10, <2>2, <2>6, <2>9 DEF Sound, Shape, Rooting, Resources, Pins
    <3>2. /\ "base" \in roots[o] => r.base \in {"intent", "owned"}
          /\ "commit" \in roots[o] => r.commit \in {"intent", "owned"}
      BY <1>1, <1>4 DEF Sound
    <3> QED
      BY <3>1, <3>2 DEF Sound, Shape
  <2>10. CASE Recording(v, r, roots[o], "ret_snapshot", v) \/ Recording(v, r, roots[o], "unretired", Nobody)
    <3>1. Moved(v, o, r, roots[o], "ret_snapshot") \/ Moved(v, o, r, roots[o], "unretired")
      BY <1>0, <2>10, RecordingMoves DEF Points
    <3>2. res'[o] = r /\ roots'[o] = roots[o]
      BY <3>1 DEF Moved
    <3>3. ReceiptOK(o)'
      BY <1>1, <1>2, <1>4, <1>10, <2>6, <2>7, <2>9, <3>2
         DEF ReceiptOK, Unstarted, Unsent, Rooting, Forgetting, Early
    <3> QED
      BY <1>0, <1>1, <1>2, <1>4, <1>10, <1>k, <2>8, <2>10, <3>3, StartingKeeps
  <2>11. CASE Recording(v, res[o], roots[o], "unretired", Nobody)
    <3>1. Moved(v, o, res[o], roots[o], "unretired")
      BY <1>0, <2>11, RecordingMoves DEF Points
    <3>3. ReceiptOK(o)'
      BY <1>1, <1>2, <3>1 DEF Moved, ReceiptOK, Unstarted, Unsent, Rooting, Forgetting
    <3> QED
      BY <1>0, <1>1, <1>2, <2>11, <3>3, StartingKeeps
  <2> QED
    BY <2>1, <2>10, <2>11
<1> QED
  BY <1>5, <1>7, <1>8, <1>9, <1>10
-----------------------------------------------------------------------------
(* Steps that write a receipt, or nothing.                                  *)

Persisting(v, s, g, n, l) ==
    /\ receipt' = [receipt EXCEPT ![run[v].op] = s] /\ gen' = [gen EXCEPT ![run[v].op] = g]
    /\ \E p \in Problems : run' = [run EXCEPT ![v].pc = l, ![v].problem = p, ![v].next = n]
    /\ litter' \subseteq {"receipts", "resources"} /\ faults' \in 0..MaxFaults
    /\ UNCHANGED <<res, roots, locks, git, world, mem, hist>>

\* A write that succeeds, that is made and fails, and that fails.
LEMMA PersistPersists ==
    ASSUME IInv, NEW v \in Viewers, run[v].op \in Ops, NEW s, NEW g, NEW ok, NEW bad,
           Persist(v, s, g, ok, bad), UNCHANGED <<res, roots, locks, git, world, mem, hist>>
    PROVE  \/ Persisting(v, s, g, run[v].next, ok)
           \/ Persisting(v, s, g, run[v].next, bad)
           \/ Persisting(v, receipt[run[v].op], gen[run[v].op], run[v].next, bad)
<1>1. TypeOK /\ run[v] \in Runs
  BY DEF IInv, TypeOK
<1>2. faults' \in 0..MaxFaults
  BY <1>1, FaultTyped DEF Persist, FaultKinds
<1>3. /\ receipt = [receipt EXCEPT ![run[v].op] = receipt[run[v].op]]
      /\ gen = [gen EXCEPT ![run[v].op] = gen[run[v].op]]
  BY <1>1 DEF TypeOK
<1>4. litter' \subseteq {"receipts", "resources"}
  BY <1>1 DEF Persist, TypeOK
<1>5. \A l : Goto(v, l) =>
         run' = [run EXCEPT ![v].pc = l, ![v].problem = run[v].problem, ![v].next = run[v].next]
  BY <1>1 DEF Goto, TypeOK, Runs
<1>6. \A l, p : Abandon(v, l, p) =>
         run' = [run EXCEPT ![v].pc = l, ![v].problem = p, ![v].next = run[v].next]
  BY <1>1, ZenonT(60) DEF Abandon, TypeOK, Runs
<1>7. run[v].problem \in Problems /\ "uncertain" \in Problems
  BY <1>1 DEF Runs, Problems
<1> DEFINE made == /\ receipt' = [receipt EXCEPT ![run[v].op] = s]
                   /\ gen' = [gen EXCEPT ![run[v].op] = g]
<1>8. CASE made /\ Goto(v, ok)
  <2>1. \E p \in Problems :
           run' = [run EXCEPT ![v].pc = ok, ![v].problem = p, ![v].next = run[v].next]
    BY <1>5, <1>7, <1>8
  <2> QED
    BY <1>2, <1>4, <1>8, <2>1 DEF Persisting
<1>9. ASSUME Abandon(v, bad, "uncertain")
      PROVE  \E p \in Problems :
                run' = [run EXCEPT ![v].pc = bad, ![v].problem = p, ![v].next = run[v].next]
  BY <1>6, <1>7, <1>9
<1>10. CASE made /\ Abandon(v, bad, "uncertain")
  BY <1>2, <1>4, <1>9, <1>10 DEF Persisting
<1>11. CASE UNCHANGED <<receipt, gen>> /\ Abandon(v, bad, "uncertain")
  BY <1>2, <1>3, <1>4, <1>9, <1>11 DEF Persisting
<1> QED
  BY <1>8, <1>10, <1>11 DEF Persist

\* A step that writes nothing.
LEMMA PacePersists ==
    ASSUME IInv, NEW v \in Viewers, run[v].op \in Ops, NEW l,
           Goto(v, l) \/ \E p \in Problems : Abandon(v, l, p), faults' \in 0..MaxFaults,
           UNCHANGED <<durable, locks, git, world, mem, hist>>
    PROVE  Persisting(v, receipt[run[v].op], gen[run[v].op], run[v].next, l)
<1>1. TypeOK /\ run[v] \in Runs
  BY DEF IInv, TypeOK
<1>3. /\ receipt = [receipt EXCEPT ![run[v].op] = receipt[run[v].op]]
      /\ gen = [gen EXCEPT ![run[v].op] = gen[run[v].op]]
  BY <1>1 DEF TypeOK
<1>4. litter' \subseteq {"receipts", "resources"}
  BY <1>1 DEF TypeOK, durable
<1>5. Goto(v, l) =>
         run' = [run EXCEPT ![v].pc = l, ![v].problem = run[v].problem, ![v].next = run[v].next]
  BY <1>1 DEF Goto, TypeOK, Runs
<1>6. \A p : Abandon(v, l, p) =>
         run' = [run EXCEPT ![v].pc = l, ![v].problem = p, ![v].next = run[v].next]
  BY <1>1, ZenonT(60) DEF Abandon, TypeOK, Runs
<1>7. run[v].problem \in Problems
  BY <1>1 DEF Runs
<1> QED
  BY <1>3, <1>4, <1>5, <1>6, <1>7 DEF Persisting, durable

Paced(v, o, s, g, n, l) ==
    /\ run'[v].pc = l /\ run'[v].job = run[v].job /\ run'[v].op = o
    /\ run'[v].req = run[v].req /\ run'[v].next = n /\ run'[v].said = run[v].said
    /\ \A u \in Viewers \ {v} : run'[u] = run[u]
    /\ receipt'[o] = s /\ gen'[o] = g
    /\ \A p \in Ops \ {o} : receipt'[p] = receipt[p] /\ gen'[p] = gen[p]
    /\ UNCHANGED <<res, roots, owner, resLock, local, remote, mem, hist>>

LEMMA PersistingMoves ==
    ASSUME IInv, NEW v \in Viewers, NEW o \in Ops, run[v].op = o, NEW s \in Stages,
           NEW g \in 0..MaxGen, NEW n \in 0..MaxGen, NEW l \in Points, Persisting(v, s, g, n, l)
    PROVE  Paced(v, o, s, g, n, l) /\ TypeOK'
<1>1. TypeOK /\ run[v] \in Runs
  BY DEF IInv, TypeOK
<1>2. PICK p \in Problems : run' = [run EXCEPT ![v].pc = l, ![v].problem = p, ![v].next = n]
  BY DEF Persisting
<1> DEFINE m == [run[v] EXCEPT !.pc = l, !.problem = p, !.next = n]
<1>3. m \in Runs
  BY <1>1 DEF Runs
<1>4. run' = [run EXCEPT ![v] = m]
  BY <1>1, <1>2 DEF TypeOK
<1>5. /\ m.pc = l /\ m.job = run[v].job /\ m.op = run[v].op /\ m.req = run[v].req /\ m.next = n
      /\ m.said = run[v].said
  BY <1>1 DEF Runs
<1> HIDE DEF m
<1>6. run' \in [Viewers -> Runs] /\ run'[v] = m /\ \A u \in Viewers \ {v} : run'[u] = run[u]
  BY <1>1, <1>3, <1>4 DEF TypeOK
<1>7. TypeOK'
  BY <1>1, <1>6 DEF Persisting, TypeOK, locks, git, world
<1> QED
  BY <1>1, <1>5, <1>6, <1>7 DEF Persisting, Paced, TypeOK, locks, git

\* A step of v's request that writes its operation's receipt, or nothing.
LEMMA PersistingKeeps ==
    ASSUME IInv, NEW v \in Viewers, NEW o \in Ops, run[v].op = o, NEW s \in Stages,
           NEW g \in 0..MaxGen, NEW n \in 0..MaxGen, NEW l \in Points, Persisting(v, s, g, n, l),
           run[v].pc # "answer",
           owner = v \/ (s = receipt[o] /\ g = gen[o]),
           ReceiptOK(o)', DoneOK(o)',
           Unstarted(o) => s = "none" \/ (run[v].pc \in Confirming /\ l \in Going),
           run[v].pc \in Going /\ run[v].job = "confirm" => l \in Going,
           l \in Confirming => run[v].pc \in Confirming,
           l # "list",
           PlaceOK(v)', HandsOK(v)', RetireOK(v)', StageOK(v)'
    PROVE  IInv'
<1>0. Paced(v, o, s, g, n, l) /\ TypeOK'
  BY PersistingMoves
<1>1. /\ run'[v].pc = l /\ run'[v].job = run[v].job /\ run'[v].op = o
      /\ run'[v].said = run[v].said
      /\ \A u \in Viewers \ {v} : run'[u] = run[u]
      /\ receipt'[o] = s /\ gen'[o] = g
      /\ \A p \in Ops \ {o} : receipt'[p] = receipt[p] /\ gen'[p] = gen[p]
      /\ UNCHANGED <<res, roots, owner, resLock, local, remote, mem, hist>>
  BY <1>0 DEF Paced
<1>2. Nobody \notin Viewers /\ NoOp \notin Ops /\ PlaceOK(v) /\ MemoryOK(v) /\ OpOK(o)
  BY ComposeAssumption DEF IInv, ViewerOK
<1>3. Frame(v, o)
  BY <1>1 DEF Frame, Same
<1>4. \A p \in Ops : Claims(v, p)' => Claims(v, p)
  BY <1>1 DEF Claims, GivesUp
<1>5. Unstarted(o) => Unstarted(o)' \/ (run[v].pc \in Confirming /\ l \in Going)
  BY <1>1 DEF Unstarted
<1>6. run[v].pc \in Confirming => mem[v].held = o /\ mem[v].kind = "confirmed" /\ run[v].job = "confirm"
  BY <1>2 DEF MemoryOK, PlaceOK
<1>7. Spares(v, o)
  BY <1>1, <1>2, <1>4, <1>5, <1>6 DEF Spares
<1>8. OpOK(o)'
  <2>1. RecordOK(o)'
    BY <1>1, <1>2 DEF OpOK, RecordOK
  <2> QED
    BY <2>1 DEF OpOK
<1>9. run'[v].said = NoOp
  <2>1. run[v].pc # "idle"
    BY <1>2 DEF PlaceOK
  <2> QED
    BY <1>1, <1>2, <2>1 DEF PlaceOK
<1>10. \A p \in Ops : Unstarted(p) => Unstarted(p)' \/
              (run'[v].op = p /\ run'[v].job = "confirm" /\ run'[v].pc \in Going)
  BY <1>1, <1>5, <1>6 DEF Unstarted
<1>11. mem'[v] = mem[v]
  BY <1>1
<1> QED
  BY <1>0, <1>1, <1>3, <1>7, <1>8, <1>9, <1>10, <1>11, MoveKeeps

\* A step to `finish`.
LEMMA FinishingKeeps ==
    ASSUME IInv, NEW v \in Viewers, NEW o \in Ops, run[v].op = o, NEW s \in Stages,
           NEW g \in 0..MaxGen, NEW n \in 0..MaxGen, Persisting(v, s, g, n, "finish"),
           run[v].pc \notin {"answer", "idle"}, run[v].job \in {"confirm", "retry", "republish", "cleanup"},
           ReceiptOK(o)', DoneOK(o)',
           Unstarted(o) => s = "none" \/ run[v].pc \in Confirming
    PROVE  IInv'
<1>0. "finish" \in Points /\ "finish" \in Going /\ "finish" \notin Confirming
  BY DEF Points, Going, Confirming
<1>1. Paced(v, o, s, g, n, "finish")
  BY <1>0, PersistingMoves
<1>2. PlaceOK(v) /\ owner = v /\ NoOp \notin Ops
  BY ComposeAssumption DEF IInv, ViewerOK, PlaceOK, Owning, Unowned
<1>3. PlaceOK(v)'
  BY <1>1, <1>2 DEF Paced, PlaceOK, Owning, Unowned, UnownedPoints, Locking, Retiring, Capturing,
                    Confirming, Publishing, Delivering
<1>4. HandsOK(v)' /\ StageOK(v)'
  BY <1>1 DEF Paced, HandsOK, StageOK, Capturing, Retiring
<1>5. RetireOK(v)'
  BY <1>1 DEF Paced, RetireOK, GivesUp, Giving, Retiring
<1> QED
  BY <1>0, <1>2, <1>3, <1>4, <1>5, PersistingKeeps

\* A step that leaves the receipt leaves the operation as it was.
LEMMA PacedOp ==
    ASSUME IInv, NEW v \in Viewers, NEW o \in Ops, NEW n, NEW l,
           Paced(v, o, receipt[o], gen[o], n, l)
    PROVE  ReceiptOK(o)' /\ DoneOK(o)'
<1>1. ReceiptOK(o) /\ DoneOK(o)
  BY DEF IInv, OpOK
<1>2. /\ receipt'[o] = receipt[o] /\ gen'[o] = gen[o]
      /\ UNCHANGED <<res, roots, local, remote, hist>>
  BY DEF Paced
<1>3. ReceiptOK(o)'
  BY <1>1, <1>2 DEF ReceiptOK, Unstarted, Unsent, Rooting, Forgetting
<1> QED
  BY <1>1, <1>2, <1>3 DEF DoneOK, Unsent

LEMMA GivingFinish ==
    ASSUME IInv, NEW v \in Viewers, NEW o \in Ops, run[v].op = o, NEW n \in 0..MaxGen,
           Persisting(v, receipt[o], gen[o], n, "finish"),
           run[v].pc \notin {"answer", "idle"}, run[v].job \in {"confirm", "retry", "republish", "cleanup"}
    PROVE  IInv'
<1>1. receipt[o] \in Stages /\ gen[o] \in 0..MaxGen /\ "finish" \in Points
  BY DEF IInv, TypeOK, Points
<1>2. Paced(v, o, receipt[o], gen[o], n, "finish")
  BY <1>1, PersistingMoves
<1>3. ReceiptOK(o)' /\ DoneOK(o)'
  BY <1>2, PacedOp
<1> QED
  BY <1>1, <1>3, FinishingKeeps DEF Unstarted

\* A step of the request to `finish` that changes nothing else.
LEMMA PaceFinish ==
    ASSUME IInv, NEW v \in Viewers, run[v].pc \notin {"answer", "idle", "capture"},
           run[v].job \in {"confirm", "retry", "republish", "cleanup"},
           Goto(v, "finish") \/ \E p \in Problems : Abandon(v, "finish", p), faults' \in 0..MaxFaults,
           UNCHANGED <<durable, locks, git, world, mem, hist>>
    PROVE  IInv'
<1>0. run[v] \in Runs /\ PlaceOK(v)
  BY DEF IInv, TypeOK, ViewerOK
<1>1. PICK o \in Ops : o = run[v].op
  BY <1>0 DEF PlaceOK, Runs
<1>2. PICK n \in 0..MaxGen : n = run[v].next
  BY <1>0 DEF Runs
<1>3. Persisting(v, receipt[o], gen[o], n, "finish")
  BY <1>1, <1>2, PacePersists
<1> QED
  BY <1>1, <1>3, GivingFinish

\* What a receipt of stage s and generation g has to agree with.
WouldBe(o, s, g) ==
    /\ res[o].state \in {"none", "capturing", "sealed", "removed"} \/ res[o].rejected =>
          s = "none" /\ hist.commits[o] = 0
    /\ s = "none" /\ hist.commits[o] # 0 =>
          res[o].state = "spent" \/ (o \in hist.vanished /\ res[o].commit # "none")
    /\ s \in Early => /\ res[o].state = "confirmed" /\ g = 0
                      /\ \A h \in 0..MaxGen : hist.pushes[o][h] = 0
    /\ s \in {"prepared", "local_attempt", "local_published"} => Rooting(o)
    /\ s \in {"remote_attempt", "remote_delivered"} => Rooting(o) \/ Forgetting(o)
    /\ hist.commits[o] = 0 => g = 0
    /\ s \notin {"none", "preparing"} => hist.commits[o] = 1
    /\ s \in {"preparing", "commit_known", "prepared"} => hist.branches[o] = 0
    /\ s \in Published => hist.branches[o] = 1
    /\ \A h \in 1..MaxGen : h >= g => hist.pushes[o][h] = 0
    /\ s = "remote_delivered" => o \in hist.landed

LEMMA WouldBeOK ==
    ASSUME IInv, NEW v \in Viewers, NEW o \in Ops, NEW s, NEW g, NEW n, NEW l,
           Paced(v, o, s, g, n, l), WouldBe(o, s, g)
    PROVE  ReceiptOK(o)' /\ DoneOK(o)'
<1>1. ReceiptOK(o) /\ DoneOK(o)
  BY DEF IInv, OpOK
<1>2. /\ receipt'[o] = s /\ gen'[o] = g
      /\ UNCHANGED <<res, roots, local, remote, hist>>
  BY DEF Paced
<1>3. ReceiptOK(o)'
  BY <1>1, <1>2 DEF WouldBe, ReceiptOK, Unstarted, Unsent, Rooting, Forgetting
<1> QED
  BY <1>1, <1>2, <1>3 DEF WouldBe, DoneOK, Unsent

\* The request goes on to its next point.
LEMMA AdvanceKeeps ==
    ASSUME IInv, NEW v \in Viewers, NEW o \in Ops, run[v].op = o, NEW s \in Stages,
           NEW g \in 0..MaxGen, NEW n \in 0..MaxGen,
           NEW l \in ((Confirming \ {"pin_ref", "pin_own"}) \cup Publishing \cup Delivering \cup {"republish"}),
           Persisting(v, s, g, n, l),
           run[v].pc \notin {"answer", "idle"}, run[v].job \in {"confirm", "retry", "republish"},
           WouldBe(o, s, g), Unstarted(o) => s = "none" \/ (run[v].pc \in Confirming /\ l \in Going),
           l \in Confirming => run[v].pc \in Confirming,
           run[v].pc \in Going /\ run[v].job = "confirm" => l \in Going,
           l \in Publishing => run[v].job \in {"confirm", "retry"},
           l = "republish" => run[v].job = "republish" /\ n < MaxGen,
           StageOK(v)'
    PROVE  IInv'
<1>0. l \in Points /\ l # "list" /\ l \notin {"answer", "idle", "capture", "open", "resume", "regenerate",
                          "finish", "remove", "handle"} /\ l \notin Locking /\ l \notin Capturing
      /\ l \notin Retiring /\ l \notin {"discard", "retire", "retired"}
  BY DEF Points, Confirming, Publishing, Delivering, Locking, Retiring, Capturing
<1>1. Paced(v, o, s, g, n, l)
  BY <1>0, PersistingMoves
<1>2. PlaceOK(v) /\ owner = v /\ NoOp \notin Ops
  BY ComposeAssumption DEF IInv, ViewerOK, PlaceOK, Owning, Unowned
<1>3. run'[v].pc = l /\ run'[v].job = run[v].job /\ run'[v].op = o /\ run'[v].req = run[v].req
      /\ run'[v].next = n /\ run'[v].said = run[v].said /\ owner' = owner /\ resLock' = resLock
  BY <1>1 DEF Paced
<1>4. PlaceOK(v)'
  BY <1>0, <1>2, <1>3 DEF PlaceOK, Owning, Unowned
<1>5. HandsOK(v)'
  BY <1>0, <1>3 DEF HandsOK, Capturing, Retiring
<1>6. RetireOK(v)'
  BY <1>0, <1>3 DEF RetireOK, GivesUp, Giving
<1>7. ReceiptOK(o)' /\ DoneOK(o)'
  BY <1>1, WouldBeOK
<1> QED
  BY <1>0, <1>2, <1>4, <1>5, <1>6, <1>7, PersistingKeeps

\* A receipt that fits is written: the request goes on, or it ends.
LEMMA PersistKeeps ==
    ASSUME IInv, NEW v \in Viewers, NEW o \in Ops, run[v].op = o, NEW s \in Stages,
           NEW g \in 0..MaxGen, NEW ok, Persist(v, s, g, ok, "finish"),
           UNCHANGED <<res, roots, locks, git, world, mem, hist>>,
           run[v].pc \notin {"answer", "idle"}, run[v].job \in {"confirm", "retry", "republish"},
           WouldBe(o, s, g), Unstarted(o) => s = "none" \/ run[v].pc \in Confirming
    PROVE  IInv' \/ \E n \in 0..MaxGen : n = run[v].next /\ Persisting(v, s, g, n, ok)
<1>1. PICK n \in 0..MaxGen : n = run[v].next
  BY DEF IInv, TypeOK, Runs
<1>2. \/ Persisting(v, s, g, n, ok)
      \/ Persisting(v, s, g, n, "finish")
      \/ Persisting(v, receipt[o], gen[o], n, "finish")
  BY <1>1, PersistPersists
<1>3. CASE Persisting(v, s, g, n, "finish")
  <2>1. Paced(v, o, s, g, n, "finish")
    BY <1>3, PersistingMoves DEF Points
  <2>2. ReceiptOK(o)' /\ DoneOK(o)'
    BY <2>1, WouldBeOK
  <2> QED
    BY <1>3, <2>2, FinishingKeeps
<1>4. CASE Persisting(v, receipt[o], gen[o], n, "finish")
  BY <1>4, GivingFinish
<1> QED
  BY <1>1, <1>2, <1>3, <1>4
-----------------------------------------------------------------------------
(* Publication.                                                             *)

LEMMA AtWork ==
    ASSUME IInv, NEW v \in Viewers,
           run[v].pc \in Confirming \cup Publishing \cup Delivering \cup
                         {"handle", "resume", "regenerate", "republish"}
    PROVE  /\ run[v].op \in Ops /\ owner = v /\ run[v].job \in {"confirm", "retry", "republish"}
           /\ run[v].pc \notin {"answer", "idle", "capture"} /\ run[v] \in Runs
           /\ PlaceOK(v) /\ MemoryOK(v) /\ StageOK(v)
           /\ ReceiptOK(run[v].op) /\ DoneOK(run[v].op) /\ RecordOK(run[v].op)
           /\ receipt[run[v].op] \in Stages /\ gen[run[v].op] \in 0..MaxGen
           /\ res[run[v].op] \in Resources
<1>1. PlaceOK(v) /\ MemoryOK(v) /\ StageOK(v) /\ run[v] \in Runs
  BY DEF IInv, ViewerOK, TypeOK
<1>2. /\ run[v].op \in Ops /\ owner = v /\ run[v].job \in {"confirm", "retry", "republish"}
      /\ run[v].pc \notin {"answer", "idle", "capture"}
  BY <1>1 DEF PlaceOK, Runs, Owning, Unowned, Confirming, Publishing, Delivering
<1>3. OpOK(run[v].op)
  BY <1>2 DEF IInv
<1>4. receipt[run[v].op] \in Stages /\ gen[run[v].op] \in 0..MaxGen /\ res[run[v].op] \in Resources
  BY <1>2 DEF IInv, TypeOK
<1> QED
  BY <1>1, <1>2, <1>3, <1>4 DEF OpOK

LEMMA CommitKnownKeeps ==
    ASSUME IInv, NEW v \in Viewers, CommitKnown(v)
    PROVE  IInv'
<1>0. run[v].pc = "commit_known" /\ "commit_known" \in Confirming
  BY DEF CommitKnown, At, Confirming
<1>1. PICK o \in Ops : o = run[v].op
  BY <1>0, AtWork
<1>2. /\ run[v].job = "confirm" /\ receipt[o] = "preparing" /\ hist.commits[o] = 1
      /\ ReceiptOK(o) /\ DoneOK(o) /\ run[v].pc \in Going
  BY <1>0, <1>1, AtWork DEF PlaceOK, StageOK, Going
<1>3. WouldBe(o, "commit_known", 0)
  BY <1>2 DEF WouldBe, ReceiptOK, DoneOK, Early, Unstarted, Unsent, Published, Rooting, Forgetting
<1>z. 0 \in 0..MaxGen
  BY ComposeAssumption
<1>4. IInv' \/ \E n \in 0..MaxGen : n = run[v].next /\ Persisting(v, "commit_known", 0, n, "pin")
  BY <1>0, <1>1, <1>2, <1>3, <1>z, AtWork, PersistKeeps DEF CommitKnown, Stages
<1>5. ASSUME NEW n \in 0..MaxGen, Persisting(v, "commit_known", 0, n, "pin") PROVE IInv'
  <2>1. Paced(v, o, "commit_known", 0, n, "pin")
    BY <1>1, <1>5, <1>z, PersistingMoves DEF Stages, Points
  <2>2. StageOK(v)'
    BY <2>1 DEF Paced, StageOK
  <2>3. "pin" \in Going
    BY DEF Going, Confirming
  <2> QED
    BY <1>0, <1>1, <1>2, <1>3, <1>5, <1>z, <2>2, <2>3, AdvanceKeeps DEF Confirming, Publishing, Stages
<1> QED
  BY <1>4, <1>5

LEMMA PreparedKeeps ==
    ASSUME IInv, NEW v \in Viewers, Prepared(v)
    PROVE  IInv'
<1>0. run[v].pc = "prepared" /\ "prepared" \in Confirming
  BY DEF Prepared, At, Confirming
<1>1. PICK o \in Ops : o = run[v].op
  BY <1>0, AtWork
<1>2. /\ run[v].job = "confirm" /\ receipt[o] = "commit_known" /\ Rooting(o)
      /\ ReceiptOK(o) /\ DoneOK(o) /\ run[v].pc \in Going
  BY <1>0, <1>1, AtWork DEF PlaceOK, StageOK, Going
<1>3. WouldBe(o, "prepared", 0)
  BY <1>2 DEF WouldBe, ReceiptOK, DoneOK, Early, Unstarted, Unsent, Published
<1>z. 0 \in 0..MaxGen
  BY ComposeAssumption
<1>4. IInv' \/ \E n \in 0..MaxGen : n = run[v].next /\ Persisting(v, "prepared", 0, n, "publish_local")
  BY <1>0, <1>1, <1>2, <1>3, <1>z, AtWork, PersistKeeps DEF Prepared, Stages
<1>5. ASSUME NEW n \in 0..MaxGen, Persisting(v, "prepared", 0, n, "publish_local") PROVE IInv'
  <2>1. Paced(v, o, "prepared", 0, n, "publish_local")
    BY <1>1, <1>5, <1>z, PersistingMoves DEF Stages, Points
  <2>2. StageOK(v)'
    BY <2>1 DEF Paced, StageOK
  <2>3. "publish_local" \in Going /\ "publish_local" \notin Confirming
    BY DEF Going, Publishing, Confirming
  <2> QED
    BY <1>0, <1>1, <1>2, <1>3, <1>5, <1>z, <2>2, <2>3, AdvanceKeeps DEF Publishing, Stages
<1> QED
  BY <1>4, <1>5

LEMMA LocalAttemptKeeps ==
    ASSUME IInv, NEW v \in Viewers, LocalAttempt(v)
    PROVE  IInv'
<1>0. run[v].pc = "local_attempt" /\ "local_attempt" \in Publishing
  BY DEF LocalAttempt, At, Publishing
<1>1. PICK o \in Ops : o = run[v].op
  BY <1>0, AtWork
<1>2. /\ run[v].job \in {"confirm", "retry"} /\ receipt[o] = "prepared"
      /\ ReceiptOK(o) /\ DoneOK(o)
  BY <1>0, <1>1, AtWork DEF PlaceOK, StageOK
<1>3. WouldBe(o, "local_attempt", 0)
  BY <1>2 DEF WouldBe, ReceiptOK, DoneOK, Early, Unstarted, Unsent, Published
<1>z. 0 \in 0..MaxGen
  BY ComposeAssumption
<1>4. IInv' \/ \E n \in 0..MaxGen : n = run[v].next /\ Persisting(v, "local_attempt", 0, n, "install")
  BY <1>0, <1>1, <1>2, <1>3, <1>z, AtWork, PersistKeeps DEF LocalAttempt, Stages, Unstarted
<1>5. ASSUME NEW n \in 0..MaxGen, Persisting(v, "local_attempt", 0, n, "install") PROVE IInv'
  <2>1. Paced(v, o, "local_attempt", 0, n, "install")
    BY <1>1, <1>5, <1>z, PersistingMoves DEF Stages, Points
  <2>2. StageOK(v)'
    BY <1>2, <2>1 DEF Paced, StageOK, DoneOK
  <2>3. "install" \in Going /\ "install" \notin Confirming
    BY DEF Going, Publishing, Confirming
  <2> QED
    BY <1>0, <1>1, <1>2, <1>3, <1>5, <1>z, <2>2, <2>3, AdvanceKeeps DEF Publishing, Stages, Unstarted
<1> QED
  BY <1>4, <1>5

LEMMA LocalPublishedKeeps ==
    ASSUME IInv, NEW v \in Viewers, LocalPublished(v)
    PROVE  IInv'
<1>0. run[v].pc = "local_published" /\ "local_published" \in Publishing
  BY DEF LocalPublished, At, Publishing
<1>1. PICK o \in Ops : o = run[v].op
  BY <1>0, AtWork
<1>2. /\ run[v].job \in {"confirm", "retry"} /\ receipt[o] = "local_attempt" /\ hist.branches[o] = 1
      /\ ReceiptOK(o) /\ DoneOK(o)
  BY <1>0, <1>1, AtWork DEF PlaceOK, StageOK
<1>3. WouldBe(o, "local_published", 0)
  BY <1>2 DEF WouldBe, ReceiptOK, DoneOK, Early, Unstarted, Unsent, Published
<1>z. 0 \in 0..MaxGen
  BY ComposeAssumption
<1>4. IInv' \/ \E n \in 0..MaxGen :
                  n = run[v].next /\ Persisting(v, "local_published", 0, n, "publish_remote")
  BY <1>0, <1>1, <1>2, <1>3, <1>z, AtWork, PersistKeeps DEF LocalPublished, Stages, Unstarted
<1>5. ASSUME NEW n \in 0..MaxGen, Persisting(v, "local_published", 0, n, "publish_remote") PROVE IInv'
  <2>1. Paced(v, o, "local_published", 0, n, "publish_remote")
    BY <1>1, <1>5, <1>z, PersistingMoves DEF Stages, Points
  <2>2. StageOK(v)'
    BY <1>2, <2>1 DEF Paced, StageOK
  <2>3. "publish_remote" \in Going /\ "publish_remote" \notin Confirming
    BY DEF Going, Publishing, Confirming
  <2> QED
    BY <1>0, <1>1, <1>2, <1>3, <1>5, <1>z, <2>2, <2>3, AdvanceKeeps DEF Publishing, Stages, Unstarted
<1> QED
  BY <1>4, <1>5

LEMMA RemoteAttemptKeeps ==
    ASSUME IInv, NEW v \in Viewers, RemoteAttempt(v)
    PROVE  IInv'
<1>0. run[v].pc = "remote_attempt" /\ "remote_attempt" \in Publishing
  BY DEF RemoteAttempt, At, Publishing
<1>1. PICK o \in Ops : o = run[v].op
  BY <1>0, AtWork
<1>2. /\ run[v].job \in {"confirm", "retry"} /\ receipt[o] = "local_published"
      /\ run[v].next = 1 /\ run[v].req = 0 /\ run[v].next \in 0..MaxGen
      /\ ReceiptOK(o) /\ DoneOK(o)
  BY <1>0, <1>1, AtWork DEF PlaceOK, StageOK, Runs
<1>3. WouldBe(o, "remote_attempt", 1)
  BY <1>2 DEF WouldBe, ReceiptOK, DoneOK, Early, Unstarted, Unsent, Published
<1>z. 0 \in 0..MaxGen
  BY ComposeAssumption
<1>4. IInv' \/ \E n \in 0..MaxGen : n = run[v].next /\ Persisting(v, "remote_attempt", 1, n, "authorize")
  BY <1>0, <1>1, <1>2, <1>3, AtWork, PersistKeeps DEF RemoteAttempt, Stages, Unstarted
<1>5. ASSUME NEW n \in 0..MaxGen, n = run[v].next, Persisting(v, "remote_attempt", 1, n, "authorize")
      PROVE  IInv'
  <2>1. Paced(v, o, "remote_attempt", 1, n, "authorize")
    BY <1>1, <1>2, <1>5, PersistingMoves DEF Stages, Points
  <2>2. StageOK(v)'
    BY <1>2, <1>5, <1>z, <2>1 DEF Paced, StageOK, ReceiptOK, Early, Unsent
  <2>3. "authorize" \in Going /\ "authorize" \notin Confirming /\ "authorize" \notin Publishing
    BY DEF Going, Publishing, Confirming, Delivering
  <2> QED
    BY <1>0, <1>1, <1>2, <1>3, <1>5, <2>2, <2>3, AdvanceKeeps DEF Delivering, Stages, Unstarted
<1> QED
  BY <1>4, <1>5

LEMMA RegenerateKeeps ==
    ASSUME IInv, NEW v \in Viewers, Regenerate(v)
    PROVE  IInv'
<1>0. run[v].pc = "regenerate"
  BY DEF Regenerate, At
<1>1. PICK o \in Ops : o = run[v].op
  BY <1>0, AtWork
<1>2. /\ run[v].job = "republish" /\ receipt[o] \in {"remote_attempt", "remote_delivered"}
      /\ gen[o] = run[v].next /\ run[v].next = run[v].req /\ run[v].next >= 1
      /\ run[v].next \in 0..MaxGen /\ run[v].next < MaxGen
      /\ ReceiptOK(o) /\ DoneOK(o)
  BY <1>0, <1>1, AtWork DEF PlaceOK, StageOK, Runs
<1>z. MaxGen \in Nat
  BY ComposeAssumption
<1>3. PICK g \in 0..MaxGen : g = run[v].next + 1
  BY <1>2, <1>z
<1>6. WouldBe(o, "remote_attempt", g)
  BY <1>2, <1>3, <1>z DEF WouldBe, ReceiptOK, DoneOK, Early, Unstarted, Unsent, Published
<1>4. IInv' \/ \E n \in 0..MaxGen : n = run[v].next /\ Persisting(v, "remote_attempt", g, n, "republish")
  BY <1>0, <1>1, <1>2, <1>3, <1>6, AtWork, PersistKeeps DEF Regenerate, Stages, Unstarted
<1>5. ASSUME NEW n \in 0..MaxGen, n = run[v].next, Persisting(v, "remote_attempt", g, n, "republish")
      PROVE  IInv'
  <2>1. Paced(v, o, "remote_attempt", g, n, "republish")
    BY <1>1, <1>5, PersistingMoves DEF Stages, Points
  <2>2. StageOK(v)'
    BY <1>2, <1>3, <1>5, <2>1 DEF Paced, StageOK, DoneOK
  <2>3. "republish" \notin Confirming /\ "republish" \notin Publishing
    BY DEF Publishing, Confirming
  <2> QED
    BY <1>0, <1>1, <1>2, <1>5, <1>6, <2>2, <2>3, AdvanceKeeps DEF Stages, Unstarted
<1> QED
  BY <1>4, <1>5

LEMMA RemoteDeliveredKeeps ==
    ASSUME IInv, NEW v \in Viewers, RemoteDelivered(v)
    PROVE  IInv'
<1>0. run[v].pc = "remote_delivered" /\ "remote_delivered" \in Delivering
  BY DEF RemoteDelivered, At, Delivering
<1>1. PICK o \in Ops : o = run[v].op
  BY <1>0, AtWork
<1>2. /\ receipt[o] \in {"local_published", "remote_attempt"} /\ o \in hist.landed
      /\ run[v].next >= 1 /\ run[v].next >= gen[o] /\ run[v].next \in 0..MaxGen /\ gen[o] \in 0..MaxGen
      /\ ReceiptOK(o) /\ DoneOK(o)
  BY <1>0, <1>1, AtWork DEF PlaceOK, StageOK, Runs
<1>z. MaxGen \in Nat
  BY ComposeAssumption
<1>3. PICK g \in 0..MaxGen : g = run[v].next
  BY <1>2
<1>6. WouldBe(o, "remote_delivered", g)
  BY <1>2, <1>3, <1>z DEF WouldBe, ReceiptOK, DoneOK, Early, Unstarted, Unsent, Published
<1>4. IInv' \/ \E n \in 0..MaxGen : n = run[v].next /\ Persisting(v, "remote_delivered", g, n, "finish")
  BY <1>0, <1>1, <1>2, <1>3, <1>6, AtWork, PersistKeeps DEF RemoteDelivered, Stages, Unstarted
<1>5. ASSUME NEW n \in 0..MaxGen, Persisting(v, "remote_delivered", g, n, "finish")
      PROVE  IInv'
  <2>1. Paced(v, o, "remote_delivered", g, n, "finish")
    BY <1>1, <1>5, PersistingMoves DEF Stages, Points
  <2>2. ReceiptOK(o)' /\ DoneOK(o)'
    BY <1>6, <2>1, WouldBeOK
  <2> QED
    BY <1>0, <1>1, <1>2, <1>5, <2>2, AtWork, FinishingKeeps DEF Stages, Unstarted
<1> QED
  BY <1>4, <1>5

LEMMA StandsAsItIs ==
    ASSUME NEW o \in Ops, ReceiptOK(o), DoneOK(o)
    PROVE  WouldBe(o, receipt[o], gen[o])
BY DEF WouldBe, ReceiptOK, DoneOK, Unstarted, Unsent, Rooting, Forgetting

\* A step that draws the next generation and writes nothing.
LEMMA DrawPersists ==
    ASSUME IInv, NEW v \in Viewers, run[v].op \in Ops, NEW l, NEW n,
           run' = [run EXCEPT ![v].pc = l, ![v].next = n], faults' \in 0..MaxFaults,
           UNCHANGED <<durable, locks, git, world, mem, hist>>
    PROVE  Persisting(v, receipt[run[v].op], gen[run[v].op], n, l)
<1>1. TypeOK /\ run[v] \in Runs
  BY DEF IInv, TypeOK
<1>3. /\ receipt = [receipt EXCEPT ![run[v].op] = receipt[run[v].op]]
      /\ gen = [gen EXCEPT ![run[v].op] = gen[run[v].op]]
  BY <1>1 DEF TypeOK
<1>4. litter' \subseteq {"receipts", "resources"}
  BY <1>1 DEF TypeOK, durable
<1>5. run' = [run EXCEPT ![v].pc = l, ![v].problem = run[v].problem, ![v].next = n]
  BY <1>1 DEF TypeOK, Runs
<1>7. run[v].problem \in Problems
  BY <1>1 DEF Runs
<1> QED
  BY <1>3, <1>4, <1>5, <1>7 DEF Persisting, durable

LEMMA PublishLocalKeeps ==
    ASSUME IInv, NEW v \in Viewers, PublishLocal(v)
    PROVE  IInv'
<1>0. run[v].pc = "publish_local" /\ "publish_local" \in Publishing
  BY DEF PublishLocal, At, Publishing
<1>1. PICK o \in Ops : o = run[v].op
  BY <1>0, AtWork
<1>2. /\ run[v].job \in {"confirm", "retry"} /\ receipt[o] = "prepared" /\ gen[o] \in 0..MaxGen
      /\ WouldBe(o, receipt[o], gen[o])
  BY <1>0, <1>1, AtWork, StandsAsItIs DEF PlaceOK, StageOK
<1>3. faults' \in 0..MaxFaults /\ UNCHANGED <<durable, locks, git, world, mem, hist>>
  BY FaultTyped DEF PublishLocal, FaultKinds, IInv
<1>4. CASE Abandon(v, "finish", "other")
  BY <1>0, <1>2, <1>3, <1>4, PaceFinish DEF Problems
<1>5. CASE Goto(v, "local_attempt")
  <2>1. PICK n \in 0..MaxGen : n = run[v].next
    BY DEF IInv, TypeOK, Runs
  <2>2. Persisting(v, "prepared", gen[o], n, "local_attempt")
    BY <1>1, <1>2, <1>3, <1>5, <2>1, PacePersists
  <2>3. Paced(v, o, "prepared", gen[o], n, "local_attempt")
    BY <1>1, <1>2, <2>2, PersistingMoves DEF Stages, Points
  <2>4. StageOK(v)'
    BY <1>2, <2>3 DEF Paced, StageOK
  <2>5. "local_attempt" \in Going /\ "local_attempt" \notin Confirming
    BY DEF Going, Publishing, Confirming
  <2> QED
    BY <1>0, <1>1, <1>2, <2>2, <2>4, <2>5, AdvanceKeeps DEF Publishing, Stages, Unstarted
<1> QED
  BY <1>4, <1>5 DEF PublishLocal

LEMMA AuthorizeKeeps ==
    ASSUME IInv, NEW v \in Viewers, Authorize(v)
    PROVE  IInv'
<1>0. run[v].pc = "authorize" /\ "authorize" \in Delivering
  BY DEF Authorize, At, Delivering
<1>1. PICK o \in Ops : o = run[v].op
  BY <1>0, AtWork
<1>2. /\ run[v].job \in {"confirm", "retry", "republish"} /\ receipt[o] = "remote_attempt"
      /\ gen[o] \in 0..MaxGen /\ gen[o] = run[v].next /\ hist.pushes[o][run[v].req] = 0
      /\ WouldBe(o, receipt[o], gen[o]) /\ run[v].req < gen[o]
  BY <1>0, <1>1, AtWork, StandsAsItIs DEF StageOK
<1>3. faults' \in 0..MaxFaults /\ UNCHANGED <<durable, locks, git, world, mem, hist>>
  BY DEF Authorize, IInv, TypeOK
<1>4. CASE Abandon(v, "finish", "uncertain")
  BY <1>0, <1>2, <1>3, <1>4, PaceFinish DEF Problems
<1>5. CASE Goto(v, "push")
  <2>1. PICK n \in 0..MaxGen : n = run[v].next
    BY DEF IInv, TypeOK, Runs
  <2>2. Persisting(v, "remote_attempt", gen[o], n, "push")
    BY <1>1, <1>2, <1>3, <1>5, <2>1, PacePersists
  <2>3. Paced(v, o, "remote_attempt", gen[o], n, "push")
    BY <1>1, <1>2, <2>2, PersistingMoves DEF Stages, Points
  <2>4. StageOK(v)'
    BY <1>2, <2>1, <2>3 DEF Paced, StageOK
  <2>5. "push" \in Going /\ "push" \notin Confirming /\ "push" \notin Publishing
    BY DEF Going, Publishing, Confirming, Delivering
  <2> QED
    BY <1>0, <1>1, <1>2, <2>2, <2>4, <2>5, AdvanceKeeps DEF Delivering, Stages, Unstarted
<1> QED
  BY <1>4, <1>5 DEF Authorize

LEMMA PublishRemoteKeeps ==
    ASSUME IInv, NEW v \in Viewers, PublishRemote(v)
    PROVE  IInv'
<1>0. run[v].pc = "publish_remote" /\ "publish_remote" \in Publishing
  BY DEF PublishRemote, At, Publishing
<1>1. PICK o \in Ops : o = run[v].op
  BY <1>0, AtWork
<1>2. /\ run[v].job \in {"confirm", "retry"} /\ receipt[o] = "local_published"
      /\ gen[o] = 0 /\ DoneOK(o) /\ WouldBe(o, "local_published", 0)
  BY <1>0, <1>1, AtWork, StandsAsItIs DEF PlaceOK, StageOK, ReceiptOK, Early, Unsent
<1>3. faults' \in 0..MaxFaults /\ UNCHANGED <<durable, locks, git, world, mem, hist>>
  BY FaultTyped DEF PublishRemote, FaultKinds, IInv
<1>z. MaxGen \in Nat
  BY ComposeAssumption
<1>4. CASE Abandon(v, "finish", "other")
  BY <1>0, <1>2, <1>3, <1>4, PaceFinish DEF Problems
<1>5. ASSUME NEW l \in {"remote_attempt", "remote_delivered"},
             run' = [run EXCEPT ![v].pc = l, ![v].next = gen[o] + 1], gen[o] < MaxGen,
             l = "remote_delivered" => remote[o] = "commit"
      PROVE  IInv'
  <2>1. 1 \in 0..MaxGen /\ gen[o] + 1 = 1
    BY <1>2, <1>5, <1>z
  <2>2. Persisting(v, "local_published", 0, 1, l)
    BY <1>1, <1>2, <1>3, <1>5, <2>1, DrawPersists
  <2>3. Paced(v, o, "local_published", 0, 1, l)
    BY <1>1, <1>2, <1>z, <2>1, <2>2, PersistingMoves DEF Stages, Points
  <2>4. StageOK(v)'
    BY <1>2, <1>5, <2>3 DEF Paced, StageOK, DoneOK
  <2>5. l \in Going /\ l \notin Confirming /\ l # "republish" /\ l \in Publishing \cup Delivering
    BY DEF Going, Publishing, Confirming, Delivering
  <2> QED
    BY <1>0, <1>1, <1>2, <1>z, <2>1, <2>2, <2>4, <2>5, AdvanceKeeps DEF Stages, Unstarted
<1> QED
  BY <1>1, <1>4, <1>5 DEF PublishRemote

LEMMA ReobserveKeeps ==
    ASSUME IInv, NEW v \in Viewers, Reobserve(v)
    PROVE  IInv'
<1>0. run[v].pc = "republish"
  BY DEF Reobserve, At
<1>1. PICK o \in Ops : o = run[v].op
  BY <1>0, AtWork
<1>2. /\ run[v].job = "republish" /\ receipt[o] = "remote_attempt" /\ gen[o] = run[v].next + 1
      /\ hist.pushes[o][run[v].req] = 0 /\ run[v].next < MaxGen /\ run[v].next \in 0..MaxGen
      /\ gen[o] \in 0..MaxGen /\ DoneOK(o) /\ WouldBe(o, "remote_attempt", gen[o])
      /\ run[v].req < gen[o]
  BY <1>0, <1>1, AtWork, StandsAsItIs DEF PlaceOK, StageOK, Runs
<1>3. faults' \in 0..MaxFaults /\ UNCHANGED <<durable, locks, git, world, mem, hist>>
  BY FaultTyped DEF Reobserve, FaultKinds, IInv
<1>z. MaxGen \in Nat
  BY ComposeAssumption
<1>4. CASE Abandon(v, "finish", "other")
  BY <1>0, <1>2, <1>3, <1>4, PaceFinish DEF Problems
<1>5. ASSUME NEW l \in {"authorize", "remote_delivered"},
             run' = [run EXCEPT ![v].pc = l, ![v].next = @ + 1],
             l = "remote_delivered" => remote[o] = "commit"
      PROVE  IInv'
  <2>1. PICK n \in 0..MaxGen : n = run[v].next + 1
    BY <1>2, <1>z
  <2>6. run' = [run EXCEPT ![v].pc = l, ![v].next = n]
    BY <1>5, <2>1 DEF IInv, TypeOK, Runs
  <2>2. Persisting(v, "remote_attempt", gen[o], n, l)
    BY <1>1, <1>2, <1>3, <2>6, DrawPersists
  <2>3. Paced(v, o, "remote_attempt", gen[o], n, l)
    BY <1>1, <1>2, <2>2, PersistingMoves DEF Stages, Points
  <2>7. n >= 1 /\ n = gen[o]
    BY <1>2, <1>z, <2>1
  <2>4. StageOK(v)'
    BY <1>2, <1>5, <2>3, <2>7 DEF Paced, StageOK, DoneOK
  <2>5. l \in Going /\ l \notin Confirming /\ l # "republish" /\ l \in Delivering /\ l \notin Publishing
    BY DEF Going, Publishing, Confirming, Delivering
  <2> QED
    BY <1>0, <1>1, <1>2, <2>2, <2>4, <2>5, AdvanceKeeps DEF Stages, Unstarted
<1> QED
  BY <1>1, <1>4, <1>5 DEF Reobserve

LEMMA ResumeKeeps ==
    ASSUME IInv, NEW v \in Viewers, Resume(v)
    PROVE  IInv'
<1>0. run[v].pc = "resume"
  BY DEF Resume, At
<1>1. PICK o \in Ops : o = run[v].op
  BY <1>0, AtWork
<1>2. /\ run[v].job = "retry" /\ receipt[o] \in Stages /\ gen[o] \in 0..MaxGen
      /\ ReceiptOK(o) /\ DoneOK(o) /\ RecordOK(o) /\ WouldBe(o, receipt[o], gen[o])
  BY <1>0, <1>1, AtWork, StandsAsItIs DEF PlaceOK
<1>z. 0 \in 0..MaxGen
  BY ComposeAssumption
<1>3. UNCHANGED <<res, roots, locks, git, world, mem, hist>>
  BY DEF Resume
<1>4. CASE receipt[o] = "commit_known" /\ Rooted(o) /\ Persist(v, "prepared", 0, "publish_local", "finish")
  <2>1. WouldBe(o, "prepared", 0)
    <3>1. Rooting(o)
      BY <1>2, <1>4 DEF Rooted, Admitted, RecordOK, Sound, Rooting
    <3> QED
      BY <1>2, <1>4, <3>1 DEF WouldBe, ReceiptOK, DoneOK, Early, Unstarted, Unsent, Published
  <2>4. IInv' \/ \E n \in 0..MaxGen : n = run[v].next /\ Persisting(v, "prepared", 0, n, "publish_local")
    BY <1>0, <1>1, <1>2, <1>3, <1>4, <1>z, <2>1, PersistKeeps DEF Stages, Unstarted
  <2>5. ASSUME NEW n \in 0..MaxGen, Persisting(v, "prepared", 0, n, "publish_local") PROVE IInv'
    <3>1. Paced(v, o, "prepared", 0, n, "publish_local")
      BY <1>1, <2>5, <1>z, PersistingMoves DEF Stages, Points
    <3>2. StageOK(v)'
      BY <3>1 DEF Paced, StageOK
    <3>3. "publish_local" \notin Confirming
      BY DEF Publishing, Confirming
    <3> QED
      BY <1>0, <1>1, <1>2, <1>4, <1>z, <2>1, <2>5, <3>2, <3>3, AdvanceKeeps DEF Publishing, Stages, Unstarted
  <2> QED
    BY <2>4, <2>5
<1>5. ASSUME NEW l \in {"finish", "publish_local", "publish_remote"}, Goto(v, l),
             UNCHANGED <<receipt, gen, litter, faults>>,
             l = "publish_local" => receipt[o] = "prepared",
             l = "publish_remote" => receipt[o] = "local_published"
      PROVE  IInv'
  <2>1. faults' \in 0..MaxFaults /\ UNCHANGED <<durable, locks, git, world, mem, hist>>
    BY <1>3, <1>5 DEF IInv, TypeOK, durable
  <2>2. CASE l = "finish"
    BY <1>0, <1>2, <1>5, <2>1, <2>2, PaceFinish
  <2>3. CASE l # "finish"
    <3>1. PICK n \in 0..MaxGen : n = run[v].next
      BY DEF IInv, TypeOK, Runs
    <3>2. Persisting(v, receipt[o], gen[o], n, l)
      BY <1>1, <1>5, <2>1, <3>1, PacePersists
    <3>3. Paced(v, o, receipt[o], gen[o], n, l)
      BY <1>1, <1>2, <3>2, PersistingMoves DEF Points
    <3>4. StageOK(v)'
      BY <1>5, <2>3, <3>3 DEF Paced, StageOK
    <3>5. l \in Publishing /\ l \notin Confirming
      BY <2>3 DEF Publishing, Confirming
    <3> QED
      BY <1>0, <1>1, <1>2, <1>5, <2>3, <3>2, <3>4, <3>5, AdvanceKeeps DEF Unstarted
  <2> QED
    BY <2>2, <2>3
<1>6. \/ receipt[o] = "commit_known" /\ Rooted(o) /\ Persist(v, "prepared", 0, "publish_local", "finish")
      \/ /\ UNCHANGED <<receipt, gen, litter, faults>>
         /\ \/ Goto(v, "finish")
            \/ receipt[o] = "prepared" /\ Goto(v, "publish_local")
            \/ receipt[o] = "local_published" /\ Goto(v, "publish_remote")
  BY <1>1 DEF Resume
<1> QED
  BY <1>4, <1>5, <1>6

LEMMA LoadKeeps ==
    ASSUME IInv, NEW v \in Viewers, Load(v)
    PROVE  IInv'
<1>0. run[v].pc = "load" /\ "load" \in Confirming /\ "load" \notin Going
  BY DEF Load, At, Confirming, Going, Publishing, Delivering
<1>1. PICK o \in Ops : o = run[v].op
  BY <1>0, AtWork
<1>2. /\ run[v].job = "confirm" /\ receipt[o] \in Stages /\ gen[o] \in 0..MaxGen
      /\ res[o].state \in {"confirmed", "retained"} /\ Shape(res[o])
      /\ ReceiptOK(o) /\ DoneOK(o) /\ WouldBe(o, receipt[o], gen[o])
  BY <1>0, <1>1, AtWork, StandsAsItIs DEF PlaceOK, StageOK, RecordOK, Sound
<1>3. faults' \in 0..MaxFaults /\ UNCHANGED <<durable, locks, git, world, mem, hist>>
  BY FaultTyped DEF Load, FaultKinds, IInv
<1>4. CASE Goto(v, "finish")
  BY <1>0, <1>2, <1>3, <1>4, PaceFinish
<1>5. ASSUME NEW l \in {"refused", "preparing"}, Goto(v, l) \/ \E p \in Problems : Abandon(v, l, p),
             receipt[o] = "none",
             l = "preparing" => res[o].commit = "none",
             l = "refused" => run'[v].problem # "stale" \/ res[o].commit = "none"
      PROVE  IInv'
  <2>1. PICK n \in 0..MaxGen : n = run[v].next
    BY DEF IInv, TypeOK, Runs
  <2>2. Persisting(v, receipt[o], gen[o], n, l)
    BY <1>1, <1>3, <1>5, <2>1, PacePersists
  <2>3. Paced(v, o, receipt[o], gen[o], n, l)
    BY <1>1, <1>2, <2>2, PersistingMoves DEF Points
  <2>4. /\ hist.commits[o] = 0 \/ o \in hist.vanished
        /\ res[o].commit = "none" => hist.commits[o] = 0 /\ res[o].state = "confirmed"
    BY <1>2, <1>5 DEF ReceiptOK, Shape
  <2>5. StageOK(v)'
    BY <1>2, <1>5, <2>3, <2>4 DEF Paced, StageOK, Unstarted
  <2>6. l \in Confirming \ {"pin_ref", "pin_own"} /\ l \notin Publishing /\ l # "republish"
    BY DEF Confirming, Publishing
  <2> QED
    BY <1>0, <1>1, <1>2, <1>5, <2>2, <2>5, <2>6, AdvanceKeeps
<1>6. ASSUME NEW p \in Problems, NEW l, Abandon(v, l, p) PROVE run'[v].problem = p
  BY <1>6 DEF Abandon, IInv, TypeOK, Runs
<1>7. \/ Goto(v, "finish")
      \/ /\ receipt[o] = "none"
         /\ \/ res[o].commit = "none" /\ Abandon(v, "refused", "stale")
            \/ res[o].commit = "none" /\ Goto(v, "preparing")
            \/ Abandon(v, "refused", "other")
  BY <1>1 DEF Load, PreparationRecorded
<1> QED
  BY <1>4, <1>5, <1>6, <1>7 DEF Problems

LEMMA PreparingKeeps ==
    ASSUME IInv, NEW v \in Viewers, Preparing(v)
    PROVE  IInv'
<1>0. run[v].pc = "preparing" /\ "preparing" \in Confirming /\ "preparing" \notin Going
  BY DEF Preparing, At, Confirming, Going, Publishing, Delivering
<1>1. PICK o \in Ops : o = run[v].op
  BY <1>0, AtWork
<1>2. /\ run[v].job = "confirm" /\ Unstarted(o) /\ res[o].state = "confirmed"
      /\ ReceiptOK(o) /\ DoneOK(o) /\ RecordOK(o) /\ gen[o] \in 0..MaxGen
      /\ WouldBe(o, receipt[o], gen[o])
  BY <1>0, <1>1, AtWork, StandsAsItIs DEF PlaceOK, StageOK
<1>z. 0 \in 0..MaxGen
  BY ComposeAssumption
<1>3. UNCHANGED <<res, roots, locks, git, world, mem, hist>>
  BY DEF Preparing
<1>4. CASE Persist(v, "preparing", 0, "commit_tree", "finish")
  <2>1. WouldBe(o, "preparing", 0)
    <3>1. ~res[o].rejected
      BY <1>2 DEF RecordOK, Sound, Shape
    <3> QED
      BY <1>2, <3>1 DEF WouldBe, ReceiptOK, DoneOK, Early, Unstarted, Unsent, Published
  <2>4. IInv' \/ \E n \in 0..MaxGen : n = run[v].next /\ Persisting(v, "preparing", 0, n, "commit_tree")
    BY <1>0, <1>1, <1>2, <1>3, <1>4, <1>z, <2>1, PersistKeeps DEF Stages
  <2>5. ASSUME NEW n \in 0..MaxGen, Persisting(v, "preparing", 0, n, "commit_tree") PROVE IInv'
    <3>1. Paced(v, o, "preparing", 0, n, "commit_tree")
      BY <1>1, <2>5, <1>z, PersistingMoves DEF Stages, Points
    <3>2. StageOK(v)'
      BY <1>2, <3>1 DEF Paced, StageOK, Unstarted
    <3>3. "commit_tree" \in Going /\ "commit_tree" \notin Publishing
      BY DEF Publishing, Confirming, Going
    <3> QED
      BY <1>0, <1>1, <1>2, <1>z, <2>1, <2>5, <3>2, <3>3, AdvanceKeeps DEF Confirming, Stages
  <2> QED
    BY <2>4, <2>5
<1>5. CASE /\ Fault("save") /\ UNCHANGED <<receipt, gen, litter>>
           /\ Abandon(v, "refused", "uncertain")
  <2>0. faults' \in 0..MaxFaults /\ UNCHANGED <<durable, locks, git, world, mem, hist>>
    BY <1>3, <1>5, FaultTyped DEF FaultKinds, IInv, durable
  <2>1. PICK n \in 0..MaxGen : n = run[v].next
    BY DEF IInv, TypeOK, Runs
  <2>2. Persisting(v, "none", gen[o], n, "refused")
    BY <1>1, <1>2, <1>5, <2>0, <2>1, PacePersists DEF Problems, Unstarted
  <2>3. Paced(v, o, "none", gen[o], n, "refused")
    BY <1>1, <1>2, <2>2, PersistingMoves DEF Points, Stages
  <2>4. StageOK(v)'
    BY <1>2, <2>3 DEF Paced, StageOK, Unstarted
  <2>5. "refused" \in Confirming \ {"pin_ref", "pin_own"} /\ "refused" \notin Publishing
    BY DEF Confirming, Publishing
  <2>6. WouldBe(o, "none", gen[o])
    BY <1>2 DEF Unstarted
  <2> QED
    BY <1>0, <1>1, <1>2, <2>2, <2>4, <2>5, <2>6, AdvanceKeeps DEF Stages
<1> QED
  BY <1>4, <1>5 DEF Preparing

\* A step that does something in Git or at the remote.
LEMMA DoingKeeps ==
    ASSUME IInv, NEW v \in Viewers, NEW o \in Ops, run[v].op = o, owner = v,
           NEW l \in Publishing \cup Delivering \cup {"commit_known", "finish"},
           Goto(v, l) \/ \E p \in Problems : Abandon(v, l, p), TypeOK',
           UNCHANGED <<durable, locks, mem>>,
           \A p \in Ops \ {o} : /\ local'[p] = local[p] /\ remote'[p] = remote[p]
                                /\ hist'.commits[p] = hist.commits[p]
                                /\ hist'.branches[p] = hist.branches[p]
                                /\ hist'.pushes[p] = hist.pushes[p],
           hist.landed \subseteq hist'.landed, hist'.vanished = hist.vanished,
           run[v].pc \in Confirming \cup Publishing \cup Delivering, receipt[o] # "none",
           l = "commit_known" => run[v].pc \in Confirming,
           l \in Publishing => run[v].pc \in Publishing,
           ReceiptOK(o)', DoneOK(o)', StageOK(v)'
    PROVE  IInv'
<1>0. /\ l \in Points /\ l \in Going /\ (l \in Confirming => run[v].pc \in Confirming) /\ l # "list"
      /\ l \notin {"answer", "idle", "capture", "open", "resume", "regenerate", "republish",
                   "remove", "handle"} /\ l \notin Locking /\ l \notin Capturing
      /\ l \notin Retiring /\ l \notin {"discard", "retire", "retired"}
  BY DEF Points, Going, Confirming, Publishing, Delivering, Locking, Retiring, Capturing
<1>1. PICK m \in Runs :
              /\ run' = [run EXCEPT ![v] = m]
              /\ m.pc = l /\ m.job = run[v].job /\ m.op = run[v].op /\ m.req = run[v].req
              /\ m.next = run[v].next /\ m.said = run[v].said
  BY <1>0, PacesTyped
<1>2. /\ run'[v].pc = l /\ run'[v].job = run[v].job /\ run'[v].op = o /\ run'[v].req = run[v].req
      /\ run'[v].next = run[v].next /\ run'[v].said = run[v].said
      /\ \A u \in Viewers \ {v} : run'[u] = run[u]
  BY <1>1 DEF IInv, TypeOK
<1>3. PlaceOK(v) /\ RecordOK(o) /\ NoOp \notin Ops /\ run[v].job \in {"confirm", "retry", "republish"}
  BY AtWork, ComposeAssumption
<1>4. UNCHANGED <<receipt, gen, res, roots, owner, resLock, mem>>
  BY DEF durable, locks
<1>5. Frame(v, o)
  BY <1>2, <1>4 DEF Frame, Same
<1>6. \A p \in Ops : Claims(v, p)' => Claims(v, p)
  BY <1>2, <1>3, <1>4 DEF Claims, GivesUp, Giving
<1>n. Nobody \notin Viewers
  BY ComposeAssumption
<1>7. Spares(v, o)
  BY <1>4, <1>6, <1>n DEF Spares, Unstarted
<1>8. OpOK(o)'
  BY <1>3, <1>4 DEF OpOK, RecordOK
<1>9. run'[v].said = NoOp /\ mem'[v] = mem[v]
  BY <1>2, <1>3, <1>4 DEF PlaceOK, Confirming, Publishing, Delivering
<1>10. \A p \in Ops : Unstarted(p) => Unstarted(p)'
  BY <1>4 DEF Unstarted
<1>11. PlaceOK(v)'
  BY <1>0, <1>2, <1>3, <1>4 DEF PlaceOK, Owning, Unowned
<1>12. HandsOK(v)' /\ RetireOK(v)'
  BY <1>0, <1>2, <1>3 DEF HandsOK, RetireOK, GivesUp, Giving, Capturing, Retiring
<1> QED
  BY <1>0, <1>2, <1>5, <1>7, <1>8, <1>9, <1>10, <1>11, <1>12, MoveKeeps

Hists == [commits: [Ops -> Nat], branches: [Ops -> Nat],
          pushes: [Ops -> [0..MaxGen -> Nat]], landed: SUBSET Ops, vanished: SUBSET Ops]

LEMMA HistCommits ==
    ASSUME NEW h \in Hists, NEW o \in Ops, NEW k, k = [h EXCEPT !.commits[o] = @ + 1]
    PROVE  /\ k \in Hists /\ k.commits = [h.commits EXCEPT ![o] = h.commits[o] + 1]
           /\ k.branches = h.branches /\ k.pushes = h.pushes /\ k.landed = h.landed
           /\ k.vanished = h.vanished
<1> DEFINE c == [h.commits EXCEPT ![o] = h.commits[o] + 1]
<1>1. h.commits \in [Ops -> Nat]
  BY DEF Hists
<1>2. c \in [Ops -> Nat]
  BY <1>1
<1>3. k = [h EXCEPT !.commits = c]
  OBVIOUS
<1> HIDE DEF c
<1>4. /\ k \in Hists /\ k.commits = c /\ k.branches = h.branches /\ k.pushes = h.pushes
      /\ k.landed = h.landed /\ k.vanished = h.vanished
  BY <1>2, <1>3 DEF Hists
<1> QED
  BY <1>4 DEF c

LEMMA HistBranches ==
    ASSUME NEW h \in Hists, NEW o \in Ops, NEW k, k = [h EXCEPT !.branches[o] = @ + 1]
    PROVE  /\ k \in Hists /\ k.branches = [h.branches EXCEPT ![o] = h.branches[o] + 1]
           /\ k.commits = h.commits /\ k.pushes = h.pushes /\ k.landed = h.landed
           /\ k.vanished = h.vanished
<1> DEFINE c == [h.branches EXCEPT ![o] = h.branches[o] + 1]
<1>1. h.branches \in [Ops -> Nat]
  BY DEF Hists
<1>2. c \in [Ops -> Nat]
  BY <1>1
<1>3. k = [h EXCEPT !.branches = c]
  OBVIOUS
<1> HIDE DEF c
<1>4. /\ k \in Hists /\ k.branches = c /\ k.commits = h.commits /\ k.pushes = h.pushes
      /\ k.landed = h.landed /\ k.vanished = h.vanished
  BY <1>2, <1>3 DEF Hists
<1> QED
  BY <1>4 DEF c

LEMMA CommitTreeKeeps ==
    ASSUME IInv, NEW v \in Viewers, CommitTree(v)
    PROVE  IInv'
<1>0. run[v].pc = "commit_tree" /\ "commit_tree" \in Confirming
  BY DEF CommitTree, At, Confirming
<1>1. PICK o \in Ops : o = run[v].op
  BY <1>0, AtWork
<1>2. /\ owner = v /\ receipt[o] = "preparing" /\ hist.commits[o] = 0 /\ ReceiptOK(o) /\ DoneOK(o)
  BY <1>0, <1>1, AtWork DEF StageOK
<1>3. /\ hist' = [hist EXCEPT !.commits[o] = @ + 1] /\ UNCHANGED <<durable, locks, git, world, mem>>
      /\ faults' \in 0..MaxFaults
  BY <1>1, FaultTyped DEF CommitTree, FaultKinds, IInv
<1>4. /\ hist' \in Hists
      /\ hist'.commits = [hist.commits EXCEPT ![o] = hist.commits[o] + 1]
      /\ hist'.branches = hist.branches /\ hist'.pushes = hist.pushes /\ hist'.landed = hist.landed
      /\ hist'.vanished = hist.vanished
  BY <1>3, HistCommits DEF IInv, TypeOK, Hists
<1>5. hist'.commits[o] = 1 /\ \A p \in Ops \ {o} : hist'.commits[p] = hist.commits[p]
  BY <1>2, <1>4 DEF IInv, TypeOK
<1>6. UNCHANGED <<receipt, gen, res, roots, litter, owner, resLock, local, remote, flight, stale, old, mem>>
  BY <1>3 DEF durable, locks, git, world
<1>7. ASSUME NEW l \in {"commit_known", "finish"}, Goto(v, l) \/ \E p \in Problems : Abandon(v, l, p)
      PROVE  IInv'
  <2>1. PICK m \in Runs : /\ run' = [run EXCEPT ![v] = m] /\ m.pc = l /\ m.op = run[v].op
    BY <1>7, PacesTyped DEF Points
  <2>2. TypeOK' /\ run'[v] = m
    BY <1>3, <1>4, <1>6, <2>1, ZenonT(60) DEF IInv, TypeOK, Hists
  <2>3. ReceiptOK(o)'
    <3>1. ~res[o].rejected /\ res[o].state = "confirmed"
      BY <1>2 DEF ReceiptOK, Unstarted, Early
    <3> QED
      BY <1>2, <1>4, <1>6, <3>1 DEF ReceiptOK, Unstarted, Unsent, Rooting, Forgetting, Early
  <2>4. DoneOK(o)'
    BY <1>2, <1>4, <1>5, <1>6 DEF DoneOK, Unsent
  <2>5. StageOK(v)'
    BY <1>1, <1>2, <1>5, <1>6, <2>1, <2>2 DEF StageOK
  <2>6. l \notin Publishing
    BY DEF Publishing
  <2>7. UNCHANGED <<durable, locks, mem>>
    BY <1>3
  <2>8. \A p \in Ops \ {o} : /\ local'[p] = local[p] /\ remote'[p] = remote[p]
                                /\ hist'.commits[p] = hist.commits[p]
                                /\ hist'.branches[p] = hist.branches[p]
                                /\ hist'.pushes[p] = hist.pushes[p]
    BY <1>4, <1>5, <1>6
  <2>9. hist.landed \subseteq hist'.landed /\ hist'.vanished = hist.vanished
    BY <1>4
  <2> QED
    BY <1>0, <1>1, <1>2, <1>7, <2>2, <2>3, <2>4, <2>5, <2>6, <2>7, <2>8, <2>9, DoingKeeps
<1> QED
  BY <1>7 DEF CommitTree, Problems

LEMMA InstallKeeps ==
    ASSUME IInv, NEW v \in Viewers, Install(v)
    PROVE  IInv'
<1>0. run[v].pc = "install" /\ "install" \in Publishing
  BY DEF Install, At, Publishing
<1>1. PICK o \in Ops : o = run[v].op
  BY <1>0, AtWork
<1>2. /\ owner = v /\ receipt[o] = "local_attempt" /\ hist.branches[o] = 0 /\ ReceiptOK(o) /\ DoneOK(o)
  BY <1>0, <1>1, AtWork DEF StageOK
<1>3. UNCHANGED <<durable, locks, remote, flight, world, mem>> /\ faults' \in 0..MaxFaults
  BY FaultTyped DEF Install, FaultKinds, IInv
<1>6. UNCHANGED <<receipt, gen, res, roots, litter, owner, resLock, remote, flight, stale, old, mem>>
  BY <1>3 DEF durable, locks, world
<1>7. ASSUME local' = [local EXCEPT ![o] = "commit"],
             hist' = [hist EXCEPT !.branches[o] = @ + 1],
             NEW l \in {"local_published", "finish"}, Goto(v, l) \/ \E p \in Problems : Abandon(v, l, p)
      PROVE  IInv'
  <2>1. PICK m \in Runs : /\ run' = [run EXCEPT ![v] = m] /\ m.pc = l /\ m.op = run[v].op
    BY <1>7, PacesTyped DEF Points
  <2>a. /\ hist' \in Hists
        /\ hist'.branches = [hist.branches EXCEPT ![o] = hist.branches[o] + 1]
        /\ hist'.commits = hist.commits /\ hist'.pushes = hist.pushes /\ hist'.landed = hist.landed
        /\ hist'.vanished = hist.vanished
    BY <1>7, HistBranches DEF IInv, TypeOK, Hists
  <2>b. /\ hist'.branches[o] = 1 /\ local'[o] = "commit" /\ local' \in [Ops -> Refs]
        /\ \A p \in Ops \ {o} : hist'.branches[p] = hist.branches[p] /\ local'[p] = local[p]
    BY <1>2, <1>7, <2>a DEF IInv, TypeOK, Refs
  <2>2. TypeOK' /\ run'[v] = m
    BY <1>3, <1>6, <2>1, <2>a, <2>b DEF IInv, TypeOK, Hists
  <2>3. ReceiptOK(o)'
    BY <1>2, <1>6, <2>a DEF ReceiptOK, Unstarted, Unsent, Rooting, Forgetting
  <2>4. DoneOK(o)'
    BY <1>2, <1>6, <2>a, <2>b DEF DoneOK, Unsent
  <2>5. StageOK(v)'
    BY <1>1, <1>2, <1>6, <2>1, <2>2, <2>b DEF StageOK
  <2>7. UNCHANGED <<durable, locks, mem>>
    BY <1>3
  <2>8. \A p \in Ops \ {o} : /\ local'[p] = local[p] /\ remote'[p] = remote[p]
                                /\ hist'.commits[p] = hist.commits[p]
                                /\ hist'.branches[p] = hist.branches[p]
                                /\ hist'.pushes[p] = hist.pushes[p]
    BY <1>6, <2>a, <2>b
  <2>9. hist.landed \subseteq hist'.landed /\ hist'.vanished = hist.vanished
    BY <2>a
  <2> QED
    BY <1>0, <1>1, <1>2, <1>7, <2>2, <2>3, <2>4, <2>5, <2>7, <2>8, <2>9, DoingKeeps DEF Publishing
<1>8. CASE UNCHANGED <<local, hist>> /\ Abandon(v, "finish", "other")
  BY <1>0, <1>1, <1>3, <1>8, PaceFinish, AtWork DEF Problems, git
<1> QED
  BY <1>1, <1>7, <1>8 DEF Install, Problems

Pushed(h, k, o, r, f) ==
    /\ k \in Hists /\ k.branches = h.branches /\ k.commits = h.commits /\ k.landed = f
    /\ k.vanished = h.vanished
    /\ \A p \in Ops \ {o} : k.pushes[p] = h.pushes[p]
    /\ \A g \in 0..MaxGen : k.pushes[o][g] = IF g = r THEN h.pushes[o][g] + 1 ELSE h.pushes[o][g]

LEMMA HistPushes ==
    ASSUME NEW h \in Hists, NEW o \in Ops, NEW r \in 0..MaxGen, NEW f \in SUBSET Ops, NEW k,
           k = [h EXCEPT !.pushes[o][r] = h.pushes[o][r] + 1, !.landed = f]
    PROVE  Pushed(h, k, o, r, f)
<1> DEFINE c == [h.pushes EXCEPT ![o][r] = h.pushes[o][r] + 1]
<1>1. h.pushes \in [Ops -> [0..MaxGen -> Nat]]
  BY DEF Hists
<1>2. c \in [Ops -> [0..MaxGen -> Nat]]
  <2> DEFINE d == [h.pushes[o] EXCEPT ![r] = h.pushes[o][r] + 1]
  <2>1. h.pushes[o] \in [0..MaxGen -> Nat]
    BY <1>1
  <2>5. h.pushes[o][r] \in Nat
    BY <2>1
  <2>4. h.pushes[o][r] + 1 \in Nat
    BY <2>5
  <2>2. d \in [0..MaxGen -> Nat]
    BY <2>1, <2>4
  <2>3. c = [h.pushes EXCEPT ![o] = d]
    OBVIOUS
  <2> HIDE DEF d
  <2> QED
    BY <1>1, <2>2, <2>3
<1>3. k = [h EXCEPT !.pushes = c, !.landed = f]
  OBVIOUS
<1>4. /\ \A p \in Ops \ {o} : c[p] = h.pushes[p]
      /\ \A g \in 0..MaxGen : c[o][g] = IF g = r THEN h.pushes[o][g] + 1 ELSE h.pushes[o][g]
  BY <1>1
<1> HIDE DEF c
<1>5. /\ k \in Hists /\ k.pushes = c /\ k.commits = h.commits /\ k.branches = h.branches
      /\ k.landed = f /\ k.vanished = h.vanished
  BY <1>2, <1>3 DEF Hists
<1> QED
  BY <1>4, <1>5 DEF Pushed

LEMMA PushKeeps ==
    ASSUME IInv, NEW v \in Viewers, Push(v)
    PROVE  IInv'
<1>0. run[v].pc = "push" /\ "push" \in Delivering
  BY DEF Push, At, Delivering
<1>1. PICK o \in Ops : o = run[v].op
  BY <1>0, AtWork
<1>2. /\ owner = v /\ receipt[o] = "remote_attempt" /\ gen[o] = run[v].next /\ run[v].req < gen[o]
      /\ ReceiptOK(o) /\ DoneOK(o) /\ run[v].req \in 0..MaxGen /\ gen[o] \in 0..MaxGen
      /\ MaxGen \in Nat
  BY <1>0, <1>1, AtWork, ComposeAssumption DEF StageOK, Runs
<1>3. UNCHANGED <<durable, locks, local, world, mem>> /\ faults' \in 0..MaxFaults
  BY FaultTyped DEF Push, FaultKinds, IInv
<1>6. UNCHANGED <<receipt, gen, res, roots, litter, owner, resLock, local, stale, old, mem>>
  BY <1>3 DEF durable, locks, world
<1>f. PICK f \in SUBSET Ops : f = IF remote'[o] = "commit" THEN hist.landed \cup {o} ELSE hist.landed
  BY DEF IInv, TypeOK
<1>h. hist \in Hists
  BY DEF IInv, TypeOK, Hists
<1>4. hist' = [hist EXCEPT !.pushes[o][run[v].req] = @ + 1, !.landed = f]
  BY <1>1, <1>f DEF Push
<1>r. PICK r \in 0..MaxGen : r = run[v].req
  BY <1>2
<1>i. hist' = [hist EXCEPT !.pushes[o][r] = hist.pushes[o][r] + 1, !.landed = f]
  BY <1>4, <1>r
<1>j. Pushed(hist, hist', o, r, f)
  BY <1>h, <1>i, HistPushes
<1>5. /\ hist' \in Hists /\ hist'.branches = hist.branches /\ hist'.commits = hist.commits
      /\ hist'.landed = f /\ hist'.vanished = hist.vanished
      /\ \A p \in Ops \ {o} : hist'.pushes[p] = hist.pushes[p]
      /\ \A g \in 0..MaxGen :
            hist'.pushes[o][g] = IF g = r THEN hist.pushes[o][g] + 1 ELSE hist.pushes[o][g]
  BY <1>j DEF Pushed
<1>7. ASSUME NEW l \in {"remote_delivered", "finish"}, Goto(v, l) \/ \E p \in Problems : Abandon(v, l, p),
             remote' \in [Ops -> Refs], flight' \in SUBSET Ops,
             \A p \in Ops \ {o} : remote'[p] = remote[p],
             l = "remote_delivered" => remote'[o] = "commit"
      PROVE  IInv'
  <2>1. PICK m \in Runs : /\ run' = [run EXCEPT ![v] = m] /\ m.pc = l /\ m.op = run[v].op
                          /\ m.req = run[v].req /\ m.next = run[v].next
    BY <1>7, PacesTyped DEF Points
  <2>2. TypeOK' /\ run'[v] = m
    BY <1>3, <1>5, <1>6, <1>7, <2>1 DEF IInv, TypeOK, Hists
  <2>3. ReceiptOK(o)'
    BY <1>2, <1>5, <1>6 DEF ReceiptOK, Unstarted, Rooting, Forgetting, Early
  <2>4. DoneOK(o)'
    <3>1. \A g \in 1..MaxGen : g >= gen[o] => hist'.pushes[o][g] = 0
      BY <1>2, <1>5, <1>r DEF DoneOK
    <3>2. hist.commits[o] = 1 /\ hist.branches[o] = 1
      BY <1>2 DEF DoneOK, Published
    <3>3. receipt'[o] = "remote_delivered" \/ remote'[o] = "commit" => o \in hist'.landed
      BY <1>2, <1>5, <1>6, <1>f
    <3> QED
      BY <1>2, <1>5, <1>6, <3>1, <3>2, <3>3 DEF DoneOK
  <2>5. StageOK(v)'
    BY <1>1, <1>2, <1>5, <1>6, <1>7, <1>f, <2>1, <2>2 DEF StageOK
  <2>6. l \notin Publishing /\ l # "commit_known"
    BY DEF Publishing
  <2>7. UNCHANGED <<durable, locks, mem>>
    BY <1>3
  <2>8. \A p \in Ops \ {o} : /\ local'[p] = local[p] /\ remote'[p] = remote[p]
                                /\ hist'.commits[p] = hist.commits[p]
                                /\ hist'.branches[p] = hist.branches[p]
                                /\ hist'.pushes[p] = hist.pushes[p]
    BY <1>5, <1>6, <1>7
  <2>9. hist.landed \subseteq hist'.landed /\ hist'.vanished = hist.vanished
    BY <1>5, <1>f
  <2> QED
    BY <1>0, <1>1, <1>2, <1>7, <2>2, <2>3, <2>4, <2>5, <2>6, <2>7, <2>8, <2>9, DoingKeeps DEF Delivering
<1>8. \/ remote' = [remote EXCEPT ![o] = "commit"] /\ Goto(v, "remote_delivered") /\ UNCHANGED flight
      \/ Abandon(v, "finish", "other") /\ UNCHANGED remote /\ flight' \in {flight, flight \cup {o}}
  BY <1>1 DEF Push
<1>9. remote \in [Ops -> Refs] /\ flight \in SUBSET Ops /\ "commit" \in Refs /\ "other" \in Problems
  BY DEF IInv, TypeOK, Refs, Problems
<1> QED
  BY <1>7, <1>8, <1>9

\* A step of known_commit.
LEMMA PinningKeeps ==
    ASSUME IInv, NEW v \in Viewers, NEW o \in Ops, run[v].op = o,
           run[v].pc \in {"pin", "pin_ref", "pin_own"},
           NEW r \in Resources, NEW refs \in SUBSET PinKinds,
           NEW l \in {"pin_ref", "pin_own", "prepared", "finish"}, NEW h,
           Recording(v, r, refs, l, h), mem' = mem,
           r.state = res[o].state, r.keep = res[o].keep, r.rejected = res[o].rejected,
           r.snapshot = res[o].snapshot, r.base = res[o].base, r.commit # "retired",
           r.commit = "owned" => "commit" \in refs,
           "base" \in refs => "base" \in roots[o],
           "commit" \in refs => r.commit \in {"intent", "owned"},
           l \in {"pin_ref", "pin_own"} => h = v /\ r.commit = "intent",
           l = "pin_own" => "commit" \in refs,
           l = "prepared" => r.commit = "owned"
    PROVE  IInv'
<1>0. l \in Points /\ l \in Going /\ l # "list" /\ run[v].pc \in Confirming
  BY DEF Points, Going, Confirming
<1>1. Moved(v, o, r, refs, l)
  BY <1>0, RecordingMoves
<1>2. /\ receipt[o] = "commit_known" /\ owner = v /\ run[v].job = "confirm" /\ PlaceOK(v)
      /\ ReceiptOK(o) /\ RecordOK(o) /\ NoOp \notin Ops
  BY <1>0, AtWork, ComposeAssumption DEF StageOK, PlaceOK
<1>3. res[o].state = "confirmed" /\ Sound(res[o], roots[o])
  BY <1>2 DEF ReceiptOK, Early, RecordOK
<1>4. UNCHANGED <<receipt, gen, owner, hist>> /\ resLock' = h
  BY DEF Recording
<1>5. Sound(r, refs)
  BY <1>3 DEF Sound, Shape
<1>6. ReceiptOK(o)'
  BY <1>1, <1>2, <1>3, <1>4 DEF Moved, ReceiptOK, Unstarted, Unsent, Early
<1>7. PlaceOK(v)'
  BY <1>0, <1>1, <1>2, <1>4
     DEF Moved, PlaceOK, Owning, Unowned, UnownedPoints, Locking, Retiring, Capturing, Confirming,
         Publishing, Delivering
<1>8. HandsOK(v)' /\ RetireOK(v)'
  BY <1>1, <1>2 DEF Moved, HandsOK, RetireOK, GivesUp, Giving, Capturing, Retiring
<1>9. StageOK(v)'
  BY <1>1, <1>2, <1>4 DEF Moved, StageOK, Rooting
<1> QED
  BY <1>0, <1>2, <1>3, <1>5, <1>6, <1>7, <1>8, <1>9, RecordingKeeps

LEMMA PinCommitKeeps ==
    ASSUME IInv, NEW v \in Viewers, PinCommit(v)
    PROVE  IInv'
<1>0. run[v].pc \in {"pin", "pin_ref", "pin_own"} /\ run[v].pc \in Confirming
  BY DEF PinCommit, PinIntent, PinRef, PinOwn, At, Confirming
<1>1. PICK o \in Ops : o = run[v].op
  BY <1>0, AtWork
<1>2. /\ receipt[o] = "commit_known" /\ run[v].job = "confirm" /\ ReceiptOK(o) /\ RecordOK(o)
      /\ run[v].pc \in {"pin_ref", "pin_own"} => res[o].commit = "intent" /\ resLock = v
      /\ run[v].pc = "pin_own" => "commit" \in roots[o]
  BY <1>0, <1>1, AtWork DEF StageOK, PlaceOK, Locking
<1>3. /\ res[o].state = "confirmed" /\ Sound(res[o], roots[o]) /\ res[o] \in Resources
      /\ roots[o] \in SUBSET PinKinds /\ roots = [roots EXCEPT ![run[v].op] = roots[o]]
      /\ res = [res EXCEPT ![run[v].op] = res[o]] /\ res[o].commit # "retired"
  BY <1>1, <1>2 DEF ReceiptOK, Early, RecordOK, IInv, TypeOK, Sound, Shape
<1>4. res[o].commit = "owned" => "commit" \in roots[o]
  BY <1>3 DEF Sound
<1>5. "commit" \in roots[o] => res[o].commit \in {"intent", "owned"}
  BY <1>3 DEF Sound
<1>6. CASE run[v].pc = "pin" /\ Abandon(v, "finish", "uncertain")
           /\ UNCHANGED <<durable, locks, git, world, mem, faults, hist>>
  BY <1>2, <1>6, PaceFinish DEF Problems, IInv, TypeOK
<1>7. CASE run[v].pc = "pin" /\ CanLock /\ res[o].commit = "none"
           /\ PinIntent(v, "commit", "pin", "pin_ref", "finish")
  <2> DEFINE r == [res[o] EXCEPT !.commit = "intent"]
  <2>1. /\ r \in Resources /\ r.state = res[o].state /\ r.keep = res[o].keep
        /\ r.rejected = res[o].rejected /\ r.snapshot = res[o].snapshot /\ r.base = res[o].base
        /\ r.commit = "intent"
    BY <1>3 DEF Resources, Pins
  <2>2. /\ SaveResource(v, r, v, "pin_ref", "finish")
        /\ UNCHANGED <<receipt, gen, roots, owner, git, world, mem, hist>>
    BY <1>1, <1>7 DEF PinIntent
  <2> HIDE DEF r
  <2>3. \/ Recording(v, r, roots[o], "pin_ref", v)
        \/ Recording(v, r, roots[o], "finish", Nobody)
        \/ Recording(v, res[o], roots[o], "finish", Nobody)
    BY <1>1, <1>3, <1>7, <2>2, SaveRecords DEF CanLock
  <2>4. mem' = mem
    BY <2>2
  <2> QED
    BY <1>0, <1>1, <1>3, <1>4, <1>5, <1>7, <2>1, <2>3, <2>4, PinningKeeps
<1>8. CASE PinRef(v, "commit", "pin_ref", "pin_own", "finish")
  <2>1. /\ UNCHANGED <<receipt, gen, res, litter, owner, git, world, mem, hist>>
        /\ run[v].pc = "pin_ref" /\ resLock = v /\ res[o].commit = "intent"
    BY <1>2, <1>8 DEF PinRef, At
  <2>2. \/ Recording(v, res[o], roots[o] \cup {"commit"}, "pin_own", v)
        \/ Recording(v, res[o], roots[o], "finish", Nobody)
    <3>1. TypeOK /\ run[v] \in Runs
      BY DEF IInv, TypeOK
    <3>2. faults' \in 0..MaxFaults
      BY <1>8, <3>1, FaultTyped DEF PinRef, FaultKinds
    <3>3. CASE /\ roots' = [roots EXCEPT ![run[v].op] = @ \cup {"commit"}]
               /\ Goto(v, "pin_own") /\ NoFault /\ UNCHANGED resLock
      <4>1. run' = [run EXCEPT ![v].pc = "pin_own", ![v].problem = run[v].problem]
        BY <3>1, <3>3 DEF Goto, TypeOK, Runs
      <4>2. run[v].problem \in Problems
        BY <3>1 DEF Runs
      <4>3. roots' = [roots EXCEPT ![run[v].op] = roots[o] \cup {"commit"}]
        BY <1>1, <3>3
      <4> QED
        BY <1>3, <2>1, <3>1, <3>2, <3>3, <4>1, <4>2, <4>3 DEF Recording, TypeOK
    <3>4. CASE /\ UNCHANGED roots /\ Abandon(v, "finish", "uncertain")
               /\ resLock' = Nobody /\ Fault("unavailable")
      BY <1>3, <2>1, <3>1, <3>2, <3>4 DEF Recording, TypeOK, Abandon, Problems
    <3> QED
      BY <1>8, <3>3, <3>4 DEF PinRef
  <2>3. roots[o] \cup {"commit"} \in SUBSET PinKinds
    BY <1>3 DEF PinKinds
  <2>4. mem' = mem
    BY <2>1
  <2>5. CASE Recording(v, res[o], roots[o] \cup {"commit"}, "pin_own", v)
    BY <1>0, <1>1, <1>3, <2>1, <2>3, <2>4, <2>5, PinningKeeps
  <2>6. CASE Recording(v, res[o], roots[o], "finish", Nobody)
    BY <1>0, <1>1, <1>3, <1>4, <1>5, <2>1, <2>4, <2>6, PinningKeeps
  <2> QED
    BY <2>2, <2>5, <2>6
<1>9. CASE PinOwn(v, "commit", "pin_own", "prepared", "finish")
  <2> DEFINE r == [res[o] EXCEPT !.commit = "owned"]
  <2>1. /\ r \in Resources /\ r.state = res[o].state /\ r.keep = res[o].keep
        /\ r.rejected = res[o].rejected /\ r.snapshot = res[o].snapshot /\ r.base = res[o].base
        /\ r.commit = "owned"
    BY <1>3 DEF Resources, Pins
  <2>2. /\ SaveResource(v, r, Nobody, "prepared", "finish") /\ run[v].pc = "pin_own" /\ resLock = v
        /\ UNCHANGED <<receipt, gen, roots, owner, git, world, mem, hist>> /\ "commit" \in roots[o]
    BY <1>1, <1>2, <1>9 DEF PinOwn, At
  <2> HIDE DEF r
  <2>3. \/ Recording(v, r, roots[o], "prepared", Nobody)
        \/ Recording(v, r, roots[o], "finish", Nobody)
        \/ Recording(v, res[o], roots[o], "finish", Nobody)
    BY <1>1, <1>3, <2>2, SaveRecords
  <2>4. mem' = mem
    BY <2>2
  <2> QED
    BY <1>0, <1>1, <1>3, <1>4, <1>5, <2>1, <2>2, <2>3, <2>4, PinningKeeps
<1> QED
  BY <1>1, <1>6, <1>7, <1>8, <1>9 DEF PinCommit, At
-----------------------------------------------------------------------------
(* Capture.                                                                 *)

LEMMA AtCapture ==
    ASSUME IInv, NEW v \in Viewers, run[v].pc \in Capturing
    PROVE  /\ run[v].op \in Ops /\ run[v].job = "preview" /\ GivesUp(v, run[v].op)
           /\ Unstarted(run[v].op) /\ res[run[v].op] \in Resources
           /\ roots[run[v].op] \in SUBSET PinKinds
           /\ roots = [roots EXCEPT ![run[v].op] = roots[run[v].op]]
           /\ res = [res EXCEPT ![run[v].op] = res[run[v].op]]
           /\ Sound(res[run[v].op], roots[run[v].op]) /\ HandsOK(v)
           /\ run[v].pc # "cap_check" => resLock = v
           /\ res[run[v].op].state \in {"none", "capturing"} /\ ~res[run[v].op].rejected
<1>1. PlaceOK(v) /\ HandsOK(v) /\ RetireOK(v) /\ run[v] \in Runs
  BY DEF IInv, ViewerOK, TypeOK
<1>2. run[v].op \in Ops /\ run[v].job = "preview" /\ (run[v].pc # "cap_check" => resLock = v)
  BY <1>1 DEF PlaceOK, Capturing, Locking, Runs
<1>3. GivesUp(v, run[v].op)
  BY <1>2 DEF GivesUp, Giving, Capturing
<1>4. Unstarted(run[v].op)
  BY <1>1, <1>2, <1>3 DEF RetireOK
<1>5. Sound(res[run[v].op], roots[run[v].op])
  BY <1>2 DEF IInv, OpOK, RecordOK
<1>6. res[run[v].op].state \in {"none", "capturing"}
  BY <1>1 DEF HandsOK, Capturing, NoResource
<1>7. ~res[run[v].op].rejected
  BY <1>5, <1>6 DEF Sound, Shape
<1>8. /\ res[run[v].op] \in Resources /\ roots[run[v].op] \in SUBSET PinKinds
      /\ roots = [roots EXCEPT ![run[v].op] = roots[run[v].op]]
      /\ res = [res EXCEPT ![run[v].op] = res[run[v].op]]
  BY <1>2 DEF IInv, TypeOK
<1> QED
  BY <1>1, <1>2, <1>3, <1>4, <1>5, <1>6, <1>7, <1>8

LEMMA CapturingKeeps ==
    ASSUME IInv, NEW v \in Viewers, NEW o \in Ops, run[v].op = o, run[v].pc \in Capturing,
           NEW r \in Resources, NEW refs \in SUBSET PinKinds,
           NEW l \in (Capturing \ {"cap_record"}) \cup {"answer", "ret_snapshot"}, NEW h,
           Recording(v, r, refs, l, h), mem' = mem,
           l \notin {"answer", "cap_check"} => h = v,
           Sound(r, refs), r.state \in {"none", "capturing", "retiring", "sealed"},
           r.state = "none" => l = "answer" /\ res[o].state = "none",
           l \in Capturing => r.state = "capturing",
           l = "cap_snapshot" => r.snapshot = "none" /\ r.base = "none",
           l \in {"cap_pin", "cap_ref", "cap_own", "cap_check"} => r.snapshot = "live",
           l = "cap_pin" => r.base = "none",
           l \in {"cap_ref", "cap_own"} => r.base = "intent",
           l = "cap_own" => "base" \in refs,
           l = "cap_check" => r.base = "owned",
           l = "ret_snapshot" => r.state = "retiring" /\ ~r.keep
    PROVE  IInv'
<1>0. l \in Points /\ l # "list" /\ l \notin Confirming /\ l \notin Going
  BY DEF Points, Going, Confirming, Capturing, Publishing, Delivering
<1>1. Moved(v, o, r, refs, l)
  BY <1>0, RecordingMoves
<1>2. /\ run[v].job = "preview" /\ GivesUp(v, o) /\ Unstarted(o)
      /\ res[o].state \in {"none", "capturing"} /\ ~res[o].rejected /\ PlaceOK(v) /\ NoOp \notin Ops
      /\ run[v].pc # "answer"
  BY AtCapture, ComposeAssumption DEF IInv, ViewerOK, GivesUp
<1>4. UNCHANGED <<receipt, gen, owner, hist>> /\ resLock' = h
  BY DEF Recording
<1>6. ReceiptOK(o)'
  BY <1>1, <1>2, <1>4 DEF Moved, ReceiptOK, Unstarted, Unsent, Early, Published
<1>7. PlaceOK(v)'
  BY <1>0, <1>1, <1>2, <1>4
     DEF Moved, PlaceOK, Owning, Unowned, UnownedPoints, Locking, Retiring, Capturing, Confirming,
         Publishing, Delivering
<1>8. HandsOK(v)'
  BY <1>1, <1>2 DEF Moved, HandsOK, Capturing, Retiring, Resources
<1>9. RetireOK(v)'
  BY <1>1, <1>2, <1>4 DEF Moved, RetireOK, GivesUp, Giving, Unstarted, Capturing, Retiring
<1>10. StageOK(v)'
  BY <1>1 DEF Moved, StageOK, Capturing
<1>11. run[v].job # "confirm"
  BY <1>2
<1> QED
  BY <1>0, <1>2, <1>6, <1>7, <1>8, <1>9, <1>10, <1>11, RecordingKeeps

LEMMA BeginRecordKeeps ==
    ASSUME IInv, NEW v \in Viewers, BeginRecord(v)
    PROVE  IInv'
<1>0. run[v].pc \in {"cap_record", "cap_snapshot"} /\ run[v].pc \in Capturing
  BY DEF BeginRecord, At, Capturing
<1>1. PICK o \in Ops : o = run[v].op
  BY <1>0, AtCapture
<1>2. /\ res[o] \in Resources /\ roots[o] \in SUBSET PinKinds
      /\ roots = [roots EXCEPT ![run[v].op] = roots[o]]
      /\ Sound(res[o], roots[o]) /\ HandsOK(v) /\ resLock = v
      /\ res[o].state \in {"none", "capturing"} /\ ~res[o].rejected
  BY <1>0, <1>1, AtCapture
<1>3. UNCHANGED <<receipt, gen, roots, owner, git, world, mem, hist>> /\ mem' = mem
  BY DEF BeginRecord
<1>4. CASE run[v].pc = "cap_record"
  <2> DEFINE r == [res[o] EXCEPT !.state = "capturing"]
  <2>1. res[o] = NoResource
    BY <1>1, <1>2, <1>4 DEF HandsOK
  <2>8. /\ res[o].snapshot = "none" /\ res[o].base = "none" /\ res[o].commit = "none"
        /\ ~res[o].keep /\ ~res[o].rejected
    BY <2>1 DEF NoResource
  <2>2. /\ r \in Resources /\ r.state = "capturing" /\ r.snapshot = "none" /\ r.base = "none"
        /\ r.commit = "none" /\ ~r.keep /\ ~r.rejected
    BY <1>2, <2>8 DEF Resources
  <2>3. SaveResource(v, r, v, "cap_snapshot", "answer")
    BY <1>1, <1>4 DEF BeginRecord, At
  <2> HIDE DEF r
  <2>4. \/ Recording(v, r, roots[o], "cap_snapshot", v)
        \/ Recording(v, r, roots[o], "answer", Nobody)
        \/ Recording(v, res[o], roots[o], "answer", Nobody)
    BY <1>1, <1>2, <1>3, <2>3, SaveRecords
  <2>5. "base" \notin roots[o] /\ "commit" \notin roots[o]
    BY <1>2, <2>1 DEF Sound, NoResource
  <2>6. Sound(r, roots[o])
    BY <2>2, <2>5 DEF Sound, Shape
  <2>7. res[o].state = "none"
    BY <2>1 DEF NoResource
  <2> QED
    BY <1>0, <1>1, <1>2, <1>3, <2>2, <2>4, <2>6, <2>7, CapturingKeeps DEF Capturing
<1>5. CASE run[v].pc = "cap_snapshot"
  <2> DEFINE r == [res[o] EXCEPT !.snapshot = "live"]
  <2>1. res[o].state = "capturing" /\ res[o].snapshot = "none" /\ res[o].base = "none"
    BY <1>1, <1>2, <1>5 DEF HandsOK, Capturing
  <2>2. /\ r \in Resources /\ r.state = "capturing" /\ r.snapshot = "live" /\ r.base = "none"
        /\ r.commit = res[o].commit /\ r.keep = res[o].keep /\ r.rejected = res[o].rejected
    BY <1>2, <2>1 DEF Resources
  <2>3. SaveResource(v, r, v, "cap_pin", "answer")
    BY <1>1, <1>5 DEF BeginRecord, At
  <2> HIDE DEF r
  <2>4. \/ Recording(v, r, roots[o], "cap_pin", v)
        \/ Recording(v, r, roots[o], "answer", Nobody)
        \/ Recording(v, res[o], roots[o], "answer", Nobody)
    BY <1>1, <1>2, <1>3, <2>3, SaveRecords
  <2>6. Sound(r, roots[o])
    BY <1>2, <2>1, <2>2 DEF Sound, Shape
  <2> QED
    BY <1>0, <1>1, <1>2, <1>3, <2>1, <2>2, <2>4, <2>6, CapturingKeeps DEF Capturing
<1> QED
  BY <1>0, <1>4, <1>5

LEMMA PinBaseKeeps ==
    ASSUME IInv, NEW v \in Viewers, PinBase(v)
    PROVE  IInv'
<1>0. run[v].pc \in {"cap_pin", "cap_ref", "cap_own"} /\ run[v].pc \in Capturing
  BY DEF PinBase, PinIntent, PinRef, PinOwn, At, Capturing
<1>1. PICK o \in Ops : o = run[v].op
  BY <1>0, AtCapture
<1>2. /\ res[o] \in Resources /\ roots[o] \in SUBSET PinKinds
      /\ roots = [roots EXCEPT ![run[v].op] = roots[o]]
      /\ res = [res EXCEPT ![run[v].op] = res[o]]
      /\ Sound(res[o], roots[o]) /\ resLock = v
      /\ res[o].state = "capturing" /\ ~res[o].rejected /\ res[o].snapshot = "live"
      /\ run[v].pc \in {"cap_ref", "cap_own"} => res[o].base = "intent"
      /\ run[v].pc = "cap_own" => "base" \in roots[o]
  BY <1>0, <1>1, AtCapture DEF HandsOK, Capturing
<1>3. UNCHANGED <<receipt, gen, owner, git, world, mem, hist>> /\ mem' = mem
  BY DEF PinBase, PinIntent, PinRef, PinOwn
<1>4. ASSUME NEW p \in {"intent", "owned"}, NEW h \in {v, Nobody}, NEW l \in {"cap_ref", "cap_check"},
             SaveResource(v, [res[o] EXCEPT !.base = p], h, l, "answer"), UNCHANGED roots,
             l = "cap_ref" => p = "intent" /\ h = v,
             l = "cap_check" => p = "owned"
      PROVE  IInv'
  <2> DEFINE r == [res[o] EXCEPT !.base = p]
  <2>2. /\ r \in Resources /\ r.state = "capturing" /\ r.snapshot = "live" /\ r.base = p
        /\ r.commit = res[o].commit /\ r.keep = res[o].keep /\ r.rejected = res[o].rejected
    BY <1>2, <1>4 DEF Resources, Pins
  <2> HIDE DEF r
  <2>4. \/ Recording(v, r, roots[o], l, h)
        \/ Recording(v, r, roots[o], "answer", Nobody)
        \/ Recording(v, res[o], roots[o], "answer", Nobody)
    BY <1>1, <1>2, <1>3, <1>4, SaveRecords DEF r
  <2>6. Sound(r, roots[o])
    BY <1>2, <2>2 DEF Sound, Shape
  <2> QED
    BY <1>0, <1>1, <1>2, <1>3, <1>4, <2>2, <2>4, <2>6, CapturingKeeps DEF Capturing
<1>8. CASE PinRef(v, "base", "cap_ref", "cap_own", "answer")
  <2>1. /\ UNCHANGED <<receipt, gen, res, litter, owner, git, world, mem, hist>>
        /\ res[o].base = "intent"
    BY <1>2, <1>8 DEF PinRef, At
  <2>2. \/ Recording(v, res[o], roots[o] \cup {"base"}, "cap_own", v)
        \/ Recording(v, res[o], roots[o], "answer", Nobody)
    <3>1. TypeOK /\ run[v] \in Runs
      BY DEF IInv, TypeOK
    <3>2. faults' \in 0..MaxFaults
      BY <1>8, <3>1, FaultTyped DEF PinRef, FaultKinds
    <3>3. CASE /\ roots' = [roots EXCEPT ![run[v].op] = @ \cup {"base"}]
               /\ Goto(v, "cap_own") /\ NoFault /\ UNCHANGED resLock
      <4>1. run' = [run EXCEPT ![v].pc = "cap_own", ![v].problem = run[v].problem]
        BY <3>1, <3>3 DEF Goto, TypeOK, Runs
      <4>2. run[v].problem \in Problems
        BY <3>1 DEF Runs
      <4>3. roots' = [roots EXCEPT ![run[v].op] = roots[o] \cup {"base"}]
        BY <1>1, <3>3
      <4> QED
        BY <1>2, <2>1, <3>1, <3>2, <3>3, <4>1, <4>2, <4>3 DEF Recording, TypeOK
    <3>4. CASE /\ UNCHANGED roots /\ Abandon(v, "answer", "uncertain")
               /\ resLock' = Nobody /\ Fault("unavailable")
      BY <1>2, <2>1, <3>1, <3>2, <3>4 DEF Recording, TypeOK, Abandon, Problems
    <3> QED
      BY <1>8, <3>3, <3>4 DEF PinRef
  <2>3. /\ roots[o] \cup {"base"} \in SUBSET PinKinds
        /\ Sound(res[o], roots[o] \cup {"base"})
    BY <1>2, <2>1 DEF PinKinds, Sound
  <2>5. CASE Recording(v, res[o], roots[o] \cup {"base"}, "cap_own", v)
    BY <1>0, <1>1, <1>2, <1>3, <2>1, <2>3, <2>5, CapturingKeeps DEF Capturing
  <2>6. CASE Recording(v, res[o], roots[o], "answer", Nobody)
    BY <1>0, <1>1, <1>2, <1>3, <2>6, CapturingKeeps
  <2> QED
    BY <2>2, <2>5, <2>6
<1> QED
  BY <1>1, <1>4, <1>8 DEF PinBase, PinIntent, PinOwn

\* A step to `answer` that changes nothing.
LEMMA PaceAnswer ==
    ASSUME IInv, NEW v \in Viewers, run[v].pc \in {"cap_check", "handle"}, Goto(v, "answer"),
           faults' \in 0..MaxFaults, UNCHANGED <<durable, locks, git, world, mem, hist>>
    PROVE  IInv'
<1>0. run[v] \in Runs /\ PlaceOK(v) /\ NoOp \notin Ops
  BY ComposeAssumption DEF IInv, TypeOK, ViewerOK
<1>1. PICK o \in Ops : o = run[v].op
  BY <1>0 DEF PlaceOK, Runs
<1>2. PICK n \in 0..MaxGen : n = run[v].next
  BY <1>0 DEF Runs
<1>3. Persisting(v, receipt[o], gen[o], n, "answer")
  BY <1>1, <1>2, PacePersists
<1>4. receipt[o] \in Stages /\ gen[o] \in 0..MaxGen /\ "answer" \in Points
  BY DEF IInv, TypeOK, Points
<1>5. Paced(v, o, receipt[o], gen[o], n, "answer")
  BY <1>1, <1>3, <1>4, PersistingMoves
<1>6. ReceiptOK(o)' /\ DoneOK(o)'
  BY <1>5, PacedOp
<1>7. run[v].pc \notin Going /\ "answer" \notin Confirming
  BY DEF Going, Confirming, Publishing, Delivering
<1>8. PlaceOK(v)'
  BY <1>0, <1>1, <1>2, <1>5
     DEF Paced, PlaceOK, Owning, Unowned, UnownedPoints, Locking, Retiring, Capturing, Confirming,
         Publishing, Delivering
<1>9. HandsOK(v)' /\ RetireOK(v)' /\ StageOK(v)'
  BY <1>5 DEF Paced, HandsOK, RetireOK, StageOK, GivesUp, Capturing, Retiring
<1> QED
  BY <1>1, <1>3, <1>4, <1>6, <1>7, <1>8, <1>9, PersistingKeeps DEF Unstarted

LEMMA SealKeeps ==
    ASSUME IInv, NEW v \in Viewers, Seal(v)
    PROVE  IInv'
<1>0. run[v].pc = "cap_check" /\ run[v].pc \in Capturing
  BY DEF Seal, At, Capturing
<1>1. PICK o \in Ops : o = run[v].op
  BY <1>0, AtCapture
<1>2. /\ res[o] \in Resources /\ roots[o] \in SUBSET PinKinds
      /\ roots = [roots EXCEPT ![run[v].op] = roots[o]]
      /\ Sound(res[o], roots[o]) /\ Unstarted(o) /\ GivesUp(v, o)
      /\ res[o].state = "capturing" /\ ~res[o].rejected /\ res[o].snapshot = "live"
      /\ res[o].base = "owned" /\ run[v].job = "preview"
  BY <1>0, <1>1, AtCapture DEF HandsOK, Capturing
<1>a. ~res[o].keep /\ res[o].commit = "none" /\ PlaceOK(v)
  BY <1>2 DEF Sound, Shape, IInv, ViewerOK
<1>3. UNCHANGED <<receipt, gen, roots, owner, git, world, hist>>
  BY DEF Seal
<1>4. CASE /\ Goto(v, "answer")
           /\ Fault("unavailable") \/ NoFault
           /\ UNCHANGED <<res, resLock, litter, mem>>
  <2>1. faults' \in 0..MaxFaults /\ UNCHANGED <<durable, locks, git, world, mem, hist>>
    BY <1>3, <1>4, FaultTyped DEF FaultKinds, durable, locks, IInv
  <2> QED
    BY <1>0, <1>4, <2>1, PaceAnswer
<1>5. CASE /\ CanLock /\ mem' = mem
           /\ SaveResource(v, [res[o] EXCEPT !.state = "retiring", !.rejected = TRUE],
                           v, "ret_snapshot", "answer")
  <2> DEFINE r == [res[o] EXCEPT !.state = "retiring", !.rejected = TRUE]
  <2>1. /\ r \in Resources /\ r.state = "retiring" /\ r.rejected /\ r.snapshot = "live" /\ r.base = "owned"
        /\ r.commit = "none" /\ ~r.keep
    BY <1>2, <1>a DEF Resources
  <2> HIDE DEF r
  <2>2. \/ Recording(v, r, roots[o], "ret_snapshot", v)
        \/ Recording(v, r, roots[o], "answer", Nobody)
        \/ Recording(v, res[o], roots[o], "answer", Nobody)
    BY <1>1, <1>2, <1>3, <1>5, SaveRecords DEF r, CanLock
  <2>3. Sound(r, roots[o])
    BY <1>2, <1>a, <2>1 DEF Sound, Shape
  <2> QED
    BY <1>0, <1>1, <1>2, <1>5, <2>1, <2>2, <2>3, CapturingKeeps DEF Capturing
<1>6. CASE /\ CanLock
           /\ SaveResource(v, [res[o] EXCEPT !.state = "sealed"], Nobody, "open", "answer")
           /\ mem' = IF run'[v].pc = "open"
                     THEN [mem EXCEPT ![v].kind = "previewed", ![v].held = o] ELSE mem
  <2> DEFINE r == [res[o] EXCEPT !.state = "sealed"]
  <2>1. /\ r \in Resources /\ r.state = "sealed" /\ ~r.rejected /\ r.snapshot = "live" /\ r.base = "owned"
        /\ r.commit = "none" /\ ~r.keep
    BY <1>2, <1>a DEF Resources
  <2> HIDE DEF r
  <2>2. \/ Recording(v, r, roots[o], "open", Nobody)
        \/ Recording(v, r, roots[o], "answer", Nobody)
        \/ Recording(v, res[o], roots[o], "answer", Nobody)
    BY <1>1, <1>2, <1>3, <1>6, SaveRecords DEF r, CanLock
  <2>3. Sound(r, roots[o])
    BY <1>2, <1>a, <2>1 DEF Sound, Shape
  <2>4. CASE Recording(v, r, roots[o], "answer", Nobody) \/ Recording(v, res[o], roots[o], "answer", Nobody)
    <3>1. Moved(v, o, r, roots[o], "answer") \/ Moved(v, o, res[o], roots[o], "answer")
      BY <1>1, <2>4, RecordingMoves DEF Points
    <3>2. mem' = mem
      BY <1>6, <3>1 DEF Moved
    <3> QED
      BY <1>0, <1>1, <1>2, <2>1, <2>3, <2>4, <3>2, CapturingKeeps DEF Capturing
  <2>5. CASE Recording(v, r, roots[o], "open", Nobody)
    <3>1. Moved(v, o, r, roots[o], "open")
      BY <1>1, <2>5, RecordingMoves DEF Points
    <3>2. run'[v].pc = "open" /\ mem[v] \in Memories
      BY <3>1 DEF Moved, IInv, TypeOK
    <3>3. PICK m \in Memories : m = [mem[v] EXCEPT !.kind = "previewed", !.held = o]
      BY <3>2 DEF Memories
    <3>4. mem' = [mem EXCEPT ![v] = m]
      BY <1>6, <3>2, <3>3 DEF IInv, TypeOK
    <3>5. m.kind = "previewed" /\ m.held = o /\ m.unpublished = mem[v].unpublished
          /\ m.receiptless = mem[v].receiptless
      BY <3>2, <3>3 DEF Memories
    <3>6. UNCHANGED <<receipt, gen, owner, hist>> /\ resLock' = Nobody
      BY <2>5 DEF Recording
    <3>7. ReceiptOK(o)'
      BY <1>2, <3>1, <3>6 DEF Moved, ReceiptOK, Unstarted, Unsent, Early, Published
    <3>8. PlaceOK(v)'
      BY <1>0, <1>2, <1>a, <3>1, <3>6, ComposeAssumption
         DEF Moved, PlaceOK, Owning, Unowned, UnownedPoints, Locking, Retiring, Capturing, Confirming,
             Publishing, Delivering
    <3>9. HandsOK(v)' /\ StageOK(v)'
      BY <3>1 DEF Moved, HandsOK, StageOK, Capturing, Retiring
    <3>10. RetireOK(v)'
      BY <1>2, <2>1, <3>1, <3>6 DEF Moved, RetireOK, GivesUp, Giving, Unstarted, Retiring
    <3> QED
      BY <1>0, <1>1, <1>2, <2>1, <2>3, <2>5, <3>3, <3>4, <3>5, <3>7, <3>8, <3>9, <3>10, TakingKeeps
  <2> QED
    BY <2>2, <2>4, <2>5
<1> QED
  BY <1>1, <1>4, <1>5, <1>6 DEF Seal, NoFault

LEMMA CaptureKeeps ==
    ASSUME IInv, NEW v \in Viewers, Capture(v)
    PROVE  IInv'
<1>0. /\ run[v].pc = "capture" /\ run[v] \in Runs /\ PlaceOK(v) /\ MemoryOK(v) /\ SayingOK(v)
      /\ run[v].job = "preview" /\ run[v].said = NoOp /\ NoOp \notin Ops /\ Nobody \notin Viewers
  BY ComposeAssumption DEF Capture, At, IInv, TypeOK, ViewerOK, PlaceOK
<1>1. UNCHANGED <<durable, git, world, mem, faults, hist>>
  BY DEF Capture
<1>2. UNCHANGED <<receipt, gen, res, roots, litter, local, remote, flight, stale, old, mem, faults, hist>>
  BY <1>1 DEF durable, git, world
<1>3. ASSUME NEW o \in Ops, res[o].state = "none", resLock = Nobody, resLock' = v, UNCHANGED owner,
             run' = [run EXCEPT ![v].op = o, ![v].pc = "cap_record"]
      PROVE  IInv'
  <2> DEFINE m == [run[v] EXCEPT !.op = o, !.pc = "cap_record"]
  <2>1. /\ m \in Runs /\ m.op = o /\ m.pc = "cap_record" /\ m.job = "preview" /\ m.said = NoOp
        /\ m.req = run[v].req
    BY <1>0, ZenonT(60) DEF Runs, Points
  <2>2. run' = [run EXCEPT ![v] = m]
    BY <1>3 DEF IInv, TypeOK
  <2> HIDE DEF m
  <2>t. TypeOK
    BY DEF IInv
  <2>r. run' \in [Viewers -> Runs] /\ run'[v] = m /\ \A u \in Viewers \ {v} : run'[u] = run[u]
    BY <2>1, <2>2, <2>t DEF TypeOK
  <2>3. TypeOK' /\ run'[v] = m /\ \A u \in Viewers \ {v} : run'[u] = run[u]
    BY <1>2, <1>3, <2>r, <2>t DEF TypeOK
  <2>4. Unstarted(o) /\ res[o] = NoResource
    BY <1>3 DEF IInv, OpOK, ReceiptOK, RecordOK, Sound, Shape
  <2>5. \A p \in Ops : Claims(v, p)' => Claims(v, p) \/ (res[p].state = "none" /\ resLock = Nobody)
    BY <1>2, <1>3, <2>1, <2>3 DEF Claims, GivesUp
  <2>6. Frame(v, NoOp)
    BY <1>0, <1>2, <1>3, <2>3 DEF Frame, Same
  <2>7. Spares(v, NoOp)
    BY <1>2, <2>5 DEF Spares, Unstarted
  <2>8. PlaceOK(v)'
    BY <1>0, <1>3, <2>1, <2>3
       DEF PlaceOK, Owning, Unowned, UnownedPoints, Locking, Retiring, Capturing, Confirming,
           Publishing, Delivering
  <2>9. HandsOK(v)' /\ StageOK(v)'
    BY <1>2, <2>1, <2>3, <2>4 DEF HandsOK, StageOK, Capturing, Retiring
  <2>10. RetireOK(v)'
    BY <1>2, <2>1, <2>3, <2>4 DEF RetireOK, GivesUp, Giving, Unstarted, Retiring
  <2>11. MemoryOK(v)'
    BY <1>2, <2>1, <2>3, <2>6, <2>7, MemoryKept DEF Confirming
  <2>12. \A p \in Ops : mem[v].receiptless = p =>
              \/ Unstarted(p)' \/ p \in hist.vanished
              \/ run'[v].op = p /\ run'[v].job = "confirm" /\ run'[v].pc \in Going
    BY <1>0, <1>2 DEF SayingOK, Unstarted
  <2>13. SayingOK(v)'
    BY <1>2, <2>1, <2>3, <2>6, <2>7, <2>12, SayingKept
  <2> QED
    BY <1>0, <2>3, <2>6, <2>7, <2>8, <2>9, <2>10, <2>11, <2>13, StepKeeps DEF ViewerOK
<1>4. CASE End(v, NoOp) /\ UNCHANGED resLock
  BY <1>0, <1>1, <1>4, EndPlain DEF IInv, TypeOK
<1> QED
  BY <1>3, <1>4 DEF Capture, CanLock

LEMMA AnswerKeeps ==
    ASSUME IInv, NEW v \in Viewers, Answer(v)
    PROVE  IInv'
<1>1. /\ run[v].pc = "answer" /\ End(v, NoOp) /\ NoOp \notin Ops
      /\ UNCHANGED <<durable, resLock, git, world, mem, faults, hist>>
  BY ComposeAssumption DEF Answer, At
<1>2. run[v].pc \notin Going
  BY <1>1 DEF Going, Confirming, Publishing, Delivering
<1> QED
  BY <1>1, <1>2, EndPlain DEF IInv, TypeOK
-----------------------------------------------------------------------------
(* The list of the receipts, and what follows it.                           *)

LEMMA AtList ==
    ASSUME IInv, NEW v \in Viewers, run[v].pc \in {"open", "list"}
    PROVE  /\ run[v].op \in Ops /\ run[v] \in Runs /\ run[v].job \in {"preview", "confirm"}
           /\ run[v].pc = "open" => run[v].job = "preview"
           /\ run[v].pc = "list" => owner = v
           /\ run[v].said = NoOp /\ PlaceOK(v) /\ MemoryOK(v) /\ RetireOK(v)
           /\ Unstarted(run[v].op) /\ res[run[v].op].state # "none"
           /\ run[v].job = "preview" => GivesUp(v, run[v].op)
           /\ run[v].job = "confirm" => mem[v].held = run[v].op
           /\ Only(v, run[v].op) /\ run[v].pc \notin Going
<1>1. run[v] \in Runs /\ PlaceOK(v) /\ MemoryOK(v) /\ RetireOK(v)
  BY DEF IInv, TypeOK, ViewerOK
<1>2. /\ run[v].op \in Ops /\ run[v].job \in {"preview", "confirm"} /\ run[v].said = NoOp
      /\ run[v].pc = "open" => run[v].job = "preview"
      /\ run[v].pc = "list" => owner = v
  BY <1>1, ComposeAssumption DEF PlaceOK, Runs, Owning
<1>3. run[v].job = "preview" => GivesUp(v, run[v].op)
  BY DEF GivesUp, Giving
<1>4. run[v].job = "confirm" => mem[v].held = run[v].op /\ mem[v].kind = "previewed"
  BY <1>1, <1>2 DEF MemoryOK
<1>5. Unstarted(run[v].op) /\ res[run[v].op].state # "none"
  BY <1>1, <1>2, <1>3, <1>4 DEF RetireOK, MemoryOK
<1>6. Claims(v, run[v].op)
  BY <1>2, <1>3, <1>4 DEF Claims
<1>7. Only(v, run[v].op)
  BY <1>2, <1>5, <1>6 DEF Only, IInv, Alone
<1>8. run[v].pc \notin Going
  BY DEF Going, Confirming, Publishing, Delivering
<1> QED
  BY <1>1, <1>2, <1>3, <1>4, <1>5, <1>7, <1>8

\* The request takes another turn, and nothing else happens.
LEMMA TurnKeeps ==
    ASSUME IInv, NEW v \in Viewers, run[v].pc \in {"open", "list"}, NEW m \in Runs,
           run' = [run EXCEPT ![v] = m], m.op = run[v].op, m.said = NoOp, m.req = run[v].req,
           \/ m.pc = "list" /\ m.job = "preview" /\ run[v].job = "preview" /\ owner' = v
           \/ m.pc = "list" /\ m.job = run[v].job /\ run[v].pc = "list" /\ owner' = v
           \/ m.pc = "discard" /\ m.job = "withdraw" /\ run[v].job = "preview"
           \/ m.pc = "discard" /\ m.job = "conflict" /\ run[v].job = "confirm" /\ owner' = v
           \/ m.pc = "handle" /\ m.job = "confirm" /\ run[v].job = "confirm" /\ owner' = v,
           owner' \in Viewers \cup {Nobody}, \A u \in Viewers \ {v} : owner = u => owner' = u,
           faults' \in 0..MaxFaults, UNCHANGED <<durable, resLock, git, world, mem, hist>>
    PROVE  IInv'
<1>0. PICK o \in Ops : o = run[v].op
  BY AtList
<1>1. TypeOK' /\ run'[v] = m /\ \A u \in Viewers \ {v} : run'[u] = run[u]
  BY WalkTyped DEF IInv, TypeOK
<1>2. UNCHANGED <<receipt, gen, res, roots, local, remote, hist, mem, resLock>>
  BY DEF durable, git
<1>3. /\ run[v] \in Runs /\ PlaceOK(v) /\ run[v].said = NoOp /\ NoOp \notin Ops
      /\ Unstarted(o) /\ res[o].state # "none"
      /\ run[v].job = "preview" => GivesUp(v, o)
      /\ run[v].job = "confirm" => mem[v].held = o
      /\ run[v].pc \notin Going
  BY <1>0, AtList, ComposeAssumption
<1>4. PlaceOK(v)'
  BY <1>0, <1>1, <1>2, <1>3
     DEF PlaceOK, Owning, Unowned, UnownedPoints, Locking, Retiring, Capturing, Confirming,
         Publishing, Delivering
<1>5. HandsOK(v)' /\ StageOK(v)'
  BY <1>1 DEF HandsOK, StageOK, Capturing, Retiring
<1>6. RetireOK(v)'
  BY <1>0, <1>1, <1>2, <1>3 DEF RetireOK, GivesUp, Giving, Unstarted, Retiring
<1>7. m.pc \notin Confirming
  BY DEF Confirming
<1>8. mem' = mem /\ UNCHANGED <<receipt, gen, res, roots, local, remote, hist>>
  BY <1>2
<1>9. \A u \in Viewers \ {v} : run'[u] = run[u] /\ (owner = u => owner' = u) /\ (resLock = u => resLock' = u)
  BY <1>1, <1>2
<1>10. m.job \in Giving /\ m.pc # "answer" /\ run[v].op \in Ops =>
              \/ run[v].job \in Giving /\ run[v].pc # "answer"
              \/ mem[v].held = run[v].op
  BY <1>0, <1>3 DEF GivesUp, Giving
<1> QED
  BY <1>0, <1>1, <1>3, <1>4, <1>5, <1>6, <1>7, <1>8, <1>9, <1>10, WalkKeeps

\* The request m that r becomes when it turns to the job j, at l.
Turned(r, m, j, l) ==
    /\ m \in Runs /\ m.pc = l /\ m.job = j
    /\ m.op = r.op /\ m.said = r.said /\ m.req = r.req /\ m.next = r.next

LEMMA TurnTyped ==
    ASSUME NEW r \in Runs, NEW l \in Points, NEW j \in Jobs, NEW m, m = [r EXCEPT !.job = j, !.pc = l]
    PROVE  Turned(r, m, j, l)
BY DEF Runs, Turned

LEMMA TurnPoints ==
    /\ "discard" \in Points /\ "handle" \in Points /\ "retire" \in Points
    /\ "withdraw" \in Jobs /\ "conflict" \in Jobs /\ "confirm" \in Jobs
    /\ "expired" \in Jobs /\ "release" \in Jobs
<1>1. "discard" \in Points /\ "handle" \in Points /\ "retire" \in Points
  BY DEF Points
<1>2. /\ "withdraw" \in Jobs /\ "conflict" \in Jobs /\ "confirm" \in Jobs
      /\ "expired" \in Jobs /\ "release" \in Jobs
  BY DEF Jobs
<1> QED
  BY <1>1, <1>2

LEMMA AdmitBaseKeeps ==
    ASSUME IInv, NEW v \in Viewers, AdmitBase(v)
    PROVE  IInv'
<1>0. /\ run[v].pc = "open" /\ run[v] \in Runs /\ run[v].job = "preview" /\ run[v].said = NoOp
      /\ Nobody \notin Viewers /\ run \in [Viewers -> Runs] /\ owner \in Viewers \cup {Nobody}
      /\ faults \in 0..MaxFaults
  BY AtList, ComposeAssumption DEF AdmitBase, At, IInv, TypeOK
<1>1. UNCHANGED <<durable, resLock, git, world, mem, faults, hist>>
  BY DEF AdmitBase
<1>2. CASE /\ owner = Nobody /\ owner' = v
           /\ run' = [run EXCEPT ![v].pc = "list", ![v].todo = {o \in Ops : receipt[o] # "none"}]
  <2> DEFINE m == [run[v] EXCEPT !.pc = "list", !.todo = {o \in Ops : receipt[o] # "none"}]
  <2>1. m \in Runs /\ m.pc = "list" /\ m.job = "preview" /\ m.op = run[v].op /\ m.said = NoOp
        /\ m.req = run[v].req
    BY <1>0, ZenonT(60) DEF Runs, Points
  <2>2. run' = [run EXCEPT ![v] = m]
    BY <1>0, <1>2
  <2> HIDE DEF m
  <2> QED
    <3>1. /\ owner' \in Viewers \cup {Nobody} /\ \A u \in Viewers \ {v} : owner = u => owner' = u
          /\ faults' \in 0..MaxFaults /\ UNCHANGED <<durable, resLock, git, world, mem, hist>>
      BY <1>0, <1>1, <1>2
    <3> QED
      BY <1>0, <1>2, <2>1, <2>2, <3>1, TurnKeeps
<1>3. CASE UNCHANGED owner /\ run' = [run EXCEPT ![v].job = "withdraw", ![v].pc = "discard"]
  <2>0. PICK m : m = [run[v] EXCEPT !.job = "withdraw", !.pc = "discard"]
    OBVIOUS
  <2>1. m \in Runs /\ m.pc = "discard" /\ m.job = "withdraw" /\ m.op = run[v].op /\ m.said = NoOp
        /\ m.req = run[v].req
    <3>1. Turned(run[v], m, "withdraw", "discard")
      BY <1>0, <2>0, TurnTyped, TurnPoints
    <3> QED
      BY <1>0, <3>1 DEF Turned
  <2>2. run' = [run EXCEPT ![v] = m]
    BY <1>0, <1>3, <2>0
  <2> QED
    BY <1>0, <1>1, <1>3, <2>1, <2>2, TurnKeeps
<1> QED
  BY <1>2, <1>3 DEF AdmitBase, CanOpen

LEMMA UnlistedKeeps ==
    ASSUME IInv, NEW v \in Viewers, Unlisted(v)
    PROVE  IInv'
<1>0. /\ run[v].pc = "list" /\ run[v] \in Runs /\ run[v].said = NoOp /\ owner = v
      /\ Nobody \notin Viewers /\ run \in [Viewers -> Runs] /\ run[v].pc \notin Going
      /\ run[v].op \in Ops /\ Only(v, run[v].op) /\ Unstarted(run[v].op)
  BY AtList, ComposeAssumption DEF Unlisted, At, IInv, TypeOK
<1>1. UNCHANGED <<durable, resLock, git, world, mem, hist>> /\ faults' \in 0..MaxFaults
  BY FaultTyped DEF Unlisted, FaultKinds, IInv
<1>2. CASE End(v, run[v].op)
  <2>1. PICK o \in Ops : o = run[v].op
    BY <1>0
  <2> QED
    BY <1>0, <1>1, <1>2, <2>1, EndPlain
<1>3. CASE /\ run[v].job = "preview" /\ owner' = Nobody
           /\ run' = [run EXCEPT ![v].job = "withdraw", ![v].pc = "discard"]
  <2>0. PICK m : m = [run[v] EXCEPT !.job = "withdraw", !.pc = "discard"]
    OBVIOUS
  <2>1. m \in Runs /\ m.pc = "discard" /\ m.job = "withdraw" /\ m.op = run[v].op /\ m.said = NoOp
        /\ m.req = run[v].req
    <3>1. Turned(run[v], m, "withdraw", "discard")
      BY <1>0, <2>0, TurnTyped, TurnPoints
    <3> QED
      BY <1>0, <3>1 DEF Turned
  <2>2. run' = [run EXCEPT ![v] = m]
    BY <1>0, <1>3, <2>0
  <2> QED
    BY <1>0, <1>1, <1>3, <2>1, <2>2, TurnKeeps
<1> QED
  BY <1>2, <1>3 DEF Unlisted

LEMMA GatedKeeps ==
    ASSUME IInv, NEW v \in Viewers, Gated(v)
    PROVE  IInv'
<1>0. /\ run[v].pc = "list" /\ run[v] \in Runs /\ run[v].said = NoOp /\ owner = v
      /\ Nobody \notin Viewers /\ run \in [Viewers -> Runs] /\ run[v].pc \notin Going
      /\ run[v].job \in {"preview", "confirm"} /\ faults \in 0..MaxFaults /\ NoOp \notin Ops
  BY AtList, ComposeAssumption DEF Gated, At, IInv, TypeOK
<1>1. UNCHANGED <<durable, resLock, git, world, mem, faults, hist>>
  BY DEF Gated
<1>2. CASE End(v, NoOp)
  BY <1>0, <1>1, <1>2, EndPlain
<1>3. ASSUME NEW j \in {"withdraw", "conflict", "confirm"}, NEW l \in {"discard", "handle"},
             run' = [run EXCEPT ![v].job = j, ![v].pc = l],
             \/ l = "discard" /\ j = "withdraw" /\ run[v].job = "preview" /\ owner' = Nobody
             \/ l = "discard" /\ j = "conflict" /\ run[v].job = "confirm" /\ owner' = v
             \/ l = "handle" /\ j = "confirm" /\ run[v].job = "confirm" /\ owner' = v
      PROVE  IInv'
  <2>0. PICK m : m = [run[v] EXCEPT !.job = j, !.pc = l]
    OBVIOUS
  <2>1. m \in Runs /\ m.pc = l /\ m.job = j /\ m.op = run[v].op /\ m.said = NoOp
        /\ m.req = run[v].req
    <3>1. Turned(run[v], m, j, l)
      BY <1>0, <2>0, TurnTyped, TurnPoints
    <3> QED
      BY <1>0, <3>1 DEF Turned
  <2>2. run' = [run EXCEPT ![v] = m]
    BY <1>0, <1>3, <2>0
  <2>3. /\ owner' \in Viewers \cup {Nobody} /\ \A u \in Viewers \ {v} : owner = u => owner' = u
        /\ faults' \in 0..MaxFaults /\ run[v].pc \in {"open", "list"}
    BY <1>0, <1>1, <1>3
  <2>4. \/ m.pc = "discard" /\ m.job = "withdraw" /\ run[v].job = "preview"
        \/ m.pc = "discard" /\ m.job = "conflict" /\ run[v].job = "confirm" /\ owner' = v
        \/ m.pc = "handle" /\ m.job = "confirm" /\ run[v].job = "confirm" /\ owner' = v
    BY <1>3, <2>1
  <2> QED
    BY <1>1, <2>1, <2>2, <2>3, <2>4, TurnKeeps
<1>4. Goto(v, "handle") /\ run[v].job = "confirm" =>
         run' = [run EXCEPT ![v].job = "confirm", ![v].pc = "handle"]
  BY <1>0, ZenonT(60) DEF Goto, Runs
<1>5. ASSUME NEW j, run' = [run EXCEPT ![v].pc = "discard", ![v].job = j]
      PROVE  run' = [run EXCEPT ![v].job = j, ![v].pc = "discard"]
  BY <1>0, <1>5 DEF Runs
<1> QED
  BY <1>0, <1>2, <1>3, <1>4, <1>5 DEF Gated
-----------------------------------------------------------------------------
(* The reconciler.                                                          *)

\* What reading the evidence does to the receipt of o.
Reconciling(o, s) ==
    /\ receipt' = [receipt EXCEPT ![o] = s] /\ WouldBe(o, s, gen[o])
    /\ receipt[o] = "none" <=> s = "none"
    /\ litter' \subseteq {"receipts", "resources"} /\ faults' \in 0..MaxFaults

\* The reconciled receipt agrees with the record and with what was done.
LEMMA ReconciledStands ==
    ASSUME IInv, NEW o \in Ops
    PROVE  /\ Reconciled(o) \in Stages /\ WouldBe(o, Reconciled(o), gen[o])
           /\ receipt[o] = "none" <=> Reconciled(o) = "none"
<1>1. /\ ReceiptOK(o) /\ DoneOK(o) /\ receipt[o] \in Stages /\ WouldBe(o, receipt[o], gen[o])
      /\ res[o] \in Resources
  BY StandsAsItIs DEF IInv, OpOK, TypeOK
<1>2. CASE receipt[o] = "commit_known" /\ Rooted(o)
  <2>1. Reconciled(o) = "prepared"
    BY <1>2 DEF Reconciled
  <2>2. Rooting(o)
    BY <1>2 DEF Rooted, Admitted, Verified, Rooting, PinKinds
  <2>3. WouldBe(o, "prepared", gen[o])
    BY <1>1, <1>2, <2>2 DEF WouldBe, Early, Published
  <2> QED
    BY <1>2, <2>1, <2>3 DEF Stages
<1>3. CASE receipt[o] = "local_attempt" /\ local[o] = "commit"
  <2>1. Reconciled(o) = "local_published"
    BY <1>3 DEF Reconciled
  <2>2. hist.branches[o] = 1
    BY <1>1, <1>3 DEF DoneOK
  <2>3. WouldBe(o, "local_published", gen[o])
    BY <1>1, <1>3, <2>2 DEF WouldBe, Early, Published
  <2> QED
    BY <1>3, <2>1, <2>3 DEF Stages
<1>4. CASE receipt[o] = "remote_attempt" /\ remote[o] = "commit"
  <2>1. Reconciled(o) = "remote_delivered"
    BY <1>4 DEF Reconciled
  <2>2. o \in hist.landed
    BY <1>1, <1>4 DEF DoneOK
  <2>3. WouldBe(o, "remote_delivered", gen[o])
    BY <1>1, <1>4, <2>2 DEF WouldBe, Early, Published
  <2> QED
    BY <1>4, <2>1, <2>3 DEF Stages
<1>5. CASE /\ ~(receipt[o] = "commit_known" /\ Rooted(o))
           /\ ~(receipt[o] = "local_attempt" /\ local[o] = "commit")
           /\ ~(receipt[o] = "remote_attempt" /\ remote[o] = "commit")
  <2>1. Reconciled(o) = receipt[o]
    BY <1>5 DEF Reconciled
  <2> QED
    BY <1>1, <2>1
<1> QED
  BY <1>2, <1>3, <1>4, <1>5

LEMMA ReconcileReconciles ==
    ASSUME IInv, NEW o \in Ops, NEW d, Reconcile(o, d)
    PROVE  \E s \in Stages : Reconciling(o, s)
<1>1. /\ TypeOK /\ receipt[o] \in Stages /\ WouldBe(o, receipt[o], gen[o])
      /\ receipt = [receipt EXCEPT ![o] = receipt[o]] /\ litter \subseteq {"receipts", "resources"}
  BY StandsAsItIs DEF IInv, OpOK, TypeOK
<1>2. PICK s \in Stages : s = Reconciled(o)
  BY ReconciledStands
<1>3. WouldBe(o, s, gen[o]) /\ (receipt[o] = "none" <=> s = "none")
  BY <1>2, ReconciledStands
<1>4. faults' \in 0..MaxFaults
  BY <1>1, FaultTyped DEF Reconcile, FaultKinds
<1>5. CASE receipt' = [receipt EXCEPT ![o] = s] /\ UNCHANGED litter
  BY <1>1, <1>3, <1>4, <1>5 DEF Reconciling
<1>6. CASE UNCHANGED receipt /\ litter' \in {litter, litter \cup {"receipts"}}
  <2>1. Reconciling(o, receipt[o])
    BY <1>1, <1>4, <1>6 DEF Reconciling
  <2> QED
    BY <1>1, <2>1
<1> QED
  BY <1>2, <1>5, <1>6 DEF Reconcile

\* What it keeps.
Reconciles(o) ==
    /\ OpOK(o)' /\ receipt' \in [Ops -> Stages]
    /\ \A p \in Ops \ {o} : receipt'[p] = receipt[p]
    /\ \A p \in Ops : Unstarted(p) <=> Unstarted(p)'

LEMMA ReconcilingOp ==
    ASSUME IInv, NEW o \in Ops, NEW s \in Stages, Reconciling(o, s),
           UNCHANGED <<gen, res, roots, local, remote, hist>>
    PROVE  Reconciles(o)
<1>1. /\ ReceiptOK(o) /\ DoneOK(o) /\ RecordOK(o) /\ receipt \in [Ops -> Stages]
      /\ WouldBe(o, s, gen[o]) /\ (receipt[o] = "none" <=> s = "none")
      /\ receipt' = [receipt EXCEPT ![o] = s]
  BY DEF IInv, OpOK, TypeOK, Reconciling
<1>2. receipt'[o] = s /\ \A p \in Ops \ {o} : receipt'[p] = receipt[p]
  BY <1>1
<1>3. ReceiptOK(o)'
  BY <1>1, <1>2 DEF WouldBe, ReceiptOK, Unstarted, Unsent, Rooting, Forgetting
<1>4. DoneOK(o)'
  BY <1>1, <1>2 DEF WouldBe, DoneOK, Unsent
<1>5. RecordOK(o)'
  BY <1>1 DEF RecordOK
<1>6. \A p \in Ops : Unstarted(p) <=> Unstarted(p)'
  BY <1>1, <1>2 DEF Unstarted
<1>7. receipt' \in [Ops -> Stages]
  BY <1>1
<1> QED
  BY <1>2, <1>3, <1>4, <1>5, <1>6, <1>7 DEF Reconciles, OpOK

\* The reconciler under a request that holds owner.lock, or takes it.
LEMMA ReconcilingSpares ==
    ASSUME IInv, NEW v \in Viewers, NEW o \in Ops, Reconciles(o), owner \in {v, Nobody},
           \A u \in Viewers \ {v} : /\ run'[u] = run[u] /\ mem'[u] = mem[u]
                                    /\ owner = u => owner' = u
                                    /\ resLock = u => resLock' = u,
           UNCHANGED <<gen, res, roots, local, remote, hist>>,
           \A p \in Ops : Claims(v, p)' => Claims(v, p)
    PROVE  Frame(v, o) /\ Spares(v, o)
<1>1. Frame(v, o)
  BY DEF Frame, Same, Reconciles
<1>2. Spares(v, o)
  BY DEF Spares, Reconciles
<1> QED
  BY <1>1, <1>2

LEMMA ListOneKeeps ==
    ASSUME IInv, NEW v \in Viewers, NEW o \in Ops, ListOne(v, o)
    PROVE  IInv'
<1>0. /\ run[v].pc = "list" /\ run[v] \in Runs /\ run[v].said = NoOp /\ owner = v
      /\ run[v].pc \notin Going /\ run[v].job \in {"preview", "confirm"} /\ PlaceOK(v) /\ RetireOK(v)
      /\ run \in [Viewers -> Runs]
  BY AtList DEF ListOne, At, IInv, TypeOK
<1>1. PICK d \in BOOLEAN :
          /\ Reconcile(o, d)
          /\ run' = [run EXCEPT ![v].todo = @ \ {o},
                         ![v].conflict = @ \/ (o # run[v].op /\ ~(d /\ mem[v].alternative))]
  BY DEF ListOne
<1>2. UNCHANGED <<gen, res, roots, owner, resLock, local, remote, flight, stale, old, mem, hist>>
  BY DEF ListOne, locks, git, world
<1>3. PICK s \in Stages : Reconciling(o, s)
  BY <1>1, ReconcileReconciles
<1>4. Reconciles(o)
  BY <1>2, <1>3, ReconcilingOp
<1>5. PICK c \in BOOLEAN : c = (run[v].conflict \/ (o # run[v].op /\ ~(d /\ mem[v].alternative)))
  OBVIOUS
<1>6. PICK m : m = [run[v] EXCEPT !.todo = run[v].todo \ {o}, !.conflict = c]
  OBVIOUS
<1>7. /\ m \in Runs /\ m.pc = "list" /\ m.job = run[v].job /\ m.op = run[v].op /\ m.req = run[v].req
      /\ m.next = run[v].next /\ m.said = NoOp
  BY <1>0, <1>6 DEF Runs
<1>8. run' = [run EXCEPT ![v] = m]
  BY <1>0, <1>1, <1>5, <1>6
<1>9. run' \in [Viewers -> Runs] /\ run'[v] = m /\ \A u \in Viewers \ {v} : run'[u] = run[u]
  BY <1>0, <1>7, <1>8
<1>10. TypeOK'
  BY <1>2, <1>3, <1>4, <1>9 DEF IInv, TypeOK, Reconciling, Reconciles
<1>11. \A p \in Ops : Claims(v, p)' => Claims(v, p)
  BY <1>0, <1>2, <1>7, <1>9 DEF Claims, GivesUp
<1>12. Frame(v, o) /\ Spares(v, o)
  BY <1>0, <1>2, <1>4, <1>9, <1>11, ReconcilingSpares
<1>13. PlaceOK(v)'
  BY <1>0, <1>2, <1>7, <1>9 DEF PlaceOK, Owning
<1>14. HandsOK(v)' /\ StageOK(v)'
  BY <1>0, <1>7, <1>9 DEF HandsOK, StageOK, Capturing, Retiring
<1>15. RetireOK(v)'
  <2>1. PICK q \in Ops : q = run[v].op
    BY <1>0, AtList
  <2>2. Unstarted(q) => Unstarted(q)'
    BY <1>4 DEF Reconciles
  <2> QED
    BY <1>0, <1>2, <1>7, <1>9, <2>1, <2>2 DEF RetireOK, GivesUp, Retiring, Unstarted
<1>16. m.pc \notin Confirming
  BY <1>7 DEF Confirming
<1>17. OpOK(o)' /\ \A p \in Ops : Unstarted(p) => Unstarted(p)'
  BY <1>4 DEF Reconciles
<1> QED
  BY <1>0, <1>2, <1>7, <1>9, <1>10, <1>12, <1>13, <1>14, <1>15, <1>16, <1>17, MoveKeeps

\* A request that reconciles and answers.
LEMMA ReconcileEnds ==
    ASSUME IInv, NEW v \in Viewers, NEW o \in Ops, NEW s \in Stages, Reconciling(o, s),
           owner \in {v, Nobody}, End(v, NoOp), NEW m \in Memories, mem' = [mem EXCEPT ![v] = m],
           UNCHANGED <<gen, res, roots, resLock, git, world, hist>>,
           \/ m.kind = mem[v].kind /\ m.held = mem[v].held
           \/ m.kind = "none" /\ m.held = NoOp,
           m.unpublished = mem[v].unpublished,
           m.receiptless \in Ops =>
              /\ Only(v, m.receiptless)
              /\ Unstarted(m.receiptless) \/ m.receiptless \in hist.vanished
    PROVE  IInv'
<1>1. /\ TypeOK /\ mem[v] \in Memories /\ MemoryOK(v) /\ NoOp \notin Ops /\ Nobody \notin Viewers
      /\ run \in [Viewers -> Runs] /\ mem \in [Viewers -> Memories]
  BY ComposeAssumption DEF IInv, TypeOK, ViewerOK
<1>2. UNCHANGED <<gen, res, roots, resLock, local, remote, flight, stale, old, hist>>
  BY DEF git, world
<1>3. Reconciles(o)
  BY <1>2, ReconcilingOp
<1>4. PICK f \in Runs : f = [Fresh EXCEPT !.said = NoOp]
  BY FreshTyped
<1>5. f.said = NoOp /\ f.pc = "idle" /\ f.job = "none" /\ f.op = NoOp
  BY <1>4 DEF Fresh
<1>6. /\ run' \in [Viewers -> Runs] /\ run'[v] = f /\ \A u \in Viewers \ {v} : run'[u] = run[u]
      /\ mem' \in [Viewers -> Memories] /\ mem'[v] = m /\ \A u \in Viewers \ {v} : mem'[u] = mem[u]
  BY <1>1, <1>4 DEF End
<1>7. owner' \in Viewers \cup {Nobody} /\ \A u \in Viewers \ {v} : owner = u => owner' = u
  BY <1>1 DEF End, TypeOK
<1>8. TypeOK'
  BY <1>1, <1>2, <1>3, <1>6, <1>7 DEF TypeOK, Reconciling, Reconciles
<1>9. \A p \in Ops : Claims(v, p)' => Claims(v, p)
  BY <1>1, <1>5, <1>6 DEF Claims, GivesUp
<1>10. Frame(v, o) /\ Spares(v, o)
  BY <1>2, <1>3, <1>6, <1>7, <1>9, ReconcilingSpares
<1>11. \A p \in Ops : Unstarted(p) <=> Unstarted(p)'
  BY <1>3 DEF Reconciles
<1>12. MemoryOK(v)'
  <2>1. m.kind \in {"previewed", "releasing"} => m.held \in Ops /\ Unstarted(m.held)
    BY <1>1 DEF MemoryOK, Memories
  <2>2. m.kind \in {"previewed", "releasing"} => Unstarted(m.held)'
    BY <1>11, <2>1
  <2>3. m.kind = "none" <=> m.held = NoOp
    BY <1>1 DEF MemoryOK
  <2>4. m.held \in Ops => res[m.held].state # "none"
    BY <1>1 DEF MemoryOK
  <2> QED
    BY <1>2, <1>5, <1>6, <2>2, <2>3, <2>4 DEF MemoryOK, Confirming, Unstarted
<1>13. SayingOK(v)'
  <2>1. PICK t \in Ops \cup {NoOp} : t = m.receiptless
    BY DEF Memories
  <2>2. t \in Ops => Only(v, t) /\ (Unstarted(t)' \/ t \in hist.vanished)
    BY <1>11, <2>1
  <2>3. m.receiptless \in Ops => Unstarted(m.receiptless)' \/ m.receiptless \in hist.vanished
    BY <2>1, <2>2
  <2> QED
    BY <1>1, <1>5, <1>6, <1>10, <2>3, SayingNow
<1>14. OpOK(o)'
  BY <1>3 DEF Reconciles
<1> QED
  BY <1>4, <1>6, <1>8, <1>10, <1>12, <1>13, <1>14, EndingKeeps

LEMMA FinishKeeps ==
    ASSUME IInv, NEW v \in Viewers, Finish(v)
    PROVE  IInv'
<1>0. /\ run[v].pc = "finish" /\ run[v] \in Runs /\ PlaceOK(v) /\ SayingOK(v) /\ mem[v] \in Memories
      /\ mem \in [Viewers -> Memories] /\ NoOp \notin Ops /\ TypeOK
  BY ComposeAssumption DEF Finish, At, IInv, TypeOK, ViewerOK
<1>1. PICK o \in Ops : o = run[v].op
  BY <1>0 DEF PlaceOK, Runs
<1>2. owner = v
  BY <1>0 DEF PlaceOK, Owning, Unowned
<1>3. PICK s \in Stages : Reconciling(o, s)
  <2>1. CASE \E d \in BOOLEAN : Reconcile(o, d)
    BY <2>1, ReconcileReconciles
  <2>2. CASE UNCHANGED <<receipt, litter, faults>>
    <3>1. /\ receipt[o] \in Stages /\ WouldBe(o, receipt[o], gen[o])
          /\ receipt = [receipt EXCEPT ![o] = receipt[o]] /\ litter \subseteq {"receipts", "resources"}
          /\ faults \in 0..MaxFaults
      BY StandsAsItIs DEF IInv, OpOK, TypeOK
    <3>2. Reconciling(o, receipt[o])
      BY <2>2, <3>1 DEF Reconciling
    <3> QED
      BY <3>1, <3>2
  <2> QED
    BY <1>1, <2>1, <2>2 DEF Finish
<1>4. End(v, NoOp) /\ UNCHANGED <<gen, res, roots, resLock, git, world, hist>>
  BY DEF Finish
<1>5. CASE run[v].job = "confirm"
  <2>1. PICK m : m = [mem[v] EXCEPT !.receiptless = NoOp]
    OBVIOUS
  <2>2. /\ m \in Memories /\ m.kind = mem[v].kind /\ m.held = mem[v].held
        /\ m.unpublished = mem[v].unpublished /\ m.receiptless = NoOp
    BY <1>0, <2>1 DEF Memories
  <2>3. mem' = [mem EXCEPT ![v] = m]
    BY <1>0, <1>5, <2>1 DEF Finish
  <2> QED
    BY <1>0, <1>2, <1>3, <1>4, <2>2, <2>3, ReconcileEnds
<1>6. CASE run[v].job # "confirm"
  <2>1. PICK m \in Memories : m = mem[v]
    BY <1>0
  <2>2. mem' = [mem EXCEPT ![v] = m]
    BY <1>0, <1>6, <2>1 DEF Finish
  <2>3. m.receiptless \in Ops =>
              /\ Only(v, m.receiptless)
              /\ Unstarted(m.receiptless) \/ m.receiptless \in hist.vanished
    BY <1>0, <1>6, <2>1 DEF SayingOK
  <2> QED
    BY <1>2, <1>3, <1>4, <2>1, <2>2, <2>3, ReconcileEnds
<1> QED
  BY <1>5, <1>6

LEMMA AlternativeKeeps ==
    ASSUME IInv, NEW v \in Viewers, NEW o \in Ops, Alternative(v, o)
    PROVE  IInv'
<1>0. /\ run[v].pc = "idle" /\ SayingOK(v) /\ mem[v] \in Memories /\ MemoryOK(v) /\ owner = Nobody
      /\ mem \in [Viewers -> Memories] /\ NoOp \notin Ops /\ Nobody \notin Viewers
  BY ComposeAssumption DEF Alternative, At, CanOpen, IInv, TypeOK, ViewerOK
<1>1. PICK d \in BOOLEAN :
          /\ Reconcile(o, d)
          /\ mem' = IF d /\ (mem[v].kind = "none" \/ (mem[v].kind = "confirmed" /\ mem[v].held = o))
                    THEN [mem EXCEPT ![v].kind = "none", ![v].held = NoOp,
                                     ![v].alternative = TRUE]
                    ELSE mem
  BY DEF Alternative
<1>2. PICK s \in Stages : Reconciling(o, s)
  BY <1>1, ReconcileReconciles
<1>3. End(v, NoOp) /\ UNCHANGED <<gen, res, roots, resLock, git, world, hist>>
  <2>1. Fresh = [Fresh EXCEPT !.said = NoOp]
    BY FreshSays
  <2>2. /\ run' = [run EXCEPT ![v] = Fresh] /\ UNCHANGED <<gen, res, roots, resLock, owner, git, world, hist>>
    BY DEF Alternative, locks
  <2> QED
    BY <1>0, <2>1, <2>2 DEF End
<1>4. mem[v].receiptless \in Ops =>
              /\ Only(v, mem[v].receiptless)
              /\ Unstarted(mem[v].receiptless) \/ mem[v].receiptless \in hist.vanished
  BY <1>0 DEF SayingOK, Going, Confirming, Publishing, Delivering
<1>5. CASE mem' = mem
  <2>1. PICK m \in Memories : m = mem[v]
    BY <1>0
  <2>2. mem' = [mem EXCEPT ![v] = m]
    BY <1>0, <1>5, <2>1
  <2> QED
    BY <1>0, <1>2, <1>3, <1>4, <2>1, <2>2, ReconcileEnds
<1>6. CASE mem' = [mem EXCEPT ![v].kind = "none", ![v].held = NoOp, ![v].alternative = TRUE]
  <2>1. PICK m : m = [mem[v] EXCEPT !.kind = "none", !.held = NoOp, !.alternative = TRUE]
    OBVIOUS
  <2>2. /\ m \in Memories /\ m.kind = "none" /\ m.held = NoOp
        /\ m.unpublished = mem[v].unpublished /\ m.receiptless = mem[v].receiptless
    BY <1>0, <2>1 DEF Memories
  <2>3. mem' = [mem EXCEPT ![v] = m]
    BY <1>0, <1>6, <2>1
  <2> QED
    BY <1>0, <1>2, <1>3, <1>4, <2>2, <2>3, ReconcileEnds
<1> QED
  BY <1>1, <1>5, <1>6
-----------------------------------------------------------------------------
(* What follows a retirement, and the memory a viewer then keeps.           *)

\* A viewer that gives o up is the only one that could start it.
LEMMA GiverAlone ==
    ASSUME IInv, NEW v \in Viewers, NEW o \in Ops, run[v].op = o, run[v].job \in Giving,
           run[v].pc \notin {"answer", "cap_record"}
    PROVE  Only(v, o) /\ Unstarted(o)
<1>1. GivesUp(v, o)
  BY DEF GivesUp
<1>2. Unstarted(o) /\ res[o].state # "none"
  BY <1>1 DEF IInv, ViewerOK, RetireOK
<1> QED
  BY <1>1, <1>2 DEF Only, IInv, Alone, Claims

\* So is the viewer whose candidate it is.
LEMMA HolderAlone ==
    ASSUME IInv, NEW v \in Viewers, NEW o \in Ops, mem[v].held = o
    PROVE  /\ Only(v, o)
           /\ mem[v].kind \in {"previewed", "releasing"} => Unstarted(o)
<1>1. MemoryOK(v) /\ Claims(v, o)
  BY DEF IInv, ViewerOK, Claims
<1>2. res[o].state # "none" /\ (mem[v].kind \in {"previewed", "releasing"} => Unstarted(o))
  BY <1>1 DEF MemoryOK
<1> QED
  BY <1>1, <1>2 DEF Only, IInv, Alone

\* What a viewer has said of a handle without a receipt, outside a
\* confirmation that may have written one.
Said(v, x) == x \in Ops => Only(v, x) /\ (Unstarted(x) \/ x \in hist.vanished)

LEMMA ReceiptlessSaid ==
    ASSUME IInv, NEW v \in Viewers, ~(run[v].job = "confirm" /\ run[v].pc \in Going)
    PROVE  Said(v, mem[v].receiptless)
BY DEF IInv, ViewerOK, SayingOK, Said

\* The memory after the viewer gave o up.
GivenUp(v, m, o) ==
    /\ m \in Memories /\ m.kind = "none" /\ m.held = NoOp
    /\ m.unpublished = mem[v].unpublished \cup {o} /\ m.receiptless = mem[v].receiptless

LEMMA GiveUpGives ==
    ASSUME NEW v \in Viewers, mem[v] \in Memories, NEW o \in Ops, NEW m, m = GiveUp(mem[v], o)
    PROVE  GivenUp(v, m, o)
BY DEF GiveUp, GivenUp, Memories

LEMMA UnretiredKeeps ==
    ASSUME IInv, NEW v \in Viewers, Unretired(v)
    PROVE  IInv'
<1>0. /\ run[v].pc = "unretired" /\ run[v] \in Runs /\ PlaceOK(v) /\ NoOp \notin Ops
      /\ "unretired" \notin Going /\ faults \in 0..MaxFaults
  BY ComposeAssumption DEF Unretired, At, IInv, TypeOK, ViewerOK, Going, Confirming, Publishing, Delivering
<1>1. PICK o \in Ops : o = run[v].op
  BY <1>0 DEF PlaceOK, Runs
<1>2. UNCHANGED <<durable, resLock, git, world, mem, faults, hist>>
  BY DEF Unretired
<1>3. CASE run[v].job = "cleanup" /\ Goto(v, "finish") /\ UNCHANGED owner
  BY <1>0, <1>2, <1>3, PaceFinish DEF locks
<1>4. CASE End(v, NoOp)
  BY <1>0, <1>2, <1>4, EndPlain
<1>5. CASE run[v].job \in {"conflict", "release"} /\ End(v, o)
  <2>1. Only(v, o) /\ Unstarted(o)
    BY <1>0, <1>1, <1>5, GiverAlone DEF Giving
  <2> QED
    BY <1>0, <1>2, <1>5, <2>1, EndPlain
<1> QED
  BY <1>1, <1>3, <1>4, <1>5 DEF Unretired

LEMMA RetiredKeeps ==
    ASSUME IInv, NEW v \in Viewers, Retired(v)
    PROVE  IInv'
<1>0. /\ run[v].pc = "retired" /\ run[v] \in Runs /\ PlaceOK(v) /\ NoOp \notin Ops /\ RetireOK(v)
      /\ "retired" \notin Going /\ faults \in 0..MaxFaults /\ mem[v] \in Memories /\ TypeOK
      /\ run \in [Viewers -> Runs] /\ mem \in [Viewers -> Memories] /\ owner \in Viewers \cup {Nobody}
  BY ComposeAssumption
     DEF Retired, At, IInv, TypeOK, ViewerOK, Going, Confirming, Publishing, Delivering
<1>1. PICK o \in Ops : o = run[v].op
  BY <1>0 DEF PlaceOK, Runs
<1>2. UNCHANGED <<durable, resLock, git, world, faults, hist>>
  BY DEF Retired
<1>3. Said(v, mem[v].receiptless)
  BY <1>0, ReceiptlessSaid
<1>4. CASE End(v, NoOp) /\ UNCHANGED mem
  BY <1>0, <1>2, <1>4, EndPlain
<1>5. ASSUME run[v].job \in {"withdraw", "conflict", "expired", "release"},
             mem' = [mem EXCEPT ![v] = GiveUp(mem[v], o)],
             NEW x \in {o, NoOp}, End(v, x)
      PROVE  IInv'
  <2>1. PICK m : m = GiveUp(mem[v], o)
    OBVIOUS
  <2>2. GivenUp(v, m, o)
    BY <1>0, <2>1, GiveUpGives
  <2>3. Only(v, o) /\ Unstarted(o)
    BY <1>0, <1>1, <1>5, GiverAlone DEF Giving
  <2>4. /\ m \in Memories /\ m.kind = "none" /\ m.held = NoOp
        /\ \A p \in m.unpublished \ mem[v].unpublished : p = o
        /\ m.receiptless = mem[v].receiptless
    BY <2>2 DEF GivenUp
  <2>5. \A p \in m.unpublished \ mem[v].unpublished : Only(v, p) /\ Unstarted(p) /\ m.held # p
    BY <1>0, <2>3, <2>4
  <2>6. m.receiptless \in Ops =>
              /\ Only(v, m.receiptless)
              /\ Unstarted(m.receiptless) \/ m.receiptless \in hist.vanished
    BY <1>3, <2>4 DEF Said
  <2>7. x \in Ops \cup {NoOp} /\ (x \in Ops => Only(v, x) /\ Unstarted(x))
    BY <1>0, <2>3
  <2>8. mem' = [mem EXCEPT ![v] = m] /\ faults' \in 0..MaxFaults
    BY <1>0, <1>2, <1>5, <2>1
  <2> QED
    BY <1>2, <1>5, <2>4, <2>5, <2>6, <2>7, <2>8, EndKeeps
<1>6. CASE /\ run[v].job = "preview" /\ UNCHANGED owner
           /\ mem' = [mem EXCEPT ![v] = GiveUp(mem[v], o)]
           /\ run' = [run EXCEPT ![v].op = NoOp, ![v].pc = "capture"]
  <2>1. PICK m : m = GiveUp(mem[v], o)
    OBVIOUS
  <2>2. GivenUp(v, m, o)
    BY <1>0, <2>1, GiveUpGives
  <2>3. Only(v, o) /\ Unstarted(o)
    BY <1>0, <1>1, <1>6, GiverAlone DEF Giving
  <2>4. /\ m \in Memories /\ m.kind = "none" /\ m.held = NoOp
        /\ \A p \in m.unpublished \ mem[v].unpublished : p = o
        /\ m.receiptless = mem[v].receiptless
    BY <2>2 DEF GivenUp
  <2>5. PICK f : f = [run[v] EXCEPT !.op = NoOp, !.pc = "capture"]
    OBVIOUS
  <2>6. /\ f \in Runs /\ f.op = NoOp /\ f.pc = "capture" /\ f.job = "preview" /\ f.said = run[v].said
    BY <1>0, <1>6, <2>5 DEF Runs, Points
  <2>7. run' = [run EXCEPT ![v] = f] /\ mem' = [mem EXCEPT ![v] = m]
    BY <1>0, <1>6, <2>1, <2>5
  <2>8. /\ TypeOK' /\ run'[v] = f /\ \A u \in Viewers \ {v} : run'[u] = run[u]
        /\ mem'[v] = m /\ \A u \in Viewers \ {v} : mem'[u] = mem[u]
    <3>1. /\ mem'[v] = m /\ \A u \in Viewers \ {v} : mem'[u] = mem[u]
          /\ mem' \in [Viewers -> Memories]
      BY <1>0, <2>4, <2>7
    <3>2. owner' \in Viewers \cup {Nobody} /\ faults' \in 0..MaxFaults
      BY <1>0, <1>2, <1>6
    <3>3. TypeOK' /\ run'[v] = f /\ \A u \in Viewers \ {v} : run'[u] = run[u]
      BY <1>2, <2>6, <2>7, <3>1, <3>2, WalkTyped
    <3> QED
      BY <3>1, <3>3
  <2>9. UNCHANGED <<receipt, gen, res, roots, local, remote, hist, owner, resLock>>
    BY <1>2, <1>6 DEF durable, git
  <2>10. f.said = NoOp
    BY <1>0, <2>6 DEF PlaceOK
  <2>11. Frame(v, NoOp)
    BY <2>8, <2>9 DEF Frame, Same
  <2>12. \A p \in Ops : ~Claims(v, p)'
    BY <1>0, <2>4, <2>6, <2>8 DEF Claims, GivesUp
  <2>13. Spares(v, NoOp)
    BY <2>9, <2>12 DEF Spares, Unstarted
  <2>14. \A p \in Ops : Unstarted(p)' <=> Unstarted(p)
    BY <2>9 DEF Unstarted
  <2>15. SayingOK(v)'
    <3>1. \A p \in m.unpublished \ mem[v].unpublished : Only(v, p) /\ Unstarted(p)' /\ ~Claims(v, p)'
      BY <2>3, <2>4, <2>12, <2>14
    <3>2. PICK t \in Ops \cup {NoOp} : t = m.receiptless
      BY <2>4 DEF Memories
    <3>3. t \in Ops => Only(v, t) /\ (Unstarted(t)' \/ t \in hist.vanished)
      BY <1>3, <2>4, <2>14, <3>2 DEF Said
    <3> QED
      BY <1>0, <2>4, <2>8, <2>10, <2>11, <2>13, <3>1, <3>2, <3>3, SayingNow
  <2>16. MemoryOK(v)'
    BY <1>0, <2>4, <2>6, <2>8 DEF MemoryOK, Confirming
  <2>17. PlaceOK(v)'
    BY <2>6, <2>8, <2>9, <2>10
       DEF PlaceOK, Owning, Unowned, UnownedPoints, Locking, Retiring, Capturing, Confirming,
           Publishing, Delivering
  <2>18. HandsOK(v)' /\ StageOK(v)' /\ RetireOK(v)'
    BY <1>0, <2>6, <2>8 DEF HandsOK, StageOK, RetireOK, GivesUp, Giving, Capturing, Retiring
  <2> QED
    BY <1>0, <2>8, <2>11, <2>13, <2>15, <2>16, <2>17, <2>18, StepKeeps DEF ViewerOK
<1>7. CASE run[v].job = "cleanup" /\ Goto(v, "finish") /\ UNCHANGED <<mem, owner>>
  BY <1>0, <1>2, <1>7, PaceFinish DEF locks
<1>8. ASSUME NEW l \in {"remove", "removed"}, Goto(v, l), UNCHANGED <<mem, owner>>,
             run[v].job \in {"forget", "resources"}, l = "remove" => run[v].job = "forget"
      PROVE  IInv'
  <2>0. l \in Points
    BY DEF Points
  <2>1. PICK f \in Runs :
              /\ run' = [run EXCEPT ![v] = f]
              /\ f.pc = l /\ f.job = run[v].job /\ f.op = run[v].op /\ f.req = run[v].req
              /\ f.next = run[v].next /\ f.said = run[v].said
    BY <1>8, <2>0, PacesTyped
  <2>2. TypeOK' /\ run'[v] = f /\ \A u \in Viewers \ {v} : run'[u] = run[u]
    BY <1>0, <1>2, <1>8, <2>1, WalkTyped
  <2>3. UNCHANGED <<receipt, gen, res, roots, local, remote, hist, owner, resLock, mem>>
    BY <1>2, <1>8 DEF durable, git
  <2>4. PlaceOK(v)'
    BY <1>0, <1>1, <1>8, <2>1, <2>2, <2>3
       DEF PlaceOK, Owning, Unowned, UnownedPoints, Locking, Retiring, Capturing, Confirming,
           Publishing, Delivering
  <2>5. HandsOK(v)' /\ StageOK(v)'
    BY <2>1, <2>2 DEF HandsOK, StageOK, Capturing, Retiring
  <2>6. RetireOK(v)'
    BY <1>0, <1>1, <1>8, <2>1, <2>2, <2>3 DEF RetireOK, GivesUp, Giving, Retiring
  <2>7. run[v].said = NoOp
    BY <1>0 DEF PlaceOK
  <2>8. l \notin Confirming /\ run[v].job \notin Giving
    BY <1>8 DEF Confirming, Giving
  <2> QED
    BY <1>0, <1>8, <2>1, <2>2, <2>3, <2>4, <2>5, <2>6, <2>7, <2>8, WalkKeeps
<1> QED
  BY <1>0, <1>1, <1>4, <1>5, <1>6, <1>7, <1>8 DEF Retired

\* The last step of forget.
LEMMA RemoveReceiptKeeps ==
    ASSUME IInv, NEW v \in Viewers, RemoveReceipt(v)
    PROVE  IInv'
<1>0. /\ run[v].pc = "remove" /\ run[v] \in Runs /\ PlaceOK(v) /\ RetireOK(v) /\ NoOp \notin Ops
      /\ TypeOK /\ faults' \in 0..MaxFaults
  BY ComposeAssumption, FaultTyped DEF RemoveReceipt, At, IInv, TypeOK, ViewerOK, FaultKinds
<1>1. PICK o \in Ops : o = run[v].op
  BY <1>0 DEF PlaceOK, Runs
<1>2. owner = v /\ run[v].job = "forget" /\ res[o].state = "spent"
  BY <1>0, <1>1 DEF PlaceOK, Owning, Unowned, RetireOK
<1>3. PICK n \in 0..MaxGen : n = run[v].next
  BY <1>0 DEF Runs
<1>4. PICK g \in 0..MaxGen : g = gen[o]
  BY <1>0 DEF TypeOK
<1>5. /\ WouldBe(o, receipt[o], g) /\ receipt[o] \in Stages /\ RecordOK(o)
      /\ receipt = [receipt EXCEPT ![o] = receipt[o]] /\ gen = [gen EXCEPT ![o] = g]
      /\ litter \subseteq {"receipts", "resources"}
  BY <1>0, <1>4, StandsAsItIs DEF IInv, OpOK, TypeOK
<1>6. WouldBe(o, "none", g) /\ "none" \in Stages
  <2>1. ~res[o].rejected
    BY <1>2, <1>5 DEF RecordOK, Sound, Shape
  <2>2. WouldBe(o, "none", g)
    BY <1>2, <1>5, <2>1 DEF WouldBe, Early, Published
  <2> QED
    BY <2>2 DEF Stages
<1>7. PICK s \in Stages : (s = "none" \/ s = receipt[o]) /\ receipt' = [receipt EXCEPT ![o] = s]
  BY <1>1, <1>5, <1>6 DEF RemoveReceipt
<1>8. PICK l \in {"removed", "answer"} : Goto(v, l)
  BY DEF RemoveReceipt
<1>9. Persisting(v, s, g, n, l)
  <2>1. PICK q \in Problems : q = run[v].problem
    BY <1>0 DEF Runs
  <2>2. run' = [run EXCEPT ![v].pc = l, ![v].problem = q, ![v].next = n]
    BY <1>0, <1>3, <1>8, <2>1 DEF Goto, TypeOK, Runs
  <2>3. UNCHANGED <<gen, res, roots, litter, locks, git, world, mem, hist>>
    BY DEF RemoveReceipt
  <2> QED
    BY <1>0, <1>1, <1>5, <1>7, <2>2, <2>3 DEF Persisting
<1>10. l \in Points /\ l # "list" /\ l \notin Confirming /\ "remove" \notin Going
  BY DEF Points, Confirming, Going, Publishing, Delivering
<1>11. Paced(v, o, s, g, n, l)
  BY <1>1, <1>9, <1>10, PersistingMoves
<1>12. ReceiptOK(o)' /\ DoneOK(o)'
  BY <1>5, <1>6, <1>7, <1>11, WouldBeOK
<1>13. run'[v].pc = l /\ run'[v].job = "forget" /\ run'[v].op = o /\ run'[v].req = run[v].req
      /\ run'[v].next = n /\ run'[v].said = run[v].said /\ owner' = owner /\ resLock' = resLock
  BY <1>2, <1>11 DEF Paced
<1>14. PlaceOK(v)'
  BY <1>0, <1>2, <1>13
     DEF PlaceOK, Owning, Unowned, Locking, Retiring, Capturing, Confirming, Publishing, Delivering
<1>15. HandsOK(v)' /\ StageOK(v)' /\ RetireOK(v)'
  BY <1>13 DEF HandsOK, StageOK, RetireOK, GivesUp, Giving, Capturing, Retiring
<1>16. Unstarted(o) => s = "none"
  BY <1>7 DEF Unstarted
<1> QED
  BY <1>0, <1>1, <1>2, <1>9, <1>10, <1>12, <1>14, <1>15, <1>16, PersistingKeeps

\* The memory after the viewer let o go.
LetGo(v, m, o) ==
    /\ m \in Memories /\ m.receiptless = mem[v].receiptless
    /\ \/ m.kind = mem[v].kind /\ m.held = mem[v].held
       \/ m.kind = "none" /\ m.held = NoOp
    /\ \A p \in m.unpublished \ mem[v].unpublished :
          p = o /\ m.held = NoOp /\ mem[v].held = o /\ mem[v].kind = "previewed"

LEMMA LetLets ==
    ASSUME NEW v \in Viewers, mem[v] \in Memories, NEW o \in Ops, NEW m, m = Let(mem[v], o)
    PROVE  LetGo(v, m, o)
<1>1. CASE mem[v].kind = "none" \/ mem[v].held # o
  BY <1>1 DEF Let, LetGo
<1>2. CASE ~(mem[v].kind = "none" \/ mem[v].held # o) /\ mem[v].kind = "previewed"
  BY <1>2 DEF Let, LetGo, Memories
<1>3. CASE ~(mem[v].kind = "none" \/ mem[v].held # o) /\ mem[v].kind # "previewed"
  BY <1>3 DEF Let, LetGo, Memories
<1> QED
  BY <1>1, <1>2, <1>3

\* What it lets go was its own.
LEMMA LetGoSaid ==
    ASSUME IInv, NEW v \in Viewers, NEW o \in Ops, NEW m, LetGo(v, m, o)
    PROVE  \A p \in m.unpublished \ mem[v].unpublished : Only(v, p) /\ Unstarted(p) /\ m.held # p
<1>1. NoOp \notin Ops
  BY ComposeAssumption
<1> QED
  BY <1>1, HolderAlone DEF LetGo

LEMMA ReportKeeps ==
    ASSUME IInv, NEW v \in Viewers, Report(v)
    PROVE  IInv'
<1>0. /\ run[v].pc = "removed" /\ run[v] \in Runs /\ PlaceOK(v) /\ NoOp \notin Ops
      /\ "removed" \notin Going /\ faults \in 0..MaxFaults /\ mem[v] \in Memories
      /\ mem \in [Viewers -> Memories]
  BY ComposeAssumption
     DEF Report, At, IInv, TypeOK, ViewerOK, Going, Confirming, Publishing, Delivering
<1>1. PICK o \in Ops : o = run[v].op
  BY <1>0 DEF PlaceOK, Runs
<1>2. UNCHANGED <<durable, resLock, git, world, faults, hist>> /\ End(v, NoOp)
  BY DEF Report
<1>3. Said(v, mem[v].receiptless)
  BY <1>0, ReceiptlessSaid
<1>4. PICK m : m = IF res[o].state = "spent" THEN Let(mem[v], o) ELSE mem[v]
  OBVIOUS
<1>5. LetGo(v, m, o)
  <2>1. CASE res[o].state = "spent"
    BY <1>0, <1>4, <2>1, LetLets
  <2>2. CASE res[o].state # "spent"
    BY <1>0, <1>4, <2>2 DEF LetGo
  <2> QED
    BY <2>1, <2>2
<1>6. mem' = [mem EXCEPT ![v] = m] /\ faults' \in 0..MaxFaults
  BY <1>0, <1>1, <1>2, <1>4 DEF Report
<1>7. \A p \in m.unpublished \ mem[v].unpublished : Only(v, p) /\ Unstarted(p) /\ m.held # p
  BY <1>5, LetGoSaid
<1>8. /\ m \in Memories
      /\ \/ m.kind = mem[v].kind /\ m.held = mem[v].held
         \/ m.kind = "none" /\ m.held = NoOp
      /\ m.receiptless \in Ops =>
              /\ Only(v, m.receiptless)
              /\ Unstarted(m.receiptless) \/ m.receiptless \in hist.vanished
  BY <1>3, <1>5 DEF LetGo, Said
<1> QED
  BY <1>0, <1>2, <1>6, <1>7, <1>8, EndKeeps

LEMMA AnswerRefusedKeeps ==
    ASSUME IInv, NEW v \in Viewers, AnswerRefused(v)
    PROVE  IInv'
<1>0. /\ run[v].pc = "refused" /\ run[v] \in Runs /\ PlaceOK(v) /\ MemoryOK(v) /\ StageOK(v)
      /\ NoOp \notin Ops /\ faults \in 0..MaxFaults /\ mem[v] \in Memories /\ TypeOK
      /\ mem \in [Viewers -> Memories] /\ run \in [Viewers -> Runs] /\ owner \in Viewers \cup {Nobody}
  BY ComposeAssumption DEF AnswerRefused, At, IInv, TypeOK, ViewerOK
<1>1. PICK o \in Ops : o = run[v].op
  BY <1>0 DEF PlaceOK, Runs
<1>2. UNCHANGED <<durable, resLock, git, world, faults, hist>>
  BY DEF AnswerRefused
<1>3. /\ mem[v].kind = "confirmed" /\ mem[v].held = o /\ run[v].job = "confirm" /\ owner = v
      /\ run[v].said = NoOp
  BY <1>0, <1>1 DEF MemoryOK, PlaceOK, Confirming, Owning, Unowned
<1>4. Only(v, o) /\ res[o].state # "none"
  BY <1>3, HolderAlone DEF Only
<1>5. /\ Unstarted(o) \/ o \in hist.vanished
      /\ run[v].problem = "stale" => Unstarted(o)
  BY <1>0, <1>1 DEF StageOK, Unstarted
<1>6. CASE mem' = [mem EXCEPT ![v].receiptless = o] /\ End(v, o)
  <2>1. PICK m : m = [mem[v] EXCEPT !.receiptless = o]
    OBVIOUS
  <2>2. /\ m \in Memories /\ m.kind = mem[v].kind /\ m.held = mem[v].held
        /\ m.unpublished = mem[v].unpublished /\ m.receiptless = o
    BY <1>0, <2>1 DEF Memories
  <2>3. mem' = [mem EXCEPT ![v] = m]
    BY <1>0, <1>6, <2>1
  <2> QED
    BY <1>0, <1>2, <1>4, <1>5, <1>6, <2>2, <2>3, EndKeeps
<1>7. CASE /\ run[v].problem = "stale" /\ UNCHANGED owner
           /\ mem' = [mem EXCEPT ![v].receiptless = o, ![v].kind = "releasing"]
           /\ run' = [run EXCEPT ![v].job = "release", ![v].pc = "retire"]
  <2>1. PICK m : m = [mem[v] EXCEPT !.receiptless = o, !.kind = "releasing"]
    OBVIOUS
  <2>2. /\ m \in Memories /\ m.kind = "releasing" /\ m.held = o
        /\ m.unpublished = mem[v].unpublished /\ m.receiptless = o
    BY <1>0, <1>3, <2>1 DEF Memories
  <2>3. PICK f : f = [run[v] EXCEPT !.job = "release", !.pc = "retire"]
    OBVIOUS
  <2>4. Turned(run[v], f, "release", "retire")
    BY <1>0, <2>3, TurnTyped, TurnPoints
  <2>5. f \in Runs /\ f.pc = "retire" /\ f.job = "release" /\ f.op = o /\ f.said = NoOp
    BY <1>1, <1>3, <2>4 DEF Turned
  <2>6. run' = [run EXCEPT ![v] = f] /\ mem' = [mem EXCEPT ![v] = m]
    BY <1>0, <1>7, <2>1, <2>3
  <2>7. /\ mem'[v] = m /\ \A u \in Viewers \ {v} : mem'[u] = mem[u]
        /\ mem' \in [Viewers -> Memories]
    BY <1>0, <2>2, <2>6
  <2>8. TypeOK' /\ run'[v] = f /\ \A u \in Viewers \ {v} : run'[u] = run[u]
    <3>1. owner' \in Viewers \cup {Nobody} /\ faults' \in 0..MaxFaults
      BY <1>0, <1>2, <1>7
    <3> QED
      BY <1>2, <2>5, <2>6, <2>7, <3>1, WalkTyped
  <2>9. UNCHANGED <<receipt, gen, res, roots, local, remote, hist, owner, resLock>>
    BY <1>2, <1>7 DEF durable, git
  <2>10. Frame(v, NoOp)
    BY <2>7, <2>8, <2>9 DEF Frame, Same
  <2>11. \A p \in Ops : Claims(v, p)' => Claims(v, p)
    BY <1>3, <2>2, <2>5, <2>7, <2>8 DEF Claims, GivesUp
  <2>12. Spares(v, NoOp)
    BY <2>9, <2>11 DEF Spares, Unstarted
  <2>13. Unstarted(o) /\ Unstarted(o)'
    BY <1>5, <1>7, <2>9 DEF Unstarted
  <2>14. SayingOK(v)'
    BY <1>0, <1>4, <2>2, <2>5, <2>7, <2>8, <2>10, <2>12, <2>13, SayingNow
  <2>15. MemoryOK(v)'
    BY <1>0, <1>4, <2>2, <2>5, <2>7, <2>8, <2>9, <2>13 DEF MemoryOK, Confirming, Unstarted
  <2>16. PlaceOK(v)'
    BY <1>0, <1>3, <2>5, <2>8, <2>9
       DEF PlaceOK, Owning, Unowned, UnownedPoints, Locking, Retiring, Capturing, Confirming,
           Publishing, Delivering
  <2>17. HandsOK(v)' /\ StageOK(v)'
    BY <2>5, <2>8 DEF HandsOK, StageOK, Capturing, Retiring
  <2>18. RetireOK(v)'
    BY <1>4, <2>5, <2>8, <2>9, <2>13 DEF RetireOK, GivesUp, Giving, Retiring, Unstarted
  <2> QED
    BY <1>0, <2>8, <2>10, <2>12, <2>14, <2>15, <2>16, <2>17, <2>18, StepKeeps DEF ViewerOK
<1> QED
  BY <1>1, <1>6, <1>7 DEF AnswerRefused
-----------------------------------------------------------------------------
(* New requests.                                                            *)

Asked(m, j, o, l) ==
    m \in Runs /\ m.job = j /\ m.op = o /\ m.pc = l /\ m.req = 0 /\ m.next = 0 /\ m.said = NoOp

LEMMA RequestAsks ==
    ASSUME NEW v, NEW j \in Jobs, NEW o \in Ops \cup {NoOp}, NEW l \in Points, NEW m,
           m = Request(v, j, o, l)
    PROVE  Asked(m, j, o, l)
<1>1. PICK f \in Runs : f = [Fresh EXCEPT !.said = NoOp]
  BY FreshTyped
<1>2. f = Fresh
  BY <1>1, FreshSays
<1>3. f.req = 0 /\ f.next = 0 /\ f.said = NoOp
  BY <1>2 DEF Fresh
<1>4. m = [f EXCEPT !.job = j, !.op = o, !.pc = l]
  BY <1>2 DEF Request
<1> QED
  BY <1>3, <1>4 DEF Asked, Runs

\* A request that opens the publications.
OpenJobs == {"confirm", "retry", "republish", "cleanup", "forget", "resources"}

OpenPoints == {"list", "handle", "resume", "regenerate", "finish", "retire", "discard", "removed",
               "answer"}

LEMMA OpenKeeps ==
    ASSUME IInv, NEW v \in Viewers, NEW o \in Ops, run[v].pc = "idle", owner = Nobody, owner' = v,
           NEW m \in Runs, run' = [run EXCEPT ![v] = m], m.op = o, m.said = NoOp,
           m.job \in OpenJobs, m.pc \in OpenPoints,
           m.pc \in {"list", "handle"} => m.job = "confirm",
           m.pc = "list" => mem[v].kind = "previewed" /\ mem[v].held = o,
           m.pc = "resume" => m.job = "retry",
           m.pc = "regenerate" => m.job = "republish" /\ m.next < MaxGen,
           m.pc = "finish" => m.job \in {"confirm", "retry", "republish", "cleanup"},
           m.job \in {"confirm", "retry"} => m.req = 0,
           UNCHANGED <<durable, resLock, git, world, mem, faults, hist>>,
           RetireOK(v)', StageOK(v)'
    PROVE  IInv'
<1>1. /\ TypeOK /\ NoOp \notin Ops /\ Nobody \notin Viewers /\ mem \in [Viewers -> Memories]
      /\ faults \in 0..MaxFaults /\ MemoryOK(v) /\ SayingOK(v)
  BY ComposeAssumption DEF IInv, TypeOK, ViewerOK
<1>2. UNCHANGED <<receipt, gen, res, roots, local, remote, hist, resLock, mem>>
  BY DEF durable, git
<1>3. TypeOK' /\ run'[v] = m /\ \A u \in Viewers \ {v} : run'[u] = run[u]
  <2>1. /\ owner' \in Viewers \cup {Nobody} /\ faults' \in 0..MaxFaults
        /\ mem' \in [Viewers -> Memories]
    BY <1>1
  <2>2. UNCHANGED <<durable, resLock, git, world, hist>>
    OBVIOUS
  <2> QED
    BY <2>1, <2>2, WalkTyped
<1>4. Frame(v, NoOp)
  BY <1>1, <1>2, <1>3 DEF Frame, Same
<1>5. m.job \notin Giving /\ m.job \notin Unowned
  BY DEF OpenJobs, Giving, Unowned
<1>6. \A p \in Ops : Claims(v, p)' => Claims(v, p)
  BY <1>2, <1>3, <1>5 DEF Claims, GivesUp
<1>7. Spares(v, NoOp)
  BY <1>2, <1>6 DEF Spares, Unstarted
<1>8. m.pc \notin Confirming /\ run[v].pc \notin Going
  BY DEF OpenPoints, Confirming, Going, Publishing, Delivering
<1>9. MemoryOK(v)'
  BY <1>2, <1>3, <1>4, <1>7, <1>8, MemoryKept
<1>10. SayingOK(v)'
  <2>1. \A p \in Ops : mem[v].receiptless = p => Unstarted(p)' \/ p \in hist.vanished
    BY <1>1, <1>2, <1>8 DEF SayingOK, Unstarted
  <2>2. mem'[v] = mem[v] /\ run'[v].said = NoOp
    BY <1>2, <1>3
  <2> QED
    BY <1>4, <1>7, <2>1, <2>2, SayingKept
<1>11. PlaceOK(v)'
  BY <1>1, <1>2, <1>3, <1>5
     DEF PlaceOK, Owning, OpenPoints, OpenJobs, Locking, Retiring, Capturing, Confirming,
         Publishing, Delivering
<1>12. HandsOK(v)'
  BY <1>3 DEF HandsOK, OpenPoints, Capturing, Retiring
<1> QED
  BY <1>1, <1>3, <1>4, <1>7, <1>9, <1>10, <1>11, <1>12, StepKeeps DEF ViewerOK

\* A request about a recorded operation.
LEMMA OpenForKeeps ==
    ASSUME IInv, NEW v \in Viewers, NEW o \in Ops, NEW j, NEW l, OpenFor(v, j, o, l),
           \/ j = "retry" /\ l \in {"finish", "resume"}
           \/ j = "cleanup" /\ l = "finish"
           \/ j = "cleanup" /\ l = "retire" /\ receipt[o] = "remote_delivered"
           \/ j = "forget" /\ l \in {"removed", "answer"}
           \/ j = "forget" /\ l = "retire" /\ receipt[o] = "remote_delivered"
           \/ j = "resources" /\ l = "removed"
           \/ j = "resources" /\ l = "retire" /\ res[o].state = "retiring"
           \/ j = "resources" /\ l = "discard" /\ Unstarted(o)
    PROVE  IInv'
<1>1. j \in OpenJobs /\ l \in OpenPoints /\ j \notin Giving
  BY DEF OpenJobs, OpenPoints, Giving
<1>2. j \in Jobs
  BY DEF Jobs
<1>3. l \in Points
  BY DEF Points
<1>4. /\ run[v].pc = "idle" /\ owner = Nobody /\ owner' = v
      /\ run' = [run EXCEPT ![v] = Request(v, j, o, l)]
      /\ UNCHANGED <<durable, resLock, git, world, mem, faults, hist>>
  BY DEF OpenFor, At, CanOpen
<1>5. PICK m : m = Request(v, j, o, l)
  OBVIOUS
<1>6. Asked(m, j, o, l)
  BY <1>2, <1>3, <1>5, RequestAsks
<1>7. m \in Runs /\ m.job = j /\ m.op = o /\ m.pc = l /\ m.req = 0 /\ m.next = 0 /\ m.said = NoOp
  BY <1>6 DEF Asked
<1>8. run' = [run EXCEPT ![v] = m] /\ run'[v] = m
  BY <1>4, <1>5 DEF IInv, TypeOK
<1>9. UNCHANGED <<receipt, gen, res, roots, local, remote, hist>>
  BY <1>4 DEF durable, git
<1>10. RetireOK(v)'
  BY <1>1, <1>7, <1>8, <1>9 DEF RetireOK, GivesUp, Retiring, Unstarted
<1>11. StageOK(v)'
  BY <1>7, <1>8 DEF StageOK
<1> QED
  BY <1>1, <1>4, <1>7, <1>8, <1>10, <1>11, OpenKeeps

LEMMA RecoverKeeps ==
    ASSUME IInv, NEW v \in Viewers, NEW o \in Ops, Recover(v, o) \/ Retry(v, o)
    PROVE  IInv'
BY OpenForKeeps DEF Recover, Retry

LEMMA CleanupKeeps ==
    ASSUME IInv, NEW v \in Viewers, NEW o \in Ops, Cleanup(v, o)
    PROVE  IInv'
<1>1. CASE receipt[o] = "remote_delivered"
  <2>1. OpenFor(v, "cleanup", o, "retire")
    BY <1>1 DEF Cleanup
  <2> QED
    BY <1>1, <2>1, OpenForKeeps
<1>2. CASE receipt[o] # "remote_delivered"
  <2>1. OpenFor(v, "cleanup", o, "finish")
    BY <1>2 DEF Cleanup
  <2> QED
    BY <2>1, OpenForKeeps
<1> QED
  BY <1>1, <1>2

LEMMA ForgetKeeps ==
    ASSUME IInv, NEW v \in Viewers, NEW o \in Ops, Forget(v, o)
    PROVE  IInv'
<1>1. CASE receipt[o] = "remote_delivered"
  <2>1. OpenFor(v, "forget", o, "retire")
    BY <1>1 DEF Forget
  <2> QED
    BY <1>1, <2>1, OpenForKeeps
<1>2. CASE receipt[o] = "none"
  <2>1. OpenFor(v, "forget", o, "removed")
    BY <1>2 DEF Forget
  <2> QED
    BY <2>1, OpenForKeeps
<1>3. CASE receipt[o] \notin {"none", "remote_delivered"}
  <2>1. OpenFor(v, "forget", o, "answer")
    BY <1>3 DEF Forget
  <2> QED
    BY <2>1, OpenForKeeps
<1> QED
  BY <1>1, <1>2, <1>3

LEMMA RecoverResourcesKeeps ==
    ASSUME IInv, NEW v \in Viewers, NEW o \in Ops, RecoverResources(v, o)
    PROVE  IInv'
<1>1. CASE receipt[o] = "none" /\ res[o].state = "sealed" /\ o \in old
  <2>1. OpenFor(v, "resources", o, "discard")
    BY <1>1 DEF RecoverResources
  <2>2. Unstarted(o)
    BY <1>1 DEF IInv, OpOK, ReceiptOK
  <2> QED
    BY <2>1, <2>2, OpenForKeeps
<1>2. CASE res[o].state = "retiring"
  <2>1. OpenFor(v, "resources", o, "retire")
    BY <1>2 DEF RecoverResources
  <2> QED
    BY <1>2, <2>1, OpenForKeeps
<1>3. CASE /\ ~(receipt[o] = "none" /\ res[o].state = "sealed" /\ o \in old)
           /\ res[o].state # "retiring"
  <2>1. OpenFor(v, "resources", o, "removed")
    BY <1>3 DEF RecoverResources
  <2> QED
    BY <2>1, OpenForKeeps
<1> QED
  BY <1>1, <1>2, <1>3

LEMMA RepublishKeeps ==
    ASSUME IInv, NEW v \in Viewers, NEW o \in Ops, NEW g \in 0..MaxGen, Republish(v, o, g)
    PROVE  IInv'
<1>1. /\ run[v].pc = "idle" /\ owner = Nobody /\ owner' = v
      /\ UNCHANGED <<durable, resLock, git, world, mem, faults, hist>>
      /\ ReceiptOK(o) /\ gen[o] \in 0..MaxGen /\ MaxGen \in Nat
  BY ComposeAssumption DEF Republish, At, CanOpen, IInv, OpOK, TypeOK
<1>2. PICK l \in {"regenerate", "finish"} :
          l = IF receipt[o] \in Published /\ g = gen[o] /\ g # 0 /\ g < MaxGen
              THEN "regenerate" ELSE "finish"
  OBVIOUS
<1>3. "republish" \in Jobs /\ "republish" \in OpenJobs /\ "republish" \notin Giving
  BY DEF Jobs, OpenJobs, Giving
<1>4. l \in Points /\ l \in OpenPoints
  BY DEF Points, OpenPoints
<1>5. PICK f : f = Request(v, "republish", o, l)
  OBVIOUS
<1>6. Asked(f, "republish", o, l)
  BY <1>3, <1>4, <1>5, RequestAsks
<1>7. PICK m : m = [f EXCEPT !.req = g, !.next = g]
  OBVIOUS
<1>8. m \in Runs /\ m.job = "republish" /\ m.op = o /\ m.pc = l /\ m.req = g /\ m.next = g /\ m.said = NoOp
  BY <1>6, <1>7 DEF Asked, Runs
<1>9. run' = [run EXCEPT ![v] = m] /\ run'[v] = m
  BY <1>2, <1>5, <1>7 DEF Republish, IInv, TypeOK
<1>10. UNCHANGED <<receipt, gen, res, roots, local, remote, hist>>
  BY <1>1 DEF durable, git
<1>11. RetireOK(v)'
  BY <1>3, <1>8, <1>9 DEF RetireOK, GivesUp, Retiring
<1>12. l = "regenerate" => /\ receipt[o] \in {"remote_attempt", "remote_delivered"}
                           /\ gen[o] = g /\ g >= 1 /\ g < MaxGen
  <2>1. ASSUME l = "regenerate" PROVE receipt[o] \in Published /\ g = gen[o] /\ g # 0 /\ g < MaxGen
    BY <1>2, <2>1
  <2>2. gen[o] # 0 => receipt[o] # "local_published"
    BY <1>1 DEF ReceiptOK, Early, Unsent
  <2> QED
    BY <1>1, <2>1, <2>2 DEF Published
<1>13. StageOK(v)'
  BY <1>8, <1>9, <1>10, <1>12 DEF StageOK
<1> QED
  BY <1>1, <1>3, <1>4, <1>8, <1>9, <1>11, <1>12, <1>13, OpenKeeps

LEMMA ConfirmKeeps ==
    ASSUME IInv, NEW v \in Viewers, NEW o \in Ops, Confirm(v, o)
    PROVE  IInv'
<1>0. /\ run[v].pc = "idle" /\ NoOp \notin Ops /\ run[v].pc \notin Going /\ mem[v] \in Memories
      /\ faults \in 0..MaxFaults /\ SayingOK(v) /\ MemoryOK(v)
  BY ComposeAssumption
     DEF Confirm, At, IInv, TypeOK, ViewerOK, Going, Confirming, Publishing, Delivering
<1>1. UNCHANGED <<durable, resLock, git, world, mem, faults, hist>>
  BY DEF Confirm
<1>2. CASE o \in mem[v].unpublished /\ End(v, o)
  <2>1. Only(v, o) /\ Unstarted(o)
    BY <1>0, <1>2 DEF SayingOK, Only
  <2> QED
    BY <1>0, <1>1, <1>2, <2>1, EndPlain
<1>3. CASE End(v, NoOp)
  BY <1>0, <1>1, <1>3, EndPlain
<1>4. CASE /\ (mem[v].kind = "previewed" /\ mem[v].held = o) \/ mem[v].receiptless = o
           /\ End(v, o)
  <2>1. Only(v, o) /\ (Unstarted(o) \/ o \in hist.vanished)
    BY <1>0, <1>4, HolderAlone, ReceiptlessSaid DEF Said
  <2> QED
    BY <1>0, <1>1, <1>4, <2>1, EndPlain
<1>5. ASSUME CanOpen, owner' = v, NEW b \in BOOLEAN, b = (mem[v].kind = "previewed" /\ mem[v].held = o),
             run' = [run EXCEPT ![v] =
                    [Request(v, "confirm", o, IF b THEN "list" ELSE "handle") EXCEPT
                        !.todo = IF b THEN {p \in Ops : receipt[p] # "none"} ELSE {},
                        !.again = ~b]]
      PROVE  IInv'
  <2>1. PICK l \in {"list", "handle"} : l = IF b THEN "list" ELSE "handle"
    OBVIOUS
  <2>2. "confirm" \in OpenJobs /\ "confirm" \notin Giving
    BY DEF OpenJobs, Giving
  <2>3. l \in Points /\ l \in OpenPoints
    BY DEF Points, OpenPoints
  <2>4. PICK f : f = Request(v, "confirm", o, l)
    OBVIOUS
  <2>5. Asked(f, "confirm", o, l)
    BY <2>3, <2>4, TurnPoints, RequestAsks
  <2>6. PICK t \in SUBSET Ops : t = IF b THEN {p \in Ops : receipt[p] # "none"} ELSE {}
    OBVIOUS
  <2>7. PICK c \in BOOLEAN : c = ~b
    OBVIOUS
  <2>8. PICK m : m = [f EXCEPT !.todo = t, !.again = c]
    OBVIOUS
  <2>9. m \in Runs /\ m.job = "confirm" /\ m.op = o /\ m.pc = l /\ m.req = 0 /\ m.said = NoOp
    BY <2>5, <2>8 DEF Asked, Runs
  <2>10. run' = [run EXCEPT ![v] = m] /\ run'[v] = m
    BY <1>5, <2>1, <2>4, <2>6, <2>7, <2>8 DEF IInv, TypeOK
  <2>11. RetireOK(v)' /\ StageOK(v)'
    BY <2>2, <2>9, <2>10 DEF RetireOK, GivesUp, Retiring, StageOK
  <2>12. l = "list" => mem[v].kind = "previewed" /\ mem[v].held = o
    BY <1>5, <2>1
  <2> QED
    BY <1>0, <1>1, <1>5, <2>2, <2>3, <2>9, <2>10, <2>11, <2>12, OpenKeeps DEF CanOpen
<1> QED
  BY <1>2, <1>3, <1>4, <1>5 DEF Confirm

\* release_if_spent keeps the memory, or lets its candidate go.
Spent(v, m) ==
    \/ m = mem[v]
    \/ m.kind = "none" /\ m.held = NoOp /\ \E o \in Ops : LetGo(v, m, o)

LEMMA LetIfSpentLets ==
    ASSUME IInv, NEW v \in Viewers, NEW m, m = LetIfSpent(mem[v])
    PROVE  Spent(v, m)
<1>1. mem[v] \in Memories /\ MemoryOK(v) /\ NoOp \notin Ops
  BY ComposeAssumption DEF IInv, TypeOK, ViewerOK
<1>2. CASE mem[v].kind \in {"previewed", "confirmed"} /\ m = Let(mem[v], mem[v].held)
  <2>1. PICK o \in Ops : o = mem[v].held
    BY <1>1, <1>2 DEF MemoryOK, Memories
  <2>2. LetGo(v, m, o)
    BY <1>1, <1>2, <2>1, LetLets
  <2>3. m.kind = "none" /\ m.held = NoOp
    BY <1>1, <1>2, <2>1 DEF Let, Memories
  <2> QED
    BY <2>2, <2>3 DEF Spent
<1>3. CASE m = mem[v]
  BY <1>3 DEF Spent
<1> QED
  BY <1>2, <1>3 DEF LetIfSpent

LEMMA SpentSaid ==
    ASSUME IInv, NEW v \in Viewers, NEW m, Spent(v, m)
    PROVE  /\ m \in Memories /\ m.receiptless = mem[v].receiptless
           /\ m = mem[v] \/ (m.kind = "none" /\ m.held = NoOp)
           /\ \A p \in m.unpublished \ mem[v].unpublished : Only(v, p) /\ Unstarted(p) /\ m.held = NoOp
<1>1. mem[v] \in Memories
  BY DEF IInv, TypeOK
<1>2. CASE m = mem[v]
  BY <1>1, <1>2
<1>3. CASE m.kind = "none" /\ m.held = NoOp /\ \E o \in Ops : LetGo(v, m, o)
  <2>1. PICK o \in Ops : LetGo(v, m, o)
    BY <1>3
  <2>2. \A p \in m.unpublished \ mem[v].unpublished : Only(v, p) /\ Unstarted(p) /\ m.held # p
    BY <2>1, LetGoSaid
  <2> QED
    BY <1>3, <2>1, <2>2 DEF LetGo
<1> QED
  BY <1>2, <1>3 DEF Spent

\* A new preview: the previous candidate is given up first.
LEMMA PreviewingKeeps ==
    ASSUME IInv, NEW v \in Viewers, run[v].pc = "idle", NEW r \in Runs, run' = [run EXCEPT ![v] = r],
           r.said = NoOp, NEW m \in Memories, mem' = [mem EXCEPT ![v] = m],
           m.receiptless = mem[v].receiptless,
           \/ m.kind = mem[v].kind /\ m.held = mem[v].held
           \/ m.kind = "none" /\ m.held = NoOp,
           \A p \in m.unpublished \ mem[v].unpublished :
              Only(v, p) /\ Unstarted(p) /\ m.held = NoOp /\ r.op = NoOp,
           \/ r.job = "none" /\ r.pc = "idle" /\ r.op = NoOp
           \/ r.job = "preview" /\ r.pc = "capture" /\ r.op = NoOp
           \/ /\ r.job = "preview" /\ r.pc \in {"retire", "discard"} /\ r.op = mem[v].held
              /\ mem[v].kind \in {"previewed", "releasing"},
           UNCHANGED <<durable, locks, git, world, faults, hist>>
    PROVE  IInv'
<1>1. /\ TypeOK /\ NoOp \notin Ops /\ mem \in [Viewers -> Memories] /\ mem[v] \in Memories
      /\ faults \in 0..MaxFaults /\ MemoryOK(v) /\ owner \in Viewers \cup {Nobody}
  BY ComposeAssumption DEF IInv, TypeOK, ViewerOK
<1>2. UNCHANGED <<receipt, gen, res, roots, local, remote, hist, owner, resLock>>
  BY DEF durable, git, locks
<1>3. /\ mem'[v] = m /\ \A u \in Viewers \ {v} : mem'[u] = mem[u]
      /\ mem' \in [Viewers -> Memories]
  BY <1>1
<1>4. TypeOK' /\ run'[v] = r /\ \A u \in Viewers \ {v} : run'[u] = run[u]
  <2>1. owner' \in Viewers \cup {Nobody} /\ faults' \in 0..MaxFaults /\ UNCHANGED resLock
    BY <1>1, <1>2
  <2> QED
    BY <1>3, <2>1, WalkTyped
<1>5. Frame(v, NoOp)
  BY <1>2, <1>3, <1>4 DEF Frame, Same
<1>6. \A p \in Ops : Claims(v, p)' => Claims(v, p)
  BY <1>1, <1>3, <1>4 DEF Claims, GivesUp
<1>7. Spares(v, NoOp)
  BY <1>2, <1>6 DEF Spares, Unstarted
<1>8. \A p \in Ops : Unstarted(p)' <=> Unstarted(p)
  BY <1>2 DEF Unstarted
<1>9. r.pc \notin Confirming /\ r.pc # "list" /\ run[v].pc \notin Going
  BY DEF Confirming, Going, Publishing, Delivering
<1>10. MemoryOK(v)'
  BY <1>1, <1>2, <1>3, <1>4, <1>9 DEF MemoryOK, Memories, Unstarted
<1>11. SayingOK(v)'
  <2>1. \A p \in m.unpublished : p \in Ops
    BY DEF Memories
  <2>2. \A p \in m.unpublished \ mem[v].unpublished : Only(v, p) /\ Unstarted(p)' /\ ~Claims(v, p)'
    BY <1>1, <1>3, <1>4, <1>8, <2>1 DEF Claims, GivesUp
  <2>3. PICK t \in Ops \cup {NoOp} : t = m.receiptless
    BY DEF Memories
  <2>4. t \in Ops => Only(v, t) /\ (Unstarted(t)' \/ t \in hist.vanished)
    BY <1>8, <1>9, <2>3, ReceiptlessSaid DEF Said
  <2> QED
    BY <1>1, <1>3, <1>4, <1>5, <1>7, <2>2, <2>3, <2>4, SayingNow
<1>12. PlaceOK(v)'
  BY <1>1, <1>2, <1>4
     DEF PlaceOK, MemoryOK, Owning, Unowned, UnownedPoints, Locking, Retiring, Capturing, Confirming,
         Publishing, Delivering
<1>13. HandsOK(v)' /\ StageOK(v)'
  BY <1>4 DEF HandsOK, StageOK, Capturing, Retiring
<1>14. RetireOK(v)'
  <2>1. r.op \in Ops => Unstarted(r.op) /\ res[r.op].state # "none"
    BY <1>1 DEF MemoryOK
  <2>2. r.op \in Ops => Unstarted(r.op)'
    BY <1>8, <2>1
  <2> QED
    BY <1>2, <1>4, <2>1, <2>2 DEF RetireOK, GivesUp, Giving, Retiring, Unstarted
<1> QED
  BY <1>1, <1>4, <1>5, <1>7, <1>10, <1>11, <1>12, <1>13, <1>14, StepKeeps DEF ViewerOK

LEMMA PreviewKeeps ==
    ASSUME IInv, NEW v \in Viewers, Preview(v)
    PROVE  IInv'
<1>1. /\ run[v].pc = "idle" /\ NoOp \notin Ops /\ MemoryOK(v) /\ mem[v] \in Memories
      /\ UNCHANGED <<durable, locks, git, world, faults, hist>>
  BY ComposeAssumption DEF Preview, At, IInv, TypeOK, ViewerOK
<1>2. PICK m : m = LetIfSpent(mem[v])
  OBVIOUS
<1>3. /\ m \in Memories /\ m.receiptless = mem[v].receiptless
      /\ m = mem[v] \/ (m.kind = "none" /\ m.held = NoOp)
      /\ \A p \in m.unpublished \ mem[v].unpublished : Only(v, p) /\ Unstarted(p) /\ m.held = NoOp
  BY <1>2, LetIfSpentLets, SpentSaid
<1>4. PICK k : k = IF m.kind = "previewed" THEN [m EXCEPT !.kind = "none", !.held = NoOp] ELSE m
  OBVIOUS
<1>5. mem' = [mem EXCEPT ![v] = k]
  BY <1>2, <1>4 DEF Preview
<1>6. "preview" \in Jobs
  BY DEF Jobs
<1>7. "capture" \in Points
  BY DEF Points
<1>8. CASE m.kind = "confirmed" /\ run' = [run EXCEPT ![v] = Fresh]
  <2>1. PICK r \in Runs : r = Fresh
    BY FreshTyped, FreshSays
  <2>2. r.said = NoOp /\ r.pc = "idle" /\ r.job = "none" /\ r.op = NoOp
    BY <2>1 DEF Fresh
  <2>3. k = mem[v]
    BY <1>3, <1>4, <1>8
  <2> QED
    BY <1>1, <1>5, <1>8, <2>1, <2>2, <2>3, PreviewingKeeps
<1>9. CASE m.kind = "releasing" /\ run' = [run EXCEPT ![v] = Request(v, "preview", m.held, "retire")]
  <2>0. k = mem[v] /\ m = mem[v]
    BY <1>3, <1>4, <1>9
  <2>1. PICK o \in Ops : o = mem[v].held
    BY <1>1, <1>9, <2>0 DEF MemoryOK, Memories
  <2>2. PICK r : r = Request(v, "preview", o, "retire")
    OBVIOUS
  <2>3. Asked(r, "preview", o, "retire")
    BY <1>6, <2>2, TurnPoints, RequestAsks
  <2>4. r \in Runs /\ r.job = "preview" /\ r.op = o /\ r.pc = "retire" /\ r.said = NoOp
    BY <2>3 DEF Asked
  <2>5. run' = [run EXCEPT ![v] = r]
    BY <1>9, <2>0, <2>1, <2>2
  <2> QED
    BY <1>1, <1>5, <1>9, <2>0, <2>1, <2>4, <2>5, PreviewingKeeps
<1>10. CASE m.kind = "previewed" /\ run' = [run EXCEPT ![v] = Request(v, "preview", m.held, "discard")]
  <2>0. m = mem[v]
    BY <1>3, <1>10
  <2>1. PICK o \in Ops : o = mem[v].held
    BY <1>1, <1>10, <2>0 DEF MemoryOK, Memories
  <2>2. PICK r : r = Request(v, "preview", o, "discard")
    OBVIOUS
  <2>3. Asked(r, "preview", o, "discard")
    BY <1>6, <2>2, TurnPoints, RequestAsks
  <2>4. r \in Runs /\ r.job = "preview" /\ r.op = o /\ r.pc = "discard" /\ r.said = NoOp
    BY <2>3 DEF Asked
  <2>5. run' = [run EXCEPT ![v] = r]
    BY <1>10, <2>0, <2>1, <2>2
  <2>6. /\ k \in Memories /\ k.kind = "none" /\ k.held = NoOp
        /\ k.unpublished = mem[v].unpublished /\ k.receiptless = mem[v].receiptless
    BY <1>1, <1>4, <1>10, <2>0 DEF Memories
  <2> QED
    BY <1>1, <1>5, <1>10, <2>0, <2>1, <2>4, <2>5, <2>6, PreviewingKeeps, ZenonT(60)
<1>11. CASE m.kind = "none" /\ run' = [run EXCEPT ![v] = Request(v, "preview", NoOp, "capture")]
  <2>0. k = m
    BY <1>4, <1>11
  <2>2. PICK r : r = Request(v, "preview", NoOp, "capture")
    OBVIOUS
  <2>3. Asked(r, "preview", NoOp, "capture")
    BY <1>6, <1>7, <2>2, RequestAsks
  <2>4. r \in Runs /\ r.job = "preview" /\ r.op = NoOp /\ r.pc = "capture" /\ r.said = NoOp
    BY <2>3 DEF Asked
  <2>5. run' = [run EXCEPT ![v] = r]
    BY <1>11, <2>2
  <2>6. \/ m.kind = mem[v].kind /\ m.held = mem[v].held
        \/ m.kind = "none" /\ m.held = NoOp
    BY <1>3
  <2> QED
    BY <1>1, <1>3, <1>5, <2>0, <2>4, <2>5, <2>6, PreviewingKeeps
<1> QED
  BY <1>2, <1>8, <1>9, <1>10, <1>11 DEF Preview

\* A confirmed record is sound, and beside its receipt.
LEMMA ConfirmedSound ==
    ASSUME IInv, NEW o \in Ops, res[o].state \in {"sealed", "confirmed", "retained"}, NEW r,
           r = IF res[o].state = "retained" THEN res[o] ELSE [res[o] EXCEPT !.state = "confirmed"]
    PROVE  /\ r \in Resources /\ Sound(r, roots[o]) /\ r.state \in {"confirmed", "retained"}
           /\ r.commit = res[o].commit /\ r.rejected = res[o].rejected /\ r.keep = res[o].keep
           /\ r.state = res[o].state \/ (res[o].state = "sealed" /\ r.state = "confirmed")
<1>1. res[o] \in Resources /\ Sound(res[o], roots[o])
  BY DEF IInv, TypeOK, OpOK, RecordOK
<1>2. CASE res[o].state = "retained"
  BY <1>1, <1>2
<1>3. CASE res[o].state # "retained"
  <2>1. r = [res[o] EXCEPT !.state = "confirmed"]
    BY <1>3
  <2>2. /\ r \in Resources /\ r.state = "confirmed" /\ r.snapshot = res[o].snapshot
        /\ r.base = res[o].base
        /\ r.commit = res[o].commit /\ r.rejected = res[o].rejected /\ r.keep = res[o].keep
    BY <1>1, <2>1 DEF Resources
  <2>3. Shape(r)
    BY <1>1, <1>3, <2>2 DEF Sound, Shape
  <2>4. Sound(r, roots[o])
    BY <1>1, <1>3, <2>2, <2>3 DEF Sound, Shape
  <2> QED
    BY <1>3, <2>2, <2>4
<1> QED
  BY <1>2, <1>3

LEMMA HandleKeeps ==
    ASSUME IInv, NEW v \in Viewers, Handle(v)
    PROVE  IInv'
<1>0. /\ run[v].pc = "handle" /\ run[v] \in Runs /\ PlaceOK(v) /\ MemoryOK(v) /\ SayingOK(v)
      /\ NoOp \notin Ops /\ mem[v] \in Memories /\ TypeOK /\ run[v].pc \notin Going
      /\ run[v].pc \notin Confirming /\ run \in [Viewers -> Runs] /\ mem \in [Viewers -> Memories]
      /\ owner \in Viewers \cup {Nobody} /\ faults \in 0..MaxFaults
  BY ComposeAssumption
     DEF Handle, At, IInv, TypeOK, ViewerOK, Going, Confirming, Publishing, Delivering
<1>1. PICK o \in Ops : o = run[v].op
  BY <1>0 DEF PlaceOK, Runs
<1>2. owner = v /\ run[v].job = "confirm" /\ run[v].said = NoOp
  BY <1>0 DEF PlaceOK, Owning, Unowned
<1>3. UNCHANGED <<receipt, gen, roots, git, world, hist>>
  BY DEF Handle
<1>4. PICK m : m = LetIfSpent(mem[v])
  OBVIOUS
<1>5. /\ m \in Memories /\ m.receiptless = mem[v].receiptless
      /\ m = mem[v] \/ (m.kind = "none" /\ m.held = NoOp)
      /\ \A p \in m.unpublished \ mem[v].unpublished : Only(v, p) /\ Unstarted(p) /\ m.held = NoOp
  BY <1>4, LetIfSpentLets, SpentSaid
<1>6. CASE /\ End(v, IF o \in m.unpublished \/ (m.kind = "releasing" /\ m.held = o) THEN o ELSE NoOp)
           /\ mem' = [mem EXCEPT ![v] = m] /\ UNCHANGED <<res, resLock, litter, faults>>
  <2>1. PICK x \in Ops \cup {NoOp} :
              /\ x = IF o \in m.unpublished \/ (m.kind = "releasing" /\ m.held = o) THEN o ELSE NoOp
    OBVIOUS
  <2>2. x \in Ops => Only(v, x) /\ Unstarted(x)
    <3>1. CASE o \in mem[v].unpublished
      BY <1>0, <2>1, <3>1 DEF SayingOK, Only
    <3>2. CASE o \in m.unpublished \ mem[v].unpublished
      BY <1>0, <1>5, <2>1, <3>2
    <3>3. CASE m.kind = "releasing" /\ m.held = o
      BY <1>0, <1>5, <2>1, <3>3, HolderAlone
    <3> QED
      BY <1>0, <2>1, <3>1, <3>2, <3>3
  <2>3. m.receiptless \in Ops =>
              /\ Only(v, m.receiptless)
              /\ Unstarted(m.receiptless) \/ m.receiptless \in hist.vanished
    BY <1>0, <1>5, ReceiptlessSaid DEF Said
  <2>4. UNCHANGED <<durable, resLock, git, world, hist>> /\ faults' \in 0..MaxFaults
    BY <1>0, <1>3, <1>6 DEF durable
  <2>5. \A p \in m.unpublished \ mem[v].unpublished : Only(v, p) /\ Unstarted(p) /\ m.held # p
    BY <1>0, <1>5 DEF Memories
  <2>6. \/ m.kind = mem[v].kind /\ m.held = mem[v].held
        \/ m.kind = "none" /\ m.held = NoOp
    BY <1>5
  <2> QED
    BY <1>5, <1>6, <2>1, <2>2, <2>3, <2>4, <2>5, <2>6, EndKeeps
<1>7. CASE /\ m.kind = "previewed" /\ m.held = o
           /\ run' = [run EXCEPT ![v].job = "expired", ![v].pc = "discard"]
           /\ UNCHANGED <<mem, owner, res, resLock, litter, faults>>
  <2>1. m = mem[v] /\ mem[v].held = o /\ mem[v].kind = "previewed"
    BY <1>5, <1>7
  <2>2. Unstarted(o) /\ res[o].state # "none"
    BY <1>0, <2>1 DEF MemoryOK
  <2>3. PICK f : f = [run[v] EXCEPT !.job = "expired", !.pc = "discard"]
    OBVIOUS
  <2>4. Turned(run[v], f, "expired", "discard")
    BY <1>0, <2>3, TurnTyped, TurnPoints
  <2>5. f \in Runs /\ f.pc = "discard" /\ f.job = "expired" /\ f.op = o /\ f.said = NoOp
    BY <1>1, <1>2, <2>4 DEF Turned
  <2>6. run' = [run EXCEPT ![v] = f]
    BY <1>0, <1>7, <2>3
  <2>7. TypeOK' /\ run'[v] = f /\ \A u \in Viewers \ {v} : run'[u] = run[u]
    <3>1. owner' \in Viewers \cup {Nobody} /\ faults' \in 0..MaxFaults /\ mem' \in [Viewers -> Memories]
      BY <1>0, <1>7
    <3>2. UNCHANGED <<durable, resLock, git, world, hist>>
      BY <1>3, <1>7 DEF durable
    <3> QED
      BY <2>5, <2>6, <3>1, <3>2, WalkTyped
  <2>8. UNCHANGED <<receipt, gen, res, roots, local, remote, hist, owner, resLock, mem>>
    BY <1>3, <1>7 DEF git
  <2>9. PlaceOK(v)'
    BY <1>0, <1>2, <2>5, <2>7, <2>8
       DEF PlaceOK, Owning, Unowned, UnownedPoints, Locking, Retiring, Capturing, Confirming,
           Publishing, Delivering
  <2>10. HandsOK(v)' /\ StageOK(v)'
    BY <2>5, <2>7 DEF HandsOK, StageOK, Capturing, Retiring
  <2>11. RetireOK(v)'
    BY <2>2, <2>5, <2>7, <2>8 DEF RetireOK, GivesUp, Giving, Retiring, Unstarted
  <2>12. "discard" \notin Confirming
    BY DEF Confirming
  <2> QED
    BY <1>0, <1>1, <2>1, <2>5, <2>7, <2>8, <2>9, <2>10, <2>11, <2>12, WalkKeeps
<1>8. CASE Goto(v, "answer") /\ UNCHANGED <<mem, owner, res, resLock, litter, faults>>
  <2>1. UNCHANGED <<durable, locks, git, world, mem, hist>> /\ faults' \in 0..MaxFaults
    BY <1>0, <1>3, <1>8 DEF durable, locks
  <2> QED
    BY <1>0, <1>8, <2>1, PaceAnswer
<1>9. ASSUME m.kind \in {"previewed", "confirmed"}, m.held = o,
             CanLock, res[o].state \in {"sealed", "confirmed", "retained"},
             NEW r, r = IF res[o].state = "retained" THEN res[o] ELSE [res[o] EXCEPT !.state = "confirmed"],
             SaveResource(v, r, Nobody, "load", "answer"),
             mem' = IF run'[v].pc = "load" THEN [mem EXCEPT ![v].kind = "confirmed"] ELSE mem,
             UNCHANGED owner
      PROVE  IInv'
  <2>1. m = mem[v] /\ mem[v].held = o
    BY <1>5, <1>9
  <2>2. PICK refs \in SUBSET PinKinds : refs = roots[o]
    BY <1>0 DEF TypeOK
  <2>3. /\ r \in Resources /\ Sound(r, refs) /\ r.state \in {"confirmed", "retained"}
        /\ r.commit = res[o].commit /\ r.rejected = res[o].rejected /\ r.keep = res[o].keep
        /\ r.state = res[o].state \/ (res[o].state = "sealed" /\ r.state = "confirmed")
    BY <1>9, <2>2, ConfirmedSound
  <2>4. \/ Recording(v, r, refs, "load", Nobody)
        \/ Recording(v, r, refs, "answer", Nobody)
        \/ Recording(v, res[o], refs, "answer", Nobody)
    <3>1. roots' = [roots EXCEPT ![run[v].op] = refs]
      BY <1>0, <1>1, <1>3, <2>2 DEF TypeOK
    <3>2. resLock \in {v, Nobody}
      BY <1>9 DEF CanLock
    <3>3. UNCHANGED <<receipt, gen, owner, git, world, hist>>
      BY <1>3, <1>9
    <3> QED
      BY <1>1, <1>9, <3>1, <3>2, <3>3, SaveRecords
  <2>5. ReceiptOK(o) /\ Sound(res[o], refs) /\ res[o] \in Resources
    BY <1>0, <2>2 DEF IInv, OpOK, RecordOK, TypeOK
  <2>6. ASSUME NEW q \in Resources, q \in {r, res[o]}, NEW l \in {"load", "answer"},
               Recording(v, q, refs, l, Nobody)
        PROVE  /\ ReceiptOK(o)' /\ Moved(v, o, q, refs, l)
               /\ run'[v].pc = l /\ run'[v].job = "confirm" /\ run'[v].op = o /\ run'[v].said = NoOp
               /\ res'[o] = q /\ roots'[o] = refs /\ owner' = v /\ run'[v].req = run[v].req
               /\ UNCHANGED <<receipt, gen, hist>>
    <3>0. l \in Points
      BY DEF Points
    <3>1. Moved(v, o, q, refs, l)
      BY <1>1, <2>6, <3>0, RecordingMoves
    <3>2. /\ run'[v].pc = l /\ run'[v].job = run[v].job /\ run'[v].op = o /\ run'[v].said = run[v].said
          /\ res'[o] = q /\ roots'[o] = refs /\ run'[v].req = run[v].req
          /\ UNCHANGED <<receipt, gen, hist>>
      BY <2>6, <3>1 DEF Moved, Recording
    <3>3. ReceiptOK(o)'
      BY <1>9, <2>2, <2>3, <2>5, <2>6, <3>2 DEF ReceiptOK, Unstarted, Unsent, Rooting, Forgetting, Early
    <3> QED
      BY <1>2, <1>9, <3>1, <3>2, <3>3
  <2>7. ASSUME Recording(v, r, refs, "load", Nobody) PROVE IInv'
    <3>1. /\ ReceiptOK(o)'
          /\ run'[v].pc = "load" /\ run'[v].job = "confirm" /\ run'[v].op = o /\ run'[v].said = NoOp
          /\ res'[o] = r /\ owner' = v /\ run'[v].req = run[v].req
      BY <2>3, <2>6, <2>7
    <3>2. PICK k : k = [mem[v] EXCEPT !.kind = "confirmed"]
      OBVIOUS
    <3>3. /\ k \in Memories /\ k.kind = "confirmed" /\ k.held = o
          /\ k.unpublished = mem[v].unpublished /\ k.receiptless = mem[v].receiptless
      BY <1>0, <2>1, <3>2 DEF Memories
    <3>4. mem' = [mem EXCEPT ![v] = k]
      BY <1>0, <1>9, <3>1, <3>2
    <3>5. PlaceOK(v)'
      BY <1>0, <1>2, <3>1
         DEF PlaceOK, Owning, Unowned, UnownedPoints, Locking, Retiring, Capturing, Confirming,
             Publishing, Delivering
    <3>6. HandsOK(v)' /\ StageOK(v)' /\ RetireOK(v)'
      BY <2>3, <3>1 DEF HandsOK, StageOK, RetireOK, GivesUp, Giving, Capturing, Retiring
    <3> QED
      BY <1>0, <1>1, <1>2, <1>9, <2>1, <2>3, <2>7, <3>1, <3>3, <3>4, <3>5, <3>6, TakingKeeps
  <2>8. ASSUME NEW q \in Resources, q \in {r, res[o]}, Recording(v, q, refs, "answer", Nobody) PROVE IInv'
    <3>1. /\ ReceiptOK(o)'
          /\ run'[v].pc = "answer" /\ run'[v].job = "confirm" /\ run'[v].op = o /\ run'[v].said = NoOp
          /\ res'[o] = q /\ owner' = v /\ run'[v].req = run[v].req
      BY <2>6, <2>8
    <3>2. mem' = mem
      BY <1>9, <3>1
    <3>3. PlaceOK(v)'
      BY <1>0, <1>2, <3>1
         DEF PlaceOK, Owning, Unowned, UnownedPoints, Locking, Retiring, Capturing, Confirming,
             Publishing, Delivering
    <3>4. HandsOK(v)' /\ StageOK(v)' /\ RetireOK(v)'
      BY <3>1 DEF HandsOK, StageOK, RetireOK, GivesUp, Giving, Capturing, Retiring
    <3>5. "answer" \notin Confirming /\ "answer" \in Points
      BY DEF Confirming, Points
    <3> QED
      <4>1. q.state \in {"sealed", "confirmed", "retained"} /\ Sound(q, refs)
        BY <1>9, <2>3, <2>5, <2>8
      <4>2. /\ owner = v /\ res[o].state # "capturing" /\ res[o].state \notin {"retiring", "spent", "removed"}
            /\ q.state # "none" /\ run[v].pc # "answer" /\ run[v].pc \notin Going /\ "answer" # "list"
        BY <1>0, <1>2, <1>9, <4>1
      <4> QED
        BY <1>1, <2>8, <3>1, <3>2, <3>3, <3>4, <3>5, <4>1, <4>2, RecordingKeeps
  <2> QED
    BY <2>3, <2>4, <2>5, <2>7, <2>8
<1> QED
  BY <1>1, <1>4, <1>6, <1>7, <1>8, <1>9 DEF Handle
-----------------------------------------------------------------------------
(* What happens around the viewers.                                         *)

\* What a push without an answer does to what was done.
LEMMA PushesAlone ==
    ASSUME NEW h \in Hists, NEW o \in Ops, NEW r \in 0..MaxGen, NEW k,
           k = [h EXCEPT !.pushes[o][r] = @ + 1]
    PROVE  Pushed(h, k, o, r, h.landed)
<1>1. PICK c : c = [h.pushes EXCEPT ![o][r] = h.pushes[o][r] + 1]
  OBVIOUS
<1>2. k = [h EXCEPT !.pushes = c]
  BY <1>1
<1>3. PICK f \in SUBSET Ops : f = h.landed
  BY DEF Hists
<1>4. [h EXCEPT !.pushes = c] = [h EXCEPT !.pushes = c, !.landed = f]
  BY <1>3 DEF Hists
<1>5. k = [h EXCEPT !.pushes[o][r] = h.pushes[o][r] + 1, !.landed = f]
  BY <1>1, <1>2, <1>4
<1> QED
  BY <1>3, <1>5, HistPushes

\* A dead viewer keeps nothing.
LEMMA DyingKeeps ==
    ASSUME IInv, NEW v \in Viewers, NEW o, run' = [run EXCEPT ![v] = Fresh],
           mem' = [mem EXCEPT ![v] = Blank], TypeOK', Frame(v, o), Spares(v, o),
           o \in Ops => OpOK(o)'
    PROVE  IInv'
<1>1. /\ run \in [Viewers -> Runs] /\ mem \in [Viewers -> Memories] /\ NoOp \notin Ops
  BY ComposeAssumption DEF IInv, TypeOK
<1>2. run'[v] = [Fresh EXCEPT !.said = NoOp] /\ mem'[v] = Blank
  BY <1>1, FreshSays
<1>3. run'[v].pc = "idle" /\ run'[v].said = NoOp
  BY <1>2 DEF Fresh
<1>4. MemoryOK(v)'
  BY <1>1, <1>2, <1>3 DEF MemoryOK, Blank, Confirming
<1>5. SayingOK(v)'
  BY <1>1, <1>2, <1>3 DEF SayingOK, Blank
<1> QED
  BY <1>2, <1>4, <1>5, EndingKeeps

LEMMA CrashKeeps ==
    ASSUME IInv, NEW v \in Viewers, Crash(v)
    PROVE  IInv'
<1>0. /\ TypeOK /\ NoOp \notin Ops /\ Nobody \notin Viewers /\ run[v] \in Runs /\ PlaceOK(v) /\ StageOK(v)
      /\ run \in [Viewers -> Runs] /\ mem \in [Viewers -> Memories] /\ hist \in Hists
  BY ComposeAssumption DEF IInv, TypeOK, ViewerOK, Hists
<1>1. /\ run' = [run EXCEPT ![v] = Fresh] /\ mem' = [mem EXCEPT ![v] = Blank]
      /\ owner' = (IF owner = v THEN Nobody ELSE owner)
      /\ resLock' = (IF resLock = v THEN Nobody ELSE resLock)
      /\ UNCHANGED <<receipt, gen, res, roots, litter, local, remote, stale, old>>
  BY DEF Crash, durable, world
<1>2. faults' \in 0..MaxFaults
  BY <1>0, FaultTyped DEF Crash, FaultKinds
<1>3. Fresh \in Runs
  BY FreshTyped, FreshSays
<1>4. Blank \in Memories
  BY DEF Blank, Memories
<1>5. /\ run' \in [Viewers -> Runs] /\ mem' \in [Viewers -> Memories]
      /\ owner' \in Viewers \cup {Nobody} /\ resLock' \in Viewers \cup {Nobody}
      /\ \A u \in Viewers \ {v} : /\ run'[u] = run[u] /\ mem'[u] = mem[u]
                                  /\ owner = u => owner' = u
                                  /\ resLock = u => resLock' = u
  BY <1>0, <1>1, <1>3, <1>4 DEF TypeOK
<1>6. \A p \in Ops : ~Claims(v, p)'
  <2>1. run'[v] = Fresh /\ mem'[v] = Blank
    BY <1>0, <1>1
  <2>2. run'[v].op = NoOp /\ mem'[v].held = NoOp
    BY <2>1 DEF Fresh, Blank
  <2> QED
    BY <1>0, <2>2 DEF Claims, GivesUp
<1>7. CASE UNCHANGED <<flight, hist>>
  <2>1. TypeOK'
    BY <1>0, <1>1, <1>2, <1>5, <1>7 DEF TypeOK
  <2>2. Frame(v, NoOp)
    BY <1>1, <1>5, <1>7 DEF Frame, Same
  <2>3. Spares(v, NoOp)
    BY <1>1, <1>6, <1>7 DEF Spares, Unstarted
  <2> QED
    BY <1>0, <1>1, <2>1, <2>2, <2>3, DyingKeeps
<1>8. CASE /\ run[v].pc = "push" /\ flight' = flight \cup {run[v].op}
           /\ hist' = [hist EXCEPT !.pushes[run[v].op][run[v].req] = @ + 1]
  <2>0. run[v].pc \in Delivering
    BY <1>8 DEF Delivering
  <2>1. PICK o \in Ops : o = run[v].op
    BY <2>0, AtWork
  <2>2. PICK r \in 0..MaxGen : r = run[v].req
    BY <1>0 DEF Runs
  <2>3. /\ owner = v /\ receipt[o] = "remote_attempt" /\ r < gen[o]
        /\ ReceiptOK(o) /\ DoneOK(o) /\ RecordOK(o) /\ gen[o] \in 0..MaxGen
    BY <1>0, <1>8, <2>0, <2>1, <2>2, AtWork DEF StageOK
  <2>4. hist' = [hist EXCEPT !.pushes[o][r] = @ + 1]
    BY <1>8, <2>1, <2>2
  <2>5. Pushed(hist, hist', o, r, hist.landed)
    BY <1>0, <2>4, PushesAlone
  <2>6. /\ hist' \in Hists /\ hist'.branches = hist.branches /\ hist'.commits = hist.commits
        /\ hist'.landed = hist.landed /\ hist'.vanished = hist.vanished
        /\ \A p \in Ops \ {o} : hist'.pushes[p] = hist.pushes[p]
        /\ \A g \in 0..MaxGen :
            hist'.pushes[o][g] = IF g = r THEN hist.pushes[o][g] + 1 ELSE hist.pushes[o][g]
    BY <2>5, SMTT(30) DEF Pushed
  <2>7. TypeOK'
    BY <1>0, <1>1, <1>2, <1>5, <1>8, <2>1, <2>6, ZenonT(60) DEF TypeOK, Hists
  <2>8. Frame(v, o)
    BY <1>1, <1>5, <2>6 DEF Frame, Same
  <2>9. Spares(v, o)
    BY <1>1, <1>6, <2>3, <2>6 DEF Spares, Unstarted
  <2>10. ReceiptOK(o)'
    BY <1>1, <2>3, <2>6 DEF ReceiptOK, Unstarted, Rooting, Forgetting, Early
  <2>11. DoneOK(o)'
    <3>1. \A g \in 1..MaxGen : g >= gen[o] => hist'.pushes[o][g] = 0
      BY <2>3, <2>6, ComposeAssumption DEF DoneOK
    <3>2. hist.commits[o] = 1 /\ hist.branches[o] = 1
      BY <2>3 DEF DoneOK, Published
    <3> QED
      BY <1>1, <2>3, <2>6, <3>1, <3>2 DEF DoneOK
  <2>12. OpOK(o)'
    BY <1>1, <2>3, <2>10, <2>11 DEF OpOK, RecordOK
  <2> QED
    BY <1>1, <2>7, <2>8, <2>9, <2>12, DyingKeeps
<1> QED
  BY <1>7, <1>8 DEF Crash, At

\* A step of the world: nothing a viewer relies on changes.
LEMMA WorldKeeps ==
    ASSUME IInv, TypeOK', UNCHANGED <<receipt, gen, res, roots, owner, resLock, run, mem>>,
           hist'.commits = hist.commits, hist'.branches = hist.branches, hist'.pushes = hist.pushes,
           hist.landed \subseteq hist'.landed, hist'.vanished = hist.vanished,
           \A o \in Ops : local'[o] = "commit" => local[o] = "commit",
           \A o \in Ops : remote'[o] = "commit" => remote[o] = "commit" \/ o \in hist'.landed
    PROVE  IInv'
<1>1. ASSUME NEW o \in Ops PROVE OpOK(o)'
  <2>1. RecordOK(o) /\ ReceiptOK(o) /\ DoneOK(o)
    BY DEF IInv, OpOK
  <2>2. ReceiptOK(o)'
    BY <2>1 DEF ReceiptOK, Unstarted, Unsent, Rooting, Forgetting
  <2>3. DoneOK(o)'
    BY <2>1 DEF DoneOK, Unsent
  <2> QED
    BY <2>1, <2>2, <2>3 DEF OpOK, RecordOK
<1>2. ASSUME NEW v \in Viewers PROVE ViewerOK(v)'
  <2>1. PlaceOK(v) /\ MemoryOK(v) /\ SayingOK(v) /\ HandsOK(v) /\ RetireOK(v) /\ StageOK(v)
    BY DEF IInv, ViewerOK
  <2>2. PlaceOK(v)' /\ HandsOK(v)'
    BY <2>1 DEF PlaceOK, HandsOK, Owning
  <2>3. MemoryOK(v)'
    BY <2>1 DEF MemoryOK, Unstarted
  <2>4. SayingOK(v)'
    BY <2>1 DEF SayingOK, Only, Claims, GivesUp, Unstarted
  <2>5. RetireOK(v)'
    BY <2>1 DEF RetireOK, GivesUp, Unstarted
  <2>6. StageOK(v)'
    BY <2>1 DEF StageOK, Unstarted, Rooting
  <2> QED
    BY <2>2, <2>3, <2>4, <2>5, <2>6 DEF ViewerOK
<1>3. Alone'
  BY DEF IInv, Alone, Claims, GivesUp
<1> QED
  BY <1>1, <1>2, <1>3 DEF IInv

LEMMA LandKeeps ==
    ASSUME IInv, NEW o \in Ops, Land(o)
    PROVE  IInv'
<1>1. TypeOK /\ hist \in Hists /\ remote \in [Ops -> Refs]
  BY DEF IInv, TypeOK, Hists
<1>2. UNCHANGED <<receipt, gen, res, roots, litter, owner, resLock, local, stale, old, run, mem, faults>>
  BY DEF Land, durable, locks, world
<1>3. PICK f \in SUBSET Ops : f = IF remote[o] = "absent" THEN hist.landed \cup {o} ELSE hist.landed
  BY <1>1 DEF Hists
<1>4. hist' = [hist EXCEPT !.landed = f]
  BY <1>3 DEF Land
<1>5. /\ hist' \in Hists /\ hist'.commits = hist.commits /\ hist'.branches = hist.branches
      /\ hist'.pushes = hist.pushes /\ hist'.landed = f /\ hist'.vanished = hist.vanished
  BY <1>1, <1>4 DEF Hists
<1>6. remote' = [remote EXCEPT ![o] = IF remote[o] = "absent" THEN "commit" ELSE remote[o]]
  BY DEF Land
<1>7. /\ remote' \in [Ops -> Refs]
      /\ \A p \in Ops : remote'[p] = "commit" => remote[p] = "commit" \/ p \in f
  BY <1>1, <1>3, <1>6 DEF Refs
<1>8. flight' \subseteq Ops
  BY <1>1 DEF Land, TypeOK
<1>9. TypeOK'
  BY <1>1, <1>2, <1>5, <1>7, <1>8 DEF TypeOK, Hists
<1> QED
  BY <1>2, <1>3, <1>5, <1>7, <1>9, WorldKeeps

LEMMA TouchKeeps ==
    ASSUME IInv,
           \/ \E o \in Ops : TouchLocal(o) \/ TouchRemote(o) \/ Age(o)
           \/ ChangeAuthority \/ Resolve
    PROVE  IInv'
<1>1. TypeOK
  BY DEF IInv
<1>2. /\ UNCHANGED <<receipt, gen, res, roots, owner, resLock, run, mem, flight, hist>>
  BY DEF TouchLocal, TouchRemote, Age, ChangeAuthority, Resolve, durable, locks, git
<1>3. faults' \in 0..MaxFaults
  BY <1>1, FaultTyped DEF TouchLocal, TouchRemote, Age, ChangeAuthority, Resolve, FaultKinds, TypeOK
<1>4. ASSUME NEW o \in Ops, TouchLocal(o) PROVE IInv'
  <2>1. UNCHANGED <<litter, remote, stale, old>>
    BY <1>4 DEF TouchLocal, durable, world
  <2>2. PICK r \in {"absent", "other"} : local' = [local EXCEPT ![o] = r]
    BY <1>4 DEF TouchLocal
  <2>3. local' \in [Ops -> Refs] /\ \A p \in Ops : local'[p] = "commit" => local[p] = "commit"
    BY <1>1, <2>2 DEF TypeOK, Refs
  <2>4. TypeOK'
    BY <1>1, <1>2, <1>3, <2>1, <2>3 DEF TypeOK
  <2> QED
    BY <1>2, <2>1, <2>3, <2>4, WorldKeeps
<1>5. ASSUME NEW o \in Ops, TouchRemote(o) PROVE IInv'
  <2>1. UNCHANGED <<litter, local, stale, old>>
    BY <1>5 DEF TouchRemote, durable, world
  <2>2. PICK r \in {"absent", "other"} : remote' = [remote EXCEPT ![o] = r]
    BY <1>5 DEF TouchRemote
  <2>3. remote' \in [Ops -> Refs] /\ \A p \in Ops : remote'[p] = "commit" => remote[p] = "commit"
    BY <1>1, <2>2 DEF TypeOK, Refs
  <2>4. TypeOK'
    BY <1>1, <1>2, <1>3, <2>1, <2>3 DEF TypeOK
  <2> QED
    BY <1>2, <2>1, <2>3, <2>4, WorldKeeps
<1>6. CASE (\E o \in Ops : Age(o)) \/ ChangeAuthority \/ Resolve
  <2>1. /\ UNCHANGED <<local, remote>> /\ litter' \subseteq {"receipts", "resources"}
        /\ stale' \in BOOLEAN /\ old' \subseteq Ops
    BY <1>1, <1>6 DEF Age, ChangeAuthority, Resolve, durable, git, world, TypeOK
  <2>2. TypeOK'
    BY <1>1, <1>2, <1>3, <2>1 DEF TypeOK
  <2> QED
    BY <1>2, <2>1, <2>2, WorldKeeps
<1> QED
  BY <1>4, <1>5, <1>6

\* No request is under way that holds owner.lock, so nobody relies on the
\* receipt that goes missing.
LEMMA VanishKeeps ==
    ASSUME IInv, NEW o \in Ops, Vanish(o)
    PROVE  IInv'
<1>1. TypeOK /\ hist \in Hists /\ receipt \in [Ops -> Stages] /\ "none" \in Stages /\ Nobody \notin Viewers
  BY ComposeAssumption DEF IInv, TypeOK, Hists, Stages
<1>2. /\ UNCHANGED <<gen, res, roots, litter, owner, resLock, local, remote, flight, stale, old, run, mem>>
      /\ owner = Nobody /\ res[o].commit # "none" /\ receipt' = [receipt EXCEPT ![o] = "none"]
      /\ receipt[o] # "none"
  BY DEF Vanish, locks, git, world
<1>3. faults' \in 0..MaxFaults
  BY <1>1, FaultTyped DEF Vanish, FaultKinds
<1>4. PICK f \in SUBSET Ops : f = hist.vanished \cup {o}
  BY <1>1 DEF Hists
<1>5. hist' = [hist EXCEPT !.vanished = f]
  BY <1>4 DEF Vanish
<1>6. /\ hist' \in Hists /\ hist'.commits = hist.commits /\ hist'.branches = hist.branches
      /\ hist'.pushes = hist.pushes /\ hist'.landed = hist.landed /\ hist'.vanished = f
  BY <1>1, <1>5 DEF Hists
<1>7. /\ receipt' \in [Ops -> Stages] /\ receipt'[o] = "none"
      /\ \A p \in Ops \ {o} : receipt'[p] = receipt[p]
  BY <1>1, <1>2
<1>8. TypeOK'
  BY <1>1, <1>2, <1>3, <1>6, <1>7 DEF TypeOK, Hists
<1>9. ASSUME NEW p \in Ops PROVE OpOK(p)'
  <2>1. RecordOK(p) /\ ReceiptOK(p) /\ DoneOK(p)
    BY DEF IInv, OpOK
  <2>2. ReceiptOK(p)'
    <3>1. CASE p = o
      BY <1>2, <1>4, <1>6, <1>7, <2>1, <3>1 DEF ReceiptOK, Unstarted, Early
    <3>2. CASE p # o
      BY <1>2, <1>4, <1>6, <1>7, <2>1, <3>2 DEF ReceiptOK, Unstarted, Unsent, Rooting, Forgetting
    <3> QED
      BY <3>1, <3>2
  <2>3. DoneOK(p)'
    BY <1>2, <1>6, <1>7, <2>1 DEF DoneOK, Unsent, Published
  <2> QED
    BY <1>2, <2>1, <2>2, <2>3 DEF OpOK, RecordOK
<1>10. \A p \in Ops : Unstarted(p) => Unstarted(p)'
  BY <1>6, <1>7 DEF Unstarted
<1>11. ASSUME NEW v \in Viewers PROVE ViewerOK(v)'
  <2>1. /\ PlaceOK(v) /\ MemoryOK(v) /\ SayingOK(v) /\ HandsOK(v) /\ RetireOK(v) /\ StageOK(v)
        /\ run[v] \in Runs /\ mem[v] \in Memories
    BY <1>1 DEF IInv, ViewerOK, TypeOK
  <2>2. run[v].job \in Unowned /\ run[v].pc \in UnownedPoints /\ run[v].pc # "list"
    BY <1>1, <1>2, <2>1 DEF PlaceOK, Owning
  <2>3. PlaceOK(v)' /\ HandsOK(v)'
    BY <1>2, <2>1 DEF PlaceOK, HandsOK, Owning
  <2>4. MemoryOK(v)'
    <3>1. mem[v].kind \in {"previewed", "releasing"} => mem[v].held \in Ops
      BY <2>1 DEF MemoryOK, Memories
    <3>2. PICK p \in Ops \cup {NoOp} : p = mem[v].held
      BY <2>1 DEF Memories
    <3>3. mem[v].kind \in {"previewed", "releasing"} => Unstarted(p)'
      BY <1>10, <2>1, <3>1, <3>2 DEF MemoryOK
    <3> QED
      BY <1>2, <2>1, <3>2, <3>3 DEF MemoryOK, Unstarted
  <2>5. SayingOK(v)'
    <3>1. ASSUME NEW p \in Ops
          PROVE  /\ Only(v, p) => Only(v, p)'
                 /\ Unstarted(p) \/ p \in hist.vanished => Unstarted(p)' \/ p \in hist'.vanished
                 /\ (\A u \in Viewers : ~Claims(u, p)) => \A u \in Viewers : ~Claims(u, p)'
      BY <1>2, <1>4, <1>6, <1>10 DEF Only, Claims, GivesUp
    <3>2. PICK s \in Ops \cup {NoOp} : s = run[v].said
      BY <2>1 DEF Runs
    <3>3. PICK t \in Ops \cup {NoOp} : t = mem[v].receiptless
      BY <2>1 DEF Memories
    <3>4. s \in Ops => Only(v, s)' /\ (Unstarted(s)' \/ s \in hist'.vanished)
      BY <2>1, <3>1, <3>2 DEF SayingOK
    <3>5. t \in Ops => Only(v, t)' /\ (Unstarted(t)' \/ t \in hist'.vanished)
      BY <2>1, <2>2, <3>1, <3>3 DEF SayingOK, Unowned
    <3>6. \A p \in mem[v].unpublished :
             res'[p].state # "none" /\ Unstarted(p)' /\ \A u \in Viewers : ~Claims(u, p)'
      BY <1>2, <1>10, <2>1, <3>1 DEF SayingOK, Memories
    <3>7. SayingOK(v)' <=>
            /\ s \in Ops => Only(v, s)' /\ (Unstarted(s)' \/ s \in hist'.vanished)
            /\ \A p \in mem[v].unpublished :
                  res'[p].state # "none" /\ Unstarted(p)' /\ \A w \in Viewers : ~Claims(w, p)'
            /\ t \in Ops =>
                  /\ Only(v, t)'
                  /\ \/ Unstarted(t)' \/ t \in hist'.vanished
                     \/ run[v].op = t /\ run[v].job = "confirm" /\ run[v].pc \in Going
      BY <1>2, <3>2, <3>3 DEF SayingOK, Only, Unstarted
    <3> QED
      BY <3>4, <3>5, <3>6, <3>7
  <2>6. RetireOK(v)'
    <3>1. run[v].job \notin {"cleanup", "forget", "resources"}
      BY <2>2 DEF Unowned
    <3>2. PICK p \in Ops \cup {NoOp} : p = run[v].op
      BY <2>1 DEF Runs
    <3>3. p \in Ops /\ GivesUp(v, p) => Unstarted(p)' /\ (res[p].state # "none" \/ run[v].pc = "cap_record")
      BY <1>10, <2>1, <3>2 DEF RetireOK
    <3>4. run[v].pc # "remove"
      BY <2>2 DEF UnownedPoints
    <3> QED
      BY <1>2, <2>1, <3>1, <3>2, <3>3, <3>4 DEF RetireOK, GivesUp, Unstarted
  <2>7. StageOK(v)'
    BY <1>2, <2>2 DEF StageOK, UnownedPoints
  <2> QED
    BY <2>3, <2>4, <2>5, <2>6, <2>7 DEF ViewerOK
<1>12. Alone'
  BY <1>2 DEF IInv, Alone, Claims, GivesUp
<1> QED
  BY <1>8, <1>9, <1>11, <1>12 DEF IInv
-----------------------------------------------------------------------------
(* The invariant.                                                           *)

LEMMA InitInvariant ==
    ASSUME Init
    PROVE  IInv
<1>0. /\ NoOp \notin Ops /\ Nobody \notin Viewers /\ MaxGen \in Nat /\ MaxFaults \in Nat
  BY ComposeAssumption
<1>1. Fresh \in Runs /\ Blank \in Memories
  BY FreshTyped, FreshSays DEF Blank, Memories
<1>2. NoResource \in Resources
  BY DEF NoResource, Resources, Pins
<1>3. "none" \in Stages /\ "absent" \in Refs /\ 0 \in 0..MaxGen
  BY <1>0 DEF Stages, Refs
<1>4. /\ hist.commits = [o \in Ops |-> 0] /\ hist.branches = [o \in Ops |-> 0]
      /\ hist.pushes = [o \in Ops |-> [g \in 0..MaxGen |-> 0]] /\ hist.landed = {} /\ hist.vanished = {}
      /\ hist \in Hists
  BY DEF Init, Hists
<1>5. TypeOK
  <2>1. /\ receipt \in [Ops -> Stages] /\ gen \in [Ops -> 0..MaxGen]
        /\ res \in [Ops -> Resources] /\ roots \in [Ops -> SUBSET PinKinds]
    BY <1>2, <1>3 DEF Init
  <2>2. /\ local \in [Ops -> Refs] /\ remote \in [Ops -> Refs]
        /\ run \in [Viewers -> Runs] /\ mem \in [Viewers -> Memories]
    BY <1>1, <1>3 DEF Init
  <2>3. /\ litter \subseteq {"receipts", "resources"} /\ flight \subseteq Ops /\ old \subseteq Ops
        /\ owner \in Viewers \cup {Nobody} /\ resLock \in Viewers \cup {Nobody}
        /\ stale \in BOOLEAN
    BY DEF Init
  <2>4. faults \in 0..MaxFaults
    BY <1>0 DEF Init
  <2> QED
    BY <1>4, <2>1, <2>2, <2>3, <2>4 DEF TypeOK, Hists
<1>6. ASSUME NEW o \in Ops PROVE OpOK(o)
  <2>1. /\ receipt[o] = "none" /\ gen[o] = 0 /\ res[o] = NoResource /\ roots[o] = {}
        /\ local[o] = "absent" /\ remote[o] = "absent"
    BY DEF Init
  <2>2. hist.commits[o] = 0 /\ hist.branches[o] = 0 /\ \A g \in 0..MaxGen : hist.pushes[o][g] = 0
    BY <1>4
  <2>3. RecordOK(o)
    BY <2>1 DEF RecordOK, Sound, Shape, NoResource
  <2>4. ReceiptOK(o)
    BY <2>1, <2>2 DEF ReceiptOK, Unstarted, Early, NoResource
  <2>5. DoneOK(o)
    BY <1>0, <2>1, <2>2 DEF DoneOK, Unsent, Published
  <2> QED
    BY <2>3, <2>4, <2>5 DEF OpOK
<1>7. ASSUME NEW v \in Viewers PROVE ViewerOK(v)
  <2>1. run[v] = Fresh /\ mem[v] = Blank
    BY DEF Init
  <2>2. /\ run[v].pc = "idle" /\ run[v].job = "none" /\ run[v].op = NoOp /\ run[v].said = NoOp
        /\ mem[v].kind = "none" /\ mem[v].held = NoOp /\ mem[v].unpublished = {}
        /\ mem[v].receiptless = NoOp
    BY <2>1 DEF Fresh, Blank
  <2>3. PlaceOK(v)
    BY <2>2 DEF PlaceOK, Owning, Unowned, UnownedPoints, Locking, Retiring, Capturing, Confirming,
                Publishing, Delivering
  <2>4. MemoryOK(v) /\ SayingOK(v)
    BY <1>0, <2>2 DEF MemoryOK, SayingOK, Confirming
  <2>5. HandsOK(v) /\ RetireOK(v) /\ StageOK(v)
    BY <1>0, <2>2 DEF HandsOK, RetireOK, StageOK, GivesUp, Giving, Capturing, Retiring
  <2> QED
    BY <2>3, <2>4, <2>5 DEF ViewerOK
<1>8. Alone
  BY <1>0 DEF Init, Alone, Claims, GivesUp, Fresh, Blank
<1> QED
  BY <1>5, <1>6, <1>7, <1>8 DEF IInv

\* A step of a request keeps it.
LEMMA StepInvariant ==
    ASSUME IInv, NEW v \in Viewers, Step(v)
    PROVE  IInv'
<1>1. CASE \/ StartRetirement(v) \/ RetireSnapshot(v) \/ RetireBase(v) \/ RetireCommit(v)
           \/ EndRetirement(v) \/ Retired(v) \/ Unretired(v)
  BY <1>1, StartRetirementKeeps, RetireSnapshotKeeps, RetireBaseKeeps, RetireCommitKeeps,
     EndRetirementKeeps, RetiredKeeps, UnretiredKeeps
<1>2. CASE Capture(v) \/ BeginRecord(v) \/ PinBase(v) \/ Seal(v) \/ AdmitBase(v)
  BY <1>2, CaptureKeeps, BeginRecordKeeps, PinBaseKeeps, SealKeeps, AdmitBaseKeeps
<1>3. CASE (\E o \in Ops : ListOne(v, o)) \/ Unlisted(v) \/ Gated(v) \/ Handle(v) \/ Load(v)
  BY <1>3, ListOneKeeps, UnlistedKeeps, GatedKeeps, HandleKeeps, LoadKeeps
<1>4. CASE \/ Preparing(v) \/ CommitTree(v) \/ CommitKnown(v) \/ PinCommit(v) \/ Prepared(v)
           \/ PublishLocal(v) \/ LocalAttempt(v) \/ Install(v) \/ LocalPublished(v)
  BY <1>4, PreparingKeeps, CommitTreeKeeps, CommitKnownKeeps, PinCommitKeeps, PreparedKeeps,
     PublishLocalKeeps, LocalAttemptKeeps, InstallKeeps, LocalPublishedKeeps
<1>5. CASE \/ PublishRemote(v) \/ RemoteAttempt(v) \/ Authorize(v) \/ Push(v)
           \/ RemoteDelivered(v) \/ Resume(v) \/ Regenerate(v) \/ Reobserve(v)
  BY <1>5, PublishRemoteKeeps, RemoteAttemptKeeps, AuthorizeKeeps, PushKeeps, RemoteDeliveredKeeps,
     ResumeKeeps, RegenerateKeeps, ReobserveKeeps
<1>6. CASE RemoveReceipt(v) \/ Report(v) \/ Finish(v) \/ Answer(v) \/ AnswerRefused(v)
  BY <1>6, RemoveReceiptKeeps, ReportKeeps, FinishKeeps, AnswerKeeps, AnswerRefusedKeeps
<1> QED
  BY <1>1, <1>2, <1>3, <1>4, <1>5, <1>6 DEF Step

LEMMA AskInvariant ==
    ASSUME IInv, NEW v \in Viewers, Ask(v)
    PROVE  IInv'
<1>1. CASE Preview(v)
  BY <1>1, PreviewKeeps
<1>2. ASSUME NEW o \in Ops,
             \/ Confirm(v, o) \/ Recover(v, o) \/ Retry(v, o) \/ Cleanup(v, o)
             \/ Forget(v, o) \/ RecoverResources(v, o) \/ Alternative(v, o)
      PROVE  IInv'
  BY <1>2, ConfirmKeeps, RecoverKeeps, CleanupKeeps, ForgetKeeps, RecoverResourcesKeeps,
     AlternativeKeeps
<1>3. ASSUME NEW o \in Ops, NEW g \in 0..MaxGen, Republish(v, o, g) PROVE IInv'
  BY <1>3, RepublishKeeps
<1> QED
  BY <1>1, <1>2, <1>3 DEF Ask

\* So does what happens around the viewers.
LEMMA AroundInvariant ==
    ASSUME IInv, Around
    PROVE  IInv'
<1>1. ASSUME NEW v \in Viewers, Crash(v) PROVE IInv'
  BY <1>1, CrashKeeps
<1>2. ASSUME NEW o \in Ops, Land(o) \/ Vanish(o) PROVE IInv'
  BY <1>2, LandKeeps, VanishKeeps
<1>3. CASE \/ \E o \in Ops : TouchLocal(o) \/ TouchRemote(o) \/ Age(o)
           \/ ChangeAuthority \/ Resolve
  BY <1>3, TouchKeeps
<1> QED
  BY <1>1, <1>2, <1>3 DEF Around

LEMMA StutterInvariant ==
    ASSUME IInv, UNCHANGED vars
    PROVE  IInv'
<1>1. UNCHANGED <<receipt, gen, res, roots, litter, owner, resLock, local, remote, flight, stale,
                  old, run, mem, faults, hist>>
  BY DEF vars, durable, locks, git, world
<1>2. TypeOK'
  BY <1>1 DEF IInv, TypeOK
<1> QED
  BY <1>1, <1>2, WorldKeeps

\* IInv is inductive.
LEMMA NextInvariant ==
    ASSUME IInv, [Next]_vars
    PROVE  IInv'
<1>1. CASE Next
  BY <1>1, StepInvariant, AskInvariant, AroundInvariant DEF Next
<1>2. CASE UNCHANGED vars
  BY <1>2, StutterInvariant
<1> QED
  BY <1>1, <1>2

\* IInv holds in every reachable state.
THEOREM Invariance == Spec => []IInv
<1>1. Init => IInv
  BY InitInvariant
<1>2. IInv /\ [Next]_vars => IInv'
  BY NextInvariant
<1> QED
  BY <1>1, <1>2, PTL DEF Spec
-----------------------------------------------------------------------------
(* What the invariant says of the properties the runs check.                *)

\* Every resource record any transition writes passes Resources::validate,
\* and every variable keeps its type, however many viewers, operations and
\* faults there are.
THEOREM RecordsStayValid == Spec => []ShapeValid
<1>1. IInv => ShapeValid
  <2> SUFFICES ASSUME IInv PROVE ShapeValid
    OBVIOUS
  <2>1. TypeOK
    BY DEF IInv
  <2>2. ASSUME NEW o \in Ops PROVE Shape(res[o])
    BY DEF IInv, OpOK, RecordOK, Sound
  <2> QED
    BY <2>1, <2>2 DEF ShapeValid, Shape
<1> QED
  BY <1>1, Invariance, PTL

\* A private ref that exists is one its operation's record names and has not
\* recorded as retired: no interruption of a capture, a pin or a retirement
\* orphans a root.
THEOREM NoRootOrphaned == Spec => []NoOrphanRoot
<1>1. IInv => NoOrphanRoot
  <2> SUFFICES ASSUME IInv, NEW o \in Ops, NEW k \in roots[o]
               PROVE  res[o][k] \in {"intent", "owned"}
    BY DEF NoOrphanRoot
  <2>1. k = "base" \/ k = "commit"
    BY DEF IInv, TypeOK, PinKinds
  <2>2. Sound(res[o], roots[o])
    BY DEF IInv, OpOK, RecordOK
  <2> QED
    BY <2>1, <2>2 DEF Sound
<1> QED
  BY <1>1, Invariance, PTL

\* A prepared operation's exact commit keeps an acknowledged root until its
\* delivery is authorized, and after that until the receipt is forgotten.
THEOREM PreparedStaysRooted == Spec => []CommitRooted
<1>1. IInv => CommitRooted
  <2> SUFFICES ASSUME IInv, NEW o \in Ops
               PROVE  /\ receipt[o] \in {"prepared", "local_attempt", "local_published"} => Rooting(o)
                      /\ receipt[o] \in {"remote_attempt", "remote_delivered"} =>
                            Rooting(o) \/ Forgetting(o)
    BY DEF CommitRooted, Rooting, Forgetting
  <2> QED
    BY DEF IInv, OpOK, ReceiptOK
<1> QED
  BY <1>1, Invariance, PTL

\* A receipt says delivered only of a commit the remote has held, whatever
\* pushes are still under way and whoever moves the branches.
THEOREM DeliveredIsTrue == Spec => []DeliveredHappened
<1>1. IInv => DeliveredHappened
  BY DEF IInv, OpOK, DoneOK, DeliveredHappened
<1> QED
  BY <1>1, Invariance, PTL

\* An answer that says nothing was published is true of the receipt, the
\* commit and the branch, and stays true while it is the last answer.
THEOREM NothingPublishedIsTrue == Spec => []NothingPublished
<1>1. IInv => NothingPublished
  <2> SUFFICES ASSUME IInv, NEW v \in Viewers, run[v].said \in Ops \ hist.vanished
               PROVE  /\ receipt[run[v].said] = "none" /\ hist.commits[run[v].said] = 0
                      /\ hist.branches[run[v].said] = 0
    BY DEF NothingPublished
  <2>1. PICK o \in Ops : o = run[v].said /\ o \notin hist.vanished
    OBVIOUS
  <2>2. Unstarted(o)
    BY <2>1 DEF IInv, ViewerOK, SayingOK
  <2>3. DoneOK(o)
    BY DEF IInv, OpOK
  <2> QED
    BY <2>1, <2>2, <2>3 DEF Unstarted, DoneOK
<1> QED
  BY <1>1, Invariance, PTL

\* A handle some workflow recorded as given up unpublished has no receipt and
\* no commit from then on, whatever any viewer is asked to do with it.
THEOREM GivenUpStaysUnpublished == Spec => []GivenUpIsFinal
<1>1. IInv => GivenUpIsFinal
  <2> SUFFICES ASSUME IInv, NEW v \in Viewers, NEW o \in mem[v].unpublished
               PROVE  receipt[o] = "none" /\ hist.commits[o] = 0
    BY DEF GivenUpIsFinal
  <2> QED
    BY DEF IInv, ViewerOK, SayingOK, Unstarted
<1> QED
  BY <1>1, Invariance, PTL
-----------------------------------------------------------------------------
(* The publisher does what Publication promises.                            *)

\* Only three steps of a request do anything that cannot be undone.
LEMMA StepsThatCount ==
    ASSUME NEW v \in Viewers, Step(v)
    PROVE  hist' = hist \/ CommitTree(v) \/ Install(v) \/ Push(v)
<1>1. CASE \/ StartRetirement(v) \/ RetireSnapshot(v) \/ RetireBase(v) \/ RetireCommit(v)
           \/ EndRetirement(v) \/ Retired(v) \/ Unretired(v)
  BY <1>1 DEF StartRetirement, RetireSnapshot, RetireBase, RetireCommit, RetirePin, EndRetirement,
              Retired, Unretired
<1>2. CASE Capture(v) \/ BeginRecord(v) \/ PinBase(v) \/ Seal(v) \/ AdmitBase(v)
  BY <1>2 DEF Capture, BeginRecord, PinBase, PinIntent, PinRef, PinOwn, Seal, AdmitBase
<1>3. CASE (\E o \in Ops : ListOne(v, o)) \/ Unlisted(v) \/ Gated(v) \/ Handle(v) \/ Load(v)
  BY <1>3 DEF ListOne, Unlisted, Gated, Handle, Load
<1>4. CASE \/ Preparing(v) \/ CommitTree(v) \/ CommitKnown(v) \/ PinCommit(v) \/ Prepared(v)
           \/ PublishLocal(v) \/ LocalAttempt(v) \/ Install(v) \/ LocalPublished(v)
  BY <1>4 DEF Preparing, CommitKnown, PinCommit, PinIntent, PinRef, PinOwn, Prepared, PublishLocal,
              LocalAttempt, LocalPublished
<1>5. CASE \/ PublishRemote(v) \/ RemoteAttempt(v) \/ Authorize(v) \/ Push(v)
           \/ RemoteDelivered(v) \/ Resume(v) \/ Regenerate(v) \/ Reobserve(v)
  BY <1>5 DEF PublishRemote, RemoteAttempt, Authorize, RemoteDelivered, Resume, Regenerate, Reobserve
<1>6. CASE RemoveReceipt(v) \/ Report(v) \/ Finish(v) \/ Answer(v) \/ AnswerRefused(v)
  BY <1>6 DEF RemoveReceipt, Report, Finish, Answer, AnswerRefused
<1> QED
  BY <1>1, <1>2, <1>3, <1>4, <1>5, <1>6, SMTT(30) DEF Step

\* A new request does nothing yet.
LEMMA AsksDoNothing ==
    ASSUME NEW v \in Viewers, Ask(v)
    PROVE  hist' = hist
BY DEF Ask, Preview, Confirm, Recover, Retry, Cleanup, Forget, RecoverResources, Alternative,
       Republish, OpenFor

\* commit-tree runs once for a reviewed candidate.
LEMMA CommitPromised ==
    ASSUME IInv, NEW v \in Viewers, CommitTree(v)
    PROVE  P!PubNext
<1>0. run[v].pc = "commit_tree" /\ "commit_tree" \in Confirming
  BY DEF CommitTree, At, Confirming
<1>1. PICK o \in Ops : o = run[v].op
  BY <1>0, AtWork
<1>2. hist.commits[o] = 0 /\ hist \in Hists
  BY <1>0, <1>1, AtWork DEF StageOK, IInv, TypeOK, Hists
<1>3. hist' = [hist EXCEPT !.commits[o] = @ + 1]
  BY <1>1 DEF CommitTree
<1>4. /\ hist'.commits = [hist.commits EXCEPT ![o] = hist.commits[o] + 1]
      /\ hist'.branches = hist.branches /\ hist'.pushes = hist.pushes
  BY <1>2, <1>3, HistCommits
<1>5. P!MakeCommit(o)
  BY <1>2, <1>4 DEF P!MakeCommit
<1> QED
  BY <1>5 DEF P!PubNext

\* The branch is created once, and after the commit.
LEMMA InstallPromised ==
    ASSUME IInv, NEW v \in Viewers, Install(v)
    PROVE  P!PubNext \/ hist' = hist
<1>0. run[v].pc = "install" /\ "install" \in Publishing
  BY DEF Install, At, Publishing
<1>1. PICK o \in Ops : o = run[v].op
  BY <1>0, AtWork
<1>2. /\ receipt[o] = "local_attempt" /\ hist.branches[o] = 0 /\ DoneOK(o) /\ hist \in Hists
  BY <1>0, <1>1, AtWork DEF StageOK, IInv, TypeOK, Hists
<1>3. hist.commits[o] = 1
  BY <1>2 DEF DoneOK
<1>4. CASE hist' = [hist EXCEPT !.branches[o] = @ + 1]
  <2>1. /\ hist'.branches = [hist.branches EXCEPT ![o] = hist.branches[o] + 1]
        /\ hist'.commits = hist.commits /\ hist'.pushes = hist.pushes
    BY <1>2, <1>4, HistBranches
  <2>2. P!CreateBranch(o)
    BY <1>2, <1>3, <2>1 DEF P!CreateBranch
  <2> QED
    BY <2>2 DEF P!PubNext
<1> QED
  BY <1>1, <1>4 DEF Install

\* What one push adds to the pushes made.
LEMMA OnePush ==
    ASSUME NEW h \in Hists, NEW k, NEW o \in Ops, NEW r \in 0..MaxGen, NEW f,
           Pushed(h, k, o, r, f), h.pushes[o][r] = 0
    PROVE  k.pushes = [h.pushes EXCEPT ![o][r] = 1]
<1>1. /\ h.pushes \in [Ops -> [0..MaxGen -> Nat]] /\ k.pushes \in [Ops -> [0..MaxGen -> Nat]]
  BY DEF Pushed, Hists
<1>2. PICK a : a = h.pushes
  OBVIOUS
<1>3. PICK b : b = k.pushes
  OBVIOUS
<1>4. /\ a \in [Ops -> [0..MaxGen -> Nat]] /\ b \in [Ops -> [0..MaxGen -> Nat]] /\ a[o][r] = 0
      /\ \A p \in Ops \ {o} : b[p] = a[p]
      /\ \A g \in 0..MaxGen : b[o][g] = IF g = r THEN a[o][g] + 1 ELSE a[o][g]
  BY <1>1, <1>2, <1>3 DEF Pushed
<1>5. b[o] = [a[o] EXCEPT ![r] = 1]
  <2>1. /\ a[o] \in [0..MaxGen -> Nat] /\ b[o] \in [0..MaxGen -> Nat]
    BY <1>4
  <2>2. \A g \in 0..MaxGen : b[o][g] = [a[o] EXCEPT ![r] = 1][g]
    BY <1>4, <2>1
  <2> QED
    BY <2>1, <2>2
<1>6. b = [a EXCEPT ![o] = [a[o] EXCEPT ![r] = 1]]
  BY <1>4, <1>5
<1> QED
  BY <1>2, <1>3, <1>6

\* A push has an authorization of its own, and a branch that was created.
LEMMA PushPromised ==
    ASSUME IInv, NEW v \in Viewers, run[v].pc = "push", NEW f,
           NEW o \in Ops, o = run[v].op, NEW r \in 0..MaxGen, r = run[v].req,
           Pushed(hist, hist', o, r, f)
    PROVE  P!PubNext
<1>0. "push" \in Delivering
  BY DEF Delivering
<1>2. /\ receipt[o] = "remote_attempt" /\ hist.pushes[o][r] = 0 /\ DoneOK(o) /\ hist \in Hists
  BY <1>0, AtWork DEF StageOK, IInv, TypeOK, Hists
<1>3. hist.branches[o] = 1
  BY <1>2 DEF DoneOK, Published
<1>4. hist'.pushes = [hist.pushes EXCEPT ![o][r] = 1]
  BY <1>2, OnePush
<1>5. hist'.commits = hist.commits /\ hist'.branches = hist.branches
  BY DEF Pushed
<1>6. P!SendPush(o, r)
  BY <1>2, <1>3, <1>4, <1>5 DEF P!SendPush
<1> QED
  BY <1>6 DEF P!PubNext

LEMMA DeliveryPromised ==
    ASSUME IInv, NEW v \in Viewers, Push(v)
    PROVE  P!PubNext
<1>0. run[v].pc = "push" /\ "push" \in Delivering
  BY DEF Push, At, Delivering
<1>1. PICK o \in Ops : o = run[v].op
  BY <1>0, AtWork
<1>2. hist \in Hists /\ run[v] \in Runs
  BY DEF IInv, TypeOK, Hists
<1>r. PICK r \in 0..MaxGen : r = run[v].req
  BY <1>2 DEF Runs
<1>f. PICK f \in SUBSET Ops : f = IF remote'[o] = "commit" THEN hist.landed \cup {o} ELSE hist.landed
  BY DEF IInv, TypeOK
<1>3. hist' = [hist EXCEPT !.pushes[o][r] = hist.pushes[o][r] + 1, !.landed = f]
  BY <1>1, <1>r, <1>f DEF Push
<1>4. Pushed(hist, hist', o, r, f)
  BY <1>2, <1>3, HistPushes
<1> QED
  BY <1>0, <1>1, <1>r, <1>4, PushPromised

\* A viewer that dies while it pushes may have made that push.
LEMMA DeathPromised ==
    ASSUME IInv, NEW v \in Viewers, Crash(v)
    PROVE  P!PubNext \/ hist' = hist
<1>1. CASE /\ run[v].pc = "push"
           /\ hist' = [hist EXCEPT !.pushes[run[v].op][run[v].req] = @ + 1]
  <2>0. run[v].pc \in Delivering
    BY <1>1 DEF Delivering
  <2>1. PICK o \in Ops : o = run[v].op
    BY <2>0, AtWork
  <2>2. hist \in Hists /\ run[v] \in Runs
    BY DEF IInv, TypeOK, Hists
  <2>3. PICK r \in 0..MaxGen : r = run[v].req
    BY <2>2 DEF Runs
  <2>4. hist' = [hist EXCEPT !.pushes[o][r] = @ + 1]
    BY <1>1, <2>1, <2>3
  <2>5. Pushed(hist, hist', o, r, hist.landed)
    BY <2>2, <2>4, PushesAlone
  <2> QED
    BY <1>1, <2>1, <2>3, <2>5, PushPromised
<1> QED
  BY <1>1 DEF Crash, At

\* What the remote does with a push it received, and what goes missing, is
\* not something the publisher did.
LEMMA WorldPromised ==
    ASSUME IInv, \/ \E o \in Ops : Land(o) \/ TouchLocal(o) \/ TouchRemote(o) \/ Age(o) \/ Vanish(o)
                 \/ ChangeAuthority \/ Resolve
    PROVE  UNCHANGED <<hist.commits, hist.branches, hist.pushes>>
<1>1. hist \in Hists
  BY DEF IInv, TypeOK, Hists
<1>2. ASSUME NEW o \in Ops, Land(o)
      PROVE  UNCHANGED <<hist.commits, hist.branches, hist.pushes>>
  BY <1>1, <1>2 DEF Land, Hists
<1>3. ASSUME NEW o \in Ops, Vanish(o)
      PROVE  UNCHANGED <<hist.commits, hist.branches, hist.pushes>>
  BY <1>1, <1>3 DEF Vanish, Hists
<1>4. CASE (\E o \in Ops : TouchLocal(o) \/ TouchRemote(o) \/ Age(o)) \/ ChangeAuthority \/ Resolve
  BY <1>4 DEF TouchLocal, TouchRemote, Age, ChangeAuthority, Resolve
<1> QED
  BY <1>2, <1>3, <1>4

\* Every step is one Publication allows, or nothing to it.
LEMMA NextPromised ==
    ASSUME IInv, [Next]_vars
    PROVE  [P!PubNext]_(P!pubVars)
<1>1. ASSUME NEW v \in Viewers, Step(v) PROVE P!PubNext \/ hist' = hist
  BY <1>1, StepsThatCount, CommitPromised, InstallPromised, DeliveryPromised
<1>2. ASSUME NEW v \in Viewers, Ask(v) PROVE hist' = hist
  BY <1>2, AsksDoNothing
<1>3. CASE Around
  <2>1. ASSUME NEW v \in Viewers, Crash(v) PROVE P!PubNext \/ hist' = hist
    BY <2>1, DeathPromised
  <2>2. CASE \/ \E o \in Ops : Land(o) \/ TouchLocal(o) \/ TouchRemote(o) \/ Age(o) \/ Vanish(o)
             \/ ChangeAuthority \/ Resolve
    BY <2>2, WorldPromised DEF P!pubVars
  <2> QED
    BY <1>3, <2>1, <2>2 DEF Around, P!pubVars
<1>4. CASE UNCHANGED vars
  BY <1>4 DEF vars, P!pubVars
<1> QED
  BY <1>1, <1>2, <1>3, <1>4 DEF Next, P!pubVars

LEMMA InitPromised ==
    ASSUME Init
    PROVE  P!PubInit
BY DEF Init, P!PubInit

\* The publisher implements Publication: for every candidate one commit, one
\* branch creation after it, and one push for each authorization, through any
\* deaths, lost answers, failed writes, moved branches, vanished receipts and
\* repeated requests.
THEOREM PublisherKeepsItsPromise == Spec => Promised
<1>1. Init => P!PubInit
  BY InitPromised
<1>2. IInv /\ [Next]_vars => [P!PubNext]_(P!pubVars)
  BY NextPromised
<1> QED
  BY <1>1, <1>2, Invariance, PTL DEF Spec, Promised, P!PubSpec
-----------------------------------------------------------------------------
(* The gate before a preview's confirmation starts a result.                *)

\* The receipt of p does not stand in v's way.
Passes(v, p) ==
    receipt[p] = "none" \/ (receipt[p] = "remote_delivered" /\ mem[v].alternative)

Gates == {"list", "handle", "load", "preparing"}

\* The listing has passed every receipt it no longer has to look at, and what it passed
\* is still so when the confirmation goes on: nobody else writes a receipt.
GateOK(v) ==
    LET r == run[v]
    IN  /\ r.pc = "list" /\ ~r.conflict => \A p \in Ops \ ({r.op} \cup r.todo) : Passes(v, p)
        /\ r.pc \in Gates \ {"list"} /\ ~r.again => \A p \in Ops \ {r.op} : Passes(v, p)

Gate == \A v \in Viewers : GateOK(v)

\* Receipts are written under owner.lock.
LEMMA ReceiptsOwned ==
    ASSUME IInv, NEW u \in Viewers, Step(u)
    PROVE  receipt' = receipt \/ owner = u
<1>0. PlaceOK(u)
  BY DEF IInv, ViewerOK
<1>1. CASE \/ StartRetirement(u) \/ RetireSnapshot(u) \/ RetireBase(u) \/ RetireCommit(u)
           \/ EndRetirement(u) \/ Retired(u) \/ Unretired(u)
  BY <1>1 DEF StartRetirement, RetireSnapshot, RetireBase, RetireCommit, RetirePin, EndRetirement,
              Retired, Unretired, durable
<1>2. CASE Capture(u) \/ BeginRecord(u) \/ PinBase(u) \/ Seal(u) \/ AdmitBase(u)
  BY <1>2 DEF Capture, BeginRecord, PinBase, PinIntent, PinRef, PinOwn, Seal, AdmitBase, durable
<1>3. CASE Unlisted(u) \/ Gated(u) \/ Handle(u) \/ Load(u)
  BY <1>3 DEF Unlisted, Gated, Handle, Load, durable
<1>4. CASE CommitTree(u) \/ PinCommit(u) \/ PublishLocal(u) \/ Install(u)
  BY <1>4 DEF CommitTree, PinCommit, PinIntent, PinRef, PinOwn, PublishLocal, Install, durable
<1>5. CASE PublishRemote(u) \/ Authorize(u) \/ Push(u) \/ Reobserve(u)
  BY <1>5 DEF PublishRemote, Authorize, Push, Reobserve, durable
<1>6. CASE Report(u) \/ Answer(u) \/ AnswerRefused(u)
  BY <1>6 DEF Report, Answer, AnswerRefused, durable
<1>7. ASSUME run[u].pc \in {"list", "preparing", "commit_known", "prepared", "local_attempt",
                            "local_published", "remote_attempt", "remote_delivered", "resume",
                            "regenerate", "remove", "finish"}
      PROVE  owner = u
  BY <1>0, <1>7 DEF PlaceOK, Owning, Unowned, UnownedPoints
<1>8. CASE (\E o \in Ops : ListOne(u, o)) \/ Preparing(u) \/ CommitKnown(u) \/ Prepared(u)
           \/ LocalAttempt(u) \/ LocalPublished(u)
  BY <1>7, <1>8 DEF ListOne, Preparing, CommitKnown, Prepared, LocalAttempt, LocalPublished, At
<1>9. CASE RemoteAttempt(u) \/ RemoteDelivered(u) \/ Resume(u) \/ Regenerate(u) \/ RemoveReceipt(u)
           \/ Finish(u)
  BY <1>7, <1>9 DEF RemoteAttempt, RemoteDelivered, Resume, Regenerate, RemoveReceipt, Finish, At
<1> QED
  BY <1>1, <1>2, <1>3, <1>4, <1>5, <1>6, <1>8, <1>9 DEF Step

\* A step of one viewer is no step of another.
Still(v) == run'[v] = run[v] /\ mem'[v] = mem[v]

LEMMA StepsAreMine ==
    ASSUME NEW u \in Viewers, NEW v \in Viewers, u # v, Step(u)
    PROVE  TypeOK => Still(v)
<1> SUFFICES ASSUME run \in [Viewers -> Runs], mem \in [Viewers -> Memories]
             PROVE  Still(v)
  BY DEF TypeOK
<1>1. ASSUME NEW l, Goto(u, l) \/ \E p : Abandon(u, l, p) PROVE run'[v] = run[v]
  BY <1>1 DEF Goto, Abandon
<1>2. ASSUME NEW o, End(u, o) PROVE run'[v] = run[v]
  BY <1>2 DEF End
<1>3. ASSUME NEW r, NEW h, NEW l, NEW b, SaveResource(u, r, h, l, b) PROVE run'[v] = run[v]
  BY <1>1, <1>3 DEF SaveResource
<1>4. ASSUME NEW s, NEW g, NEW l, NEW b, Persist(u, s, g, l, b) PROVE run'[v] = run[v]
  BY <1>1, <1>4 DEF Persist
<1>5. CASE StartRetirement(u) \/ RetireSnapshot(u) \/ EndRetirement(u)
  BY <1>1, <1>3, <1>5 DEF StartRetirement, RetireSnapshot, EndRetirement, RetirementStops, Still
<1>6. CASE RetireBase(u) \/ RetireCommit(u)
  BY <1>1, <1>3, <1>6 DEF RetireBase, RetireCommit, RetirePin, RetirementStops, Still
<1>7. CASE Retired(u) \/ Unretired(u)
  BY <1>1, <1>2, <1>7 DEF Retired, Unretired, Still
<1>8. CASE Capture(u) \/ BeginRecord(u) \/ AdmitBase(u)
  BY <1>1, <1>2, <1>3, <1>8 DEF Capture, BeginRecord, AdmitBase, Still
<1>9. CASE PinBase(u) \/ PinCommit(u)
  BY <1>1, <1>3, <1>9 DEF PinBase, PinCommit, PinIntent, PinRef, PinOwn, Still
<1>10. CASE Seal(u)
  BY <1>1, <1>3, <1>10 DEF Seal, Still
<1>11. CASE (\E o \in Ops : ListOne(u, o)) \/ Unlisted(u) \/ Gated(u)
  BY <1>1, <1>2, <1>11 DEF ListOne, Unlisted, Gated, Still
<1>12. CASE Handle(u) \/ Load(u)
  BY <1>1, <1>2, <1>3, <1>12 DEF Handle, Load, Still
<1>13. CASE Preparing(u) \/ CommitTree(u) \/ CommitKnown(u) \/ Prepared(u)
  BY <1>1, <1>4, <1>13 DEF Preparing, CommitTree, CommitKnown, Prepared, Still
<1>14. CASE PublishLocal(u) \/ LocalAttempt(u) \/ Install(u) \/ LocalPublished(u)
  BY <1>1, <1>4, <1>14 DEF PublishLocal, LocalAttempt, Install, LocalPublished, Still
<1>15. CASE PublishRemote(u) \/ RemoteAttempt(u) \/ Authorize(u) \/ Push(u)
  BY <1>1, <1>4, <1>15 DEF PublishRemote, RemoteAttempt, Authorize, Push, Still
<1>16. CASE RemoteDelivered(u) \/ Resume(u) \/ Regenerate(u) \/ Reobserve(u)
  BY <1>1, <1>4, <1>16 DEF RemoteDelivered, Resume, Regenerate, Reobserve, Still
<1>17. CASE RemoveReceipt(u) \/ Report(u) \/ Finish(u) \/ Answer(u) \/ AnswerRefused(u)
  BY <1>1, <1>2, <1>17 DEF RemoveReceipt, Report, Finish, Answer, AnswerRefused, Still
<1> QED
  BY <1>5, <1>6, <1>7, <1>8, <1>9, <1>10, <1>11, <1>12, <1>13, <1>14, <1>15, <1>16, <1>17, SMTT(30)
     DEF Step

\* The steps of a request that lead to the gate or through it.
LEMMA StepsToTheGate ==
    ASSUME IInv, NEW v \in Viewers, Step(v), run'[v].pc \in Gates
    PROVE  AdmitBase(v) \/ (\E o \in Ops : ListOne(v, o)) \/ Gated(v) \/ Handle(v) \/ Load(v)
<1>0. run \in [Viewers -> Runs] /\ run[v] \in Runs
  BY DEF IInv, TypeOK
<1>1. ASSUME NEW l, Goto(v, l) \/ \E p : Abandon(v, l, p) PROVE run'[v].pc = l
  BY <1>0, <1>1 DEF Goto, Abandon, Runs
<1>2. ASSUME NEW o, End(v, o) PROVE run'[v].pc = "idle"
  BY <1>0, <1>2 DEF End, Fresh
<1>3. ASSUME NEW r, NEW h, NEW l, NEW b, SaveResource(v, r, h, l, b) PROVE run'[v].pc \in {l, b}
  BY <1>1, <1>3 DEF SaveResource
<1>4. ASSUME NEW s, NEW g, NEW l, NEW b, Persist(v, s, g, l, b) PROVE run'[v].pc \in {l, b}
  BY <1>1, <1>4 DEF Persist
<1>5. CASE StartRetirement(v) \/ RetireSnapshot(v) \/ EndRetirement(v)
  BY <1>1, <1>3, <1>5 DEF StartRetirement, RetireSnapshot, EndRetirement, RetirementStops, Gates
<1>6. CASE RetireBase(v) \/ RetireCommit(v)
  BY <1>1, <1>3, <1>6 DEF RetireBase, RetireCommit, RetirePin, RetirementStops, Gates
<1>7. CASE Retired(v) \/ Unretired(v)
  <2>1. ASSUME run' = [run EXCEPT ![v].op = NoOp, ![v].pc = "capture"] PROVE run'[v].pc = "capture"
    BY <1>0, <2>1 DEF Runs
  <2> QED
    BY <1>1, <1>2, <1>7, <2>1 DEF Retired, Unretired, Gates
<1>8. CASE Capture(v) \/ BeginRecord(v)
  <2>1. ASSUME NEW o, run' = [run EXCEPT ![v].op = o, ![v].pc = "cap_record"]
        PROVE  run'[v].pc = "cap_record"
    BY <1>0, <2>1 DEF Runs
  <2>2. CASE Capture(v)
    BY <1>2, <2>1, <2>2 DEF Capture, Gates
  <2>3. CASE BeginRecord(v)
    BY <1>3, <2>3 DEF BeginRecord, Gates
  <2> QED
    BY <1>8, <2>2, <2>3
<1>9. CASE PinBase(v) \/ PinCommit(v)
  BY <1>1, <1>3, <1>9 DEF PinBase, PinCommit, PinIntent, PinRef, PinOwn, Gates
<1>10. CASE Seal(v)
  BY <1>1, <1>3, <1>10 DEF Seal, Gates
<1>11. CASE Unlisted(v)
  <2>1. ASSUME run' = [run EXCEPT ![v].job = "withdraw", ![v].pc = "discard"]
        PROVE  run'[v].pc = "discard"
    BY <1>0, <2>1 DEF Runs
  <2> QED
    BY <1>2, <1>11, <2>1 DEF Unlisted, Gates
<1>13. CASE Preparing(v) \/ CommitTree(v) \/ CommitKnown(v) \/ Prepared(v)
  BY <1>1, <1>4, <1>13 DEF Preparing, CommitTree, CommitKnown, Prepared, Gates
<1>14. CASE PublishLocal(v) \/ LocalAttempt(v) \/ Install(v) \/ LocalPublished(v)
  BY <1>1, <1>4, <1>14 DEF PublishLocal, LocalAttempt, Install, LocalPublished, Gates
<1>15. CASE PublishRemote(v) \/ Reobserve(v)
  <2>1. ASSUME NEW l, NEW g, run' = [run EXCEPT ![v].pc = l, ![v].next = g] PROVE run'[v].pc = l
    BY <1>0, <2>1 DEF Runs
  <2>2. ASSUME NEW l, run' = [run EXCEPT ![v].pc = l, ![v].next = @ + 1] PROVE run'[v].pc = l
    BY <1>0, <2>2 DEF Runs
  <2>3. CASE PublishRemote(v)
    <3>1. PICK g : g = gen[run[v].op] + 1
      OBVIOUS
    <3>2. \/ run' = [run EXCEPT ![v].pc = "remote_attempt", ![v].next = g]
          \/ run' = [run EXCEPT ![v].pc = "remote_delivered", ![v].next = g]
          \/ Abandon(v, "finish", "other")
      BY <2>3, <3>1 DEF PublishRemote
    <3> QED
      BY <1>1, <2>1, <3>2 DEF Gates
  <2>4. CASE Reobserve(v)
    BY <1>1, <2>2, <2>4 DEF Reobserve, Gates
  <2> QED
    BY <1>15, <2>3, <2>4
<1>16. CASE RemoteAttempt(v) \/ Authorize(v) \/ Push(v) \/ RemoteDelivered(v) \/ Regenerate(v)
  BY <1>1, <1>4, <1>16 DEF RemoteAttempt, Authorize, Push, RemoteDelivered, Regenerate, Gates
<1>17. CASE Resume(v)
  BY <1>1, <1>4, <1>17 DEF Resume, Gates
<1>18. CASE RemoveReceipt(v) \/ Report(v) \/ Finish(v) \/ Answer(v)
  BY <1>1, <1>2, <1>18 DEF RemoveReceipt, Report, Finish, Answer, Gates
<1>19. CASE AnswerRefused(v)
  <2>1. ASSUME run' = [run EXCEPT ![v].job = "release", ![v].pc = "retire"]
        PROVE  run'[v].pc = "retire"
    BY <1>0, <2>1 DEF Runs
  <2> QED
    BY <1>2, <1>19, <2>1 DEF AnswerRefused, Gates
<1> QED
  BY <1>5, <1>6, <1>7, <1>8, <1>9, <1>10, <1>11, <1>13, <1>14, <1>15, <1>16, <1>17, <1>18, <1>19,
     SMTT(30) DEF Step

\* What Goto and Abandon leave of the request.
LEMMA PaceGate ==
    ASSUME IInv, NEW v \in Viewers, NEW l, Goto(v, l) \/ \E p : Abandon(v, l, p)
    PROVE  /\ run'[v].pc = l /\ run'[v].op = run[v].op
           /\ run'[v].again = run[v].again /\ run'[v].conflict = run[v].conflict
           /\ run'[v].todo = run[v].todo
<1>0. run \in [Viewers -> Runs] /\ run[v] \in Runs
  BY DEF IInv, TypeOK
<1> QED
  BY <1>0 DEF Goto, Abandon, Runs

\* A listing begins with every receipt there is.
LEMMA GateOpens ==
    ASSUME NEW v \in Viewers, run'[v].pc = "list",
           run'[v].todo = {o \in Ops : receipt[o] # "none"}, receipt' = receipt
    PROVE  GateOK(v)'
BY DEF GateOK, Passes, Gates

\* A confirmation that has passed the gate goes on while the receipts stay.
LEMMA GatePassed ==
    ASSUME NEW v \in Viewers, run[v].pc \in Gates, run'[v].pc \in Gates \ {"list"},
           run'[v].op = run[v].op, run'[v].again = run[v].again,
           receipt' = receipt, mem'[v].alternative = mem[v].alternative,
           ~run[v].again => \A p \in Ops \ {run[v].op} : Passes(v, p)
    PROVE  GateOK(v)'
<1>1. ASSUME ~run'[v].again, NEW p \in Ops \ {run'[v].op} PROVE Passes(v, p)'
  <2>1. ~run[v].again /\ p \in Ops \ {run[v].op}
    BY <1>1
  <2>2. Passes(v, p)
    BY <2>1
  <2> QED
    BY <2>2 DEF Passes
<1> QED
  BY <1>1 DEF GateOK, Gates

LEMMA StepGate ==
    ASSUME IInv, NEW v \in Viewers, GateOK(v), Step(v)
    PROVE  GateOK(v)'
<1>0. /\ run \in [Viewers -> Runs] /\ run[v] \in Runs /\ mem \in [Viewers -> Memories]
      /\ mem[v] \in Memories /\ receipt \in [Ops -> Stages]
  BY DEF IInv, TypeOK
<1>1. CASE run'[v].pc \notin Gates
  BY <1>1 DEF GateOK, Gates
<1>2. CASE AdmitBase(v)
  <2>1. receipt' = receipt
    BY <1>2 DEF AdmitBase, durable
  <2>2. CASE run' = [run EXCEPT ![v].pc = "list", ![v].todo = {o \in Ops : receipt[o] # "none"}]
    <3>1. run'[v].pc = "list" /\ run'[v].todo = {o \in Ops : receipt[o] # "none"}
      BY <1>0, <2>2 DEF Runs
    <3> QED
      BY <2>1, <3>1, GateOpens
  <2>3. CASE run' = [run EXCEPT ![v].job = "withdraw", ![v].pc = "discard"]
    <3>1. run'[v].pc = "discard"
      BY <1>0, <2>3 DEF Runs
    <3> QED
      BY <3>1 DEF GateOK, Gates
  <2> QED
    BY <1>2, <2>2, <2>3 DEF AdmitBase
<1>3. ASSUME NEW o \in Ops, ListOne(v, o) PROVE GateOK(v)'
  <2>1. PICK d \in BOOLEAN :
           /\ Reconcile(o, d)
           /\ run' = [run EXCEPT ![v].todo = @ \ {o},
                         ![v].conflict = @ \/ (o # run[v].op /\ ~(d /\ mem[v].alternative))]
    BY <1>3 DEF ListOne
  <2>2. run[v].pc = "list" /\ mem' = mem
    BY <1>3 DEF ListOne, At
  <2>3. /\ run'[v].pc = "list" /\ run'[v].op = run[v].op /\ run'[v].todo = run[v].todo \ {o}
        /\ run'[v].conflict = (run[v].conflict \/ (o # run[v].op /\ ~(d /\ mem[v].alternative)))
    BY <1>0, <2>1, <2>2 DEF Runs
  <2>4. \A p \in Ops \ {o} : receipt'[p] = receipt[p]
    BY <1>0, <2>1 DEF Reconcile
  <2>5. d => receipt'[o] = "remote_delivered"
    BY <1>0, <2>1 DEF Reconcile
  <2>6. ASSUME ~run'[v].conflict, NEW p \in Ops \ ({run'[v].op} \cup run'[v].todo)
        PROVE  Passes(v, p)'
    <3>1. ~run[v].conflict /\ (o # run[v].op => d /\ mem[v].alternative)
      BY <2>3, <2>6
    <3>2. CASE p = o
      <4>1. receipt'[o] = "remote_delivered" /\ mem[v].alternative
        BY <2>3, <2>5, <2>6, <3>1, <3>2
      <4> QED
        BY <2>2, <3>2, <4>1 DEF Passes
    <3>3. CASE p # o
      <4>1. p \in Ops \ ({run[v].op} \cup run[v].todo)
        BY <2>3, <2>6, <3>3
      <4>2. Passes(v, p)
        BY <2>2, <3>1, <4>1 DEF GateOK
      <4> QED
        BY <2>2, <2>4, <3>3, <4>2 DEF Passes
    <3> QED
      BY <3>2, <3>3
  <2> QED
    BY <2>3, <2>6 DEF GateOK, Gates
<1>4. CASE Gated(v) /\ run'[v].pc \in Gates
  <2>1. run[v].pc = "list" /\ run[v].todo = {} /\ receipt' = receipt /\ mem' = mem
    BY <1>4 DEF Gated, At, durable
  <2>2. ASSUME End(v, NoOp) PROVE run'[v].pc = "idle"
    BY <1>0, <2>2 DEF End, Fresh
  <2>3. ASSUME NEW j, run' = [run EXCEPT ![v].pc = "discard", ![v].job = j] PROVE run'[v].pc = "discard"
    BY <1>0, <2>3 DEF Runs
  <2>4. PICK j : j = IF run[v].job = "preview" THEN "withdraw" ELSE "conflict"
    OBVIOUS
  <2>5. ~run[v].conflict /\ Goto(v, "handle")
    <3>1. \/ run' = [run EXCEPT ![v].pc = "discard", ![v].job = j]
          \/ End(v, NoOp)
          \/ ~run[v].conflict /\ Goto(v, "handle")
      BY <1>0, <1>4, <2>4 DEF Gated, Runs
    <3> QED
      BY <1>4, <2>2, <2>3, <3>1 DEF Gates
  <2>6. \A p \in Ops \ {run[v].op} : Passes(v, p)
    BY <2>1, <2>5 DEF GateOK
  <2>7. run'[v].op = run[v].op /\ run'[v].again = run[v].again /\ run'[v].pc = "handle"
    BY <2>5, PaceGate
  <2> QED
    BY <2>1, <2>6, <2>7, GatePassed DEF Gates
<1>5. CASE Handle(v) /\ run'[v].pc \in Gates
  <2>1. run[v].pc = "handle" /\ receipt' = receipt
    BY <1>5 DEF Handle, At
  <2>2. ASSUME NEW o, End(v, o) PROVE run'[v].pc = "idle"
    BY <1>0, <2>2 DEF End, Fresh
  <2>3. ASSUME run' = [run EXCEPT ![v].job = "expired", ![v].pc = "discard"]
        PROVE  run'[v].pc = "discard"
    BY <1>0, <2>3 DEF Runs
  <2>4. ASSUME Goto(v, "answer") \/ \E p : Abandon(v, "answer", p) PROVE run'[v].pc = "answer"
    BY <2>4, PaceGate
  <2>5. /\ Goto(v, "load")
        /\ mem' = IF run'[v].pc = "load" THEN [mem EXCEPT ![v].kind = "confirmed"] ELSE mem
    BY <1>5, <2>2, <2>3, <2>4 DEF Handle, SaveResource, Gates
  <2>6. run'[v].op = run[v].op /\ run'[v].again = run[v].again /\ run'[v].pc = "load"
    BY <2>5, PaceGate
  <2>7. mem'[v].alternative = mem[v].alternative
    BY <1>0, <2>5, <2>6 DEF Memories
  <2>8. ~run[v].again => \A p \in Ops \ {run[v].op} : Passes(v, p)
    BY <2>1 DEF GateOK, Gates
  <2> QED
    BY <2>1, <2>6, <2>7, <2>8, GatePassed DEF Gates
<1>6. CASE Load(v) /\ run'[v].pc \in Gates
  <2>1. run[v].pc = "load" /\ receipt' = receipt /\ mem' = mem
    BY <1>6 DEF Load, At, durable
  <2>2. \/ Goto(v, "finish") \/ Goto(v, "preparing")
        \/ Abandon(v, "refused", "stale") \/ Abandon(v, "refused", "other")
    BY <1>6 DEF Load
  <2>3. Goto(v, "preparing")
    BY <1>6, <2>2, PaceGate DEF Gates
  <2>4. run'[v].op = run[v].op /\ run'[v].again = run[v].again /\ run'[v].pc = "preparing"
    BY <2>3, PaceGate
  <2>5. ~run[v].again => \A p \in Ops \ {run[v].op} : Passes(v, p)
    BY <2>1 DEF GateOK, Gates
  <2> QED
    BY <2>1, <2>4, <2>5, GatePassed DEF Gates
<1> QED
  BY <1>1, <1>2, <1>3, <1>4, <1>5, <1>6, StepsToTheGate

\* A new request is at the gate only with every receipt before it, or as a repeated
\* confirmation.
LEMMA AskGate ==
    ASSUME IInv, NEW v \in Viewers, Ask(v)
    PROVE  GateOK(v)'
<1>0. run \in [Viewers -> Runs] /\ run[v] \in Runs
  BY DEF IInv, TypeOK
<1>1. ASSUME run'[v].pc \notin Gates PROVE GateOK(v)'
  BY <1>1 DEF GateOK, Gates
<1>2. ASSUME NEW o, End(v, o) PROVE run'[v].pc = "idle"
  BY <1>0, <1>2 DEF End, Fresh
<1>3. ASSUME run' = [run EXCEPT ![v] = Fresh] PROVE run'[v].pc = "idle"
  BY <1>0, <1>3 DEF Fresh
<1>4. ASSUME NEW j, NEW o, NEW l, run' = [run EXCEPT ![v] = Request(v, j, o, l)] PROVE run'[v].pc = l
  BY <1>0, <1>4 DEF Request, Fresh
<1>5. CASE Preview(v)
  <2>1. PICK m : m = LetIfSpent(mem[v])
    OBVIOUS
  <2>2. \/ run' = [run EXCEPT ![v] = Fresh]
        \/ run' = [run EXCEPT ![v] = Request(v, "preview", m.held, "retire")]
        \/ run' = [run EXCEPT ![v] = Request(v, "preview", m.held, "discard")]
        \/ run' = [run EXCEPT ![v] = Request(v, "preview", NoOp, "capture")]
    BY <1>5, <2>1 DEF Preview
  <2> QED
    BY <1>1, <1>3, <1>4, <2>2 DEF Gates
<1>6. ASSUME NEW o \in Ops, Confirm(v, o) PROVE GateOK(v)'
  <2>1. PICK q \in BOOLEAN : q = (mem[v].kind = "previewed" /\ mem[v].held = o)
    OBVIOUS
  <2>2. PICK x : x = IF q \/ mem[v].receiptless = o THEN o ELSE NoOp
    OBVIOUS
  <2>3. \/ End(v, o) \/ End(v, x)
        \/ run' = [run EXCEPT ![v] =
              [Request(v, "confirm", o, IF q THEN "list" ELSE "handle") EXCEPT
                  !.todo = IF q THEN {p \in Ops : receipt[p] # "none"} ELSE {},
                  !.again = ~q]]
    BY <1>6, <2>1, <2>2 DEF Confirm
  <2>4. receipt' = receipt
    BY <1>6 DEF Confirm, durable
  <2>5. CASE End(v, o) \/ End(v, x)
    BY <1>1, <1>2, <2>5 DEF Gates
  <2>6. ASSUME q, run' = [run EXCEPT ![v] = [Request(v, "confirm", o, "list") EXCEPT
                             !.todo = {p \in Ops : receipt[p] # "none"}, !.again = ~q]]
        PROVE  GateOK(v)'
    <3>1. run'[v].pc = "list" /\ run'[v].todo = {p \in Ops : receipt[p] # "none"}
      BY <1>0, <2>6 DEF Request, Fresh
    <3> QED
      BY <2>4, <3>1, GateOpens
  <2>7. ASSUME ~q, run' = [run EXCEPT ![v] = [Request(v, "confirm", o, "handle") EXCEPT
                              !.todo = {}, !.again = ~q]]
        PROVE  GateOK(v)'
    <3>1. run'[v].pc = "handle" /\ run'[v].again = TRUE
      BY <1>0, <2>7 DEF Request, Fresh
    <3> QED
      BY <3>1 DEF GateOK
  <2> QED
    BY <2>3, <2>5, <2>6, <2>7
<1>7. ASSUME NEW o \in Ops, Recover(v, o) \/ Retry(v, o) \/ Cleanup(v, o) PROVE GateOK(v)'
  BY <1>1, <1>4, <1>7 DEF Recover, Retry, Cleanup, OpenFor, Gates
<1>8. ASSUME NEW o \in Ops, Forget(v, o) \/ RecoverResources(v, o) PROVE GateOK(v)'
  BY <1>1, <1>4, <1>8 DEF Forget, RecoverResources, OpenFor, Gates
<1>9. ASSUME NEW o \in Ops, Alternative(v, o) PROVE GateOK(v)'
  BY <1>1, <1>3, <1>9 DEF Alternative, Gates
<1>10. ASSUME NEW o \in Ops, NEW g \in 0..MaxGen, Republish(v, o, g) PROVE GateOK(v)'
  <2>1. PICK l \in {"regenerate", "finish"} :
           run' = [run EXCEPT ![v] = [Request(v, "republish", o, l) EXCEPT !.req = g, !.next = g]]
    BY <1>10 DEF Republish
  <2>2. run'[v].pc = l
    BY <1>0, <2>1 DEF Request, Fresh
  <2> QED
    BY <1>1, <2>2 DEF Gates
<1> QED
  BY <1>5, <1>6, <1>7, <1>8, <1>9, <1>10 DEF Ask

\* A request of one viewer is no request of another, and writes no receipt that owner.lock protects.
LEMMA AsksAreMine ==
    ASSUME IInv, NEW u \in Viewers, NEW v \in Viewers, u # v, Ask(u)
    PROVE  Still(v) /\ (receipt' = receipt \/ owner = Nobody)
<1>0. run \in [Viewers -> Runs] /\ mem \in [Viewers -> Memories]
  BY DEF IInv, TypeOK
<1>1. CASE Preview(u)
  BY <1>0, <1>1 DEF Preview, Still, durable
<1>2. ASSUME NEW o \in Ops, Confirm(u, o) PROVE Still(v) /\ receipt' = receipt
  BY <1>0, <1>2 DEF Confirm, End, Still, durable
<1>3. ASSUME NEW o \in Ops, Recover(u, o) \/ Retry(u, o) \/ Cleanup(u, o) \/ Forget(u, o)
                            \/ RecoverResources(u, o)
      PROVE  Still(v) /\ receipt' = receipt
  BY <1>0, <1>3 DEF Recover, Retry, Cleanup, Forget, RecoverResources, OpenFor, Still, durable
<1>4. ASSUME NEW o \in Ops, Alternative(u, o) PROVE Still(v) /\ owner = Nobody
  BY <1>0, <1>4 DEF Alternative, CanOpen, Still
<1>5. ASSUME NEW o \in Ops, NEW g \in 0..MaxGen, Republish(u, o, g) PROVE Still(v) /\ receipt' = receipt
  BY <1>0, <1>5 DEF Republish, Still, durable
<1> QED
  BY <1>1, <1>2, <1>3, <1>4, <1>5 DEF Ask

\* Who is at the gate owns the receipts.
LEMMA GateHeld ==
    ASSUME IInv, NEW v \in Viewers, GateOK(v), Still(v), receipt' = receipt \/ owner # v
    PROVE  GateOK(v)'
<1>1. CASE run[v].pc \in Gates
  <2>1. owner = v
    BY <1>1 DEF IInv, ViewerOK, PlaceOK, Owning, Unowned, Confirming, Gates
  <2>2. receipt' = receipt /\ run'[v] = run[v] /\ mem'[v] = mem[v]
    BY <2>1 DEF Still
  <2>3. \A p \in Ops : Passes(v, p)' <=> Passes(v, p)
    BY <2>2 DEF Passes
  <2> QED
    BY <2>2, <2>3 DEF GateOK
<1>2. CASE run[v].pc \notin Gates
  BY <1>2 DEF GateOK, Still, Gates
<1> QED
  BY <1>1, <1>2

LEMMA GateKept ==
    ASSUME IInv, Gate, [Next]_vars
    PROVE  Gate'
<1> SUFFICES ASSUME NEW v \in Viewers PROVE GateOK(v)'
  BY DEF Gate
<1>0. GateOK(v) /\ TypeOK /\ Nobody \notin Viewers
  BY ComposeAssumption DEF Gate, IInv
<1>1. ASSUME NEW u \in Viewers, Step(u) PROVE GateOK(v)'
  <2>1. CASE u = v
    BY <1>0, <1>1, <2>1, StepGate
  <2>2. CASE u # v
    BY <1>0, <1>1, <2>2, StepsAreMine, ReceiptsOwned, GateHeld
  <2> QED
    BY <2>1, <2>2
<1>2. ASSUME NEW u \in Viewers, Ask(u) PROVE GateOK(v)'
  <2>1. CASE u = v
    BY <1>2, <2>1, AskGate
  <2>2. CASE u # v
    BY <1>0, <1>2, <2>2, AsksAreMine, GateHeld
  <2> QED
    BY <2>1, <2>2
<1>3. ASSUME NEW u \in Viewers, Crash(u) PROVE GateOK(v)'
  <2>0. run \in [Viewers -> Runs] /\ mem \in [Viewers -> Memories] /\ receipt' = receipt
    BY <1>0, <1>3 DEF TypeOK, Crash, durable
  <2>1. CASE u = v
    <3>1. run'[v].pc = "idle"
      BY <1>3, <2>0, <2>1 DEF Crash, Fresh
    <3> QED
      BY <3>1 DEF GateOK, Gates
  <2>2. CASE u # v
    <3>1. Still(v)
      BY <1>3, <2>0, <2>2 DEF Crash, Still
    <3> QED
      BY <1>0, <2>0, <3>1, GateHeld
  <2> QED
    BY <2>1, <2>2
<1>4. CASE \/ \E o \in Ops : Land(o) \/ TouchLocal(o) \/ TouchRemote(o) \/ Age(o) \/ Vanish(o)
           \/ ChangeAuthority \/ Resolve
  <2>1. Still(v)
    BY <1>4 DEF Land, TouchLocal, TouchRemote, Age, Vanish, ChangeAuthority, Resolve, Still
  <2>2. receipt' = receipt \/ owner = Nobody
    BY <1>4 DEF Land, TouchLocal, TouchRemote, Age, Vanish, ChangeAuthority, Resolve, durable
  <2> QED
    BY <1>0, <2>1, <2>2, GateHeld
<1>5. CASE UNCHANGED vars
  <2>1. Still(v) /\ receipt' = receipt
    BY <1>5 DEF vars, durable, Still
  <2> QED
    BY <1>0, <2>1, GateHeld
<1> QED
  BY <1>1, <1>2, <1>3, <1>4, <1>5 DEF Next, Around

\* A confirmation that consumes a preview starts no second result of the same
\* base beside a receipt that is not delivered, or that is and no alternative
\* was asked for, however many viewers publish at the same time: the gate
\* lists the receipts under owner.lock and the lock is held until the receipt
\* is written.
THEOREM PreviewsStartOneResult == Spec => PreviewStartsNoSibling
<1>1. Init => Gate
  <2> SUFFICES ASSUME Init, NEW v \in Viewers PROVE GateOK(v)
    BY DEF Gate
  <2>1. run[v].pc = "idle"
    BY DEF Init, Fresh
  <2> QED
    BY <2>1 DEF GateOK, Gates
<1>2. IInv /\ Gate /\ [Next]_vars => Gate'
  BY GateKept
<1>3. Gate => \A v \in Viewers, o \in Ops : Starts(v, o) /\ ~run[v].again => ~Sibling(v, o)
  BY DEF Gate, GateOK, Gates, Starts, Sibling, Passes
<1>4. Gate /\ [Next]_vars =>
        [\A v \in Viewers, o \in Ops : Starts(v, o) /\ ~run[v].again => ~Sibling(v, o)]_vars
  BY <1>3
<1> QED
  BY <1>1, <1>2, <1>4, Invariance, PTL DEF Spec, PreviewStartsNoSibling
=============================================================================
