-------------------------- MODULE BlockCacheProofs --------------------------
(***************************************************************************)
(* What holds of the block cache for any number of datasets, blocks and    *)
(* requests, whatever fails.                                               *)
(***************************************************************************)
EXTENDS BlockCache, FiniteSetTheorems, FunctionTheorems, TLAPS

Requests == {"read", "write", "update"}
Scanning == {"scan", "unref", "scanned"}
Freeing == {"free", "iwrite", "failed", "giveback", "countdown"}

Pcs == {"idle", "pending", "enter", "lookup", "addlock", "unlock", "use", "leave",
        "create", "internalize", "reacquire", "fill", "flushing", "take", "droplock",
        "evicted", "remove", "delete", "wait", "destroy", "closed"}
       \cup Scanning \cup Freeing
Threads ==
  [pc : Pcs, kind : {"none", "evict"} \cup Requests \cup Flushing,
   pos : {0} \cup Positions, mine : {NoBlock} \cup Ids,
   victim : {NoVictim} \cup AllBlocks, togo : Seq(AllBlocks), counted : BOOLEAN,
   again : BOOLEAN, err : BOOLEAN, ops : Nat]

Entries ==
  [pos : {0} \cup Positions, lock : Int, dirty : BOOLEAN, val : Nat,
   data : BOOLEAN, listed : BOOLEAN, live : BOOLEAN]

(* The types the steps preserve by themselves: that the counters stay      *)
(* natural numbers and the locks small needs to know what they count.      *)
Typed ==
  /\ hRBLock \in {Nobody} \cup Datasets
  /\ nCacheUsed \in Int
  /\ block \in [Datasets -> [Ids -> Entries]]
  /\ slot \in [Datasets -> [Positions -> {NoBlock} \cup Ids]]
  /\ freeList \in [Datasets -> SUBSET Ids]
  /\ keepAlive \in [Datasets -> Int]
  /\ flushErr \in [Datasets -> BOOLEAN]
  /\ rwMutex \in [Datasets -> {Nobody} \cup Datasets]
  /\ \A t \in Datasets : rwMutex[t] \in {Nobody, t}
  /\ disk \in [Datasets -> [Positions -> Nat]]
  /\ written \in [Datasets -> [Positions -> Nat]]
  /\ raced \in [Datasets -> BOOLEAN] /\ unreported \in [Datasets -> BOOLEAN]
  /\ thread \in [Datasets -> Threads]
-----------------------------------------------------------------------------
(***************************************************************************)
(* What the program counter of a thread says of its other locals.          *)
(***************************************************************************)
KindOf(r) ==
  /\ r.pc \in {"pending", "enter", "lookup", "addlock", "unlock", "use", "leave",
               "create", "internalize", "reacquire", "fill"} => r.kind \in Requests
  /\ r.pc \in Scanning \cup {"giveback", "countdown"} => r.kind \in Requests \cup {"evict"}
  /\ r.pc \in {"free", "iwrite", "failed"} =>
       r.kind \in Requests \cup {"evict"} \cup Flushing
  /\ r.pc \in {"flushing", "delete", "wait"} => r.kind \in Flushing
  /\ r.pc \in {"take", "droplock", "evicted", "remove"} => r.kind \in Requests \cup Flushing
  /\ r.pc = "idle" => r.kind \in {"none", "flush"} \cup Requests
  /\ r.pc = "destroy" => r.kind = "close"
  /\ r.pc = "closed" => r.kind = "destroy"

MineOf(r) ==
  /\ /\ r.kind \in Requests \cup Flushing
        /\ r.pc \notin {"idle", "flushing", "wait", "destroy", "closed"}
     => r.pos \in Positions
  /\ r.pc \in {"addlock", "unlock", "use", "internalize", "reacquire", "fill", "droplock",
               "evicted", "remove", "delete"} => r.mine \in Ids
  /\ r.kind \in Requests \cup Flushing /\ r.pc \in Scanning \cup Freeing => r.mine \in Ids
  /\ (r.pc = "idle" \/ r.kind = "evict") => r.mine = NoBlock

NoTwice(s) == \A i, j \in DOMAIN s : s[i] = s[j] => i = j

HandOf(t, r) ==
  /\ r.victim # NoVictim <=> r.pc = "unref"
  /\ r.togo # <<>> => r.pc \in Scanning \cup Freeing \cup {"delete"}
  /\ r.pc \in {"iwrite", "failed", "giveback", "countdown", "delete"} => r.togo # <<>>
  /\ r.kind \in Flushing /\ r.pc \in Freeing \cup {"delete"} => r.togo = <<<<t, r.mine>>>>
  /\ NoTwice(r.togo)
  /\ \A i \in DOMAIN r.togo : r.togo[i] # r.victim

CountOf(r) ==
  /\ r.counted => r.kind \in Requests /\ r.pc \in {"internalize"} \cup Scanning \cup Freeing
  /\ r.kind \in Requests /\ r.pc \in Scanning => r.counted
  /\ r.kind \in Requests /\ r.pc \in Freeing => (r.counted <=> r.again)
  /\ r.again => r.kind \in Requests /\ r.pc \in {"scanned", "internalize"} \cup Freeing
  /\ r.err => r.kind \in Flushing /\ r.pc # "idle"

Control ==
  \A t \in Datasets :
    /\ hRBLock = t <=> thread[t].pc \in Scanning
    /\ KindOf(thread[t]) /\ MineOf(thread[t]) /\ HandOf(t, thread[t]) /\ CountOf(thread[t])
-----------------------------------------------------------------------------
(***************************************************************************)
(* Where a block is.                                                       *)
(***************************************************************************)
(* The blocks a thread has evicted and not yet given back.                 *)
Held(u) == {x \in HandsOf(u) : /\ thread[u].kind \notin Flushing
                               /\ thread[u].pc = "countdown" => x # First(u)}
Evicted(d, b) == \E u \in Datasets : <<d, b>> \in Held(u)
Leaving(d, b) == \E u \in Datasets : thread[u].pc = "unref" /\ thread[u].victim = <<d, b>>
InSlot(d, b) == \E i \in Positions : slot[d][i] = b
Own(d, b) == Owned(<<d, b>>)

Making(t) ==
  /\ thread[t].kind \in Requests
  /\ thread[t].pc \in {"internalize", "reacquire"} \cup Scanning \cup Freeing
Makes(d, b) == Making(d) /\ thread[d].mine = b
Put(t) == thread[t].pc = "reacquire" \/ (thread[t].pc \in Freeing /\ ~thread[t].again)
Flusher(t) == /\ thread[t].kind \in Flushing
              /\ thread[t].pc \in {"free", "iwrite", "failed", "delete"}

Works(d, b, where) == thread[d].pc \in where /\ thread[d].mine = b
LockOf(d, b) == IF Works(d, b, {"unlock"}) THEN 0 ELSE -1

Dead(d, b) ==
  ~block[d][b].live =>
    /\ block[d][b].lock = 0 /\ ~block[d][b].listed
    /\ ~InSlot(d, b) /\ b \notin freeList[d] /\ ~Evicted(d, b) /\ ~Own(d, b)

Slotted(d, b) ==
  \A i \in Positions : slot[d][i] = b =>
    /\ block[d][b].live /\ block[d][b].pos = i /\ block[d][b].data
    /\ b \notin freeList[d] /\ ~Own(d, b)
    /\ Evicted(d, b) => Leaving(d, b)
    /\ ~Evicted(d, b) => block[d][b].listed

GivenBack(d, b) ==
  b \in freeList[d] =>
    /\ block[d][b].live /\ block[d][b].pos = 0 /\ block[d][b].lock = LockOf(d, b)
    /\ ~block[d][b].dirty /\ ~block[d][b].data /\ ~block[d][b].listed
    /\ ~Evicted(d, b) /\ ~Own(d, b)

OutOfList(d, b) ==
  Evicted(d, b) =>
    /\ block[d][b].live /\ ~block[d][b].listed /\ block[d][b].data
    /\ block[d][b].pos \in Positions /\ block[d][b].lock = LockOf(d, b)
    /\ ~Own(d, b)
    /\ ~Leaving(d, b) => ~InSlot(d, b)

OneEvictor(d, b) ==
  \A u, v \in Datasets : <<d, b>> \in Held(u) /\ <<d, b>> \in Held(v) => u = v

Listed(d, b) ==
  block[d][b].listed =>
    /\ block[d][b].live
    /\ block[d][b].data \/ Makes(d, b)
    /\ block[d][b].lock = IF Works(d, b, {"use", "fill"}) \/ Makes(d, b)
                          THEN 1 ELSE IF Works(d, b, {"remove"}) THEN -1 ELSE 0

Placed(d, b) ==
  block[d][b].live =>
    InSlot(d, b) \/ b \in freeList[d] \/ Evicted(d, b) \/ Own(d, b) \/ Works(d, b, {"droplock"})

(* Its slot is emptied by the thread that evicts it, or by its own thread, *)
(* which is then held up before it can use the slot again.                 *)
Stuck == {"droplock", "evicted"}
LeavesSlot(d, b) ==
  Leaving(d, b) =>
    \/ slot[d][block[d][b].pos] = b
    \/ Works(d, b, Stuck) /\ block[d][b].pos = thread[d].pos

BlockOK(d, b) ==
  /\ Dead(d, b) /\ Slotted(d, b) /\ GivenBack(d, b) /\ OutOfList(d, b) /\ OneEvictor(d, b)
  /\ Listed(d, b) /\ Placed(d, b) /\ LeavesSlot(d, b)

(* The block a thread is working on. *)
Mine1(t) ==
  LET r == thread[t]
      b == r.mine
      x == block[t][b]
      there == slot[t][r.pos] = b
      gone == Evicted(t, b) \/ b \in freeList[t]
  IN
  /\ Making(t) => /\ x.live /\ x.lock = 1 /\ x.pos = r.pos /\ ~x.dirty
                  /\ x.listed <=> Put(t)
                  /\ x.data <=> r.pc = "reacquire"
  /\ Making(t) /\ r.pc # "internalize" => slot[t][r.pos] = NoBlock
  /\ r.pc \in {"unlock", "create", "internalize"} =>
       slot[t][r.pos] = NoBlock \/ Leaving(t, slot[t][r.pos])
  /\ r.pc = "fill" => ~x.dirty
  /\ r.pc \in {"fill", "use"} => there /\ x.listed
  /\ r.pc = "addlock" => there \/ gone
  /\ r.pc = "addlock" => slot[t][r.pos] \in {NoBlock, b}
  /\ r.pc = "unlock" => gone
  /\ r.pc = "take" /\ r.kind \in Requests /\ slot[t][r.pos] # NoBlock => there /\ ~x.dirty
  /\ r.pc \in Stuck => slot[t][r.pos] = NoBlock
  /\ r.pc = "droplock" => gone \/ (x.live /\ x.listed /\ x.data /\ x.pos = r.pos /\ ~InSlot(t, b))
  /\ r.pc = "droplock" /\ r.kind \in Requests => ~x.dirty
  /\ r.pc = "remove" => /\ x.live /\ x.listed /\ x.data /\ x.pos = r.pos /\ ~InSlot(t, b)
                        /\ r.kind \in Requests => ~x.dirty
  /\ Flusher(t) => /\ x.live /\ ~x.listed /\ x.data /\ x.lock = -1 /\ x.pos = r.pos
                   /\ ~InSlot(t, b)
                   /\ x.dirty <=> r.pc = "free"

Places == \A d \in Datasets : Mine1(d) /\ \A b \in Ids : BlockOK(d, b)
-----------------------------------------------------------------------------
(* A set of natural numbers has a least element.                           *)
LEMMA LeastIn ==
  ASSUME NEW S \in SUBSET Nat, S # {}
  PROVE  Least(S) \in S /\ \A m \in S : Least(S) <= m
<1> DEFINE R == OpToRel(<, Nat)
<1>1. IsWellFoundedOn(R, Nat)
  BY NatLessThanWellFounded
<1>2. \A a, b \in Nat : <<a, b>> \in R <=> a < b
  BY DEF OpToRel
<1> HIDE DEF R
<1>3. PICK n \in S : \A m \in S : <<m, n>> \notin R
  BY <1>1, WFMin
<1>4. \A m \in S : ~(m < n) /\ m \in Nat /\ n \in Nat
  BY <1>2, <1>3
<1>5. \A m \in S : n <= m
  BY <1>4
<1> QED
  BY <1>5 DEF Least

LEMMA AvailableLeast ==
  ASSUME Typed, NEW t \in Datasets, Available(t) # {}
  PROVE  Least(Available(t)) \in Available(t) /\ Least(Available(t)) \in Ids
<1>1. Available(t) \subseteq Ids
  BY DEF Available, Typed
<1>2. Ids \subseteq Nat
  BY DEF Ids
<1> QED
  BY <1>1, <1>2, LeastIn

-----------------------------------------------------------------------------
(***************************************************************************)
(* What a step makes of the record of its thread.                          *)
(***************************************************************************)
Locals(pc, kind, pos, mine, victim, togo, counted, again, err, ops) ==
  [pc |-> pc, kind |-> kind, pos |-> pos, mine |-> mine, victim |-> victim, togo |-> togo,
   counted |-> counted, again |-> again, err |-> err, ops |-> ops]
Becomes(t, r) == thread' = [thread EXCEPT ![t] = r]

(* Update changes the fields it is given and keeps the others.             *)
LEMMA Fields ==
  ASSUME NEW r \in Threads, NEW f
  PROVE  LET F(x) == IF x \in DOMAIN f THEN f[x] ELSE r[x] IN
         Update(r, f) = Locals(F("pc"), F("kind"), F("pos"), F("mine"), F("victim"), F("togo"),
                               F("counted"), F("again"), F("err"), F("ops"))
  BY DEF Threads, Update, Locals

LEMMA StepPc ==
  ASSUME Typed, NEW t \in Datasets, NEW w,
         Step(t, [pc |-> w])
  PROVE  Becomes(t, Locals(w, thread[t].kind, thread[t].pos, thread[t].mine,
                           thread[t].victim, thread[t].togo, thread[t].counted,
                           thread[t].again, thread[t].err, thread[t].ops))
<1> DEFINE f == [pc |-> w]
<1>1. /\ \A y \in {"pc"} : y \in DOMAIN f
      /\ \A y \in {"kind", "pos", "mine", "victim", "togo", "counted", "again", "err", "ops"} : y \notin DOMAIN f
      /\ f.pc = w
  OBVIOUS
<1>2. thread[t] \in Threads /\ Becomes(t, Update(thread[t], f))
  BY DEF Typed, Step, Becomes
<1> HIDE DEF f
<1>3. Update(thread[t], f) = Locals(w, thread[t].kind, thread[t].pos, thread[t].mine,
         thread[t].victim, thread[t].togo, thread[t].counted, thread[t].again,
         thread[t].err, thread[t].ops)
  BY <1>1, <1>2, Fields
<1> QED
  BY <1>2, <1>3

LEMMA StepMine ==
  ASSUME Typed, NEW t \in Datasets, NEW w, NEW b,
         Step(t, [pc |-> w, mine |-> b])
  PROVE  Becomes(t, Locals(w, thread[t].kind, thread[t].pos, b, thread[t].victim,
                           thread[t].togo, thread[t].counted, thread[t].again,
                           thread[t].err, thread[t].ops))
<1> DEFINE f == [pc |-> w, mine |-> b]
<1>1. /\ \A y \in {"pc", "mine"} : y \in DOMAIN f
      /\ \A y \in {"kind", "pos", "victim", "togo", "counted", "again", "err", "ops"} : y \notin DOMAIN f
      /\ f.pc = w /\ f.mine = b
  OBVIOUS
<1>2. thread[t] \in Threads /\ Becomes(t, Update(thread[t], f))
  BY DEF Typed, Step, Becomes
<1> HIDE DEF f
<1>3. Update(thread[t], f) = Locals(w, thread[t].kind, thread[t].pos, b,
         thread[t].victim, thread[t].togo, thread[t].counted, thread[t].again,
         thread[t].err, thread[t].ops)
  BY <1>1, <1>2, Fields
<1> QED
  BY <1>2, <1>3

LEMMA StepAsk ==
  ASSUME Typed, NEW t \in Datasets, NEW w, NEW k, NEW n,
         Step(t, [pc |-> w, kind |-> k, ops |-> n])
  PROVE  Becomes(t, Locals(w, k, thread[t].pos, thread[t].mine, thread[t].victim,
                           thread[t].togo, thread[t].counted, thread[t].again,
                           thread[t].err, n))
<1> DEFINE f == [pc |-> w, kind |-> k, ops |-> n]
<1>1. /\ \A y \in {"pc", "kind", "ops"} : y \in DOMAIN f
      /\ \A y \in {"pos", "mine", "victim", "togo", "counted", "again", "err"} : y \notin DOMAIN f
      /\ f.pc = w /\ f.kind = k /\ f.ops = n
  OBVIOUS
<1>2. thread[t] \in Threads /\ Becomes(t, Update(thread[t], f))
  BY DEF Typed, Step, Becomes
<1> HIDE DEF f
<1>3. Update(thread[t], f) = Locals(w, k, thread[t].pos, thread[t].mine,
         thread[t].victim, thread[t].togo, thread[t].counted, thread[t].again,
         thread[t].err, n)
  BY <1>1, <1>2, Fields
<1> QED
  BY <1>2, <1>3

LEMMA StepRefuse ==
  ASSUME Typed, NEW t \in Datasets, NEW k, NEW n,
         Step(t, [kind |-> k, ops |-> n])
  PROVE  Becomes(t, Locals(thread[t].pc, k, thread[t].pos, thread[t].mine,
                           thread[t].victim, thread[t].togo, thread[t].counted,
                           thread[t].again, thread[t].err, n))
<1> DEFINE f == [kind |-> k, ops |-> n]
<1>1. /\ \A y \in {"kind", "ops"} : y \in DOMAIN f
      /\ \A y \in {"pc", "pos", "mine", "victim", "togo", "counted", "again", "err"} : y \notin DOMAIN f
      /\ f.kind = k /\ f.ops = n
  OBVIOUS
<1>2. thread[t] \in Threads /\ Becomes(t, Update(thread[t], f))
  BY DEF Typed, Step, Becomes
<1> HIDE DEF f
<1>3. Update(thread[t], f) = Locals(thread[t].pc, k, thread[t].pos, thread[t].mine,
         thread[t].victim, thread[t].togo, thread[t].counted, thread[t].again,
         thread[t].err, n)
  BY <1>1, <1>2, Fields
<1> QED
  BY <1>2, <1>3

LEMMA StepRequest ==
  ASSUME Typed, NEW t \in Datasets, NEW w, NEW k, NEW i, NEW n,
         Step(t, [pc |-> w, kind |-> k, pos |-> i, ops |-> n])
  PROVE  Becomes(t, Locals(w, k, i, thread[t].mine, thread[t].victim, thread[t].togo,
                           thread[t].counted, thread[t].again, thread[t].err, n))
<1> DEFINE f == [pc |-> w, kind |-> k, pos |-> i, ops |-> n]
<1>1. /\ \A y \in {"pc", "kind", "pos", "ops"} : y \in DOMAIN f
      /\ \A y \in {"mine", "victim", "togo", "counted", "again", "err"} : y \notin DOMAIN f
      /\ f.pc = w /\ f.kind = k /\ f.pos = i /\ f.ops = n
  OBVIOUS
<1>2. thread[t] \in Threads /\ Becomes(t, Update(thread[t], f))
  BY DEF Typed, Step, Becomes
<1> HIDE DEF f
<1>3. Update(thread[t], f) = Locals(w, k, i, thread[t].mine, thread[t].victim,
         thread[t].togo, thread[t].counted, thread[t].again, thread[t].err, n)
  BY <1>1, <1>2, Fields
<1> QED
  BY <1>2, <1>3

LEMMA StepInternalize ==
  ASSUME Typed, NEW t \in Datasets, NEW w, NEW c, NEW a,
         Step(t, [pc |-> w, counted |-> c, again |-> a])
  PROVE  Becomes(t, Locals(w, thread[t].kind, thread[t].pos, thread[t].mine,
                           thread[t].victim, thread[t].togo, c, a, thread[t].err,
                           thread[t].ops))
<1> DEFINE f == [pc |-> w, counted |-> c, again |-> a]
<1>1. /\ \A y \in {"pc", "counted", "again"} : y \in DOMAIN f
      /\ \A y \in {"kind", "pos", "mine", "victim", "togo", "err", "ops"} : y \notin DOMAIN f
      /\ f.pc = w /\ f.counted = c /\ f.again = a
  OBVIOUS
<1>2. thread[t] \in Threads /\ Becomes(t, Update(thread[t], f))
  BY DEF Typed, Step, Becomes
<1> HIDE DEF f
<1>3. Update(thread[t], f) = Locals(w, thread[t].kind, thread[t].pos, thread[t].mine,
         thread[t].victim, thread[t].togo, c, a, thread[t].err, thread[t].ops)
  BY <1>1, <1>2, Fields
<1> QED
  BY <1>2, <1>3

LEMMA StepTouch ==
  ASSUME Typed, NEW t \in Datasets, NEW w, NEW c,
         Step(t, [pc |-> w, counted |-> c])
  PROVE  Becomes(t, Locals(w, thread[t].kind, thread[t].pos, thread[t].mine,
                           thread[t].victim, thread[t].togo, c, thread[t].again,
                           thread[t].err, thread[t].ops))
<1> DEFINE f == [pc |-> w, counted |-> c]
<1>1. /\ \A y \in {"pc", "counted"} : y \in DOMAIN f
      /\ \A y \in {"kind", "pos", "mine", "victim", "togo", "again", "err", "ops"} : y \notin DOMAIN f
      /\ f.pc = w /\ f.counted = c
  OBVIOUS
<1>2. thread[t] \in Threads /\ Becomes(t, Update(thread[t], f))
  BY DEF Typed, Step, Becomes
<1> HIDE DEF f
<1>3. Update(thread[t], f) = Locals(w, thread[t].kind, thread[t].pos, thread[t].mine,
         thread[t].victim, thread[t].togo, c, thread[t].again, thread[t].err,
         thread[t].ops)
  BY <1>1, <1>2, Fields
<1> QED
  BY <1>2, <1>3

LEMMA StepClaim ==
  ASSUME Typed, NEW t \in Datasets, NEW w, NEW x,
         Step(t, [pc |-> w, victim |-> x])
  PROVE  Becomes(t, Locals(w, thread[t].kind, thread[t].pos, thread[t].mine, x,
                           thread[t].togo, thread[t].counted, thread[t].again,
                           thread[t].err, thread[t].ops))
<1> DEFINE f == [pc |-> w, victim |-> x]
<1>1. /\ \A y \in {"pc", "victim"} : y \in DOMAIN f
      /\ \A y \in {"kind", "pos", "mine", "togo", "counted", "again", "err", "ops"} : y \notin DOMAIN f
      /\ f.pc = w /\ f.victim = x
  OBVIOUS
<1>2. thread[t] \in Threads /\ Becomes(t, Update(thread[t], f))
  BY DEF Typed, Step, Becomes
<1> HIDE DEF f
<1>3. Update(thread[t], f) = Locals(w, thread[t].kind, thread[t].pos, thread[t].mine,
         x, thread[t].togo, thread[t].counted, thread[t].again, thread[t].err,
         thread[t].ops)
  BY <1>1, <1>2, Fields
<1> QED
  BY <1>2, <1>3

LEMMA StepUnref ==
  ASSUME Typed, NEW t \in Datasets, NEW x, NEW s, NEW w, NEW a,
         Step(t, [victim |-> x, togo |-> s, pc |-> w, again |-> a])
  PROVE  Becomes(t, Locals(w, thread[t].kind, thread[t].pos, thread[t].mine, x, s,
                           thread[t].counted, a, thread[t].err, thread[t].ops))
<1> DEFINE f == [victim |-> x, togo |-> s, pc |-> w, again |-> a]
<1>1. /\ \A y \in {"victim", "togo", "pc", "again"} : y \in DOMAIN f
      /\ \A y \in {"kind", "pos", "mine", "counted", "err", "ops"} : y \notin DOMAIN f
      /\ f.victim = x /\ f.togo = s /\ f.pc = w /\ f.again = a
  OBVIOUS
<1>2. thread[t] \in Threads /\ Becomes(t, Update(thread[t], f))
  BY DEF Typed, Step, Becomes
<1> HIDE DEF f
<1>3. Update(thread[t], f) = Locals(w, thread[t].kind, thread[t].pos, thread[t].mine,
         x, s, thread[t].counted, a, thread[t].err, thread[t].ops)
  BY <1>1, <1>2, Fields
<1> QED
  BY <1>2, <1>3

LEMMA StepErr ==
  ASSUME Typed, NEW t \in Datasets, NEW w, NEW e,
         Step(t, [pc |-> w, err |-> e])
  PROVE  Becomes(t, Locals(w, thread[t].kind, thread[t].pos, thread[t].mine,
                           thread[t].victim, thread[t].togo, thread[t].counted,
                           thread[t].again, e, thread[t].ops))
<1> DEFINE f == [pc |-> w, err |-> e]
<1>1. /\ \A y \in {"pc", "err"} : y \in DOMAIN f
      /\ \A y \in {"kind", "pos", "mine", "victim", "togo", "counted", "again", "ops"} : y \notin DOMAIN f
      /\ f.pc = w /\ f.err = e
  OBVIOUS
<1>2. thread[t] \in Threads /\ Becomes(t, Update(thread[t], f))
  BY DEF Typed, Step, Becomes
<1> HIDE DEF f
<1>3. Update(thread[t], f) = Locals(w, thread[t].kind, thread[t].pos, thread[t].mine,
         thread[t].victim, thread[t].togo, thread[t].counted, thread[t].again, e,
         thread[t].ops)
  BY <1>1, <1>2, Fields
<1> QED
  BY <1>2, <1>3

LEMMA StepTogo ==
  ASSUME Typed, NEW t \in Datasets, NEW w, NEW s,
         Step(t, [pc |-> w, togo |-> s])
  PROVE  Becomes(t, Locals(w, thread[t].kind, thread[t].pos, thread[t].mine,
                           thread[t].victim, s, thread[t].counted, thread[t].again,
                           thread[t].err, thread[t].ops))
<1> DEFINE f == [pc |-> w, togo |-> s]
<1>1. /\ \A y \in {"pc", "togo"} : y \in DOMAIN f
      /\ \A y \in {"kind", "pos", "mine", "victim", "counted", "again", "err", "ops"} : y \notin DOMAIN f
      /\ f.pc = w /\ f.togo = s
  OBVIOUS
<1>2. thread[t] \in Threads /\ Becomes(t, Update(thread[t], f))
  BY DEF Typed, Step, Becomes
<1> HIDE DEF f
<1>3. Update(thread[t], f) = Locals(w, thread[t].kind, thread[t].pos, thread[t].mine,
         thread[t].victim, s, thread[t].counted, thread[t].again, thread[t].err,
         thread[t].ops)
  BY <1>1, <1>2, Fields
<1> QED
  BY <1>2, <1>3

LEMMA StepFlush ==
  ASSUME Typed, NEW t \in Datasets, NEW w, NEW i, NEW b, NEW s, NEW e,
         Step(t, [pc |-> w, pos |-> i, mine |-> b, togo |-> s, err |-> e])
  PROVE  Becomes(t, Locals(w, thread[t].kind, i, b, thread[t].victim, s,
                           thread[t].counted, thread[t].again, e, thread[t].ops))
<1> DEFINE f == [pc |-> w, pos |-> i, mine |-> b, togo |-> s, err |-> e]
<1>1. /\ \A y \in {"pc", "pos", "mine", "togo", "err"} : y \in DOMAIN f
      /\ \A y \in {"kind", "victim", "counted", "again", "ops"} : y \notin DOMAIN f
      /\ f.pc = w /\ f.pos = i /\ f.mine = b /\ f.togo = s /\ f.err = e
  OBVIOUS
<1>2. thread[t] \in Threads /\ Becomes(t, Update(thread[t], f))
  BY DEF Typed, Step, Becomes
<1> HIDE DEF f
<1>3. Update(thread[t], f) = Locals(w, thread[t].kind, i, b, thread[t].victim, s,
         thread[t].counted, thread[t].again, e, thread[t].ops)
  BY <1>1, <1>2, Fields
<1> QED
  BY <1>2, <1>3

-----------------------------------------------------------------------------
(***************************************************************************)
(* What a step makes of a block.                                           *)
(***************************************************************************)
LEMMA SetBlock ==
  ASSUME Typed, NEW d \in Datasets, NEW b \in Ids, NEW e \in Entries,
         block' = [block EXCEPT ![d][b] = e]
  PROVE  /\ block' \in [Datasets -> [Ids -> Entries]] /\ block'[d][b] = e
         /\ \A c \in Ids \ {b} : block'[d][c] = block[d][c]
         /\ \A c \in Datasets \ {d} : block'[c] = block[c]
  BY DEF Typed

LEMMA SetRow ==
  ASSUME Typed, NEW d \in Datasets, NEW f \in [Ids -> Entries],
         block' = [block EXCEPT ![d] = f]
  PROVE  /\ block' \in [Datasets -> [Ids -> Entries]] /\ block'[d] = f
         /\ \A c \in Datasets \ {d} : block'[c] = block[c]
  BY DEF Typed

LEMMA Blank ==
  /\ Deleted \in Entries
  /\ \A i \in {0} \cup Positions : Fresh(i) \in Entries
  /\ \A i \in {0} \cup Positions, n \in Int : [Fresh(i) EXCEPT !.lock = n] \in Entries
<1>1. Deleted \in Entries
  BY DEF Deleted, Entries
<1>2. ASSUME NEW i \in {0} \cup Positions
      PROVE  Fresh(i) \in Entries
  <2>1. [Deleted EXCEPT !.pos = i, !.live = TRUE] \in Entries
    <3> HIDE DEF Deleted
    <3> QED
      BY <1>1 DEF Entries
  <2> QED
    BY <2>1 DEF Fresh
<1>3. ASSUME NEW i \in {0} \cup Positions, NEW n \in Int
      PROVE  [Fresh(i) EXCEPT !.lock = n] \in Entries
  <2> DEFINE e == Fresh(i)
  <2>1. e \in Entries
    BY <1>2
  <2> HIDE DEF e
  <2>2. [e EXCEPT !.lock = n] \in Entries
    BY <2>1 DEF Entries
  <2> QED
    BY <2>2 DEF e
<1> QED
  BY <1>1, <1>2, <1>3

LEMMA DanglingRow ==
  ASSUME Typed, NEW t \in Datasets
  PROVE  Dangling(t, block[t]) \in [Ids -> Entries]
  BY Blank DEF Dangling, Typed

LEMMA UseEntry ==
  ASSUME NEW e \in Entries, NEW v \in Nat
  PROVE  [e EXCEPT !.lock = @ - 1, !.dirty = TRUE, !.val = v] \in Entries
<1> DEFINE n == e.lock - 1
<1>1. n \in Int
  BY DEF Entries
<1> HIDE DEF n
<1>2. [e EXCEPT !.lock = n, !.dirty = TRUE, !.val = v] \in Entries
  BY <1>1 DEF Entries
<1> QED
  BY <1>2 DEF n

LEMMA ClaimEntry ==
  ASSUME NEW e \in Entries
  PROVE  [e EXCEPT !.lock = -1, !.listed = FALSE] \in Entries
<1> DEFINE n == -1
<1>1. n \in Int
  OBVIOUS
<1> HIDE DEF n
<1>2. [e EXCEPT !.lock = n, !.listed = FALSE] \in Entries
  BY <1>1 DEF Entries
<1> QED
  BY <1>2 DEF n

LEMMA SetDisk ==
  ASSUME Typed, NEW d \in Datasets, NEW i, NEW v \in Nat
  PROVE  [disk EXCEPT ![d][i] = v] \in [Datasets -> [Positions -> Nat]]
  BY DEF Typed

LEMMA EndStep ==
  ASSUME Typed, NEW t \in Datasets, End(t)
  PROVE  Becomes(t, Locals("idle", IF thread[t].kind = "flush" THEN "flush" ELSE "none", 0,
                           NoBlock, NoVictim, <<>>, FALSE, FALSE, FALSE, thread[t].ops))
<1> DEFINE k == IF thread[t].kind = "flush" THEN "flush" ELSE "none"
           n == thread[t].ops
           r == [Idle EXCEPT !.kind = IF thread[t].kind = "flush" THEN "flush" ELSE @, !.ops = n]
<1>1. Idle.kind = "none" /\ r = [Idle EXCEPT !.kind = k, !.ops = n]
  BY DEF Idle
<1> HIDE DEF k, n
<1>2. [Idle EXCEPT !.kind = k, !.ops = n] = Locals("idle", k, 0, NoBlock, NoVictim, <<>>,
                                                   FALSE, FALSE, FALSE, n)
  <2> DEFINE R == [pc : {"idle"}, kind : {"none", k}, pos : {0}, mine : {NoBlock},
                   victim : {NoVictim}, togo : {<<>>}, counted : {FALSE}, again : {FALSE},
                   err : {FALSE}, ops : {0, n}]
             e == [Idle EXCEPT !.kind = k, !.ops = n]
  <2>1. Idle \in R
    BY DEF Idle
  <2>2. e \in R /\ e.kind = k /\ e.ops = n
    BY <2>1
  <2> HIDE DEF e
  <2>3. e = Locals("idle", k, 0, NoBlock, NoVictim, <<>>, FALSE, FALSE, FALSE, n)
    BY <2>2 DEF Locals
  <2> QED
    BY <2>3 DEF e
<1>3. Becomes(t, r)
  BY DEF End, Becomes, n
<1> QED
  BY <1>1, <1>2, <1>3 DEF k, n

(* The next slot that is not empty, from position i, is j, or there is     *)
(* none and j is 0.                                                        *)
NextSlot(t, i, j) ==
  /\ j \in {0} \cup Positions
  /\ j \in Positions => j >= i /\ slot[t][j] # NoBlock
  /\ \A k \in Positions : k >= i /\ (j \in Positions => k < j) => slot[t][k] = NoBlock

LEMMA FlushFromStep ==
  ASSUME Typed, NEW t \in Datasets, NEW i \in Nat, NEW e, Step(t, FlushFrom(t, i, e))
  PROVE  \E j : /\ NextSlot(t, i, j)
                /\ Becomes(t, Locals(IF j \in Positions THEN "take" ELSE "wait", thread[t].kind,
                                     j, NoBlock, thread[t].victim, <<>>, thread[t].counted,
                                     thread[t].again, e, thread[t].ops))
<1> DEFINE full == {j \in Positions : j >= i /\ slot[t][j] # NoBlock}
           w == IF full = {} THEN "wait" ELSE "take"
           j == IF full = {} THEN 0 ELSE Least(full)
<1>1. Positions \subseteq Nat \ {0}
  BY CacheAssumption, FS_CardinalityType
<1>2. full # {} => Least(full) \in full /\ \A m \in full : Least(full) <= m
  BY <1>1, LeastIn
<1>3. NextSlot(t, i, j) /\ w = IF j \in Positions THEN "take" ELSE "wait"
  <2>1. CASE full = {}
    <3>1. \A k \in Positions : k >= i => slot[t][k] = NoBlock
      BY <2>1
    <3> QED
      BY <1>1, <2>1, <3>1 DEF NextSlot
  <2>2. CASE full # {}
    <3>1. /\ j = Least(full) /\ j \in Positions /\ j >= i /\ slot[t][j] # NoBlock
          /\ \A k \in Positions : k >= i /\ slot[t][k] # NoBlock => j <= k
      BY <1>2, <2>2
    <3> HIDE DEF j
    <3>2. \A k \in Positions : k >= i /\ k < j => slot[t][k] = NoBlock
      BY <1>1, <3>1
    <3> QED
      BY <1>1, <2>2, <3>1, <3>2 DEF NextSlot
  <2> QED
    BY <2>1, <2>2
<1>4. Step(t, [pc |-> w, pos |-> j, mine |-> NoBlock, togo |-> <<>>, err |-> e])
  BY DEF FlushFrom
<1> HIDE DEF w, j
<1>5. Becomes(t, Locals(w, thread[t].kind, j, NoBlock, thread[t].victim, <<>>,
                        thread[t].counted, thread[t].again, e, thread[t].ops))
  BY <1>4, StepFlush
<1> QED
  BY <1>3, <1>5

LEMMA StepIdle ==
  ASSUME Typed, NEW t \in Datasets, NEW w, NEW k, Step(t, [Idle EXCEPT !.pc = w, !.kind = k])
  PROVE  Becomes(t, Locals(w, k, 0, NoBlock, NoVictim, <<>>, FALSE, FALSE, FALSE, 0))
<1> DEFINE R == [pc : {"idle", w}, kind : {"none", k}, pos : {0}, mine : {NoBlock},
                 victim : {NoVictim}, togo : {<<>>}, counted : {FALSE}, again : {FALSE},
                 err : {FALSE}, ops : {0}]
           f == [Idle EXCEPT !.pc = w, !.kind = k]
<1>1. Idle \in R
  BY DEF Idle
<1>2. f \in R /\ f.pc = w /\ f.kind = k
  BY <1>1
<1>3. thread[t] \in Threads /\ Becomes(t, Update(thread[t], f))
  BY DEF Typed, Step, Becomes
<1> HIDE DEF f
<1>4. \A y \in {"pc", "kind", "pos", "mine", "victim", "togo", "counted", "again", "err",
                "ops"} : y \in DOMAIN f
  BY <1>2
<1>5. Update(thread[t], f) = Locals(w, k, 0, NoBlock, NoVictim, <<>>, FALSE, FALSE, FALSE, 0)
  <2>1. Update(thread[t], f) = Locals(f.pc, f.kind, f.pos, f.mine, f.victim, f.togo,
                                      f.counted, f.again, f.err, f.ops)
    BY <1>3, <1>4, Fields
  <2> QED
    BY <1>2, <2>1
<1> QED
  BY <1>3, <1>5

(* The blocks in a thread's hands.                                         *)
LEMMA TogoAppend ==
  ASSUME NEW s \in Seq(AllBlocks), NEW x \in AllBlocks, NoTwice(s), \A i \in DOMAIN s : s[i] # x
  PROVE  /\ Append(s, x) \in Seq(AllBlocks) /\ NoTwice(Append(s, x)) /\ Append(s, x) # <<>>
         /\ \A y : (\E i \in DOMAIN Append(s, x) : Append(s, x)[i] = y)
                     <=> y = x \/ \E i \in DOMAIN s : s[i] = y
<1> DEFINE a == Append(s, x)
<1>1. /\ a \in Seq(AllBlocks) /\ Len(a) = Len(s) + 1 /\ a # <<>> /\ Len(s) \in Nat
      /\ a[Len(s) + 1] = x /\ \A i \in 1 .. Len(s) : a[i] = s[i]
  OBVIOUS
<1>2. DOMAIN a = 1 .. Len(s) + 1 /\ DOMAIN s = 1 .. Len(s)
  OBVIOUS
<1> HIDE DEF a
<1>3. NoTwice(a)
  BY <1>1, <1>2 DEF NoTwice
<1>4. ASSUME NEW y
      PROVE  (\E i \in DOMAIN a : a[i] = y) <=> y = x \/ \E i \in DOMAIN s : s[i] = y
  <2>1. ASSUME NEW i \in DOMAIN s
        PROVE  i \in DOMAIN a /\ a[i] = s[i]
    BY <1>1, <1>2
  <2>2. Len(s) + 1 \in DOMAIN a /\ a[Len(s) + 1] = x
    BY <1>1, <1>2
  <2>3. \A i \in DOMAIN a : i = Len(s) + 1 \/ i \in DOMAIN s
    BY <1>1, <1>2
  <2> QED
    BY <2>1, <2>2, <2>3
<1> QED
  BY <1>1, <1>3, <1>4 DEF a

LEMMA TogoTail ==
  ASSUME NEW s \in Seq(AllBlocks), s # <<>>, NoTwice(s)
  PROVE  /\ Tail(s) \in Seq(AllBlocks) /\ NoTwice(Tail(s)) /\ s[1] \in AllBlocks /\ 1 \in DOMAIN s
         /\ \A y : (\E i \in DOMAIN Tail(s) : Tail(s)[i] = y)
                     <=> y # s[1] /\ \E i \in DOMAIN s : s[i] = y
<1> DEFINE a == Tail(s)
<1>1. /\ Len(s) \in Nat /\ Len(s) >= 1 /\ a \in Seq(AllBlocks) /\ Len(a) = Len(s) - 1
      /\ \A i \in 1 .. Len(a) : a[i] = s[i + 1]
  OBVIOUS
<1>2. DOMAIN a = 1 .. Len(s) - 1 /\ DOMAIN s = 1 .. Len(s)
  BY <1>1
<1> HIDE DEF a
<1>3. NoTwice(a)
  <2>1. ASSUME NEW i \in DOMAIN a, NEW j \in DOMAIN a, a[i] = a[j]
        PROVE  i = j
    <3>1. /\ i + 1 \in DOMAIN s /\ j + 1 \in DOMAIN s /\ i \in Int /\ j \in Int
          /\ a[i] = s[i + 1] /\ a[j] = s[j + 1]
      BY <1>1, <1>2
    <3>2. i + 1 = j + 1
      BY <2>1, <3>1 DEF NoTwice
    <3> QED
      BY <3>1, <3>2
  <2> QED
    BY <2>1 DEF NoTwice
<1>4. 1 \in DOMAIN s /\ s[1] \in AllBlocks
  BY <1>1, <1>2
<1>5. ASSUME NEW y
      PROVE  (\E i \in DOMAIN a : a[i] = y) <=> y # s[1] /\ \E i \in DOMAIN s : s[i] = y
  <2>1. ASSUME NEW i \in DOMAIN a
        PROVE  i + 1 \in DOMAIN s /\ a[i] = s[i + 1] /\ i + 1 # 1
    BY <1>1, <1>2
  <2>2. ASSUME NEW i \in DOMAIN s, i # 1
        PROVE  i - 1 \in DOMAIN a /\ a[i - 1] = s[i]
    <3>1. i \in Int /\ i - 1 \in DOMAIN a
      BY <1>1, <1>2, <2>2
    <3>2. a[i - 1] = s[(i - 1) + 1]
      BY <1>1, <1>2, <3>1
    <3> QED
      BY <3>1, <3>2
  <2>3. \A i \in DOMAIN a : a[i] # s[1]
    BY <1>4, <2>1 DEF NoTwice
  <2> QED
    BY <2>1, <2>2, <2>3
<1> QED
  BY <1>1, <1>3, <1>4, <1>5 DEF a

LEMMA OneHand ==
  ASSUME NEW t \in Datasets, NEW b \in Ids
  PROVE  LET s == <<<<t, b>>>> IN
         s \in Seq(AllBlocks) /\ NoTwice(s) /\ s # <<>> /\ DOMAIN s = {1} /\ s[1] = <<t, b>> /\ s[1] # NoVictim
  BY DEF NoTwice, AllBlocks, NoVictim
-----------------------------------------------------------------------------
(***************************************************************************)
(* Types and control, step by step.                                        *)
(***************************************************************************)
LocalOK(t, r) == KindOf(r) /\ MineOf(r) /\ HandOf(t, r) /\ CountOf(r)

LEMMA Pairs ==
  \A x \in AllBlocks : x[1] \in Datasets /\ x[2] \in Ids /\ x = <<x[1], x[2]>> /\ x # NoVictim
  BY DEF AllBlocks, NoVictim

LEMMA LocalNow ==
  ASSUME Typed, Control, NEW t \in Datasets
  PROVE  /\ thread[t] \in Threads /\ LocalOK(t, thread[t])
         /\ hRBLock = t <=> thread[t].pc \in Scanning
  BY DEF Typed, Control, LocalOK

(* A thread changes its own record only, and takes or releases hRBLock     *)
(* only for itself.                                                        *)
LEMMA ControlFrame ==
  ASSUME Typed, Control, NEW t \in Datasets, NEW r \in Threads, Becomes(t, r), LocalOK(t, r),
         \/ hRBLock' = hRBLock /\ (r.pc \in Scanning <=> thread[t].pc \in Scanning)
         \/ hRBLock = Nobody /\ hRBLock' = t /\ r.pc \in Scanning
         \/ hRBLock = t /\ hRBLock' = Nobody /\ r.pc \notin Scanning
  PROVE  Control' /\ thread' \in [Datasets -> Threads]
<1>1. thread' \in [Datasets -> Threads] /\ thread'[t] = r
      /\ \A u \in Datasets \ {t} : thread'[u] = thread[u]
  BY DEF Becomes, Typed
<1>2. ASSUME NEW u \in Datasets
      PROVE  /\ (hRBLock = u <=> thread[u].pc \in Scanning)'
             /\ (KindOf(thread[u]) /\ MineOf(thread[u]) /\ HandOf(u, thread[u]) /\ CountOf(thread[u]))'
  <2>1. CASE u = t
    <3>1. LocalOK(t, thread[t])'
      BY <1>1 DEF LocalOK, KindOf, MineOf, HandOf, CountOf
    <3>2. (hRBLock = t <=> thread[t].pc \in Scanning)'
      BY <1>1, CacheAssumption, LocalNow
    <3> QED
      BY <2>1, <3>1, <3>2 DEF LocalOK
  <2>2. CASE u # t
    <3>1. thread'[u] = thread[u]
      BY <1>1, <2>2
    <3>2. LocalOK(u, thread[u])'
      BY <3>1, LocalNow DEF LocalOK, KindOf, MineOf, HandOf, CountOf
    <3>3. (hRBLock = u <=> thread[u].pc \in Scanning)'
      BY <2>2, <3>1, CacheAssumption, LocalNow DEF Typed
    <3> QED
      BY <3>2, <3>3 DEF LocalOK
  <2> QED
    BY <2>1, <2>2
<1> QED
  BY <1>1, <1>2 DEF Control

LEMMA WaitPendingStep ==
  ASSUME Typed, Control, NEW t \in Datasets, WaitPending(t)
  PROVE  LET old == thread[t] IN
         /\ old.pc = "pending"
         /\ Becomes(t, Locals("enter", old.kind, old.pos, old.mine, old.victim, old.togo,
                              old.counted, old.again, old.err, old.ops))
         /\ Typed' /\ Control'
<1> DEFINE old == thread[t]
           r == Locals("enter", old.kind, old.pos, old.mine, old.victim, old.togo,
                       old.counted, old.again, old.err, old.ops)
<1>1. old \in Threads /\ LocalOK(t, old) /\ (hRBLock = t <=> old.pc \in Scanning)
  BY LocalNow
<1>2. old.pc = "pending" /\ Becomes(t, r)
  BY <1>1, StepPc DEF WaitPending, Goto, At
<1> HIDE DEF old
<1>3. r \in Threads
  BY <1>1, <1>2 DEF Typed, LocalOK, KindOf, MineOf, Locals, Threads, Pcs, Requests, Flushing,
    Scanning, Freeing
<1>4. LocalOK(t, r)
  <2>1. r.pc = "enter" /\  r.kind = old.kind /\  r.pos = old.pos /\  r.mine = old.mine /\ 
        r.victim = old.victim /\  r.togo = old.togo /\  r.counted = old.counted /\ 
        r.again = old.again /\  r.err = old.err /\  r.ops = old.ops
    BY DEF Locals
  <2> HIDE DEF r
  <2>2. KindOf(r)
    BY <1>1, <1>2, <1>3, <2>1 DEF LocalOK, KindOf, HandOf, CountOf, Threads, Requests,
      Flushing, Scanning, Freeing
  <2>3. MineOf(r)
    BY <1>1, <1>2, <1>3, <2>1 DEF LocalOK, KindOf, MineOf, Threads, Requests, Flushing,
      Scanning, Freeing, Typed
  <2>4. HandOf(t, r)
    BY <1>1, <1>2, <1>3, <2>1 DEF LocalOK, KindOf, MineOf, HandOf, Threads, Requests,
      Flushing, Scanning, Freeing
  <2>5. CountOf(r)
    BY <1>1, <1>2, <1>3, <2>1 DEF LocalOK, KindOf, CountOf, Threads, Requests, Flushing,
      Scanning, Freeing
  <2> QED
    BY <2>2, <2>3, <2>4, <2>5 DEF LocalOK
<1>5. Control' /\ thread' \in [Datasets -> Threads]
  BY <1>1, <1>2, <1>3, <1>4, ControlFrame DEF WaitPending, Goto, cache, Scanning, Locals, old
<1>6. Typed'
  BY <1>5 DEF Typed, WaitPending, Goto, cache, band, history
<1> QED
  BY <1>2, <1>5, <1>6 DEF old

LEMMA LookupStep ==
  ASSUME Typed, Control, NEW t \in Datasets, Lookup(t)
  PROVE  LET old == thread[t] IN
         /\ old.pc = "lookup" /\ slot[t][old.pos] # NoBlock
         /\ Becomes(t, Locals("addlock", old.kind, old.pos, slot[t][old.pos], old.victim,
                              old.togo, old.counted, old.again, old.err, old.ops))
         /\ Typed' /\ Control'
<1> DEFINE old == thread[t]
           r == Locals("addlock", old.kind, old.pos, slot[t][old.pos], old.victim,
                       old.togo, old.counted, old.again, old.err, old.ops)
<1>1. old \in Threads /\ LocalOK(t, old) /\ (hRBLock = t <=> old.pc \in Scanning)
  BY LocalNow
<1>2. old.pc = "lookup" /\ slot[t][old.pos] # NoBlock /\ Becomes(t, r)
  BY <1>1, StepMine DEF Lookup, At
<1> HIDE DEF old
<1>3. r \in Threads
  BY <1>1, <1>2 DEF Typed, LocalOK, KindOf, MineOf, Locals, Threads, Pcs, Requests, Flushing,
    Scanning, Freeing
<1>4. LocalOK(t, r)
  <2>1. r.pc = "addlock" /\  r.kind = old.kind /\  r.pos = old.pos /\ 
        r.mine = slot[t][old.pos] /\  r.victim = old.victim /\  r.togo = old.togo /\ 
        r.counted = old.counted /\  r.again = old.again /\  r.err = old.err /\ 
        r.ops = old.ops
    BY DEF Locals
  <2> HIDE DEF r
  <2>2. KindOf(r)
    BY <1>1, <1>2, <1>3, <2>1 DEF LocalOK, KindOf, HandOf, CountOf, Threads, Requests,
      Flushing, Scanning, Freeing
  <2>3. MineOf(r)
    BY <1>1, <1>2, <1>3, <2>1 DEF LocalOK, KindOf, MineOf, Threads, Requests, Flushing,
      Scanning, Freeing, Typed
  <2>4. HandOf(t, r)
    BY <1>1, <1>2, <1>3, <2>1 DEF LocalOK, KindOf, MineOf, HandOf, Threads, Requests,
      Flushing, Scanning, Freeing
  <2>5. CountOf(r)
    BY <1>1, <1>2, <1>3, <2>1 DEF LocalOK, KindOf, CountOf, Threads, Requests, Flushing,
      Scanning, Freeing
  <2> QED
    BY <2>2, <2>3, <2>4, <2>5 DEF LocalOK
<1>5. Control' /\ thread' \in [Datasets -> Threads]
  BY <1>1, <1>2, <1>3, <1>4, ControlFrame DEF Lookup, cache, Scanning, Locals, old
<1>6. Typed'
  BY <1>5 DEF Typed, Lookup, cache, band, history
<1> QED
  BY <1>2, <1>5, <1>6 DEF old

LEMMA EnterStep ==
  ASSUME Typed, Control, NEW t \in Datasets, EnterReadWrite(t)
  PROVE  LET old == thread[t] IN
         /\ old.pc = "enter"
         /\ Becomes(t, Locals(
                              IF old.kind # "read" /\ flushErr[t] THEN "leave" ELSE "lookup",
                              old.kind, old.pos, old.mine, old.victim, old.togo,
                              old.counted, old.again, old.err, old.ops))
         /\ Typed' /\ Control'
<1> DEFINE old == thread[t]
           r == Locals(IF old.kind # "read" /\ flushErr[t] THEN "leave" ELSE "lookup",
                       old.kind, old.pos, old.mine, old.victim, old.togo, old.counted,
                       old.again, old.err, old.ops)
<1>1. old \in Threads /\ LocalOK(t, old) /\ (hRBLock = t <=> old.pc \in Scanning)
  BY LocalNow
<1>2. old.pc = "enter" /\ Becomes(t, r)
  BY <1>1, StepPc DEF EnterReadWrite, Goto, At
<1> HIDE DEF old
<1>3. r \in Threads
  BY <1>1, <1>2 DEF Typed, LocalOK, KindOf, MineOf, Locals, Threads, Pcs, Requests, Flushing,
    Scanning, Freeing
<1>4. LocalOK(t, r)
  <2>1. r.pc = (IF old.kind # "read" /\ flushErr[t] THEN "leave" ELSE "lookup") /\ 
        r.kind = old.kind /\  r.pos = old.pos /\  r.mine = old.mine /\  r.victim = old.victim
        /\  r.togo = old.togo /\  r.counted = old.counted /\  r.again = old.again /\ 
        r.err = old.err /\  r.ops = old.ops
    BY DEF Locals
  <2> HIDE DEF r
  <2>2. KindOf(r)
    BY <1>1, <1>2, <1>3, <2>1 DEF LocalOK, KindOf, HandOf, CountOf, Threads, Requests,
      Flushing, Scanning, Freeing
  <2>3. MineOf(r)
    BY <1>1, <1>2, <1>3, <2>1 DEF LocalOK, KindOf, MineOf, Threads, Requests, Flushing,
      Scanning, Freeing, Typed
  <2>4. HandOf(t, r)
    BY <1>1, <1>2, <1>3, <2>1 DEF LocalOK, KindOf, MineOf, HandOf, Threads, Requests,
      Flushing, Scanning, Freeing
  <2>5. CountOf(r)
    BY <1>1, <1>2, <1>3, <2>1 DEF LocalOK, KindOf, CountOf, Threads, Requests, Flushing,
      Scanning, Freeing
  <2> QED
    BY <2>2, <2>3, <2>4, <2>5 DEF LocalOK
<1>5. Control' /\ thread' \in [Datasets -> Threads]
  BY <1>1, <1>2, <1>3, <1>4, ControlFrame DEF EnterReadWrite, Goto, cache, Scanning, Locals,
    old
<1>6. Typed'
  <2>1. UNCHANGED <<hRBLock, nCacheUsed, block, slot, freeList, keepAlive, disk, written,
    raced>>
    BY DEF EnterReadWrite, Goto, cache, band, history
  <2>2. /\ rwMutex' \in [Datasets -> {Nobody} \cup Datasets]
        /\ \A u \in Datasets : rwMutex'[u] \in {Nobody, u}
    BY DEF Typed, EnterReadWrite, Goto
  <2>3. flushErr' \in [Datasets -> BOOLEAN]
    BY DEF Typed, EnterReadWrite, Goto, Report
  <2>4. unreported' \in [Datasets -> BOOLEAN]
    BY DEF Typed, EnterReadWrite, Goto, Report
  <2> QED
    BY <1>5, <2>1, <2>2, <2>3, <2>4 DEF Typed
<1> QED
  BY <1>2, <1>5, <1>6 DEF old

LEMMA AddLockStep ==
  ASSUME Typed, Control, NEW t \in Datasets, AddLock(t)
  PROVE  LET old == thread[t] IN
         /\ old.pc = "addlock"
         /\ Becomes(t, Locals(IF block[t][old.mine].lock = -1 THEN "unlock" ELSE "use",
                              old.kind, old.pos, old.mine, old.victim, old.togo,
                              old.counted, old.again, old.err, old.ops))
         /\ Typed' /\ Control'
<1> DEFINE old == thread[t]
           r == Locals(IF block[t][old.mine].lock = -1 THEN "unlock" ELSE "use", old.kind,
                       old.pos, old.mine, old.victim, old.togo, old.counted, old.again,
                       old.err, old.ops)
<1>1. old \in Threads /\ LocalOK(t, old) /\ (hRBLock = t <=> old.pc \in Scanning)
  BY LocalNow
<1>2. old.pc = "addlock" /\ Becomes(t, r)
  BY <1>1, StepPc DEF AddLock, Goto, BeingEvicted, Mine, SetMine, At
<1> HIDE DEF old
<1>3. r \in Threads
  BY <1>1, <1>2 DEF Typed, LocalOK, KindOf, MineOf, Locals, Threads, Pcs, Requests, Flushing,
    Scanning, Freeing
<1>4. LocalOK(t, r)
  <2>1. r.pc = (IF block[t][old.mine].lock = -1 THEN "unlock" ELSE "use") /\ 
        r.kind = old.kind /\  r.pos = old.pos /\  r.mine = old.mine /\  r.victim = old.victim
        /\  r.togo = old.togo /\  r.counted = old.counted /\  r.again = old.again /\ 
        r.err = old.err /\  r.ops = old.ops
    BY DEF Locals
  <2> HIDE DEF r
  <2>2. KindOf(r)
    BY <1>1, <1>2, <1>3, <2>1 DEF LocalOK, KindOf, HandOf, CountOf, Threads, Requests,
      Flushing, Scanning, Freeing
  <2>3. MineOf(r)
    BY <1>1, <1>2, <1>3, <2>1 DEF LocalOK, KindOf, MineOf, Threads, Requests, Flushing,
      Scanning, Freeing, Typed
  <2>4. HandOf(t, r)
    BY <1>1, <1>2, <1>3, <2>1 DEF LocalOK, KindOf, MineOf, HandOf, Threads, Requests,
      Flushing, Scanning, Freeing
  <2>5. CountOf(r)
    BY <1>1, <1>2, <1>3, <2>1 DEF LocalOK, KindOf, CountOf, Threads, Requests, Flushing,
      Scanning, Freeing
  <2> QED
    BY <2>2, <2>3, <2>4, <2>5 DEF LocalOK
<1>5. Control' /\ thread' \in [Datasets -> Threads]
  BY <1>1, <1>2, <1>3, <1>4, ControlFrame DEF AddLock, Goto, BeingEvicted, Mine, SetMine,
    cache, Scanning, Locals, old
<1>6. Typed'
  <2>1. UNCHANGED <<hRBLock, nCacheUsed, slot, freeList, keepAlive, flushErr, rwMutex, disk,
    written, raced, unreported>>
    BY DEF AddLock, Goto, BeingEvicted, Mine, SetMine, cache, band, history
  <2>2. thread[t].mine \in Ids /\ t \in Datasets
    BY <1>1, <1>2 DEF old, LocalOK, MineOf, Freeing, Scanning, Requests, Flushing, Typed
  <2>3. Mine(t) \in Entries
    BY <2>2 DEF Mine, The, Typed
  <2>4. [Mine(t) EXCEPT !.lock = @ + 1] \in Entries
    BY <2>3 DEF Entries
  <2>5. block' = [block EXCEPT ![t][thread[t].mine] = [Mine(t) EXCEPT !.lock = @ + 1]]
    BY DEF AddLock, Goto, BeingEvicted, Mine, SetMine
  <2>6. block' \in [Datasets -> [Ids -> Entries]]
    BY <2>3, <2>2, <2>4, <2>5, SetBlock
  <2> QED
    BY <1>5, <2>1, <2>2, <2>3, <2>4, <2>5, <2>6 DEF Typed
<1> QED
  BY <1>2, <1>5, <1>6 DEF old

LEMMA TakeLockFailsStep ==
  ASSUME Typed, Control, NEW t \in Datasets, TakeLockFails(t)
  PROVE  LET old == thread[t] IN
         /\ old.pc = "unlock"
         /\ Becomes(t, Locals("create", old.kind, old.pos, NoBlock, old.victim, old.togo,
                              old.counted, old.again, old.err, old.ops))
         /\ Typed' /\ Control'
<1> DEFINE old == thread[t]
           r == Locals("create", old.kind, old.pos, NoBlock, old.victim, old.togo,
                       old.counted, old.again, old.err, old.ops)
<1>1. old \in Threads /\ LocalOK(t, old) /\ (hRBLock = t <=> old.pc \in Scanning)
  BY LocalNow
<1>2. old.pc = "unlock" /\ Becomes(t, r)
  BY <1>1, StepMine DEF TakeLockFails, Mine, SetMine, At
<1> HIDE DEF old
<1>3. r \in Threads
  BY <1>1, <1>2 DEF Typed, LocalOK, KindOf, MineOf, Locals, Threads, Pcs, Requests, Flushing,
    Scanning, Freeing
<1>4. LocalOK(t, r)
  <2>1. r.pc = "create" /\  r.kind = old.kind /\  r.pos = old.pos /\  r.mine = NoBlock /\ 
        r.victim = old.victim /\  r.togo = old.togo /\  r.counted = old.counted /\ 
        r.again = old.again /\  r.err = old.err /\  r.ops = old.ops
    BY DEF Locals
  <2> HIDE DEF r
  <2>2. KindOf(r)
    BY <1>1, <1>2, <1>3, <2>1 DEF LocalOK, KindOf, HandOf, CountOf, Threads, Requests,
      Flushing, Scanning, Freeing
  <2>3. MineOf(r)
    BY <1>1, <1>2, <1>3, <2>1 DEF LocalOK, KindOf, MineOf, Threads, Requests, Flushing,
      Scanning, Freeing, Typed
  <2>4. HandOf(t, r)
    BY <1>1, <1>2, <1>3, <2>1 DEF LocalOK, KindOf, MineOf, HandOf, Threads, Requests,
      Flushing, Scanning, Freeing
  <2>5. CountOf(r)
    BY <1>1, <1>2, <1>3, <2>1 DEF LocalOK, KindOf, CountOf, Threads, Requests, Flushing,
      Scanning, Freeing
  <2> QED
    BY <2>2, <2>3, <2>4, <2>5 DEF LocalOK
<1>5. Control' /\ thread' \in [Datasets -> Threads]
  BY <1>1, <1>2, <1>3, <1>4, ControlFrame DEF TakeLockFails, Mine, SetMine, cache, Scanning,
    Locals, old
<1>6. Typed'
  <2>1. UNCHANGED <<hRBLock, nCacheUsed, slot, freeList, keepAlive, flushErr, rwMutex, disk,
    written, raced, unreported>>
    BY DEF TakeLockFails, Mine, SetMine, cache, band, history
  <2>2. thread[t].mine \in Ids /\ t \in Datasets
    BY <1>1, <1>2 DEF old, LocalOK, MineOf, Freeing, Scanning, Requests, Flushing, Typed
  <2>3. Mine(t) \in Entries
    BY <2>2 DEF Mine, The, Typed
  <2>4. [Mine(t) EXCEPT !.lock = @ - 1] \in Entries
    BY <2>3 DEF Entries
  <2>5. block' = [block EXCEPT ![t][thread[t].mine] = [Mine(t) EXCEPT !.lock = @ - 1]]
    BY DEF TakeLockFails, Mine, SetMine
  <2>6. block' \in [Datasets -> [Ids -> Entries]]
    BY <2>3, <2>2, <2>4, <2>5, SetBlock
  <2> QED
    BY <1>5, <2>1, <2>2, <2>3, <2>4, <2>5, <2>6 DEF Typed
<1> QED
  BY <1>2, <1>5, <1>6 DEF old

LEMMA UseReadStep ==
  ASSUME Typed, Control, NEW t \in Datasets, Use(t), thread[t].kind = "read"
  PROVE  LET old == thread[t] IN
         /\ old.pc = "use" /\ (old.kind = "read")
         /\ Becomes(t, Locals("leave", old.kind, old.pos, old.mine, old.victim, old.togo,
                              old.counted, old.again, old.err, old.ops))
         /\ Typed' /\ Control'
<1> DEFINE old == thread[t]
           r == Locals("leave", old.kind, old.pos, old.mine, old.victim, old.togo,
                       old.counted, old.again, old.err, old.ops)
<1>1. old \in Threads /\ LocalOK(t, old) /\ (hRBLock = t <=> old.pc \in Scanning)
  BY LocalNow
<1>2. old.pc = "use" /\ (old.kind = "read") /\ Becomes(t, r)
  BY <1>1, StepPc DEF Use, Goto, SetMine, At
<1> HIDE DEF old
<1>3. r \in Threads
  BY <1>1, <1>2 DEF Typed, LocalOK, KindOf, MineOf, Locals, Threads, Pcs, Requests, Flushing,
    Scanning, Freeing
<1>4. LocalOK(t, r)
  <2>1. r.pc = "leave" /\  r.kind = old.kind /\  r.pos = old.pos /\  r.mine = old.mine /\ 
        r.victim = old.victim /\  r.togo = old.togo /\  r.counted = old.counted /\ 
        r.again = old.again /\  r.err = old.err /\  r.ops = old.ops
    BY DEF Locals
  <2> HIDE DEF r
  <2>2. KindOf(r)
    BY <1>1, <1>2, <1>3, <2>1 DEF LocalOK, KindOf, HandOf, CountOf, Threads, Requests,
      Flushing, Scanning, Freeing
  <2>3. MineOf(r)
    BY <1>1, <1>2, <1>3, <2>1 DEF LocalOK, KindOf, MineOf, Threads, Requests, Flushing,
      Scanning, Freeing, Typed
  <2>4. HandOf(t, r)
    BY <1>1, <1>2, <1>3, <2>1 DEF LocalOK, KindOf, MineOf, HandOf, Threads, Requests,
      Flushing, Scanning, Freeing
  <2>5. CountOf(r)
    BY <1>1, <1>2, <1>3, <2>1 DEF LocalOK, KindOf, CountOf, Threads, Requests, Flushing,
      Scanning, Freeing
  <2> QED
    BY <2>2, <2>3, <2>4, <2>5 DEF LocalOK
<1>5. Control' /\ thread' \in [Datasets -> Threads]
  BY <1>1, <1>2, <1>3, <1>4, ControlFrame DEF Use, Goto, SetMine, cache, Scanning, Locals,
    old
<1>6. Typed'
  <2>1. UNCHANGED <<hRBLock, nCacheUsed, slot, freeList, keepAlive, flushErr, rwMutex, disk,
    raced, unreported>>
    BY DEF Use, Goto, SetMine, cache, band, history
  <2>2. written' \in [Datasets -> [Positions -> Nat]]
    BY DEF Typed, Use, Goto, SetMine
  <2>3. thread[t].mine \in Ids /\ t \in Datasets
    BY <1>1, <1>2 DEF old, LocalOK, MineOf, Freeing, Scanning, Requests, Flushing, Typed
  <2>4. Mine(t) \in Entries
    BY <2>3 DEF Mine, The, Typed
  <2>5. [Mine(t) EXCEPT !.lock = @ - 1] \in Entries
    BY <2>4 DEF Entries
  <2>6. block' = [block EXCEPT ![t][thread[t].mine] = [Mine(t) EXCEPT !.lock = @ - 1]]
    BY DEF Use, Goto, SetMine
  <2>7. block' \in [Datasets -> [Ids -> Entries]]
    BY <2>4, <2>3, <2>5, <2>6, SetBlock
  <2> QED
    BY <1>5, <2>1, <2>2, <2>3, <2>4, <2>5, <2>6, <2>7 DEF Typed
<1> QED
  BY <1>2, <1>5, <1>6 DEF old

LEMMA UseStep ==
  ASSUME Typed, Control, NEW t \in Datasets, Use(t), thread[t].kind # "read"
  PROVE  LET old == thread[t] IN
         /\ old.pc = "use" /\ (old.kind # "read")
         /\ Becomes(t, Locals("leave", old.kind, old.pos, old.mine, old.victim, old.togo,
                              old.counted, old.again, old.err, old.ops))
         /\ Typed' /\ Control'
<1> DEFINE old == thread[t]
           r == Locals("leave", old.kind, old.pos, old.mine, old.victim, old.togo,
                       old.counted, old.again, old.err, old.ops)
<1>1. old \in Threads /\ LocalOK(t, old) /\ (hRBLock = t <=> old.pc \in Scanning)
  BY LocalNow
<1>2. old.pc = "use" /\ (old.kind # "read") /\ Becomes(t, r)
  BY <1>1, StepPc DEF Use, Goto, SetMine, At
<1> HIDE DEF old
<1>3. r \in Threads
  BY <1>1, <1>2 DEF Typed, LocalOK, KindOf, MineOf, Locals, Threads, Pcs, Requests, Flushing,
    Scanning, Freeing
<1>4. LocalOK(t, r)
  <2>1. r.pc = "leave" /\  r.kind = old.kind /\  r.pos = old.pos /\  r.mine = old.mine /\ 
        r.victim = old.victim /\  r.togo = old.togo /\  r.counted = old.counted /\ 
        r.again = old.again /\  r.err = old.err /\  r.ops = old.ops
    BY DEF Locals
  <2> HIDE DEF r
  <2>2. KindOf(r)
    BY <1>1, <1>2, <1>3, <2>1 DEF LocalOK, KindOf, HandOf, CountOf, Threads, Requests,
      Flushing, Scanning, Freeing
  <2>3. MineOf(r)
    BY <1>1, <1>2, <1>3, <2>1 DEF LocalOK, KindOf, MineOf, Threads, Requests, Flushing,
      Scanning, Freeing, Typed
  <2>4. HandOf(t, r)
    BY <1>1, <1>2, <1>3, <2>1 DEF LocalOK, KindOf, MineOf, HandOf, Threads, Requests,
      Flushing, Scanning, Freeing
  <2>5. CountOf(r)
    BY <1>1, <1>2, <1>3, <2>1 DEF LocalOK, KindOf, CountOf, Threads, Requests, Flushing,
      Scanning, Freeing
  <2> QED
    BY <2>2, <2>3, <2>4, <2>5 DEF LocalOK
<1>5. Control' /\ thread' \in [Datasets -> Threads]
  BY <1>1, <1>2, <1>3, <1>4, ControlFrame DEF Use, Goto, SetMine, cache, Scanning, Locals,
    old
<1>6. Typed'
  <2>1. UNCHANGED <<hRBLock, nCacheUsed, slot, freeList, keepAlive, flushErr, rwMutex, disk,
    raced, unreported>>
    BY DEF Use, Goto, SetMine, cache, band, history
  <2>2. thread[t].pos \in Positions
    BY <1>1, <1>2 DEF old, LocalOK, KindOf, MineOf
  <2>3. written[t][thread[t].pos] \in Nat
    BY <2>2 DEF Typed
  <2>4. written' = [written EXCEPT ![t][thread[t].pos] = written[t][thread[t].pos] + 1]
    BY DEF Use
  <2>5. written' \in [Datasets -> [Positions -> Nat]]
    BY <2>2, <2>3, <2>4 DEF Typed
  <2>6. thread[t].mine \in Ids /\ t \in Datasets
    BY <1>1, <1>2 DEF old, LocalOK, MineOf, Freeing, Scanning, Requests, Flushing, Typed
  <2>7. Mine(t) \in Entries
    BY <2>6 DEF Mine, The, Typed
  <2>8. [Mine(t) EXCEPT !.lock = @ - 1, !.dirty = TRUE, !.val = IF thread[t].kind = "write" THEN written[t][thread[t].pos] + 1 ELSE @ + 1] \in Entries
    <3> DEFINE v == IF thread[t].kind = "write" THEN written[t][thread[t].pos] + 1 ELSE Mine(t).val + 1
    <3>1. v \in Nat
      BY <2>3, <2>7 DEF Entries
    <3> HIDE DEF v
    <3>2. [Mine(t) EXCEPT !.lock = @ - 1, !.dirty = TRUE, !.val = v] \in Entries
      BY <2>7, <3>1, UseEntry
    <3> QED
      BY <3>2 DEF v
  <2>9. block' = [block EXCEPT ![t][thread[t].mine] = [Mine(t) EXCEPT !.lock = @ - 1, !.dirty = TRUE, !.val = IF thread[t].kind = "write" THEN written[t][thread[t].pos] + 1 ELSE @ + 1]]
    BY DEF Use, Goto, SetMine
  <2>10. block' \in [Datasets -> [Ids -> Entries]]
    BY <2>7, <2>6, <2>8, <2>9, SetBlock
  <2> QED
    BY <1>5, <2>1, <2>2, <2>3, <2>4, <2>5, <2>6, <2>7, <2>8, <2>9, <2>10 DEF Typed
<1> QED
  BY <1>2, <1>5, <1>6 DEF old

LEMMA LeaveStep ==
  ASSUME Typed, Control, NEW t \in Datasets, LeaveReadWrite(t)
  PROVE  LET old == thread[t] IN
         /\ old.pc = "leave"
         /\ Becomes(t, Locals("idle", IF old.kind = "flush" THEN "flush" ELSE "none", 0,
                              NoBlock, NoVictim, <<>>, FALSE, FALSE, FALSE, old.ops))
         /\ Typed' /\ Control'
<1> DEFINE old == thread[t]
           r == Locals("idle", IF old.kind = "flush" THEN "flush" ELSE "none", 0, NoBlock,
                       NoVictim, <<>>, FALSE, FALSE, FALSE, old.ops)
<1>1. old \in Threads /\ LocalOK(t, old) /\ (hRBLock = t <=> old.pc \in Scanning)
  BY LocalNow
<1>2. old.pc = "leave" /\ Becomes(t, r)
  BY <1>1, EndStep DEF LeaveReadWrite, At
<1> HIDE DEF old
<1>3. r \in Threads
  BY <1>1, <1>2 DEF Typed, LocalOK, KindOf, MineOf, Locals, Threads, Pcs, Requests, Flushing,
    Scanning, Freeing
<1>4. LocalOK(t, r)
  <2>1. r.pc = "idle" /\  r.kind = (IF old.kind = "flush" THEN "flush" ELSE "none") /\ 
        r.pos = 0 /\  r.mine = NoBlock /\  r.victim = NoVictim /\  r.togo = <<>> /\ 
        r.counted = FALSE /\  r.again = FALSE /\  r.err = FALSE /\  r.ops = old.ops
    BY DEF Locals
  <2> HIDE DEF r
  <2>2. KindOf(r)
    BY <1>1, <1>2, <1>3, <2>1 DEF LocalOK, KindOf, HandOf, CountOf, Threads, Requests,
      Flushing, Scanning, Freeing
  <2>3. MineOf(r)
    BY <1>1, <1>2, <1>3, <2>1 DEF LocalOK, KindOf, MineOf, Threads, Requests, Flushing,
      Scanning, Freeing, Typed
  <2>4. HandOf(t, r)
    BY <1>1, <1>2, <1>3, <2>1 DEF LocalOK, KindOf, MineOf, HandOf, Threads, Requests,
      Flushing, Scanning, Freeing
  <2>5. CountOf(r)
    BY <1>1, <1>2, <1>3, <2>1 DEF LocalOK, KindOf, CountOf, Threads, Requests, Flushing,
      Scanning, Freeing
  <2> QED
    BY <2>2, <2>3, <2>4, <2>5 DEF LocalOK
<1>5. Control' /\ thread' \in [Datasets -> Threads]
  BY <1>1, <1>2, <1>3, <1>4, ControlFrame DEF LeaveReadWrite, cache, Scanning, Locals, old
<1>6. Typed'
  <2>1. UNCHANGED <<hRBLock, nCacheUsed, block, slot, freeList, keepAlive, flushErr, disk,
    written, raced, unreported>>
    BY DEF LeaveReadWrite, cache, band, history
  <2>2. /\ rwMutex' \in [Datasets -> {Nobody} \cup Datasets]
        /\ \A u \in Datasets : rwMutex'[u] \in {Nobody, u}
    BY DEF Typed, LeaveReadWrite
  <2> QED
    BY <1>5, <2>1, <2>2 DEF Typed
<1> QED
  BY <1>2, <1>5, <1>6 DEF old

LEMMA CreateStep ==
  ASSUME Typed, Control, NEW t \in Datasets, CreateBlock(t)
  PROVE  LET old == thread[t] IN
         /\ /\ old.pc = "create" \/ (old.pc = "lookup" /\ slot[t][old.pos] = NoBlock)
      /\ Least(Available(t)) \in Available(t) /\ Least(Available(t)) \in Ids
     
         /\ Becomes(t, Locals("internalize", old.kind, old.pos, Least(Available(t)),
                              old.victim, old.togo, old.counted, old.again, old.err,
                              old.ops))
         /\ Typed' /\ Control'
<1> DEFINE old == thread[t]
           r == Locals("internalize", old.kind, old.pos, Least(Available(t)), old.victim,
                       old.togo, old.counted, old.again, old.err, old.ops)
<1>1. old \in Threads /\ LocalOK(t, old) /\ (hRBLock = t <=> old.pc \in Scanning)
  BY LocalNow
<1>2. /\ old.pc = "create" \/ (old.pc = "lookup" /\ slot[t][old.pos] = NoBlock)
      /\ Least(Available(t)) \in Available(t) /\ Least(Available(t)) \in Ids
      /\ Becomes(t, r)
  BY <1>1, StepMine, AvailableLeast DEF CreateBlock, At
<1> HIDE DEF old
<1>3. r \in Threads
  BY <1>1, <1>2 DEF Typed, LocalOK, KindOf, MineOf, Locals, Threads, Pcs, Requests, Flushing,
    Scanning, Freeing
<1>4. LocalOK(t, r)
  <2>1. r.pc = "internalize" /\  r.kind = old.kind /\  r.pos = old.pos /\ 
        r.mine = Least(Available(t)) /\  r.victim = old.victim /\  r.togo = old.togo /\ 
        r.counted = old.counted /\  r.again = old.again /\  r.err = old.err /\ 
        r.ops = old.ops
    BY DEF Locals
  <2> HIDE DEF r
  <2>2. KindOf(r)
    BY <1>1, <1>2, <1>3, <2>1 DEF LocalOK, KindOf, HandOf, CountOf, Threads, Requests,
      Flushing, Scanning, Freeing
  <2>3. MineOf(r)
    BY <1>1, <1>2, <1>3, <2>1 DEF LocalOK, KindOf, MineOf, Threads, Requests, Flushing,
      Scanning, Freeing, Typed
  <2>4. HandOf(t, r)
    BY <1>1, <1>2, <1>3, <2>1 DEF LocalOK, KindOf, MineOf, HandOf, Threads, Requests,
      Flushing, Scanning, Freeing
  <2>5. CountOf(r)
    BY <1>1, <1>2, <1>3, <2>1 DEF LocalOK, KindOf, CountOf, Threads, Requests, Flushing,
      Scanning, Freeing
  <2> QED
    BY <2>2, <2>3, <2>4, <2>5 DEF LocalOK
<1>5. Control' /\ thread' \in [Datasets -> Threads]
  BY <1>1, <1>2, <1>3, <1>4, ControlFrame DEF CreateBlock, cache, Scanning, Locals, old
<1>6. Typed'
  <2>1. UNCHANGED <<hRBLock, nCacheUsed, slot, keepAlive, flushErr, disk, written, raced,
    unreported>>
    BY DEF CreateBlock, cache, band, history
  <2>2. thread[t].pos \in Positions
    BY <1>1, <1>2 DEF old, LocalOK, KindOf, MineOf
  <2>3. freeList' \in [Datasets -> SUBSET Ids]
    BY DEF Typed, CreateBlock
  <2>4. /\ rwMutex' \in [Datasets -> {Nobody} \cup Datasets]
        /\ \A u \in Datasets : rwMutex'[u] \in {Nobody, u}
    BY DEF Typed, CreateBlock, TemporarilyDrop
  <2>5. Least(Available(t)) \in Ids /\ t \in Datasets
    BY <1>2 DEF Typed
  <2>6. [Fresh(thread[t].pos) EXCEPT !.lock = 1] \in Entries
    BY <2>5, <2>2, Blank
  <2>7. block' = [block EXCEPT ![t][Least(Available(t))] = [Fresh(thread[t].pos) EXCEPT !.lock = 1]]
    BY DEF CreateBlock
  <2>8. block' \in [Datasets -> [Ids -> Entries]]
    BY <2>5, <2>4, <2>6, <2>7, SetBlock
  <2> QED
    BY <1>5, <2>1, <2>2, <2>3, <2>4, <2>5, <2>6, <2>7, <2>8 DEF Typed
<1> QED
  BY <1>2, <1>5, <1>6 DEF old

LEMMA AdoptStep ==
  ASSUME Typed, Control, NEW t \in Datasets, Adopt(t)
  PROVE  LET old == thread[t] IN
         /\ old.pc = "reacquire"
         /\ Becomes(t, Locals("fill", old.kind, old.pos, old.mine, old.victim, old.togo,
                              old.counted, old.again, old.err, old.ops))
         /\ Typed' /\ Control'
<1> DEFINE old == thread[t]
           r == Locals("fill", old.kind, old.pos, old.mine, old.victim, old.togo,
                       old.counted, old.again, old.err, old.ops)
<1>1. old \in Threads /\ LocalOK(t, old) /\ (hRBLock = t <=> old.pc \in Scanning)
  BY LocalNow
<1>2. old.pc = "reacquire" /\ Becomes(t, r)
  BY <1>1, StepPc DEF Adopt, Goto, At
<1> HIDE DEF old
<1>3. r \in Threads
  BY <1>1, <1>2 DEF Typed, LocalOK, KindOf, MineOf, Locals, Threads, Pcs, Requests, Flushing,
    Scanning, Freeing
<1>4. LocalOK(t, r)
  <2>1. r.pc = "fill" /\  r.kind = old.kind /\  r.pos = old.pos /\  r.mine = old.mine /\ 
        r.victim = old.victim /\  r.togo = old.togo /\  r.counted = old.counted /\ 
        r.again = old.again /\  r.err = old.err /\  r.ops = old.ops
    BY DEF Locals
  <2> HIDE DEF r
  <2>2. KindOf(r)
    BY <1>1, <1>2, <1>3, <2>1 DEF LocalOK, KindOf, HandOf, CountOf, Threads, Requests,
      Flushing, Scanning, Freeing
  <2>3. MineOf(r)
    BY <1>1, <1>2, <1>3, <2>1 DEF LocalOK, KindOf, MineOf, Threads, Requests, Flushing,
      Scanning, Freeing, Typed
  <2>4. HandOf(t, r)
    BY <1>1, <1>2, <1>3, <2>1 DEF LocalOK, KindOf, MineOf, HandOf, Threads, Requests,
      Flushing, Scanning, Freeing
  <2>5. CountOf(r)
    BY <1>1, <1>2, <1>3, <2>1 DEF LocalOK, KindOf, CountOf, Threads, Requests, Flushing,
      Scanning, Freeing
  <2> QED
    BY <2>2, <2>3, <2>4, <2>5 DEF LocalOK
<1>5. Control' /\ thread' \in [Datasets -> Threads]
  BY <1>1, <1>2, <1>3, <1>4, ControlFrame DEF Adopt, Goto, cache, Scanning, Locals, old
<1>6. Typed'
  <2>1. UNCHANGED <<hRBLock, nCacheUsed, keepAlive, flushErr, disk, written, raced,
    unreported>>
    BY DEF Adopt, Goto, cache, band, history
  <2>2. thread[t].mine \in Ids
    BY <1>1, <1>2 DEF old, LocalOK, MineOf
  <2>3. /\ rwMutex' \in [Datasets -> {Nobody} \cup Datasets]
        /\ \A u \in Datasets : rwMutex'[u] \in {Nobody, u}
    BY DEF Typed, Adopt, Goto
  <2>4. slot' \in [Datasets -> [Positions -> {NoBlock} \cup Ids]]
    BY <2>2 DEF Typed, Adopt, Goto
  <2>5. freeList' \in [Datasets -> SUBSET Ids]
    BY DEF Typed, Adopt, Goto
  <2>6. block' = [block EXCEPT ![t] = Dangling(t, block[t])]
    BY DEF Adopt, Goto
  <2>7. block' \in [Datasets -> [Ids -> Entries]]
    BY <2>6, DanglingRow, SetRow
  <2> QED
    BY <1>5, <2>1, <2>2, <2>3, <2>4, <2>5, <2>6, <2>7 DEF Typed
<1> QED
  BY <1>2, <1>5, <1>6 DEF old

LEMMA RefuseStep ==
  ASSUME Typed, Control, NEW t \in Datasets, NEW kind \in Requests, NEW i \in Positions,
    RasterIO(t, kind, i), kind # "read", flushErr[t]
  PROVE  LET old == thread[t] IN
         /\ old.pc = "idle"
         /\ Becomes(t, Locals(old.pc, kind, old.pos, old.mine, old.victim, old.togo,
                              old.counted, old.again, old.err, old.ops + 1))
         /\ Typed' /\ Control'
<1> DEFINE old == thread[t]
           r == Locals(old.pc, kind, old.pos, old.mine, old.victim, old.togo, old.counted,
                       old.again, old.err, old.ops + 1)
<1>1. old \in Threads /\ LocalOK(t, old) /\ (hRBLock = t <=> old.pc \in Scanning)
  BY LocalNow
<1>2. old.pc = "idle" /\ Becomes(t, r)
  BY <1>1, StepRefuse DEF RasterIO, Asks, At
<1> HIDE DEF old
<1>3. r \in Threads
  BY <1>1, <1>2 DEF Typed, LocalOK, KindOf, MineOf, Locals, Threads, Pcs, Requests, Flushing,
    Scanning, Freeing
<1>4. LocalOK(t, r)
  <2>1. r.pc = old.pc /\  r.kind = kind /\  r.pos = old.pos /\  r.mine = old.mine /\ 
        r.victim = old.victim /\  r.togo = old.togo /\  r.counted = old.counted /\ 
        r.again = old.again /\  r.err = old.err /\  r.ops = old.ops + 1
    BY DEF Locals
  <2> HIDE DEF r
  <2>2. KindOf(r)
    BY <1>1, <1>2, <1>3, <2>1 DEF LocalOK, KindOf, HandOf, CountOf, Threads, Requests,
      Flushing, Scanning, Freeing
  <2>3. MineOf(r)
    BY <1>1, <1>2, <1>3, <2>1 DEF LocalOK, KindOf, MineOf, Threads, Requests, Flushing,
      Scanning, Freeing, Typed
  <2>4. HandOf(t, r)
    BY <1>1, <1>2, <1>3, <2>1 DEF LocalOK, KindOf, MineOf, HandOf, Threads, Requests,
      Flushing, Scanning, Freeing
  <2>5. CountOf(r)
    BY <1>1, <1>2, <1>3, <2>1 DEF LocalOK, KindOf, CountOf, Threads, Requests, Flushing,
      Scanning, Freeing
  <2> QED
    BY <2>2, <2>3, <2>4, <2>5 DEF LocalOK
<1>5. Control' /\ thread' \in [Datasets -> Threads]
  BY <1>1, <1>2, <1>3, <1>4, ControlFrame DEF RasterIO, Asks, cache, Scanning, Locals, old
<1>6. Typed'
  <2>1. UNCHANGED <<hRBLock, nCacheUsed, block, slot, freeList, keepAlive, rwMutex, disk,
    written, raced>>
    BY DEF RasterIO, Asks, cache, band, history
  <2>2. Report(t)
    BY DEF RasterIO
  <2>3. flushErr' \in [Datasets -> BOOLEAN]
    BY <2>2 DEF Typed, Report
  <2>4. unreported' \in [Datasets -> BOOLEAN]
    BY <2>2 DEF Typed, Report
  <2> QED
    BY <1>5, <2>1, <2>2, <2>3, <2>4 DEF Typed
<1> QED
  BY <1>2, <1>5, <1>6 DEF old

LEMMA RequestStep ==
  ASSUME Typed, Control, NEW t \in Datasets, NEW kind \in Requests, NEW i \in Positions,
    RasterIO(t, kind, i), kind = "read" \/ ~flushErr[t]
  PROVE  LET old == thread[t] IN
         /\ old.pc = "idle"
         /\ Becomes(t, Locals(IF kind = "read" THEN "pending" ELSE "enter", kind, i,
                              old.mine, old.victim, old.togo, old.counted, old.again,
                              old.err, old.ops + 1))
         /\ Typed' /\ Control'
<1> DEFINE old == thread[t]
           r == Locals(IF kind = "read" THEN "pending" ELSE "enter", kind, i, old.mine,
                       old.victim, old.togo, old.counted, old.again, old.err, old.ops + 1)
<1>1. old \in Threads /\ LocalOK(t, old) /\ (hRBLock = t <=> old.pc \in Scanning)
  BY LocalNow
<1>2. old.pc = "idle" /\ Becomes(t, r)
  BY <1>1, StepRequest DEF RasterIO, Asks, At
<1> HIDE DEF old
<1>3. r \in Threads
  BY <1>1, <1>2 DEF Typed, LocalOK, KindOf, MineOf, Locals, Threads, Pcs, Requests, Flushing,
    Scanning, Freeing
<1>4. LocalOK(t, r)
  <2>1. r.pc = (IF kind = "read" THEN "pending" ELSE "enter") /\  r.kind = kind /\  r.pos = i
        /\  r.mine = old.mine /\  r.victim = old.victim /\  r.togo = old.togo /\ 
        r.counted = old.counted /\  r.again = old.again /\  r.err = old.err /\ 
        r.ops = old.ops + 1
    BY DEF Locals
  <2> HIDE DEF r
  <2>2. KindOf(r)
    BY <1>1, <1>2, <1>3, <2>1 DEF LocalOK, KindOf, HandOf, CountOf, Threads, Requests,
      Flushing, Scanning, Freeing
  <2>3. MineOf(r)
    BY <1>1, <1>2, <1>3, <2>1 DEF LocalOK, KindOf, MineOf, Threads, Requests, Flushing,
      Scanning, Freeing, Typed
  <2>4. HandOf(t, r)
    BY <1>1, <1>2, <1>3, <2>1 DEF LocalOK, KindOf, MineOf, HandOf, Threads, Requests,
      Flushing, Scanning, Freeing
  <2>5. CountOf(r)
    BY <1>1, <1>2, <1>3, <2>1 DEF LocalOK, KindOf, CountOf, Threads, Requests, Flushing,
      Scanning, Freeing
  <2> QED
    BY <2>2, <2>3, <2>4, <2>5 DEF LocalOK
<1>5. Control' /\ thread' \in [Datasets -> Threads]
  BY <1>1, <1>2, <1>3, <1>4, ControlFrame DEF RasterIO, Asks, cache, Scanning, Locals, old
<1>6. Typed'
  BY <1>5 DEF Typed, RasterIO, Asks, cache, band, history
<1> QED
  BY <1>2, <1>5, <1>6 DEF old

LEMMA EvictStep ==
  ASSUME Typed, Control, NEW t \in Datasets, FlushCacheBlock(t)
  PROVE  LET old == thread[t] IN
         /\ old.pc = "idle"
         /\ Becomes(t, Locals("scan", "evict", old.pos, old.mine, old.victim, old.togo,
                              old.counted, old.again, old.err, old.ops + 1))
         /\ Typed' /\ Control'
<1> DEFINE old == thread[t]
           r == Locals("scan", "evict", old.pos, old.mine, old.victim, old.togo,
                       old.counted, old.again, old.err, old.ops + 1)
<1>1. old \in Threads /\ LocalOK(t, old) /\ (hRBLock = t <=> old.pc \in Scanning)
  BY LocalNow
<1>2. old.pc = "idle" /\ Becomes(t, r)
  BY <1>1, StepAsk DEF FlushCacheBlock, Asks, At
<1> HIDE DEF old
<1>3. r \in Threads
  BY <1>1, <1>2 DEF Typed, LocalOK, KindOf, MineOf, Locals, Threads, Pcs, Requests, Flushing,
    Scanning, Freeing
<1>4. LocalOK(t, r)
  <2>1. r.pc = "scan" /\  r.kind = "evict" /\  r.pos = old.pos /\  r.mine = old.mine /\ 
        r.victim = old.victim /\  r.togo = old.togo /\  r.counted = old.counted /\ 
        r.again = old.again /\  r.err = old.err /\  r.ops = old.ops + 1
    BY DEF Locals
  <2> HIDE DEF r
  <2>2. KindOf(r)
    BY <1>1, <1>2, <1>3, <2>1 DEF LocalOK, KindOf, HandOf, CountOf, Threads, Requests,
      Flushing, Scanning, Freeing
  <2>3. MineOf(r)
    BY <1>1, <1>2, <1>3, <2>1 DEF LocalOK, KindOf, MineOf, Threads, Requests, Flushing,
      Scanning, Freeing, Typed
  <2>4. HandOf(t, r)
    BY <1>1, <1>2, <1>3, <2>1 DEF LocalOK, KindOf, MineOf, HandOf, Threads, Requests,
      Flushing, Scanning, Freeing
  <2>5. CountOf(r)
    BY <1>1, <1>2, <1>3, <2>1 DEF LocalOK, KindOf, CountOf, Threads, Requests, Flushing,
      Scanning, Freeing
  <2> QED
    BY <2>2, <2>3, <2>4, <2>5 DEF LocalOK
<1>5. Control' /\ thread' \in [Datasets -> Threads]
  BY <1>1, <1>2, <1>3, <1>4, ControlFrame DEF FlushCacheBlock, Asks, cache, Scanning, Locals,
    old
<1>6. Typed'
  <2>1. UNCHANGED <<nCacheUsed, block, slot, freeList, keepAlive, flushErr, rwMutex, disk,
    written, raced, unreported>>
    BY DEF FlushCacheBlock, Asks, cache, band, history
  <2>2. hRBLock' \in {Nobody} \cup Datasets
    BY DEF Typed, FlushCacheBlock, Asks
  <2> QED
    BY <1>5, <2>1, <2>2 DEF Typed
<1> QED
  BY <1>2, <1>5, <1>6 DEF old

LEMMA InternalizeStep ==
  ASSUME Typed, Control, NEW t \in Datasets, Internalize(t)
  PROVE  LET old == thread[t] IN
         /\ old.pc = "internalize"
         /\ Becomes(t, Locals("scan", old.kind, old.pos, old.mine, old.victim, old.togo,
                              TRUE, FALSE, old.err, old.ops))
         /\ Typed' /\ Control'
<1> DEFINE old == thread[t]
           r == Locals("scan", old.kind, old.pos, old.mine, old.victim, old.togo, TRUE,
                       FALSE, old.err, old.ops)
<1>1. old \in Threads /\ LocalOK(t, old) /\ (hRBLock = t <=> old.pc \in Scanning)
  BY LocalNow
<1>2. old.pc = "internalize" /\ Becomes(t, r)
  BY <1>1, StepInternalize DEF Internalize, At
<1> HIDE DEF old
<1>3. r \in Threads
  BY <1>1, <1>2 DEF Typed, LocalOK, KindOf, MineOf, Locals, Threads, Pcs, Requests, Flushing,
    Scanning, Freeing
<1>4. LocalOK(t, r)
  <2>1. r.pc = "scan" /\  r.kind = old.kind /\  r.pos = old.pos /\  r.mine = old.mine /\ 
        r.victim = old.victim /\  r.togo = old.togo /\  r.counted = TRUE /\  r.again = FALSE
        /\  r.err = old.err /\  r.ops = old.ops
    BY DEF Locals
  <2> HIDE DEF r
  <2>2. KindOf(r)
    BY <1>1, <1>2, <1>3, <2>1 DEF LocalOK, KindOf, HandOf, CountOf, Threads, Requests,
      Flushing, Scanning, Freeing
  <2>3. MineOf(r)
    BY <1>1, <1>2, <1>3, <2>1 DEF LocalOK, KindOf, MineOf, Threads, Requests, Flushing,
      Scanning, Freeing, Typed
  <2>4. HandOf(t, r)
    BY <1>1, <1>2, <1>3, <2>1 DEF LocalOK, KindOf, MineOf, HandOf, Threads, Requests,
      Flushing, Scanning, Freeing
  <2>5. CountOf(r)
    BY <1>1, <1>2, <1>3, <2>1 DEF LocalOK, KindOf, CountOf, Threads, Requests, Flushing,
      Scanning, Freeing
  <2> QED
    BY <2>2, <2>3, <2>4, <2>5 DEF LocalOK
<1>5. Control' /\ thread' \in [Datasets -> Threads]
  BY <1>1, <1>2, <1>3, <1>4, ControlFrame DEF Internalize, cache, Scanning, Locals, old
<1>6. Typed'
  <2>1. UNCHANGED <<block, slot, freeList, keepAlive, flushErr, rwMutex, disk, written,
    raced, unreported>>
    BY DEF Internalize, cache, band, history
  <2>2. hRBLock' \in {Nobody} \cup Datasets
    BY DEF Typed, Internalize
  <2>3. nCacheUsed' \in Int
    BY DEF Typed, Internalize
  <2> QED
    BY <1>5, <2>1, <2>2, <2>3 DEF Typed
<1> QED
  BY <1>2, <1>5, <1>6 DEF old

LEMMA ClaimStep ==
  ASSUME Typed, Control, NEW t \in Datasets, NEW x \in AllBlocks, Claim(t, x), x \notin
    HandsOf(t)
  PROVE  LET old == thread[t] IN
         /\ old.pc = "scan"
         /\ Becomes(t, Locals("unref", old.kind, old.pos, old.mine, x, old.togo,
                              old.counted, old.again, old.err, old.ops))
         /\ Typed' /\ Control'
<1> DEFINE old == thread[t]
           r == Locals("unref", old.kind, old.pos, old.mine, x, old.togo, old.counted,
                       old.again, old.err, old.ops)
<1>1. old \in Threads /\ LocalOK(t, old) /\ (hRBLock = t <=> old.pc \in Scanning)
  BY LocalNow
<1>2. old.pc = "scan" /\ Becomes(t, r)
  BY <1>1, StepClaim DEF Claim, SetThe, At
<1> HIDE DEF old
<1>3. r \in Threads
  BY <1>1, <1>2, Pairs DEF Typed, LocalOK, KindOf, MineOf, Locals, Threads, Pcs, Requests,
    Flushing, Scanning, Freeing
<1>4. LocalOK(t, r)
  <2>1. r.pc = "unref" /\  r.kind = old.kind /\  r.pos = old.pos /\  r.mine = old.mine /\ 
        r.victim = x /\  r.togo = old.togo /\  r.counted = old.counted /\  r.again = old.again
        /\  r.err = old.err /\  r.ops = old.ops
    BY DEF Locals
  <2> HIDE DEF r
  <2>2. KindOf(r)
    BY <1>1, <1>2, <1>3, <2>1 DEF LocalOK, KindOf, HandOf, CountOf, Threads, Requests,
      Flushing, Scanning, Freeing
  <2>3. MineOf(r)
    BY <1>1, <1>2, <1>3, <2>1, Pairs DEF LocalOK, KindOf, MineOf, Threads, Requests,
      Flushing, Scanning, Freeing, Typed
  <2>4. HandOf(t, r)
    BY <1>1, <1>2, <1>3, <2>1, Pairs DEF LocalOK, KindOf, MineOf, HandOf, Threads, Requests,
      Flushing, Scanning, Freeing, HandsOf, old
  <2>5. CountOf(r)
    BY <1>1, <1>2, <1>3, <2>1 DEF LocalOK, KindOf, CountOf, Threads, Requests, Flushing,
      Scanning, Freeing
  <2> QED
    BY <2>2, <2>3, <2>4, <2>5 DEF LocalOK
<1>5. Control' /\ thread' \in [Datasets -> Threads]
  BY <1>1, <1>2, <1>3, <1>4, ControlFrame DEF Claim, SetThe, cache, Scanning, Locals, old
<1>6. Typed'
  <2>1. UNCHANGED <<hRBLock, slot, freeList, flushErr, rwMutex, disk, written, raced,
    unreported>>
    BY DEF Claim, SetThe, cache, band, history
  <2>2. x[1] \in Datasets
    BY Pairs
  <2>3. keepAlive' = [keepAlive EXCEPT ![x[1]] = @ + 1]
    BY DEF Claim
  <2>4. nCacheUsed' \in Int
    BY DEF Typed, Claim, SetThe
  <2>5. keepAlive' \in [Datasets -> Int]
    BY <2>2, <2>3 DEF Typed
  <2>6. x[2] \in Ids /\ x[1] \in Datasets
    BY Pairs DEF Typed
  <2>7. The(x) \in Entries
    BY <2>6 DEF Mine, The, Typed
  <2>8. [The(x) EXCEPT !.lock = -1, !.listed = FALSE] \in Entries
    BY <2>7, ClaimEntry
  <2>9. block' = [block EXCEPT ![x[1]][x[2]] = [The(x) EXCEPT !.lock = -1, !.listed = FALSE]]
    BY DEF Claim, SetThe
  <2>10. block' \in [Datasets -> [Ids -> Entries]]
    BY <2>7, <2>6, <2>8, <2>9, SetBlock
  <2> QED
    BY <1>5, <2>1, <2>2, <2>3, <2>4, <2>5, <2>6, <2>7, <2>8, <2>9, <2>10 DEF Typed
<1> QED
  BY <1>2, <1>5, <1>6 DEF old

LEMMA UnreferenceStep ==
  ASSUME Typed, Control, NEW t \in Datasets, NEW full \in BOOLEAN,
         Unreference(t, full)
  PROVE  LET old == thread[t]
             stop == The(old.victim).dirty \/ full \/ old.kind = "evict"
         IN
         /\ old.pc = "unref" /\ old.victim \in AllBlocks
         /\ Becomes(t, Locals(
                              IF stop THEN "scanned" ELSE "scan",
                              old.kind, old.pos, old.mine, NoVictim,
                              Append(old.togo, old.victim), old.counted,
                              (stop /\ old.kind # "evict" /\ nCacheUsed > nCacheMax),
                              old.err, old.ops))
         /\ Typed' /\ Control'
<1> DEFINE old == thread[t]
           stop == The(old.victim).dirty \/ full \/ old.kind = "evict"
           r == Locals(
                       IF stop THEN "scanned" ELSE "scan",
                       old.kind, old.pos, old.mine, NoVictim, Append(old.togo, old.victim),
                       old.counted,
                       (stop /\ old.kind # "evict" /\ nCacheUsed > nCacheMax),
                       old.err, old.ops)
<1>1. old \in Threads /\ LocalOK(t, old) /\ (hRBLock = t <=> old.pc \in Scanning)
  BY LocalNow
<1>2. old.pc = "unref" /\ old.victim \in AllBlocks /\ Becomes(t, r)
  BY <1>1, StepUnref DEF Unreference, At, LocalOK, HandOf, Threads
<1> HIDE DEF old, stop
<1>s. stop \in BOOLEAN
  BY DEF stop
<1>3. r \in Threads
  BY <1>1, <1>2, <1>s, TogoAppend, Pairs DEF Typed, LocalOK, KindOf, MineOf, Locals, Threads, Pcs,
    Requests, Flushing, Scanning, Freeing, HandOf
<1>4. LocalOK(t, r)
  <2>1. r.pc = (IF stop THEN "scanned" ELSE "scan") /\ 
        r.kind = old.kind /\  r.pos = old.pos /\  r.mine = old.mine /\  r.victim = NoVictim
        /\  r.togo = Append(old.togo, old.victim) /\  r.counted = old.counted /\ 
        r.again = (stop /\ old.kind # "evict" /\ nCacheUsed > nCacheMax) /\ 
        r.err = old.err /\  r.ops = old.ops
    BY DEF Locals
  <2> HIDE DEF r
  <2>2. KindOf(r)
    BY <1>1, <1>2, <1>s, <1>3, <2>1 DEF LocalOK, KindOf, HandOf, CountOf, Threads, Requests,
      Flushing, Scanning, Freeing
  <2>3. MineOf(r)
    BY <1>1, <1>2, <1>s, <1>3, <2>1, TogoAppend, Pairs DEF LocalOK, KindOf, MineOf, Threads,
      Requests, Flushing, Scanning, Freeing, Typed
  <2>4. HandOf(t, r)
    BY <1>1, <1>2, <1>s, <1>3, <2>1, TogoAppend, Pairs DEF LocalOK, KindOf, MineOf, HandOf,
      Threads, Requests, Flushing, Scanning, Freeing
  <2>5. CountOf(r)
    BY <1>1, <1>2, <1>s, <1>3, <2>1 DEF LocalOK, KindOf, CountOf, Threads, Requests, Flushing,
      Scanning, Freeing
  <2> QED
    BY <2>2, <2>3, <2>4, <2>5 DEF LocalOK
<1>5. Control' /\ thread' \in [Datasets -> Threads]
  BY <1>1, <1>2, <1>3, <1>4, ControlFrame DEF Unreference, cache, Scanning, Locals, old
<1>6. Typed'
  <2>1. UNCHANGED <<hRBLock, nCacheUsed, block, freeList, keepAlive, flushErr, rwMutex, disk,
    written, raced, unreported>>
    BY DEF Unreference, cache, band, history
  <2>2. slot' \in [Datasets -> [Positions -> {NoBlock} \cup Ids]]
    BY DEF Typed, Unreference
  <2> QED
    BY <1>5, <2>1, <2>2 DEF Typed
<1> QED
  BY <1>2, <1>5, <1>6 DEF old, stop

LEMMA TouchKeepStep ==
  ASSUME Typed, Control, NEW t \in Datasets, Touch(t), thread[t].kind = "evict" \/
    thread[t].again
  PROVE  LET old == thread[t] IN
         /\ old.pc \in {"scan", "scanned"} /\ (old.kind = "evict" \/ old.again)
         /\ Becomes(t, Locals("free", old.kind, old.pos, old.mine, old.victim, old.togo,
                              old.counted, old.again, old.err, old.ops))
         /\ Typed' /\ Control'
<1> DEFINE old == thread[t]
           r == Locals("free", old.kind, old.pos, old.mine, old.victim, old.togo,
                       old.counted, old.again, old.err, old.ops)
<1>1. old \in Threads /\ LocalOK(t, old) /\ (hRBLock = t <=> old.pc \in Scanning)
  BY LocalNow
<1>2. old.pc \in {"scan", "scanned"} /\ (old.kind = "evict" \/ old.again) /\ Becomes(t, r)
  BY <1>1, StepPc DEF Touch, Goto, At
<1> HIDE DEF old
<1>3. r \in Threads
  BY <1>1, <1>2 DEF Typed, LocalOK, KindOf, MineOf, Locals, Threads, Pcs, Requests, Flushing,
    Scanning, Freeing
<1>4. LocalOK(t, r)
  <2>1. r.pc = "free" /\  r.kind = old.kind /\  r.pos = old.pos /\  r.mine = old.mine /\ 
        r.victim = old.victim /\  r.togo = old.togo /\  r.counted = old.counted /\ 
        r.again = old.again /\  r.err = old.err /\  r.ops = old.ops
    BY DEF Locals
  <2> HIDE DEF r
  <2>2. KindOf(r)
    BY <1>1, <1>2, <1>3, <2>1 DEF LocalOK, KindOf, HandOf, CountOf, Threads, Requests,
      Flushing, Scanning, Freeing
  <2>3. MineOf(r)
    BY <1>1, <1>2, <1>3, <2>1 DEF LocalOK, KindOf, MineOf, Threads, Requests, Flushing,
      Scanning, Freeing, Typed
  <2>4. HandOf(t, r)
    BY <1>1, <1>2, <1>3, <2>1 DEF LocalOK, KindOf, MineOf, HandOf, Threads, Requests,
      Flushing, Scanning, Freeing
  <2>5. CountOf(r)
    BY <1>1, <1>2, <1>3, <2>1 DEF LocalOK, KindOf, CountOf, Threads, Requests, Flushing,
      Scanning, Freeing
  <2> QED
    BY <2>2, <2>3, <2>4, <2>5 DEF LocalOK
<1>5. Control' /\ thread' \in [Datasets -> Threads]
  BY <1>1, <1>2, <1>3, <1>4, ControlFrame DEF Touch, Goto, cache, Scanning, Locals, old
<1>6. Typed'
  <2>1. UNCHANGED <<nCacheUsed, block, slot, freeList, keepAlive, flushErr, rwMutex, disk,
    written, raced, unreported>>
    BY DEF Touch, Goto, cache, band, history
  <2>2. hRBLock' \in {Nobody} \cup Datasets
    BY DEF Typed, Touch, Goto
  <2> QED
    BY <1>5, <2>1, <2>2 DEF Typed
<1> QED
  BY <1>2, <1>5, <1>6 DEF old

LEMMA TouchPutStep ==
  ASSUME Typed, Control, NEW t \in Datasets, Touch(t), thread[t].kind # "evict",
    ~thread[t].again
  PROVE  LET old == thread[t] IN
         /\ old.pc \in {"scan", "scanned"} /\ (old.kind # "evict") /\ (~old.again)
         /\ Becomes(t, Locals("free", old.kind, old.pos, old.mine, old.victim, old.togo,
                              FALSE, old.again, old.err, old.ops))
         /\ Typed' /\ Control'
<1> DEFINE old == thread[t]
           r == Locals("free", old.kind, old.pos, old.mine, old.victim, old.togo, FALSE,
                       old.again, old.err, old.ops)
<1>1. old \in Threads /\ LocalOK(t, old) /\ (hRBLock = t <=> old.pc \in Scanning)
  BY LocalNow
<1>2. old.pc \in {"scan", "scanned"} /\ (old.kind # "evict") /\ (~old.again) /\ Becomes(t, r)
  BY <1>1, StepTouch DEF Touch, SetMine, At
<1> HIDE DEF old
<1>3. r \in Threads
  BY <1>1, <1>2 DEF Typed, LocalOK, KindOf, MineOf, Locals, Threads, Pcs, Requests, Flushing,
    Scanning, Freeing
<1>4. LocalOK(t, r)
  <2>1. r.pc = "free" /\  r.kind = old.kind /\  r.pos = old.pos /\  r.mine = old.mine /\ 
        r.victim = old.victim /\  r.togo = old.togo /\  r.counted = FALSE /\ 
        r.again = old.again /\  r.err = old.err /\  r.ops = old.ops
    BY DEF Locals
  <2> HIDE DEF r
  <2>2. KindOf(r)
    BY <1>1, <1>2, <1>3, <2>1 DEF LocalOK, KindOf, HandOf, CountOf, Threads, Requests,
      Flushing, Scanning, Freeing
  <2>3. MineOf(r)
    BY <1>1, <1>2, <1>3, <2>1 DEF LocalOK, KindOf, MineOf, Threads, Requests, Flushing,
      Scanning, Freeing, Typed
  <2>4. HandOf(t, r)
    BY <1>1, <1>2, <1>3, <2>1 DEF LocalOK, KindOf, MineOf, HandOf, Threads, Requests,
      Flushing, Scanning, Freeing
  <2>5. CountOf(r)
    BY <1>1, <1>2, <1>3, <2>1 DEF LocalOK, KindOf, CountOf, Threads, Requests, Flushing,
      Scanning, Freeing
  <2> QED
    BY <2>2, <2>3, <2>4, <2>5 DEF LocalOK
<1>5. Control' /\ thread' \in [Datasets -> Threads]
  BY <1>1, <1>2, <1>3, <1>4, ControlFrame DEF Touch, SetMine, cache, Scanning, Locals, old
<1>6. Typed'
  <2>1. UNCHANGED <<nCacheUsed, slot, freeList, keepAlive, flushErr, rwMutex, disk, written,
    raced, unreported>>
    BY DEF Touch, SetMine, cache, band, history
  <2>2. hRBLock' \in {Nobody} \cup Datasets
    BY DEF Typed, Touch, SetMine
  <2>3. thread[t].mine \in Ids /\ t \in Datasets
    BY <1>1, <1>2 DEF old, LocalOK, KindOf, MineOf, Freeing, Scanning, Requests, Flushing,
      Typed
  <2>4. Mine(t) \in Entries
    BY <2>3 DEF Mine, The, Typed
  <2>5. [Mine(t) EXCEPT !.listed = TRUE] \in Entries
    BY <2>4 DEF Entries
  <2>6. block' = [block EXCEPT ![t][thread[t].mine] = [Mine(t) EXCEPT !.listed = TRUE]]
    BY DEF Touch, SetMine
  <2>7. block' \in [Datasets -> [Ids -> Entries]]
    BY <2>4, <2>3, <2>5, <2>6, SetBlock
  <2> QED
    BY <1>5, <2>1, <2>2, <2>3, <2>4, <2>5, <2>6, <2>7 DEF Typed
<1> QED
  BY <1>2, <1>5, <1>6 DEF old

LEMMA WriteStep ==
  ASSUME Typed, Control, NEW t \in Datasets, Write(t)
  PROVE  LET old == thread[t] IN
         /\ old.pc = "free" /\ old.togo # <<>> /\ The(First(t)).dirty
         /\ Becomes(t, Locals(IF flushErr[First(t)[1]] THEN "failed" ELSE "iwrite",
                              old.kind, old.pos, old.mine, old.victim, old.togo,
                              old.counted, old.again, old.err, old.ops))
         /\ Typed' /\ Control'
<1> DEFINE old == thread[t]
           r == Locals(IF flushErr[First(t)[1]] THEN "failed" ELSE "iwrite", old.kind,
                       old.pos, old.mine, old.victim, old.togo, old.counted, old.again,
                       old.err, old.ops)
<1>1. old \in Threads /\ LocalOK(t, old) /\ (hRBLock = t <=> old.pc \in Scanning)
  BY LocalNow
<1>2. old.pc = "free" /\ old.togo # <<>> /\ The(First(t)).dirty /\ Becomes(t, r)
  BY <1>1, StepPc DEF Write, Goto, SetThe, At
<1> HIDE DEF old
<1>3. r \in Threads
  BY <1>1, <1>2 DEF Typed, LocalOK, KindOf, MineOf, Locals, Threads, Pcs, Requests, Flushing,
    Scanning, Freeing
<1>4. LocalOK(t, r)
  <2>1. r.pc = (IF flushErr[First(t)[1]] THEN "failed" ELSE "iwrite") /\  r.kind = old.kind
        /\  r.pos = old.pos /\  r.mine = old.mine /\  r.victim = old.victim /\ 
        r.togo = old.togo /\  r.counted = old.counted /\  r.again = old.again /\ 
        r.err = old.err /\  r.ops = old.ops
    BY DEF Locals
  <2> HIDE DEF r
  <2>2. KindOf(r)
    BY <1>1, <1>2, <1>3, <2>1 DEF LocalOK, KindOf, HandOf, CountOf, Threads, Requests,
      Flushing, Scanning, Freeing
  <2>3. MineOf(r)
    BY <1>1, <1>2, <1>3, <2>1 DEF LocalOK, KindOf, MineOf, Threads, Requests, Flushing,
      Scanning, Freeing, Typed
  <2>4. HandOf(t, r)
    BY <1>1, <1>2, <1>3, <2>1 DEF LocalOK, KindOf, MineOf, HandOf, Threads, Requests,
      Flushing, Scanning, Freeing
  <2>5. CountOf(r)
    BY <1>1, <1>2, <1>3, <2>1 DEF LocalOK, KindOf, CountOf, Threads, Requests, Flushing,
      Scanning, Freeing
  <2> QED
    BY <2>2, <2>3, <2>4, <2>5 DEF LocalOK
<1>5. Control' /\ thread' \in [Datasets -> Threads]
  BY <1>1, <1>2, <1>3, <1>4, ControlFrame DEF Write, Goto, SetThe, cache, Scanning, Locals,
    old
<1>6. Typed'
  <2>1. UNCHANGED <<hRBLock, nCacheUsed, slot, freeList, keepAlive, flushErr, rwMutex, disk,
    written, raced>>
    BY DEF Write, Goto, SetThe, cache, band, history
  <2>2. unreported' \in [Datasets -> BOOLEAN]
    BY DEF Typed, Write, Goto, SetThe
  <2>3. First(t)[2] \in Ids /\ First(t)[1] \in Datasets
    BY <1>1, <1>2, TogoTail, Pairs DEF First, Threads, LocalOK, HandOf, old
  <2>4. The(First(t)) \in Entries
    BY <2>3 DEF Mine, The, Typed
  <2>5. [The(First(t)) EXCEPT !.dirty = FALSE] \in Entries
    BY <2>4 DEF Entries
  <2>6. block' = [block EXCEPT ![First(t)[1]][First(t)[2]] = [The(First(t)) EXCEPT !.dirty = FALSE]]
    BY DEF Write, Goto, SetThe
  <2>7. block' \in [Datasets -> [Ids -> Entries]]
    BY <2>4, <2>3, <2>5, <2>6, SetBlock
  <2> QED
    BY <1>5, <2>1, <2>2, <2>3, <2>4, <2>5, <2>6, <2>7 DEF Typed
<1> QED
  BY <1>2, <1>5, <1>6 DEF old

LEMMA IWriteStep ==
  ASSUME Typed, Control, NEW t \in Datasets, IWriteBlock(t)
  PROVE  LET old == thread[t] IN
         \E j : /\ old.pc = "iwrite" /\ j \in {IF old.kind \in Flushing THEN "delete" ELSE "giveback", "failed"}
                /\ Becomes(t, Locals(j, old.kind, old.pos, old.mine, old.victim, old.togo,
                                     old.counted, old.again, old.err, old.ops))
                /\ Typed' /\ Control'
<1> DEFINE old == thread[t]
           R(j) == Locals(j, old.kind, old.pos, old.mine, old.victim, old.togo,
                          old.counted, old.again, old.err, old.ops)
<1>1. old \in Threads /\ LocalOK(t, old) /\ (hRBLock = t <=> old.pc \in Scanning)
  BY LocalNow
<1>2. \E j : old.pc = "iwrite" /\ j \in {IF old.kind \in Flushing THEN "delete" ELSE "giveback", "failed"} /\ Becomes(t, R(j))
  BY <1>1, StepPc DEF IWriteBlock, Goto, Written, At
<1> PICK j : old.pc = "iwrite" /\ j \in {IF old.kind \in Flushing THEN "delete" ELSE "giveback", "failed"} /\ Becomes(t, R(j))
  BY <1>2
<1> DEFINE r == R(j)
<1> HIDE DEF old
<1>3. r \in Threads
  BY <1>1, <1>2 DEF Typed, LocalOK, KindOf, MineOf, Locals, Threads, Pcs, Requests, Flushing,
    Scanning, Freeing
<1>4. LocalOK(t, r)
  <2>1. r.pc = j /\  r.kind = old.kind /\  r.pos = old.pos /\  r.mine = old.mine /\ 
        r.victim = old.victim /\  r.togo = old.togo /\  r.counted = old.counted /\ 
        r.again = old.again /\  r.err = old.err /\  r.ops = old.ops
    BY DEF Locals
  <2> HIDE DEF r
  <2>2. KindOf(r)
    BY <1>1, <1>2, <1>3, <2>1 DEF LocalOK, KindOf, HandOf, CountOf, Threads, Requests,
      Flushing, Scanning, Freeing
  <2>3. MineOf(r)
    BY <1>1, <1>2, <1>3, <2>1 DEF LocalOK, KindOf, MineOf, Threads, Requests, Flushing,
      Scanning, Freeing, Typed
  <2>4. HandOf(t, r)
    BY <1>1, <1>2, <1>3, <2>1 DEF LocalOK, KindOf, MineOf, HandOf, Threads, Requests,
      Flushing, Scanning, Freeing
  <2>5. CountOf(r)
    BY <1>1, <1>2, <1>3, <2>1 DEF LocalOK, KindOf, CountOf, Threads, Requests, Flushing,
      Scanning, Freeing
  <2> QED
    BY <2>2, <2>3, <2>4, <2>5 DEF LocalOK
<1>5. Control' /\ thread' \in [Datasets -> Threads]
  BY <1>1, <1>2, <1>3, <1>4, ControlFrame DEF IWriteBlock, Goto, Written, cache, Scanning,
    Locals, old
<1>6. Typed'
  <2>1. UNCHANGED <<hRBLock, nCacheUsed, block, slot, freeList, keepAlive, flushErr, rwMutex,
    written, raced>>
    BY DEF IWriteBlock, Goto, Written, cache, band, history
  <2>2. First(t)[1] \in Datasets /\ First(t)[2] \in Ids
    BY <1>1, <1>2, TogoTail, Pairs DEF First, Threads, LocalOK, HandOf, old
  <2>3. The(First(t)).val \in Nat
    BY <2>2 DEF The, Typed, Entries
  <2>4. disk' = disk \/ disk' = [disk EXCEPT ![First(t)[1]][The(First(t)).pos] = The(First(t)).val]
    BY DEF IWriteBlock
  <2>5. unreported' \in [Datasets -> BOOLEAN]
    BY DEF Typed, IWriteBlock, Goto, Written
  <2>6. disk' \in [Datasets -> [Positions -> Nat]]
    <3>1. CASE disk' = disk
      BY <3>1 DEF Typed
    <3>2. CASE disk' # disk
      <4> DEFINE d == First(t)[1]
                 i == The(First(t)).pos
                 v == The(First(t)).val
      <4>1. d \in Datasets /\ v \in Nat /\ disk' = [disk EXCEPT ![d][i] = v]
        BY <2>2, <2>3, <2>4, <3>2
      <4> HIDE DEF d, i, v
      <4> QED
        BY <4>1, SetDisk
    <3> QED
      BY <3>1, <3>2
  <2> QED
    BY <1>5, <2>1, <2>2, <2>3, <2>4, <2>5, <2>6 DEF Typed
<1> QED
  BY <1>2, <1>5, <1>6 DEF old

LEMMA WriteFailedFlushStep ==
  ASSUME Typed, Control, NEW t \in Datasets, WriteFailed(t), thread[t].kind \in Flushing
  PROVE  LET old == thread[t] IN
         /\ old.pc = "failed" /\ (old.kind \in Flushing)
         /\ Becomes(t, Locals("delete", old.kind, old.pos, old.mine, old.victim, old.togo,
                              old.counted, old.again, TRUE, old.ops))
         /\ Typed' /\ Control'
<1> DEFINE old == thread[t]
           r == Locals("delete", old.kind, old.pos, old.mine, old.victim, old.togo,
                       old.counted, old.again, TRUE, old.ops)
<1>1. old \in Threads /\ LocalOK(t, old) /\ (hRBLock = t <=> old.pc \in Scanning)
  BY LocalNow
<1>2. old.pc = "failed" /\ (old.kind \in Flushing) /\ Becomes(t, r)
  BY <1>1, StepErr DEF WriteFailed, At
<1> HIDE DEF old
<1>3. r \in Threads
  BY <1>1, <1>2 DEF Typed, LocalOK, KindOf, MineOf, Locals, Threads, Pcs, Requests, Flushing,
    Scanning, Freeing
<1>4. LocalOK(t, r)
  <2>1. r.pc = "delete" /\  r.kind = old.kind /\  r.pos = old.pos /\  r.mine = old.mine /\ 
        r.victim = old.victim /\  r.togo = old.togo /\  r.counted = old.counted /\ 
        r.again = old.again /\  r.err = TRUE /\  r.ops = old.ops
    BY DEF Locals
  <2> HIDE DEF r
  <2>2. KindOf(r)
    BY <1>1, <1>2, <1>3, <2>1 DEF LocalOK, KindOf, HandOf, CountOf, Threads, Requests,
      Flushing, Scanning, Freeing
  <2>3. MineOf(r)
    BY <1>1, <1>2, <1>3, <2>1 DEF LocalOK, KindOf, MineOf, Threads, Requests, Flushing,
      Scanning, Freeing, Typed
  <2>4. HandOf(t, r)
    BY <1>1, <1>2, <1>3, <2>1 DEF LocalOK, KindOf, MineOf, HandOf, Threads, Requests,
      Flushing, Scanning, Freeing
  <2>5. CountOf(r)
    BY <1>1, <1>2, <1>3, <2>1 DEF LocalOK, KindOf, CountOf, Threads, Requests, Flushing,
      Scanning, Freeing
  <2> QED
    BY <2>2, <2>3, <2>4, <2>5 DEF LocalOK
<1>5. Control' /\ thread' \in [Datasets -> Threads]
  BY <1>1, <1>2, <1>3, <1>4, ControlFrame DEF WriteFailed, cache, Scanning, Locals, old
<1>6. Typed'
  BY <1>5 DEF Typed, WriteFailed, cache, band, history
<1> QED
  BY <1>2, <1>5, <1>6 DEF old

LEMMA WriteFailedStep ==
  ASSUME Typed, Control, NEW t \in Datasets, WriteFailed(t), thread[t].kind \notin Flushing
  PROVE  LET old == thread[t] IN
         /\ old.pc = "failed" /\ (old.kind \notin Flushing)
         /\ Becomes(t, Locals("giveback", old.kind, old.pos, old.mine, old.victim,
                              old.togo, old.counted, old.again, old.err, old.ops))
         /\ Typed' /\ Control'
<1> DEFINE old == thread[t]
           r == Locals("giveback", old.kind, old.pos, old.mine, old.victim, old.togo,
                       old.counted, old.again, old.err, old.ops)
<1>1. old \in Threads /\ LocalOK(t, old) /\ (hRBLock = t <=> old.pc \in Scanning)
  BY LocalNow
<1>2. old.pc = "failed" /\ (old.kind \notin Flushing) /\ Becomes(t, r)
  BY <1>1, StepPc DEF WriteFailed, Goto, SetFlushBlockErr, At
<1> HIDE DEF old
<1>3. r \in Threads
  BY <1>1, <1>2 DEF Typed, LocalOK, KindOf, MineOf, Locals, Threads, Pcs, Requests, Flushing,
    Scanning, Freeing
<1>4. LocalOK(t, r)
  <2>1. r.pc = "giveback" /\  r.kind = old.kind /\  r.pos = old.pos /\  r.mine = old.mine /\ 
        r.victim = old.victim /\  r.togo = old.togo /\  r.counted = old.counted /\ 
        r.again = old.again /\  r.err = old.err /\  r.ops = old.ops
    BY DEF Locals
  <2> HIDE DEF r
  <2>2. KindOf(r)
    BY <1>1, <1>2, <1>3, <2>1 DEF LocalOK, KindOf, HandOf, CountOf, Threads, Requests,
      Flushing, Scanning, Freeing
  <2>3. MineOf(r)
    BY <1>1, <1>2, <1>3, <2>1 DEF LocalOK, KindOf, MineOf, Threads, Requests, Flushing,
      Scanning, Freeing, Typed
  <2>4. HandOf(t, r)
    BY <1>1, <1>2, <1>3, <2>1 DEF LocalOK, KindOf, MineOf, HandOf, Threads, Requests,
      Flushing, Scanning, Freeing
  <2>5. CountOf(r)
    BY <1>1, <1>2, <1>3, <2>1 DEF LocalOK, KindOf, CountOf, Threads, Requests, Flushing,
      Scanning, Freeing
  <2> QED
    BY <2>2, <2>3, <2>4, <2>5 DEF LocalOK
<1>5. Control' /\ thread' \in [Datasets -> Threads]
  BY <1>1, <1>2, <1>3, <1>4, ControlFrame DEF WriteFailed, Goto, SetFlushBlockErr, cache,
    Scanning, Locals, old
<1>6. Typed'
  <2>1. UNCHANGED <<hRBLock, nCacheUsed, block, slot, freeList, keepAlive, rwMutex, disk,
    written, raced, unreported>>
    BY DEF WriteFailed, Goto, SetFlushBlockErr, cache, band, history
  <2>2. flushErr' \in [Datasets -> BOOLEAN]
    BY DEF Typed, WriteFailed, Goto, SetFlushBlockErr
  <2> QED
    BY <1>5, <2>1, <2>2 DEF Typed
<1> QED
  BY <1>2, <1>5, <1>6 DEF old

LEMMA AddBlockStep ==
  ASSUME Typed, Control, NEW t \in Datasets, AddBlockToFreeList(t), thread[t].kind \notin
    Flushing
  PROVE  LET old == thread[t] IN
         /\ old.pc \in {"giveback", "free"} /\ old.togo # <<>> /\ (old.kind \notin Flushing)
         /\ Becomes(t, Locals("countdown", old.kind, old.pos, old.mine, old.victim,
                              old.togo, old.counted, old.again, old.err, old.ops))
         /\ Typed' /\ Control'
<1> DEFINE old == thread[t]
           r == Locals("countdown", old.kind, old.pos, old.mine, old.victim, old.togo,
                       old.counted, old.again, old.err, old.ops)
<1>1. old \in Threads /\ LocalOK(t, old) /\ (hRBLock = t <=> old.pc \in Scanning)
  BY LocalNow
<1>2. old.pc \in {"giveback", "free"} /\ old.togo # <<>> /\ (old.kind \notin Flushing) /\ Becomes(t, r)
  BY <1>1, StepPc DEF AddBlockToFreeList, Goto, SetThe, At, LocalOK, HandOf
<1> HIDE DEF old
<1>3. r \in Threads
  BY <1>1, <1>2 DEF Typed, LocalOK, KindOf, MineOf, Locals, Threads, Pcs, Requests, Flushing,
    Scanning, Freeing
<1>4. LocalOK(t, r)
  <2>1. r.pc = "countdown" /\  r.kind = old.kind /\  r.pos = old.pos /\  r.mine = old.mine /\ 
        r.victim = old.victim /\  r.togo = old.togo /\  r.counted = old.counted /\ 
        r.again = old.again /\  r.err = old.err /\  r.ops = old.ops
    BY DEF Locals
  <2> HIDE DEF r
  <2>2. KindOf(r)
    BY <1>1, <1>2, <1>3, <2>1 DEF LocalOK, KindOf, HandOf, CountOf, Threads, Requests,
      Flushing, Scanning, Freeing
  <2>3. MineOf(r)
    BY <1>1, <1>2, <1>3, <2>1 DEF LocalOK, KindOf, MineOf, Threads, Requests, Flushing,
      Scanning, Freeing, Typed
  <2>4. HandOf(t, r)
    BY <1>1, <1>2, <1>3, <2>1 DEF LocalOK, KindOf, MineOf, HandOf, Threads, Requests,
      Flushing, Scanning, Freeing
  <2>5. CountOf(r)
    BY <1>1, <1>2, <1>3, <2>1 DEF LocalOK, KindOf, CountOf, Threads, Requests, Flushing,
      Scanning, Freeing
  <2> QED
    BY <2>2, <2>3, <2>4, <2>5 DEF LocalOK
<1>5. Control' /\ thread' \in [Datasets -> Threads]
  BY <1>1, <1>2, <1>3, <1>4, ControlFrame DEF AddBlockToFreeList, Goto, SetThe, cache,
    Scanning, Locals, old
<1>6. Typed'
  <2>1. UNCHANGED <<hRBLock, nCacheUsed, slot, keepAlive, flushErr, rwMutex, disk, written,
    raced, unreported>>
    BY DEF AddBlockToFreeList, Goto, SetThe, cache, band, history
  <2>2. First(t)[2] \in Ids
    BY <1>1, <1>2, TogoTail, Pairs DEF First, Threads, LocalOK, HandOf, old
  <2>3. freeList' = [freeList EXCEPT ![First(t)[1]] = @ \cup {First(t)[2]}]
    BY DEF AddBlockToFreeList
  <2>4. freeList' \in [Datasets -> SUBSET Ids]
    BY <2>2, <2>3 DEF Typed
  <2>5. First(t)[2] \in Ids /\ First(t)[1] \in Datasets
    BY <1>1, <1>2, TogoTail, Pairs DEF First, Threads, LocalOK, HandOf, old
  <2>6. [Fresh(0) EXCEPT !.lock = The(First(t)).lock] \in Entries
    BY <2>5, Blank DEF The, Typed, Entries
  <2>7. block' = [block EXCEPT ![First(t)[1]][First(t)[2]] = [Fresh(0) EXCEPT !.lock = The(First(t)).lock]]
    BY DEF AddBlockToFreeList, Goto, SetThe
  <2>8. block' \in [Datasets -> [Ids -> Entries]]
    BY <2>5, <2>4, <2>6, <2>7, SetBlock
  <2> QED
    BY <1>5, <2>1, <2>2, <2>3, <2>4, <2>5, <2>6, <2>7, <2>8 DEF Typed
<1> QED
  BY <1>2, <1>5, <1>6 DEF old

LEMMA CountDownStep ==
  ASSUME Typed, Control, NEW t \in Datasets, CountDown(t)
  PROVE  LET old == thread[t] IN
         /\ old.pc = "countdown"
         /\ Becomes(t, Locals("free", old.kind, old.pos, old.mine, old.victim,
                              Tail(old.togo), old.counted, old.again, old.err, old.ops))
         /\ Typed' /\ Control'
<1> DEFINE old == thread[t]
           r == Locals("free", old.kind, old.pos, old.mine, old.victim, Tail(old.togo),
                       old.counted, old.again, old.err, old.ops)
<1>1. old \in Threads /\ LocalOK(t, old) /\ (hRBLock = t <=> old.pc \in Scanning)
  BY LocalNow
<1>2. old.pc = "countdown" /\ Becomes(t, r)
  BY <1>1, StepTogo DEF CountDown, At
<1> HIDE DEF old
<1>3. r \in Threads
  BY <1>1, <1>2, TogoTail DEF Typed, LocalOK, KindOf, MineOf, Locals, Threads, Pcs, Requests,
    Flushing, Scanning, Freeing, HandOf
<1>4. LocalOK(t, r)
  <2>1. r.pc = "free" /\  r.kind = old.kind /\  r.pos = old.pos /\  r.mine = old.mine /\ 
        r.victim = old.victim /\  r.togo = Tail(old.togo) /\  r.counted = old.counted /\ 
        r.again = old.again /\  r.err = old.err /\  r.ops = old.ops
    BY DEF Locals
  <2> HIDE DEF r
  <2>2. KindOf(r)
    BY <1>1, <1>2, <1>3, <2>1 DEF LocalOK, KindOf, HandOf, CountOf, Threads, Requests,
      Flushing, Scanning, Freeing
  <2>3. MineOf(r)
    BY <1>1, <1>2, <1>3, <2>1, TogoTail DEF LocalOK, KindOf, MineOf, Threads, Requests,
      Flushing, Scanning, Freeing, Typed
  <2>4. HandOf(t, r)
    BY <1>1, <1>2, <1>3, <2>1, TogoTail DEF LocalOK, KindOf, MineOf, HandOf, Threads,
      Requests, Flushing, Scanning, Freeing
  <2>5. CountOf(r)
    BY <1>1, <1>2, <1>3, <2>1 DEF LocalOK, KindOf, CountOf, Threads, Requests, Flushing,
      Scanning, Freeing
  <2> QED
    BY <2>2, <2>3, <2>4, <2>5 DEF LocalOK
<1>5. Control' /\ thread' \in [Datasets -> Threads]
  BY <1>1, <1>2, <1>3, <1>4, ControlFrame DEF CountDown, cache, Scanning, Locals, old
<1>6. Typed'
  <2>1. UNCHANGED <<hRBLock, nCacheUsed, block, slot, freeList, flushErr, rwMutex, disk,
    written, raced, unreported>>
    BY DEF CountDown, cache, band, history
  <2>2. First(t)[1] \in Datasets
    BY <1>1, <1>2, TogoTail, Pairs DEF First, Threads, LocalOK, HandOf, old
  <2>3. keepAlive' = [keepAlive EXCEPT ![First(t)[1]] = @ - 1]
    BY DEF CountDown
  <2>4. keepAlive' \in [Datasets -> Int]
    BY <2>2, <2>3 DEF Typed
  <2> QED
    BY <1>5, <2>1, <2>2, <2>3, <2>4 DEF Typed
<1> QED
  BY <1>2, <1>5, <1>6 DEF old

LEMMA FreedEvictStep ==
  ASSUME Typed, Control, NEW t \in Datasets, Freed(t), thread[t].kind = "evict"
  PROVE  LET old == thread[t] IN
         /\ old.pc = "free" /\ old.togo = <<>> /\ (old.kind = "evict")
         /\ Becomes(t, Locals("idle", IF old.kind = "flush" THEN "flush" ELSE "none", 0,
                              NoBlock, NoVictim, <<>>, FALSE, FALSE, FALSE, old.ops))
         /\ Typed' /\ Control'
<1> DEFINE old == thread[t]
           r == Locals("idle", IF old.kind = "flush" THEN "flush" ELSE "none", 0, NoBlock,
                       NoVictim, <<>>, FALSE, FALSE, FALSE, old.ops)
<1>1. old \in Threads /\ LocalOK(t, old) /\ (hRBLock = t <=> old.pc \in Scanning)
  BY LocalNow
<1>2. old.pc = "free" /\ old.togo = <<>> /\ (old.kind = "evict") /\ Becomes(t, r)
  BY <1>1, EndStep DEF Freed, At
<1> HIDE DEF old
<1>3. r \in Threads
  BY <1>1, <1>2 DEF Typed, LocalOK, KindOf, MineOf, Locals, Threads, Pcs, Requests, Flushing,
    Scanning, Freeing
<1>4. LocalOK(t, r)
  <2>1. r.pc = "idle" /\  r.kind = (IF old.kind = "flush" THEN "flush" ELSE "none") /\ 
        r.pos = 0 /\  r.mine = NoBlock /\  r.victim = NoVictim /\  r.togo = <<>> /\ 
        r.counted = FALSE /\  r.again = FALSE /\  r.err = FALSE /\  r.ops = old.ops
    BY DEF Locals
  <2> HIDE DEF r
  <2>2. KindOf(r)
    BY <1>1, <1>2, <1>3, <2>1 DEF LocalOK, KindOf, HandOf, CountOf, Threads, Requests,
      Flushing, Scanning, Freeing
  <2>3. MineOf(r)
    BY <1>1, <1>2, <1>3, <2>1 DEF LocalOK, KindOf, MineOf, Threads, Requests, Flushing,
      Scanning, Freeing, Typed
  <2>4. HandOf(t, r)
    BY <1>1, <1>2, <1>3, <2>1 DEF LocalOK, KindOf, MineOf, HandOf, Threads, Requests,
      Flushing, Scanning, Freeing
  <2>5. CountOf(r)
    BY <1>1, <1>2, <1>3, <2>1 DEF LocalOK, KindOf, CountOf, Threads, Requests, Flushing,
      Scanning, Freeing
  <2> QED
    BY <2>2, <2>3, <2>4, <2>5 DEF LocalOK
<1>5. Control' /\ thread' \in [Datasets -> Threads]
  BY <1>1, <1>2, <1>3, <1>4, ControlFrame DEF Freed, cache, Scanning, Locals, old
<1>6. Typed'
  BY <1>5 DEF Typed, Freed, cache, band, history
<1> QED
  BY <1>2, <1>5, <1>6 DEF old

LEMMA FreedStep ==
  ASSUME Typed, Control, NEW t \in Datasets, Freed(t), thread[t].kind # "evict"
  PROVE  LET old == thread[t] IN
         /\ old.pc = "free" /\ old.togo = <<>>  /\ old.again /\ (old.kind # "evict")
         /\ Becomes(t, Locals("internalize", old.kind, old.pos, old.mine, old.victim,
                              old.togo, old.counted, old.again, old.err, old.ops))
         /\ Typed' /\ Control'
<1> DEFINE old == thread[t]
           r == Locals("internalize", old.kind, old.pos, old.mine, old.victim, old.togo,
                       old.counted, old.again, old.err, old.ops)
<1>1. old \in Threads /\ LocalOK(t, old) /\ (hRBLock = t <=> old.pc \in Scanning)
  BY LocalNow
<1>2. old.pc = "free" /\ old.togo = <<>>  /\ old.again /\ (old.kind # "evict") /\ Becomes(t, r)
  BY <1>1, StepPc DEF Freed, Goto, At
<1> HIDE DEF old
<1>3. r \in Threads
  BY <1>1, <1>2 DEF Typed, LocalOK, KindOf, MineOf, Locals, Threads, Pcs, Requests, Flushing,
    Scanning, Freeing
<1>4. LocalOK(t, r)
  <2>1. r.pc = "internalize" /\  r.kind = old.kind /\  r.pos = old.pos /\  r.mine = old.mine
        /\  r.victim = old.victim /\  r.togo = old.togo /\  r.counted = old.counted /\ 
        r.again = old.again /\  r.err = old.err /\  r.ops = old.ops
    BY DEF Locals
  <2> HIDE DEF r
  <2>2. KindOf(r)
    BY <1>1, <1>2, <1>3, <2>1 DEF LocalOK, KindOf, HandOf, CountOf, Threads, Requests,
      Flushing, Scanning, Freeing
  <2>3. MineOf(r)
    BY <1>1, <1>2, <1>3, <2>1 DEF LocalOK, KindOf, MineOf, Threads, Requests, Flushing,
      Scanning, Freeing, Typed
  <2>4. HandOf(t, r)
    BY <1>1, <1>2, <1>3, <2>1 DEF LocalOK, KindOf, MineOf, HandOf, Threads, Requests,
      Flushing, Scanning, Freeing
  <2>5. CountOf(r)
    BY <1>1, <1>2, <1>3, <2>1 DEF LocalOK, KindOf, CountOf, Threads, Requests, Flushing,
      Scanning, Freeing
  <2> QED
    BY <2>2, <2>3, <2>4, <2>5 DEF LocalOK
<1>5. Control' /\ thread' \in [Datasets -> Threads]
  BY <1>1, <1>2, <1>3, <1>4, ControlFrame DEF Freed, Goto, cache, Scanning, Locals, old
<1>6. Typed'
  BY <1>5 DEF Typed, Freed, Goto, cache, band, history
<1> QED
  BY <1>2, <1>5, <1>6 DEF old

LEMMA MallocStep ==
  ASSUME Typed, Control, NEW t \in Datasets, Malloc(t)
  PROVE  LET old == thread[t] IN
         /\ old.pc = "free" /\ old.togo = <<>> /\ old.kind # "evict" /\ ~old.again
         /\ Becomes(t, Locals("reacquire", old.kind, old.pos, old.mine, old.victim,
                              old.togo, old.counted, old.again, old.err, old.ops))
         /\ Typed' /\ Control'
<1> DEFINE old == thread[t]
           r == Locals("reacquire", old.kind, old.pos, old.mine, old.victim, old.togo,
                       old.counted, old.again, old.err, old.ops)
<1>1. old \in Threads /\ LocalOK(t, old) /\ (hRBLock = t <=> old.pc \in Scanning)
  BY LocalNow
<1>2. old.pc = "free" /\ old.togo = <<>> /\ old.kind # "evict" /\ ~old.again /\ Becomes(t, r)
  BY <1>1, StepPc DEF Malloc, Goto, SetMine, At
<1> HIDE DEF old
<1>3. r \in Threads
  BY <1>1, <1>2 DEF Typed, LocalOK, KindOf, MineOf, Locals, Threads, Pcs, Requests, Flushing,
    Scanning, Freeing
<1>4. LocalOK(t, r)
  <2>1. r.pc = "reacquire" /\  r.kind = old.kind /\  r.pos = old.pos /\  r.mine = old.mine /\ 
        r.victim = old.victim /\  r.togo = old.togo /\  r.counted = old.counted /\ 
        r.again = old.again /\  r.err = old.err /\  r.ops = old.ops
    BY DEF Locals
  <2> HIDE DEF r
  <2>2. KindOf(r)
    BY <1>1, <1>2, <1>3, <2>1 DEF LocalOK, KindOf, HandOf, CountOf, Threads, Requests,
      Flushing, Scanning, Freeing
  <2>3. MineOf(r)
    BY <1>1, <1>2, <1>3, <2>1 DEF LocalOK, KindOf, MineOf, Threads, Requests, Flushing,
      Scanning, Freeing, Typed
  <2>4. HandOf(t, r)
    BY <1>1, <1>2, <1>3, <2>1 DEF LocalOK, KindOf, MineOf, HandOf, Threads, Requests,
      Flushing, Scanning, Freeing
  <2>5. CountOf(r)
    BY <1>1, <1>2, <1>3, <2>1 DEF LocalOK, KindOf, CountOf, Threads, Requests, Flushing,
      Scanning, Freeing
  <2> QED
    BY <2>2, <2>3, <2>4, <2>5 DEF LocalOK
<1>5. Control' /\ thread' \in [Datasets -> Threads]
  BY <1>1, <1>2, <1>3, <1>4, ControlFrame DEF Malloc, Goto, SetMine, cache, Scanning, Locals,
    old
<1>6. Typed'
  <2>1. UNCHANGED <<hRBLock, nCacheUsed, slot, freeList, keepAlive, flushErr, rwMutex, disk,
    written, raced, unreported>>
    BY DEF Malloc, Goto, SetMine, cache, band, history
  <2>2. thread[t].mine \in Ids /\ t \in Datasets
    BY <1>1, <1>2 DEF old, LocalOK, KindOf, MineOf, Freeing, Scanning, Requests, Flushing,
      Typed
  <2>3. Mine(t) \in Entries
    BY <2>2 DEF Mine, The, Typed
  <2>4. [Mine(t) EXCEPT !.data = TRUE] \in Entries
    BY <2>3 DEF Entries
  <2>5. block' = [block EXCEPT ![t][thread[t].mine] = [Mine(t) EXCEPT !.data = TRUE]]
    BY DEF Malloc, Goto, SetMine
  <2>6. block' \in [Datasets -> [Ids -> Entries]]
    BY <2>3, <2>2, <2>4, <2>5, SetBlock
  <2> QED
    BY <1>5, <2>1, <2>2, <2>3, <2>4, <2>5, <2>6 DEF Typed
<1> QED
  BY <1>2, <1>5, <1>6 DEF old

LEMMA FlushCacheStep ==
  ASSUME Typed, Control, NEW t \in Datasets, NEW kind \in Flushing, FlushCache(t, kind)
  PROVE  LET old == thread[t] IN
         /\ old.pc = (IF kind = "destroy" THEN "destroy" ELSE "idle")
         /\ Becomes(t, Locals("flushing", kind, old.pos, old.mine, old.victim, old.togo,
                              old.counted, old.again, old.err,
                              old.ops + (IF kind = "flush" THEN 1 ELSE 0)))
         /\ Typed' /\ Control'
<1> DEFINE old == thread[t]
           r == Locals("flushing", kind, old.pos, old.mine, old.victim, old.togo,
                       old.counted, old.again, old.err,
                       old.ops + (IF kind = "flush" THEN 1 ELSE 0))
<1>1. old \in Threads /\ LocalOK(t, old) /\ (hRBLock = t <=> old.pc \in Scanning)
  BY LocalNow
<1>2. old.pc = (IF kind = "destroy" THEN "destroy" ELSE "idle") /\ Becomes(t, r)
  BY <1>1, StepAsk DEF FlushCache, Asks, At, Flushing
<1> HIDE DEF old
<1>3. r \in Threads
  BY <1>1, <1>2 DEF Typed, LocalOK, KindOf, MineOf, Locals, Threads, Pcs, Requests, Flushing,
    Scanning, Freeing
<1>4. LocalOK(t, r)
  <2>1. r.pc = "flushing" /\  r.kind = kind /\  r.pos = old.pos /\  r.mine = old.mine /\ 
        r.victim = old.victim /\  r.togo = old.togo /\  r.counted = old.counted /\ 
        r.again = old.again /\  r.err = old.err /\ 
        r.ops = old.ops + (IF kind = "flush" THEN 1 ELSE 0)
    BY DEF Locals
  <2> HIDE DEF r
  <2>2. KindOf(r)
    BY <1>1, <1>2, <1>3, <2>1 DEF LocalOK, KindOf, HandOf, CountOf, Threads, Requests,
      Flushing, Scanning, Freeing
  <2>3. MineOf(r)
    BY <1>1, <1>2, <1>3, <2>1 DEF LocalOK, KindOf, MineOf, Threads, Requests, Flushing,
      Scanning, Freeing, Typed
  <2>4. HandOf(t, r)
    BY <1>1, <1>2, <1>3, <2>1 DEF LocalOK, KindOf, MineOf, HandOf, Threads, Requests,
      Flushing, Scanning, Freeing
  <2>5. CountOf(r)
    BY <1>1, <1>2, <1>3, <2>1 DEF LocalOK, KindOf, CountOf, Threads, Requests, Flushing,
      Scanning, Freeing
  <2> QED
    BY <2>2, <2>3, <2>4, <2>5 DEF LocalOK
<1>5. Control' /\ thread' \in [Datasets -> Threads]
  BY <1>1, <1>2, <1>3, <1>4, ControlFrame DEF FlushCache, Asks, cache, Scanning, Locals, old
<1>6. Typed'
  <2>1. UNCHANGED <<hRBLock, nCacheUsed, block, slot, freeList, keepAlive, rwMutex, disk,
    written, raced>>
    BY DEF FlushCache, Asks, cache, band, history
  <2>2. Report(t) \/ UNCHANGED <<flushErr, unreported>>
    BY DEF FlushCache
  <2>3. flushErr' \in [Datasets -> BOOLEAN]
    BY <2>2 DEF Typed, Report
  <2>4. unreported' \in [Datasets -> BOOLEAN]
    BY <2>2 DEF Typed, Report
  <2> QED
    BY <1>5, <2>1, <2>2, <2>3, <2>4 DEF Typed
<1> QED
  BY <1>2, <1>5, <1>6 DEF old

LEMMA FlushBlocksStep ==
  ASSUME Typed, Control, NEW t \in Datasets, FlushBlocks(t)
  PROVE  LET old == thread[t] IN
         \E j : /\ old.pc = "flushing" /\ NextSlot(t, 1, j)
                /\ Becomes(t, Locals(IF j \in Positions THEN "take" ELSE "wait", old.kind,
                                     j, NoBlock, old.victim, <<>>, old.counted, old.again,
                                     flushErr[t], old.ops))
                /\ Typed' /\ Control'
<1> DEFINE old == thread[t]
           R(j) == Locals(IF j \in Positions THEN "take" ELSE "wait", old.kind, j, NoBlock,
                          old.victim, <<>>, old.counted, old.again, flushErr[t], old.ops)
<1>1. old \in Threads /\ LocalOK(t, old) /\ (hRBLock = t <=> old.pc \in Scanning)
  BY LocalNow
<1>2. \E j : old.pc = "flushing" /\ NextSlot(t, 1, j) /\ Becomes(t, R(j))
  BY <1>1, FlushFromStep DEF FlushBlocks, At
<1> PICK j : old.pc = "flushing" /\ NextSlot(t, 1, j) /\ Becomes(t, R(j))
  BY <1>2
<1> DEFINE r == R(j)
<1> HIDE DEF old
<1>3. r \in Threads
  BY <1>1, <1>2 DEF Typed, LocalOK, KindOf, MineOf, Locals, Threads, Pcs, Requests, Flushing,
    Scanning, Freeing, NextSlot
<1>4. LocalOK(t, r)
  <2>1. r.pc = (IF j \in Positions THEN "take" ELSE "wait") /\  r.kind = old.kind /\ 
        r.pos = j /\  r.mine = NoBlock /\  r.victim = old.victim /\  r.togo = <<>> /\ 
        r.counted = old.counted /\  r.again = old.again /\  r.err = flushErr[t] /\ 
        r.ops = old.ops
    BY DEF Locals
  <2> HIDE DEF r
  <2>2. KindOf(r)
    BY <1>1, <1>2, <1>3, <2>1 DEF LocalOK, KindOf, HandOf, CountOf, Threads, Requests,
      Flushing, Scanning, Freeing
  <2>3. MineOf(r)
    BY <1>1, <1>2, <1>3, <2>1 DEF LocalOK, KindOf, MineOf, Threads, Requests, Flushing,
      Scanning, Freeing, Typed
  <2>4. HandOf(t, r)
    BY <1>1, <1>2, <1>3, <2>1 DEF LocalOK, KindOf, MineOf, HandOf, Threads, Requests,
      Flushing, Scanning, Freeing
  <2>5. CountOf(r)
    BY <1>1, <1>2, <1>3, <2>1 DEF LocalOK, KindOf, CountOf, Threads, Requests, Flushing,
      Scanning, Freeing
  <2> QED
    BY <2>2, <2>3, <2>4, <2>5 DEF LocalOK
<1>5. Control' /\ thread' \in [Datasets -> Threads]
  BY <1>1, <1>2, <1>3, <1>4, ControlFrame DEF FlushBlocks, cache, Scanning, Locals, old
<1>6. Typed'
  <2>1. UNCHANGED <<hRBLock, nCacheUsed, slot, keepAlive, flushErr, rwMutex, disk, written,
    raced, unreported>>
    BY DEF FlushBlocks, cache, band, history
  <2>2. freeList' \in [Datasets -> SUBSET Ids]
    BY DEF Typed, FlushBlocks
  <2>3. block' = [block EXCEPT ![t] = Dangling(t, block[t])]
    BY DEF FlushBlocks
  <2>4. block' \in [Datasets -> [Ids -> Entries]]
    BY <2>3, DanglingRow, SetRow
  <2> QED
    BY <1>5, <2>1, <2>2, <2>3, <2>4 DEF Typed
<1> QED
  BY <1>2, <1>5, <1>6 DEF old

LEMMA TakeLeaveStep ==
  ASSUME Typed, Control, NEW t \in Datasets, Take(t), thread[t].kind \notin Flushing,
    slot[t][thread[t].pos] = NoBlock
  PROVE  LET old == thread[t] IN
         /\ old.pc = "take" /\ slot[t][old.pos] = NoBlock /\ (old.kind \notin Flushing) /\ (slot[t][old.pos] = NoBlock)
         /\ Becomes(t, Locals("leave", old.kind, old.pos, old.mine, old.victim, old.togo,
                              old.counted, old.again, old.err, old.ops))
         /\ Typed' /\ Control'
<1> DEFINE old == thread[t]
           r == Locals("leave", old.kind, old.pos, old.mine, old.victim, old.togo,
                       old.counted, old.again, old.err, old.ops)
<1>1. old \in Threads /\ LocalOK(t, old) /\ (hRBLock = t <=> old.pc \in Scanning)
  BY LocalNow
<1>2. old.pc = "take" /\ slot[t][old.pos] = NoBlock /\ (old.kind \notin Flushing) /\ (slot[t][old.pos] = NoBlock) /\ Becomes(t, r)
  BY <1>1, StepPc DEF Take, FlushNext, At
<1> HIDE DEF old
<1>3. r \in Threads
  BY <1>1, <1>2 DEF Typed, LocalOK, KindOf, MineOf, Locals, Threads, Pcs, Requests, Flushing,
    Scanning, Freeing
<1>4. LocalOK(t, r)
  <2>1. r.pc = "leave" /\  r.kind = old.kind /\  r.pos = old.pos /\  r.mine = old.mine /\ 
        r.victim = old.victim /\  r.togo = old.togo /\  r.counted = old.counted /\ 
        r.again = old.again /\  r.err = old.err /\  r.ops = old.ops
    BY DEF Locals
  <2> HIDE DEF r
  <2>2. KindOf(r)
    BY <1>1, <1>2, <1>3, <2>1 DEF LocalOK, KindOf, HandOf, CountOf, Threads, Requests,
      Flushing, Scanning, Freeing
  <2>3. MineOf(r)
    BY <1>1, <1>2, <1>3, <2>1 DEF LocalOK, KindOf, MineOf, Threads, Requests, Flushing,
      Scanning, Freeing, Typed
  <2>4. HandOf(t, r)
    BY <1>1, <1>2, <1>3, <2>1 DEF LocalOK, KindOf, MineOf, HandOf, Threads, Requests,
      Flushing, Scanning, Freeing
  <2>5. CountOf(r)
    BY <1>1, <1>2, <1>3, <2>1 DEF LocalOK, KindOf, CountOf, Threads, Requests, Flushing,
      Scanning, Freeing
  <2> QED
    BY <2>2, <2>3, <2>4, <2>5 DEF LocalOK
<1>5. Control' /\ thread' \in [Datasets -> Threads]
  BY <1>1, <1>2, <1>3, <1>4, ControlFrame DEF Take, FlushNext, cache, Scanning, Locals, old
<1>6. Typed'
  <2>1. UNCHANGED <<hRBLock, nCacheUsed, block, freeList, keepAlive, flushErr, rwMutex, disk,
    written, raced, unreported>>
    BY DEF Take, FlushNext, cache, band, history
  <2>2. slot' \in [Datasets -> [Positions -> {NoBlock} \cup Ids]]
    BY DEF Typed, Take, FlushNext
  <2> QED
    BY <1>5, <2>1, <2>2 DEF Typed
<1> QED
  BY <1>2, <1>5, <1>6 DEF old

LEMMA TakeNextStep ==
  ASSUME Typed, Control, NEW t \in Datasets, Take(t), thread[t].kind \in Flushing,
    slot[t][thread[t].pos] = NoBlock
  PROVE  LET old == thread[t] IN
         \E j : /\ old.pc = "take" /\ old.kind \in Flushing /\ NextSlot(t, old.pos + 1, j)
                /\ Becomes(t, Locals(IF j \in Positions THEN "take" ELSE "wait", old.kind,
                                     j, NoBlock, old.victim, <<>>, old.counted, old.again,
                                     old.err, old.ops))
                /\ Typed' /\ Control'
<1> DEFINE old == thread[t]
           R(j) == Locals(IF j \in Positions THEN "take" ELSE "wait", old.kind, j, NoBlock,
                          old.victim, <<>>, old.counted, old.again, old.err, old.ops)
<1>1. old \in Threads /\ LocalOK(t, old) /\ (hRBLock = t <=> old.pc \in Scanning)
  BY LocalNow
<1>0. old.pos + 1 \in Nat
  <2>1. old.pos \in Nat
    BY <1>1, CacheAssumption, FS_CardinalityType DEF Take, FlushNext, At, LocalOK, KindOf,
      MineOf, Requests, Flushing, Freeing, Scanning, Threads
  <2> QED
    BY <2>1
<1>2. \E j : old.pc = "take" /\ old.kind \in Flushing /\ NextSlot(t, old.pos + 1, j) /\ Becomes(t, R(j))
  BY <1>1, <1>0, FlushFromStep DEF Take, FlushNext, At, LocalOK, KindOf, MineOf, Requests,
    Flushing, Freeing, Scanning
<1> PICK j : old.pc = "take" /\ old.kind \in Flushing /\ NextSlot(t, old.pos + 1, j) /\ Becomes(t, R(j))
  BY <1>2
<1> DEFINE r == R(j)
<1> HIDE DEF old
<1>3. r \in Threads
  BY <1>1, <1>2 DEF Typed, LocalOK, KindOf, MineOf, Locals, Threads, Pcs, Requests, Flushing,
    Scanning, Freeing, NextSlot
<1>4. LocalOK(t, r)
  <2>1. r.pc = (IF j \in Positions THEN "take" ELSE "wait") /\  r.kind = old.kind /\ 
        r.pos = j /\  r.mine = NoBlock /\  r.victim = old.victim /\  r.togo = <<>> /\ 
        r.counted = old.counted /\  r.again = old.again /\  r.err = old.err /\ 
        r.ops = old.ops
    BY DEF Locals
  <2> HIDE DEF r
  <2>2. KindOf(r)
    BY <1>1, <1>2, <1>3, <2>1 DEF LocalOK, KindOf, HandOf, CountOf, Threads, Requests,
      Flushing, Scanning, Freeing
  <2>3. MineOf(r)
    BY <1>1, <1>2, <1>3, <2>1 DEF LocalOK, KindOf, MineOf, Threads, Requests, Flushing,
      Scanning, Freeing, Typed
  <2>4. HandOf(t, r)
    BY <1>1, <1>2, <1>3, <2>1 DEF LocalOK, KindOf, MineOf, HandOf, Threads, Requests,
      Flushing, Scanning, Freeing
  <2>5. CountOf(r)
    BY <1>1, <1>2, <1>3, <2>1 DEF LocalOK, KindOf, CountOf, Threads, Requests, Flushing,
      Scanning, Freeing
  <2> QED
    BY <2>2, <2>3, <2>4, <2>5 DEF LocalOK
<1>5. Control' /\ thread' \in [Datasets -> Threads]
  BY <1>1, <1>2, <1>3, <1>4, ControlFrame DEF Take, FlushNext, cache, Scanning, Locals, old
<1>6. Typed'
  <2>1. UNCHANGED <<hRBLock, nCacheUsed, block, freeList, keepAlive, flushErr, rwMutex, disk,
    written, raced, unreported>>
    BY DEF Take, FlushNext, cache, band, history
  <2>2. slot' \in [Datasets -> [Positions -> {NoBlock} \cup Ids]]
    BY DEF Typed, Take, FlushNext
  <2> QED
    BY <1>5, <2>1, <2>2 DEF Typed
<1> QED
  BY <1>2, <1>5, <1>6 DEF old

LEMMA TakeStep ==
  ASSUME Typed, Control, NEW t \in Datasets, Take(t), slot[t][thread[t].pos] # NoBlock
  PROVE  LET old == thread[t] IN
         /\ old.pc = "take" /\ slot[t][old.pos] # NoBlock /\ (slot[t][old.pos] # NoBlock)
         /\ Becomes(t, Locals("droplock", old.kind, old.pos, slot[t][old.pos], old.victim,
                              old.togo, old.counted, old.again, old.err, old.ops))
         /\ Typed' /\ Control'
<1> DEFINE old == thread[t]
           r == Locals("droplock", old.kind, old.pos, slot[t][old.pos], old.victim,
                       old.togo, old.counted, old.again, old.err, old.ops)
<1>1. old \in Threads /\ LocalOK(t, old) /\ (hRBLock = t <=> old.pc \in Scanning)
  BY LocalNow
<1>2. old.pc = "take" /\ slot[t][old.pos] # NoBlock /\ (slot[t][old.pos] # NoBlock) /\ Becomes(t, r)
  BY <1>1, StepMine DEF Take, At
<1> HIDE DEF old
<1>3. r \in Threads
  BY <1>1, <1>2 DEF Typed, LocalOK, KindOf, MineOf, Locals, Threads, Pcs, Requests, Flushing,
    Scanning, Freeing
<1>4. LocalOK(t, r)
  <2>1. r.pc = "droplock" /\  r.kind = old.kind /\  r.pos = old.pos /\ 
        r.mine = slot[t][old.pos] /\  r.victim = old.victim /\  r.togo = old.togo /\ 
        r.counted = old.counted /\  r.again = old.again /\  r.err = old.err /\ 
        r.ops = old.ops
    BY DEF Locals
  <2> HIDE DEF r
  <2>2. KindOf(r)
    BY <1>1, <1>2, <1>3, <2>1 DEF LocalOK, KindOf, HandOf, CountOf, Threads, Requests,
      Flushing, Scanning, Freeing
  <2>3. MineOf(r)
    BY <1>1, <1>2, <1>3, <2>1 DEF LocalOK, KindOf, MineOf, Threads, Requests, Flushing,
      Scanning, Freeing, Typed
  <2>4. HandOf(t, r)
    BY <1>1, <1>2, <1>3, <2>1 DEF LocalOK, KindOf, MineOf, HandOf, Threads, Requests,
      Flushing, Scanning, Freeing
  <2>5. CountOf(r)
    BY <1>1, <1>2, <1>3, <2>1 DEF LocalOK, KindOf, CountOf, Threads, Requests, Flushing,
      Scanning, Freeing
  <2> QED
    BY <2>2, <2>3, <2>4, <2>5 DEF LocalOK
<1>5. Control' /\ thread' \in [Datasets -> Threads]
  BY <1>1, <1>2, <1>3, <1>4, ControlFrame DEF Take, cache, Scanning, Locals, old
<1>6. Typed'
  <2>1. UNCHANGED <<hRBLock, nCacheUsed, block, freeList, keepAlive, flushErr, rwMutex, disk,
    written, raced, unreported>>
    BY DEF Take, cache, band, history
  <2>2. slot' \in [Datasets -> [Positions -> {NoBlock} \cup Ids]]
    BY DEF Typed, Take
  <2> QED
    BY <1>5, <2>1, <2>2 DEF Typed
<1> QED
  BY <1>2, <1>5, <1>6 DEF old

LEMMA DropLockStep ==
  ASSUME Typed, Control, NEW t \in Datasets, DropLockForRemoval(t), Mine(t).lock = 0
  PROVE  LET old == thread[t] IN
         /\ old.pc = "droplock"
         /\ Becomes(t, Locals("remove", old.kind, old.pos, old.mine, old.victim, old.togo,
                              old.counted, old.again, old.err, old.ops))
         /\ Typed' /\ Control'
<1> DEFINE old == thread[t]
           r == Locals("remove", old.kind, old.pos, old.mine, old.victim, old.togo,
                       old.counted, old.again, old.err, old.ops)
<1>1. old \in Threads /\ LocalOK(t, old) /\ (hRBLock = t <=> old.pc \in Scanning)
  BY LocalNow
<1>2. old.pc = "droplock" /\ Becomes(t, r)
  BY <1>1, StepPc DEF DropLockForRemoval, StillOurs, Goto, SetMine, At
<1> HIDE DEF old
<1>3. r \in Threads
  BY <1>1, <1>2 DEF Typed, LocalOK, KindOf, MineOf, Locals, Threads, Pcs, Requests, Flushing,
    Scanning, Freeing
<1>4. LocalOK(t, r)
  <2>1. r.pc = "remove" /\  r.kind = old.kind /\  r.pos = old.pos /\  r.mine = old.mine /\ 
        r.victim = old.victim /\  r.togo = old.togo /\  r.counted = old.counted /\ 
        r.again = old.again /\  r.err = old.err /\  r.ops = old.ops
    BY DEF Locals
  <2> HIDE DEF r
  <2>2. KindOf(r)
    BY <1>1, <1>2, <1>3, <2>1 DEF LocalOK, KindOf, HandOf, CountOf, Threads, Requests,
      Flushing, Scanning, Freeing
  <2>3. MineOf(r)
    BY <1>1, <1>2, <1>3, <2>1 DEF LocalOK, KindOf, MineOf, Threads, Requests, Flushing,
      Scanning, Freeing, Typed
  <2>4. HandOf(t, r)
    BY <1>1, <1>2, <1>3, <2>1 DEF LocalOK, KindOf, MineOf, HandOf, Threads, Requests,
      Flushing, Scanning, Freeing
  <2>5. CountOf(r)
    BY <1>1, <1>2, <1>3, <2>1 DEF LocalOK, KindOf, CountOf, Threads, Requests, Flushing,
      Scanning, Freeing
  <2> QED
    BY <2>2, <2>3, <2>4, <2>5 DEF LocalOK
<1>5. Control' /\ thread' \in [Datasets -> Threads]
  BY <1>1, <1>2, <1>3, <1>4, ControlFrame DEF DropLockForRemoval, StillOurs, Goto, SetMine,
    cache, Scanning, Locals, old
<1>6. Typed'
  <2>1. UNCHANGED <<hRBLock, nCacheUsed, slot, freeList, keepAlive, flushErr, rwMutex, disk,
    written, raced, unreported>>
    BY DEF DropLockForRemoval, StillOurs, Goto, SetMine, cache, band, history
  <2>2. thread[t].mine \in Ids /\ t \in Datasets
    BY <1>1, <1>2 DEF old, LocalOK, KindOf, MineOf, Freeing, Scanning, Requests, Flushing,
      Typed
  <2>3. Mine(t) \in Entries
    BY <2>2 DEF Mine, The, Typed
  <2>4. [Mine(t) EXCEPT !.lock = -1] \in Entries
    BY <2>3 DEF Entries
  <2>5. block' = [block EXCEPT ![t][thread[t].mine] = [Mine(t) EXCEPT !.lock = -1]]
    BY DEF DropLockForRemoval, StillOurs, Goto, SetMine
  <2>6. block' \in [Datasets -> [Ids -> Entries]]
    BY <2>3, <2>2, <2>4, <2>5, SetBlock
  <2> QED
    BY <1>5, <2>1, <2>2, <2>3, <2>4, <2>5, <2>6 DEF Typed
<1> QED
  BY <1>2, <1>5, <1>6 DEF old

LEMMA DropLockEvictedStep ==
  ASSUME Typed, Control, NEW t \in Datasets, DropLockForRemoval(t), Mine(t).lock # 0
  PROVE  LET old == thread[t] IN
         /\ old.pc = "droplock"
         /\ Becomes(t, Locals("evicted", old.kind, old.pos, old.mine, old.victim, old.togo,
                              old.counted, old.again, old.err, old.ops))
         /\ Typed' /\ Control'
<1> DEFINE old == thread[t]
           r == Locals("evicted", old.kind, old.pos, old.mine, old.victim, old.togo,
                       old.counted, old.again, old.err, old.ops)
<1>1. old \in Threads /\ LocalOK(t, old) /\ (hRBLock = t <=> old.pc \in Scanning)
  BY LocalNow
<1>2. old.pc = "droplock" /\ Becomes(t, r)
  BY <1>1, StepPc DEF DropLockForRemoval, StillOurs, Goto, SetMine, At
<1> HIDE DEF old
<1>3. r \in Threads
  BY <1>1, <1>2 DEF Typed, LocalOK, KindOf, MineOf, Locals, Threads, Pcs, Requests, Flushing,
    Scanning, Freeing
<1>4. LocalOK(t, r)
  <2>1. r.pc = "evicted" /\  r.kind = old.kind /\  r.pos = old.pos /\  r.mine = old.mine /\ 
        r.victim = old.victim /\  r.togo = old.togo /\  r.counted = old.counted /\ 
        r.again = old.again /\  r.err = old.err /\  r.ops = old.ops
    BY DEF Locals
  <2> HIDE DEF r
  <2>2. KindOf(r)
    BY <1>1, <1>2, <1>3, <2>1 DEF LocalOK, KindOf, HandOf, CountOf, Threads, Requests,
      Flushing, Scanning, Freeing
  <2>3. MineOf(r)
    BY <1>1, <1>2, <1>3, <2>1 DEF LocalOK, KindOf, MineOf, Threads, Requests, Flushing,
      Scanning, Freeing, Typed
  <2>4. HandOf(t, r)
    BY <1>1, <1>2, <1>3, <2>1 DEF LocalOK, KindOf, MineOf, HandOf, Threads, Requests,
      Flushing, Scanning, Freeing
  <2>5. CountOf(r)
    BY <1>1, <1>2, <1>3, <2>1 DEF LocalOK, KindOf, CountOf, Threads, Requests, Flushing,
      Scanning, Freeing
  <2> QED
    BY <2>2, <2>3, <2>4, <2>5 DEF LocalOK
<1>5. Control' /\ thread' \in [Datasets -> Threads]
  BY <1>1, <1>2, <1>3, <1>4, ControlFrame DEF DropLockForRemoval, StillOurs, Goto, SetMine,
    cache, Scanning, Locals, old
<1>6. Typed'
  BY <1>5 DEF Typed, DropLockForRemoval, StillOurs, Goto, SetMine, cache, band, history
<1> QED
  BY <1>2, <1>5, <1>6 DEF old

LEMMA WaitEvictionLeaveStep ==
  ASSUME Typed, Control, NEW t \in Datasets, WaitEviction(t), thread[t].kind \notin Flushing
  PROVE  LET old == thread[t] IN
         /\ old.pc = "evicted" /\ (old.kind \notin Flushing)
         /\ Becomes(t, Locals("leave", old.kind, old.pos, old.mine, old.victim, old.togo,
                              old.counted, old.again, old.err, old.ops))
         /\ Typed' /\ Control'
<1> DEFINE old == thread[t]
           r == Locals("leave", old.kind, old.pos, old.mine, old.victim, old.togo,
                       old.counted, old.again, old.err, old.ops)
<1>1. old \in Threads /\ LocalOK(t, old) /\ (hRBLock = t <=> old.pc \in Scanning)
  BY LocalNow
<1>2. old.pc = "evicted" /\ (old.kind \notin Flushing) /\ Becomes(t, r)
  BY <1>1, StepPc DEF WaitEviction, FlushNext, At
<1> HIDE DEF old
<1>3. r \in Threads
  BY <1>1, <1>2 DEF Typed, LocalOK, KindOf, MineOf, Locals, Threads, Pcs, Requests, Flushing,
    Scanning, Freeing
<1>4. LocalOK(t, r)
  <2>1. r.pc = "leave" /\  r.kind = old.kind /\  r.pos = old.pos /\  r.mine = old.mine /\ 
        r.victim = old.victim /\  r.togo = old.togo /\  r.counted = old.counted /\ 
        r.again = old.again /\  r.err = old.err /\  r.ops = old.ops
    BY DEF Locals
  <2> HIDE DEF r
  <2>2. KindOf(r)
    BY <1>1, <1>2, <1>3, <2>1 DEF LocalOK, KindOf, HandOf, CountOf, Threads, Requests,
      Flushing, Scanning, Freeing
  <2>3. MineOf(r)
    BY <1>1, <1>2, <1>3, <2>1 DEF LocalOK, KindOf, MineOf, Threads, Requests, Flushing,
      Scanning, Freeing, Typed
  <2>4. HandOf(t, r)
    BY <1>1, <1>2, <1>3, <2>1 DEF LocalOK, KindOf, MineOf, HandOf, Threads, Requests,
      Flushing, Scanning, Freeing
  <2>5. CountOf(r)
    BY <1>1, <1>2, <1>3, <2>1 DEF LocalOK, KindOf, CountOf, Threads, Requests, Flushing,
      Scanning, Freeing
  <2> QED
    BY <2>2, <2>3, <2>4, <2>5 DEF LocalOK
<1>5. Control' /\ thread' \in [Datasets -> Threads]
  BY <1>1, <1>2, <1>3, <1>4, ControlFrame DEF WaitEviction, FlushNext, cache, Scanning,
    Locals, old
<1>6. Typed'
  BY <1>5 DEF Typed, WaitEviction, FlushNext, cache, band, history
<1> QED
  BY <1>2, <1>5, <1>6 DEF old

LEMMA WaitEvictionStep ==
  ASSUME Typed, Control, NEW t \in Datasets, WaitEviction(t), thread[t].kind \in Flushing
  PROVE  LET old == thread[t] IN
         \E j : /\ old.pc = "evicted" /\ old.kind \in Flushing /\ NextSlot(t, old.pos + 1, j)
                /\ Becomes(t, Locals(IF j \in Positions THEN "take" ELSE "wait", old.kind,
                                     j, NoBlock, old.victim, <<>>, old.counted, old.again,
                                     old.err, old.ops))
                /\ Typed' /\ Control'
<1> DEFINE old == thread[t]
           R(j) == Locals(IF j \in Positions THEN "take" ELSE "wait", old.kind, j, NoBlock,
                          old.victim, <<>>, old.counted, old.again, old.err, old.ops)
<1>1. old \in Threads /\ LocalOK(t, old) /\ (hRBLock = t <=> old.pc \in Scanning)
  BY LocalNow
<1>0. old.pos + 1 \in Nat
  <2>1. old.pos \in Nat
    BY <1>1, CacheAssumption, FS_CardinalityType DEF WaitEviction, FlushNext, At, LocalOK,
      KindOf, MineOf, Requests, Flushing, Freeing, Scanning, Threads
  <2> QED
    BY <2>1
<1>2. \E j : old.pc = "evicted" /\ old.kind \in Flushing /\ NextSlot(t, old.pos + 1, j) /\ Becomes(t, R(j))
  BY <1>1, <1>0, FlushFromStep DEF WaitEviction, FlushNext, At, LocalOK, KindOf, MineOf,
    Requests, Flushing, Freeing, Scanning
<1> PICK j : old.pc = "evicted" /\ old.kind \in Flushing /\ NextSlot(t, old.pos + 1, j) /\ Becomes(t, R(j))
  BY <1>2
<1> DEFINE r == R(j)
<1> HIDE DEF old
<1>3. r \in Threads
  BY <1>1, <1>2 DEF Typed, LocalOK, KindOf, MineOf, Locals, Threads, Pcs, Requests, Flushing,
    Scanning, Freeing, NextSlot
<1>4. LocalOK(t, r)
  <2>1. r.pc = (IF j \in Positions THEN "take" ELSE "wait") /\  r.kind = old.kind /\ 
        r.pos = j /\  r.mine = NoBlock /\  r.victim = old.victim /\  r.togo = <<>> /\ 
        r.counted = old.counted /\  r.again = old.again /\  r.err = old.err /\ 
        r.ops = old.ops
    BY DEF Locals
  <2> HIDE DEF r
  <2>2. KindOf(r)
    BY <1>1, <1>2, <1>3, <2>1 DEF LocalOK, KindOf, HandOf, CountOf, Threads, Requests,
      Flushing, Scanning, Freeing
  <2>3. MineOf(r)
    BY <1>1, <1>2, <1>3, <2>1 DEF LocalOK, KindOf, MineOf, Threads, Requests, Flushing,
      Scanning, Freeing, Typed
  <2>4. HandOf(t, r)
    BY <1>1, <1>2, <1>3, <2>1 DEF LocalOK, KindOf, MineOf, HandOf, Threads, Requests,
      Flushing, Scanning, Freeing
  <2>5. CountOf(r)
    BY <1>1, <1>2, <1>3, <2>1 DEF LocalOK, KindOf, CountOf, Threads, Requests, Flushing,
      Scanning, Freeing
  <2> QED
    BY <2>2, <2>3, <2>4, <2>5 DEF LocalOK
<1>5. Control' /\ thread' \in [Datasets -> Threads]
  BY <1>1, <1>2, <1>3, <1>4, ControlFrame DEF WaitEviction, FlushNext, cache, Scanning,
    Locals, old
<1>6. Typed'
  BY <1>5 DEF Typed, WaitEviction, FlushNext, cache, band, history
<1> QED
  BY <1>2, <1>5, <1>6 DEF old

LEMMA RemoveWriteStep ==
  ASSUME Typed, Control, NEW t \in Datasets, Remove(t), Mine(t).dirty /\ ~thread[t].err
  PROVE  LET old == thread[t] IN
         /\ old.pc = "remove" /\ (Mine(t).dirty /\ ~old.err)
         /\ Becomes(t, Locals("free", old.kind, old.pos, old.mine, old.victim,
                              <<<<t, old.mine>>>>, old.counted, old.again, old.err, old.ops))
         /\ Typed' /\ Control'
<1> DEFINE old == thread[t]
           r == Locals("free", old.kind, old.pos, old.mine, old.victim,
                       <<<<t, old.mine>>>>, old.counted, old.again, old.err, old.ops)
<1>1. old \in Threads /\ LocalOK(t, old) /\ (hRBLock = t <=> old.pc \in Scanning)
  BY LocalNow
<1>2. old.pc = "remove" /\ (Mine(t).dirty /\ ~old.err) /\ Becomes(t, r)
  BY <1>1, StepTogo DEF Remove, SetMine, At
<1> HIDE DEF old
<1>3. r \in Threads
  BY <1>1, <1>2, OneHand DEF Typed, LocalOK, KindOf, MineOf, Locals, Threads, Pcs, Requests,
    Flushing, Scanning, Freeing
<1>4. LocalOK(t, r)
  <2>1. r.pc = "free" /\  r.kind = old.kind /\  r.pos = old.pos /\  r.mine = old.mine /\ 
        r.victim = old.victim /\  r.togo = <<<<t, old.mine>>>> /\  r.counted = old.counted /\ 
        r.again = old.again /\  r.err = old.err /\  r.ops = old.ops
    BY DEF Locals
  <2> HIDE DEF r
  <2>2. KindOf(r)
    BY <1>1, <1>2, <1>3, <2>1 DEF LocalOK, KindOf, HandOf, CountOf, Threads, Requests,
      Flushing, Scanning, Freeing
  <2>3. MineOf(r)
    BY <1>1, <1>2, <1>3, <2>1, OneHand DEF LocalOK, KindOf, MineOf, Threads, Requests,
      Flushing, Scanning, Freeing, Typed
  <2>4. HandOf(t, r)
    BY <1>1, <1>2, <1>3, <2>1, OneHand DEF LocalOK, KindOf, MineOf, HandOf, Threads,
      Requests, Flushing, Scanning, Freeing
  <2>5. CountOf(r)
    BY <1>1, <1>2, <1>3, <2>1 DEF LocalOK, KindOf, CountOf, Threads, Requests, Flushing,
      Scanning, Freeing
  <2> QED
    BY <2>2, <2>3, <2>4, <2>5 DEF LocalOK
<1>5. Control' /\ thread' \in [Datasets -> Threads]
  BY <1>1, <1>2, <1>3, <1>4, ControlFrame DEF Remove, SetMine, cache, Scanning, Locals, old
<1>6. Typed'
  <2>1. UNCHANGED <<hRBLock, slot, freeList, keepAlive, flushErr, rwMutex, disk, written,
    raced, unreported>>
    BY DEF Remove, SetMine, cache, band, history
  <2>2. nCacheUsed' \in Int
    BY DEF Typed, Remove, SetMine
  <2>3. thread[t].mine \in Ids /\ t \in Datasets
    BY <1>1, <1>2 DEF old, LocalOK, KindOf, MineOf, Freeing, Scanning, Requests, Flushing,
      Typed
  <2>4. Mine(t) \in Entries
    BY <2>3 DEF Mine, The, Typed
  <2>5. [Mine(t) EXCEPT !.listed = FALSE] \in Entries
    BY <2>4 DEF Entries
  <2>6. block' = [block EXCEPT ![t][thread[t].mine] = [Mine(t) EXCEPT !.listed = FALSE]]
    BY DEF Remove, SetMine
  <2>7. block' \in [Datasets -> [Ids -> Entries]]
    BY <2>4, <2>3, <2>5, <2>6, SetBlock
  <2> QED
    BY <1>5, <2>1, <2>2, <2>3, <2>4, <2>5, <2>6, <2>7 DEF Typed
<1> QED
  BY <1>2, <1>5, <1>6 DEF old

LEMMA RemoveLeaveStep ==
  ASSUME Typed, Control, NEW t \in Datasets, Remove(t), ~(Mine(t).dirty /\ ~thread[t].err),
    thread[t].kind \notin Flushing
  PROVE  LET old == thread[t] IN
         /\ old.pc = "remove" /\ (~(Mine(t).dirty /\ ~old.err)) /\ (old.kind \notin Flushing)
         /\ Becomes(t, Locals("leave", old.kind, old.pos, old.mine, old.victim, old.togo,
                              old.counted, old.again, old.err, old.ops))
         /\ Typed' /\ Control'
<1> DEFINE old == thread[t]
           r == Locals("leave", old.kind, old.pos, old.mine, old.victim, old.togo,
                       old.counted, old.again, old.err, old.ops)
<1>1. old \in Threads /\ LocalOK(t, old) /\ (hRBLock = t <=> old.pc \in Scanning)
  BY LocalNow
<1>2. old.pc = "remove" /\ (~(Mine(t).dirty /\ ~old.err)) /\ (old.kind \notin Flushing) /\ Becomes(t, r)
  BY <1>1, StepPc DEF Remove, SetMine, FlushNext, At
<1> HIDE DEF old
<1>3. r \in Threads
  BY <1>1, <1>2 DEF Typed, LocalOK, KindOf, MineOf, Locals, Threads, Pcs, Requests, Flushing,
    Scanning, Freeing
<1>4. LocalOK(t, r)
  <2>1. r.pc = "leave" /\  r.kind = old.kind /\  r.pos = old.pos /\  r.mine = old.mine /\ 
        r.victim = old.victim /\  r.togo = old.togo /\  r.counted = old.counted /\ 
        r.again = old.again /\  r.err = old.err /\  r.ops = old.ops
    BY DEF Locals
  <2> HIDE DEF r
  <2>2. KindOf(r)
    BY <1>1, <1>2, <1>3, <2>1 DEF LocalOK, KindOf, HandOf, CountOf, Threads, Requests,
      Flushing, Scanning, Freeing
  <2>3. MineOf(r)
    BY <1>1, <1>2, <1>3, <2>1 DEF LocalOK, KindOf, MineOf, Threads, Requests, Flushing,
      Scanning, Freeing, Typed
  <2>4. HandOf(t, r)
    BY <1>1, <1>2, <1>3, <2>1 DEF LocalOK, KindOf, MineOf, HandOf, Threads, Requests,
      Flushing, Scanning, Freeing
  <2>5. CountOf(r)
    BY <1>1, <1>2, <1>3, <2>1 DEF LocalOK, KindOf, CountOf, Threads, Requests, Flushing,
      Scanning, Freeing
  <2> QED
    BY <2>2, <2>3, <2>4, <2>5 DEF LocalOK
<1>5. Control' /\ thread' \in [Datasets -> Threads]
  BY <1>1, <1>2, <1>3, <1>4, ControlFrame DEF Remove, SetMine, FlushNext, cache, Scanning,
    Locals, old
<1>6. Typed'
  <2>1. UNCHANGED <<hRBLock, slot, freeList, keepAlive, flushErr, rwMutex, disk, written,
    raced>>
    BY DEF Remove, SetMine, FlushNext, cache, band, history
  <2>2. nCacheUsed' \in Int
    BY DEF Typed, Remove, SetMine, FlushNext
  <2>3. unreported' \in [Datasets -> BOOLEAN]
    BY DEF Typed, Remove, SetMine, FlushNext
  <2>4. thread[t].mine \in Ids /\ t \in Datasets
    BY <1>1, <1>2 DEF old, LocalOK, KindOf, MineOf, Freeing, Scanning, Requests, Flushing,
      Typed
  <2>5. Deleted \in Entries
    BY <2>4, Blank
  <2>6. block' = [block EXCEPT ![t][thread[t].mine] = Deleted]
    BY DEF Remove, SetMine, FlushNext
  <2>7. block' \in [Datasets -> [Ids -> Entries]]
    BY <2>4, <2>3, <2>5, <2>6, SetBlock
  <2> QED
    BY <1>5, <2>1, <2>2, <2>3, <2>4, <2>5, <2>6, <2>7 DEF Typed
<1> QED
  BY <1>2, <1>5, <1>6 DEF old

LEMMA RemoveNextStep ==
  ASSUME Typed, Control, NEW t \in Datasets, Remove(t), ~(Mine(t).dirty /\ ~thread[t].err),
    thread[t].kind \in Flushing
  PROVE  LET old == thread[t] IN
         \E j : /\ old.pc = "remove" /\ old.kind \in Flushing /\ NextSlot(t, old.pos + 1, j)
                /\ Becomes(t, Locals(IF j \in Positions THEN "take" ELSE "wait", old.kind,
                                     j, NoBlock, old.victim, <<>>, old.counted, old.again,
                                     old.err, old.ops))
                /\ Typed' /\ Control'
<1> DEFINE old == thread[t]
           R(j) == Locals(IF j \in Positions THEN "take" ELSE "wait", old.kind, j, NoBlock,
                          old.victim, <<>>, old.counted, old.again, old.err, old.ops)
<1>1. old \in Threads /\ LocalOK(t, old) /\ (hRBLock = t <=> old.pc \in Scanning)
  BY LocalNow
<1>0. old.pos + 1 \in Nat
  <2>1. old.pos \in Nat
    BY <1>1, CacheAssumption, FS_CardinalityType DEF Remove, SetMine, FlushNext, At, LocalOK,
      KindOf, MineOf, Requests, Flushing, Freeing, Scanning, Threads
  <2> QED
    BY <2>1
<1>2. \E j : old.pc = "remove" /\ old.kind \in Flushing /\ NextSlot(t, old.pos + 1, j) /\ Becomes(t, R(j))
  BY <1>1, <1>0, FlushFromStep DEF Remove, SetMine, FlushNext, At, LocalOK, KindOf, MineOf,
    Requests, Flushing, Freeing, Scanning
<1> PICK j : old.pc = "remove" /\ old.kind \in Flushing /\ NextSlot(t, old.pos + 1, j) /\ Becomes(t, R(j))
  BY <1>2
<1> DEFINE r == R(j)
<1> HIDE DEF old
<1>3. r \in Threads
  BY <1>1, <1>2 DEF Typed, LocalOK, KindOf, MineOf, Locals, Threads, Pcs, Requests, Flushing,
    Scanning, Freeing, NextSlot
<1>4. LocalOK(t, r)
  <2>1. r.pc = (IF j \in Positions THEN "take" ELSE "wait") /\  r.kind = old.kind /\ 
        r.pos = j /\  r.mine = NoBlock /\  r.victim = old.victim /\  r.togo = <<>> /\ 
        r.counted = old.counted /\  r.again = old.again /\  r.err = old.err /\ 
        r.ops = old.ops
    BY DEF Locals
  <2> HIDE DEF r
  <2>2. KindOf(r)
    BY <1>1, <1>2, <1>3, <2>1 DEF LocalOK, KindOf, HandOf, CountOf, Threads, Requests,
      Flushing, Scanning, Freeing
  <2>3. MineOf(r)
    BY <1>1, <1>2, <1>3, <2>1 DEF LocalOK, KindOf, MineOf, Threads, Requests, Flushing,
      Scanning, Freeing, Typed
  <2>4. HandOf(t, r)
    BY <1>1, <1>2, <1>3, <2>1 DEF LocalOK, KindOf, MineOf, HandOf, Threads, Requests,
      Flushing, Scanning, Freeing
  <2>5. CountOf(r)
    BY <1>1, <1>2, <1>3, <2>1 DEF LocalOK, KindOf, CountOf, Threads, Requests, Flushing,
      Scanning, Freeing
  <2> QED
    BY <2>2, <2>3, <2>4, <2>5 DEF LocalOK
<1>5. Control' /\ thread' \in [Datasets -> Threads]
  BY <1>1, <1>2, <1>3, <1>4, ControlFrame DEF Remove, SetMine, FlushNext, cache, Scanning,
    Locals, old
<1>6. Typed'
  <2>1. UNCHANGED <<hRBLock, slot, freeList, keepAlive, flushErr, rwMutex, disk, written,
    raced>>
    BY DEF Remove, SetMine, FlushNext, cache, band, history
  <2>2. nCacheUsed' \in Int
    BY DEF Typed, Remove, SetMine, FlushNext
  <2>3. unreported' \in [Datasets -> BOOLEAN]
    BY DEF Typed, Remove, SetMine, FlushNext
  <2>4. thread[t].mine \in Ids /\ t \in Datasets
    BY <1>1, <1>2 DEF old, LocalOK, KindOf, MineOf, Freeing, Scanning, Requests, Flushing,
      Typed
  <2>5. Deleted \in Entries
    BY <2>4, Blank
  <2>6. block' = [block EXCEPT ![t][thread[t].mine] = Deleted]
    BY DEF Remove, SetMine, FlushNext
  <2>7. block' \in [Datasets -> [Ids -> Entries]]
    BY <2>4, <2>3, <2>5, <2>6, SetBlock
  <2> QED
    BY <1>5, <2>1, <2>2, <2>3, <2>4, <2>5, <2>6, <2>7 DEF Typed
<1> QED
  BY <1>2, <1>5, <1>6 DEF old

LEMMA DeleteStep ==
  ASSUME Typed, Control, NEW t \in Datasets, Delete(t)
  PROVE  LET old == thread[t] IN
         \E j : /\ old.pc = "delete" /\ old.kind \in Flushing /\ NextSlot(t, old.pos + 1, j)
                /\ Becomes(t, Locals(IF j \in Positions THEN "take" ELSE "wait", old.kind,
                                     j, NoBlock, old.victim, <<>>, old.counted, old.again,
                                     old.err, old.ops))
                /\ Typed' /\ Control'
<1> DEFINE old == thread[t]
           R(j) == Locals(IF j \in Positions THEN "take" ELSE "wait", old.kind, j, NoBlock,
                          old.victim, <<>>, old.counted, old.again, old.err, old.ops)
<1>1. old \in Threads /\ LocalOK(t, old) /\ (hRBLock = t <=> old.pc \in Scanning)
  BY LocalNow
<1>0. old.pos + 1 \in Nat
  <2>1. old.pos \in Nat
    BY <1>1, CacheAssumption, FS_CardinalityType DEF Delete, SetMine, FlushNext, At, LocalOK,
      KindOf, MineOf, Requests, Flushing, Freeing, Scanning, Threads
  <2> QED
    BY <2>1
<1>2. \E j : old.pc = "delete" /\ old.kind \in Flushing /\ NextSlot(t, old.pos + 1, j) /\ Becomes(t, R(j))
  BY <1>1, <1>0, FlushFromStep DEF Delete, SetMine, FlushNext, At, LocalOK, KindOf, MineOf,
    Requests, Flushing, Freeing, Scanning
<1> PICK j : old.pc = "delete" /\ old.kind \in Flushing /\ NextSlot(t, old.pos + 1, j) /\ Becomes(t, R(j))
  BY <1>2
<1> DEFINE r == R(j)
<1> HIDE DEF old
<1>3. r \in Threads
  BY <1>1, <1>2 DEF Typed, LocalOK, KindOf, MineOf, Locals, Threads, Pcs, Requests, Flushing,
    Scanning, Freeing, NextSlot
<1>4. LocalOK(t, r)
  <2>1. r.pc = (IF j \in Positions THEN "take" ELSE "wait") /\  r.kind = old.kind /\ 
        r.pos = j /\  r.mine = NoBlock /\  r.victim = old.victim /\  r.togo = <<>> /\ 
        r.counted = old.counted /\  r.again = old.again /\  r.err = old.err /\ 
        r.ops = old.ops
    BY DEF Locals
  <2> HIDE DEF r
  <2>2. KindOf(r)
    BY <1>1, <1>2, <1>3, <2>1 DEF LocalOK, KindOf, HandOf, CountOf, Threads, Requests,
      Flushing, Scanning, Freeing
  <2>3. MineOf(r)
    BY <1>1, <1>2, <1>3, <2>1 DEF LocalOK, KindOf, MineOf, Threads, Requests, Flushing,
      Scanning, Freeing, Typed
  <2>4. HandOf(t, r)
    <3>1. old.victim = NoVictim
      BY <1>1, <1>2 DEF LocalOK, HandOf
    <3>2. /\ r.victim = NoVictim /\ r.togo = <<>>
          /\ r.pc \notin {"unref", "iwrite", "failed", "giveback", "countdown", "delete"} \cup Freeing
      BY <2>1, <3>1 DEF Freeing
    <3> QED
      BY <3>2 DEF HandOf, NoTwice
  <2>5. CountOf(r)
    BY <1>1, <1>2, <1>3, <2>1 DEF LocalOK, KindOf, CountOf, Threads, Requests, Flushing,
      Scanning, Freeing
  <2> QED
    BY <2>2, <2>3, <2>4, <2>5 DEF LocalOK
<1>5. Control' /\ thread' \in [Datasets -> Threads]
  BY <1>1, <1>2, <1>3, <1>4, ControlFrame DEF Delete, SetMine, FlushNext, cache, Scanning,
    Locals, old
<1>6. Typed'
  <2>1. UNCHANGED <<hRBLock, nCacheUsed, slot, freeList, keepAlive, flushErr, rwMutex, disk,
    written, raced, unreported>>
    BY DEF Delete, SetMine, FlushNext, cache, band, history
  <2>2. thread[t].mine \in Ids /\ t \in Datasets
    BY <1>1, <1>2 DEF old, LocalOK, KindOf, MineOf, Freeing, Scanning, Requests, Flushing,
      Typed
  <2>3. Deleted \in Entries
    BY <2>2, Blank
  <2>4. block' = [block EXCEPT ![t][thread[t].mine] = Deleted]
    BY DEF Delete, SetMine, FlushNext
  <2>5. block' \in [Datasets -> [Ids -> Entries]]
    BY <2>2, <2>1, <2>3, <2>4, SetBlock
  <2> QED
    BY <1>5, <2>1, <2>2, <2>3, <2>4, <2>5 DEF Typed
<1> QED
  BY <1>2, <1>5, <1>6 DEF old

LEMMA FlushedStep ==
  ASSUME Typed, Control, NEW t \in Datasets, Flushed(t), thread[t].kind = "flush"
  PROVE  LET old == thread[t] IN
         /\ old.pc = "wait" /\ (old.kind = "flush")
         /\ Becomes(t, Locals("idle", IF old.kind = "flush" THEN "flush" ELSE "none", 0,
                              NoBlock, NoVictim, <<>>, FALSE, FALSE, FALSE, old.ops))
         /\ Typed' /\ Control'
<1> DEFINE old == thread[t]
           r == Locals("idle", IF old.kind = "flush" THEN "flush" ELSE "none", 0, NoBlock,
                       NoVictim, <<>>, FALSE, FALSE, FALSE, old.ops)
<1>1. old \in Threads /\ LocalOK(t, old) /\ (hRBLock = t <=> old.pc \in Scanning)
  BY LocalNow
<1>2. old.pc = "wait" /\ (old.kind = "flush") /\ Becomes(t, r)
  BY <1>1, EndStep DEF Flushed, At
<1> HIDE DEF old
<1>3. r \in Threads
  BY <1>1, <1>2 DEF Typed, LocalOK, KindOf, MineOf, Locals, Threads, Pcs, Requests, Flushing,
    Scanning, Freeing
<1>4. LocalOK(t, r)
  <2>1. r.pc = "idle" /\  r.kind = (IF old.kind = "flush" THEN "flush" ELSE "none") /\ 
        r.pos = 0 /\  r.mine = NoBlock /\  r.victim = NoVictim /\  r.togo = <<>> /\ 
        r.counted = FALSE /\  r.again = FALSE /\  r.err = FALSE /\  r.ops = old.ops
    BY DEF Locals
  <2> HIDE DEF r
  <2>2. KindOf(r)
    BY <1>1, <1>2, <1>3, <2>1 DEF LocalOK, KindOf, HandOf, CountOf, Threads, Requests,
      Flushing, Scanning, Freeing
  <2>3. MineOf(r)
    BY <1>1, <1>2, <1>3, <2>1 DEF LocalOK, KindOf, MineOf, Threads, Requests, Flushing,
      Scanning, Freeing, Typed
  <2>4. HandOf(t, r)
    BY <1>1, <1>2, <1>3, <2>1 DEF LocalOK, KindOf, MineOf, HandOf, Threads, Requests,
      Flushing, Scanning, Freeing
  <2>5. CountOf(r)
    BY <1>1, <1>2, <1>3, <2>1 DEF LocalOK, KindOf, CountOf, Threads, Requests, Flushing,
      Scanning, Freeing
  <2> QED
    BY <2>2, <2>3, <2>4, <2>5 DEF LocalOK
<1>5. Control' /\ thread' \in [Datasets -> Threads]
  BY <1>1, <1>2, <1>3, <1>4, ControlFrame DEF Flushed, cache, Scanning, Locals, old
<1>6. Typed'
  <2>1. UNCHANGED <<hRBLock, nCacheUsed, block, slot, freeList, keepAlive, flushErr, rwMutex,
    disk, written, raced>>
    BY DEF Flushed, cache, band, history
  <2>2. unreported' = [unreported EXCEPT ![t] = @ /\ ~thread[t].err]
    BY DEF Flushed
  <2>3. unreported' \in [Datasets -> BOOLEAN]
    BY <2>2 DEF Typed
  <2> QED
    BY <1>5, <2>1, <2>2, <2>3 DEF Typed
<1> QED
  BY <1>2, <1>5, <1>6 DEF old

LEMMA ClosedStep ==
  ASSUME Typed, Control, NEW t \in Datasets, Flushed(t), thread[t].kind = "close"
  PROVE  LET old == thread[t] IN
         /\ old.pc = "wait" /\ (old.kind = "close")
         /\ Becomes(t, Locals("destroy", "close", 0, NoBlock, NoVictim, <<>>, FALSE, FALSE,
                              FALSE, 0))
         /\ Typed' /\ Control'
<1> DEFINE old == thread[t]
           r == Locals("destroy", "close", 0, NoBlock, NoVictim, <<>>, FALSE, FALSE, FALSE,
                       0)
<1>1. old \in Threads /\ LocalOK(t, old) /\ (hRBLock = t <=> old.pc \in Scanning)
  BY LocalNow
<1>2. old.pc = "wait" /\ (old.kind = "close") /\ Becomes(t, r)
  BY <1>1, StepIdle DEF Flushed, At
<1> HIDE DEF old
<1>3. r \in Threads
  BY <1>1, <1>2 DEF Typed, LocalOK, KindOf, MineOf, Locals, Threads, Pcs, Requests, Flushing,
    Scanning, Freeing
<1>4. LocalOK(t, r)
  <2>1. r.pc = "destroy" /\  r.kind = "close" /\  r.pos = 0 /\  r.mine = NoBlock /\ 
        r.victim = NoVictim /\  r.togo = <<>> /\  r.counted = FALSE /\  r.again = FALSE /\ 
        r.err = FALSE /\  r.ops = 0
    BY DEF Locals
  <2> HIDE DEF r
  <2>2. KindOf(r)
    BY <1>1, <1>2, <1>3, <2>1 DEF LocalOK, KindOf, HandOf, CountOf, Threads, Requests,
      Flushing, Scanning, Freeing
  <2>3. MineOf(r)
    BY <1>1, <1>2, <1>3, <2>1 DEF LocalOK, KindOf, MineOf, Threads, Requests, Flushing,
      Scanning, Freeing, Typed
  <2>4. HandOf(t, r)
    BY <1>1, <1>2, <1>3, <2>1 DEF LocalOK, KindOf, MineOf, HandOf, Threads, Requests,
      Flushing, Scanning, Freeing
  <2>5. CountOf(r)
    BY <1>1, <1>2, <1>3, <2>1 DEF LocalOK, KindOf, CountOf, Threads, Requests, Flushing,
      Scanning, Freeing
  <2> QED
    BY <2>2, <2>3, <2>4, <2>5 DEF LocalOK
<1>5. Control' /\ thread' \in [Datasets -> Threads]
  BY <1>1, <1>2, <1>3, <1>4, ControlFrame DEF Flushed, cache, Scanning, Locals, old
<1>6. Typed'
  <2>1. UNCHANGED <<hRBLock, nCacheUsed, block, slot, freeList, keepAlive, flushErr, rwMutex,
    disk, written, raced>>
    BY DEF Flushed, cache, band, history
  <2>2. unreported' = [unreported EXCEPT ![t] = @ /\ ~thread[t].err]
    BY DEF Flushed
  <2>3. unreported' \in [Datasets -> BOOLEAN]
    BY <2>2 DEF Typed
  <2> QED
    BY <1>5, <2>1, <2>2, <2>3 DEF Typed
<1> QED
  BY <1>2, <1>5, <1>6 DEF old

LEMMA DestroyedStep ==
  ASSUME Typed, Control, NEW t \in Datasets, Flushed(t), thread[t].kind = "destroy"
  PROVE  LET old == thread[t] IN
         /\ old.pc = "wait" /\ (old.kind = "destroy")
         /\ Becomes(t, Locals("closed", "destroy", 0, NoBlock, NoVictim, <<>>, FALSE,
                              FALSE, FALSE, 0))
         /\ Typed' /\ Control'
<1> DEFINE old == thread[t]
           r == Locals("closed", "destroy", 0, NoBlock, NoVictim, <<>>, FALSE, FALSE,
                       FALSE, 0)
<1>1. old \in Threads /\ LocalOK(t, old) /\ (hRBLock = t <=> old.pc \in Scanning)
  BY LocalNow
<1>2. old.pc = "wait" /\ (old.kind = "destroy") /\ Becomes(t, r)
  BY <1>1, StepIdle DEF Flushed, At
<1> HIDE DEF old
<1>3. r \in Threads
  BY <1>1, <1>2 DEF Typed, LocalOK, KindOf, MineOf, Locals, Threads, Pcs, Requests, Flushing,
    Scanning, Freeing
<1>4. LocalOK(t, r)
  <2>1. r.pc = "closed" /\  r.kind = "destroy" /\  r.pos = 0 /\  r.mine = NoBlock /\ 
        r.victim = NoVictim /\  r.togo = <<>> /\  r.counted = FALSE /\  r.again = FALSE /\ 
        r.err = FALSE /\  r.ops = 0
    BY DEF Locals
  <2> HIDE DEF r
  <2>2. KindOf(r)
    BY <1>1, <1>2, <1>3, <2>1 DEF LocalOK, KindOf, HandOf, CountOf, Threads, Requests,
      Flushing, Scanning, Freeing
  <2>3. MineOf(r)
    BY <1>1, <1>2, <1>3, <2>1 DEF LocalOK, KindOf, MineOf, Threads, Requests, Flushing,
      Scanning, Freeing, Typed
  <2>4. HandOf(t, r)
    BY <1>1, <1>2, <1>3, <2>1 DEF LocalOK, KindOf, MineOf, HandOf, Threads, Requests,
      Flushing, Scanning, Freeing
  <2>5. CountOf(r)
    BY <1>1, <1>2, <1>3, <2>1 DEF LocalOK, KindOf, CountOf, Threads, Requests, Flushing,
      Scanning, Freeing
  <2> QED
    BY <2>2, <2>3, <2>4, <2>5 DEF LocalOK
<1>5. Control' /\ thread' \in [Datasets -> Threads]
  BY <1>1, <1>2, <1>3, <1>4, ControlFrame DEF Flushed, cache, Scanning, Locals, old
<1>6. Typed'
  <2>1. UNCHANGED <<hRBLock, nCacheUsed, slot, keepAlive, flushErr, rwMutex, disk, written,
    raced, unreported>>
    BY DEF Flushed, cache, band, history
  <2>2. freeList' \in [Datasets -> SUBSET Ids]
    BY DEF Typed, Flushed
  <2>3. block' = [block EXCEPT ![t] = Dangling(t, block[t])]
    BY DEF Flushed
  <2>4. block' \in [Datasets -> [Ids -> Entries]]
    BY <2>3, DanglingRow, SetRow
  <2> QED
    BY <1>5, <2>1, <2>2, <2>3, <2>4 DEF Typed
<1> QED
  BY <1>2, <1>5, <1>6 DEF old

(* What is read from the file, or not: three outcomes.                     *)
LEMMA FillStep ==
  ASSUME Typed, Control, NEW t \in Datasets, Fill(t)
  PROVE  LET old == thread[t] IN
         /\ old.pc = "fill"
         /\ \/ /\ UNCHANGED block
               /\ Becomes(t, Locals("use", old.kind, old.pos, old.mine, old.victim, old.togo,
                                    old.counted, old.again, old.err, old.ops))
               /\ old.kind = "write"
            \/ /\ SetMine(t, [Mine(t) EXCEPT !.val = disk[t][old.pos]])
               /\ Becomes(t, Locals("use", old.kind, old.pos, old.mine, old.victim, old.togo,
                                    old.counted, old.again, old.err, old.ops))
               /\ old.kind # "write"
            \/ /\ SetMine(t, [Mine(t) EXCEPT !.lock = @ - 1])
               /\ Becomes(t, Locals("take", old.kind, old.pos, old.mine, old.victim, old.togo,
                                    old.counted, old.again, old.err, old.ops))
               /\ old.kind # "write"
         /\ Typed' /\ Control'
<1> DEFINE old == thread[t]
           r(w) == Locals(w, old.kind, old.pos, old.mine, old.victim, old.togo, old.counted,
                          old.again, old.err, old.ops)
<1>1. old \in Threads /\ LocalOK(t, old) /\ (hRBLock = t <=> old.pc \in Scanning)
  BY LocalNow
<1>2. /\ old.pc = "fill"
      /\ \/ UNCHANGED block /\ Becomes(t, r("use")) /\ old.kind = "write"
         \/ /\ SetMine(t, [Mine(t) EXCEPT !.val = disk[t][old.pos]])
            /\ Becomes(t, r("use")) /\ old.kind # "write"
         \/ /\ SetMine(t, [Mine(t) EXCEPT !.lock = @ - 1])
            /\ Becomes(t, r("take")) /\ old.kind # "write"
  BY StepPc DEF Fill, Goto, At
<1> HIDE DEF old
<1>3. ASSUME NEW w \in {"use", "take"}, Becomes(t, r(w))
      PROVE  Control' /\ thread' \in [Datasets -> Threads]
  <2> DEFINE n == r(w)
  <2>1. n \in Threads
    BY <1>1, <1>2 DEF Typed, LocalOK, KindOf, MineOf, Locals, Threads, Pcs, Requests,
       Flushing, Scanning, Freeing
  <2>2. /\ n.pc = w /\ n.kind = old.kind /\ n.pos = old.pos /\ n.mine = old.mine
        /\ n.victim = old.victim /\ n.togo = old.togo /\ n.counted = old.counted
        /\ n.again = old.again /\ n.err = old.err /\ n.ops = old.ops
    BY DEF Locals
  <2>3. LocalOK(t, n)
    <3> HIDE DEF n
    <3>1. KindOf(n)
      BY <1>1, <1>2, <2>1, <2>2 DEF LocalOK, KindOf, Requests, Flushing, Scanning, Freeing
    <3>2. MineOf(n)
      BY <1>1, <1>2, <2>1, <2>2 DEF LocalOK, KindOf, MineOf, Requests, Flushing, Scanning,
         Freeing
    <3>3. HandOf(t, n)
      BY <1>1, <1>2, <2>1, <2>2 DEF LocalOK, KindOf, HandOf, Requests, Flushing, Scanning,
         Freeing
    <3>4. CountOf(n)
      BY <1>1, <1>2, <2>1, <2>2 DEF LocalOK, KindOf, CountOf, Threads, Requests, Flushing,
         Scanning, Freeing
    <3> QED
      BY <3>1, <3>2, <3>3, <3>4 DEF LocalOK
  <2> QED
    BY <1>1, <1>2, <1>3, <2>1, <2>2, <2>3, ControlFrame DEF Fill, Scanning, old
<1>4. thread[t].mine \in Ids /\ thread[t].pos \in Positions
  BY <1>1, <1>2 DEF old, LocalOK, KindOf, MineOf, Requests
<1>5. block' \in [Datasets -> [Ids -> Entries]]
  <2>1. Mine(t) \in Entries /\ disk[t][thread[t].pos] \in Nat
    BY <1>4 DEF Mine, Typed
  <2>2. /\ [Mine(t) EXCEPT !.lock = @ - 1] \in Entries
        /\ [Mine(t) EXCEPT !.val = disk[t][thread[t].pos]] \in Entries
    BY <2>1 DEF Entries
  <2>3. \/ UNCHANGED block
        \/ block' = [block EXCEPT ![t][thread[t].mine] = [Mine(t) EXCEPT !.lock = @ - 1]]
        \/ block' = [block EXCEPT ![t][thread[t].mine] =
                                    [Mine(t) EXCEPT !.val = disk[t][thread[t].pos]]]
    BY <1>2 DEF SetMine, old
  <2> QED
    BY <1>4, <2>2, <2>3, SetBlock DEF Typed
<1>6. Typed'
  <2>1. UNCHANGED <<hRBLock, nCacheUsed, slot, freeList, keepAlive, flushErr, rwMutex, disk,
                    written, unreported>>
    BY DEF Fill, band
  <2>2. raced' \in [Datasets -> BOOLEAN]
    <3>1. raced' = [raced EXCEPT ![t] = @ \/ FormerSelf(t)]
      BY DEF Fill
    <3> QED
      BY <3>1 DEF Typed
  <2> QED
    BY <1>2, <1>3, <1>5, <2>1, <2>2 DEF Typed
<1> QED
  BY <1>2, <1>3, <1>6 DEF old

-----------------------------------------------------------------------------
(***************************************************************************)
(* Places: what a step leaves alone.                                       *)
(***************************************************************************)
LEMMA Others ==
  ASSUME Typed, NEW t \in Datasets, NEW r, Becomes(t, r)
  PROVE  /\ thread'[t] = r
         /\ \A u \in Datasets \ {t} :
              /\ thread'[u] = thread[u] /\ HandsOf(u)' = HandsOf(u) /\ Held(u)' = Held(u)
<1>1. thread'[t] = r /\ \A u \in Datasets \ {t} : thread'[u] = thread[u]
  BY DEF Becomes, Typed
<1>2. ASSUME NEW u \in Datasets, thread'[u] = thread[u]
      PROVE  HandsOf(u)' = HandsOf(u) /\ Held(u)' = Held(u)
  BY <1>2 DEF HandsOf, Held, First
<1> QED
  BY <1>1, <1>2

(* Nothing is evicted or given back in the step.                           *)
SameHands ==
  /\ \A u \in Datasets : Held(u)' = Held(u)
  /\ \A d, b : (Evicted(d, b)' <=> Evicted(d, b)) /\ (Leaving(d, b)' <=> Leaving(d, b))

LEMMA HandsFrame ==
  ASSUME Typed, NEW t \in Datasets, NEW r, Becomes(t, r), Held(t)' = Held(t),
         r.pc = "unref" \/ thread[t].pc = "unref" => r.pc = thread[t].pc /\ r.victim = thread[t].victim
  PROVE  SameHands
<1>1. \A u \in Datasets : Held(u)' = Held(u)
  BY Others
<1>2. \A d, b : Evicted(d, b)' <=> Evicted(d, b)
  BY <1>1 DEF Evicted
<1>3. \A u \in Datasets : \A x :
        (thread[u].pc = "unref" /\ thread[u].victim = x)' <=> (thread[u].pc = "unref" /\ thread[u].victim = x)
  BY Others
<1>4. \A d, b : Leaving(d, b)' <=> Leaving(d, b)
  BY <1>3 DEF Leaving
<1> QED
  BY <1>1, <1>2, <1>4 DEF SameHands

LEMMA HandsKept ==
  ASSUME Typed, NEW t \in Datasets, NEW r, Becomes(t, r),
         r.togo = thread[t].togo, r.victim = thread[t].victim,
         r.kind \in Flushing <=> thread[t].kind \in Flushing,
         r.pc = "countdown" <=> thread[t].pc = "countdown",
         r.pc = "unref" <=> thread[t].pc = "unref"
  PROVE  SameHands
<1>1. Held(t)' = Held(t)
  BY Others DEF Held, HandsOf, First
<1> QED
  BY <1>1, HandsFrame

(* A thread with nothing in its hands, before and after.                   *)
LEMMA HandsEmpty ==
  ASSUME Typed, NEW t \in Datasets, NEW r, Becomes(t, r),
         r.kind \in Flushing \/ (r.togo = <<>> /\ r.victim = NoVictim),
         thread[t].kind \in Flushing \/ (thread[t].togo = <<>> /\ thread[t].victim = NoVictim),
         r.pc # "unref", thread[t].pc # "unref"
  PROVE  SameHands
<1>1. Held(t) = {} /\ Held(t)' = {}
  BY Others DEF Held, HandsOf
<1> QED
  BY <1>1, HandsFrame

LEMMA LeavingHeld ==
  ASSUME Typed, Control
  PROVE  \A d, b : Leaving(d, b) => Evicted(d, b)
<1>1. ASSUME NEW u \in Datasets, NEW x, thread[u].pc = "unref", thread[u].victim = x
      PROVE  x \in Held(u)
  BY <1>1 DEF Control, KindOf, HandOf, Held, HandsOf, Scanning, Flushing, Requests
<1> QED
  BY <1>1 DEF Leaving, Evicted

(* What a thread has to do with a block of its band.                       *)
SameRole(d, b) ==
  /\ Own(d, b)' <=> Own(d, b)
  /\ Makes(d, b)' <=> Makes(d, b)
  /\ Works(d, b, {"use", "fill"})' <=> Works(d, b, {"use", "fill"})
  /\ Works(d, b, {"remove"})' <=> Works(d, b, {"remove"})
  /\ Works(d, b, {"droplock"})' <=> Works(d, b, {"droplock"})
  /\ Works(d, b, {"unlock"})' <=> Works(d, b, {"unlock"})
  /\ Leaving(d, b) /\ Works(d, b, Stuck) =>
       Works(d, b, Stuck)' /\ thread'[d].pos = thread[d].pos

HandsOn(d, b) ==
  /\ \A u \in Datasets : <<d, b>> \in Held(u)' <=> <<d, b>> \in Held(u)
  /\ Evicted(d, b)' <=> Evicted(d, b)
  /\ Leaving(d, b)' <=> Leaving(d, b)

LEMMA BlockFrame ==
  ASSUME NEW d \in Datasets, NEW b \in Ids, BlockOK(d, b), HandsOn(d, b), SameRole(d, b),
         Leaving(d, b) => Evicted(d, b),
         block'[d][b] = block[d][b],
         \A i \in Positions : slot'[d][i] = b <=> slot[d][i] = b,
         b \in freeList'[d] <=> b \in freeList[d]
  PROVE  BlockOK(d, b)'
<1> USE DEF HandsOn, SameRole, BlockOK
<1>1. InSlot(d, b)' <=> InSlot(d, b)
  BY DEF InSlot
<1>2. LockOf(d, b)' = LockOf(d, b)
  BY DEF LockOf
<1>3. Dead(d, b)'
  BY <1>1 DEF Dead
<1>4. Slotted(d, b)'
  BY DEF Slotted
<1>5. GivenBack(d, b)'
  BY <1>2 DEF GivenBack
<1>6. OutOfList(d, b)' /\ OneEvictor(d, b)'
  BY <1>1, <1>2 DEF OutOfList, OneEvictor
<1>7. Listed(d, b)'
  BY DEF Listed
<1>8. Placed(d, b)'
  BY <1>1 DEF Placed
<1>9. LeavesSlot(d, b)'
  <2>1. Leaving(d, b) => block[d][b].pos \in Positions
    BY DEF OutOfList
  <2> QED
    BY <2>1 DEF LeavesSlot
<1> QED
  BY <1>3, <1>4, <1>5, <1>6, <1>7, <1>8, <1>9

LEMMA MineFrame ==
  ASSUME Typed, NEW d \in Datasets, Mine1(d), SameHands,
         UNCHANGED <<thread[d], block[d], slot[d], freeList[d]>>
  PROVE  Mine1(d)'
<1>1. \A b : InSlot(d, b)' <=> InSlot(d, b)
  BY DEF InSlot
<1>2. /\ Making(d)' <=> Making(d)
      /\ Put(d)' <=> Put(d)
      /\ Flusher(d)' <=> Flusher(d)
  BY DEF Making, Put, Flusher
<1> QED
  BY <1>1, <1>2 DEF Mine1, SameHands

LEMMA RoleFrame ==
  ASSUME NEW d \in Datasets, UNCHANGED thread[d]
  PROVE  \A b : SameRole(d, b)
  BY DEF SameRole, Own, Owned, Makes, Making, Works

(* The other bands, when the step is only about the band of the thread.    *)
LEMMA OtherBands ==
  ASSUME Typed, Control, Places, NEW t \in Datasets, NEW r, Becomes(t, r), SameHands,
         \A d \in Datasets \ {t} : UNCHANGED <<block[d], slot[d], freeList[d]>>,
         Mine1(t)', \A b \in Ids : BlockOK(t, b)'
  PROVE  Places'
<1>1. ASSUME NEW d \in Datasets \ {t}
      PROVE  Mine1(d)' /\ \A b \in Ids : BlockOK(d, b)'
  <2>1. UNCHANGED <<thread[d], block[d], slot[d], freeList[d]>>
    BY Others
  <2> QED
    BY <2>1, BlockFrame, LeavingHeld, MineFrame, RoleFrame DEF Places, SameHands, HandsOn
<1> QED
  BY <1>1 DEF Places

LEMMA QuietStep ==
  ASSUME Typed, Control, Places, NEW t \in Datasets, NEW r, Becomes(t, r), SameHands,
         \A b \in Ids : SameRole(t, b), UNCHANGED <<block, slot, freeList>>, Mine1(t)'
  PROVE  Places'
  BY OtherBands, BlockFrame, LeavingHeld DEF Places, SameHands, HandsOn

(* Only the thread that holds hRBLock is about to empty a slot.            *)
LEMMA NoneLeaving ==
  ASSUME Typed, Control, \/ hRBLock = Nobody
                         \/ hRBLock \in Datasets /\ thread[hRBLock].pc # "unref"
  PROVE  \A d, b : ~Leaving(d, b)
  BY CacheAssumption DEF Control, Leaving, Scanning
LEMMA RefusePlaces ==
  ASSUME Typed, Control, Places, NEW t \in Datasets, NEW kind \in Requests, NEW i \in
    Positions, RasterIO(t, kind, i), kind # "read", flushErr[t]
  PROVE  Places' /\ SameHands
<1> DEFINE old == thread[t]
<1>1. old \in Threads /\ LocalOK(t, old)
  BY LocalNow
<1> DEFINE r == Locals(old.pc, kind, old.pos, old.mine, old.victim, old.togo, old.counted, old.again,
       old.err, old.ops + 1)
<1>2. old.pc = "idle" /\ Becomes(t, r)
  BY RefuseStep
<1>r. Becomes(t, r)
  BY <1>2
<1>3. thread'[t].pc = old.pc /\  thread'[t].kind = kind /\  thread'[t].pos = old.pos /\ 
      thread'[t].mine = old.mine /\  thread'[t].victim = old.victim /\ 
      thread'[t].togo = old.togo /\  thread'[t].counted = old.counted /\ 
      thread'[t].again = old.again /\  thread'[t].err = old.err /\ 
      thread'[t].ops = old.ops + 1
  <2>1. thread'[t] = r
    <3> HIDE DEF r
    <3> QED
      BY <1>r, Others
  <2> QED
    BY <2>1 DEF Locals
<1>4. UNCHANGED <<block, slot, freeList>>
  BY DEF RasterIO, cache, band
<1>5. SameHands
  <2>1. /\ r.togo = old.togo /\ r.victim = old.victim
        /\ r.kind = kind /\ r.pc = old.pc
    BY DEF Locals
  <2> HIDE DEF r
  <2>2. old.kind \in Flushing \/ (old.togo = <<>> /\ old.victim = NoVictim)
    BY <1>1, <1>2 DEF LocalOK, KindOf, MineOf, HandOf, CountOf, Requests, Flushing, Scanning,
      Freeing, Stuck
  <2>3. r.kind \in Flushing \/ (r.togo = <<>> /\ r.victim = NoVictim)
    BY <1>1, <1>2, <2>1 DEF LocalOK, KindOf, MineOf, HandOf, CountOf, Requests, Flushing,
      Scanning, Freeing, Stuck
  <2> QED
    BY <1>1, <1>2, <1>r, <2>1, <2>2, <2>3, HandsEmpty DEF Flushing, Requests
<1>6. \A b \in Ids : SameRole(t, b)
  BY <1>1, <1>2, <1>3 DEF SameRole, Own, Owned, Makes, Making, Works, Ids, NoBlock, LocalOK,
    KindOf, MineOf, HandOf, CountOf, Requests, Flushing, Scanning, Freeing, Stuck
<1>7. \A b : InSlot(t, b)' <=> InSlot(t, b)
  BY <1>4 DEF InSlot
<1>8. Mine1(t)'
  <2>1. Mine1(t)
    BY DEF Places
  <2> QED
    BY <1>1, <1>2, <1>3, <1>4, <1>5, <1>7, <2>1 DEF Mine1, SameHands, Making, Put, Flusher,
      LocalOK, KindOf, MineOf, HandOf, CountOf, Requests, Flushing, Scanning, Freeing, Stuck
<1> QED
  BY <1>r, <1>4, <1>5, <1>6, <1>8, QuietStep

LEMMA RequestPlaces ==
  ASSUME Typed, Control, Places, NEW t \in Datasets, NEW kind \in Requests, NEW i \in
    Positions, RasterIO(t, kind, i), kind = "read" \/ ~flushErr[t]
  PROVE  Places' /\ SameHands
<1> DEFINE old == thread[t]
<1>1. old \in Threads /\ LocalOK(t, old)
  BY LocalNow
<1> DEFINE r == Locals(IF kind = "read" THEN "pending" ELSE "enter", kind, i, old.mine, old.victim,
       old.togo, old.counted, old.again, old.err, old.ops + 1)
<1>2. old.pc = "idle" /\ Becomes(t, r)
  BY RequestStep
<1>r. Becomes(t, r)
  BY <1>2
<1>3. thread'[t].pc = (IF kind = "read" THEN "pending" ELSE "enter") /\ 
      thread'[t].kind = kind /\  thread'[t].pos = i /\  thread'[t].mine = old.mine /\ 
      thread'[t].victim = old.victim /\  thread'[t].togo = old.togo /\ 
      thread'[t].counted = old.counted /\  thread'[t].again = old.again /\ 
      thread'[t].err = old.err /\  thread'[t].ops = old.ops + 1
  <2>1. thread'[t] = r
    <3> HIDE DEF r
    <3> QED
      BY <1>r, Others
  <2> QED
    BY <2>1 DEF Locals
<1>4. UNCHANGED <<block, slot, freeList>>
  BY DEF RasterIO, cache, band
<1>5. SameHands
  <2>1. /\ r.togo = old.togo /\ r.victim = old.victim
        /\ r.kind = kind /\ r.pc = (IF kind = "read" THEN "pending" ELSE "enter")
    BY DEF Locals
  <2> HIDE DEF r
  <2>2. old.kind \in Flushing \/ (old.togo = <<>> /\ old.victim = NoVictim)
    BY <1>1, <1>2 DEF LocalOK, KindOf, MineOf, HandOf, CountOf, Requests, Flushing, Scanning,
      Freeing, Stuck
  <2>3. r.kind \in Flushing \/ (r.togo = <<>> /\ r.victim = NoVictim)
    BY <1>1, <1>2, <2>1 DEF LocalOK, KindOf, MineOf, HandOf, CountOf, Requests, Flushing,
      Scanning, Freeing, Stuck
  <2> QED
    BY <1>1, <1>2, <1>r, <2>1, <2>2, <2>3, HandsEmpty DEF Flushing, Requests
<1>6. \A b \in Ids : SameRole(t, b)
  BY <1>1, <1>2, <1>3 DEF SameRole, Own, Owned, Makes, Making, Works, Ids, NoBlock, LocalOK,
    KindOf, MineOf, HandOf, CountOf, Requests, Flushing, Scanning, Freeing, Stuck
<1>7. \A b : InSlot(t, b)' <=> InSlot(t, b)
  BY <1>4 DEF InSlot
<1>8. Mine1(t)'
  <2>1. Mine1(t)
    BY DEF Places
  <2> QED
    BY <1>1, <1>2, <1>3, <1>4, <1>5, <1>7, <2>1 DEF Mine1, SameHands, Making, Put, Flusher,
      LocalOK, KindOf, MineOf, HandOf, CountOf, Requests, Flushing, Scanning, Freeing, Stuck
<1> QED
  BY <1>r, <1>4, <1>5, <1>6, <1>8, QuietStep

LEMMA WaitPendingPlaces ==
  ASSUME Typed, Control, Places, NEW t \in Datasets, WaitPending(t)
  PROVE  Places' /\ SameHands
<1> DEFINE old == thread[t]
<1>1. old \in Threads /\ LocalOK(t, old)
  BY LocalNow
<1> DEFINE r == Locals("enter", old.kind, old.pos, old.mine, old.victim, old.togo, old.counted, old.again,
       old.err, old.ops)
<1>2. old.pc = "pending" /\ Becomes(t, r)
  BY WaitPendingStep
<1>r. Becomes(t, r)
  BY <1>2
<1>3. thread'[t].pc = "enter" /\  thread'[t].kind = old.kind /\  thread'[t].pos = old.pos /\ 
      thread'[t].mine = old.mine /\  thread'[t].victim = old.victim /\ 
      thread'[t].togo = old.togo /\  thread'[t].counted = old.counted /\ 
      thread'[t].again = old.again /\  thread'[t].err = old.err /\  thread'[t].ops = old.ops
  <2>1. thread'[t] = r
    <3> HIDE DEF r
    <3> QED
      BY <1>r, Others
  <2> QED
    BY <2>1 DEF Locals
<1>4. UNCHANGED <<block, slot, freeList>>
  BY DEF WaitPending, cache, band
<1>5. SameHands
  <2>1. r.togo = old.togo /\ r.victim = old.victim /\ r.kind = old.kind /\ r.pc = "enter"
    BY DEF Locals
  <2> HIDE DEF r
  <2> QED
    BY <1>1, <1>2, <1>r, <2>1, HandsKept DEF LocalOK, KindOf, MineOf, HandOf, CountOf,
      Requests, Flushing, Scanning, Freeing, Stuck
<1>6. \A b \in Ids : SameRole(t, b)
  BY <1>1, <1>2, <1>3 DEF SameRole, Own, Owned, Makes, Making, Works, Ids, NoBlock, LocalOK,
    KindOf, MineOf, HandOf, CountOf, Requests, Flushing, Scanning, Freeing, Stuck
<1>7. \A b : InSlot(t, b)' <=> InSlot(t, b)
  BY <1>4 DEF InSlot
<1>8. Mine1(t)'
  <2>1. Mine1(t)
    BY DEF Places
  <2> QED
    BY <1>1, <1>2, <1>3, <1>4, <1>5, <1>7, <2>1 DEF Mine1, SameHands, Making, Put, Flusher,
      LocalOK, KindOf, MineOf, HandOf, CountOf, Requests, Flushing, Scanning, Freeing, Stuck
<1> QED
  BY <1>r, <1>4, <1>5, <1>6, <1>8, QuietStep

LEMMA EnterPlaces ==
  ASSUME Typed, Control, Places, NEW t \in Datasets, EnterReadWrite(t)
  PROVE  Places' /\ SameHands
<1> DEFINE old == thread[t]
<1>1. old \in Threads /\ LocalOK(t, old)
  BY LocalNow
<1> DEFINE r == Locals(IF old.kind # "read" /\ flushErr[t] THEN "leave" ELSE "lookup", old.kind, old.pos,
       old.mine, old.victim, old.togo, old.counted, old.again, old.err, old.ops)
<1>2. old.pc = "enter" /\ Becomes(t, r)
  BY EnterStep
<1>r. Becomes(t, r)
  BY <1>2
<1>3. thread'[t].pc = (IF old.kind # "read" /\ flushErr[t] THEN "leave" ELSE "lookup") /\ 
      thread'[t].kind = old.kind /\  thread'[t].pos = old.pos /\  thread'[t].mine = old.mine
      /\  thread'[t].victim = old.victim /\  thread'[t].togo = old.togo /\ 
      thread'[t].counted = old.counted /\  thread'[t].again = old.again /\ 
      thread'[t].err = old.err /\  thread'[t].ops = old.ops
  <2>1. thread'[t] = r
    <3> HIDE DEF r
    <3> QED
      BY <1>r, Others
  <2> QED
    BY <2>1 DEF Locals
<1>4. UNCHANGED <<block, slot, freeList>>
  BY DEF EnterReadWrite, cache, band
<1>5. SameHands
  <2>1. r.togo = old.togo /\ r.victim = old.victim /\ r.kind = old.kind /\ r.pc = (IF old.kind # "read" /\ flushErr[t] THEN "leave" ELSE "lookup")
    BY DEF Locals
  <2> HIDE DEF r
  <2> QED
    BY <1>1, <1>2, <1>r, <2>1, HandsKept DEF LocalOK, KindOf, MineOf, HandOf, CountOf,
      Requests, Flushing, Scanning, Freeing, Stuck
<1>6. \A b \in Ids : SameRole(t, b)
  BY <1>1, <1>2, <1>3 DEF SameRole, Own, Owned, Makes, Making, Works, Ids, NoBlock, LocalOK,
    KindOf, MineOf, HandOf, CountOf, Requests, Flushing, Scanning, Freeing, Stuck
<1>7. \A b : InSlot(t, b)' <=> InSlot(t, b)
  BY <1>4 DEF InSlot
<1>8. Mine1(t)'
  <2>1. Mine1(t)
    BY DEF Places
  <2> QED
    BY <1>1, <1>2, <1>3, <1>4, <1>5, <1>7, <2>1 DEF Mine1, SameHands, Making, Put, Flusher,
      LocalOK, KindOf, MineOf, HandOf, CountOf, Requests, Flushing, Scanning, Freeing, Stuck
<1> QED
  BY <1>r, <1>4, <1>5, <1>6, <1>8, QuietStep

LEMMA LeavePlaces ==
  ASSUME Typed, Control, Places, NEW t \in Datasets, LeaveReadWrite(t)
  PROVE  Places' /\ SameHands
<1> DEFINE old == thread[t]
<1>1. old \in Threads /\ LocalOK(t, old)
  BY LocalNow
<1> DEFINE r == Locals("idle", IF old.kind = "flush" THEN "flush" ELSE "none", 0, NoBlock, NoVictim, <<>>,
       FALSE, FALSE, FALSE, old.ops)
<1>2. old.pc = "leave" /\ Becomes(t, r)
  BY LeaveStep
<1>r. Becomes(t, r)
  BY <1>2
<1>3. thread'[t].pc = "idle" /\ 
      thread'[t].kind = (IF old.kind = "flush" THEN "flush" ELSE "none") /\ 
      thread'[t].pos = 0 /\  thread'[t].mine = NoBlock /\  thread'[t].victim = NoVictim /\ 
      thread'[t].togo = <<>> /\  thread'[t].counted = FALSE /\  thread'[t].again = FALSE /\ 
      thread'[t].err = FALSE /\  thread'[t].ops = old.ops
  <2>1. thread'[t] = r
    <3> HIDE DEF r
    <3> QED
      BY <1>r, Others
  <2> QED
    BY <2>1 DEF Locals
<1>4. UNCHANGED <<block, slot, freeList>>
  BY DEF LeaveReadWrite, cache, band
<1>5. SameHands
  <2>1. /\ r.togo = <<>> /\ r.victim = NoVictim
        /\ r.kind = (IF old.kind = "flush" THEN "flush" ELSE "none") /\ r.pc = "idle"
    BY DEF Locals
  <2> HIDE DEF r
  <2>2. old.kind \in Flushing \/ (old.togo = <<>> /\ old.victim = NoVictim)
    BY <1>1, <1>2 DEF LocalOK, KindOf, MineOf, HandOf, CountOf, Requests, Flushing, Scanning,
      Freeing, Stuck
  <2>3. r.kind \in Flushing \/ (r.togo = <<>> /\ r.victim = NoVictim)
    BY <1>1, <1>2, <2>1 DEF LocalOK, KindOf, MineOf, HandOf, CountOf, Requests, Flushing,
      Scanning, Freeing, Stuck
  <2> QED
    BY <1>1, <1>2, <1>r, <2>1, <2>2, <2>3, HandsEmpty DEF Flushing, Requests
<1>6. \A b \in Ids : SameRole(t, b)
  BY <1>1, <1>2, <1>3 DEF SameRole, Own, Owned, Makes, Making, Works, Ids, NoBlock, LocalOK,
    KindOf, MineOf, HandOf, CountOf, Requests, Flushing, Scanning, Freeing, Stuck
<1>7. \A b : InSlot(t, b)' <=> InSlot(t, b)
  BY <1>4 DEF InSlot
<1>8. Mine1(t)'
  <2>1. Mine1(t)
    BY DEF Places
  <2> QED
    BY <1>1, <1>2, <1>3, <1>4, <1>5, <1>7, <2>1 DEF Mine1, SameHands, Making, Put, Flusher,
      LocalOK, KindOf, MineOf, HandOf, CountOf, Requests, Flushing, Scanning, Freeing, Stuck
<1> QED
  BY <1>r, <1>4, <1>5, <1>6, <1>8, QuietStep

LEMMA LookupPlaces ==
  ASSUME Typed, Control, Places, NEW t \in Datasets, Lookup(t)
  PROVE  Places' /\ SameHands
<1> DEFINE old == thread[t]
<1>1. old \in Threads /\ LocalOK(t, old)
  BY LocalNow
<1> DEFINE r == Locals("addlock", old.kind, old.pos, slot[t][old.pos], old.victim, old.togo, old.counted,
       old.again, old.err, old.ops)
<1>2. old.pc = "lookup" /\ slot[t][old.pos] # NoBlock /\ Becomes(t, r)
  BY LookupStep
<1>r. Becomes(t, r)
  BY <1>2
<1>3. thread'[t].pc = "addlock" /\  thread'[t].kind = old.kind /\  thread'[t].pos = old.pos
      /\  thread'[t].mine = slot[t][old.pos] /\  thread'[t].victim = old.victim /\ 
      thread'[t].togo = old.togo /\  thread'[t].counted = old.counted /\ 
      thread'[t].again = old.again /\  thread'[t].err = old.err /\  thread'[t].ops = old.ops
  <2>1. thread'[t] = r
    <3> HIDE DEF r
    <3> QED
      BY <1>r, Others
  <2> QED
    BY <2>1 DEF Locals
<1>4. UNCHANGED <<block, slot, freeList>>
  BY DEF Lookup, cache, band
<1>5. SameHands
  <2>1. r.togo = old.togo /\ r.victim = old.victim /\ r.kind = old.kind /\ r.pc = "addlock"
    BY DEF Locals
  <2> HIDE DEF r
  <2> QED
    BY <1>1, <1>2, <1>r, <2>1, HandsKept DEF LocalOK, KindOf, MineOf, HandOf, CountOf,
      Requests, Flushing, Scanning, Freeing, Stuck
<1>6. \A b \in Ids : SameRole(t, b)
  BY <1>1, <1>2, <1>3 DEF SameRole, Own, Owned, Makes, Making, Works, Ids, NoBlock, LocalOK,
    KindOf, MineOf, HandOf, CountOf, Requests, Flushing, Scanning, Freeing, Stuck
<1>7. \A b : InSlot(t, b)' <=> InSlot(t, b)
  BY <1>4 DEF InSlot
<1>8. Mine1(t)'
  <2>1. Mine1(t)
    BY DEF Places
  <2> QED
    BY <1>1, <1>2, <1>3, <1>4, <1>5, <1>7, <2>1 DEF Mine1, SameHands, Making, Put, Flusher,
      LocalOK, KindOf, MineOf, HandOf, CountOf, Requests, Flushing, Scanning, Freeing, Stuck
<1> QED
  BY <1>r, <1>4, <1>5, <1>6, <1>8, QuietStep

LEMMA EvictPlaces ==
  ASSUME Typed, Control, Places, NEW t \in Datasets, FlushCacheBlock(t)
  PROVE  Places' /\ SameHands
<1> DEFINE old == thread[t]
<1>1. old \in Threads /\ LocalOK(t, old)
  BY LocalNow
<1> DEFINE r == Locals("scan", "evict", old.pos, old.mine, old.victim, old.togo, old.counted, old.again,
       old.err, old.ops + 1)
<1>2. old.pc = "idle" /\ Becomes(t, r)
  BY EvictStep
<1>r. Becomes(t, r)
  BY <1>2
<1>3. thread'[t].pc = "scan" /\  thread'[t].kind = "evict" /\  thread'[t].pos = old.pos /\ 
      thread'[t].mine = old.mine /\  thread'[t].victim = old.victim /\ 
      thread'[t].togo = old.togo /\  thread'[t].counted = old.counted /\ 
      thread'[t].again = old.again /\  thread'[t].err = old.err /\ 
      thread'[t].ops = old.ops + 1
  <2>1. thread'[t] = r
    <3> HIDE DEF r
    <3> QED
      BY <1>r, Others
  <2> QED
    BY <2>1 DEF Locals
<1>4. UNCHANGED <<block, slot, freeList>>
  BY DEF FlushCacheBlock, cache, band
<1>5. SameHands
  <2>1. /\ r.togo = old.togo /\ r.victim = old.victim
        /\ r.kind = "evict" /\ r.pc = "scan"
    BY DEF Locals
  <2> HIDE DEF r
  <2>2. old.kind \in Flushing \/ (old.togo = <<>> /\ old.victim = NoVictim)
    BY <1>1, <1>2 DEF LocalOK, KindOf, MineOf, HandOf, CountOf, Requests, Flushing, Scanning,
      Freeing, Stuck
  <2>3. r.kind \in Flushing \/ (r.togo = <<>> /\ r.victim = NoVictim)
    BY <1>1, <1>2, <2>1 DEF LocalOK, KindOf, MineOf, HandOf, CountOf, Requests, Flushing,
      Scanning, Freeing, Stuck
  <2> QED
    BY <1>1, <1>2, <1>r, <2>1, <2>2, <2>3, HandsEmpty DEF Flushing, Requests
<1>6. \A b \in Ids : SameRole(t, b)
  BY <1>1, <1>2, <1>3 DEF SameRole, Own, Owned, Makes, Making, Works, Ids, NoBlock, LocalOK,
    KindOf, MineOf, HandOf, CountOf, Requests, Flushing, Scanning, Freeing, Stuck
<1>7. \A b : InSlot(t, b)' <=> InSlot(t, b)
  BY <1>4 DEF InSlot
<1>8. Mine1(t)'
  <2>1. Mine1(t)
    BY DEF Places
  <2> QED
    BY <1>1, <1>2, <1>3, <1>4, <1>5, <1>7, <2>1 DEF Mine1, SameHands, Making, Put, Flusher,
      LocalOK, KindOf, MineOf, HandOf, CountOf, Requests, Flushing, Scanning, Freeing, Stuck
<1> QED
  BY <1>r, <1>4, <1>5, <1>6, <1>8, QuietStep

LEMMA InternalizePlaces ==
  ASSUME Typed, Control, Places, NEW t \in Datasets, Internalize(t)
  PROVE  Places' /\ SameHands
<1> DEFINE old == thread[t]
<1>1. old \in Threads /\ LocalOK(t, old)
  BY LocalNow
<1> DEFINE r == Locals("scan", old.kind, old.pos, old.mine, old.victim, old.togo, TRUE, FALSE, old.err,
       old.ops)
<1>2. old.pc = "internalize" /\ Becomes(t, r)
  BY InternalizeStep
<1>r. Becomes(t, r)
  BY <1>2
<1>3. thread'[t].pc = "scan" /\  thread'[t].kind = old.kind /\  thread'[t].pos = old.pos /\ 
      thread'[t].mine = old.mine /\  thread'[t].victim = old.victim /\ 
      thread'[t].togo = old.togo /\  thread'[t].counted = TRUE /\  thread'[t].again = FALSE
      /\  thread'[t].err = old.err /\  thread'[t].ops = old.ops
  <2>1. thread'[t] = r
    <3> HIDE DEF r
    <3> QED
      BY <1>r, Others
  <2> QED
    BY <2>1 DEF Locals
<1>4. UNCHANGED <<block, slot, freeList>>
  BY DEF Internalize, cache, band
<1>5. SameHands
  <2>1. r.togo = old.togo /\ r.victim = old.victim /\ r.kind = old.kind /\ r.pc = "scan"
    BY DEF Locals
  <2> HIDE DEF r
  <2> QED
    BY <1>1, <1>2, <1>r, <2>1, HandsKept DEF LocalOK, KindOf, MineOf, HandOf, CountOf,
      Requests, Flushing, Scanning, Freeing, Stuck
<1>6. \A b \in Ids : SameRole(t, b)
  BY <1>1, <1>2, <1>3 DEF SameRole, Own, Owned, Makes, Making, Works, Ids, NoBlock, LocalOK,
    KindOf, MineOf, HandOf, CountOf, Requests, Flushing, Scanning, Freeing, Stuck
<1>7. \A b : InSlot(t, b)' <=> InSlot(t, b)
  BY <1>4 DEF InSlot
<1>8. Mine1(t)'
  <2>1. Mine1(t)
    BY DEF Places
  <2> QED
    BY <1>1, <1>2, <1>3, <1>4, <1>5, <1>7, <2>1, NoneLeaving DEF Mine1, SameHands, Making,
      Put, Flusher, LocalOK, KindOf, MineOf, HandOf, CountOf, Requests, Flushing, Scanning,
      Freeing, Stuck, Internalize
<1> QED
  BY <1>r, <1>4, <1>5, <1>6, <1>8, QuietStep

LEMMA TouchKeepPlaces ==
  ASSUME Typed, Control, Places, NEW t \in Datasets, Touch(t), thread[t].kind = "evict" \/
    thread[t].again
  PROVE  Places' /\ SameHands
<1> DEFINE old == thread[t]
<1>1. old \in Threads /\ LocalOK(t, old)
  BY LocalNow
<1> DEFINE r == Locals("free", old.kind, old.pos, old.mine, old.victim, old.togo, old.counted, old.again,
       old.err, old.ops)
<1>2. old.pc \in {"scan", "scanned"} /\ (old.kind = "evict" \/ old.again) /\ Becomes(t, r)
  BY TouchKeepStep
<1>r. Becomes(t, r)
  BY <1>2
<1>3. thread'[t].pc = "free" /\  thread'[t].kind = old.kind /\  thread'[t].pos = old.pos /\ 
      thread'[t].mine = old.mine /\  thread'[t].victim = old.victim /\ 
      thread'[t].togo = old.togo /\  thread'[t].counted = old.counted /\ 
      thread'[t].again = old.again /\  thread'[t].err = old.err /\  thread'[t].ops = old.ops
  <2>1. thread'[t] = r
    <3> HIDE DEF r
    <3> QED
      BY <1>r, Others
  <2> QED
    BY <2>1 DEF Locals
<1>4. UNCHANGED <<block, slot, freeList>>
  BY DEF Touch, cache, band
<1>5. SameHands
  <2>1. r.togo = old.togo /\ r.victim = old.victim /\ r.kind = old.kind /\ r.pc = "free"
    BY DEF Locals
  <2> HIDE DEF r
  <2> QED
    BY <1>1, <1>2, <1>r, <2>1, HandsKept DEF LocalOK, KindOf, MineOf, HandOf, CountOf,
      Requests, Flushing, Scanning, Freeing, Stuck
<1>6. \A b \in Ids : SameRole(t, b)
  BY <1>1, <1>2, <1>3 DEF SameRole, Own, Owned, Makes, Making, Works, Ids, NoBlock, LocalOK,
    KindOf, MineOf, HandOf, CountOf, Requests, Flushing, Scanning, Freeing, Stuck
<1>7. \A b : InSlot(t, b)' <=> InSlot(t, b)
  BY <1>4 DEF InSlot
<1>8. Mine1(t)'
  <2>1. Mine1(t)
    BY DEF Places
  <2> QED
    BY <1>1, <1>2, <1>3, <1>4, <1>5, <1>7, <2>1 DEF Mine1, SameHands, Making, Put, Flusher,
      LocalOK, KindOf, MineOf, HandOf, CountOf, Requests, Flushing, Scanning, Freeing, Stuck
<1> QED
  BY <1>r, <1>4, <1>5, <1>6, <1>8, QuietStep

LEMMA IWritePlaces ==
  ASSUME Typed, Control, Places, NEW t \in Datasets, IWriteBlock(t)
  PROVE  Places' /\ SameHands
<1> DEFINE old == thread[t]
<1>1. old \in Threads /\ LocalOK(t, old)
  BY LocalNow
<1> DEFINE R(j) == Locals(j, old.kind, old.pos, old.mine, old.victim, old.togo, old.counted, old.again,
       old.err, old.ops)
<1>2. PICK j : old.pc = "iwrite" /\ j \in {IF old.kind \in Flushing THEN "delete" ELSE "giveback", "failed"} /\ Becomes(t, R(j))
  BY IWriteStep
<1> DEFINE r == R(j)
<1>r. Becomes(t, r)
  BY <1>2
<1>3. thread'[t].pc = j /\  thread'[t].kind = old.kind /\  thread'[t].pos = old.pos /\ 
      thread'[t].mine = old.mine /\  thread'[t].victim = old.victim /\ 
      thread'[t].togo = old.togo /\  thread'[t].counted = old.counted /\ 
      thread'[t].again = old.again /\  thread'[t].err = old.err /\  thread'[t].ops = old.ops
  <2>1. thread'[t] = r
    <3> HIDE DEF r
    <3> QED
      BY <1>r, Others
  <2> QED
    BY <2>1 DEF Locals
<1>4. UNCHANGED <<block, slot, freeList>>
  BY DEF IWriteBlock, cache, band
<1>5. SameHands
  <2>1. r.togo = old.togo /\ r.victim = old.victim /\ r.kind = old.kind /\ r.pc = j
    BY DEF Locals
  <2> HIDE DEF r
  <2> QED
    BY <1>1, <1>2, <1>r, <2>1, HandsKept DEF LocalOK, KindOf, MineOf, HandOf, CountOf,
      Requests, Flushing, Scanning, Freeing, Stuck
<1>6. \A b \in Ids : SameRole(t, b)
  BY <1>1, <1>2, <1>3 DEF SameRole, Own, Owned, Makes, Making, Works, Ids, NoBlock, LocalOK,
    KindOf, MineOf, HandOf, CountOf, Requests, Flushing, Scanning, Freeing, Stuck
<1>7. \A b : InSlot(t, b)' <=> InSlot(t, b)
  BY <1>4 DEF InSlot
<1>8. Mine1(t)'
  <2>1. Mine1(t)
    BY DEF Places
  <2> QED
    BY <1>1, <1>2, <1>3, <1>4, <1>5, <1>7, <2>1 DEF Mine1, SameHands, Making, Put, Flusher,
      LocalOK, KindOf, MineOf, HandOf, CountOf, Requests, Flushing, Scanning, Freeing, Stuck
<1> QED
  BY <1>r, <1>4, <1>5, <1>6, <1>8, QuietStep

LEMMA WriteFailedFlushPlaces ==
  ASSUME Typed, Control, Places, NEW t \in Datasets, WriteFailed(t), thread[t].kind \in
    Flushing
  PROVE  Places' /\ SameHands
<1> DEFINE old == thread[t]
<1>1. old \in Threads /\ LocalOK(t, old)
  BY LocalNow
<1> DEFINE r == Locals("delete", old.kind, old.pos, old.mine, old.victim, old.togo, old.counted, old.again,
       TRUE, old.ops)
<1>2. old.pc = "failed" /\ (old.kind \in Flushing) /\ Becomes(t, r)
  BY WriteFailedFlushStep
<1>r. Becomes(t, r)
  BY <1>2
<1>3. thread'[t].pc = "delete" /\  thread'[t].kind = old.kind /\  thread'[t].pos = old.pos /\ 
      thread'[t].mine = old.mine /\  thread'[t].victim = old.victim /\ 
      thread'[t].togo = old.togo /\  thread'[t].counted = old.counted /\ 
      thread'[t].again = old.again /\  thread'[t].err = TRUE /\  thread'[t].ops = old.ops
  <2>1. thread'[t] = r
    <3> HIDE DEF r
    <3> QED
      BY <1>r, Others
  <2> QED
    BY <2>1 DEF Locals
<1>4. UNCHANGED <<block, slot, freeList>>
  BY DEF WriteFailed, cache, band
<1>5. SameHands
  <2>1. r.togo = old.togo /\ r.victim = old.victim /\ r.kind = old.kind /\ r.pc = "delete"
    BY DEF Locals
  <2> HIDE DEF r
  <2> QED
    BY <1>1, <1>2, <1>r, <2>1, HandsKept DEF LocalOK, KindOf, MineOf, HandOf, CountOf,
      Requests, Flushing, Scanning, Freeing, Stuck
<1>6. \A b \in Ids : SameRole(t, b)
  BY <1>1, <1>2, <1>3 DEF SameRole, Own, Owned, Makes, Making, Works, Ids, NoBlock, LocalOK,
    KindOf, MineOf, HandOf, CountOf, Requests, Flushing, Scanning, Freeing, Stuck
<1>7. \A b : InSlot(t, b)' <=> InSlot(t, b)
  BY <1>4 DEF InSlot
<1>8. Mine1(t)'
  <2>1. Mine1(t)
    BY DEF Places
  <2> QED
    BY <1>1, <1>2, <1>3, <1>4, <1>5, <1>7, <2>1 DEF Mine1, SameHands, Making, Put, Flusher,
      LocalOK, KindOf, MineOf, HandOf, CountOf, Requests, Flushing, Scanning, Freeing, Stuck
<1> QED
  BY <1>r, <1>4, <1>5, <1>6, <1>8, QuietStep

LEMMA WriteFailedPlaces ==
  ASSUME Typed, Control, Places, NEW t \in Datasets, WriteFailed(t), thread[t].kind \notin
    Flushing
  PROVE  Places' /\ SameHands
<1> DEFINE old == thread[t]
<1>1. old \in Threads /\ LocalOK(t, old)
  BY LocalNow
<1> DEFINE r == Locals("giveback", old.kind, old.pos, old.mine, old.victim, old.togo, old.counted,
       old.again, old.err, old.ops)
<1>2. old.pc = "failed" /\ (old.kind \notin Flushing) /\ Becomes(t, r)
  BY WriteFailedStep
<1>r. Becomes(t, r)
  BY <1>2
<1>3. thread'[t].pc = "giveback" /\  thread'[t].kind = old.kind /\  thread'[t].pos = old.pos
      /\  thread'[t].mine = old.mine /\  thread'[t].victim = old.victim /\ 
      thread'[t].togo = old.togo /\  thread'[t].counted = old.counted /\ 
      thread'[t].again = old.again /\  thread'[t].err = old.err /\  thread'[t].ops = old.ops
  <2>1. thread'[t] = r
    <3> HIDE DEF r
    <3> QED
      BY <1>r, Others
  <2> QED
    BY <2>1 DEF Locals
<1>4. UNCHANGED <<block, slot, freeList>>
  BY DEF WriteFailed, cache, band
<1>5. SameHands
  <2>1. r.togo = old.togo /\ r.victim = old.victim /\ r.kind = old.kind /\ r.pc = "giveback"
    BY DEF Locals
  <2> HIDE DEF r
  <2> QED
    BY <1>1, <1>2, <1>r, <2>1, HandsKept DEF LocalOK, KindOf, MineOf, HandOf, CountOf,
      Requests, Flushing, Scanning, Freeing, Stuck
<1>6. \A b \in Ids : SameRole(t, b)
  BY <1>1, <1>2, <1>3 DEF SameRole, Own, Owned, Makes, Making, Works, Ids, NoBlock, LocalOK,
    KindOf, MineOf, HandOf, CountOf, Requests, Flushing, Scanning, Freeing, Stuck
<1>7. \A b : InSlot(t, b)' <=> InSlot(t, b)
  BY <1>4 DEF InSlot
<1>8. Mine1(t)'
  <2>1. Mine1(t)
    BY DEF Places
  <2> QED
    BY <1>1, <1>2, <1>3, <1>4, <1>5, <1>7, <2>1 DEF Mine1, SameHands, Making, Put, Flusher,
      LocalOK, KindOf, MineOf, HandOf, CountOf, Requests, Flushing, Scanning, Freeing, Stuck
<1> QED
  BY <1>r, <1>4, <1>5, <1>6, <1>8, QuietStep

LEMMA FreedEvictPlaces ==
  ASSUME Typed, Control, Places, NEW t \in Datasets, Freed(t), thread[t].kind = "evict"
  PROVE  Places' /\ SameHands
<1> DEFINE old == thread[t]
<1>1. old \in Threads /\ LocalOK(t, old)
  BY LocalNow
<1> DEFINE r == Locals("idle", IF old.kind = "flush" THEN "flush" ELSE "none", 0, NoBlock, NoVictim, <<>>,
       FALSE, FALSE, FALSE, old.ops)
<1>2. old.pc = "free" /\ old.togo = <<>> /\ (old.kind = "evict") /\ Becomes(t, r)
  BY FreedEvictStep
<1>r. Becomes(t, r)
  BY <1>2
<1>3. thread'[t].pc = "idle" /\ 
      thread'[t].kind = (IF old.kind = "flush" THEN "flush" ELSE "none") /\ 
      thread'[t].pos = 0 /\  thread'[t].mine = NoBlock /\  thread'[t].victim = NoVictim /\ 
      thread'[t].togo = <<>> /\  thread'[t].counted = FALSE /\  thread'[t].again = FALSE /\ 
      thread'[t].err = FALSE /\  thread'[t].ops = old.ops
  <2>1. thread'[t] = r
    <3> HIDE DEF r
    <3> QED
      BY <1>r, Others
  <2> QED
    BY <2>1 DEF Locals
<1>4. UNCHANGED <<block, slot, freeList>>
  BY DEF Freed, cache, band
<1>5. SameHands
  <2>1. /\ r.togo = <<>> /\ r.victim = NoVictim
        /\ r.kind = (IF old.kind = "flush" THEN "flush" ELSE "none") /\ r.pc = "idle"
    BY DEF Locals
  <2> HIDE DEF r
  <2>2. old.kind \in Flushing \/ (old.togo = <<>> /\ old.victim = NoVictim)
    BY <1>1, <1>2 DEF LocalOK, KindOf, MineOf, HandOf, CountOf, Requests, Flushing, Scanning,
      Freeing, Stuck
  <2>3. r.kind \in Flushing \/ (r.togo = <<>> /\ r.victim = NoVictim)
    BY <1>1, <1>2, <2>1 DEF LocalOK, KindOf, MineOf, HandOf, CountOf, Requests, Flushing,
      Scanning, Freeing, Stuck
  <2> QED
    BY <1>1, <1>2, <1>r, <2>1, <2>2, <2>3, HandsEmpty DEF Flushing, Requests
<1>6. \A b \in Ids : SameRole(t, b)
  BY <1>1, <1>2, <1>3 DEF SameRole, Own, Owned, Makes, Making, Works, Ids, NoBlock, LocalOK,
    KindOf, MineOf, HandOf, CountOf, Requests, Flushing, Scanning, Freeing, Stuck
<1>7. \A b : InSlot(t, b)' <=> InSlot(t, b)
  BY <1>4 DEF InSlot
<1>8. Mine1(t)'
  <2>1. Mine1(t)
    BY DEF Places
  <2> QED
    BY <1>1, <1>2, <1>3, <1>4, <1>5, <1>7, <2>1 DEF Mine1, SameHands, Making, Put, Flusher,
      LocalOK, KindOf, MineOf, HandOf, CountOf, Requests, Flushing, Scanning, Freeing, Stuck
<1> QED
  BY <1>r, <1>4, <1>5, <1>6, <1>8, QuietStep

LEMMA FreedPlaces ==
  ASSUME Typed, Control, Places, NEW t \in Datasets, Freed(t), thread[t].kind # "evict"
  PROVE  Places' /\ SameHands
<1> DEFINE old == thread[t]
<1>1. old \in Threads /\ LocalOK(t, old)
  BY LocalNow
<1> DEFINE r == Locals("internalize", old.kind, old.pos, old.mine, old.victim, old.togo, old.counted,
       old.again, old.err, old.ops)
<1>2. old.pc = "free" /\ old.togo = <<>> /\ old.again /\ (old.kind # "evict") /\ Becomes(t, r)
  BY FreedStep
<1>r. Becomes(t, r)
  BY <1>2
<1>3. thread'[t].pc = "internalize" /\  thread'[t].kind = old.kind /\ 
      thread'[t].pos = old.pos /\  thread'[t].mine = old.mine /\ 
      thread'[t].victim = old.victim /\  thread'[t].togo = old.togo /\ 
      thread'[t].counted = old.counted /\  thread'[t].again = old.again /\ 
      thread'[t].err = old.err /\  thread'[t].ops = old.ops
  <2>1. thread'[t] = r
    <3> HIDE DEF r
    <3> QED
      BY <1>r, Others
  <2> QED
    BY <2>1 DEF Locals
<1>4. UNCHANGED <<block, slot, freeList>>
  BY DEF Freed, cache, band
<1>5. SameHands
  <2>1. r.togo = old.togo /\ r.victim = old.victim /\ r.kind = old.kind /\ r.pc = "internalize"
    BY DEF Locals
  <2> HIDE DEF r
  <2> QED
    BY <1>1, <1>2, <1>r, <2>1, HandsKept DEF LocalOK, KindOf, MineOf, HandOf, CountOf,
      Requests, Flushing, Scanning, Freeing, Stuck
<1>6. \A b \in Ids : SameRole(t, b)
  BY <1>1, <1>2, <1>3 DEF SameRole, Own, Owned, Makes, Making, Works, Ids, NoBlock, LocalOK,
    KindOf, MineOf, HandOf, CountOf, Requests, Flushing, Scanning, Freeing, Stuck
<1>7. \A b : InSlot(t, b)' <=> InSlot(t, b)
  BY <1>4 DEF InSlot
<1>8. Mine1(t)'
  <2>1. Mine1(t)
    BY DEF Places
  <2> QED
    BY <1>1, <1>2, <1>3, <1>4, <1>5, <1>7, <2>1 DEF Mine1, SameHands, Making, Put, Flusher,
      LocalOK, KindOf, MineOf, HandOf, CountOf, Requests, Flushing, Scanning, Freeing, Stuck
<1> QED
  BY <1>r, <1>4, <1>5, <1>6, <1>8, QuietStep

LEMMA FlushCachePlaces ==
  ASSUME Typed, Control, Places, NEW t \in Datasets, NEW kind \in Flushing, FlushCache(t,
    kind)
  PROVE  Places' /\ SameHands
<1> DEFINE old == thread[t]
<1>1. old \in Threads /\ LocalOK(t, old)
  BY LocalNow
<1> DEFINE r == Locals("flushing", kind, old.pos, old.mine, old.victim, old.togo, old.counted, old.again,
       old.err, old.ops + (IF kind = "flush" THEN 1 ELSE 0))
<1>2. old.pc = (IF kind = "destroy" THEN "destroy" ELSE "idle") /\ Becomes(t, r)
  BY FlushCacheStep
<1>r. Becomes(t, r)
  BY <1>2
<1>3. thread'[t].pc = "flushing" /\  thread'[t].kind = kind /\  thread'[t].pos = old.pos /\ 
      thread'[t].mine = old.mine /\  thread'[t].victim = old.victim /\ 
      thread'[t].togo = old.togo /\  thread'[t].counted = old.counted /\ 
      thread'[t].again = old.again /\  thread'[t].err = old.err /\ 
      thread'[t].ops = old.ops + (IF kind = "flush" THEN 1 ELSE 0)
  <2>1. thread'[t] = r
    <3> HIDE DEF r
    <3> QED
      BY <1>r, Others
  <2> QED
    BY <2>1 DEF Locals
<1>4. UNCHANGED <<block, slot, freeList>>
  BY DEF FlushCache, cache, band
<1>5. SameHands
  <2>1. /\ r.togo = old.togo /\ r.victim = old.victim
        /\ r.kind = kind /\ r.pc = "flushing"
    BY DEF Locals
  <2> HIDE DEF r
  <2>2. old.kind \in Flushing \/ (old.togo = <<>> /\ old.victim = NoVictim)
    BY <1>1, <1>2 DEF LocalOK, KindOf, MineOf, HandOf, CountOf, Requests, Flushing, Scanning,
      Freeing, Stuck
  <2>3. r.kind \in Flushing \/ (r.togo = <<>> /\ r.victim = NoVictim)
    BY <1>1, <1>2, <2>1 DEF LocalOK, KindOf, MineOf, HandOf, CountOf, Requests, Flushing,
      Scanning, Freeing, Stuck
  <2> QED
    BY <1>1, <1>2, <1>r, <2>1, <2>2, <2>3, HandsEmpty DEF Flushing, Requests
<1>6. \A b \in Ids : SameRole(t, b)
  BY <1>1, <1>2, <1>3 DEF SameRole, Own, Owned, Makes, Making, Works, Ids, NoBlock, LocalOK,
    KindOf, MineOf, HandOf, CountOf, Requests, Flushing, Scanning, Freeing, Stuck
<1>7. \A b : InSlot(t, b)' <=> InSlot(t, b)
  BY <1>4 DEF InSlot
<1>8. Mine1(t)'
  <2>1. Mine1(t)
    BY DEF Places
  <2> QED
    BY <1>1, <1>2, <1>3, <1>4, <1>5, <1>7, <2>1 DEF Mine1, SameHands, Making, Put, Flusher,
      LocalOK, KindOf, MineOf, HandOf, CountOf, Requests, Flushing, Scanning, Freeing, Stuck
<1> QED
  BY <1>r, <1>4, <1>5, <1>6, <1>8, QuietStep

LEMMA WaitEvictionLeavePlaces ==
  ASSUME Typed, Control, Places, NEW t \in Datasets, WaitEviction(t), thread[t].kind \notin
    Flushing
  PROVE  Places' /\ SameHands
<1> DEFINE old == thread[t]
<1>1. old \in Threads /\ LocalOK(t, old)
  BY LocalNow
<1> DEFINE r == Locals("leave", old.kind, old.pos, old.mine, old.victim, old.togo, old.counted, old.again,
       old.err, old.ops)
<1>2. old.pc = "evicted" /\ (old.kind \notin Flushing) /\ Becomes(t, r)
  BY WaitEvictionLeaveStep
<1>r. Becomes(t, r)
  BY <1>2
<1>3. thread'[t].pc = "leave" /\  thread'[t].kind = old.kind /\  thread'[t].pos = old.pos /\ 
      thread'[t].mine = old.mine /\  thread'[t].victim = old.victim /\ 
      thread'[t].togo = old.togo /\  thread'[t].counted = old.counted /\ 
      thread'[t].again = old.again /\  thread'[t].err = old.err /\  thread'[t].ops = old.ops
  <2>1. thread'[t] = r
    <3> HIDE DEF r
    <3> QED
      BY <1>r, Others
  <2> QED
    BY <2>1 DEF Locals
<1>4. UNCHANGED <<block, slot, freeList>>
  BY DEF WaitEviction, cache, band
<1>5. SameHands
  <2>1. r.togo = old.togo /\ r.victim = old.victim /\ r.kind = old.kind /\ r.pc = "leave"
    BY DEF Locals
  <2> HIDE DEF r
  <2> QED
    BY <1>1, <1>2, <1>r, <2>1, HandsKept DEF LocalOK, KindOf, MineOf, HandOf, CountOf,
      Requests, Flushing, Scanning, Freeing, Stuck
<1>6. \A b \in Ids : SameRole(t, b)
  BY <1>1, <1>2, <1>3, NoneLeaving DEF SameRole, Own, Owned, Makes, Making, Works, Ids,
    NoBlock, LocalOK, KindOf, MineOf, HandOf, CountOf, Requests, Flushing, Scanning, Freeing,
    Stuck, WaitEviction
<1>7. \A b : InSlot(t, b)' <=> InSlot(t, b)
  BY <1>4 DEF InSlot
<1>8. Mine1(t)'
  <2>1. Mine1(t)
    BY DEF Places
  <2> QED
    BY <1>1, <1>2, <1>3, <1>4, <1>5, <1>7, <2>1 DEF Mine1, SameHands, Making, Put, Flusher,
      LocalOK, KindOf, MineOf, HandOf, CountOf, Requests, Flushing, Scanning, Freeing, Stuck
<1> QED
  BY <1>r, <1>4, <1>5, <1>6, <1>8, QuietStep

LEMMA WaitEvictionPlaces ==
  ASSUME Typed, Control, Places, NEW t \in Datasets, WaitEviction(t), thread[t].kind \in
    Flushing
  PROVE  Places' /\ SameHands
<1> DEFINE old == thread[t]
<1>1. old \in Threads /\ LocalOK(t, old)
  BY LocalNow
<1> DEFINE R(j) == Locals(IF j \in Positions THEN "take" ELSE "wait", old.kind, j, NoBlock, old.victim, <<>>,
       old.counted, old.again, old.err, old.ops)
<1>2. PICK j : old.pc = "evicted" /\ old.kind \in Flushing /\ (old.kind \in Flushing) /\ NextSlot(t, old.pos + 1, j) /\ Becomes(t, R(j))
  BY WaitEvictionStep
<1> DEFINE r == R(j)
<1>r. Becomes(t, r)
  BY <1>2
<1>3. thread'[t].pc = (IF j \in Positions THEN "take" ELSE "wait") /\ 
      thread'[t].kind = old.kind /\  thread'[t].pos = j /\  thread'[t].mine = NoBlock /\ 
      thread'[t].victim = old.victim /\  thread'[t].togo = <<>> /\ 
      thread'[t].counted = old.counted /\  thread'[t].again = old.again /\ 
      thread'[t].err = old.err /\  thread'[t].ops = old.ops
  <2>1. thread'[t] = r
    <3> HIDE DEF r
    <3> QED
      BY <1>r, Others
  <2> QED
    BY <2>1 DEF Locals
<1>4. UNCHANGED <<block, slot, freeList>>
  BY DEF WaitEviction, cache, band
<1>5. SameHands
  <2>1. /\ r.togo = <<>> /\ r.victim = old.victim
        /\ r.kind = old.kind /\ r.pc = (IF j \in Positions THEN "take" ELSE "wait")
    BY DEF Locals
  <2> HIDE DEF r
  <2>2. old.kind \in Flushing \/ (old.togo = <<>> /\ old.victim = NoVictim)
    BY <1>1, <1>2 DEF LocalOK, KindOf, MineOf, HandOf, CountOf, Requests, Flushing, Scanning,
      Freeing, Stuck
  <2>3. r.kind \in Flushing \/ (r.togo = <<>> /\ r.victim = NoVictim)
    BY <1>1, <1>2, <2>1 DEF LocalOK, KindOf, MineOf, HandOf, CountOf, Requests, Flushing,
      Scanning, Freeing, Stuck
  <2> QED
    BY <1>1, <1>2, <1>r, <2>1, <2>2, <2>3, HandsEmpty DEF Flushing, Requests
<1>6. \A b \in Ids : SameRole(t, b)
  BY <1>1, <1>2, <1>3, NoneLeaving DEF SameRole, Own, Owned, Makes, Making, Works, Ids,
    NoBlock, LocalOK, KindOf, MineOf, HandOf, CountOf, Requests, Flushing, Scanning, Freeing,
    Stuck, WaitEviction
<1>7. \A b : InSlot(t, b)' <=> InSlot(t, b)
  BY <1>4 DEF InSlot
<1>8. Mine1(t)'
  <2>1. Mine1(t)
    BY DEF Places
  <2> QED
    BY <1>1, <1>2, <1>3, <1>4, <1>5, <1>7, <2>1 DEF Mine1, SameHands, Making, Put, Flusher,
      LocalOK, KindOf, MineOf, HandOf, CountOf, Requests, Flushing, Scanning, Freeing, Stuck
<1> QED
  BY <1>r, <1>4, <1>5, <1>6, <1>8, QuietStep

LEMMA FlushedPlaces ==
  ASSUME Typed, Control, Places, NEW t \in Datasets, Flushed(t), thread[t].kind = "flush"
  PROVE  Places' /\ SameHands
<1> DEFINE old == thread[t]
<1>1. old \in Threads /\ LocalOK(t, old)
  BY LocalNow
<1> DEFINE r == Locals("idle", IF old.kind = "flush" THEN "flush" ELSE "none", 0, NoBlock, NoVictim, <<>>,
       FALSE, FALSE, FALSE, old.ops)
<1>2. old.pc = "wait" /\ (old.kind = "flush") /\ Becomes(t, r)
  BY FlushedStep
<1>r. Becomes(t, r)
  BY <1>2
<1>3. thread'[t].pc = "idle" /\ 
      thread'[t].kind = (IF old.kind = "flush" THEN "flush" ELSE "none") /\ 
      thread'[t].pos = 0 /\  thread'[t].mine = NoBlock /\  thread'[t].victim = NoVictim /\ 
      thread'[t].togo = <<>> /\  thread'[t].counted = FALSE /\  thread'[t].again = FALSE /\ 
      thread'[t].err = FALSE /\  thread'[t].ops = old.ops
  <2>1. thread'[t] = r
    <3> HIDE DEF r
    <3> QED
      BY <1>r, Others
  <2> QED
    BY <2>1 DEF Locals
<1>4. UNCHANGED <<block, slot, freeList>>
  BY DEF Flushed, cache, band
<1>5. SameHands
  <2>1. /\ r.togo = <<>> /\ r.victim = NoVictim
        /\ r.kind = (IF old.kind = "flush" THEN "flush" ELSE "none") /\ r.pc = "idle"
    BY DEF Locals
  <2> HIDE DEF r
  <2>2. old.kind \in Flushing \/ (old.togo = <<>> /\ old.victim = NoVictim)
    BY <1>1, <1>2 DEF LocalOK, KindOf, MineOf, HandOf, CountOf, Requests, Flushing, Scanning,
      Freeing, Stuck
  <2>3. r.kind \in Flushing \/ (r.togo = <<>> /\ r.victim = NoVictim)
    BY <1>1, <1>2, <2>1 DEF LocalOK, KindOf, MineOf, HandOf, CountOf, Requests, Flushing,
      Scanning, Freeing, Stuck
  <2> QED
    BY <1>1, <1>2, <1>r, <2>1, <2>2, <2>3, HandsEmpty DEF Flushing, Requests
<1>6. \A b \in Ids : SameRole(t, b)
  BY <1>1, <1>2, <1>3 DEF SameRole, Own, Owned, Makes, Making, Works, Ids, NoBlock, LocalOK,
    KindOf, MineOf, HandOf, CountOf, Requests, Flushing, Scanning, Freeing, Stuck
<1>7. \A b : InSlot(t, b)' <=> InSlot(t, b)
  BY <1>4 DEF InSlot
<1>8. Mine1(t)'
  <2>1. Mine1(t)
    BY DEF Places
  <2> QED
    BY <1>1, <1>2, <1>3, <1>4, <1>5, <1>7, <2>1 DEF Mine1, SameHands, Making, Put, Flusher,
      LocalOK, KindOf, MineOf, HandOf, CountOf, Requests, Flushing, Scanning, Freeing, Stuck
<1> QED
  BY <1>r, <1>4, <1>5, <1>6, <1>8, QuietStep

LEMMA ClosedPlaces ==
  ASSUME Typed, Control, Places, NEW t \in Datasets, Flushed(t), thread[t].kind = "close"
  PROVE  Places' /\ SameHands
<1> DEFINE old == thread[t]
<1>1. old \in Threads /\ LocalOK(t, old)
  BY LocalNow
<1> DEFINE r == Locals("destroy", "close", 0, NoBlock, NoVictim, <<>>, FALSE, FALSE, FALSE, 0)
<1>2. old.pc = "wait" /\ (old.kind = "close") /\ Becomes(t, r)
  BY ClosedStep
<1>r. Becomes(t, r)
  BY <1>2
<1>3. thread'[t].pc = "destroy" /\  thread'[t].kind = "close" /\  thread'[t].pos = 0 /\ 
      thread'[t].mine = NoBlock /\  thread'[t].victim = NoVictim /\  thread'[t].togo = <<>>
      /\  thread'[t].counted = FALSE /\  thread'[t].again = FALSE /\  thread'[t].err = FALSE
      /\  thread'[t].ops = 0
  <2>1. thread'[t] = r
    <3> HIDE DEF r
    <3> QED
      BY <1>r, Others
  <2> QED
    BY <2>1 DEF Locals
<1>4. UNCHANGED <<block, slot, freeList>>
  BY DEF Flushed, cache, band
<1>5. SameHands
  <2>1. /\ r.togo = <<>> /\ r.victim = NoVictim
        /\ r.kind = "close" /\ r.pc = "destroy"
    BY DEF Locals
  <2> HIDE DEF r
  <2>2. old.kind \in Flushing \/ (old.togo = <<>> /\ old.victim = NoVictim)
    BY <1>1, <1>2 DEF LocalOK, KindOf, MineOf, HandOf, CountOf, Requests, Flushing, Scanning,
      Freeing, Stuck
  <2>3. r.kind \in Flushing \/ (r.togo = <<>> /\ r.victim = NoVictim)
    BY <1>1, <1>2, <2>1 DEF LocalOK, KindOf, MineOf, HandOf, CountOf, Requests, Flushing,
      Scanning, Freeing, Stuck
  <2> QED
    BY <1>1, <1>2, <1>r, <2>1, <2>2, <2>3, HandsEmpty DEF Flushing, Requests
<1>6. \A b \in Ids : SameRole(t, b)
  BY <1>1, <1>2, <1>3 DEF SameRole, Own, Owned, Makes, Making, Works, Ids, NoBlock, LocalOK,
    KindOf, MineOf, HandOf, CountOf, Requests, Flushing, Scanning, Freeing, Stuck
<1>7. \A b : InSlot(t, b)' <=> InSlot(t, b)
  BY <1>4 DEF InSlot
<1>8. Mine1(t)'
  <2>1. Mine1(t)
    BY DEF Places
  <2> QED
    BY <1>1, <1>2, <1>3, <1>4, <1>5, <1>7, <2>1 DEF Mine1, SameHands, Making, Put, Flusher,
      LocalOK, KindOf, MineOf, HandOf, CountOf, Requests, Flushing, Scanning, Freeing, Stuck
<1> QED
  BY <1>r, <1>4, <1>5, <1>6, <1>8, QuietStep

LEMMA CountDownPlaces ==
  ASSUME Typed, Control, Places, NEW t \in Datasets, CountDown(t)
  PROVE  Places' /\ SameHands
<1> DEFINE old == thread[t]
<1>1. old \in Threads /\ LocalOK(t, old)
  BY LocalNow
<1> DEFINE r == Locals("free", old.kind, old.pos, old.mine, old.victim, Tail(old.togo), old.counted,
       old.again, old.err, old.ops)
<1>2. old.pc = "countdown" /\ Becomes(t, r)
  BY CountDownStep
<1>r. Becomes(t, r)
  BY <1>2
<1>3. thread'[t].pc = "free" /\  thread'[t].kind = old.kind /\  thread'[t].pos = old.pos /\ 
      thread'[t].mine = old.mine /\  thread'[t].victim = old.victim /\ 
      thread'[t].togo = Tail(old.togo) /\  thread'[t].counted = old.counted /\ 
      thread'[t].again = old.again /\  thread'[t].err = old.err /\  thread'[t].ops = old.ops
  <2>1. thread'[t] = r
    <3> HIDE DEF r
    <3> QED
      BY <1>r, Others
  <2> QED
    BY <2>1 DEF Locals
<1>4. UNCHANGED <<block, slot, freeList>>
  BY DEF CountDown, cache, band
<1>5. SameHands
  <2>1. r.togo = Tail(old.togo) /\ r.victim = old.victim /\ r.kind = old.kind /\ r.pc = "free"
    BY DEF Locals
  <2>2. /\ old.togo \in Seq(AllBlocks) /\ old.togo # <<>> /\ NoTwice(old.togo)
        /\ old.kind \notin Flushing /\ old.victim = NoVictim
    BY <1>1, <1>2 DEF Threads, LocalOK, HandOf, KindOf, Requests, Flushing
  <2>3. \A x : x \in HandsOf(t)' <=> x # First(t) /\ x \in HandsOf(t)
    <3>1. /\ HandsOf(t) = {old.togo[n] : n \in DOMAIN old.togo}
          /\ HandsOf(t)' = {Tail(old.togo)[n] : n \in DOMAIN Tail(old.togo)}
      BY <1>3, <2>2 DEF HandsOf
    <3>2. ASSUME NEW x
          PROVE  /\ x \in HandsOf(t) <=> \E n \in DOMAIN old.togo : old.togo[n] = x
                 /\ x \in HandsOf(t)' <=> \E n \in DOMAIN Tail(old.togo) : Tail(old.togo)[n] = x
      BY <3>1
    <3> QED
      BY <2>2, <3>2, TogoTail DEF First
  <2>4. Held(t)' = Held(t)
    <3>1. Held(t)' = HandsOf(t)'
      BY <1>2, <1>3, <2>2 DEF Held
    <3>2. \A x : x \in Held(t) <=> x # First(t) /\ x \in HandsOf(t)
      BY <1>2, <2>2 DEF Held
    <3> QED
      BY <2>3, <3>1, <3>2
  <2> QED
    BY <1>2, <1>r, <2>1, <2>4, HandsFrame
<1>6. \A b \in Ids : SameRole(t, b)
  BY <1>1, <1>2, <1>3 DEF SameRole, Own, Owned, Makes, Making, Works, Ids, NoBlock, LocalOK,
    KindOf, MineOf, HandOf, CountOf, Requests, Flushing, Scanning, Freeing, Stuck
<1>7. \A b : InSlot(t, b)' <=> InSlot(t, b)
  BY <1>4 DEF InSlot
<1>8. Mine1(t)'
  <2>1. Mine1(t)
    BY DEF Places
  <2> QED
    BY <1>1, <1>2, <1>3, <1>4, <1>5, <1>7, <2>1 DEF Mine1, SameHands, Making, Put, Flusher,
      LocalOK, KindOf, MineOf, HandOf, CountOf, Requests, Flushing, Scanning, Freeing, Stuck
<1> QED
  BY <1>r, <1>4, <1>5, <1>6, <1>8, QuietStep

LEMMA TakeLeavePlaces ==
  ASSUME Typed, Control, Places, NEW t \in Datasets, Take(t), thread[t].kind \notin Flushing,
    slot[t][thread[t].pos] = NoBlock
  PROVE  Places' /\ SameHands
<1> DEFINE old == thread[t]
<1>1. old \in Threads /\ LocalOK(t, old)
  BY LocalNow
<1> DEFINE r == Locals("leave", old.kind, old.pos, old.mine, old.victim, old.togo, old.counted, old.again,
       old.err, old.ops)
<1>2. old.pc = "take" /\ (old.kind \notin Flushing) /\ (slot[t][old.pos] = NoBlock) /\ Becomes(t, r)
  BY TakeLeaveStep
<1>r. Becomes(t, r)
  BY <1>2
<1>3. thread'[t].pc = "leave" /\  thread'[t].kind = old.kind /\  thread'[t].pos = old.pos /\ 
      thread'[t].mine = old.mine /\  thread'[t].victim = old.victim /\ 
      thread'[t].togo = old.togo /\  thread'[t].counted = old.counted /\ 
      thread'[t].again = old.again /\  thread'[t].err = old.err /\  thread'[t].ops = old.ops
  <2>1. thread'[t] = r
    <3> HIDE DEF r
    <3> QED
      BY <1>r, Others
  <2> QED
    BY <2>1 DEF Locals
<1>4. UNCHANGED <<block, slot, freeList>>
  <2>1. slot' = [slot EXCEPT ![t][old.pos] = NoBlock] /\ slot[t][old.pos] = NoBlock
    BY <1>2 DEF Take
  <2>2. slot' = slot
    BY <2>1 DEF Typed
  <2> QED
    BY <2>2 DEF Take, band
<1>5. SameHands
  <2>1. r.togo = old.togo /\ r.victim = old.victim /\ r.kind = old.kind /\ r.pc = "leave"
    BY DEF Locals
  <2> HIDE DEF r
  <2> QED
    BY <1>1, <1>2, <1>r, <2>1, HandsKept DEF LocalOK, KindOf, MineOf, HandOf, CountOf,
      Requests, Flushing, Scanning, Freeing, Stuck
<1>6. \A b \in Ids : SameRole(t, b)
  BY <1>1, <1>2, <1>3 DEF SameRole, Own, Owned, Makes, Making, Works, Ids, NoBlock, LocalOK,
    KindOf, MineOf, HandOf, CountOf, Requests, Flushing, Scanning, Freeing, Stuck
<1>7. \A b : InSlot(t, b)' <=> InSlot(t, b)
  BY <1>4 DEF InSlot
<1>8. Mine1(t)'
  <2>1. Mine1(t)
    BY DEF Places
  <2> QED
    BY <1>1, <1>2, <1>3, <1>4, <1>5, <1>7, <2>1 DEF Mine1, SameHands, Making, Put, Flusher,
      LocalOK, KindOf, MineOf, HandOf, CountOf, Requests, Flushing, Scanning, Freeing, Stuck
<1> QED
  BY <1>r, <1>4, <1>5, <1>6, <1>8, QuietStep

LEMMA TakeNextPlaces ==
  ASSUME Typed, Control, Places, NEW t \in Datasets, Take(t), thread[t].kind \in Flushing,
    slot[t][thread[t].pos] = NoBlock
  PROVE  Places' /\ SameHands
<1> DEFINE old == thread[t]
<1>1. old \in Threads /\ LocalOK(t, old)
  BY LocalNow
<1> DEFINE R(j) == Locals(IF j \in Positions THEN "take" ELSE "wait", old.kind, j, NoBlock, old.victim, <<>>,
       old.counted, old.again, old.err, old.ops)
<1>2. PICK j : old.pc = "take" /\ (old.kind \in Flushing) /\ (slot[t][old.pos] = NoBlock) /\ NextSlot(t, old.pos + 1, j) /\ Becomes(t, R(j))
  BY TakeNextStep
<1> DEFINE r == R(j)
<1>r. Becomes(t, r)
  BY <1>2
<1>3. thread'[t].pc = (IF j \in Positions THEN "take" ELSE "wait") /\ 
      thread'[t].kind = old.kind /\  thread'[t].pos = j /\  thread'[t].mine = NoBlock /\ 
      thread'[t].victim = old.victim /\  thread'[t].togo = <<>> /\ 
      thread'[t].counted = old.counted /\  thread'[t].again = old.again /\ 
      thread'[t].err = old.err /\  thread'[t].ops = old.ops
  <2>1. thread'[t] = r
    <3> HIDE DEF r
    <3> QED
      BY <1>r, Others
  <2> QED
    BY <2>1 DEF Locals
<1>4. UNCHANGED <<block, slot, freeList>>
  <2>1. slot' = [slot EXCEPT ![t][old.pos] = NoBlock] /\ slot[t][old.pos] = NoBlock
    BY <1>2 DEF Take
  <2>2. slot' = slot
    BY <2>1 DEF Typed
  <2> QED
    BY <2>2 DEF Take, band
<1>5. SameHands
  <2>1. /\ r.togo = <<>> /\ r.victim = old.victim
        /\ r.kind = old.kind /\ r.pc = (IF j \in Positions THEN "take" ELSE "wait")
    BY DEF Locals
  <2> HIDE DEF r
  <2>2. old.kind \in Flushing \/ (old.togo = <<>> /\ old.victim = NoVictim)
    BY <1>1, <1>2 DEF LocalOK, KindOf, MineOf, HandOf, CountOf, Requests, Flushing, Scanning,
      Freeing, Stuck
  <2>3. r.kind \in Flushing \/ (r.togo = <<>> /\ r.victim = NoVictim)
    BY <1>1, <1>2, <2>1 DEF LocalOK, KindOf, MineOf, HandOf, CountOf, Requests, Flushing,
      Scanning, Freeing, Stuck
  <2> QED
    BY <1>1, <1>2, <1>r, <2>1, <2>2, <2>3, HandsEmpty DEF Flushing, Requests
<1>6. \A b \in Ids : SameRole(t, b)
  BY <1>1, <1>2, <1>3 DEF SameRole, Own, Owned, Makes, Making, Works, Ids, NoBlock, LocalOK,
    KindOf, MineOf, HandOf, CountOf, Requests, Flushing, Scanning, Freeing, Stuck
<1>7. \A b : InSlot(t, b)' <=> InSlot(t, b)
  BY <1>4 DEF InSlot
<1>8. Mine1(t)'
  <2>1. Mine1(t)
    BY DEF Places
  <2> QED
    BY <1>1, <1>2, <1>3, <1>4, <1>5, <1>7, <2>1 DEF Mine1, SameHands, Making, Put, Flusher,
      LocalOK, KindOf, MineOf, HandOf, CountOf, Requests, Flushing, Scanning, Freeing, Stuck
<1> QED
  BY <1>r, <1>4, <1>5, <1>6, <1>8, QuietStep

LEMMA FillWholePlaces ==
  ASSUME Typed, Control, Places, NEW t \in Datasets, Fill(t), thread[t].pc = "fill",
    UNCHANGED block, Becomes(t, Locals("use", thread[t].kind, thread[t].pos, thread[t].mine,
    thread[t].victim, thread[t].togo, thread[t].counted, thread[t].again, thread[t].err,
    thread[t].ops))
  PROVE  Places' /\ SameHands
<1> DEFINE old == thread[t]
<1>1. old \in Threads /\ LocalOK(t, old)
  BY LocalNow
<1> DEFINE r == Locals("use", old.kind, old.pos, old.mine, old.victim, old.togo, old.counted, old.again,
       old.err, old.ops)
<1>2. old.pc = "fill" /\ Becomes(t, r)
  BY LocalNow
<1>r. Becomes(t, r)
  BY <1>2
<1>3. thread'[t].pc = "use" /\  thread'[t].kind = old.kind /\  thread'[t].pos = old.pos /\ 
      thread'[t].mine = old.mine /\  thread'[t].victim = old.victim /\ 
      thread'[t].togo = old.togo /\  thread'[t].counted = old.counted /\ 
      thread'[t].again = old.again /\  thread'[t].err = old.err /\  thread'[t].ops = old.ops
  <2>1. thread'[t] = r
    <3> HIDE DEF r
    <3> QED
      BY <1>r, Others
  <2> QED
    BY <2>1 DEF Locals
<1>4. UNCHANGED <<block, slot, freeList>>
  BY DEF Fill, cache, band
<1>5. SameHands
  <2>1. r.togo = old.togo /\ r.victim = old.victim /\ r.kind = old.kind /\ r.pc = "use"
    BY DEF Locals
  <2> HIDE DEF r
  <2> QED
    BY <1>1, <1>2, <1>r, <2>1, HandsKept DEF LocalOK, KindOf, MineOf, HandOf, CountOf,
      Requests, Flushing, Scanning, Freeing, Stuck
<1>6. \A b \in Ids : SameRole(t, b)
  BY <1>1, <1>2, <1>3 DEF SameRole, Own, Owned, Makes, Making, Works, Ids, NoBlock, LocalOK,
    KindOf, MineOf, HandOf, CountOf, Requests, Flushing, Scanning, Freeing, Stuck
<1>7. \A b : InSlot(t, b)' <=> InSlot(t, b)
  BY <1>4 DEF InSlot
<1>8. Mine1(t)'
  <2>1. Mine1(t)
    BY DEF Places
  <2> QED
    BY <1>1, <1>2, <1>3, <1>4, <1>5, <1>7, <2>1 DEF Mine1, SameHands, Making, Put, Flusher,
      LocalOK, KindOf, MineOf, HandOf, CountOf, Requests, Flushing, Scanning, Freeing, Stuck
<1> QED
  BY <1>r, <1>4, <1>5, <1>6, <1>8, QuietStep

-----------------------------------------------------------------------------
(***************************************************************************)
(* Places: steps about the blocks of the thread's own band.                *)
(***************************************************************************)
LEMMA EditBlock ==
  ASSUME Typed, NEW d \in Datasets, NEW b \in Ids, NEW e,
         block' = [block EXCEPT ![d][b] = e]
  PROVE  /\ block'[d][b] = e /\ block[d][b] \in Entries
         /\ \A c \in Ids \ {b} : block'[d][c] = block[d][c]
         /\ \A c \in Datasets \ {d} : block'[c] = block[c]
  BY DEF Typed

(* What block b of the thread's own band has become.                       *)
LEMMA OwnStep ==
  ASSUME Typed, Control, Places, NEW t \in Datasets, NEW r, Becomes(t, r), SameHands,
         \A d \in Datasets \ {t} : UNCHANGED <<block[d], slot[d], freeList[d]>>,
         NEW m, Mine1(t)', m \in Ids => BlockOK(t, m)',
         \A b \in Ids \ {m} :
           /\ SameRole(t, b) /\ block'[t][b] = block[t][b]
           /\ \A i \in Positions : slot'[t][i] = b <=> slot[t][i] = b
           /\ b \in freeList'[t] <=> b \in freeList[t]
  PROVE  Places'
<1>1. ASSUME NEW b \in Ids
      PROVE  BlockOK(t, b)'
  <2>1. CASE b = m
    BY <2>1
  <2>2. CASE b # m
    <3>1. BlockOK(t, b) /\ HandsOn(t, b) /\ (Leaving(t, b) => Evicted(t, b))
      BY LeavingHeld DEF Places, SameHands, HandsOn
    <3>2. /\ SameRole(t, b) /\ block'[t][b] = block[t][b]
          /\ \A i \in Positions : slot'[t][i] = b <=> slot[t][i] = b
          /\ b \in freeList'[t] <=> b \in freeList[t]
      BY <2>2
    <3> QED
      BY <3>1, <3>2, BlockFrame
  <2> QED
    BY <2>1, <2>2
<1> QED
  BY <1>1, OtherBands

(* ... and when the dangling blocks are freed.                             *)
LEMMA RowStep ==
  ASSUME Typed, Control, Places, NEW t \in Datasets, NEW r, Becomes(t, r), SameHands,
         \A d \in Datasets \ {t} : UNCHANGED <<block[d], slot[d], freeList[d]>>,
         NEW m, Mine1(t)', m \in Ids => BlockOK(t, m)', freeList'[t] = {},
         \A b \in Ids \ {m} :
           /\ SameRole(t, b)
           /\ block'[t][b] = IF b \in freeList[t] THEN Deleted ELSE block[t][b]
           /\ \A i \in Positions : slot'[t][i] = b <=> slot[t][i] = b
  PROVE  Places'
<1>1. ASSUME NEW b \in Ids \ {m}
      PROVE  BlockOK(t, b)'
  <2>0. BlockOK(t, b)
    BY DEF Places
  <2>1. CASE b \notin freeList[t]
    <3>1. HandsOn(t, b) /\ (Leaving(t, b) => Evicted(t, b))
      BY LeavingHeld DEF SameHands, HandsOn
    <3>2. /\ SameRole(t, b) /\ block'[t][b] = block[t][b]
          /\ \A i \in Positions : slot'[t][i] = b <=> slot[t][i] = b
          /\ b \in freeList'[t] <=> b \in freeList[t]
      BY <2>1
    <3> QED
      BY <2>0, <3>1, <3>2, BlockFrame
  <2>2. CASE b \in freeList[t]
    <3>1. ~block'[t][b].live /\ ~block'[t][b].listed /\ block'[t][b].lock = 0
      BY <2>2 DEF Deleted
    <3>2. ~InSlot(t, b)'
      BY <2>0, <2>2 DEF BlockOK, Slotted, InSlot
    <3>3. /\ ~Evicted(t, b) /\ ~Own(t, b)
          /\ \A u, v \in Datasets : <<t, b>> \in Held(u) /\ <<t, b>> \in Held(v) => u = v
      BY <2>0, <2>2 DEF BlockOK, GivenBack, OneEvictor
    <3>4. ~Evicted(t, b)' /\ ~Own(t, b)'
      BY <3>3 DEF SameHands, SameRole
    <3>5. OneEvictor(t, b)' /\ LeavesSlot(t, b)'
      BY <3>3, LeavingHeld DEF SameHands, OneEvictor, LeavesSlot
    <3> QED
      BY <3>1, <3>2, <3>4, <3>5 DEF BlockOK, Dead, Slotted, GivenBack, OutOfList, Listed, Placed, InSlot
  <2> QED
    BY <2>1, <2>2
<1>2. \A b \in Ids : BlockOK(t, b)'
  BY <1>1
<1> QED
  BY <1>2, OtherBands

LEMMA AddLockPlaces ==
  ASSUME Typed, Control, Places, NEW t \in Datasets, AddLock(t)
  PROVE  Places' /\ SameHands
<1> DEFINE old == thread[t]
<1>1. old \in Threads /\ LocalOK(t, old)
  BY LocalNow
<1>b. PICK m : m = old.mine
  OBVIOUS
<1> DEFINE r == Locals(IF block[t][old.mine].lock = -1 THEN "unlock" ELSE "use", old.kind, old.pos,
       old.mine, old.victim, old.togo, old.counted, old.again, old.err, old.ops)
<1>2. old.pc = "addlock" /\ Becomes(t, r)
  BY AddLockStep
<1>r. Becomes(t, r)
  BY <1>2
<1>3. thread'[t].pc = (IF block[t][old.mine].lock = -1 THEN "unlock" ELSE "use") /\ 
      thread'[t].kind = old.kind /\  thread'[t].pos = old.pos /\  thread'[t].mine = old.mine
      /\  thread'[t].victim = old.victim /\  thread'[t].togo = old.togo /\ 
      thread'[t].counted = old.counted /\  thread'[t].again = old.again /\ 
      thread'[t].err = old.err /\  thread'[t].ops = old.ops
  <2>1. thread'[t] = r
    <3> HIDE DEF r
    <3> QED
      BY <1>r, Others
  <2> QED
    BY <2>1 DEF Locals
<1>m. m \in Ids /\ m # NoBlock
  BY <1>1, <1>2, <1>b DEF Ids, NoBlock, LocalOK, KindOf, MineOf, HandOf, CountOf, Requests,
    Flushing, Scanning, Freeing, Stuck
<1>4. /\ \A b \in Ids \ {m} : block'[t][b] = block[t][b]
      /\ \A d \in Datasets \ {t} : block'[d] = block[d]
      /\ block'[t][m].pos = block[t][m].pos /\  block'[t][m].lock = block[t][m].lock + 1 /\ 
         block'[t][m].dirty = block[t][m].dirty /\  block'[t][m].data = block[t][m].data /\ 
         block'[t][m].listed = block[t][m].listed /\  block'[t][m].live = block[t][m].live
  <2> DEFINE e == [Mine(t) EXCEPT !.lock = @ + 1]
  <2>1. block' = [block EXCEPT ![t][m] = e]
    BY <1>b DEF AddLock, SetMine
  <2>2. /\ block'[t][m] = e /\ block[t][m] \in Entries
        /\ \A b \in Ids \ {m} : block'[t][b] = block[t][b]
        /\ \A d \in Datasets \ {t} : block'[d] = block[d]
    <3> HIDE DEF e
    <3> QED
      BY <1>m, <2>1, EditBlock
  <2> QED
    BY <1>b, <2>2 DEF Mine, Entries, Deleted
<1>5. SameHands
  <2>1. r.togo = old.togo /\ r.victim = old.victim /\ r.kind = old.kind /\ r.pc = (IF block[t][old.mine].lock = -1 THEN "unlock" ELSE "use")
    BY DEF Locals
  <2> HIDE DEF r
  <2> QED
    BY <1>1, <1>2, <1>r, <2>1, HandsKept DEF LocalOK, KindOf, MineOf, HandOf, CountOf,
      Requests, Flushing, Scanning, Freeing, Stuck
<1>6. /\ Own(t, m) <=> FALSE
      /\ Own(t, m)' <=> FALSE
      /\ Makes(t, m) <=> FALSE
      /\ Makes(t, m)' <=> FALSE
      /\ Works(t, m, {"use", "fill"}) <=> FALSE
      /\ Works(t, m, {"use", "fill"})' <=> (block[t][m].lock # -1)
      /\ Works(t, m, {"remove"}) <=> FALSE
      /\ Works(t, m, {"remove"})' <=> FALSE
      /\ Works(t, m, {"droplock"}) <=> FALSE
      /\ Works(t, m, {"droplock"})' <=> FALSE
      /\ Works(t, m, {"unlock"}) <=> FALSE
      /\ Works(t, m, {"unlock"})' <=> (block[t][m].lock = -1)
      /\ Works(t, m, Stuck) <=> FALSE
      /\ Works(t, m, Stuck)' <=> FALSE
  BY <1>1, <1>2, <1>3, <1>m, <1>b DEF Own, Owned, Makes, Making, Works, Ids, NoBlock,
    LocalOK, KindOf, MineOf, HandOf, CountOf, Requests, Flushing, Scanning, Freeing, Stuck
<1>l. LockOf(t, m) = -1 /\ LockOf(t, m)' = (IF (block[t][m].lock = -1) THEN 0 ELSE -1)
  BY <1>6 DEF LockOf
<1>7. slot' = slot /\ \A b : InSlot(t, b)' <=> InSlot(t, b)
  BY DEF InSlot, AddLock, SetMine, cache
<1>8. freeList' = freeList
  BY DEF AddLock, SetMine, band
<1>9. BlockOK(t, m) /\ Mine1(t) /\ \A b : Leaving(t, b) => Evicted(t, b)
  BY <1>m, LeavingHeld DEF Places
<1>0. /\ block[t][m].live /\ slot[t][old.pos] \in {NoBlock, m}
      /\ \/ (Evicted(t, m) \/ m \in freeList[t]) /\ block[t][m].lock = -1 /\ ~block[t][m].listed
         \/ ~(Evicted(t, m) \/ m \in freeList[t]) /\ block[t][m].lock = 0 /\ block[t][m].listed /\ slot[t][old.pos] = m
      /\ block[t][m].lock = -1 => slot[t][old.pos] = NoBlock \/ Leaving(t, slot[t][old.pos])
  <2>1. (slot[t][old.pos] = m \/ (Evicted(t, m) \/ m \in freeList[t])) /\ slot[t][old.pos] \in {NoBlock, m} /\ old.pos \in Positions
    BY <1>1, <1>2, <1>b, <1>9 DEF Mine1, Making, Put, Flusher, LocalOK, KindOf, MineOf,
      HandOf, CountOf, Requests, Flushing, Scanning, Freeing, Stuck
  <2> HIDE DEF old, r
  <2> QED
    BY <1>m, <1>5, <1>6, <1>l, <1>9, <2>1 DEF BlockOK, Dead, Slotted, GivenBack, OutOfList,
      Listed, Placed
<1>10. BlockOK(t, m)'
  <2> HIDE DEF old, r
  <2>1. Dead(t, m)'
    BY <1>0, <1>m, <1>4, <1>5, <1>6, <1>l, <1>7, <1>8, <1>9 DEF BlockOK, Dead, SameHands
  <2>2. Slotted(t, m)'
    BY <1>0, <1>m, <1>4, <1>5, <1>6, <1>l, <1>7, <1>8, <1>9 DEF BlockOK, Slotted, SameHands
  <2>3. GivenBack(t, m)'
    BY <1>0, <1>m, <1>4, <1>5, <1>6, <1>l, <1>7, <1>8, <1>9 DEF BlockOK, GivenBack, SameHands
  <2>4. OutOfList(t, m)'
    BY <1>0, <1>m, <1>4, <1>5, <1>6, <1>l, <1>7, <1>8, <1>9 DEF BlockOK, OutOfList, SameHands
  <2>5. OneEvictor(t, m)'
    BY <1>0, <1>m, <1>4, <1>5, <1>6, <1>l, <1>7, <1>8, <1>9 DEF BlockOK, OneEvictor,
      SameHands
  <2>6. Listed(t, m)'
    BY <1>0, <1>m, <1>4, <1>5, <1>6, <1>l, <1>7, <1>8, <1>9 DEF BlockOK, Listed, SameHands
  <2>7. Placed(t, m)'
    BY <1>0, <1>m, <1>4, <1>5, <1>6, <1>l, <1>7, <1>8, <1>9 DEF BlockOK, Placed, SameHands
  <2>8. LeavesSlot(t, m)'
    BY <1>0, <1>m, <1>4, <1>5, <1>6, <1>l, <1>7, <1>8, <1>9, <1>3 DEF BlockOK, LeavesSlot,
      SameHands, old
  <2> QED
    BY <2>1, <2>2, <2>3, <2>4, <2>5, <2>6, <2>7, <2>8 DEF BlockOK
<1>11. Mine1(t)'
  <2> HIDE DEF r
  <2> QED
    BY <1>0, <1>2, <1>3, <1>b, <1>m, <1>4, <1>5, <1>6, <1>7, <1>8, <1>9 DEF Mine1, Making,
      Put, Flusher, SameHands, Requests, Freeing, Scanning, Flushing, Stuck
<1>12. \A b \in Ids \ {m} : SameRole(t, b)
  BY <1>1, <1>2, <1>3, <1>m, <1>b DEF SameRole, Own, Owned, Makes, Making, Works, Ids,
    NoBlock, LocalOK, KindOf, MineOf, HandOf, CountOf, Requests, Flushing, Scanning, Freeing,
    Stuck
<1>13. /\ \A d \in Datasets \ {t} : UNCHANGED <<block[d], slot[d], freeList[d]>>
       /\ \A b \in Ids \ {m} :
            /\ block'[t][b] = block[t][b] /\ (b \in freeList'[t] <=> b \in freeList[t])
            /\ \A i \in Positions : slot'[t][i] = b <=> slot[t][i] = b
  BY <1>0, <1>m, <1>4, <1>7, <1>8, <1>9
<1> HIDE DEF r
<1> QED
  BY <1>r, <1>5, <1>10, <1>11, <1>12, <1>13, OwnStep

LEMMA TakeLockFailsPlaces ==
  ASSUME Typed, Control, Places, NEW t \in Datasets, TakeLockFails(t)
  PROVE  Places' /\ SameHands
<1> DEFINE old == thread[t]
<1>1. old \in Threads /\ LocalOK(t, old)
  BY LocalNow
<1>b. PICK m : m = old.mine
  OBVIOUS
<1> DEFINE r == Locals("create", old.kind, old.pos, NoBlock, old.victim, old.togo, old.counted, old.again,
       old.err, old.ops)
<1>2. old.pc = "unlock" /\ Becomes(t, r)
  BY TakeLockFailsStep
<1>r. Becomes(t, r)
  BY <1>2
<1>3. thread'[t].pc = "create" /\  thread'[t].kind = old.kind /\  thread'[t].pos = old.pos /\ 
      thread'[t].mine = NoBlock /\  thread'[t].victim = old.victim /\ 
      thread'[t].togo = old.togo /\  thread'[t].counted = old.counted /\ 
      thread'[t].again = old.again /\  thread'[t].err = old.err /\  thread'[t].ops = old.ops
  <2>1. thread'[t] = r
    <3> HIDE DEF r
    <3> QED
      BY <1>r, Others
  <2> QED
    BY <2>1 DEF Locals
<1>m. m \in Ids /\ m # NoBlock
  BY <1>1, <1>2, <1>b DEF Ids, NoBlock, LocalOK, KindOf, MineOf, HandOf, CountOf, Requests,
    Flushing, Scanning, Freeing, Stuck
<1>4. /\ \A b \in Ids \ {m} : block'[t][b] = block[t][b]
      /\ \A d \in Datasets \ {t} : block'[d] = block[d]
      /\ block'[t][m].pos = block[t][m].pos /\  block'[t][m].lock = block[t][m].lock - 1 /\ 
         block'[t][m].dirty = block[t][m].dirty /\  block'[t][m].data = block[t][m].data /\ 
         block'[t][m].listed = block[t][m].listed /\  block'[t][m].live = block[t][m].live
  <2> DEFINE e == [Mine(t) EXCEPT !.lock = @ - 1]
  <2>1. block' = [block EXCEPT ![t][m] = e]
    BY <1>b DEF TakeLockFails, SetMine
  <2>2. /\ block'[t][m] = e /\ block[t][m] \in Entries
        /\ \A b \in Ids \ {m} : block'[t][b] = block[t][b]
        /\ \A d \in Datasets \ {t} : block'[d] = block[d]
    <3> HIDE DEF e
    <3> QED
      BY <1>m, <2>1, EditBlock
  <2> QED
    BY <1>b, <2>2 DEF Mine, Entries, Deleted
<1>5. SameHands
  <2>1. r.togo = old.togo /\ r.victim = old.victim /\ r.kind = old.kind /\ r.pc = "create"
    BY DEF Locals
  <2> HIDE DEF r
  <2> QED
    BY <1>1, <1>2, <1>r, <2>1, HandsKept DEF LocalOK, KindOf, MineOf, HandOf, CountOf,
      Requests, Flushing, Scanning, Freeing, Stuck
<1>6. /\ Own(t, m) <=> FALSE
      /\ Own(t, m)' <=> FALSE
      /\ Makes(t, m) <=> FALSE
      /\ Makes(t, m)' <=> FALSE
      /\ Works(t, m, {"use", "fill"}) <=> FALSE
      /\ Works(t, m, {"use", "fill"})' <=> FALSE
      /\ Works(t, m, {"remove"}) <=> FALSE
      /\ Works(t, m, {"remove"})' <=> FALSE
      /\ Works(t, m, {"droplock"}) <=> FALSE
      /\ Works(t, m, {"droplock"})' <=> FALSE
      /\ Works(t, m, {"unlock"}) <=> TRUE
      /\ Works(t, m, {"unlock"})' <=> FALSE
      /\ Works(t, m, Stuck) <=> FALSE
      /\ Works(t, m, Stuck)' <=> FALSE
  BY <1>1, <1>2, <1>3, <1>m, <1>b DEF Own, Owned, Makes, Making, Works, Ids, NoBlock,
    LocalOK, KindOf, MineOf, HandOf, CountOf, Requests, Flushing, Scanning, Freeing, Stuck
<1>l. LockOf(t, m) = 0 /\ LockOf(t, m)' = -1
  BY <1>6 DEF LockOf
<1>7. slot' = slot /\ \A b : InSlot(t, b)' <=> InSlot(t, b)
  BY DEF InSlot, TakeLockFails, SetMine, cache
<1>8. freeList' = freeList
  BY DEF TakeLockFails, SetMine, band
<1>9. BlockOK(t, m) /\ Mine1(t) /\ \A b : Leaving(t, b) => Evicted(t, b)
  BY <1>m, LeavingHeld DEF Places
<1>0. (Evicted(t, m) \/ m \in freeList[t]) /\ block[t][m].live /\ block[t][m].lock = 0 /\ ~block[t][m].listed
  <2>1. (Evicted(t, m) \/ m \in freeList[t])
    BY <1>1, <1>2, <1>b, <1>9 DEF Mine1, Making, Put, Flusher, LocalOK, KindOf, MineOf,
      HandOf, CountOf, Requests, Flushing, Scanning, Freeing, Stuck
  <2> HIDE DEF old, r
  <2> QED
    BY <1>m, <1>5, <1>6, <1>l, <1>9, <2>1 DEF BlockOK, Dead, Slotted, GivenBack, OutOfList,
      Listed, Placed
<1>10. BlockOK(t, m)'
  <2> HIDE DEF old, r
  <2>1. Dead(t, m)'
    BY <1>0, <1>m, <1>4, <1>5, <1>6, <1>l, <1>7, <1>8, <1>9 DEF BlockOK, Dead, SameHands
  <2>2. Slotted(t, m)'
    BY <1>0, <1>m, <1>4, <1>5, <1>6, <1>l, <1>7, <1>8, <1>9 DEF BlockOK, Slotted, SameHands
  <2>3. GivenBack(t, m)'
    BY <1>0, <1>m, <1>4, <1>5, <1>6, <1>l, <1>7, <1>8, <1>9 DEF BlockOK, GivenBack, SameHands
  <2>4. OutOfList(t, m)'
    BY <1>0, <1>m, <1>4, <1>5, <1>6, <1>l, <1>7, <1>8, <1>9 DEF BlockOK, OutOfList, SameHands
  <2>5. OneEvictor(t, m)'
    BY <1>0, <1>m, <1>4, <1>5, <1>6, <1>l, <1>7, <1>8, <1>9 DEF BlockOK, OneEvictor,
      SameHands
  <2>6. Listed(t, m)'
    BY <1>0, <1>m, <1>4, <1>5, <1>6, <1>l, <1>7, <1>8, <1>9 DEF BlockOK, Listed, SameHands
  <2>7. Placed(t, m)'
    BY <1>0, <1>m, <1>4, <1>5, <1>6, <1>l, <1>7, <1>8, <1>9 DEF BlockOK, Placed, SameHands
  <2>8. LeavesSlot(t, m)'
    BY <1>0, <1>m, <1>4, <1>5, <1>6, <1>l, <1>7, <1>8, <1>9, <1>3 DEF BlockOK, LeavesSlot,
      SameHands, old
  <2> QED
    BY <2>1, <2>2, <2>3, <2>4, <2>5, <2>6, <2>7, <2>8 DEF BlockOK
<1>11. Mine1(t)'
  <2> HIDE DEF r
  <2> QED
    BY <1>0, <1>2, <1>3, <1>b, <1>m, <1>4, <1>5, <1>6, <1>7, <1>8, <1>9 DEF Mine1, Making,
      Put, Flusher, SameHands, Requests, Freeing, Scanning, Flushing, Stuck
<1>12. \A b \in Ids \ {m} : SameRole(t, b)
  BY <1>1, <1>2, <1>3, <1>m, <1>b DEF SameRole, Own, Owned, Makes, Making, Works, Ids,
    NoBlock, LocalOK, KindOf, MineOf, HandOf, CountOf, Requests, Flushing, Scanning, Freeing,
    Stuck
<1>13. /\ \A d \in Datasets \ {t} : UNCHANGED <<block[d], slot[d], freeList[d]>>
       /\ \A b \in Ids \ {m} :
            /\ block'[t][b] = block[t][b] /\ (b \in freeList'[t] <=> b \in freeList[t])
            /\ \A i \in Positions : slot'[t][i] = b <=> slot[t][i] = b
  BY <1>0, <1>m, <1>4, <1>7, <1>8, <1>9
<1> HIDE DEF r
<1> QED
  BY <1>r, <1>5, <1>10, <1>11, <1>12, <1>13, OwnStep

LEMMA UseReadPlaces ==
  ASSUME Typed, Control, Places, NEW t \in Datasets, Use(t), thread[t].kind = "read"
  PROVE  Places' /\ SameHands
<1> DEFINE old == thread[t]
<1>1. old \in Threads /\ LocalOK(t, old)
  BY LocalNow
<1>b. PICK m : m = old.mine
  OBVIOUS
<1> DEFINE r == Locals("leave", old.kind, old.pos, old.mine, old.victim, old.togo, old.counted, old.again,
       old.err, old.ops)
<1>2. old.pc = "use" /\ (old.kind = "read") /\ Becomes(t, r)
  BY UseReadStep
<1>r. Becomes(t, r)
  BY <1>2
<1>3. thread'[t].pc = "leave" /\  thread'[t].kind = old.kind /\  thread'[t].pos = old.pos /\ 
      thread'[t].mine = old.mine /\  thread'[t].victim = old.victim /\ 
      thread'[t].togo = old.togo /\  thread'[t].counted = old.counted /\ 
      thread'[t].again = old.again /\  thread'[t].err = old.err /\  thread'[t].ops = old.ops
  <2>1. thread'[t] = r
    <3> HIDE DEF r
    <3> QED
      BY <1>r, Others
  <2> QED
    BY <2>1 DEF Locals
<1>m. m \in Ids /\ m # NoBlock
  BY <1>1, <1>2, <1>b DEF Ids, NoBlock, LocalOK, KindOf, MineOf, HandOf, CountOf, Requests,
    Flushing, Scanning, Freeing, Stuck
<1>4. /\ \A b \in Ids \ {m} : block'[t][b] = block[t][b]
      /\ \A d \in Datasets \ {t} : block'[d] = block[d]
      /\ block'[t][m].pos = block[t][m].pos /\  block'[t][m].lock = block[t][m].lock - 1 /\ 
         block'[t][m].dirty = block[t][m].dirty /\  block'[t][m].data = block[t][m].data /\ 
         block'[t][m].listed = block[t][m].listed /\  block'[t][m].live = block[t][m].live
  <2> DEFINE e == [Mine(t) EXCEPT !.lock = @ - 1]
  <2>1. block' = [block EXCEPT ![t][m] = e]
    BY <1>b DEF Use, SetMine
  <2>2. /\ block'[t][m] = e /\ block[t][m] \in Entries
        /\ \A b \in Ids \ {m} : block'[t][b] = block[t][b]
        /\ \A d \in Datasets \ {t} : block'[d] = block[d]
    <3> HIDE DEF e
    <3> QED
      BY <1>m, <2>1, EditBlock
  <2> QED
    BY <1>b, <2>2 DEF Mine, Entries, Deleted
<1>5. SameHands
  <2>1. r.togo = old.togo /\ r.victim = old.victim /\ r.kind = old.kind /\ r.pc = "leave"
    BY DEF Locals
  <2> HIDE DEF r
  <2> QED
    BY <1>1, <1>2, <1>r, <2>1, HandsKept DEF LocalOK, KindOf, MineOf, HandOf, CountOf,
      Requests, Flushing, Scanning, Freeing, Stuck
<1>6. /\ Own(t, m) <=> FALSE
      /\ Own(t, m)' <=> FALSE
      /\ Makes(t, m) <=> FALSE
      /\ Makes(t, m)' <=> FALSE
      /\ Works(t, m, {"use", "fill"}) <=> TRUE
      /\ Works(t, m, {"use", "fill"})' <=> FALSE
      /\ Works(t, m, {"remove"}) <=> FALSE
      /\ Works(t, m, {"remove"})' <=> FALSE
      /\ Works(t, m, {"droplock"}) <=> FALSE
      /\ Works(t, m, {"droplock"})' <=> FALSE
      /\ Works(t, m, {"unlock"}) <=> FALSE
      /\ Works(t, m, {"unlock"})' <=> FALSE
      /\ Works(t, m, Stuck) <=> FALSE
      /\ Works(t, m, Stuck)' <=> FALSE
  BY <1>1, <1>2, <1>3, <1>m, <1>b DEF Own, Owned, Makes, Making, Works, Ids, NoBlock,
    LocalOK, KindOf, MineOf, HandOf, CountOf, Requests, Flushing, Scanning, Freeing, Stuck
<1>l. LockOf(t, m) = -1 /\ LockOf(t, m)' = -1
  BY <1>6 DEF LockOf
<1>7. slot' = slot /\ \A b : InSlot(t, b)' <=> InSlot(t, b)
  BY DEF InSlot, Use, SetMine, cache
<1>8. freeList' = freeList
  BY DEF Use, SetMine, band
<1>9. BlockOK(t, m) /\ Mine1(t) /\ \A b : Leaving(t, b) => Evicted(t, b)
  BY <1>m, LeavingHeld DEF Places
<1>0. block[t][m].live /\ block[t][m].listed /\ block[t][m].lock = 1 /\ ~Evicted(t, m) /\ m \notin freeList[t] /\ InSlot(t, m)
  <2>1. slot[t][old.pos] = m /\ block[t][m].listed /\ old.pos \in Positions
    BY <1>1, <1>2, <1>b, <1>9 DEF Mine1, Making, Put, Flusher, LocalOK, KindOf, MineOf,
      HandOf, CountOf, Requests, Flushing, Scanning, Freeing, Stuck
  <2> HIDE DEF old, r
  <2> QED
    BY <1>m, <1>5, <1>6, <1>l, <1>9, <2>1 DEF InSlot, BlockOK, Dead, Slotted, GivenBack, OutOfList,
      Listed, Placed
<1>10. BlockOK(t, m)'
  <2> HIDE DEF old, r
  <2>1. Dead(t, m)'
    BY <1>0, <1>m, <1>4, <1>5, <1>6, <1>l, <1>7, <1>8, <1>9 DEF BlockOK, Dead, SameHands
  <2>2. Slotted(t, m)'
    BY <1>0, <1>m, <1>4, <1>5, <1>6, <1>l, <1>7, <1>8, <1>9 DEF BlockOK, Slotted, SameHands
  <2>3. GivenBack(t, m)'
    BY <1>0, <1>m, <1>4, <1>5, <1>6, <1>l, <1>7, <1>8, <1>9 DEF BlockOK, GivenBack, SameHands
  <2>4. OutOfList(t, m)'
    BY <1>0, <1>m, <1>4, <1>5, <1>6, <1>l, <1>7, <1>8, <1>9 DEF BlockOK, OutOfList, SameHands
  <2>5. OneEvictor(t, m)'
    BY <1>0, <1>m, <1>4, <1>5, <1>6, <1>l, <1>7, <1>8, <1>9 DEF BlockOK, OneEvictor,
      SameHands
  <2>6. Listed(t, m)'
    BY <1>0, <1>m, <1>4, <1>5, <1>6, <1>l, <1>7, <1>8, <1>9 DEF BlockOK, Listed, SameHands
  <2>7. Placed(t, m)'
    BY <1>0, <1>m, <1>4, <1>5, <1>6, <1>l, <1>7, <1>8, <1>9 DEF BlockOK, Placed, SameHands
  <2>8. LeavesSlot(t, m)'
    BY <1>0, <1>m, <1>4, <1>5, <1>6, <1>l, <1>7, <1>8, <1>9, <1>3 DEF BlockOK, LeavesSlot,
      SameHands, old
  <2> QED
    BY <2>1, <2>2, <2>3, <2>4, <2>5, <2>6, <2>7, <2>8 DEF BlockOK
<1>11. Mine1(t)'
  <2> HIDE DEF r
  <2> QED
    BY <1>0, <1>2, <1>3, <1>b, <1>m, <1>4, <1>5, <1>6, <1>7, <1>8, <1>9 DEF Mine1, Making,
      Put, Flusher, SameHands, Requests, Freeing, Scanning, Flushing, Stuck
<1>12. \A b \in Ids \ {m} : SameRole(t, b)
  BY <1>1, <1>2, <1>3, <1>m, <1>b DEF SameRole, Own, Owned, Makes, Making, Works, Ids,
    NoBlock, LocalOK, KindOf, MineOf, HandOf, CountOf, Requests, Flushing, Scanning, Freeing,
    Stuck
<1>13. /\ \A d \in Datasets \ {t} : UNCHANGED <<block[d], slot[d], freeList[d]>>
       /\ \A b \in Ids \ {m} :
            /\ block'[t][b] = block[t][b] /\ (b \in freeList'[t] <=> b \in freeList[t])
            /\ \A i \in Positions : slot'[t][i] = b <=> slot[t][i] = b
  BY <1>0, <1>m, <1>4, <1>7, <1>8, <1>9
<1> HIDE DEF r
<1> QED
  BY <1>r, <1>5, <1>10, <1>11, <1>12, <1>13, OwnStep

LEMMA UsePlaces ==
  ASSUME Typed, Control, Places, NEW t \in Datasets, Use(t), thread[t].kind # "read"
  PROVE  Places' /\ SameHands
<1> DEFINE old == thread[t]
<1>1. old \in Threads /\ LocalOK(t, old)
  BY LocalNow
<1>b. PICK m : m = old.mine
  OBVIOUS
<1> DEFINE r == Locals("leave", old.kind, old.pos, old.mine, old.victim, old.togo, old.counted, old.again,
       old.err, old.ops)
<1>2. old.pc = "use" /\ (old.kind # "read") /\ Becomes(t, r)
  BY UseStep
<1>r. Becomes(t, r)
  BY <1>2
<1>3. thread'[t].pc = "leave" /\  thread'[t].kind = old.kind /\  thread'[t].pos = old.pos /\ 
      thread'[t].mine = old.mine /\  thread'[t].victim = old.victim /\ 
      thread'[t].togo = old.togo /\  thread'[t].counted = old.counted /\ 
      thread'[t].again = old.again /\  thread'[t].err = old.err /\  thread'[t].ops = old.ops
  <2>1. thread'[t] = r
    <3> HIDE DEF r
    <3> QED
      BY <1>r, Others
  <2> QED
    BY <2>1 DEF Locals
<1>m. m \in Ids /\ m # NoBlock
  BY <1>1, <1>2, <1>b DEF Ids, NoBlock, LocalOK, KindOf, MineOf, HandOf, CountOf, Requests,
    Flushing, Scanning, Freeing, Stuck
<1>4. /\ \A b \in Ids \ {m} : block'[t][b] = block[t][b]
      /\ \A d \in Datasets \ {t} : block'[d] = block[d]
      /\ block'[t][m].pos = block[t][m].pos /\  block'[t][m].lock = block[t][m].lock - 1 /\ 
         block'[t][m].dirty = TRUE /\  block'[t][m].data = block[t][m].data /\ 
         block'[t][m].listed = block[t][m].listed /\  block'[t][m].live = block[t][m].live
  <2> DEFINE e == [Mine(t) EXCEPT !.lock = @ - 1, !.dirty = TRUE, !.val = IF thread[t].kind = "write" THEN written[t][thread[t].pos] + 1 ELSE @ + 1]
  <2>1. block' = [block EXCEPT ![t][m] = e]
    BY <1>b DEF Use, SetMine
  <2>2. /\ block'[t][m] = e /\ block[t][m] \in Entries
        /\ \A b \in Ids \ {m} : block'[t][b] = block[t][b]
        /\ \A d \in Datasets \ {t} : block'[d] = block[d]
    <3> HIDE DEF e
    <3> QED
      BY <1>m, <2>1, EditBlock
  <2> QED
    BY <1>b, <2>2 DEF Mine, Entries, Deleted
<1>5. SameHands
  <2>1. r.togo = old.togo /\ r.victim = old.victim /\ r.kind = old.kind /\ r.pc = "leave"
    BY DEF Locals
  <2> HIDE DEF r
  <2> QED
    BY <1>1, <1>2, <1>r, <2>1, HandsKept DEF LocalOK, KindOf, MineOf, HandOf, CountOf,
      Requests, Flushing, Scanning, Freeing, Stuck
<1>6. /\ Own(t, m) <=> FALSE
      /\ Own(t, m)' <=> FALSE
      /\ Makes(t, m) <=> FALSE
      /\ Makes(t, m)' <=> FALSE
      /\ Works(t, m, {"use", "fill"}) <=> TRUE
      /\ Works(t, m, {"use", "fill"})' <=> FALSE
      /\ Works(t, m, {"remove"}) <=> FALSE
      /\ Works(t, m, {"remove"})' <=> FALSE
      /\ Works(t, m, {"droplock"}) <=> FALSE
      /\ Works(t, m, {"droplock"})' <=> FALSE
      /\ Works(t, m, {"unlock"}) <=> FALSE
      /\ Works(t, m, {"unlock"})' <=> FALSE
      /\ Works(t, m, Stuck) <=> FALSE
      /\ Works(t, m, Stuck)' <=> FALSE
  BY <1>1, <1>2, <1>3, <1>m, <1>b DEF Own, Owned, Makes, Making, Works, Ids, NoBlock,
    LocalOK, KindOf, MineOf, HandOf, CountOf, Requests, Flushing, Scanning, Freeing, Stuck
<1>l. LockOf(t, m) = -1 /\ LockOf(t, m)' = -1
  BY <1>6 DEF LockOf
<1>7. slot' = slot /\ \A b : InSlot(t, b)' <=> InSlot(t, b)
  BY DEF InSlot, Use, SetMine, cache
<1>8. freeList' = freeList
  BY DEF Use, SetMine, band
<1>9. BlockOK(t, m) /\ Mine1(t) /\ \A b : Leaving(t, b) => Evicted(t, b)
  BY <1>m, LeavingHeld DEF Places
<1>0. block[t][m].live /\ block[t][m].listed /\ block[t][m].lock = 1 /\ ~Evicted(t, m) /\ m \notin freeList[t] /\ InSlot(t, m)
  <2>1. slot[t][old.pos] = m /\ block[t][m].listed /\ old.pos \in Positions
    BY <1>1, <1>2, <1>b, <1>9 DEF Mine1, Making, Put, Flusher, LocalOK, KindOf, MineOf,
      HandOf, CountOf, Requests, Flushing, Scanning, Freeing, Stuck
  <2> HIDE DEF old, r
  <2> QED
    BY <1>m, <1>5, <1>6, <1>l, <1>9, <2>1 DEF InSlot, BlockOK, Dead, Slotted, GivenBack, OutOfList,
      Listed, Placed
<1>10. BlockOK(t, m)'
  <2> HIDE DEF old, r
  <2>1. Dead(t, m)'
    BY <1>0, <1>m, <1>4, <1>5, <1>6, <1>l, <1>7, <1>8, <1>9 DEF BlockOK, Dead, SameHands
  <2>2. Slotted(t, m)'
    BY <1>0, <1>m, <1>4, <1>5, <1>6, <1>l, <1>7, <1>8, <1>9 DEF BlockOK, Slotted, SameHands
  <2>3. GivenBack(t, m)'
    BY <1>0, <1>m, <1>4, <1>5, <1>6, <1>l, <1>7, <1>8, <1>9 DEF BlockOK, GivenBack, SameHands
  <2>4. OutOfList(t, m)'
    BY <1>0, <1>m, <1>4, <1>5, <1>6, <1>l, <1>7, <1>8, <1>9 DEF BlockOK, OutOfList, SameHands
  <2>5. OneEvictor(t, m)'
    BY <1>0, <1>m, <1>4, <1>5, <1>6, <1>l, <1>7, <1>8, <1>9 DEF BlockOK, OneEvictor,
      SameHands
  <2>6. Listed(t, m)'
    BY <1>0, <1>m, <1>4, <1>5, <1>6, <1>l, <1>7, <1>8, <1>9 DEF BlockOK, Listed, SameHands
  <2>7. Placed(t, m)'
    BY <1>0, <1>m, <1>4, <1>5, <1>6, <1>l, <1>7, <1>8, <1>9 DEF BlockOK, Placed, SameHands
  <2>8. LeavesSlot(t, m)'
    BY <1>0, <1>m, <1>4, <1>5, <1>6, <1>l, <1>7, <1>8, <1>9, <1>3 DEF BlockOK, LeavesSlot,
      SameHands, old
  <2> QED
    BY <2>1, <2>2, <2>3, <2>4, <2>5, <2>6, <2>7, <2>8 DEF BlockOK
<1>11. Mine1(t)'
  <2> HIDE DEF r
  <2> QED
    BY <1>0, <1>2, <1>3, <1>b, <1>m, <1>4, <1>5, <1>6, <1>7, <1>8, <1>9 DEF Mine1, Making,
      Put, Flusher, SameHands, Requests, Freeing, Scanning, Flushing, Stuck
<1>12. \A b \in Ids \ {m} : SameRole(t, b)
  BY <1>1, <1>2, <1>3, <1>m, <1>b DEF SameRole, Own, Owned, Makes, Making, Works, Ids,
    NoBlock, LocalOK, KindOf, MineOf, HandOf, CountOf, Requests, Flushing, Scanning, Freeing,
    Stuck
<1>13. /\ \A d \in Datasets \ {t} : UNCHANGED <<block[d], slot[d], freeList[d]>>
       /\ \A b \in Ids \ {m} :
            /\ block'[t][b] = block[t][b] /\ (b \in freeList'[t] <=> b \in freeList[t])
            /\ \A i \in Positions : slot'[t][i] = b <=> slot[t][i] = b
  BY <1>0, <1>m, <1>4, <1>7, <1>8, <1>9
<1> HIDE DEF r
<1> QED
  BY <1>r, <1>5, <1>10, <1>11, <1>12, <1>13, OwnStep

LEMMA FillReadPlaces ==
  ASSUME Typed, Control, Places, NEW t \in Datasets, Fill(t), thread[t].pc = "fill",
    SetMine(t, [Mine(t) EXCEPT !.val = disk[t][thread[t].pos]]), Becomes(t, Locals("use",
    thread[t].kind, thread[t].pos, thread[t].mine, thread[t].victim, thread[t].togo,
    thread[t].counted, thread[t].again, thread[t].err, thread[t].ops))
  PROVE  Places' /\ SameHands
<1> DEFINE old == thread[t]
<1>1. old \in Threads /\ LocalOK(t, old)
  BY LocalNow
<1>b. PICK m : m = old.mine
  OBVIOUS
<1> DEFINE r == Locals("use", old.kind, old.pos, old.mine, old.victim, old.togo, old.counted, old.again,
       old.err, old.ops)
<1>2. old.pc = "fill" /\ Becomes(t, r)
  BY LocalNow
<1>r. Becomes(t, r)
  BY <1>2
<1>3. thread'[t].pc = "use" /\  thread'[t].kind = old.kind /\  thread'[t].pos = old.pos /\ 
      thread'[t].mine = old.mine /\  thread'[t].victim = old.victim /\ 
      thread'[t].togo = old.togo /\  thread'[t].counted = old.counted /\ 
      thread'[t].again = old.again /\  thread'[t].err = old.err /\  thread'[t].ops = old.ops
  <2>1. thread'[t] = r
    <3> HIDE DEF r
    <3> QED
      BY <1>r, Others
  <2> QED
    BY <2>1 DEF Locals
<1>m. m \in Ids /\ m # NoBlock
  BY <1>1, <1>2, <1>b DEF Ids, NoBlock, LocalOK, KindOf, MineOf, HandOf, CountOf, Requests,
    Flushing, Scanning, Freeing, Stuck
<1>4. /\ \A b \in Ids \ {m} : block'[t][b] = block[t][b]
      /\ \A d \in Datasets \ {t} : block'[d] = block[d]
      /\ block'[t][m].pos = block[t][m].pos /\  block'[t][m].lock = block[t][m].lock /\ 
         block'[t][m].dirty = block[t][m].dirty /\  block'[t][m].data = block[t][m].data /\ 
         block'[t][m].listed = block[t][m].listed /\  block'[t][m].live = block[t][m].live
  <2> DEFINE e == [Mine(t) EXCEPT !.val = disk[t][thread[t].pos]]
  <2>1. block' = [block EXCEPT ![t][m] = e]
    BY <1>b DEF Fill, SetMine
  <2>2. /\ block'[t][m] = e /\ block[t][m] \in Entries
        /\ \A b \in Ids \ {m} : block'[t][b] = block[t][b]
        /\ \A d \in Datasets \ {t} : block'[d] = block[d]
    <3> HIDE DEF e
    <3> QED
      BY <1>m, <2>1, EditBlock
  <2> QED
    BY <1>b, <2>2 DEF Mine, Entries, Deleted
<1>5. SameHands
  <2>1. r.togo = old.togo /\ r.victim = old.victim /\ r.kind = old.kind /\ r.pc = "use"
    BY DEF Locals
  <2> HIDE DEF r
  <2> QED
    BY <1>1, <1>2, <1>r, <2>1, HandsKept DEF LocalOK, KindOf, MineOf, HandOf, CountOf,
      Requests, Flushing, Scanning, Freeing, Stuck
<1>6. /\ Own(t, m) <=> FALSE
      /\ Own(t, m)' <=> FALSE
      /\ Makes(t, m) <=> FALSE
      /\ Makes(t, m)' <=> FALSE
      /\ Works(t, m, {"use", "fill"}) <=> TRUE
      /\ Works(t, m, {"use", "fill"})' <=> TRUE
      /\ Works(t, m, {"remove"}) <=> FALSE
      /\ Works(t, m, {"remove"})' <=> FALSE
      /\ Works(t, m, {"droplock"}) <=> FALSE
      /\ Works(t, m, {"droplock"})' <=> FALSE
      /\ Works(t, m, {"unlock"}) <=> FALSE
      /\ Works(t, m, {"unlock"})' <=> FALSE
      /\ Works(t, m, Stuck) <=> FALSE
      /\ Works(t, m, Stuck)' <=> FALSE
  BY <1>1, <1>2, <1>3, <1>m, <1>b DEF Own, Owned, Makes, Making, Works, Ids, NoBlock,
    LocalOK, KindOf, MineOf, HandOf, CountOf, Requests, Flushing, Scanning, Freeing, Stuck
<1>l. LockOf(t, m) = -1 /\ LockOf(t, m)' = -1
  BY <1>6 DEF LockOf
<1>7. slot' = slot /\ \A b : InSlot(t, b)' <=> InSlot(t, b)
  BY DEF InSlot, Fill, SetMine, cache
<1>8. freeList' = freeList
  BY DEF Fill, SetMine, band
<1>9. BlockOK(t, m) /\ Mine1(t) /\ \A b : Leaving(t, b) => Evicted(t, b)
  BY <1>m, LeavingHeld DEF Places
<1>0. block[t][m].live /\ block[t][m].listed /\ block[t][m].lock = 1 /\ ~Evicted(t, m) /\ m \notin freeList[t] /\ InSlot(t, m) /\ slot[t][old.pos] = m
  <2>1. slot[t][old.pos] = m /\ block[t][m].listed /\ old.pos \in Positions
    BY <1>1, <1>2, <1>b, <1>9 DEF Mine1, Making, Put, Flusher, LocalOK, KindOf, MineOf,
      HandOf, CountOf, Requests, Flushing, Scanning, Freeing, Stuck
  <2> HIDE DEF old, r
  <2> QED
    BY <1>m, <1>5, <1>6, <1>l, <1>9, <2>1 DEF InSlot, BlockOK, Dead, Slotted, GivenBack, OutOfList,
      Listed, Placed
<1>10. BlockOK(t, m)'
  <2> HIDE DEF old, r
  <2>1. Dead(t, m)'
    BY <1>0, <1>m, <1>4, <1>5, <1>6, <1>l, <1>7, <1>8, <1>9 DEF BlockOK, Dead, SameHands
  <2>2. Slotted(t, m)'
    BY <1>0, <1>m, <1>4, <1>5, <1>6, <1>l, <1>7, <1>8, <1>9 DEF BlockOK, Slotted, SameHands
  <2>3. GivenBack(t, m)'
    BY <1>0, <1>m, <1>4, <1>5, <1>6, <1>l, <1>7, <1>8, <1>9 DEF BlockOK, GivenBack, SameHands
  <2>4. OutOfList(t, m)'
    BY <1>0, <1>m, <1>4, <1>5, <1>6, <1>l, <1>7, <1>8, <1>9 DEF BlockOK, OutOfList, SameHands
  <2>5. OneEvictor(t, m)'
    BY <1>0, <1>m, <1>4, <1>5, <1>6, <1>l, <1>7, <1>8, <1>9 DEF BlockOK, OneEvictor,
      SameHands
  <2>6. Listed(t, m)'
    BY <1>0, <1>m, <1>4, <1>5, <1>6, <1>l, <1>7, <1>8, <1>9 DEF BlockOK, Listed, SameHands
  <2>7. Placed(t, m)'
    BY <1>0, <1>m, <1>4, <1>5, <1>6, <1>l, <1>7, <1>8, <1>9 DEF BlockOK, Placed, SameHands
  <2>8. LeavesSlot(t, m)'
    BY <1>0, <1>m, <1>4, <1>5, <1>6, <1>l, <1>7, <1>8, <1>9, <1>3 DEF BlockOK, LeavesSlot,
      SameHands, old
  <2> QED
    BY <2>1, <2>2, <2>3, <2>4, <2>5, <2>6, <2>7, <2>8 DEF BlockOK
<1>11. Mine1(t)'
  <2> HIDE DEF r
  <2> QED
    BY <1>0, <1>2, <1>3, <1>b, <1>m, <1>4, <1>5, <1>6, <1>7, <1>8, <1>9 DEF Mine1, Making,
      Put, Flusher, SameHands, Requests, Freeing, Scanning, Flushing, Stuck
<1>12. \A b \in Ids \ {m} : SameRole(t, b)
  BY <1>1, <1>2, <1>3, <1>m, <1>b DEF SameRole, Own, Owned, Makes, Making, Works, Ids,
    NoBlock, LocalOK, KindOf, MineOf, HandOf, CountOf, Requests, Flushing, Scanning, Freeing,
    Stuck
<1>13. /\ \A d \in Datasets \ {t} : UNCHANGED <<block[d], slot[d], freeList[d]>>
       /\ \A b \in Ids \ {m} :
            /\ block'[t][b] = block[t][b] /\ (b \in freeList'[t] <=> b \in freeList[t])
            /\ \A i \in Positions : slot'[t][i] = b <=> slot[t][i] = b
  BY <1>0, <1>m, <1>4, <1>7, <1>8, <1>9
<1> HIDE DEF r
<1> QED
  BY <1>r, <1>5, <1>10, <1>11, <1>12, <1>13, OwnStep

LEMMA FillFailsPlaces ==
  ASSUME Typed, Control, Places, NEW t \in Datasets, Fill(t), thread[t].pc = "fill",
    SetMine(t, [Mine(t) EXCEPT !.lock = @ - 1]), Becomes(t, Locals("take", thread[t].kind,
    thread[t].pos, thread[t].mine, thread[t].victim, thread[t].togo, thread[t].counted,
    thread[t].again, thread[t].err, thread[t].ops))
  PROVE  Places' /\ SameHands
<1> DEFINE old == thread[t]
<1>1. old \in Threads /\ LocalOK(t, old)
  BY LocalNow
<1>b. PICK m : m = old.mine
  OBVIOUS
<1> DEFINE r == Locals("take", old.kind, old.pos, old.mine, old.victim, old.togo, old.counted, old.again,
       old.err, old.ops)
<1>2. old.pc = "fill" /\ Becomes(t, r)
  BY LocalNow
<1>r. Becomes(t, r)
  BY <1>2
<1>3. thread'[t].pc = "take" /\  thread'[t].kind = old.kind /\  thread'[t].pos = old.pos /\ 
      thread'[t].mine = old.mine /\  thread'[t].victim = old.victim /\ 
      thread'[t].togo = old.togo /\  thread'[t].counted = old.counted /\ 
      thread'[t].again = old.again /\  thread'[t].err = old.err /\  thread'[t].ops = old.ops
  <2>1. thread'[t] = r
    <3> HIDE DEF r
    <3> QED
      BY <1>r, Others
  <2> QED
    BY <2>1 DEF Locals
<1>m. m \in Ids /\ m # NoBlock
  BY <1>1, <1>2, <1>b DEF Ids, NoBlock, LocalOK, KindOf, MineOf, HandOf, CountOf, Requests,
    Flushing, Scanning, Freeing, Stuck
<1>4. /\ \A b \in Ids \ {m} : block'[t][b] = block[t][b]
      /\ \A d \in Datasets \ {t} : block'[d] = block[d]
      /\ block'[t][m].pos = block[t][m].pos /\  block'[t][m].lock = block[t][m].lock - 1 /\ 
         block'[t][m].dirty = block[t][m].dirty /\  block'[t][m].data = block[t][m].data /\ 
         block'[t][m].listed = block[t][m].listed /\  block'[t][m].live = block[t][m].live
  <2> DEFINE e == [Mine(t) EXCEPT !.lock = @ - 1]
  <2>1. block' = [block EXCEPT ![t][m] = e]
    BY <1>b DEF Fill, SetMine
  <2>2. /\ block'[t][m] = e /\ block[t][m] \in Entries
        /\ \A b \in Ids \ {m} : block'[t][b] = block[t][b]
        /\ \A d \in Datasets \ {t} : block'[d] = block[d]
    <3> HIDE DEF e
    <3> QED
      BY <1>m, <2>1, EditBlock
  <2> QED
    BY <1>b, <2>2 DEF Mine, Entries, Deleted
<1>5. SameHands
  <2>1. r.togo = old.togo /\ r.victim = old.victim /\ r.kind = old.kind /\ r.pc = "take"
    BY DEF Locals
  <2> HIDE DEF r
  <2> QED
    BY <1>1, <1>2, <1>r, <2>1, HandsKept DEF LocalOK, KindOf, MineOf, HandOf, CountOf,
      Requests, Flushing, Scanning, Freeing, Stuck
<1>6. /\ Own(t, m) <=> FALSE
      /\ Own(t, m)' <=> FALSE
      /\ Makes(t, m) <=> FALSE
      /\ Makes(t, m)' <=> FALSE
      /\ Works(t, m, {"use", "fill"}) <=> TRUE
      /\ Works(t, m, {"use", "fill"})' <=> FALSE
      /\ Works(t, m, {"remove"}) <=> FALSE
      /\ Works(t, m, {"remove"})' <=> FALSE
      /\ Works(t, m, {"droplock"}) <=> FALSE
      /\ Works(t, m, {"droplock"})' <=> FALSE
      /\ Works(t, m, {"unlock"}) <=> FALSE
      /\ Works(t, m, {"unlock"})' <=> FALSE
      /\ Works(t, m, Stuck) <=> FALSE
      /\ Works(t, m, Stuck)' <=> FALSE
  BY <1>1, <1>2, <1>3, <1>m, <1>b DEF Own, Owned, Makes, Making, Works, Ids, NoBlock,
    LocalOK, KindOf, MineOf, HandOf, CountOf, Requests, Flushing, Scanning, Freeing, Stuck
<1>l. LockOf(t, m) = -1 /\ LockOf(t, m)' = -1
  BY <1>6 DEF LockOf
<1>7. slot' = slot /\ \A b : InSlot(t, b)' <=> InSlot(t, b)
  BY DEF InSlot, Fill, SetMine, cache
<1>8. freeList' = freeList
  BY DEF Fill, SetMine, band
<1>9. BlockOK(t, m) /\ Mine1(t) /\ \A b : Leaving(t, b) => Evicted(t, b)
  BY <1>m, LeavingHeld DEF Places
<1>0. block[t][m].live /\ block[t][m].listed /\ block[t][m].lock = 1 /\ ~Evicted(t, m) /\ m \notin freeList[t] /\ InSlot(t, m) /\ slot[t][old.pos] = m /\ ~block[t][m].dirty
  <2>1. slot[t][old.pos] = m /\ block[t][m].listed /\ old.pos \in Positions /\ ~block[t][m].dirty
    BY <1>1, <1>2, <1>b, <1>9 DEF Mine1, Making, Put, Flusher, LocalOK, KindOf, MineOf,
      HandOf, CountOf, Requests, Flushing, Scanning, Freeing, Stuck
  <2> HIDE DEF old, r
  <2> QED
    BY <1>m, <1>5, <1>6, <1>l, <1>9, <2>1 DEF InSlot, BlockOK, Dead, Slotted, GivenBack, OutOfList,
      Listed, Placed
<1>10. BlockOK(t, m)'
  <2> HIDE DEF old, r
  <2>1. Dead(t, m)'
    BY <1>0, <1>m, <1>4, <1>5, <1>6, <1>l, <1>7, <1>8, <1>9 DEF BlockOK, Dead, SameHands
  <2>2. Slotted(t, m)'
    BY <1>0, <1>m, <1>4, <1>5, <1>6, <1>l, <1>7, <1>8, <1>9 DEF BlockOK, Slotted, SameHands
  <2>3. GivenBack(t, m)'
    BY <1>0, <1>m, <1>4, <1>5, <1>6, <1>l, <1>7, <1>8, <1>9 DEF BlockOK, GivenBack, SameHands
  <2>4. OutOfList(t, m)'
    BY <1>0, <1>m, <1>4, <1>5, <1>6, <1>l, <1>7, <1>8, <1>9 DEF BlockOK, OutOfList, SameHands
  <2>5. OneEvictor(t, m)'
    BY <1>0, <1>m, <1>4, <1>5, <1>6, <1>l, <1>7, <1>8, <1>9 DEF BlockOK, OneEvictor,
      SameHands
  <2>6. Listed(t, m)'
    BY <1>0, <1>m, <1>4, <1>5, <1>6, <1>l, <1>7, <1>8, <1>9 DEF BlockOK, Listed, SameHands
  <2>7. Placed(t, m)'
    BY <1>0, <1>m, <1>4, <1>5, <1>6, <1>l, <1>7, <1>8, <1>9 DEF BlockOK, Placed, SameHands
  <2>8. LeavesSlot(t, m)'
    BY <1>0, <1>m, <1>4, <1>5, <1>6, <1>l, <1>7, <1>8, <1>9, <1>3 DEF BlockOK, LeavesSlot,
      SameHands, old
  <2> QED
    BY <2>1, <2>2, <2>3, <2>4, <2>5, <2>6, <2>7, <2>8 DEF BlockOK
<1>11. Mine1(t)'
  <2> HIDE DEF r
  <2> QED
    BY <1>0, <1>2, <1>3, <1>b, <1>m, <1>4, <1>5, <1>6, <1>7, <1>8, <1>9 DEF Mine1, Making,
      Put, Flusher, SameHands, Requests, Freeing, Scanning, Flushing, Stuck
<1>12. \A b \in Ids \ {m} : SameRole(t, b)
  BY <1>1, <1>2, <1>3, <1>m, <1>b DEF SameRole, Own, Owned, Makes, Making, Works, Ids,
    NoBlock, LocalOK, KindOf, MineOf, HandOf, CountOf, Requests, Flushing, Scanning, Freeing,
    Stuck
<1>13. /\ \A d \in Datasets \ {t} : UNCHANGED <<block[d], slot[d], freeList[d]>>
       /\ \A b \in Ids \ {m} :
            /\ block'[t][b] = block[t][b] /\ (b \in freeList'[t] <=> b \in freeList[t])
            /\ \A i \in Positions : slot'[t][i] = b <=> slot[t][i] = b
  BY <1>0, <1>m, <1>4, <1>7, <1>8, <1>9
<1> HIDE DEF r
<1> QED
  BY <1>r, <1>5, <1>10, <1>11, <1>12, <1>13, OwnStep

LEMMA TouchPutPlaces ==
  ASSUME Typed, Control, Places, NEW t \in Datasets, Touch(t), thread[t].kind # "evict",
    ~thread[t].again
  PROVE  Places' /\ SameHands
<1> DEFINE old == thread[t]
<1>1. old \in Threads /\ LocalOK(t, old)
  BY LocalNow
<1>b. PICK m : m = old.mine
  OBVIOUS
<1> DEFINE r == Locals("free", old.kind, old.pos, old.mine, old.victim, old.togo, FALSE, old.again,
       old.err, old.ops)
<1>2. old.pc \in {"scan", "scanned"} /\ (old.kind # "evict") /\ (~old.again) /\ Becomes(t, r)
  BY TouchPutStep
<1>r. Becomes(t, r)
  BY <1>2
<1>3. thread'[t].pc = "free" /\  thread'[t].kind = old.kind /\  thread'[t].pos = old.pos /\ 
      thread'[t].mine = old.mine /\  thread'[t].victim = old.victim /\ 
      thread'[t].togo = old.togo /\  thread'[t].counted = FALSE /\ 
      thread'[t].again = old.again /\  thread'[t].err = old.err /\  thread'[t].ops = old.ops
  <2>1. thread'[t] = r
    <3> HIDE DEF r
    <3> QED
      BY <1>r, Others
  <2> QED
    BY <2>1 DEF Locals
<1>m. m \in Ids /\ m # NoBlock
  BY <1>1, <1>2, <1>b DEF Ids, NoBlock, LocalOK, KindOf, MineOf, HandOf, CountOf, Requests,
    Flushing, Scanning, Freeing, Stuck
<1>4. /\ \A b \in Ids \ {m} : block'[t][b] = block[t][b]
      /\ \A d \in Datasets \ {t} : block'[d] = block[d]
      /\ block'[t][m].pos = block[t][m].pos /\  block'[t][m].lock = block[t][m].lock /\ 
         block'[t][m].dirty = block[t][m].dirty /\  block'[t][m].data = block[t][m].data /\ 
         block'[t][m].listed = TRUE /\  block'[t][m].live = block[t][m].live
  <2> DEFINE e == [Mine(t) EXCEPT !.listed = TRUE]
  <2>1. block' = [block EXCEPT ![t][m] = e]
    BY <1>b DEF Touch, SetMine
  <2>2. /\ block'[t][m] = e /\ block[t][m] \in Entries
        /\ \A b \in Ids \ {m} : block'[t][b] = block[t][b]
        /\ \A d \in Datasets \ {t} : block'[d] = block[d]
    <3> HIDE DEF e
    <3> QED
      BY <1>m, <2>1, EditBlock
  <2> QED
    BY <1>b, <2>2 DEF Mine, Entries, Deleted
<1>5. SameHands
  <2>1. r.togo = old.togo /\ r.victim = old.victim /\ r.kind = old.kind /\ r.pc = "free"
    BY DEF Locals
  <2> HIDE DEF r
  <2> QED
    BY <1>1, <1>2, <1>r, <2>1, HandsKept DEF LocalOK, KindOf, MineOf, HandOf, CountOf,
      Requests, Flushing, Scanning, Freeing, Stuck
<1>6. /\ Own(t, m) <=> TRUE
      /\ Own(t, m)' <=> TRUE
      /\ Makes(t, m) <=> TRUE
      /\ Makes(t, m)' <=> TRUE
      /\ Works(t, m, {"use", "fill"}) <=> FALSE
      /\ Works(t, m, {"use", "fill"})' <=> FALSE
      /\ Works(t, m, {"remove"}) <=> FALSE
      /\ Works(t, m, {"remove"})' <=> FALSE
      /\ Works(t, m, {"droplock"}) <=> FALSE
      /\ Works(t, m, {"droplock"})' <=> FALSE
      /\ Works(t, m, {"unlock"}) <=> FALSE
      /\ Works(t, m, {"unlock"})' <=> FALSE
      /\ Works(t, m, Stuck) <=> FALSE
      /\ Works(t, m, Stuck)' <=> FALSE
  BY <1>1, <1>2, <1>3, <1>m, <1>b DEF Own, Owned, Makes, Making, Works, Ids, NoBlock,
    LocalOK, KindOf, MineOf, HandOf, CountOf, Requests, Flushing, Scanning, Freeing, Stuck
<1>l. LockOf(t, m) = -1 /\ LockOf(t, m)' = -1
  BY <1>6 DEF LockOf
<1>7. slot' = slot /\ \A b : InSlot(t, b)' <=> InSlot(t, b)
  BY DEF InSlot, Touch, SetMine, cache
<1>8. freeList' = freeList
  BY DEF Touch, SetMine, band
<1>9. BlockOK(t, m) /\ Mine1(t) /\ \A b : Leaving(t, b) => Evicted(t, b)
  BY <1>m, LeavingHeld DEF Places
<1>0. /\ old.kind \in Requests /\ block[t][m].live /\ block[t][m].lock = 1 /\ block[t][m].pos = old.pos /\ ~block[t][m].dirty /\ ~block[t][m].data
      /\ slot[t][old.pos] = NoBlock /\ ~block[t][m].listed
      /\ ~Evicted(t, m) /\ m \notin freeList[t] /\ ~InSlot(t, m)
  <2>1. /\ old.kind \in Requests /\ block[t][m].live /\ block[t][m].lock = 1 /\ block[t][m].pos = old.pos /\ ~block[t][m].dirty /\ ~block[t][m].data
        /\ slot[t][old.pos] = NoBlock /\ ~block[t][m].listed
    BY <1>1, <1>2, <1>b, <1>9 DEF Mine1, Making, Put, Flusher, LocalOK, KindOf, MineOf,
      HandOf, CountOf, Requests, Flushing, Scanning, Freeing, Stuck
  <2> HIDE DEF old, r
  <2> QED
    BY <1>m, <1>5, <1>6, <1>l, <1>9, <2>1 DEF InSlot, BlockOK, Dead, Slotted, GivenBack, OutOfList,
      Listed, Placed
<1>10. BlockOK(t, m)'
  <2> HIDE DEF old, r
  <2>1. Dead(t, m)'
    BY <1>0, <1>m, <1>4, <1>5, <1>6, <1>l, <1>7, <1>8, <1>9 DEF BlockOK, Dead, SameHands
  <2>2. Slotted(t, m)'
    BY <1>0, <1>m, <1>4, <1>5, <1>6, <1>l, <1>7, <1>8, <1>9 DEF BlockOK, Slotted, SameHands
  <2>3. GivenBack(t, m)'
    BY <1>0, <1>m, <1>4, <1>5, <1>6, <1>l, <1>7, <1>8, <1>9 DEF BlockOK, GivenBack, SameHands
  <2>4. OutOfList(t, m)'
    BY <1>0, <1>m, <1>4, <1>5, <1>6, <1>l, <1>7, <1>8, <1>9 DEF BlockOK, OutOfList, SameHands
  <2>5. OneEvictor(t, m)'
    BY <1>0, <1>m, <1>4, <1>5, <1>6, <1>l, <1>7, <1>8, <1>9 DEF BlockOK, OneEvictor,
      SameHands
  <2>6. Listed(t, m)'
    BY <1>0, <1>m, <1>4, <1>5, <1>6, <1>l, <1>7, <1>8, <1>9 DEF BlockOK, Listed, SameHands
  <2>7. Placed(t, m)'
    BY <1>0, <1>m, <1>4, <1>5, <1>6, <1>l, <1>7, <1>8, <1>9 DEF BlockOK, Placed, SameHands
  <2>8. LeavesSlot(t, m)'
    BY <1>0, <1>m, <1>4, <1>5, <1>6, <1>l, <1>7, <1>8, <1>9, <1>3 DEF BlockOK, LeavesSlot,
      SameHands, old
  <2> QED
    BY <2>1, <2>2, <2>3, <2>4, <2>5, <2>6, <2>7, <2>8 DEF BlockOK
<1>11. Mine1(t)'
  <2> HIDE DEF r
  <2> QED
    BY <1>0, <1>2, <1>3, <1>b, <1>m, <1>4, <1>5, <1>6, <1>7, <1>8, <1>9 DEF Mine1, Making,
      Put, Flusher, SameHands, Requests, Freeing, Scanning, Flushing, Stuck
<1>12. \A b \in Ids \ {m} : SameRole(t, b)
  BY <1>1, <1>2, <1>3, <1>m, <1>b DEF SameRole, Own, Owned, Makes, Making, Works, Ids,
    NoBlock, LocalOK, KindOf, MineOf, HandOf, CountOf, Requests, Flushing, Scanning, Freeing,
    Stuck
<1>13. /\ \A d \in Datasets \ {t} : UNCHANGED <<block[d], slot[d], freeList[d]>>
       /\ \A b \in Ids \ {m} :
            /\ block'[t][b] = block[t][b] /\ (b \in freeList'[t] <=> b \in freeList[t])
            /\ \A i \in Positions : slot'[t][i] = b <=> slot[t][i] = b
  BY <1>0, <1>m, <1>4, <1>7, <1>8, <1>9
<1> HIDE DEF r
<1> QED
  BY <1>r, <1>5, <1>10, <1>11, <1>12, <1>13, OwnStep

LEMMA MallocPlaces ==
  ASSUME Typed, Control, Places, NEW t \in Datasets, Malloc(t)
  PROVE  Places' /\ SameHands
<1> DEFINE old == thread[t]
<1>1. old \in Threads /\ LocalOK(t, old)
  BY LocalNow
<1>b. PICK m : m = old.mine
  OBVIOUS
<1> DEFINE r == Locals("reacquire", old.kind, old.pos, old.mine, old.victim, old.togo, old.counted,
       old.again, old.err, old.ops)
<1>2. old.pc = "free" /\ old.togo = <<>> /\ old.kind # "evict" /\ ~old.again /\ Becomes(t, r)
  BY MallocStep
<1>r. Becomes(t, r)
  BY <1>2
<1>3. thread'[t].pc = "reacquire" /\  thread'[t].kind = old.kind /\  thread'[t].pos = old.pos
      /\  thread'[t].mine = old.mine /\  thread'[t].victim = old.victim /\ 
      thread'[t].togo = old.togo /\  thread'[t].counted = old.counted /\ 
      thread'[t].again = old.again /\  thread'[t].err = old.err /\  thread'[t].ops = old.ops
  <2>1. thread'[t] = r
    <3> HIDE DEF r
    <3> QED
      BY <1>r, Others
  <2> QED
    BY <2>1 DEF Locals
<1>m. m \in Ids /\ m # NoBlock
  BY <1>1, <1>2, <1>b DEF Ids, NoBlock, LocalOK, KindOf, MineOf, HandOf, CountOf, Requests,
    Flushing, Scanning, Freeing, Stuck
<1>4. /\ \A b \in Ids \ {m} : block'[t][b] = block[t][b]
      /\ \A d \in Datasets \ {t} : block'[d] = block[d]
      /\ block'[t][m].pos = block[t][m].pos /\  block'[t][m].lock = block[t][m].lock /\ 
         block'[t][m].dirty = block[t][m].dirty /\  block'[t][m].data = TRUE /\ 
         block'[t][m].listed = block[t][m].listed /\  block'[t][m].live = block[t][m].live
  <2> DEFINE e == [Mine(t) EXCEPT !.data = TRUE]
  <2>1. block' = [block EXCEPT ![t][m] = e]
    BY <1>b DEF Malloc, SetMine
  <2>2. /\ block'[t][m] = e /\ block[t][m] \in Entries
        /\ \A b \in Ids \ {m} : block'[t][b] = block[t][b]
        /\ \A d \in Datasets \ {t} : block'[d] = block[d]
    <3> HIDE DEF e
    <3> QED
      BY <1>m, <2>1, EditBlock
  <2> QED
    BY <1>b, <2>2 DEF Mine, Entries, Deleted
<1>5. SameHands
  <2>1. r.togo = old.togo /\ r.victim = old.victim /\ r.kind = old.kind /\ r.pc = "reacquire"
    BY DEF Locals
  <2> HIDE DEF r
  <2> QED
    BY <1>1, <1>2, <1>r, <2>1, HandsKept DEF LocalOK, KindOf, MineOf, HandOf, CountOf,
      Requests, Flushing, Scanning, Freeing, Stuck
<1>6. /\ Own(t, m) <=> TRUE
      /\ Own(t, m)' <=> TRUE
      /\ Makes(t, m) <=> TRUE
      /\ Makes(t, m)' <=> TRUE
      /\ Works(t, m, {"use", "fill"}) <=> FALSE
      /\ Works(t, m, {"use", "fill"})' <=> FALSE
      /\ Works(t, m, {"remove"}) <=> FALSE
      /\ Works(t, m, {"remove"})' <=> FALSE
      /\ Works(t, m, {"droplock"}) <=> FALSE
      /\ Works(t, m, {"droplock"})' <=> FALSE
      /\ Works(t, m, {"unlock"}) <=> FALSE
      /\ Works(t, m, {"unlock"})' <=> FALSE
      /\ Works(t, m, Stuck) <=> FALSE
      /\ Works(t, m, Stuck)' <=> FALSE
  BY <1>1, <1>2, <1>3, <1>m, <1>b DEF Own, Owned, Makes, Making, Works, Ids, NoBlock,
    LocalOK, KindOf, MineOf, HandOf, CountOf, Requests, Flushing, Scanning, Freeing, Stuck
<1>l. LockOf(t, m) = -1 /\ LockOf(t, m)' = -1
  BY <1>6 DEF LockOf
<1>7. slot' = slot /\ \A b : InSlot(t, b)' <=> InSlot(t, b)
  BY DEF InSlot, Malloc, SetMine, cache
<1>8. freeList' = freeList
  BY DEF Malloc, SetMine, band
<1>9. BlockOK(t, m) /\ Mine1(t) /\ \A b : Leaving(t, b) => Evicted(t, b)
  BY <1>m, LeavingHeld DEF Places
<1>0. /\ old.kind \in Requests /\ block[t][m].live /\ block[t][m].lock = 1 /\ block[t][m].pos = old.pos /\ ~block[t][m].dirty /\ ~block[t][m].data
      /\ slot[t][old.pos] = NoBlock /\ block[t][m].listed
      /\ ~Evicted(t, m) /\ m \notin freeList[t] /\ ~InSlot(t, m)
  <2>1. /\ old.kind \in Requests /\ block[t][m].live /\ block[t][m].lock = 1 /\ block[t][m].pos = old.pos /\ ~block[t][m].dirty /\ ~block[t][m].data
        /\ slot[t][old.pos] = NoBlock /\ block[t][m].listed
    BY <1>1, <1>2, <1>b, <1>9 DEF Mine1, Making, Put, Flusher, LocalOK, KindOf, MineOf,
      HandOf, CountOf, Requests, Flushing, Scanning, Freeing, Stuck
  <2> HIDE DEF old, r
  <2> QED
    BY <1>m, <1>5, <1>6, <1>l, <1>9, <2>1 DEF InSlot, BlockOK, Dead, Slotted, GivenBack, OutOfList,
      Listed, Placed
<1>10. BlockOK(t, m)'
  <2> HIDE DEF old, r
  <2>1. Dead(t, m)'
    BY <1>0, <1>m, <1>4, <1>5, <1>6, <1>l, <1>7, <1>8, <1>9 DEF BlockOK, Dead, SameHands
  <2>2. Slotted(t, m)'
    BY <1>0, <1>m, <1>4, <1>5, <1>6, <1>l, <1>7, <1>8, <1>9 DEF BlockOK, Slotted, SameHands
  <2>3. GivenBack(t, m)'
    BY <1>0, <1>m, <1>4, <1>5, <1>6, <1>l, <1>7, <1>8, <1>9 DEF BlockOK, GivenBack, SameHands
  <2>4. OutOfList(t, m)'
    BY <1>0, <1>m, <1>4, <1>5, <1>6, <1>l, <1>7, <1>8, <1>9 DEF BlockOK, OutOfList, SameHands
  <2>5. OneEvictor(t, m)'
    BY <1>0, <1>m, <1>4, <1>5, <1>6, <1>l, <1>7, <1>8, <1>9 DEF BlockOK, OneEvictor,
      SameHands
  <2>6. Listed(t, m)'
    BY <1>0, <1>m, <1>4, <1>5, <1>6, <1>l, <1>7, <1>8, <1>9 DEF BlockOK, Listed, SameHands
  <2>7. Placed(t, m)'
    BY <1>0, <1>m, <1>4, <1>5, <1>6, <1>l, <1>7, <1>8, <1>9 DEF BlockOK, Placed, SameHands
  <2>8. LeavesSlot(t, m)'
    BY <1>0, <1>m, <1>4, <1>5, <1>6, <1>l, <1>7, <1>8, <1>9, <1>3 DEF BlockOK, LeavesSlot,
      SameHands, old
  <2> QED
    BY <2>1, <2>2, <2>3, <2>4, <2>5, <2>6, <2>7, <2>8 DEF BlockOK
<1>11. Mine1(t)'
  <2> HIDE DEF r
  <2> QED
    BY <1>0, <1>2, <1>3, <1>b, <1>m, <1>4, <1>5, <1>6, <1>7, <1>8, <1>9 DEF Mine1, Making,
      Put, Flusher, SameHands, Requests, Freeing, Scanning, Flushing, Stuck
<1>12. \A b \in Ids \ {m} : SameRole(t, b)
  BY <1>1, <1>2, <1>3, <1>m, <1>b DEF SameRole, Own, Owned, Makes, Making, Works, Ids,
    NoBlock, LocalOK, KindOf, MineOf, HandOf, CountOf, Requests, Flushing, Scanning, Freeing,
    Stuck
<1>13. /\ \A d \in Datasets \ {t} : UNCHANGED <<block[d], slot[d], freeList[d]>>
       /\ \A b \in Ids \ {m} :
            /\ block'[t][b] = block[t][b] /\ (b \in freeList'[t] <=> b \in freeList[t])
            /\ \A i \in Positions : slot'[t][i] = b <=> slot[t][i] = b
  BY <1>0, <1>m, <1>4, <1>7, <1>8, <1>9
<1> HIDE DEF r
<1> QED
  BY <1>r, <1>5, <1>10, <1>11, <1>12, <1>13, OwnStep

LEMMA FlushBlocksPlaces ==
  ASSUME Typed, Control, Places, NEW t \in Datasets, FlushBlocks(t)
  PROVE  Places' /\ SameHands
<1> DEFINE old == thread[t]
<1>1. old \in Threads /\ LocalOK(t, old)
  BY LocalNow
<1> DEFINE R(j) == Locals(IF j \in Positions THEN "take" ELSE "wait", old.kind, j, NoBlock, old.victim, <<>>,
       old.counted, old.again, flushErr[t], old.ops)
<1>2. PICK j : old.pc = "flushing" /\ NextSlot(t, 1, j) /\ Becomes(t, R(j))
  BY FlushBlocksStep
<1> DEFINE r == R(j)
<1>r. Becomes(t, r)
  BY <1>2
<1>3. thread'[t].pc = (IF j \in Positions THEN "take" ELSE "wait") /\ 
      thread'[t].kind = old.kind /\  thread'[t].pos = j /\  thread'[t].mine = NoBlock /\ 
      thread'[t].victim = old.victim /\  thread'[t].togo = <<>> /\ 
      thread'[t].counted = old.counted /\  thread'[t].again = old.again /\ 
      thread'[t].err = flushErr[t] /\  thread'[t].ops = old.ops
  <2>1. thread'[t] = r
    <3> HIDE DEF r
    <3> QED
      BY <1>r, Others
  <2> QED
    BY <2>1 DEF Locals
<1>4. /\ \A b \in Ids : block'[t][b] = IF b \in freeList[t] THEN Deleted ELSE block[t][b]
      /\ freeList'[t] = {} /\ slot' = slot
      /\ \A d \in Datasets \ {t} : block'[d] = block[d] /\ freeList'[d] = freeList[d]
  BY DEF Typed, Dangling, FlushBlocks, cache
<1>5. SameHands
  <2>1. /\ r.togo = <<>> /\ r.victim = old.victim
        /\ r.kind = old.kind /\ r.pc = (IF j \in Positions THEN "take" ELSE "wait")
    BY DEF Locals
  <2> HIDE DEF r
  <2>2. old.kind \in Flushing \/ (old.togo = <<>> /\ old.victim = NoVictim)
    BY <1>1, <1>2 DEF LocalOK, KindOf, MineOf, HandOf, CountOf, Requests, Flushing, Scanning,
      Freeing, Stuck
  <2>3. r.kind \in Flushing \/ (r.togo = <<>> /\ r.victim = NoVictim)
    BY <1>1, <1>2, <2>1 DEF LocalOK, KindOf, MineOf, HandOf, CountOf, Requests, Flushing,
      Scanning, Freeing, Stuck
  <2> QED
    BY <1>1, <1>2, <1>r, <2>1, <2>2, <2>3, HandsEmpty DEF Flushing, Requests
<1>6. \A b \in Ids : SameRole(t, b)
  BY <1>1, <1>2, <1>3 DEF SameRole, Own, Owned, Makes, Making, Works, Ids, NoBlock, LocalOK,
    KindOf, MineOf, HandOf, CountOf, Requests, Flushing, Scanning, Freeing, Stuck
<1>7. Mine1(t)'
  <2> HIDE DEF r
  <2> QED
    BY <1>1, <1>2, <1>3 DEF Mine1, Making, Put, Flusher, LocalOK, KindOf, MineOf, HandOf,
      CountOf, Requests, Flushing, Scanning, Freeing, Stuck
<1>8. /\ NoBlock \notin Ids
      /\ \A d \in Datasets \ {t} : UNCHANGED <<block[d], slot[d], freeList[d]>>
      /\ \A b \in Ids \ {NoBlock} :
           /\ SameRole(t, b)
           /\ block'[t][b] = IF b \in freeList[t] THEN Deleted ELSE block[t][b]
           /\ \A i \in Positions : slot'[t][i] = b <=> slot[t][i] = b
  BY <1>4, <1>6 DEF Ids, NoBlock
<1> HIDE DEF r
<1> QED
  BY <1>r, <1>4, <1>5, <1>7, <1>8, RowStep

LEMMA DestroyedPlaces ==
  ASSUME Typed, Control, Places, NEW t \in Datasets, Flushed(t), thread[t].kind = "destroy"
  PROVE  Places' /\ SameHands
<1> DEFINE old == thread[t]
<1>1. old \in Threads /\ LocalOK(t, old)
  BY LocalNow
<1> DEFINE r == Locals("closed", "destroy", 0, NoBlock, NoVictim, <<>>, FALSE, FALSE, FALSE, 0)
<1>2. old.pc = "wait" /\ (old.kind = "destroy") /\ Becomes(t, r)
  BY DestroyedStep
<1>r. Becomes(t, r)
  BY <1>2
<1>3. thread'[t].pc = "closed" /\  thread'[t].kind = "destroy" /\  thread'[t].pos = 0 /\ 
      thread'[t].mine = NoBlock /\  thread'[t].victim = NoVictim /\  thread'[t].togo = <<>>
      /\  thread'[t].counted = FALSE /\  thread'[t].again = FALSE /\  thread'[t].err = FALSE
      /\  thread'[t].ops = 0
  <2>1. thread'[t] = r
    <3> HIDE DEF r
    <3> QED
      BY <1>r, Others
  <2> QED
    BY <2>1 DEF Locals
<1>4. /\ \A b \in Ids : block'[t][b] = IF b \in freeList[t] THEN Deleted ELSE block[t][b]
      /\ freeList'[t] = {} /\ slot' = slot
      /\ \A d \in Datasets \ {t} : block'[d] = block[d] /\ freeList'[d] = freeList[d]
  BY DEF Typed, Dangling, Flushed, cache
<1>5. SameHands
  <2>1. /\ r.togo = <<>> /\ r.victim = NoVictim
        /\ r.kind = "destroy" /\ r.pc = "closed"
    BY DEF Locals
  <2> HIDE DEF r
  <2>2. old.kind \in Flushing \/ (old.togo = <<>> /\ old.victim = NoVictim)
    BY <1>1, <1>2 DEF LocalOK, KindOf, MineOf, HandOf, CountOf, Requests, Flushing, Scanning,
      Freeing, Stuck
  <2>3. r.kind \in Flushing \/ (r.togo = <<>> /\ r.victim = NoVictim)
    BY <1>1, <1>2, <2>1 DEF LocalOK, KindOf, MineOf, HandOf, CountOf, Requests, Flushing,
      Scanning, Freeing, Stuck
  <2> QED
    BY <1>1, <1>2, <1>r, <2>1, <2>2, <2>3, HandsEmpty DEF Flushing, Requests
<1>6. \A b \in Ids : SameRole(t, b)
  BY <1>1, <1>2, <1>3 DEF SameRole, Own, Owned, Makes, Making, Works, Ids, NoBlock, LocalOK,
    KindOf, MineOf, HandOf, CountOf, Requests, Flushing, Scanning, Freeing, Stuck
<1>7. Mine1(t)'
  <2> HIDE DEF r
  <2> QED
    BY <1>1, <1>2, <1>3 DEF Mine1, Making, Put, Flusher, LocalOK, KindOf, MineOf, HandOf,
      CountOf, Requests, Flushing, Scanning, Freeing, Stuck
<1>8. /\ NoBlock \notin Ids
      /\ \A d \in Datasets \ {t} : UNCHANGED <<block[d], slot[d], freeList[d]>>
      /\ \A b \in Ids \ {NoBlock} :
           /\ SameRole(t, b)
           /\ block'[t][b] = IF b \in freeList[t] THEN Deleted ELSE block[t][b]
           /\ \A i \in Positions : slot'[t][i] = b <=> slot[t][i] = b
  BY <1>4, <1>6 DEF Ids, NoBlock
<1> HIDE DEF r
<1> QED
  BY <1>r, <1>4, <1>5, <1>7, <1>8, RowStep

LEMMA CreatePlaces ==
  ASSUME Typed, Control, Places, NEW t \in Datasets, CreateBlock(t)
  PROVE  Places' /\ SameHands
<1> DEFINE old == thread[t]
<1>1. old \in Threads /\ LocalOK(t, old)
  BY LocalNow
<1>b. PICK m : m = Least(Available(t))
  OBVIOUS
<1> DEFINE r == Locals("internalize", old.kind, old.pos, Least(Available(t)), old.victim, old.togo,
       old.counted, old.again, old.err, old.ops)
<1>2. /\ old.pc = "create" \/ (old.pc = "lookup" /\ slot[t][old.pos] = NoBlock)
      /\ Least(Available(t)) \in Available(t) /\ Least(Available(t)) \in Ids
      /\ Becomes(t, r)
  BY CreateStep
<1>r. Becomes(t, r)
  BY <1>2
<1>3. thread'[t].pc = "internalize" /\  thread'[t].kind = old.kind /\ 
      thread'[t].pos = old.pos /\  thread'[t].mine = Least(Available(t)) /\ 
      thread'[t].victim = old.victim /\  thread'[t].togo = old.togo /\ 
      thread'[t].counted = old.counted /\  thread'[t].again = old.again /\ 
      thread'[t].err = old.err /\  thread'[t].ops = old.ops
  <2>1. thread'[t] = r
    <3> HIDE DEF r
    <3> QED
      BY <1>r, Others
  <2> QED
    BY <2>1 DEF Locals
<1>m. m \in Ids /\ m # NoBlock
  BY <1>2, <1>b DEF Ids, NoBlock
<1>4. /\ \A b \in Ids \ {m} : block'[t][b] = block[t][b]
      /\ \A d \in Datasets \ {t} : block'[d] = block[d]
      /\ block'[t][m].pos = old.pos /\  block'[t][m].lock = 1 /\  block'[t][m].dirty = FALSE
         /\  block'[t][m].data = FALSE /\  block'[t][m].listed = FALSE /\ 
         block'[t][m].live = TRUE
  <2> DEFINE e == [Fresh(thread[t].pos) EXCEPT !.lock = 1]
  <2>1. block' = [block EXCEPT ![t][m] = e]
    BY <1>b DEF CreateBlock
  <2>2. /\ block'[t][m] = e /\ block[t][m] \in Entries
        /\ \A b \in Ids \ {m} : block'[t][b] = block[t][b]
        /\ \A d \in Datasets \ {t} : block'[d] = block[d]
    <3> HIDE DEF e
    <3> QED
      BY <1>m, <2>1, EditBlock
  <2> QED
    BY <1>b, <2>2 DEF Mine, Entries, Deleted, Fresh
<1>5. SameHands
  <2>1. r.togo = old.togo /\ r.victim = old.victim /\ r.kind = old.kind /\ r.pc = "internalize"
    BY DEF Locals
  <2> HIDE DEF r
  <2> QED
    BY <1>1, <1>2, <1>r, <2>1, HandsKept DEF LocalOK, KindOf, MineOf, HandOf, CountOf,
      Requests, Flushing, Scanning, Freeing, Stuck
<1>6. /\ Own(t, m) <=> FALSE
      /\ Own(t, m)' <=> TRUE
      /\ Makes(t, m) <=> FALSE
      /\ Makes(t, m)' <=> TRUE
      /\ Works(t, m, {"use", "fill"}) <=> FALSE
      /\ Works(t, m, {"use", "fill"})' <=> FALSE
      /\ Works(t, m, {"remove"}) <=> FALSE
      /\ Works(t, m, {"remove"})' <=> FALSE
      /\ Works(t, m, {"droplock"}) <=> FALSE
      /\ Works(t, m, {"droplock"})' <=> FALSE
      /\ Works(t, m, {"unlock"}) <=> FALSE
      /\ Works(t, m, {"unlock"})' <=> FALSE
      /\ Works(t, m, Stuck) <=> FALSE
      /\ Works(t, m, Stuck)' <=> FALSE
  BY <1>1, <1>2, <1>3, <1>m, <1>b DEF Own, Owned, Makes, Making, Works, Ids, NoBlock,
    LocalOK, KindOf, MineOf, HandOf, CountOf, Requests, Flushing, Scanning, Freeing, Stuck
<1>l. LockOf(t, m) = -1 /\ LockOf(t, m)' = -1
  BY <1>6 DEF LockOf
<1>7. slot' = slot /\ \A b : InSlot(t, b)' <=> InSlot(t, b)
  BY DEF InSlot, CreateBlock, cache
<1>8. /\ freeList'[t] = freeList[t] \ {m} /\ \A d \in Datasets \ {t} : freeList'[d] = freeList[d]
  BY <1>b DEF CreateBlock, Typed
<1>9. BlockOK(t, m) /\ Mine1(t) /\ \A b : Leaving(t, b) => Evicted(t, b)
  BY <1>m, LeavingHeld DEF Places
<1>0. /\ old.kind \in Requests /\ old.pos \in Positions
      /\ ~Evicted(t, m) /\ ~InSlot(t, m) /\ \A i \in Positions : slot[t][i] # m
      /\ slot[t][old.pos] = NoBlock \/ Leaving(t, slot[t][old.pos])
  <2>1. /\ old.kind \in Requests /\ old.pos \in Positions
        /\ slot[t][old.pos] = NoBlock \/ Leaving(t, slot[t][old.pos])
    BY <1>1, <1>2, <1>9 DEF Mine1, LocalOK, KindOf, MineOf, HandOf, CountOf, Requests,
      Flushing, Scanning, Freeing, Stuck
  <2>2. m \in freeList[t] \/ ~block[t][m].live
    BY <1>2, <1>b DEF Available
  <2> HIDE DEF old, r
  <2> QED
    BY <1>9, <2>1, <2>2 DEF BlockOK, Dead, GivenBack, Slotted, InSlot
<1>10. BlockOK(t, m)'
  <2> HIDE DEF old, r
  <2>1. Dead(t, m)'
    BY <1>0, <1>m, <1>4, <1>5, <1>6, <1>l, <1>7, <1>8, <1>9 DEF BlockOK, Dead, SameHands
  <2>2. Slotted(t, m)'
    BY <1>0, <1>m, <1>4, <1>5, <1>6, <1>l, <1>7, <1>8, <1>9 DEF BlockOK, Slotted, SameHands
  <2>3. GivenBack(t, m)'
    BY <1>0, <1>m, <1>4, <1>5, <1>6, <1>l, <1>7, <1>8, <1>9 DEF BlockOK, GivenBack, SameHands
  <2>4. OutOfList(t, m)'
    BY <1>0, <1>m, <1>4, <1>5, <1>6, <1>l, <1>7, <1>8, <1>9 DEF BlockOK, OutOfList, SameHands
  <2>5. OneEvictor(t, m)'
    BY <1>0, <1>m, <1>4, <1>5, <1>6, <1>l, <1>7, <1>8, <1>9 DEF BlockOK, OneEvictor,
      SameHands
  <2>6. Listed(t, m)'
    BY <1>0, <1>m, <1>4, <1>5, <1>6, <1>l, <1>7, <1>8, <1>9 DEF BlockOK, Listed, SameHands
  <2>7. Placed(t, m)'
    BY <1>0, <1>m, <1>4, <1>5, <1>6, <1>l, <1>7, <1>8, <1>9 DEF BlockOK, Placed, SameHands
  <2>8. LeavesSlot(t, m)'
    BY <1>0, <1>m, <1>4, <1>5, <1>6, <1>l, <1>7, <1>8, <1>9, <1>3 DEF BlockOK, LeavesSlot,
      SameHands, old
  <2> QED
    BY <2>1, <2>2, <2>3, <2>4, <2>5, <2>6, <2>7, <2>8 DEF BlockOK
<1>11. Mine1(t)'
  <2> HIDE DEF r
  <2> QED
    BY <1>0, <1>2, <1>3, <1>b, <1>m, <1>4, <1>5, <1>6, <1>7, <1>8, <1>9 DEF Mine1, Making,
      Put, Flusher, SameHands, Requests, Freeing, Scanning, Flushing, Stuck
<1>12. \A b \in Ids \ {m} : SameRole(t, b)
  BY <1>1, <1>2, <1>3, <1>m, <1>b DEF SameRole, Own, Owned, Makes, Making, Works, Ids,
    NoBlock, LocalOK, KindOf, MineOf, HandOf, CountOf, Requests, Flushing, Scanning, Freeing,
    Stuck
<1>13. /\ \A d \in Datasets \ {t} : UNCHANGED <<block[d], slot[d], freeList[d]>>
       /\ \A b \in Ids \ {m} :
            /\ block'[t][b] = block[t][b] /\ (b \in freeList'[t] <=> b \in freeList[t])
            /\ \A i \in Positions : slot'[t][i] = b <=> slot[t][i] = b
  BY <1>0, <1>m, <1>4, <1>7, <1>8, <1>9
<1> HIDE DEF r
<1> QED
  BY <1>r, <1>5, <1>10, <1>11, <1>12, <1>13, OwnStep

LEMMA AdoptPlaces ==
  ASSUME Typed, Control, Places, NEW t \in Datasets, Adopt(t)
  PROVE  Places' /\ SameHands
<1> DEFINE old == thread[t]
<1>1. old \in Threads /\ LocalOK(t, old)
  BY LocalNow
<1>b. PICK m : m = old.mine
  OBVIOUS
<1> DEFINE r == Locals("fill", old.kind, old.pos, old.mine, old.victim, old.togo, old.counted, old.again,
       old.err, old.ops)
<1>2. old.pc = "reacquire" /\ Becomes(t, r)
  BY AdoptStep
<1>r. Becomes(t, r)
  BY <1>2
<1>3. thread'[t].pc = "fill" /\  thread'[t].kind = old.kind /\  thread'[t].pos = old.pos /\ 
      thread'[t].mine = old.mine /\  thread'[t].victim = old.victim /\ 
      thread'[t].togo = old.togo /\  thread'[t].counted = old.counted /\ 
      thread'[t].again = old.again /\  thread'[t].err = old.err /\  thread'[t].ops = old.ops
  <2>1. thread'[t] = r
    <3> HIDE DEF r
    <3> QED
      BY <1>r, Others
  <2> QED
    BY <2>1 DEF Locals
<1>m. m \in Ids /\ m # NoBlock
  BY <1>1, <1>2, <1>b DEF Ids, NoBlock, LocalOK, KindOf, MineOf, HandOf, CountOf, Requests,
    Flushing, Scanning, Freeing, Stuck
<1>4. /\ block'[t][m] = block[t][m] /\ m \notin freeList[t] /\ freeList'[t] = {}
      /\ \A b \in Ids \ {m} : block'[t][b] = IF b \in freeList[t] THEN Deleted ELSE block[t][b]
      /\ \A d \in Datasets \ {t} : block'[d] = block[d] /\ freeList'[d] = freeList[d]
  <2>1. m \notin freeList[t]
    <3>1. BlockOK(t, m) /\ Own(t, m)
      BY <1>1, <1>2, <1>m, <1>b DEF Places, Own, Owned, LocalOK, KindOf, MineOf, HandOf,
        CountOf, Requests, Flushing, Scanning, Freeing, Stuck
    <3> QED
      BY <3>1 DEF BlockOK, GivenBack
  <2> QED
    BY <1>m, <2>1 DEF Adopt, Typed, Dangling
<1>5. SameHands
  <2>1. r.togo = old.togo /\ r.victim = old.victim /\ r.kind = old.kind /\ r.pc = "fill"
    BY DEF Locals
  <2> HIDE DEF r
  <2> QED
    BY <1>1, <1>2, <1>r, <2>1, HandsKept DEF LocalOK, KindOf, MineOf, HandOf, CountOf,
      Requests, Flushing, Scanning, Freeing, Stuck
<1>6. /\ Own(t, m) <=> TRUE
      /\ Own(t, m)' <=> FALSE
      /\ Makes(t, m) <=> TRUE
      /\ Makes(t, m)' <=> FALSE
      /\ Works(t, m, {"use", "fill"}) <=> FALSE
      /\ Works(t, m, {"use", "fill"})' <=> TRUE
      /\ Works(t, m, {"remove"}) <=> FALSE
      /\ Works(t, m, {"remove"})' <=> FALSE
      /\ Works(t, m, {"droplock"}) <=> FALSE
      /\ Works(t, m, {"droplock"})' <=> FALSE
      /\ Works(t, m, {"unlock"}) <=> FALSE
      /\ Works(t, m, {"unlock"})' <=> FALSE
      /\ Works(t, m, Stuck) <=> FALSE
      /\ Works(t, m, Stuck)' <=> FALSE
  BY <1>1, <1>2, <1>3, <1>m, <1>b DEF Own, Owned, Makes, Making, Works, Ids, NoBlock,
    LocalOK, KindOf, MineOf, HandOf, CountOf, Requests, Flushing, Scanning, Freeing, Stuck
<1>l. LockOf(t, m) = -1 /\ LockOf(t, m)' = -1
  BY <1>6 DEF LockOf
<1>7. /\ old.pos \in Positions /\ slot'[t][old.pos] = m
      /\ \A i \in Positions \ {old.pos} : slot'[t][i] = slot[t][i]
      /\ \A d \in Datasets \ {t} : slot'[d] = slot[d]
  BY <1>1, <1>2, <1>b DEF Adopt, Typed, LocalOK, KindOf, MineOf, HandOf, CountOf, Requests,
    Flushing, Scanning, Freeing, Stuck
<1>8. freeList'[t] = {}
  BY <1>4
<1>9. BlockOK(t, m) /\ Mine1(t) /\ \A b : Leaving(t, b) => Evicted(t, b)
  BY <1>m, LeavingHeld DEF Places
<1>0. /\ old.kind \in Requests /\ block[t][m].live /\ block[t][m].lock = 1 /\ block[t][m].pos = old.pos /\ ~block[t][m].dirty /\ block[t][m].data
      /\ slot[t][old.pos] = NoBlock /\ block[t][m].listed /\ InSlot(t, m)'
      /\ ~Evicted(t, m) /\ m \notin freeList[t] /\ ~InSlot(t, m)
  <2>1. /\ old.kind \in Requests /\ block[t][m].live /\ block[t][m].lock = 1 /\ block[t][m].pos = old.pos /\ ~block[t][m].dirty /\ block[t][m].data
           /\ slot[t][old.pos] = NoBlock /\ block[t][m].listed
    BY <1>1, <1>2, <1>b, <1>9 DEF Mine1, Making, Put, Flusher, LocalOK, KindOf, MineOf,
      HandOf, CountOf, Requests, Flushing, Scanning, Freeing, Stuck
  <2> HIDE DEF old, r
  <2> QED
    BY <1>m, <1>5, <1>6, <1>7, <1>l, <1>9, <2>1 DEF InSlot, BlockOK, Dead, Slotted, GivenBack, OutOfList,
      Listed, Placed
<1>10. BlockOK(t, m)'
  <2> HIDE DEF old, r
  <2>1. Dead(t, m)'
    BY <1>0, <1>4, <1>5, <1>6, <1>l, <1>7, <1>8, <1>9 DEF BlockOK, Dead, SameHands
  <2>2. Slotted(t, m)'
    BY <1>0, <1>4, <1>5, <1>6, <1>l, <1>7, <1>8, <1>9 DEF BlockOK, Slotted, SameHands
  <2>3. GivenBack(t, m)'
    BY <1>0, <1>4, <1>5, <1>6, <1>l, <1>7, <1>8, <1>9 DEF BlockOK, GivenBack, SameHands
  <2>4. OutOfList(t, m)'
    BY <1>0, <1>4, <1>5, <1>6, <1>l, <1>7, <1>8, <1>9 DEF BlockOK, OutOfList, SameHands
  <2>5. OneEvictor(t, m)'
    BY <1>0, <1>4, <1>5, <1>6, <1>l, <1>7, <1>8, <1>9 DEF BlockOK, OneEvictor, SameHands
  <2>6. Listed(t, m)'
    BY <1>0, <1>4, <1>5, <1>6, <1>l, <1>7, <1>8, <1>9 DEF BlockOK, Listed, SameHands
  <2>7. Placed(t, m)'
    BY <1>0, <1>4, <1>5, <1>6, <1>l, <1>7, <1>8, <1>9 DEF BlockOK, Placed, SameHands
  <2>8. LeavesSlot(t, m)'
    BY <1>0, <1>4, <1>5, <1>6, <1>l, <1>7, <1>8, <1>9, <1>3 DEF BlockOK, LeavesSlot,
      SameHands, old
  <2> QED
    BY <2>1, <2>2, <2>3, <2>4, <2>5, <2>6, <2>7, <2>8 DEF BlockOK
<1>11. Mine1(t)'
  <2> HIDE DEF r
  <2> QED
    BY <1>0, <1>2, <1>3, <1>b, <1>4, <1>5, <1>6, <1>7, <1>8, <1>9 DEF Mine1, Making, Put,
      Flusher, SameHands, Requests, Freeing, Scanning, Flushing, Stuck
<1>12. \A b \in Ids \ {m} : SameRole(t, b)
  BY <1>1, <1>2, <1>3, <1>m, <1>b DEF SameRole, Own, Owned, Makes, Making, Works, Ids,
    NoBlock, LocalOK, KindOf, MineOf, HandOf, CountOf, Requests, Flushing, Scanning, Freeing,
    Stuck
<1>13. /\ \A d \in Datasets \ {t} : UNCHANGED <<block[d], slot[d], freeList[d]>>
       /\ \A b \in Ids \ {m} : \A i \in Positions : slot'[t][i] = b <=> slot[t][i] = b
  BY <1>0, <1>m, <1>4, <1>7 DEF Ids, NoBlock
<1> HIDE DEF r
<1> QED
  BY <1>r, <1>5, <1>10, <1>11, <1>12, <1>13, <1>4, RowStep

LEMMA TakePlaces ==
  ASSUME Typed, Control, Places, NEW t \in Datasets, Take(t), slot[t][thread[t].pos] #
    NoBlock
  PROVE  Places' /\ SameHands
<1> DEFINE old == thread[t]
<1>1. old \in Threads /\ LocalOK(t, old)
  BY LocalNow
<1>b. PICK m : m = slot[t][old.pos]
  OBVIOUS
<1> DEFINE r == Locals("droplock", old.kind, old.pos, slot[t][old.pos], old.victim, old.togo, old.counted,
       old.again, old.err, old.ops)
<1>2. old.pc = "take" /\ slot[t][old.pos] # NoBlock /\ (slot[t][old.pos] # NoBlock) /\ Becomes(t, r)
  BY TakeStep
<1>r. Becomes(t, r)
  BY <1>2
<1>3. thread'[t].pc = "droplock" /\  thread'[t].kind = old.kind /\  thread'[t].pos = old.pos
      /\  thread'[t].mine = slot[t][old.pos] /\  thread'[t].victim = old.victim /\ 
      thread'[t].togo = old.togo /\  thread'[t].counted = old.counted /\ 
      thread'[t].again = old.again /\  thread'[t].err = old.err /\  thread'[t].ops = old.ops
  <2>1. thread'[t] = r
    <3> HIDE DEF r
    <3> QED
      BY <1>r, Others
  <2> QED
    BY <2>1 DEF Locals
<1>m. m \in Ids /\ m # NoBlock
  BY <1>1, <1>2, <1>b DEF Typed, LocalOK, KindOf, MineOf, HandOf, CountOf, Requests,
    Flushing, Scanning, Freeing, Stuck
<1>4. UNCHANGED block
  BY DEF Take, cache
<1>5. SameHands
  <2>1. r.togo = old.togo /\ r.victim = old.victim /\ r.kind = old.kind /\ r.pc = "droplock"
    BY DEF Locals
  <2> HIDE DEF r
  <2> QED
    BY <1>1, <1>2, <1>r, <2>1, HandsKept DEF LocalOK, KindOf, MineOf, HandOf, CountOf,
      Requests, Flushing, Scanning, Freeing, Stuck
<1>6. /\ Own(t, m) <=> FALSE
      /\ Own(t, m)' <=> FALSE
      /\ Makes(t, m) <=> FALSE
      /\ Makes(t, m)' <=> FALSE
      /\ Works(t, m, {"use", "fill"}) <=> FALSE
      /\ Works(t, m, {"use", "fill"})' <=> FALSE
      /\ Works(t, m, {"remove"}) <=> FALSE
      /\ Works(t, m, {"remove"})' <=> FALSE
      /\ Works(t, m, {"droplock"}) <=> FALSE
      /\ Works(t, m, {"droplock"})' <=> TRUE
      /\ Works(t, m, {"unlock"}) <=> FALSE
      /\ Works(t, m, {"unlock"})' <=> FALSE
      /\ Works(t, m, Stuck) <=> FALSE
      /\ Works(t, m, Stuck)' <=> TRUE
  BY <1>1, <1>2, <1>3, <1>m, <1>b DEF Own, Owned, Makes, Making, Works, Ids, NoBlock,
    LocalOK, KindOf, MineOf, HandOf, CountOf, Requests, Flushing, Scanning, Freeing, Stuck
<1>l. LockOf(t, m) = -1 /\ LockOf(t, m)' = -1
  BY <1>6 DEF LockOf
<1>7. /\ old.pos \in Positions /\ slot'[t][old.pos] = NoBlock
      /\ \A i \in Positions \ {old.pos} : slot'[t][i] = slot[t][i]
      /\ \A d \in Datasets \ {t} : slot'[d] = slot[d]
  BY <1>1, <1>2, <1>b DEF Take, Typed, LocalOK, KindOf, MineOf, HandOf, CountOf, Requests,
    Flushing, Scanning, Freeing, Stuck
<1>8. freeList' = freeList
  BY DEF Take, band
<1>9. BlockOK(t, m) /\ Mine1(t) /\ \A b : Leaving(t, b) => Evicted(t, b)
  BY <1>m, LeavingHeld DEF Places
<1>0. /\ block[t][m].live /\ block[t][m].pos = old.pos /\ block[t][m].data /\ m \notin freeList[t] /\ slot[t][old.pos] = m
      /\ old.kind \in Requests => ~block[t][m].dirty
      /\ (Evicted(t, m) => Leaving(t, m)) /\ (~Evicted(t, m) => block[t][m].listed) /\ ~InSlot(t, m)'
  <2>1. old.pos \in Positions /\ slot[t][old.pos] = m /\ (old.kind \in Requests => ~block[t][m].dirty)
    BY <1>1, <1>2, <1>b, <1>9 DEF Mine1, Making, Put, Flusher, LocalOK, KindOf, MineOf,
      HandOf, CountOf, Requests, Flushing, Scanning, Freeing, Stuck
  <2> HIDE DEF old, r
  <2> QED
    BY <1>m, <1>5, <1>6, <1>7, <1>l, <1>9, <2>1 DEF InSlot, BlockOK, Dead, Slotted, GivenBack, OutOfList,
      Listed, Placed
<1>10. BlockOK(t, m)'
  <2> HIDE DEF old, r
  <2>1. Dead(t, m)'
    BY <1>0, <1>4, <1>5, <1>6, <1>l, <1>7, <1>8, <1>9 DEF BlockOK, Dead, SameHands
  <2>2. Slotted(t, m)'
    BY <1>0, <1>4, <1>5, <1>6, <1>l, <1>7, <1>8, <1>9 DEF BlockOK, Slotted, SameHands
  <2>3. GivenBack(t, m)'
    BY <1>0, <1>4, <1>5, <1>6, <1>l, <1>7, <1>8, <1>9 DEF BlockOK, GivenBack, SameHands
  <2>4. OutOfList(t, m)'
    BY <1>0, <1>4, <1>5, <1>6, <1>l, <1>7, <1>8, <1>9 DEF BlockOK, OutOfList, SameHands
  <2>5. OneEvictor(t, m)'
    BY <1>0, <1>4, <1>5, <1>6, <1>l, <1>7, <1>8, <1>9 DEF BlockOK, OneEvictor, SameHands
  <2>6. Listed(t, m)'
    BY <1>0, <1>4, <1>5, <1>6, <1>l, <1>7, <1>8, <1>9 DEF BlockOK, Listed, SameHands
  <2>7. Placed(t, m)'
    BY <1>0, <1>4, <1>5, <1>6, <1>l, <1>7, <1>8, <1>9 DEF BlockOK, Placed, SameHands
  <2>8. LeavesSlot(t, m)'
    BY <1>0, <1>4, <1>5, <1>6, <1>l, <1>7, <1>8, <1>9, <1>3 DEF BlockOK, LeavesSlot,
      SameHands, old
  <2> QED
    BY <2>1, <2>2, <2>3, <2>4, <2>5, <2>6, <2>7, <2>8 DEF BlockOK
<1>11. Mine1(t)'
  <2> HIDE DEF r
  <2> QED
    BY <1>0, <1>2, <1>3, <1>b, <1>4, <1>5, <1>6, <1>7, <1>8, <1>9 DEF Mine1, Making, Put,
      Flusher, SameHands, Requests, Freeing, Scanning, Flushing, Stuck
<1>12. \A b \in Ids \ {m} : SameRole(t, b)
  BY <1>1, <1>2, <1>3, <1>m, <1>b DEF SameRole, Own, Owned, Makes, Making, Works, Ids,
    NoBlock, LocalOK, KindOf, MineOf, HandOf, CountOf, Requests, Flushing, Scanning, Freeing,
    Stuck
<1>13. /\ \A d \in Datasets \ {t} : UNCHANGED <<block[d], slot[d], freeList[d]>>
       /\ \A b \in Ids \ {m} :
            /\ block'[t][b] = block[t][b] /\ (b \in freeList'[t] <=> b \in freeList[t])
            /\ \A i \in Positions : slot'[t][i] = b <=> slot[t][i] = b
  BY <1>0, <1>m, <1>4, <1>7, <1>8 DEF Ids, NoBlock
<1> HIDE DEF r
<1> QED
  BY <1>r, <1>5, <1>10, <1>11, <1>12, <1>13, OwnStep

LEMMA DropLockPlaces ==
  ASSUME Typed, Control, Places, NEW t \in Datasets, DropLockForRemoval(t), Mine(t).lock = 0
  PROVE  Places' /\ SameHands
<1> DEFINE old == thread[t]
<1>1. old \in Threads /\ LocalOK(t, old)
  BY LocalNow
<1>b. PICK m : m = old.mine
  OBVIOUS
<1> DEFINE r == Locals("remove", old.kind, old.pos, old.mine, old.victim, old.togo, old.counted, old.again,
       old.err, old.ops)
<1>2. old.pc = "droplock" /\ Becomes(t, r)
  BY DropLockStep
<1>r. Becomes(t, r)
  BY <1>2
<1>3. thread'[t].pc = "remove" /\  thread'[t].kind = old.kind /\  thread'[t].pos = old.pos /\ 
      thread'[t].mine = old.mine /\  thread'[t].victim = old.victim /\ 
      thread'[t].togo = old.togo /\  thread'[t].counted = old.counted /\ 
      thread'[t].again = old.again /\  thread'[t].err = old.err /\  thread'[t].ops = old.ops
  <2>1. thread'[t] = r
    <3> HIDE DEF r
    <3> QED
      BY <1>r, Others
  <2> QED
    BY <2>1 DEF Locals
<1>m. m \in Ids /\ m # NoBlock
  BY <1>1, <1>2, <1>b DEF Ids, NoBlock, LocalOK, KindOf, MineOf, HandOf, CountOf, Requests,
    Flushing, Scanning, Freeing, Stuck
<1>4. /\ \A b \in Ids \ {m} : block'[t][b] = block[t][b]
      /\ \A d \in Datasets \ {t} : block'[d] = block[d]
      /\ block'[t][m].pos = block[t][m].pos /\  block'[t][m].lock = -1 /\ 
         block'[t][m].dirty = block[t][m].dirty /\  block'[t][m].data = block[t][m].data /\ 
         block'[t][m].listed = block[t][m].listed /\  block'[t][m].live = block[t][m].live
  <2> DEFINE e == [Mine(t) EXCEPT !.lock = -1]
  <2>1. block' = [block EXCEPT ![t][m] = e]
    BY <1>b DEF DropLockForRemoval, StillOurs, SetMine
  <2>2. /\ block'[t][m] = e /\ block[t][m] \in Entries
        /\ \A b \in Ids \ {m} : block'[t][b] = block[t][b]
        /\ \A d \in Datasets \ {t} : block'[d] = block[d]
    <3> HIDE DEF e
    <3> QED
      BY <1>m, <2>1, EditBlock
  <2> QED
    BY <1>b, <2>2 DEF Mine, Entries, Deleted
<1>5. SameHands
  <2>1. r.togo = old.togo /\ r.victim = old.victim /\ r.kind = old.kind /\ r.pc = "remove"
    BY DEF Locals
  <2> HIDE DEF r
  <2> QED
    BY <1>1, <1>2, <1>r, <2>1, HandsKept DEF LocalOK, KindOf, MineOf, HandOf, CountOf,
      Requests, Flushing, Scanning, Freeing, Stuck
<1>6. /\ Own(t, m) <=> FALSE
      /\ Own(t, m)' <=> TRUE
      /\ Makes(t, m) <=> FALSE
      /\ Makes(t, m)' <=> FALSE
      /\ Works(t, m, {"use", "fill"}) <=> FALSE
      /\ Works(t, m, {"use", "fill"})' <=> FALSE
      /\ Works(t, m, {"remove"}) <=> FALSE
      /\ Works(t, m, {"remove"})' <=> TRUE
      /\ Works(t, m, {"droplock"}) <=> TRUE
      /\ Works(t, m, {"droplock"})' <=> FALSE
      /\ Works(t, m, {"unlock"}) <=> FALSE
      /\ Works(t, m, {"unlock"})' <=> FALSE
      /\ Works(t, m, Stuck) <=> TRUE
      /\ Works(t, m, Stuck)' <=> FALSE
  BY <1>1, <1>2, <1>3, <1>m, <1>b DEF Own, Owned, Makes, Making, Works, Ids, NoBlock,
    LocalOK, KindOf, MineOf, HandOf, CountOf, Requests, Flushing, Scanning, Freeing, Stuck
<1>l. LockOf(t, m) = -1 /\ LockOf(t, m)' = -1
  BY <1>6 DEF LockOf
<1>7. slot' = slot /\ \A b : InSlot(t, b)' <=> InSlot(t, b)
  BY DEF InSlot, DropLockForRemoval, StillOurs, SetMine, cache
<1>8. freeList' = freeList
  BY DEF DropLockForRemoval, StillOurs, SetMine, band
<1>9. BlockOK(t, m) /\ Mine1(t) /\ \A b : Leaving(t, b) => Evicted(t, b)
  BY <1>m, LeavingHeld DEF Places
<1>0. /\ ~(Evicted(t, m) \/ m \in freeList[t]) /\ block[t][m].live /\ block[t][m].listed /\ block[t][m].data /\ block[t][m].pos = old.pos /\ ~InSlot(t, m) /\ (\A i \in Positions : slot[t][i] # m)
      /\ old.kind \in Requests => ~block[t][m].dirty
  <2>1. /\ block[t][m].lock = 0 /\ ((Evicted(t, m) \/ m \in freeList[t]) \/ (block[t][m].live /\ block[t][m].listed /\ block[t][m].data /\ block[t][m].pos = old.pos /\ ~InSlot(t, m)))
        /\ old.kind \in Requests => ~block[t][m].dirty
    BY <1>1, <1>2, <1>b, <1>9 DEF Mine, Mine1, Making, Put, Flusher, LocalOK, KindOf, MineOf,
      HandOf, CountOf, Requests, Flushing, Scanning, Freeing, Stuck
  <2> HIDE DEF old, r
  <2> QED
    BY <1>m, <1>5, <1>6, <1>l, <1>9, <2>1 DEF InSlot, BlockOK, Dead, Slotted, GivenBack, OutOfList,
      Listed, Placed
<1>10. BlockOK(t, m)'
  <2> HIDE DEF old, r
  <2>1. Dead(t, m)'
    BY <1>0, <1>m, <1>4, <1>5, <1>6, <1>l, <1>7, <1>8, <1>9 DEF BlockOK, Dead, SameHands
  <2>2. Slotted(t, m)'
    BY <1>0, <1>m, <1>4, <1>5, <1>6, <1>l, <1>7, <1>8, <1>9 DEF BlockOK, Slotted, SameHands
  <2>3. GivenBack(t, m)'
    BY <1>0, <1>m, <1>4, <1>5, <1>6, <1>l, <1>7, <1>8, <1>9 DEF BlockOK, GivenBack, SameHands
  <2>4. OutOfList(t, m)'
    BY <1>0, <1>m, <1>4, <1>5, <1>6, <1>l, <1>7, <1>8, <1>9 DEF BlockOK, OutOfList, SameHands
  <2>5. OneEvictor(t, m)'
    BY <1>0, <1>m, <1>4, <1>5, <1>6, <1>l, <1>7, <1>8, <1>9 DEF BlockOK, OneEvictor,
      SameHands
  <2>6. Listed(t, m)'
    BY <1>0, <1>m, <1>4, <1>5, <1>6, <1>l, <1>7, <1>8, <1>9 DEF BlockOK, Listed, SameHands
  <2>7. Placed(t, m)'
    BY <1>0, <1>m, <1>4, <1>5, <1>6, <1>l, <1>7, <1>8, <1>9 DEF BlockOK, Placed, SameHands
  <2>8. LeavesSlot(t, m)'
    BY <1>0, <1>m, <1>4, <1>5, <1>6, <1>l, <1>7, <1>8, <1>9, <1>3 DEF BlockOK, LeavesSlot,
      SameHands, old
  <2> QED
    BY <2>1, <2>2, <2>3, <2>4, <2>5, <2>6, <2>7, <2>8 DEF BlockOK
<1>11. Mine1(t)'
  <2> HIDE DEF r
  <2> QED
    BY <1>0, <1>2, <1>3, <1>b, <1>m, <1>4, <1>5, <1>6, <1>7, <1>8, <1>9 DEF Mine1, Making,
      Put, Flusher, SameHands, Requests, Freeing, Scanning, Flushing, Stuck
<1>12. \A b \in Ids \ {m} : SameRole(t, b)
  BY <1>1, <1>2, <1>3, <1>m, <1>b DEF SameRole, Own, Owned, Makes, Making, Works, Ids,
    NoBlock, LocalOK, KindOf, MineOf, HandOf, CountOf, Requests, Flushing, Scanning, Freeing,
    Stuck
<1>13. /\ \A d \in Datasets \ {t} : UNCHANGED <<block[d], slot[d], freeList[d]>>
       /\ \A b \in Ids \ {m} :
            /\ block'[t][b] = block[t][b] /\ (b \in freeList'[t] <=> b \in freeList[t])
            /\ \A i \in Positions : slot'[t][i] = b <=> slot[t][i] = b
  BY <1>0, <1>m, <1>4, <1>7, <1>8, <1>9
<1> HIDE DEF r
<1> QED
  BY <1>r, <1>5, <1>10, <1>11, <1>12, <1>13, OwnStep

LEMMA DropLockEvictedPlaces ==
  ASSUME Typed, Control, Places, NEW t \in Datasets, DropLockForRemoval(t), Mine(t).lock # 0
  PROVE  Places' /\ SameHands
<1> DEFINE old == thread[t]
<1>1. old \in Threads /\ LocalOK(t, old)
  BY LocalNow
<1>b. PICK m : m = old.mine
  OBVIOUS
<1> DEFINE r == Locals("evicted", old.kind, old.pos, old.mine, old.victim, old.togo, old.counted,
       old.again, old.err, old.ops)
<1>2. old.pc = "droplock" /\ Becomes(t, r)
  BY DropLockEvictedStep
<1>r. Becomes(t, r)
  BY <1>2
<1>3. thread'[t].pc = "evicted" /\  thread'[t].kind = old.kind /\  thread'[t].pos = old.pos
      /\  thread'[t].mine = old.mine /\  thread'[t].victim = old.victim /\ 
      thread'[t].togo = old.togo /\  thread'[t].counted = old.counted /\ 
      thread'[t].again = old.again /\  thread'[t].err = old.err /\  thread'[t].ops = old.ops
  <2>1. thread'[t] = r
    <3> HIDE DEF r
    <3> QED
      BY <1>r, Others
  <2> QED
    BY <2>1 DEF Locals
<1>m. m \in Ids /\ m # NoBlock
  BY <1>1, <1>2, <1>b DEF Ids, NoBlock, LocalOK, KindOf, MineOf, HandOf, CountOf, Requests,
    Flushing, Scanning, Freeing, Stuck
<1>4. UNCHANGED block
  BY DEF DropLockForRemoval, StillOurs
<1>5. SameHands
  <2>1. r.togo = old.togo /\ r.victim = old.victim /\ r.kind = old.kind /\ r.pc = "evicted"
    BY DEF Locals
  <2> HIDE DEF r
  <2> QED
    BY <1>1, <1>2, <1>r, <2>1, HandsKept DEF LocalOK, KindOf, MineOf, HandOf, CountOf,
      Requests, Flushing, Scanning, Freeing, Stuck
<1>6. /\ Own(t, m) <=> FALSE
      /\ Own(t, m)' <=> FALSE
      /\ Makes(t, m) <=> FALSE
      /\ Makes(t, m)' <=> FALSE
      /\ Works(t, m, {"use", "fill"}) <=> FALSE
      /\ Works(t, m, {"use", "fill"})' <=> FALSE
      /\ Works(t, m, {"remove"}) <=> FALSE
      /\ Works(t, m, {"remove"})' <=> FALSE
      /\ Works(t, m, {"droplock"}) <=> TRUE
      /\ Works(t, m, {"droplock"})' <=> FALSE
      /\ Works(t, m, {"unlock"}) <=> FALSE
      /\ Works(t, m, {"unlock"})' <=> FALSE
      /\ Works(t, m, Stuck) <=> TRUE
      /\ Works(t, m, Stuck)' <=> TRUE
  BY <1>1, <1>2, <1>3, <1>m, <1>b DEF Own, Owned, Makes, Making, Works, Ids, NoBlock,
    LocalOK, KindOf, MineOf, HandOf, CountOf, Requests, Flushing, Scanning, Freeing, Stuck
<1>l. LockOf(t, m) = -1 /\ LockOf(t, m)' = -1
  BY <1>6 DEF LockOf
<1>7. slot' = slot /\ \A b : InSlot(t, b)' <=> InSlot(t, b)
  BY DEF InSlot, DropLockForRemoval, StillOurs, SetMine, cache
<1>8. freeList' = freeList
  BY DEF DropLockForRemoval, StillOurs, SetMine, band
<1>9. BlockOK(t, m) /\ Mine1(t) /\ \A b : Leaving(t, b) => Evicted(t, b)
  BY <1>m, LeavingHeld DEF Places
<1>0. (Evicted(t, m) \/ m \in freeList[t])
  <2>1. block[t][m].lock # 0 /\ ((Evicted(t, m) \/ m \in freeList[t]) \/ (block[t][m].live /\ block[t][m].listed /\ block[t][m].data /\ block[t][m].pos = old.pos /\ ~InSlot(t, m)))
    BY <1>1, <1>2, <1>b, <1>9 DEF Mine, Mine1, Making, Put, Flusher, LocalOK, KindOf, MineOf,
      HandOf, CountOf, Requests, Flushing, Scanning, Freeing, Stuck
  <2> HIDE DEF old, r
  <2> QED
    BY <1>m, <1>5, <1>6, <1>l, <1>9, <2>1 DEF InSlot, BlockOK, Dead, Slotted, GivenBack, OutOfList,
      Listed, Placed
<1>10. BlockOK(t, m)'
  <2> HIDE DEF old, r
  <2>1. Dead(t, m)'
    BY <1>0, <1>4, <1>5, <1>6, <1>l, <1>7, <1>8, <1>9 DEF BlockOK, Dead, SameHands
  <2>2. Slotted(t, m)'
    BY <1>0, <1>4, <1>5, <1>6, <1>l, <1>7, <1>8, <1>9 DEF BlockOK, Slotted, SameHands
  <2>3. GivenBack(t, m)'
    BY <1>0, <1>4, <1>5, <1>6, <1>l, <1>7, <1>8, <1>9 DEF BlockOK, GivenBack, SameHands
  <2>4. OutOfList(t, m)'
    BY <1>0, <1>4, <1>5, <1>6, <1>l, <1>7, <1>8, <1>9 DEF BlockOK, OutOfList, SameHands
  <2>5. OneEvictor(t, m)'
    BY <1>0, <1>4, <1>5, <1>6, <1>l, <1>7, <1>8, <1>9 DEF BlockOK, OneEvictor, SameHands
  <2>6. Listed(t, m)'
    BY <1>0, <1>4, <1>5, <1>6, <1>l, <1>7, <1>8, <1>9 DEF BlockOK, Listed, SameHands
  <2>7. Placed(t, m)'
    BY <1>0, <1>4, <1>5, <1>6, <1>l, <1>7, <1>8, <1>9 DEF BlockOK, Placed, SameHands
  <2>8. LeavesSlot(t, m)'
    BY <1>0, <1>4, <1>5, <1>6, <1>l, <1>7, <1>8, <1>9, <1>3 DEF BlockOK, LeavesSlot,
      SameHands, old
  <2> QED
    BY <2>1, <2>2, <2>3, <2>4, <2>5, <2>6, <2>7, <2>8 DEF BlockOK
<1>11. Mine1(t)'
  <2> HIDE DEF r
  <2> QED
    BY <1>0, <1>2, <1>3, <1>b, <1>4, <1>5, <1>6, <1>7, <1>8, <1>9 DEF Mine1, Making, Put,
      Flusher, SameHands, Requests, Freeing, Scanning, Flushing, Stuck
<1>12. \A b \in Ids \ {m} : SameRole(t, b)
  BY <1>1, <1>2, <1>3, <1>m, <1>b DEF SameRole, Own, Owned, Makes, Making, Works, Ids,
    NoBlock, LocalOK, KindOf, MineOf, HandOf, CountOf, Requests, Flushing, Scanning, Freeing,
    Stuck
<1>13. /\ \A d \in Datasets \ {t} : UNCHANGED <<block[d], slot[d], freeList[d]>>
       /\ \A b \in Ids \ {m} :
            /\ block'[t][b] = block[t][b] /\ (b \in freeList'[t] <=> b \in freeList[t])
            /\ \A i \in Positions : slot'[t][i] = b <=> slot[t][i] = b
  BY <1>0, <1>m, <1>4, <1>7, <1>8, <1>9
<1> HIDE DEF r
<1> QED
  BY <1>r, <1>5, <1>10, <1>11, <1>12, <1>13, OwnStep

LEMMA RemoveWritePlaces ==
  ASSUME Typed, Control, Places, NEW t \in Datasets, Remove(t), Mine(t).dirty /\
    ~thread[t].err, thread[t].kind \in Flushing
  PROVE  Places' /\ SameHands
<1> DEFINE old == thread[t]
<1>1. old \in Threads /\ LocalOK(t, old)
  BY LocalNow
<1>b. PICK m : m = old.mine
  OBVIOUS
<1> DEFINE r == Locals("free", old.kind, old.pos, old.mine, old.victim, <<<<t, old.mine>>>>, old.counted,
       old.again, old.err, old.ops)
<1>2. old.pc = "remove" /\ (Mine(t).dirty /\ ~old.err) /\ (old.kind \in Flushing) /\ Becomes(t, r)
  BY RemoveWriteStep
<1>r. Becomes(t, r)
  BY <1>2
<1>3. thread'[t].pc = "free" /\  thread'[t].kind = old.kind /\  thread'[t].pos = old.pos /\ 
      thread'[t].mine = old.mine /\  thread'[t].victim = old.victim /\ 
      thread'[t].togo = <<<<t, old.mine>>>> /\  thread'[t].counted = old.counted /\ 
      thread'[t].again = old.again /\  thread'[t].err = old.err /\  thread'[t].ops = old.ops
  <2>1. thread'[t] = r
    <3> HIDE DEF r
    <3> QED
      BY <1>r, Others
  <2> QED
    BY <2>1 DEF Locals
<1>m. m \in Ids /\ m # NoBlock
  BY <1>1, <1>2, <1>b DEF Ids, NoBlock, LocalOK, KindOf, MineOf, HandOf, CountOf, Requests,
    Flushing, Scanning, Freeing, Stuck
<1>4. /\ \A b \in Ids \ {m} : block'[t][b] = block[t][b]
      /\ \A d \in Datasets \ {t} : block'[d] = block[d]
      /\ block'[t][m].pos = block[t][m].pos /\  block'[t][m].lock = block[t][m].lock /\ 
         block'[t][m].dirty = block[t][m].dirty /\  block'[t][m].data = block[t][m].data /\ 
         block'[t][m].listed = FALSE /\  block'[t][m].live = block[t][m].live
  <2> DEFINE e == [Mine(t) EXCEPT !.listed = FALSE]
  <2>1. block' = [block EXCEPT ![t][m] = e]
    BY <1>b DEF Remove, SetMine
  <2>2. /\ block'[t][m] = e /\ block[t][m] \in Entries
        /\ \A b \in Ids \ {m} : block'[t][b] = block[t][b]
        /\ \A d \in Datasets \ {t} : block'[d] = block[d]
    <3> HIDE DEF e
    <3> QED
      BY <1>m, <2>1, EditBlock
  <2> QED
    BY <1>b, <2>2 DEF Mine, Entries, Deleted
<1>5. SameHands
  <2>1. /\ r.togo = <<<<t, old.mine>>>> /\ r.victim = old.victim
        /\ r.kind = old.kind /\ r.pc = "free"
    BY DEF Locals
  <2> HIDE DEF r
  <2>2. old.kind \in Flushing \/ (old.togo = <<>> /\ old.victim = NoVictim)
    BY <1>1, <1>2 DEF LocalOK, KindOf, MineOf, HandOf, CountOf, Requests, Flushing, Scanning,
      Freeing, Stuck
  <2>3. r.kind \in Flushing \/ (r.togo = <<>> /\ r.victim = NoVictim)
    BY <1>1, <1>2, <2>1 DEF LocalOK, KindOf, MineOf, HandOf, CountOf, Requests, Flushing,
      Scanning, Freeing, Stuck
  <2> QED
    BY <1>1, <1>2, <1>r, <2>1, <2>2, <2>3, HandsEmpty DEF Flushing, Requests
<1>6. /\ Own(t, m) <=> TRUE
      /\ Own(t, m)' <=> TRUE
      /\ Makes(t, m) <=> FALSE
      /\ Makes(t, m)' <=> FALSE
      /\ Works(t, m, {"use", "fill"}) <=> FALSE
      /\ Works(t, m, {"use", "fill"})' <=> FALSE
      /\ Works(t, m, {"remove"}) <=> TRUE
      /\ Works(t, m, {"remove"})' <=> FALSE
      /\ Works(t, m, {"droplock"}) <=> FALSE
      /\ Works(t, m, {"droplock"})' <=> FALSE
      /\ Works(t, m, {"unlock"}) <=> FALSE
      /\ Works(t, m, {"unlock"})' <=> FALSE
      /\ Works(t, m, Stuck) <=> FALSE
      /\ Works(t, m, Stuck)' <=> FALSE
  BY <1>1, <1>2, <1>3, <1>m, <1>b DEF Own, Owned, Makes, Making, Works, Ids, NoBlock,
    LocalOK, KindOf, MineOf, HandOf, CountOf, Requests, Flushing, Scanning, Freeing, Stuck
<1>l. LockOf(t, m) = -1 /\ LockOf(t, m)' = -1
  BY <1>6 DEF LockOf
<1>7. slot' = slot /\ \A b : InSlot(t, b)' <=> InSlot(t, b)
  BY DEF InSlot, Remove, SetMine, cache
<1>8. freeList' = freeList
  BY DEF Remove, SetMine, band
<1>9. BlockOK(t, m) /\ Mine1(t) /\ \A b : Leaving(t, b) => Evicted(t, b)
  BY <1>m, LeavingHeld DEF Places
<1>0. block[t][m].live /\ block[t][m].listed /\ block[t][m].data /\ block[t][m].pos = old.pos /\ ~InSlot(t, m) /\ block[t][m].lock = -1 /\ ~(Evicted(t, m) \/ m \in freeList[t]) /\ block[t][m].dirty /\ old.kind \in Flushing
  <2>1. block[t][m].live /\ block[t][m].listed /\ block[t][m].data /\ block[t][m].pos = old.pos /\ ~InSlot(t, m) /\ block[t][m].dirty /\ old.kind \in Flushing
    BY <1>1, <1>2, <1>b, <1>9 DEF Mine, Mine1, Making, Put, Flusher, LocalOK, KindOf, MineOf,
      HandOf, CountOf, Requests, Flushing, Scanning, Freeing, Stuck
  <2> HIDE DEF old, r
  <2> QED
    BY <1>m, <1>5, <1>6, <1>l, <1>9, <2>1 DEF InSlot, BlockOK, Dead, Slotted, GivenBack, OutOfList,
      Listed, Placed
<1>10. BlockOK(t, m)'
  <2> HIDE DEF old, r
  <2>1. Dead(t, m)'
    BY <1>0, <1>m, <1>4, <1>5, <1>6, <1>l, <1>7, <1>8, <1>9 DEF BlockOK, Dead, SameHands
  <2>2. Slotted(t, m)'
    BY <1>0, <1>m, <1>4, <1>5, <1>6, <1>l, <1>7, <1>8, <1>9 DEF BlockOK, Slotted, SameHands
  <2>3. GivenBack(t, m)'
    BY <1>0, <1>m, <1>4, <1>5, <1>6, <1>l, <1>7, <1>8, <1>9 DEF BlockOK, GivenBack, SameHands
  <2>4. OutOfList(t, m)'
    BY <1>0, <1>m, <1>4, <1>5, <1>6, <1>l, <1>7, <1>8, <1>9 DEF BlockOK, OutOfList, SameHands
  <2>5. OneEvictor(t, m)'
    BY <1>0, <1>m, <1>4, <1>5, <1>6, <1>l, <1>7, <1>8, <1>9 DEF BlockOK, OneEvictor,
      SameHands
  <2>6. Listed(t, m)'
    BY <1>0, <1>m, <1>4, <1>5, <1>6, <1>l, <1>7, <1>8, <1>9 DEF BlockOK, Listed, SameHands
  <2>7. Placed(t, m)'
    BY <1>0, <1>m, <1>4, <1>5, <1>6, <1>l, <1>7, <1>8, <1>9 DEF BlockOK, Placed, SameHands
  <2>8. LeavesSlot(t, m)'
    BY <1>0, <1>m, <1>4, <1>5, <1>6, <1>l, <1>7, <1>8, <1>9, <1>3 DEF BlockOK, LeavesSlot,
      SameHands, old
  <2> QED
    BY <2>1, <2>2, <2>3, <2>4, <2>5, <2>6, <2>7, <2>8 DEF BlockOK
<1>11. Mine1(t)'
  <2> HIDE DEF r
  <2> QED
    BY <1>0, <1>2, <1>3, <1>b, <1>m, <1>4, <1>5, <1>6, <1>7, <1>8, <1>9 DEF Mine1, Making,
      Put, Flusher, SameHands, Requests, Freeing, Scanning, Flushing, Stuck
<1>12. \A b \in Ids \ {m} : SameRole(t, b)
  BY <1>1, <1>2, <1>3, <1>m, <1>b DEF SameRole, Own, Owned, Makes, Making, Works, Ids,
    NoBlock, LocalOK, KindOf, MineOf, HandOf, CountOf, Requests, Flushing, Scanning, Freeing,
    Stuck
<1>13. /\ \A d \in Datasets \ {t} : UNCHANGED <<block[d], slot[d], freeList[d]>>
       /\ \A b \in Ids \ {m} :
            /\ block'[t][b] = block[t][b] /\ (b \in freeList'[t] <=> b \in freeList[t])
            /\ \A i \in Positions : slot'[t][i] = b <=> slot[t][i] = b
  BY <1>0, <1>m, <1>4, <1>7, <1>8, <1>9
<1> HIDE DEF r
<1> QED
  BY <1>r, <1>5, <1>10, <1>11, <1>12, <1>13, OwnStep

LEMMA RemoveLeavePlaces ==
  ASSUME Typed, Control, Places, NEW t \in Datasets, Remove(t), ~(Mine(t).dirty /\
    ~thread[t].err), thread[t].kind \notin Flushing
  PROVE  Places' /\ SameHands
<1> DEFINE old == thread[t]
<1>1. old \in Threads /\ LocalOK(t, old)
  BY LocalNow
<1>b. PICK m : m = old.mine
  OBVIOUS
<1> DEFINE r == Locals("leave", old.kind, old.pos, old.mine, old.victim, old.togo, old.counted, old.again,
       old.err, old.ops)
<1>2. old.pc = "remove" /\ (~(Mine(t).dirty /\ ~old.err)) /\ (old.kind \notin Flushing) /\ Becomes(t, r)
  BY RemoveLeaveStep
<1>r. Becomes(t, r)
  BY <1>2
<1>3. thread'[t].pc = "leave" /\  thread'[t].kind = old.kind /\  thread'[t].pos = old.pos /\ 
      thread'[t].mine = old.mine /\  thread'[t].victim = old.victim /\ 
      thread'[t].togo = old.togo /\  thread'[t].counted = old.counted /\ 
      thread'[t].again = old.again /\  thread'[t].err = old.err /\  thread'[t].ops = old.ops
  <2>1. thread'[t] = r
    <3> HIDE DEF r
    <3> QED
      BY <1>r, Others
  <2> QED
    BY <2>1 DEF Locals
<1>m. m \in Ids /\ m # NoBlock
  BY <1>1, <1>2, <1>b DEF Ids, NoBlock, LocalOK, KindOf, MineOf, HandOf, CountOf, Requests,
    Flushing, Scanning, Freeing, Stuck
<1>4. /\ \A b \in Ids \ {m} : block'[t][b] = block[t][b]
      /\ \A d \in Datasets \ {t} : block'[d] = block[d]
      /\ block'[t][m].pos = 0 /\  block'[t][m].lock = 0 /\  block'[t][m].dirty = FALSE /\ 
         block'[t][m].data = FALSE /\  block'[t][m].listed = FALSE /\ 
         block'[t][m].live = FALSE
  <2> DEFINE e == Deleted
  <2>1. block' = [block EXCEPT ![t][m] = e]
    BY <1>b DEF Remove, SetMine
  <2>2. /\ block'[t][m] = e /\ block[t][m] \in Entries
        /\ \A b \in Ids \ {m} : block'[t][b] = block[t][b]
        /\ \A d \in Datasets \ {t} : block'[d] = block[d]
    <3> HIDE DEF e
    <3> QED
      BY <1>m, <2>1, EditBlock
  <2> QED
    BY <1>b, <2>2 DEF Mine, Entries, Deleted
<1>5. SameHands
  <2>1. r.togo = old.togo /\ r.victim = old.victim /\ r.kind = old.kind /\ r.pc = "leave"
    BY DEF Locals
  <2> HIDE DEF r
  <2> QED
    BY <1>1, <1>2, <1>r, <2>1, HandsKept DEF LocalOK, KindOf, MineOf, HandOf, CountOf,
      Requests, Flushing, Scanning, Freeing, Stuck
<1>6. /\ Own(t, m) <=> TRUE
      /\ Own(t, m)' <=> FALSE
      /\ Makes(t, m) <=> FALSE
      /\ Makes(t, m)' <=> FALSE
      /\ Works(t, m, {"use", "fill"}) <=> FALSE
      /\ Works(t, m, {"use", "fill"})' <=> FALSE
      /\ Works(t, m, {"remove"}) <=> TRUE
      /\ Works(t, m, {"remove"})' <=> FALSE
      /\ Works(t, m, {"droplock"}) <=> FALSE
      /\ Works(t, m, {"droplock"})' <=> FALSE
      /\ Works(t, m, {"unlock"}) <=> FALSE
      /\ Works(t, m, {"unlock"})' <=> FALSE
      /\ Works(t, m, Stuck) <=> FALSE
      /\ Works(t, m, Stuck)' <=> FALSE
  BY <1>1, <1>2, <1>3, <1>m, <1>b DEF Own, Owned, Makes, Making, Works, Ids, NoBlock,
    LocalOK, KindOf, MineOf, HandOf, CountOf, Requests, Flushing, Scanning, Freeing, Stuck
<1>l. LockOf(t, m) = -1 /\ LockOf(t, m)' = -1
  BY <1>6 DEF LockOf
<1>7. slot' = slot /\ \A b : InSlot(t, b)' <=> InSlot(t, b)
  BY DEF InSlot, Remove, SetMine, cache
<1>8. freeList' = freeList
  BY DEF Remove, SetMine, band
<1>9. BlockOK(t, m) /\ Mine1(t) /\ \A b : Leaving(t, b) => Evicted(t, b)
  BY <1>m, LeavingHeld DEF Places
<1>0. block[t][m].live /\ block[t][m].listed /\ block[t][m].data /\ block[t][m].pos = old.pos /\ ~InSlot(t, m) /\ ~(Evicted(t, m) \/ m \in freeList[t])
  <2>1. block[t][m].live /\ block[t][m].listed /\ block[t][m].data /\ block[t][m].pos = old.pos /\ ~InSlot(t, m)
    BY <1>1, <1>2, <1>b, <1>9 DEF Mine, Mine1, Making, Put, Flusher, LocalOK, KindOf, MineOf,
      HandOf, CountOf, Requests, Flushing, Scanning, Freeing, Stuck
  <2> HIDE DEF old, r
  <2> QED
    BY <1>m, <1>5, <1>6, <1>l, <1>9, <2>1 DEF InSlot, BlockOK, Dead, Slotted, GivenBack, OutOfList,
      Listed, Placed
<1>10. BlockOK(t, m)'
  <2> HIDE DEF old, r
  <2>1. Dead(t, m)'
    BY <1>0, <1>m, <1>4, <1>5, <1>6, <1>l, <1>7, <1>8, <1>9 DEF BlockOK, Dead, SameHands
  <2>2. Slotted(t, m)'
    BY <1>0, <1>m, <1>4, <1>5, <1>6, <1>l, <1>7, <1>8, <1>9 DEF BlockOK, Slotted, SameHands
  <2>3. GivenBack(t, m)'
    BY <1>0, <1>m, <1>4, <1>5, <1>6, <1>l, <1>7, <1>8, <1>9 DEF BlockOK, GivenBack, SameHands
  <2>4. OutOfList(t, m)'
    BY <1>0, <1>m, <1>4, <1>5, <1>6, <1>l, <1>7, <1>8, <1>9 DEF BlockOK, OutOfList, SameHands
  <2>5. OneEvictor(t, m)'
    BY <1>0, <1>m, <1>4, <1>5, <1>6, <1>l, <1>7, <1>8, <1>9 DEF BlockOK, OneEvictor,
      SameHands
  <2>6. Listed(t, m)'
    BY <1>0, <1>m, <1>4, <1>5, <1>6, <1>l, <1>7, <1>8, <1>9 DEF BlockOK, Listed, SameHands
  <2>7. Placed(t, m)'
    BY <1>0, <1>m, <1>4, <1>5, <1>6, <1>l, <1>7, <1>8, <1>9 DEF BlockOK, Placed, SameHands
  <2>8. LeavesSlot(t, m)'
    BY <1>0, <1>m, <1>4, <1>5, <1>6, <1>l, <1>7, <1>8, <1>9, <1>3 DEF BlockOK, LeavesSlot,
      SameHands, old
  <2> QED
    BY <2>1, <2>2, <2>3, <2>4, <2>5, <2>6, <2>7, <2>8 DEF BlockOK
<1>11. Mine1(t)'
  <2> HIDE DEF r
  <2> QED
    BY <1>0, <1>2, <1>3, <1>b, <1>m, <1>4, <1>5, <1>6, <1>7, <1>8, <1>9 DEF Mine1, Making,
      Put, Flusher, SameHands, Requests, Freeing, Scanning, Flushing, Stuck
<1>12. \A b \in Ids \ {m} : SameRole(t, b)
  BY <1>1, <1>2, <1>3, <1>m, <1>b DEF SameRole, Own, Owned, Makes, Making, Works, Ids,
    NoBlock, LocalOK, KindOf, MineOf, HandOf, CountOf, Requests, Flushing, Scanning, Freeing,
    Stuck
<1>13. /\ \A d \in Datasets \ {t} : UNCHANGED <<block[d], slot[d], freeList[d]>>
       /\ \A b \in Ids \ {m} :
            /\ block'[t][b] = block[t][b] /\ (b \in freeList'[t] <=> b \in freeList[t])
            /\ \A i \in Positions : slot'[t][i] = b <=> slot[t][i] = b
  BY <1>0, <1>m, <1>4, <1>7, <1>8, <1>9
<1> HIDE DEF r
<1> QED
  BY <1>r, <1>5, <1>10, <1>11, <1>12, <1>13, OwnStep

LEMMA RemoveNextPlaces ==
  ASSUME Typed, Control, Places, NEW t \in Datasets, Remove(t), ~(Mine(t).dirty /\
    ~thread[t].err), thread[t].kind \in Flushing
  PROVE  Places' /\ SameHands
<1> DEFINE old == thread[t]
<1>1. old \in Threads /\ LocalOK(t, old)
  BY LocalNow
<1>b. PICK m : m = old.mine
  OBVIOUS
<1> DEFINE R(j) == Locals(IF j \in Positions THEN "take" ELSE "wait", old.kind, j, NoBlock, old.victim, <<>>,
       old.counted, old.again, old.err, old.ops)
<1>2. PICK j : old.pc = "remove" /\ old.kind \in Flushing /\ (~(Mine(t).dirty /\ ~old.err)) /\ (old.kind \in Flushing) /\ NextSlot(t, old.pos + 1, j) /\ Becomes(t, R(j))
  BY RemoveNextStep
<1> DEFINE r == R(j)
<1>r. Becomes(t, r)
  BY <1>2
<1>3. thread'[t].pc = (IF j \in Positions THEN "take" ELSE "wait") /\ 
      thread'[t].kind = old.kind /\  thread'[t].pos = j /\  thread'[t].mine = NoBlock /\ 
      thread'[t].victim = old.victim /\  thread'[t].togo = <<>> /\ 
      thread'[t].counted = old.counted /\  thread'[t].again = old.again /\ 
      thread'[t].err = old.err /\  thread'[t].ops = old.ops
  <2>1. thread'[t] = r
    <3> HIDE DEF r
    <3> QED
      BY <1>r, Others
  <2> QED
    BY <2>1 DEF Locals
<1>m. m \in Ids /\ m # NoBlock
  BY <1>1, <1>2, <1>b DEF Ids, NoBlock, LocalOK, KindOf, MineOf, HandOf, CountOf, Requests,
    Flushing, Scanning, Freeing, Stuck
<1>4. /\ \A b \in Ids \ {m} : block'[t][b] = block[t][b]
      /\ \A d \in Datasets \ {t} : block'[d] = block[d]
      /\ block'[t][m].pos = 0 /\  block'[t][m].lock = 0 /\  block'[t][m].dirty = FALSE /\ 
         block'[t][m].data = FALSE /\  block'[t][m].listed = FALSE /\ 
         block'[t][m].live = FALSE
  <2> DEFINE e == Deleted
  <2>1. block' = [block EXCEPT ![t][m] = e]
    BY <1>b DEF Remove, SetMine
  <2>2. /\ block'[t][m] = e /\ block[t][m] \in Entries
        /\ \A b \in Ids \ {m} : block'[t][b] = block[t][b]
        /\ \A d \in Datasets \ {t} : block'[d] = block[d]
    <3> HIDE DEF e
    <3> QED
      BY <1>m, <2>1, EditBlock
  <2> QED
    BY <1>b, <2>2 DEF Mine, Entries, Deleted
<1>5. SameHands
  <2>1. /\ r.togo = <<>> /\ r.victim = old.victim
        /\ r.kind = old.kind /\ r.pc = (IF j \in Positions THEN "take" ELSE "wait")
    BY DEF Locals
  <2> HIDE DEF r
  <2>2. old.kind \in Flushing \/ (old.togo = <<>> /\ old.victim = NoVictim)
    BY <1>1, <1>2 DEF LocalOK, KindOf, MineOf, HandOf, CountOf, Requests, Flushing, Scanning,
      Freeing, Stuck
  <2>3. r.kind \in Flushing \/ (r.togo = <<>> /\ r.victim = NoVictim)
    BY <1>1, <1>2, <2>1 DEF LocalOK, KindOf, MineOf, HandOf, CountOf, Requests, Flushing,
      Scanning, Freeing, Stuck
  <2> QED
    BY <1>1, <1>2, <1>r, <2>1, <2>2, <2>3, HandsEmpty DEF Flushing, Requests
<1>6. /\ Own(t, m) <=> TRUE
      /\ Own(t, m)' <=> FALSE
      /\ Makes(t, m) <=> FALSE
      /\ Makes(t, m)' <=> FALSE
      /\ Works(t, m, {"use", "fill"}) <=> FALSE
      /\ Works(t, m, {"use", "fill"})' <=> FALSE
      /\ Works(t, m, {"remove"}) <=> TRUE
      /\ Works(t, m, {"remove"})' <=> FALSE
      /\ Works(t, m, {"droplock"}) <=> FALSE
      /\ Works(t, m, {"droplock"})' <=> FALSE
      /\ Works(t, m, {"unlock"}) <=> FALSE
      /\ Works(t, m, {"unlock"})' <=> FALSE
      /\ Works(t, m, Stuck) <=> FALSE
      /\ Works(t, m, Stuck)' <=> FALSE
  BY <1>1, <1>2, <1>3, <1>m, <1>b DEF Own, Owned, Makes, Making, Works, Ids, NoBlock,
    LocalOK, KindOf, MineOf, HandOf, CountOf, Requests, Flushing, Scanning, Freeing, Stuck
<1>l. LockOf(t, m) = -1 /\ LockOf(t, m)' = -1
  BY <1>6 DEF LockOf
<1>7. slot' = slot /\ \A b : InSlot(t, b)' <=> InSlot(t, b)
  BY DEF InSlot, Remove, SetMine, cache
<1>8. freeList' = freeList
  BY DEF Remove, SetMine, band
<1>9. BlockOK(t, m) /\ Mine1(t) /\ \A b : Leaving(t, b) => Evicted(t, b)
  BY <1>m, LeavingHeld DEF Places
<1>0. old.kind \in Flushing /\ block[t][m].live /\ block[t][m].listed /\ block[t][m].data /\ block[t][m].pos = old.pos /\ ~InSlot(t, m) /\ ~(Evicted(t, m) \/ m \in freeList[t])
  <2>1. old.kind \in Flushing /\ block[t][m].live /\ block[t][m].listed /\ block[t][m].data /\ block[t][m].pos = old.pos /\ ~InSlot(t, m)
    BY <1>1, <1>2, <1>b, <1>9 DEF Mine, Mine1, Making, Put, Flusher, LocalOK, KindOf, MineOf,
      HandOf, CountOf, Requests, Flushing, Scanning, Freeing, Stuck
  <2> HIDE DEF old, r
  <2> QED
    BY <1>m, <1>5, <1>6, <1>l, <1>9, <2>1 DEF InSlot, BlockOK, Dead, Slotted, GivenBack, OutOfList,
      Listed, Placed
<1>10. BlockOK(t, m)'
  <2> HIDE DEF old, r
  <2>1. Dead(t, m)'
    BY <1>0, <1>m, <1>4, <1>5, <1>6, <1>l, <1>7, <1>8, <1>9 DEF BlockOK, Dead, SameHands
  <2>2. Slotted(t, m)'
    BY <1>0, <1>m, <1>4, <1>5, <1>6, <1>l, <1>7, <1>8, <1>9 DEF BlockOK, Slotted, SameHands
  <2>3. GivenBack(t, m)'
    BY <1>0, <1>m, <1>4, <1>5, <1>6, <1>l, <1>7, <1>8, <1>9 DEF BlockOK, GivenBack, SameHands
  <2>4. OutOfList(t, m)'
    BY <1>0, <1>m, <1>4, <1>5, <1>6, <1>l, <1>7, <1>8, <1>9 DEF BlockOK, OutOfList, SameHands
  <2>5. OneEvictor(t, m)'
    BY <1>0, <1>m, <1>4, <1>5, <1>6, <1>l, <1>7, <1>8, <1>9 DEF BlockOK, OneEvictor,
      SameHands
  <2>6. Listed(t, m)'
    BY <1>0, <1>m, <1>4, <1>5, <1>6, <1>l, <1>7, <1>8, <1>9 DEF BlockOK, Listed, SameHands
  <2>7. Placed(t, m)'
    BY <1>0, <1>m, <1>4, <1>5, <1>6, <1>l, <1>7, <1>8, <1>9 DEF BlockOK, Placed, SameHands
  <2>8. LeavesSlot(t, m)'
    BY <1>0, <1>m, <1>4, <1>5, <1>6, <1>l, <1>7, <1>8, <1>9, <1>3 DEF BlockOK, LeavesSlot,
      SameHands, old
  <2> QED
    BY <2>1, <2>2, <2>3, <2>4, <2>5, <2>6, <2>7, <2>8 DEF BlockOK
<1>11. Mine1(t)'
  <2> HIDE DEF r
  <2> QED
    BY <1>0, <1>2, <1>3, <1>b, <1>m, <1>4, <1>5, <1>6, <1>7, <1>8, <1>9 DEF Mine1, Making,
      Put, Flusher, SameHands, Requests, Freeing, Scanning, Flushing, Stuck
<1>12. \A b \in Ids \ {m} : SameRole(t, b)
  BY <1>1, <1>2, <1>3, <1>m, <1>b DEF SameRole, Own, Owned, Makes, Making, Works, Ids,
    NoBlock, LocalOK, KindOf, MineOf, HandOf, CountOf, Requests, Flushing, Scanning, Freeing,
    Stuck
<1>13. /\ \A d \in Datasets \ {t} : UNCHANGED <<block[d], slot[d], freeList[d]>>
       /\ \A b \in Ids \ {m} :
            /\ block'[t][b] = block[t][b] /\ (b \in freeList'[t] <=> b \in freeList[t])
            /\ \A i \in Positions : slot'[t][i] = b <=> slot[t][i] = b
  BY <1>0, <1>m, <1>4, <1>7, <1>8, <1>9
<1> HIDE DEF r
<1> QED
  BY <1>r, <1>5, <1>10, <1>11, <1>12, <1>13, OwnStep

LEMMA DeletePlaces ==
  ASSUME Typed, Control, Places, NEW t \in Datasets, Delete(t)
  PROVE  Places' /\ SameHands
<1> DEFINE old == thread[t]
<1>1. old \in Threads /\ LocalOK(t, old)
  BY LocalNow
<1>b. PICK m : m = old.mine
  OBVIOUS
<1> DEFINE R(j) == Locals(IF j \in Positions THEN "take" ELSE "wait", old.kind, j, NoBlock, old.victim, <<>>,
       old.counted, old.again, old.err, old.ops)
<1>2. PICK j : old.pc = "delete" /\ old.kind \in Flushing /\ NextSlot(t, old.pos + 1, j) /\ Becomes(t, R(j))
  BY DeleteStep
<1> DEFINE r == R(j)
<1>r. Becomes(t, r)
  BY <1>2
<1>3. thread'[t].pc = (IF j \in Positions THEN "take" ELSE "wait") /\ 
      thread'[t].kind = old.kind /\  thread'[t].pos = j /\  thread'[t].mine = NoBlock /\ 
      thread'[t].victim = old.victim /\  thread'[t].togo = <<>> /\ 
      thread'[t].counted = old.counted /\  thread'[t].again = old.again /\ 
      thread'[t].err = old.err /\  thread'[t].ops = old.ops
  <2>1. thread'[t] = r
    <3> HIDE DEF r
    <3> QED
      BY <1>r, Others
  <2> QED
    BY <2>1 DEF Locals
<1>m. m \in Ids /\ m # NoBlock
  BY <1>1, <1>2, <1>b DEF Ids, NoBlock, LocalOK, KindOf, MineOf, HandOf, CountOf, Requests,
    Flushing, Scanning, Freeing, Stuck
<1>4. /\ \A b \in Ids \ {m} : block'[t][b] = block[t][b]
      /\ \A d \in Datasets \ {t} : block'[d] = block[d]
      /\ block'[t][m].pos = 0 /\  block'[t][m].lock = 0 /\  block'[t][m].dirty = FALSE /\ 
         block'[t][m].data = FALSE /\  block'[t][m].listed = FALSE /\ 
         block'[t][m].live = FALSE
  <2> DEFINE e == Deleted
  <2>1. block' = [block EXCEPT ![t][m] = e]
    BY <1>b DEF Delete, SetMine
  <2>2. /\ block'[t][m] = e /\ block[t][m] \in Entries
        /\ \A b \in Ids \ {m} : block'[t][b] = block[t][b]
        /\ \A d \in Datasets \ {t} : block'[d] = block[d]
    <3> HIDE DEF e
    <3> QED
      BY <1>m, <2>1, EditBlock
  <2> QED
    BY <1>b, <2>2 DEF Mine, Entries, Deleted
<1>5. SameHands
  <2>1. /\ r.togo = <<>> /\ r.victim = old.victim
        /\ r.kind = old.kind /\ r.pc = (IF j \in Positions THEN "take" ELSE "wait")
    BY DEF Locals
  <2> HIDE DEF r
  <2>2. old.kind \in Flushing \/ (old.togo = <<>> /\ old.victim = NoVictim)
    BY <1>1, <1>2 DEF LocalOK, KindOf, MineOf, HandOf, CountOf, Requests, Flushing, Scanning,
      Freeing, Stuck
  <2>3. r.kind \in Flushing \/ (r.togo = <<>> /\ r.victim = NoVictim)
    BY <1>1, <1>2, <2>1 DEF LocalOK, KindOf, MineOf, HandOf, CountOf, Requests, Flushing,
      Scanning, Freeing, Stuck
  <2> QED
    BY <1>1, <1>2, <1>r, <2>1, <2>2, <2>3, HandsEmpty DEF Flushing, Requests
<1>6. /\ Own(t, m) <=> TRUE
      /\ Own(t, m)' <=> FALSE
      /\ Makes(t, m) <=> FALSE
      /\ Makes(t, m)' <=> FALSE
      /\ Works(t, m, {"use", "fill"}) <=> FALSE
      /\ Works(t, m, {"use", "fill"})' <=> FALSE
      /\ Works(t, m, {"remove"}) <=> FALSE
      /\ Works(t, m, {"remove"})' <=> FALSE
      /\ Works(t, m, {"droplock"}) <=> FALSE
      /\ Works(t, m, {"droplock"})' <=> FALSE
      /\ Works(t, m, {"unlock"}) <=> FALSE
      /\ Works(t, m, {"unlock"})' <=> FALSE
      /\ Works(t, m, Stuck) <=> FALSE
      /\ Works(t, m, Stuck)' <=> FALSE
  BY <1>1, <1>2, <1>3, <1>m, <1>b DEF Own, Owned, Makes, Making, Works, Ids, NoBlock,
    LocalOK, KindOf, MineOf, HandOf, CountOf, Requests, Flushing, Scanning, Freeing, Stuck
<1>l. LockOf(t, m) = -1 /\ LockOf(t, m)' = -1
  BY <1>6 DEF LockOf
<1>7. slot' = slot /\ \A b : InSlot(t, b)' <=> InSlot(t, b)
  BY DEF InSlot, Delete, SetMine, cache
<1>8. freeList' = freeList
  BY DEF Delete, SetMine, band
<1>9. BlockOK(t, m) /\ Mine1(t) /\ \A b : Leaving(t, b) => Evicted(t, b)
  BY <1>m, LeavingHeld DEF Places
<1>0. old.kind \in Flushing /\ ~InSlot(t, m) /\ ~(Evicted(t, m) \/ m \in freeList[t])
  <2>1. old.kind \in Flushing /\ ~InSlot(t, m)
    BY <1>1, <1>2, <1>b, <1>9 DEF Mine, Mine1, Making, Put, Flusher, LocalOK, KindOf, MineOf,
      HandOf, CountOf, Requests, Flushing, Scanning, Freeing, Stuck
  <2> HIDE DEF old, r
  <2> QED
    BY <1>m, <1>5, <1>6, <1>l, <1>9, <2>1 DEF InSlot, BlockOK, Dead, Slotted, GivenBack, OutOfList,
      Listed, Placed
<1>10. BlockOK(t, m)'
  <2> HIDE DEF old, r
  <2>1. Dead(t, m)'
    BY <1>0, <1>m, <1>4, <1>5, <1>6, <1>l, <1>7, <1>8, <1>9 DEF BlockOK, Dead, SameHands
  <2>2. Slotted(t, m)'
    BY <1>0, <1>m, <1>4, <1>5, <1>6, <1>l, <1>7, <1>8, <1>9 DEF BlockOK, Slotted, SameHands
  <2>3. GivenBack(t, m)'
    BY <1>0, <1>m, <1>4, <1>5, <1>6, <1>l, <1>7, <1>8, <1>9 DEF BlockOK, GivenBack, SameHands
  <2>4. OutOfList(t, m)'
    BY <1>0, <1>m, <1>4, <1>5, <1>6, <1>l, <1>7, <1>8, <1>9 DEF BlockOK, OutOfList, SameHands
  <2>5. OneEvictor(t, m)'
    BY <1>0, <1>m, <1>4, <1>5, <1>6, <1>l, <1>7, <1>8, <1>9 DEF BlockOK, OneEvictor,
      SameHands
  <2>6. Listed(t, m)'
    BY <1>0, <1>m, <1>4, <1>5, <1>6, <1>l, <1>7, <1>8, <1>9 DEF BlockOK, Listed, SameHands
  <2>7. Placed(t, m)'
    BY <1>0, <1>m, <1>4, <1>5, <1>6, <1>l, <1>7, <1>8, <1>9 DEF BlockOK, Placed, SameHands
  <2>8. LeavesSlot(t, m)'
    BY <1>0, <1>m, <1>4, <1>5, <1>6, <1>l, <1>7, <1>8, <1>9, <1>3 DEF BlockOK, LeavesSlot,
      SameHands, old
  <2> QED
    BY <2>1, <2>2, <2>3, <2>4, <2>5, <2>6, <2>7, <2>8 DEF BlockOK
<1>11. Mine1(t)'
  <2> HIDE DEF r
  <2> QED
    BY <1>0, <1>2, <1>3, <1>b, <1>m, <1>4, <1>5, <1>6, <1>7, <1>8, <1>9 DEF Mine1, Making,
      Put, Flusher, SameHands, Requests, Freeing, Scanning, Flushing, Stuck
<1>12. \A b \in Ids \ {m} : SameRole(t, b)
  BY <1>1, <1>2, <1>3, <1>m, <1>b DEF SameRole, Own, Owned, Makes, Making, Works, Ids,
    NoBlock, LocalOK, KindOf, MineOf, HandOf, CountOf, Requests, Flushing, Scanning, Freeing,
    Stuck
<1>13. /\ \A d \in Datasets \ {t} : UNCHANGED <<block[d], slot[d], freeList[d]>>
       /\ \A b \in Ids \ {m} :
            /\ block'[t][b] = block[t][b] /\ (b \in freeList'[t] <=> b \in freeList[t])
            /\ \A i \in Positions : slot'[t][i] = b <=> slot[t][i] = b
  BY <1>0, <1>m, <1>4, <1>7, <1>8, <1>9
<1> HIDE DEF r
<1> QED
  BY <1>r, <1>5, <1>10, <1>11, <1>12, <1>13, OwnStep

LEMMA WriteOwnPlaces ==
  ASSUME Typed, Control, Places, NEW t \in Datasets, Write(t), thread[t].kind \in Flushing
  PROVE  Places' /\ SameHands
<1> DEFINE old == thread[t]
<1>1. old \in Threads /\ LocalOK(t, old)
  BY LocalNow
<1>b. PICK m : m = old.mine
  OBVIOUS
<1> DEFINE r == Locals(IF flushErr[First(t)[1]] THEN "failed" ELSE "iwrite", old.kind, old.pos, old.mine,
       old.victim, old.togo, old.counted, old.again, old.err, old.ops)
<1>2. old.pc = "free" /\ old.togo # <<>> /\ The(First(t)).dirty /\ (old.kind \in Flushing) /\ Becomes(t, r)
  BY WriteStep
<1>r. Becomes(t, r)
  BY <1>2
<1>3. thread'[t].pc = (IF flushErr[First(t)[1]] THEN "failed" ELSE "iwrite") /\ 
      thread'[t].kind = old.kind /\  thread'[t].pos = old.pos /\  thread'[t].mine = old.mine
      /\  thread'[t].victim = old.victim /\  thread'[t].togo = old.togo /\ 
      thread'[t].counted = old.counted /\  thread'[t].again = old.again /\ 
      thread'[t].err = old.err /\  thread'[t].ops = old.ops
  <2>1. thread'[t] = r
    <3> HIDE DEF r
    <3> QED
      BY <1>r, Others
  <2> QED
    BY <2>1 DEF Locals
<1>m. m \in Ids /\ m # NoBlock
  BY <1>1, <1>2, <1>b DEF Ids, NoBlock, LocalOK, KindOf, MineOf, HandOf, CountOf, Requests,
    Flushing, Scanning, Freeing, Stuck
<1>4. /\ \A b \in Ids \ {m} : block'[t][b] = block[t][b]
      /\ \A d \in Datasets \ {t} : block'[d] = block[d]
      /\ block'[t][m].pos = block[t][m].pos /\ block'[t][m].lock = block[t][m].lock
      /\ block'[t][m].dirty = FALSE /\ block'[t][m].data = block[t][m].data
      /\ block'[t][m].listed = block[t][m].listed /\ block'[t][m].live = block[t][m].live
  <2> DEFINE e == [block[t][m] EXCEPT !.dirty = FALSE]
  <2>1. block' = [block EXCEPT ![t][m] = e]
    <3>1. old.togo = <<<<t, m>>>>
      BY <1>1, <1>2, <1>b DEF LocalOK, KindOf, MineOf, HandOf, CountOf, Requests, Flushing,
        Scanning, Freeing, Stuck
    <3>2. First(t) = <<t, m>> /\ First(t)[1] = t /\ First(t)[2] = m
      BY <3>1 DEF First
    <3> QED
      BY <3>2 DEF Write, SetThe, The
  <2>2. /\ block'[t][m] = e /\ block[t][m] \in Entries
        /\ \A b \in Ids \ {m} : block'[t][b] = block[t][b]
        /\ \A d \in Datasets \ {t} : block'[d] = block[d]
    <3> HIDE DEF e
    <3> QED
      BY <1>m, <2>1, EditBlock
  <2> QED
    BY <2>2 DEF Entries
<1>5. SameHands
  <2>1. r.togo = old.togo /\ r.victim = old.victim /\ r.kind = old.kind /\ r.pc = (IF flushErr[First(t)[1]] THEN "failed" ELSE "iwrite")
    BY DEF Locals
  <2> HIDE DEF r
  <2> QED
    BY <1>1, <1>2, <1>r, <2>1, HandsKept DEF LocalOK, KindOf, MineOf, HandOf, CountOf,
      Requests, Flushing, Scanning, Freeing, Stuck
<1>6. /\ Own(t, m) <=> TRUE
      /\ Own(t, m)' <=> TRUE
      /\ Makes(t, m) <=> FALSE
      /\ Makes(t, m)' <=> FALSE
      /\ Works(t, m, {"use", "fill"}) <=> FALSE
      /\ Works(t, m, {"use", "fill"})' <=> FALSE
      /\ Works(t, m, {"remove"}) <=> FALSE
      /\ Works(t, m, {"remove"})' <=> FALSE
      /\ Works(t, m, {"droplock"}) <=> FALSE
      /\ Works(t, m, {"droplock"})' <=> FALSE
      /\ Works(t, m, {"unlock"}) <=> FALSE
      /\ Works(t, m, {"unlock"})' <=> FALSE
      /\ Works(t, m, Stuck) <=> FALSE
      /\ Works(t, m, Stuck)' <=> FALSE
  BY <1>1, <1>2, <1>3, <1>m, <1>b DEF Own, Owned, Makes, Making, Works, Ids, NoBlock,
    LocalOK, KindOf, MineOf, HandOf, CountOf, Requests, Flushing, Scanning, Freeing, Stuck
<1>l. LockOf(t, m) = -1 /\ LockOf(t, m)' = -1
  BY <1>6 DEF LockOf
<1>7. slot' = slot /\ \A b : InSlot(t, b)' <=> InSlot(t, b)
  BY DEF InSlot, Write, SetThe, cache
<1>8. freeList' = freeList
  BY DEF Write, SetThe, band
<1>9. BlockOK(t, m) /\ Mine1(t) /\ \A b : Leaving(t, b) => Evicted(t, b)
  BY <1>m, LeavingHeld DEF Places
<1>0. old.kind \in Flushing /\ block[t][m].live /\ ~block[t][m].listed /\ block[t][m].data /\ block[t][m].lock = -1 /\ block[t][m].pos = old.pos /\ ~InSlot(t, m) /\ ~(Evicted(t, m) \/ m \in freeList[t])
  <2>1. old.kind \in Flushing /\ block[t][m].live /\ ~block[t][m].listed /\ block[t][m].data /\ block[t][m].lock = -1 /\ block[t][m].pos = old.pos /\ ~InSlot(t, m)
    BY <1>1, <1>2, <1>b, <1>9 DEF Mine, Mine1, Making, Put, Flusher, LocalOK, KindOf, MineOf,
      HandOf, CountOf, Requests, Flushing, Scanning, Freeing, Stuck
  <2> HIDE DEF old, r
  <2> QED
    BY <1>m, <1>5, <1>6, <1>l, <1>9, <2>1 DEF InSlot, BlockOK, Dead, Slotted, GivenBack, OutOfList,
      Listed, Placed
<1>10. BlockOK(t, m)'
  <2> HIDE DEF old, r
  <2>1. Dead(t, m)'
    BY <1>0, <1>4, <1>5, <1>6, <1>l, <1>7, <1>8, <1>9 DEF BlockOK, Dead, SameHands
  <2>2. Slotted(t, m)'
    BY <1>0, <1>4, <1>5, <1>6, <1>l, <1>7, <1>8, <1>9 DEF BlockOK, Slotted, SameHands
  <2>3. GivenBack(t, m)'
    BY <1>0, <1>4, <1>5, <1>6, <1>l, <1>7, <1>8, <1>9 DEF BlockOK, GivenBack, SameHands
  <2>4. OutOfList(t, m)'
    BY <1>0, <1>4, <1>5, <1>6, <1>l, <1>7, <1>8, <1>9 DEF BlockOK, OutOfList, SameHands
  <2>5. OneEvictor(t, m)'
    BY <1>0, <1>4, <1>5, <1>6, <1>l, <1>7, <1>8, <1>9 DEF BlockOK, OneEvictor, SameHands
  <2>6. Listed(t, m)'
    BY <1>0, <1>4, <1>5, <1>6, <1>l, <1>7, <1>8, <1>9 DEF BlockOK, Listed, SameHands
  <2>7. Placed(t, m)'
    BY <1>0, <1>4, <1>5, <1>6, <1>l, <1>7, <1>8, <1>9 DEF BlockOK, Placed, SameHands
  <2>8. LeavesSlot(t, m)'
    BY <1>0, <1>4, <1>5, <1>6, <1>l, <1>7, <1>8, <1>9, <1>3 DEF BlockOK, LeavesSlot,
      SameHands, old
  <2> QED
    BY <2>1, <2>2, <2>3, <2>4, <2>5, <2>6, <2>7, <2>8 DEF BlockOK
<1>11. Mine1(t)'
  <2> HIDE DEF r
  <2> QED
    BY <1>0, <1>2, <1>3, <1>b, <1>4, <1>5, <1>6, <1>7, <1>8, <1>9 DEF Mine1, Making, Put,
      Flusher, SameHands, Requests, Freeing, Scanning, Flushing, Stuck
<1>12. \A b \in Ids \ {m} : SameRole(t, b)
  BY <1>1, <1>2, <1>3, <1>m, <1>b DEF SameRole, Own, Owned, Makes, Making, Works, Ids,
    NoBlock, LocalOK, KindOf, MineOf, HandOf, CountOf, Requests, Flushing, Scanning, Freeing,
    Stuck
<1>13. /\ \A d \in Datasets \ {t} : UNCHANGED <<block[d], slot[d], freeList[d]>>
       /\ \A b \in Ids \ {m} :
            /\ block'[t][b] = block[t][b] /\ (b \in freeList'[t] <=> b \in freeList[t])
            /\ \A i \in Positions : slot'[t][i] = b <=> slot[t][i] = b
  BY <1>0, <1>m, <1>4, <1>7, <1>8, <1>9
<1> HIDE DEF r
<1> QED
  BY <1>r, <1>5, <1>10, <1>11, <1>12, <1>13, OwnStep

-----------------------------------------------------------------------------
(***************************************************************************)
(* Places: steps about a block of any band.                                *)
(***************************************************************************)
LEMMA CrossStep ==
  ASSUME Typed, Control, Places, NEW d \in Datasets, NEW b \in Ids,
         \A c \in Datasets : \A e \in Ids : SameRole(c, e),
         \A c \in Datasets : \A e \in Ids : c # d \/ e # b =>
           /\ HandsOn(c, e) /\ block'[c][e] = block[c][e]
           /\ \A i \in Positions : slot'[c][i] = e <=> slot[c][i] = e
           /\ e \in freeList'[c] <=> e \in freeList[c],
         BlockOK(d, b)', \A c \in Datasets : Mine1(c)'
  PROVE  Places'
<1>1. ASSUME NEW c \in Datasets, NEW e \in Ids
      PROVE  BlockOK(c, e)'
  <2>1. CASE c # d \/ e # b
    BY <2>1, BlockFrame, LeavingHeld DEF Places
  <2>2. CASE c = d /\ e = b
    BY <2>2
  <2> QED
    BY <2>1, <2>2
<1> QED
  BY <1>1 DEF Places

(* A thread that does not work on the block.                               *)
LEMMA MineCross ==
  ASSUME Typed, Control, NEW c \in Datasets, Mine1(c),
         NEW m, m = thread[c].mine, thread'[c].mine = m,
         thread'[c].pos = thread[c].pos, thread'[c].kind = thread[c].kind,
         \/ thread'[c] = thread[c]
         \/ /\ thread[c].kind \notin Flushing /\ (Put(c)' <=> Put(c))
            /\ thread[c].pc \in Scanning \cup Freeing /\ thread'[c].pc \in Scanning \cup Freeing,
         m \in Ids =>
           /\ block'[c][m] = block[c][m] /\ (m \in freeList'[c] <=> m \in freeList[c])
           /\ \A i \in Positions : slot'[c][i] = m <=> slot[c][i] = m
           /\ Evicted(c, m)' <=> Evicted(c, m),
         \A i \in Positions :
           /\ slot'[c][i] \in {slot[c][i], NoBlock}
           /\ Leaving(c, slot[c][i]) => slot'[c][i] = NoBlock \/ Leaving(c, slot[c][i])'
  PROVE  Mine1(c)'
<1> DEFINE r == thread[c]
<1>1. LocalOK(c, r)
  BY LocalNow
<1>2. CASE r.kind \in Requests \cup Flushing /\ r.pc \notin {"idle", "flushing", "wait", "destroy", "closed"}
  <2>1. r.pos \in Positions
    BY <1>1, <1>2 DEF LocalOK, MineOf
  <2>2. /\ Making(c)' <=> Making(c)
        /\ Put(c)' <=> Put(c)
        /\ Flusher(c)' <=> Flusher(c)
    BY DEF Making, Put, Flusher
  <2>3. m \in Ids => (InSlot(c, m)' <=> InSlot(c, m))
    BY DEF InSlot
  <2>4. \A w \in {"unlock", "create", "internalize", "fill", "use", "addlock", "take", "droplock",
                  "evicted", "remove", "reacquire"} : thread'[c].pc = w <=> r.pc = w
    BY DEF Scanning, Freeing
  <2>5. Making(c) \/ Flusher(c) \/ r.pc \in {"unlock", "fill", "use", "addlock", "droplock", "remove"} => m \in Ids
    BY <1>1, <1>2 DEF Making, Flusher, LocalOK, MineOf, Scanning, Freeing, Requests, Flushing
  <2>6. slot'[c][r.pos] \in {slot[c][r.pos], NoBlock}
    BY <2>1
  <2>7. m = NoBlock \/ m \in Ids
    BY DEF Typed, Threads
  <2>8. thread[c].kind \in Flushing => thread'[c].pc = thread[c].pc
    OBVIOUS
  <2> HIDE DEF r
  <2> QED
    BY <2>1, <2>2, <2>3, <2>4, <2>5, <2>6, <2>7, <2>8 DEF Mine1, r, Stuck, Flusher
<1>3. CASE ~(r.kind \in Requests \cup Flushing /\ r.pc \notin {"idle", "flushing", "wait", "destroy", "closed"})
  <2>1. thread'[c].pc \in {"idle", "flushing", "wait", "destroy", "closed"} \/ thread'[c].kind \notin Requests \cup Flushing
    BY <1>3 DEF Scanning, Freeing
  <2>2. /\ ~Making(c)' /\ ~Flusher(c)'
        /\ thread'[c].pc \notin {"unlock", "create", "internalize", "fill", "use", "addlock", "droplock", "evicted", "remove"}
        /\ ~(thread'[c].pc = "take" /\ thread'[c].kind \in Requests)
    BY <1>1, <1>3 DEF Making, Flusher, LocalOK, KindOf, Requests, Flushing, Scanning, Freeing
  <2> QED
    BY <2>2 DEF Mine1, Stuck
<1> QED
  BY <1>2, <1>3
LEMMA Claimable ==
  ASSUME Typed, Control, Places, NEW d \in Datasets, NEW b \in Ids,
         <<d, b>> \in InList, Unlocked(<<d, b>>)
  PROVE  /\ block[d][b].live /\ block[d][b].listed /\ block[d][b].data /\ block[d][b].lock = 0
         /\ block[d][b].pos \in Positions
         /\ ~Evicted(d, b) /\ b \notin freeList[d] /\ ~Own(d, b)
         /\ ~Works(d, b, {"use", "fill", "remove", "unlock"}) /\ ~Makes(d, b)
         /\ \/ slot[d][block[d][b].pos] = b
            \/ Works(d, b, {"droplock"}) /\ block[d][b].pos = thread[d].pos
<1>1. block[d][b].listed /\ block[d][b].lock = 0
  BY DEF Unlocked, InList, The
<1>2. BlockOK(d, b) /\ Mine1(d)
  BY DEF Places
<1>3. LocalOK(d, thread[d])
  BY LocalNow
<1>4. ~Makes(d, b) /\ ~Works(d, b, {"use", "fill"}) /\ ~Works(d, b, {"remove"})
  BY <1>1, <1>2 DEF BlockOK, Listed
<1>5. block[d][b].live /\ block[d][b].data /\ ~Evicted(d, b) /\ b \notin freeList[d]
  BY <1>1, <1>2, <1>4 DEF BlockOK, Listed, OutOfList, GivenBack
<1>6. ~Works(d, b, {"unlock"})
  BY <1>2, <1>5 DEF Mine1, Works
<1>7. ~Own(d, b)
  <2>1. ASSUME Own(d, b)
        PROVE  Makes(d, b) \/ Works(d, b, {"remove"}) \/ (Flusher(d) /\ thread[d].mine = b)
    <3>1. CASE thread[d].kind \in Flushing \/ thread[d].pc \in {"remove", "delete"}
      BY <1>3, <2>1, <3>1 DEF Own, Owned, Works, Flusher, LocalOK, KindOf
    <3>2. CASE ~(thread[d].kind \in Flushing \/ thread[d].pc \in {"remove", "delete"})
      <4>1. thread[d].kind # "evict"
        BY <1>3, <2>1 DEF Own, Owned, LocalOK, MineOf, Ids, NoBlock
      <4>2. thread[d].kind \in Requests
        BY <1>3, <2>1, <3>2, <4>1 DEF Own, Owned, LocalOK, KindOf, Scanning, Flushing
      <4> QED
        BY <2>1, <3>2, <4>2 DEF Own, Owned, Makes, Making, Scanning, Freeing
    <3> QED
      BY <3>1, <3>2
  <2>2. Flusher(d) /\ thread[d].mine = b => ~block[d][b].listed
    BY <1>2 DEF Mine1
  <2> QED
    BY <1>1, <1>4, <2>1, <2>2
<1>8. CASE InSlot(d, b)
  BY <1>1, <1>2, <1>4, <1>5, <1>6, <1>7, <1>8 DEF BlockOK, Slotted, InSlot, Works
<1>9. CASE ~InSlot(d, b)
  <2>1. Works(d, b, {"droplock"})
    BY <1>2, <1>5, <1>7, <1>9 DEF BlockOK, Placed
  <2>2. block[d][b].pos = thread[d].pos /\ thread[d].pos \in Positions
    BY <1>2, <1>3, <1>5, <2>1 DEF Mine1, Works, LocalOK, MineOf, KindOf
  <2> QED
    BY <1>1, <1>4, <1>5, <1>6, <1>7, <2>1, <2>2 DEF Works
<1> QED
  BY <1>8, <1>9

(* A thread that evicts works on nothing but the block it makes.           *)
LEMMA EvictorsOwn ==
  ASSUME Typed, Control, Places, NEW t \in Datasets, thread[t].kind \notin Flushing,
         thread[t].pc \in Scanning \cup Freeing
  PROVE  /\ thread[t].mine \in Ids => Own(t, thread[t].mine)
         /\ \A b \in Ids : ~Works(t, b, {"use", "fill", "remove", "unlock", "droplock", "evicted"})
  BY LocalNow DEF LocalOK, KindOf, MineOf, Own, Owned, Works, Scanning, Freeing, Requests, Ids, NoBlock

LEMMA ClaimPlaces ==
  ASSUME Typed, Control, Places, NEW t \in Datasets, NEW x \in AllBlocks, Claim(t, x)
  PROVE  /\ Places' /\ x \notin HandsOf(t)
         /\ \A c, e : Evicted(c, e)' <=> Evicted(c, e) \/ <<c, e>> = x
<1> DEFINE old == thread[t]
<1>1. old \in Threads /\ LocalOK(t, old)
  BY LocalNow
<1>2. PICK d \in Datasets, b \in Ids : x = <<d, b>> /\ x[1] = d /\ x[2] = b
  BY Pairs
<1>3. old.pc = "scan" /\ x \in InList /\ Unlocked(x) /\ old.kind \notin Flushing /\ old.victim = NoVictim
  BY <1>1 DEF Claim, At, LocalOK, KindOf, HandOf, Scanning, Requests, Flushing
<1>4. /\ block[d][b].live /\ block[d][b].listed /\ block[d][b].data /\ block[d][b].lock = 0
      /\ block[d][b].pos \in Positions
      /\ ~Evicted(d, b) /\ b \notin freeList[d] /\ ~Own(d, b)
      /\ ~Works(d, b, {"use", "fill", "remove", "unlock"}) /\ ~Makes(d, b)
      /\ \/ slot[d][block[d][b].pos] = b
         \/ Works(d, b, {"droplock"}) /\ block[d][b].pos = thread[d].pos
  BY <1>2, <1>3, Claimable
<1>5. x \notin HandsOf(t)
  BY <1>2, <1>3, <1>4 DEF Evicted, Held
<1> DEFINE r == Locals("unref", old.kind, old.pos, old.mine, x, old.togo, old.counted, old.again,
                       old.err, old.ops)
<1>6. Becomes(t, r)
  BY <1>5, ClaimStep
<1>7. /\ thread'[t].pc = "unref" /\ thread'[t].kind = old.kind /\ thread'[t].pos = old.pos
      /\ thread'[t].mine = old.mine /\ thread'[t].victim = x /\ thread'[t].togo = old.togo
      /\ thread'[t].again = old.again
  <2>1. thread'[t] = r
    <3> HIDE DEF r
    <3> QED
      BY <1>6, Others
  <2> QED
    BY <2>1 DEF Locals
<1>8. \A u \in Datasets \ {t} : thread'[u] = thread[u] /\ Held(u)' = Held(u)
  <2> HIDE DEF r
  <2> QED
    BY <1>6, Others
<1>9. \A y : y \in Held(t)' <=> y \in Held(t) \/ y = x
  <2>1. x # NoVictim
    BY Pairs
  <2> QED
    BY <1>3, <1>7, <2>1 DEF Held, HandsOf
<1>10. /\ \A c, e : ~Leaving(c, e)
       /\ \A c, e : Leaving(c, e)' <=> <<c, e>> = x
  <2>1. \A u \in Datasets \ {t} : thread[u].pc # "unref"
    BY <1>3, CacheAssumption DEF Control, Scanning
  <2> QED
    BY <1>3, <1>7, <1>8, <2>1 DEF Leaving
<1>11. /\ \A c, e : Evicted(c, e)' <=> Evicted(c, e) \/ <<c, e>> = x
       /\ \A c \in Datasets : \A e \in Ids : c # d \/ e # b => HandsOn(c, e)
  <2>1. \A c, e : Evicted(c, e)' <=> Evicted(c, e) \/ <<c, e>> = x
    BY <1>8, <1>9 DEF Evicted
  <2>2. ASSUME NEW c \in Datasets, NEW e \in Ids, c # d \/ e # b
        PROVE  HandsOn(c, e)
    <3>1. <<c, e>> # x
      BY <1>2, <2>2
    <3> QED
      BY <1>8, <1>9, <1>10, <2>1, <3>1 DEF HandsOn
  <2> QED
    BY <2>1, <2>2
<1>12. /\ block'[d][b].lock = -1 /\ ~block'[d][b].listed /\ block'[d][b].live = block[d][b].live
       /\ block'[d][b].pos = block[d][b].pos /\ block'[d][b].data = block[d][b].data
       /\ block'[d][b].dirty = block[d][b].dirty
       /\ \A c \in Datasets : \A e \in Ids : c # d \/ e # b => block'[c][e] = block[c][e]
       /\ slot' = slot /\ freeList' = freeList
  <2> DEFINE e0 == [block[d][b] EXCEPT !.lock = -1, !.listed = FALSE]
  <2>1. block' = [block EXCEPT ![d][b] = e0] /\ slot' = slot /\ freeList' = freeList
    BY <1>2 DEF Claim, SetThe, The
  <2>2. /\ block'[d][b] = e0 /\ block[d][b] \in Entries
        /\ \A c \in Ids \ {b} : block'[d][c] = block[d][c]
        /\ \A c \in Datasets \ {d} : block'[c] = block[c]
    <3> HIDE DEF e0
    <3> QED
      BY <2>1, EditBlock
  <2>3. /\ e0.lock = -1 /\ ~e0.listed /\ e0.live = block[d][b].live /\ e0.pos = block[d][b].pos
        /\ e0.data = block[d][b].data /\ e0.dirty = block[d][b].dirty
    BY <2>2 DEF Entries
  <2> HIDE DEF e0
  <2> QED
    BY <2>1, <2>2, <2>3
<1>13. \A c \in Datasets : \A e \in Ids : SameRole(c, e)
  <2>1. \A e \in Ids : SameRole(t, e)
    BY <1>1, <1>3, <1>7 DEF SameRole, Own, Owned, Makes, Making, Works, LocalOK, KindOf, Requests,
      Scanning, Freeing, Flushing, Stuck
  <2> QED
    BY <1>8, <2>1, RoleFrame
<1>14. BlockOK(d, b)'
  <2>1. BlockOK(d, b) /\ Mine1(d) /\ SameRole(d, b)
    BY <1>13 DEF Places
  <2>2. ~Own(d, b)' /\ ~Works(d, b, {"unlock"})'
    BY <1>4, <2>1 DEF SameRole, Works
  <2>3. Evicted(d, b)' /\ Leaving(d, b)'
    BY <1>2, <1>10, <1>11
  <2>4. Dead(d, b)' /\ GivenBack(d, b)' /\ Listed(d, b)' /\ Placed(d, b)'
    BY <1>4, <1>12, <2>3 DEF Dead, GivenBack, Listed, Placed
  <2>5. Slotted(d, b)'
    BY <1>4, <1>12, <2>1, <2>2, <2>3 DEF BlockOK, Slotted
  <2>6. OutOfList(d, b)'
    BY <1>4, <1>12, <2>2, <2>3 DEF OutOfList, LockOf
  <2>7. OneEvictor(d, b)'
    BY <1>2, <1>4, <1>8, <1>9 DEF OneEvictor, Evicted
  <2>8. LeavesSlot(d, b)'
    <3>1. CASE Works(d, b, {"droplock"}) /\ block[d][b].pos = thread[d].pos
      <4>1. d # t
        BY <1>3, <3>1 DEF Works
      <4> QED
        BY <1>8, <1>12, <3>1, <4>1 DEF LeavesSlot, Works, Stuck
    <3> QED
      BY <1>4, <1>12, <3>1 DEF LeavesSlot
  <2> QED
    BY <2>4, <2>5, <2>6, <2>7, <2>8 DEF BlockOK
<1>15. ASSUME NEW c \in Datasets
       PROVE  Mine1(c)'
  <2>1. Mine1(c) /\ \A i \in Positions : ~Leaving(c, slot[c][i])
    BY <1>10 DEF Places
  <2>2. CASE c = d /\ thread[d].mine = b
    <3>1. d # t
      BY <1>3, <1>4, <2>2, EvictorsOwn DEF Scanning
    <3>2. thread'[d] = thread[d]
      BY <1>8, <3>1
    <3>3. ~Making(d) /\ ~Flusher(d) /\ thread[d].pc \notin {"use", "fill", "remove", "unlock"}
      <4>1. ~Flusher(d)
        BY <1>4, <2>1, <2>2 DEF Mine1
      <4> QED
        BY <1>4, <2>2, <4>1 DEF Makes, Works
    <3>4. ~Making(d)' /\ ~Flusher(d)' /\ Evicted(d, b)' /\ (InSlot(d, b)' <=> InSlot(d, b))
      BY <1>2, <1>11, <1>12, <3>2, <3>3 DEF Making, Flusher, InSlot
    <3> QED
      BY <1>10, <1>12, <2>1, <2>2, <3>2, <3>3, <3>4 DEF Mine1, Stuck
  <2>3. CASE ~(c = d /\ thread[d].mine = b)
    <3>1. PICK m : m = thread[c].mine
      OBVIOUS
    <3>2. /\ thread'[c].mine = m /\ thread'[c].pos = thread[c].pos /\ thread'[c].kind = thread[c].kind
          /\ \/ thread'[c] = thread[c]
             \/ /\ thread[c].kind \notin Flushing /\ (Put(c)' <=> Put(c))
                /\ thread[c].pc \in Scanning \cup Freeing /\ thread'[c].pc \in Scanning \cup Freeing
      BY <1>3, <1>7, <1>8, <3>1 DEF Put, Scanning, Freeing
    <3>3. m \in Ids =>
            /\ block'[c][m] = block[c][m] /\ (m \in freeList'[c] <=> m \in freeList[c])
            /\ \A i \in Positions : slot'[c][i] = m <=> slot[c][i] = m
            /\ Evicted(c, m)' <=> Evicted(c, m)
      BY <1>11, <1>12, <2>3, <3>1 DEF HandsOn
    <3>4. \A i \in Positions :
            /\ slot'[c][i] \in {slot[c][i], NoBlock}
            /\ Leaving(c, slot[c][i]) => slot'[c][i] = NoBlock \/ Leaving(c, slot[c][i])'
      BY <1>12, <2>1
    <3> QED
      BY <2>1, <3>1, <3>2, <3>3, <3>4, MineCross
  <2> QED
    BY <2>2, <2>3
<1>16. \A c \in Datasets : \A e \in Ids : c # d \/ e # b =>
           /\ HandsOn(c, e) /\ block'[c][e] = block[c][e]
           /\ \A i \in Positions : slot'[c][i] = e <=> slot[c][i] = e
           /\ e \in freeList'[c] <=> e \in freeList[c]
  BY <1>11, <1>12
<1>17. Places'
  BY <1>13, <1>14, <1>15, <1>16, CrossStep
<1> QED
  BY <1>5, <1>11, <1>17

(* A block in the hands of a thread.                                       *)
LEMMA InHand ==
  ASSUME Typed, Control, Places, NEW t \in Datasets, NEW d \in Datasets, NEW b \in Ids,
         <<d, b>> \in Held(t)
  PROVE  /\ block[d][b].live /\ ~block[d][b].listed /\ block[d][b].data
         /\ block[d][b].pos \in Positions /\ block[d][b].lock = LockOf(d, b)
         /\ b \notin freeList[d] /\ ~Own(d, b) /\ ~Makes(d, b) /\ Evicted(d, b)
         /\ ~Works(d, b, {"use", "fill", "remove"})
         /\ ~Leaving(d, b) => ~InSlot(d, b)
         /\ \A u \in Datasets : <<d, b>> \in Held(u) => u = t
         /\ thread[d].mine = b => ~Flusher(d) /\ ~Making(d)
<1>1. BlockOK(d, b) /\ Mine1(d) /\ Evicted(d, b)
  BY DEF Places, Evicted
<1>2. /\ block[d][b].live /\ ~block[d][b].listed /\ block[d][b].data
      /\ block[d][b].pos \in Positions /\ block[d][b].lock = LockOf(d, b) /\ ~Own(d, b)
      /\ ~Leaving(d, b) => ~InSlot(d, b)
      /\ b \notin freeList[d]
  BY <1>1 DEF BlockOK, OutOfList, GivenBack
<1>3. \A u \in Datasets : <<d, b>> \in Held(u) => u = t
  BY <1>1 DEF BlockOK, OneEvictor
<1>4. ~Makes(d, b) /\ ~Works(d, b, {"remove"})
  BY <1>2 DEF Own, Owned, Makes, Making, Works, Requests, Flushing, Scanning, Freeing
<1>5. thread[d].mine = b => ~Flusher(d) /\ ~Making(d)
  BY <1>2, <1>4 DEF Own, Owned, Makes, Flusher
<1>6. ~Works(d, b, {"use", "fill"})
  BY <1>1, <1>2 DEF Mine1, Works
<1> QED
  BY <1>1, <1>2, <1>3, <1>4, <1>5, <1>6 DEF Works

LEMMA UnreferencePlaces ==
  ASSUME Typed, Control, Places, NEW t \in Datasets, NEW full \in BOOLEAN,
         Unreference(t, full)
  PROVE  Places' /\ \A c, e : Evicted(c, e)' <=> Evicted(c, e)
<1> DEFINE old == thread[t]
<1>1. old \in Threads /\ LocalOK(t, old)
  BY LocalNow
<1>2. old.pc = "unref" /\ old.victim \in AllBlocks /\ old.kind \notin Flushing
  BY <1>1, UnreferenceStep DEF LocalOK, KindOf, Scanning, Requests, Flushing
<1>3. PICK x \in AllBlocks : x = old.victim
  BY <1>2
<1>4. PICK d \in Datasets, b \in Ids : x = <<d, b>> /\ x[1] = d /\ x[2] = b
  BY Pairs
<1>5. <<d, b>> \in Held(t) /\ Leaving(d, b)
  BY <1>2, <1>3, <1>4, Pairs DEF Held, HandsOf, Leaving
<1>6. /\ block[d][b].live /\ ~block[d][b].listed /\ block[d][b].data
      /\ block[d][b].pos \in Positions /\ block[d][b].lock = LockOf(d, b)
      /\ b \notin freeList[d] /\ ~Own(d, b) /\ ~Makes(d, b) /\ Evicted(d, b)
      /\ ~Works(d, b, {"use", "fill", "remove"})
      /\ \A u \in Datasets : <<d, b>> \in Held(u) => u = t
  BY <1>5, InHand
<1>7. PICK i : i = block[d][b].pos
  OBVIOUS
<1>8. i \in Positions /\ slot[d][i] \in {b, NoBlock} /\ slot' = [slot EXCEPT ![d][i] = NoBlock]
  <2>1. slot' = [slot EXCEPT ![d][i] = NoBlock] /\ i \in Positions
    BY <1>3, <1>4, <1>6, <1>7 DEF Unreference, The
  <2>2. BlockOK(d, b) /\ Mine1(d)
    BY DEF Places
  <2>3. slot[d][i] = b \/ (thread[d].pc \in Stuck /\ i = thread[d].pos)
    BY <1>5, <1>7, <2>2 DEF BlockOK, LeavesSlot, Works
  <2> QED
    BY <2>1, <2>2, <2>3 DEF Mine1
<1>9. /\ slot'[d][i] = NoBlock
      /\ \A j \in Positions \ {i} : slot'[d][j] = slot[d][j]
      /\ \A c \in Datasets \ {d} : slot'[c] = slot[c]
  BY <1>8 DEF Typed
<1>10. block' = block /\ freeList' = freeList
  BY DEF Unreference, band
<1>11. PICK w, s, g : /\ w \in {"scan", "scanned"} /\ s = Append(old.togo, x)
                      /\ Becomes(t, Locals(w, old.kind, old.pos, old.mine, NoVictim, s,
                                           old.counted, g, old.err, old.ops))
  BY <1>3, UnreferenceStep
<1> DEFINE r == Locals(w, old.kind, old.pos, old.mine, NoVictim, s, old.counted, g, old.err, old.ops)
<1>r. Becomes(t, r)
  BY <1>11
<1>12. /\ thread'[t].pc \in {"scan", "scanned"} /\ thread'[t].kind = old.kind
       /\ thread'[t].pos = old.pos /\ thread'[t].mine = old.mine
       /\ thread'[t].victim = NoVictim /\ thread'[t].togo = s
  <2>1. thread'[t] = r
    <3> HIDE DEF r
    <3> QED
      BY <1>r, Others
  <2> QED
    BY <1>11, <2>1 DEF Locals
<1>13. \A u \in Datasets \ {t} : thread'[u] = thread[u] /\ Held(u)' = Held(u)
  <2> HIDE DEF r
  <2> QED
    BY <1>r, Others
<1>14. \A y : y \in Held(t)' <=> y \in Held(t)
  <2>1. /\ old.togo \in Seq(AllBlocks) /\ NoTwice(old.togo) /\ x # NoVictim
        /\ \A n \in DOMAIN old.togo : old.togo[n] # x
    BY <1>1, <1>3, Pairs DEF Threads, LocalOK, HandOf
  <2>2. /\ HandsOf(t) = {old.togo[n] : n \in DOMAIN old.togo} \cup {x}
        /\ HandsOf(t)' = {s[n] : n \in DOMAIN s}
    BY <1>3, <1>12, <2>1 DEF HandsOf
  <2>3. ASSUME NEW y
        PROVE  y \in HandsOf(t)' <=> y \in HandsOf(t)
    <3>1. /\ y \in HandsOf(t) <=> y = x \/ \E n \in DOMAIN old.togo : old.togo[n] = y
          /\ y \in HandsOf(t)' <=> \E n \in DOMAIN s : s[n] = y
      BY <2>2
    <3> QED
      BY <1>11, <2>1, <3>1, TogoAppend
  <2>4. Held(t) = HandsOf(t) /\ Held(t)' = HandsOf(t)'
    BY <1>2, <1>12 DEF Held
  <2> QED
    BY <2>3, <2>4
<1>15. /\ \A c, e : Leaving(c, e) <=> <<c, e>> = x
       /\ \A c, e : ~Leaving(c, e)'
  <2>1. \A u \in Datasets \ {t} : thread[u].pc # "unref"
    BY <1>2, CacheAssumption DEF Control, Scanning
  <2> QED
    BY <1>2, <1>3, <1>12, <1>13, <2>1 DEF Leaving
<1>16. /\ \A c, e : Evicted(c, e)' <=> Evicted(c, e)
       /\ \A c \in Datasets : \A e \in Ids : c # d \/ e # b => HandsOn(c, e)
  <2>1. \A c, e : Evicted(c, e)' <=> Evicted(c, e)
    BY <1>13, <1>14 DEF Evicted
  <2>2. ASSUME NEW c \in Datasets, NEW e \in Ids, c # d \/ e # b
        PROVE  HandsOn(c, e)
    <3>1. <<c, e>> # x
      BY <1>4, <2>2
    <3> QED
      BY <1>13, <1>14, <1>15, <2>1, <3>1 DEF HandsOn
  <2> QED
    BY <2>1, <2>2
<1>17. \A c \in Datasets : \A e \in Ids : SameRole(c, e)
  <2>1. \A e \in Ids : SameRole(t, e)
    BY <1>1, <1>2, <1>12 DEF SameRole, Own, Owned, Makes, Making, Works, LocalOK, KindOf, Requests,
      Scanning, Freeing, Flushing, Stuck
  <2> QED
    BY <1>13, <2>1, RoleFrame
<1>18. ~InSlot(d, b)'
  <2>1. BlockOK(d, b) /\ b # NoBlock
    BY DEF Places, Ids, NoBlock
  <2> QED
    BY <1>7, <1>9, <2>1 DEF BlockOK, Slotted, InSlot
<1>19. BlockOK(d, b)'
  <2>1. BlockOK(d, b) /\ SameRole(d, b)
    BY <1>17 DEF Places
  <2>2. Evicted(d, b)' /\ ~Own(d, b)' /\ LockOf(d, b)' = LockOf(d, b)
    BY <1>6, <1>16, <2>1 DEF SameRole, LockOf
  <2>3. Dead(d, b)' /\ GivenBack(d, b)' /\ Listed(d, b)' /\ Placed(d, b)'
    BY <1>6, <1>10, <2>2 DEF Dead, GivenBack, Listed, Placed
  <2>4. Slotted(d, b)' /\ LeavesSlot(d, b)'
    BY <1>15, <1>18 DEF Slotted, InSlot, LeavesSlot
  <2>5. OutOfList(d, b)'
    BY <1>6, <1>10, <1>18, <2>2 DEF OutOfList
  <2>6. OneEvictor(d, b)'
    BY <1>13, <1>14, <2>1 DEF BlockOK, OneEvictor
  <2> QED
    BY <2>3, <2>4, <2>5, <2>6 DEF BlockOK
<1>20. ASSUME NEW c \in Datasets
       PROVE  Mine1(c)'
  <2>1. Mine1(c)
    BY DEF Places
  <2>2. \A j \in Positions :
          /\ slot'[c][j] \in {slot[c][j], NoBlock}
          /\ Leaving(c, slot[c][j]) => slot'[c][j] = NoBlock
    <3>1. ASSUME NEW j \in Positions, Leaving(c, slot[c][j])
          PROVE  slot'[c][j] = NoBlock
      <4>1. c = d /\ slot[d][j] = b
        BY <1>4, <1>15, <3>1
      <4>2. j = i
        BY <1>7, <4>1 DEF Places, BlockOK, Slotted
      <4> QED
        BY <1>9, <4>1, <4>2
    <3> QED
      BY <1>9, <3>1
  <2>3. CASE c = d /\ thread[d].mine = b
    <3>1. d # t
      BY <1>2, <1>6, <2>3, EvictorsOwn DEF Scanning
    <3>2. thread'[d] = thread[d] /\ Evicted(d, b)' /\ ~InSlot(d, b)'
      BY <1>6, <1>13, <1>16, <1>18, <3>1
    <3>3. ~Making(d) /\ ~Flusher(d) /\ thread[d].pc \notin {"use", "fill", "remove"}
      BY <1>5, <1>6, <2>3, InHand DEF Makes, Works
    <3>4. ~Making(d)' /\ ~Flusher(d)'
      BY <3>2, <3>3 DEF Making, Flusher
    <3>5. thread[d].pc \in {"addlock", "unlock", "create", "internalize", "take", "droplock", "evicted"} =>
            thread[d].pos \in Positions
      BY LocalNow DEF LocalOK, MineOf, KindOf, Requests, Flushing
    <3>6. /\ thread[d].pc \in Stuck => slot'[d][thread[d].pos] = NoBlock
          /\ thread[d].pc \in {"unlock", "create", "internalize"} => slot'[d][thread[d].pos] = NoBlock
          /\ thread[d].pc = "addlock" => slot'[d][thread[d].pos] \in {NoBlock, b}
          /\ thread[d].pc = "take" /\ thread[d].kind \in Requests => slot'[d][thread[d].pos] = NoBlock
          /\ thread[d].pc = "droplock" /\ thread[d].kind \in Requests => ~block[d][b].dirty
      <4>1. slot'[d][i] = NoBlock /\ \A j \in Positions : slot'[d][j] = b => j = i
        BY <1>7, <1>9 DEF Places, BlockOK, Slotted
      <4>2. b # NoBlock
        BY DEF Ids, NoBlock
      <4> QED
        BY <2>1, <2>2, <2>3, <3>5, <4>1, <4>2 DEF Mine1, Stuck
    <3> QED
      BY <1>10, <2>3, <3>2, <3>3, <3>4, <3>6 DEF Mine1, Stuck
  <2>4. CASE ~(c = d /\ thread[d].mine = b)
    <3>1. PICK m : m = thread[c].mine
      OBVIOUS
    <3>2. /\ thread'[c].mine = m /\ thread'[c].pos = thread[c].pos /\ thread'[c].kind = thread[c].kind
          /\ \/ thread'[c] = thread[c]
             \/ /\ thread[c].kind \notin Flushing /\ (Put(c)' <=> Put(c))
                /\ thread[c].pc \in Scanning \cup Freeing /\ thread'[c].pc \in Scanning \cup Freeing
      BY <1>2, <1>12, <1>13, <3>1 DEF Put, Scanning, Freeing
    <3>3. m \in Ids =>
            /\ block'[c][m] = block[c][m] /\ (m \in freeList'[c] <=> m \in freeList[c])
            /\ \A j \in Positions : slot'[c][j] = m <=> slot[c][j] = m
            /\ Evicted(c, m)' <=> Evicted(c, m)
      BY <1>8, <1>9, <1>10, <1>16, <2>4, <3>1 DEF Ids, NoBlock
    <3> QED
      BY <2>1, <2>2, <3>1, <3>2, <3>3, MineCross
  <2> QED
    BY <2>3, <2>4
<1>21. \A c \in Datasets : \A e \in Ids : c # d \/ e # b =>
           /\ HandsOn(c, e) /\ block'[c][e] = block[c][e]
           /\ \A j \in Positions : slot'[c][j] = e <=> slot[c][j] = e
           /\ e \in freeList'[c] <=> e \in freeList[c]
  BY <1>8, <1>9, <1>10, <1>16 DEF Ids, NoBlock
<1>22. Places'
  BY <1>17, <1>19, <1>20, <1>21, CrossStep
<1> QED
  BY <1>16, <1>22

(* The first of the blocks a thread evicted, until it is given back.       *)
LEMMA FirstHand ==
  ASSUME Typed, Control, Places, NEW t \in Datasets, thread[t].kind \notin Flushing,
         thread[t].pc \in Freeing, thread[t].pc # "countdown", thread[t].togo # <<>>
  PROVE  First(t) \in AllBlocks /\ First(t) \in Held(t)
<1>1. /\ thread[t].togo \in Seq(AllBlocks) /\ NoTwice(thread[t].togo)
  BY LocalNow DEF Threads, LocalOK, HandOf
<1>2. 1 \in DOMAIN thread[t].togo /\ thread[t].togo[1] \in AllBlocks
  BY <1>1, TogoTail
<1> QED
  BY <1>2 DEF First, Held, HandsOf

LEMMA WritePlaces ==
  ASSUME Typed, Control, Places, NEW t \in Datasets, Write(t), thread[t].kind \notin Flushing
  PROVE  Places' /\ SameHands
<1> DEFINE old == thread[t]
           w == IF flushErr[First(t)[1]] THEN "failed" ELSE "iwrite"
           r == Locals(w, old.kind, old.pos, old.mine, old.victim, old.togo, old.counted, old.again,
                       old.err, old.ops)
<1>1. old \in Threads /\ LocalOK(t, old)
  BY LocalNow
<1>2. old.pc = "free" /\ old.togo # <<>> /\ old.kind \notin Flushing /\ Becomes(t, r)
  BY WriteStep
<1>r. Becomes(t, r)
  BY <1>2
<1>3. PICK x : x = First(t) /\ x \in AllBlocks /\ x \in Held(t)
  BY <1>2, FirstHand DEF Freeing
<1>4. PICK d \in Datasets, b \in Ids : x = <<d, b>> /\ x[1] = d /\ x[2] = b
  BY <1>3, Pairs
<1>5. /\ block[d][b].live /\ ~block[d][b].listed /\ ~Own(d, b) /\ ~Makes(d, b)
      /\ ~Works(d, b, {"use", "fill", "remove"})
      /\ thread[d].mine = b => ~Flusher(d) /\ ~Making(d)
  BY <1>3, <1>4, InHand
<1>6. /\ thread'[t].pc \in {"failed", "iwrite"} /\ thread'[t].kind = old.kind
      /\ thread'[t].pos = old.pos /\ thread'[t].mine = old.mine /\ thread'[t].again = old.again
      /\ thread'[t].togo = old.togo /\ thread'[t].victim = old.victim
  <2>1. thread'[t] = r
    <3> HIDE DEF r
    <3> QED
      BY <1>r, Others
  <2> QED
    BY <2>1 DEF Locals
<1>7. SameHands
  <2> HIDE DEF r
  <2>1. r.togo = old.togo /\ r.victim = old.victim /\ r.kind = old.kind /\ r.pc = w
    BY DEF Locals, r
  <2> QED
    BY <1>2, <1>r, <2>1, HandsKept
<1>8. \A u \in Datasets \ {t} : thread'[u] = thread[u]
  <2> HIDE DEF r
  <2> QED
    BY <1>r, Others
<1>9. /\ block'[d][b].lock = block[d][b].lock /\ block'[d][b].listed = block[d][b].listed
      /\ block'[d][b].live = block[d][b].live /\ block'[d][b].pos = block[d][b].pos
      /\ block'[d][b].data = block[d][b].data /\ ~block'[d][b].dirty
      /\ \A c \in Datasets : \A e \in Ids : c # d \/ e # b => block'[c][e] = block[c][e]
      /\ slot' = slot /\ freeList' = freeList
  <2> DEFINE e0 == [block[d][b] EXCEPT !.dirty = FALSE]
  <2>1. block' = [block EXCEPT ![d][b] = e0] /\ slot' = slot /\ freeList' = freeList
    BY <1>3, <1>4 DEF Write, SetThe, The, band
  <2>2. /\ block'[d][b] = e0 /\ block[d][b] \in Entries
        /\ \A c \in Ids \ {b} : block'[d][c] = block[d][c]
        /\ \A c \in Datasets \ {d} : block'[c] = block[c]
    <3> HIDE DEF e0
    <3> QED
      BY <2>1, EditBlock
  <2>3. /\ e0.lock = block[d][b].lock /\ e0.listed = block[d][b].listed /\ e0.live = block[d][b].live
        /\ e0.pos = block[d][b].pos /\ e0.data = block[d][b].data /\ ~e0.dirty
    BY <2>2 DEF Entries
  <2> HIDE DEF e0
  <2> QED
    BY <2>1, <2>2, <2>3
<1>10. \A c \in Datasets : \A e \in Ids : SameRole(c, e)
  <2>1. \A e \in Ids : SameRole(t, e)
    BY <1>1, <1>2, <1>6 DEF SameRole, Own, Owned, Makes, Making, Works, LocalOK, KindOf, Requests,
      Scanning, Freeing, Flushing, Stuck
  <2> QED
    BY <1>8, <2>1, RoleFrame
<1>11. \A c, e : InSlot(c, e)' <=> InSlot(c, e)
  BY <1>9 DEF InSlot
<1>12. BlockOK(d, b)'
  <2>1. BlockOK(d, b) /\ SameRole(d, b)
    BY <1>10 DEF Places
  <2>2. LockOf(d, b)' = LockOf(d, b)
    BY <2>1 DEF SameRole, LockOf
  <2>3. Dead(d, b)' /\ GivenBack(d, b)' /\ Listed(d, b)' /\ Placed(d, b)' /\ Slotted(d, b)'
    BY <1>5, <1>7, <1>9, <1>11, <2>1, <2>2 DEF BlockOK, Dead, GivenBack, Listed, Placed, Slotted, SameHands,
      SameRole
  <2>4. OutOfList(d, b)' /\ OneEvictor(d, b)'
    BY <1>7, <1>9, <1>11, <2>1, <2>2 DEF BlockOK, OutOfList, OneEvictor, SameHands, SameRole
  <2>5. LeavesSlot(d, b)'
    <3>1. thread'[d].pos = thread[d].pos /\ (Works(d, b, Stuck)' <=> Works(d, b, Stuck))
      BY <1>2, <1>6, <1>8 DEF Works, Stuck
    <3> QED
      BY <1>7, <1>9, <2>1, <3>1 DEF BlockOK, LeavesSlot, SameHands
  <2> QED
    BY <2>3, <2>4, <2>5 DEF BlockOK
<1>13. ASSUME NEW c \in Datasets
       PROVE  Mine1(c)'
  <2>1. Mine1(c)
    BY DEF Places
  <2>2. CASE c = d /\ thread[d].mine = b
    <3>1. d # t
      BY <1>2, <1>5, <2>2, EvictorsOwn DEF Freeing
    <3>2. thread'[d] = thread[d] /\ ~Making(d) /\ ~Flusher(d) /\ ~Making(d)' /\ ~Flusher(d)'
      BY <1>5, <1>8, <2>2, <3>1 DEF Making, Flusher
    <3> QED
      BY <1>7, <1>9, <1>11, <2>1, <2>2, <3>2 DEF Mine1, SameHands
  <2>3. CASE ~(c = d /\ thread[d].mine = b)
    <3>1. PICK m : m = thread[c].mine
      OBVIOUS
    <3>2. /\ thread'[c].mine = m /\ thread'[c].pos = thread[c].pos /\ thread'[c].kind = thread[c].kind
          /\ \/ thread'[c] = thread[c]
             \/ /\ thread[c].kind \notin Flushing /\ (Put(c)' <=> Put(c))
                /\ thread[c].pc \in Scanning \cup Freeing /\ thread'[c].pc \in Scanning \cup Freeing
      BY <1>2, <1>6, <1>8, <3>1 DEF Put, Scanning, Freeing
    <3> QED
      BY <1>7, <1>9, <2>1, <2>3, <3>1, <3>2, MineCross DEF SameHands
  <2> QED
    BY <2>2, <2>3
<1>14. Places'
  BY <1>7, <1>9, <1>10, <1>12, <1>13, CrossStep DEF SameHands, HandsOn
<1> QED
  BY <1>7, <1>14

LEMMA AddBlockPlaces ==
  ASSUME Typed, Control, Places, NEW t \in Datasets, AddBlockToFreeList(t)
  PROVE  /\ Places' /\ thread[t].kind \notin Flushing
         /\ \A c, e : Evicted(c, e)' => Evicted(c, e)
<1> DEFINE old == thread[t]
           r == Locals("countdown", old.kind, old.pos, old.mine, old.victim, old.togo, old.counted,
                       old.again, old.err, old.ops)
<1>1. old \in Threads /\ LocalOK(t, old)
  BY LocalNow
<1>2. old.kind \notin Flushing
  <2>1. SUFFICES ASSUME old.kind \in Flushing PROVE FALSE
    OBVIOUS
  <2>2. old.pc = "free" /\ old.togo # <<>> /\ ~The(First(t)).dirty
    BY <1>1, <2>1 DEF AddBlockToFreeList, At, LocalOK, KindOf, Scanning, Requests, Flushing
  <2>3. First(t) = <<t, old.mine>>
    BY <1>1, <2>1, <2>2 DEF LocalOK, HandOf, Freeing, First
  <2> QED
    BY <2>1, <2>2, <2>3 DEF Places, Mine1, Flusher, The
<1>3. old.pc \in {"giveback", "free"} /\ old.togo # <<>> /\ Becomes(t, r)
  BY <1>2, AddBlockStep
<1>r. Becomes(t, r)
  BY <1>3
<1>4. PICK x : x = First(t) /\ x \in AllBlocks /\ x \in Held(t)
  BY <1>2, <1>3, FirstHand DEF Freeing
<1>5. PICK d \in Datasets, b \in Ids : x = <<d, b>> /\ x[1] = d /\ x[2] = b
  BY <1>4, Pairs
<1>6. /\ block[d][b].live /\ ~block[d][b].listed /\ ~Own(d, b) /\ ~Makes(d, b)
      /\ block[d][b].lock = LockOf(d, b)
      /\ ~Works(d, b, {"use", "fill", "remove"})
      /\ ~Leaving(d, b) => ~InSlot(d, b)
      /\ \A u \in Datasets : <<d, b>> \in Held(u) => u = t
      /\ thread[d].mine = b => ~Flusher(d) /\ ~Making(d)
  BY <1>4, <1>5, InHand
<1>7. /\ thread'[t].pc = "countdown" /\ thread'[t].kind = old.kind
      /\ thread'[t].pos = old.pos /\ thread'[t].mine = old.mine /\ thread'[t].again = old.again
      /\ thread'[t].togo = old.togo /\ thread'[t].victim = old.victim
  <2>1. thread'[t] = r
    <3> HIDE DEF r
    <3> QED
      BY <1>r, Others
  <2> QED
    BY <2>1 DEF Locals
<1>8. \A u \in Datasets \ {t} : thread'[u] = thread[u] /\ Held(u)' = Held(u)
  <2> HIDE DEF r
  <2> QED
    BY <1>r, Others
<1>9. \A y : y \in Held(t)' <=> y \in Held(t) /\ y # x
  BY <1>2, <1>3, <1>4, <1>7 DEF Held, HandsOf, First
<1>10. \A c, e : Leaving(c, e)' <=> Leaving(c, e)
  BY <1>3, <1>7, <1>8 DEF Leaving
<1>11. ~Evicted(d, b)' /\ ~Leaving(d, b) /\ ~InSlot(d, b)
  <2>1. ~Evicted(d, b)'
    BY <1>5, <1>6, <1>8, <1>9 DEF Evicted
  <2>2. ~Leaving(d, b)
    <3>1. ASSUME NEW u \in Datasets, thread[u].pc = "unref", thread[u].victim = <<d, b>>
          PROVE  <<d, b>> \in Held(u)
      BY <3>1, LocalNow DEF LocalOK, KindOf, HandOf, Held, HandsOf, Scanning, Flushing, Requests
    <3> QED
      BY <1>3, <1>6, <3>1 DEF Leaving
  <2> QED
    BY <1>6, <2>1, <2>2
<1>12. \A c \in Datasets : \A e \in Ids : c # d \/ e # b =>
         HandsOn(c, e)
  <2>1. ASSUME NEW c \in Datasets, NEW e \in Ids, c # d \/ e # b
        PROVE  HandsOn(c, e)
    <3>1. <<c, e>> # x
      BY <1>5, <2>1
    <3>2. \A u \in Datasets : <<c, e>> \in Held(u)' <=> <<c, e>> \in Held(u)
      BY <1>8, <1>9, <3>1
    <3> QED
      BY <1>10, <3>2 DEF HandsOn, Evicted
  <2> QED
    BY <2>1
<1>13. /\ block'[d][b].lock = block[d][b].lock /\ ~block'[d][b].listed
       /\ block'[d][b].live /\ block'[d][b].pos = 0
       /\ ~block'[d][b].data /\ ~block'[d][b].dirty
       /\ \A c \in Datasets : \A e \in Ids : c # d \/ e # b => block'[c][e] = block[c][e]
       /\ slot' = slot /\ b \in freeList'[d]
       /\ \A c \in Datasets : \A e \in Ids : c # d \/ e # b => (e \in freeList'[c] <=> e \in freeList[c])
  <2> DEFINE n == block[d][b].lock
             e0 == [Fresh(0) EXCEPT !.lock = n]
  <2>1. /\ block' = [block EXCEPT ![d][b] = e0] /\ slot' = slot
        /\ freeList' = [freeList EXCEPT ![d] = @ \cup {b}]
    BY <1>4, <1>5 DEF AddBlockToFreeList, SetThe, The
  <2>2. /\ e0.lock = n /\ ~e0.listed /\ e0.live /\ e0.pos = 0 /\ ~e0.data /\ ~e0.dirty
    <3> HIDE DEF n
    <3> QED
      BY DEF Fresh, Deleted
  <2> HIDE DEF e0
  <2>3. /\ block'[d][b] = e0 /\ block[d][b] \in Entries
        /\ \A c \in Ids \ {b} : block'[d][c] = block[d][c]
        /\ \A c \in Datasets \ {d} : block'[c] = block[c]
    BY <2>1, EditBlock
  <2>4. /\ b \in freeList'[d]
        /\ \A c \in Datasets : \A e \in Ids : c # d \/ e # b => (e \in freeList'[c] <=> e \in freeList[c])
    BY <2>1 DEF Typed
  <2> QED
    BY <2>1, <2>2, <2>3, <2>4
<1>14. \A c \in Datasets : \A e \in Ids : SameRole(c, e)
  <2>1. \A e \in Ids : SameRole(t, e)
    BY <1>1, <1>2, <1>3, <1>7 DEF SameRole, Own, Owned, Makes, Making, Works, LocalOK, KindOf, Requests,
      Scanning, Freeing, Flushing, Stuck
  <2> QED
    BY <1>8, <2>1, RoleFrame
<1>15. BlockOK(d, b)'
  <2>1. BlockOK(d, b) /\ SameRole(d, b)
    BY <1>14 DEF Places
  <2>2. LockOf(d, b)' = LockOf(d, b) /\ ~Own(d, b)'
    BY <1>6, <2>1 DEF SameRole, LockOf
  <2>3. ~InSlot(d, b)' /\ ~Evicted(d, b)' /\ ~Leaving(d, b)'
    BY <1>10, <1>11, <1>13 DEF InSlot
  <2>4. Dead(d, b)' /\ GivenBack(d, b)' /\ Listed(d, b)' /\ Placed(d, b)'
    BY <1>6, <1>13, <2>2, <2>3 DEF Dead, GivenBack, Listed, Placed
  <2>5. OutOfList(d, b)' /\ OneEvictor(d, b)' /\ LeavesSlot(d, b)' /\ Slotted(d, b)'
    BY <2>3 DEF OutOfList, OneEvictor, LeavesSlot, Slotted, Evicted, InSlot
  <2> QED
    BY <2>4, <2>5 DEF BlockOK
<1>16. ASSUME NEW c \in Datasets
       PROVE  Mine1(c)'
  <2>1. Mine1(c)
    BY DEF Places
  <2>2. CASE c = d /\ thread[d].mine = b
    <3>1. d # t
      BY <1>2, <1>3, <1>6, <2>2, EvictorsOwn DEF Freeing
    <3>2. thread'[d] = thread[d] /\ ~Making(d) /\ ~Flusher(d) /\ ~Making(d)' /\ ~Flusher(d)'
      BY <1>6, <1>8, <2>2, <3>1 DEF Making, Flusher
    <3>3. thread[d].pc \notin {"use", "fill", "remove"}
      BY <1>6, <2>2 DEF Works
    <3>4. b # NoBlock
      BY DEF Ids, NoBlock
    <3>5. thread[d].pc = "take" /\ thread[d].kind \in Requests => slot[d][thread[d].pos] = NoBlock
      <4>1. thread[d].pc = "take" /\ thread[d].kind \in Requests => thread[d].pos \in Positions
        BY LocalNow DEF LocalOK, MineOf
      <4> QED
        BY <1>11, <2>1, <2>2, <4>1 DEF Mine1, InSlot
    <3> QED
      BY <1>10, <1>13, <2>1, <2>2, <3>2, <3>3, <3>5 DEF Mine1
  <2>3. CASE ~(c = d /\ thread[d].mine = b)
    <3>1. PICK m : m = thread[c].mine
      OBVIOUS
    <3>2. /\ thread'[c].mine = m /\ thread'[c].pos = thread[c].pos /\ thread'[c].kind = thread[c].kind
          /\ \/ thread'[c] = thread[c]
             \/ /\ thread[c].kind \notin Flushing /\ (Put(c)' <=> Put(c))
                /\ thread[c].pc \in Scanning \cup Freeing /\ thread'[c].pc \in Scanning \cup Freeing
      BY <1>2, <1>3, <1>7, <1>8, <3>1 DEF Put, Scanning, Freeing
    <3>3. m \in Ids =>
            /\ block'[c][m] = block[c][m] /\ (m \in freeList'[c] <=> m \in freeList[c])
            /\ \A i \in Positions : slot'[c][i] = m <=> slot[c][i] = m
            /\ Evicted(c, m)' <=> Evicted(c, m)
      BY <1>12, <1>13, <2>3, <3>1 DEF HandsOn
    <3>4. \A i \in Positions :
            /\ slot'[c][i] \in {slot[c][i], NoBlock}
            /\ Leaving(c, slot[c][i]) => slot'[c][i] = NoBlock \/ Leaving(c, slot[c][i])'
      BY <1>10, <1>13
    <3> QED
      BY <2>1, <3>1, <3>2, <3>3, <3>4, MineCross
  <2> QED
    BY <2>2, <2>3
<1>17. \A c \in Datasets : \A e \in Ids : c # d \/ e # b =>
           /\ HandsOn(c, e) /\ block'[c][e] = block[c][e]
           /\ \A i \in Positions : slot'[c][i] = e <=> slot[c][i] = e
           /\ e \in freeList'[c] <=> e \in freeList[c]
  BY <1>12, <1>13
<1>18. Places'
  BY <1>2, <1>14, <1>15, <1>16, <1>17, CrossStep
<1>19. \A c, e : Evicted(c, e)' => Evicted(c, e)
  BY <1>8, <1>9 DEF Evicted
<1> QED
  BY <1>2, <1>18, <1>19

-----------------------------------------------------------------------------
(***************************************************************************)
(* Types, locals and places hold initially and after every step.           *)
(***************************************************************************)
Sound == Typed /\ Control /\ Places

LEMMA SoundInit ==
  ASSUME Init
  PROVE  Sound
<1>1. \A t \in Datasets : thread[t] = Idle
  BY DEF Init
<1>2. /\ Idle.pc = "idle" /\ Idle.kind = "none" /\ Idle.pos = 0 /\ Idle.mine = NoBlock
      /\ Idle.victim = NoVictim /\ Idle.togo = <<>> /\ ~Idle.counted /\ ~Idle.again /\ ~Idle.err
      /\ Idle \in Threads
  BY DEF Idle, Threads, Pcs
<1>3. Typed
  BY <1>2, Blank DEF Init, Typed, NoBlock
<1>4. Control
  <2>1. ASSUME NEW t \in Datasets
        PROVE  hRBLock # t /\ KindOf(Idle) /\ MineOf(Idle) /\ HandOf(t, Idle) /\ CountOf(Idle)
    <3>1. hRBLock # t
      BY CacheAssumption DEF Init
    <3>2. KindOf(Idle) /\ MineOf(Idle) /\ CountOf(Idle)
      BY <1>2 DEF KindOf, MineOf, CountOf, Scanning, Freeing, Requests, Flushing
    <3>3. HandOf(t, Idle)
      BY <1>2 DEF HandOf, NoTwice, Scanning, Freeing, Flushing
    <3> QED
      BY <3>1, <3>2, <3>3
  <2> QED
    BY <1>1, <1>2, <2>1 DEF Control, Scanning
<1>5. Places
  <2>1. \A u \in Datasets : HandsOf(u) = {} /\ Held(u) = {} /\ thread[u].pc = "idle" /\ thread[u].mine \notin Ids
    BY <1>1, <1>2 DEF HandsOf, Held, Ids, NoBlock
  <2>2. ASSUME NEW d \in Datasets, NEW b \in Ids
        PROVE  /\ ~InSlot(d, b) /\ ~Evicted(d, b) /\ ~Leaving(d, b) /\ ~Own(d, b) /\ freeList[d] = {}
               /\ ~block[d][b].live /\ ~block[d][b].listed /\ block[d][b].lock = 0
    <3>1. block[d][b] = Deleted /\ (\A i \in Positions : slot[d][i] = NoBlock) /\ freeList[d] = {}
      BY DEF Init
    <3> QED
      BY <2>1, <3>1 DEF InSlot, Evicted, Leaving, Own, Owned, Deleted, Ids, NoBlock
  <2>3. ASSUME NEW d \in Datasets, NEW b \in Ids
        PROVE  BlockOK(d, b)
    BY <2>1, <2>2 DEF BlockOK, Dead, Slotted, GivenBack, OutOfList, OneEvictor, Listed, Placed,
      LeavesSlot, InSlot, Held
  <2>4. ASSUME NEW d \in Datasets
        PROVE  Mine1(d)
    BY <2>1 DEF Mine1, Making, Flusher, Stuck, Scanning, Freeing
  <2> QED
    BY <2>3, <2>4 DEF Places
<1> QED
  BY <1>3, <1>4, <1>5 DEF Sound

(* Steps that do no more than look further for a block to evict.           *)
Quiet == UNCHANGED <<faults, hRBLock, nCacheUsed, block, slot, band, rwMutex, disk, thread,
                     history>>

LEMMA LooksOn ==
  ASSUME NEW t, NEW x, Pass(t, x) \/ Rescan(t) \/ UNCHANGED vars
  PROVE  Quiet
  BY DEF Pass, Rescan, vars, cache, Quiet

LEMMA SoundQuiet ==
  ASSUME Sound, Quiet
  PROVE  Sound'
<1> USE DEF Quiet, band, history
<1>1. Typed'
  BY DEF Sound, Typed
<1>2. Control'
  BY DEF Sound, Control
<1>3. SameHands /\ \A d \in Datasets : UNCHANGED <<thread[d], block[d], slot[d], freeList[d]>>
  BY DEF SameHands, Held, HandsOf, First, Evicted, Leaving
<1>4. ASSUME NEW d \in Datasets
      PROVE  Mine1(d)' /\ \A b \in Ids : BlockOK(d, b)'
  <2>1. Mine1(d)'
    BY <1>3, MineFrame DEF Sound, Places
  <2>2. ASSUME NEW b \in Ids
        PROVE  BlockOK(d, b)'
    <3>1. BlockOK(d, b) /\ SameRole(d, b) /\ (Leaving(d, b) => Evicted(d, b))
      BY <1>3, RoleFrame, LeavingHeld DEF Sound, Places
    <3>2. HandsOn(d, b)
      BY <1>3 DEF SameHands, HandsOn
    <3> QED
      BY <1>3, <3>1, <3>2, BlockFrame
  <2> QED
    BY <2>1, <2>2
<1> QED
  BY <1>1, <1>2, <1>4 DEF Sound, Places

LEMMA SoundRequest ==
  ASSUME Sound, NEW t \in Datasets, Request(t)
  PROVE  Sound'
<1> USE DEF Sound
<1>1. CASE \E kind \in {"read", "write", "update"}, i \in Positions : RasterIO(t, kind, i)
  <2>1. PICK kind \in Requests, i \in Positions : RasterIO(t, kind, i)
    BY <1>1 DEF Requests
  <2>2. CASE kind # "read" /\ flushErr[t]
    BY <2>1, <2>2, RefuseStep, RefusePlaces
  <2>3. CASE kind = "read" \/ ~flushErr[t]
    BY <2>1, <2>3, RequestStep, RequestPlaces
  <2> QED
    BY <2>2, <2>3
<1>2. CASE FlushCacheBlock(t)
  BY <1>2, EvictStep, EvictPlaces
<1>3. CASE FlushCache(t, "flush")
  BY <1>3, FlushCacheStep, FlushCachePlaces DEF Flushing
<1> QED
  BY <1>1, <1>2, <1>3 DEF Request

LEMMA SoundRun ==
  ASSUME Sound, NEW t \in Datasets, Run(t)
  PROVE  Sound'
<1> USE DEF Sound
<1>1. CASE WaitPending(t) \/ EnterReadWrite(t) \/ Lookup(t) \/ AddLock(t) \/ TakeLockFails(t)
           \/ LeaveReadWrite(t) \/ CreateBlock(t) \/ Internalize(t)
  BY <1>1, WaitPendingStep, WaitPendingPlaces, EnterStep, EnterPlaces, LookupStep, LookupPlaces,
    AddLockStep, AddLockPlaces, TakeLockFailsStep, TakeLockFailsPlaces, LeaveStep, LeavePlaces,
    CreateStep, CreatePlaces, InternalizeStep, InternalizePlaces
<1>2. CASE Use(t)
  BY <1>2, UseReadStep, UseReadPlaces, UseStep, UsePlaces
<1>3. CASE (\E full \in BOOLEAN : Unreference(t, full)) \/ CountDown(t) \/ Malloc(t) \/ Adopt(t) \/ FlushBlocks(t) \/ Delete(t)
           \/ IWriteBlock(t)
  BY <1>3, UnreferenceStep, UnreferencePlaces, CountDownStep, CountDownPlaces, MallocStep,
    MallocPlaces, AdoptStep, AdoptPlaces, FlushBlocksStep, FlushBlocksPlaces, DeleteStep,
    DeletePlaces, IWriteStep, IWritePlaces
<1>4. CASE (\E x \in AllBlocks : Pass(t, x) \/ Claim(t, x)) \/ Rescan(t)
  BY <1>4, ClaimStep, ClaimPlaces, LooksOn, SoundQuiet
<1>5. CASE Touch(t)
  BY <1>5, TouchKeepStep, TouchKeepPlaces, TouchPutStep, TouchPutPlaces
<1>6. CASE Write(t)
  BY <1>6, WriteStep, WritePlaces, WriteOwnPlaces
<1>7. CASE WriteFailed(t)
  BY <1>7, WriteFailedFlushStep, WriteFailedFlushPlaces, WriteFailedStep, WriteFailedPlaces
<1>8. CASE AddBlockToFreeList(t)
  BY <1>8, AddBlockStep, AddBlockPlaces
<1>9. CASE Freed(t)
  BY <1>9, FreedEvictStep, FreedEvictPlaces, FreedStep, FreedPlaces
<1>10. CASE Fill(t)
  BY <1>10, FillStep, FillWholePlaces, FillReadPlaces, FillFailsPlaces
<1>11. CASE FlushCache(t, "close") \/ FlushCache(t, "destroy")
  BY <1>11, FlushCacheStep, FlushCachePlaces DEF Flushing
<1>12. CASE Take(t)
  BY <1>12, TakeStep, TakePlaces, TakeLeaveStep, TakeLeavePlaces, TakeNextStep, TakeNextPlaces
<1>13. CASE DropLockForRemoval(t)
  BY <1>13, DropLockStep, DropLockPlaces, DropLockEvictedStep, DropLockEvictedPlaces
<1>14. CASE WaitEviction(t)
  BY <1>14, WaitEvictionLeaveStep, WaitEvictionLeavePlaces, WaitEvictionStep, WaitEvictionPlaces
<1>15. CASE Remove(t)
  <2>1. CASE Mine(t).dirty /\ ~thread[t].err
    <3>1. thread[t].pc = "remove" /\ thread[t].kind \in Requests \cup Flushing
      BY <1>15, LocalNow DEF Remove, At, LocalOK, KindOf
    <3>2. thread[t].kind \in Flushing
      BY <2>1, <3>1 DEF Places, Mine1, Mine
    <3> QED
      BY <1>15, <2>1, <3>2, RemoveWriteStep, RemoveWritePlaces
  <2>2. CASE ~(Mine(t).dirty /\ ~thread[t].err)
    BY <1>15, <2>2, RemoveLeaveStep, RemoveLeavePlaces, RemoveNextStep, RemoveNextPlaces
  <2> QED
    BY <2>1, <2>2
<1>16. CASE Flushed(t)
  <2>1. thread[t].kind \in Flushing
    BY <1>16, LocalNow DEF Flushed, At, LocalOK, KindOf
  <2> QED
    BY <1>16, <2>1, FlushedStep, FlushedPlaces, ClosedStep, ClosedPlaces, DestroyedStep,
      DestroyedPlaces DEF Flushing
<1> QED
  BY <1>1, <1>2, <1>3, <1>4, <1>5, <1>6, <1>7, <1>8, <1>9, <1>10, <1>11, <1>12, <1>13, <1>14,
    <1>15, <1>16 DEF Run

LEMMA AlwaysSound ==
  Spec => []Sound
<1>1. Init => Sound
  BY SoundInit
<1>2. Sound /\ [Next]_vars => Sound'
  <2>1. ASSUME Sound, Next
        PROVE  Sound'
    BY <2>1, SoundRequest, SoundRun DEF Next
  <2> QED
    BY <2>1, LooksOn, SoundQuiet
<1> QED
  BY <1>1, <1>2, PTL DEF Spec

(* A thread that looks for room leaves no block of its own dataset behind: *)
(* none of them is locked but the one it makes, which is not in the list.  *)
Seek ==
  /\ search \in [passed : SUBSET AllBlocks, other : {NoVictim} \cup AllBlocks, any : BOOLEAN]
  /\ hRBLock = Nobody => search = NoSearch
  /\ \A x \in search.passed : x[1] # hRBLock

LEMMA OwnUnlocked ==
  ASSUME Sound, NEW t \in Datasets, thread[t].pc = "scan", NEW x \in InList, x[1] = t
  PROVE  Unlocked(x)
<1>1. PICK b \in Ids : x = <<t, b>> /\ x[1] = t /\ x[2] = b
  BY Pairs DEF InList
<1>2. BlockOK(t, b) /\ Mine1(t) /\ block[t][b].listed
  BY <1>1 DEF Sound, Places, InList, The
<1>3. ~Makes(t, b)
  BY <1>2 DEF Makes, Mine1, Put, Freeing
<1>4. block[t][b].lock = 0
  BY <1>2, <1>3 DEF BlockOK, Listed, Works
<1> QED
  BY <1>1, <1>4 DEF Unlocked, The

LEMMA SeekStep ==
  ASSUME Sound, Seek, NEW t \in Datasets, Request(t) \/ Run(t)
  PROVE  Seek'
<1>1. CASE UNCHANGED <<search, hRBLock>>
  BY <1>1 DEF Seek
<1>2. CASE FlushCacheBlock(t)
  <2>1. search' = [passed |-> {}, other |-> NoVictim, any |-> TRUE] /\ hRBLock' = t
    BY <1>2 DEF FlushCacheBlock, NoSearch
  <2> QED
    BY <2>1, CacheAssumption DEF Seek
<1>3. CASE Internalize(t)
  <2>1. hRBLock = Nobody /\ hRBLock' = t /\ search' = search
    BY <1>3 DEF Internalize
  <2> QED
    BY <2>1, CacheAssumption DEF Seek, NoSearch
<1>4. CASE Touch(t)
  <2>1. hRBLock' = Nobody /\ search' = NoSearch
    BY <1>4 DEF Touch
  <2> QED
    BY <2>1 DEF Seek, NoSearch
<1>5. CASE \E x \in AllBlocks : Claim(t, x)
  <2>1. search' = [search EXCEPT !.other = NoVictim, !.any = FALSE] /\ hRBLock' = hRBLock
        /\ hRBLock = t
    BY <1>5 DEF Claim, At, Sound, Control, Scanning
  <2> QED
    BY <2>1, CacheAssumption DEF Seek
<1>6. CASE Rescan(t)
  <2>1. search' = [passed |-> {}, other |-> NoVictim, any |-> TRUE] /\ hRBLock' = hRBLock
        /\ hRBLock = t
    BY <1>6 DEF Rescan, NoSearch, At, Sound, Control, Scanning
  <2> QED
    BY <2>1, CacheAssumption DEF Seek
<1>7. ASSUME NEW x \in AllBlocks, Pass(t, x)
      PROVE  Seek'
  <2>1. /\ hRBLock' = hRBLock /\ hRBLock = t /\ t # Nobody /\ thread[t].pc = "scan"
        /\ x \in InList /\ ~(Unlocked(x) /\ Suits(t, x))
    BY <1>7, CacheAssumption DEF Pass, At, Sound, Control, Scanning, Ahead
  <2>2. x[1] # t
    BY <2>1, OwnUnlocked DEF Suits
  <2>3. PICK o \in {NoVictim} \cup AllBlocks :
          search' = [search EXCEPT !.passed = @ \cup {x}, !.other = o]
    BY <1>7 DEF Pass, Seek
  <2> QED
    BY <2>1, <2>2, <2>3 DEF Seek
<1> QED
  <2>1. CASE Request(t)
    <3>1. ASSUME NEW kind, NEW i, RasterIO(t, kind, i)
          PROVE  UNCHANGED <<search, hRBLock>>
      BY <3>1 DEF RasterIO, cache
    <3>2. FlushCache(t, "flush") => UNCHANGED <<search, hRBLock>>
      BY DEF FlushCache, cache
    <3> QED
      BY <1>1, <1>2, <2>1, <3>1, <3>2 DEF Request
  <2>2. CASE Run(t)
    <3>1. CASE WaitPending(t) \/ EnterReadWrite(t) \/ Lookup(t) \/ AddLock(t)
               \/ TakeLockFails(t) \/ Use(t) \/ LeaveReadWrite(t) \/ CreateBlock(t)
      BY <1>1, <3>1 DEF WaitPending, EnterReadWrite, Lookup, AddLock, TakeLockFails, Use,
        LeaveReadWrite, CreateBlock, cache
    <3>2. CASE \E full \in BOOLEAN : Unreference(t, full)
      BY <1>1, <3>2 DEF Unreference
    <3>3. CASE Write(t) \/ IWriteBlock(t) \/ WriteFailed(t) \/ AddBlockToFreeList(t)
               \/ CountDown(t) \/ Freed(t) \/ Malloc(t) \/ Adopt(t) \/ Fill(t)
      BY <1>1, <3>3 DEF Write, IWriteBlock, WriteFailed, AddBlockToFreeList, CountDown, Freed,
        Malloc, Adopt, Fill, cache
    <3>4. CASE FlushCache(t, "close") \/ FlushCache(t, "destroy") \/ FlushBlocks(t) \/ Take(t)
               \/ DropLockForRemoval(t) \/ WaitEviction(t) \/ Remove(t) \/ Delete(t) \/ Flushed(t)
      BY <1>1, <3>4 DEF FlushCache, FlushBlocks, Take, DropLockForRemoval, WaitEviction, Remove,
        Delete, Flushed, cache
    <3> QED
      BY <1>3, <1>4, <1>5, <1>6, <1>7, <2>2, <3>1, <3>2, <3>3, <3>4 DEF Run
  <2> QED
    BY <2>1, <2>2

LEMMA AlwaysSeek ==
  Spec => []Seek
<1>1. Init => Seek
  BY CacheAssumption DEF Init, Seek, NoSearch
<1>2. Sound /\ Seek /\ [Next]_vars => Seek'
  <2>1. UNCHANGED vars => UNCHANGED <<search, hRBLock>>
    BY DEF vars, cache
  <2>2. ASSUME Sound, Seek, Next
        PROVE  Seek'
    BY <2>2, SeekStep DEF Next
  <2> QED
    BY <2>1, <2>2 DEF Seek
<1> QED
  BY <1>1, <1>2, AlwaysSound, PTL DEF Spec

(* Every block of the cache is in one place: in the slot of its band, on   *)
(* the free list or in the hands of one thread, whatever threads do.       *)
THEOREM OneHolderHolds ==
  Spec => []OneHolder
<1>1. ASSUME Sound
      PROVE  OneHolder
  <2>1. SUFFICES ASSUME NEW x \in AllBlocks
                 PROVE  LET d == x[1]
                            inSlot == \E i \in Positions : slot[d][i] = x[2]
                            inFree == x[2] \in freeList[d]
                        IN IF ~The(x).live
                             THEN ~inSlot /\ ~inFree /\ Evictors(x) = {} /\ ~Owned(x) /\ ~The(x).listed
                             ELSE /\ Cardinality(Evictors(x)) + (IF inFree THEN 1 ELSE 0)
                                       + (IF Owned(x) THEN 1 ELSE 0)
                                     = IF Evictors(x) # {} \/ inFree \/ Owned(x) THEN 1 ELSE 0
                                  /\ Evictors(x) = {} /\ ~inFree /\ ~Owned(x) =>
                                       \/ slot[d][The(x).pos] = x[2]
                                       \/ At(d, "droplock") /\ thread[d].mine = x[2]
                                  /\ inSlot => slot[d][The(x).pos] = x[2] /\ ~inFree /\ ~Owned(x)
    BY DEF OneHolder
  <2>2. PICK d \in Datasets, b \in Ids : x = <<d, b>> /\ x[1] = d /\ x[2] = b
    BY Pairs
  <2>3. /\ Evictors(x) = {u \in Datasets : x \in Held(u)}
        /\ The(x) = block[d][b] /\ (Owned(x) <=> Own(d, b))
    BY <2>2 DEF Evictors, Held, The, Own
  <2>4. BlockOK(d, b)
    BY <1>1 DEF Sound, Places
  <2>5. Evictors(x) # {} <=> Evicted(d, b)
    BY <2>2, <2>3 DEF Evicted
  <2>6. CASE ~block[d][b].live
    BY <2>2, <2>3, <2>4, <2>5, <2>6 DEF BlockOK, Dead, InSlot
  <2>7. CASE block[d][b].live
    <3>1. Evictors(x) = {} \/ \E u \in Datasets : Evictors(x) = {u}
      BY <2>2, <2>3, <2>4 DEF BlockOK, OneEvictor
    <3>2. Cardinality(Evictors(x)) = IF Evictors(x) = {} THEN 0 ELSE 1
      BY <3>1, FS_EmptySet, FS_Singleton
    <3>3. /\ Evicted(d, b) => b \notin freeList[d] /\ ~Own(d, b)
          /\ b \in freeList[d] => ~Own(d, b)
          /\ InSlot(d, b) => slot[d][block[d][b].pos] = b /\ b \notin freeList[d] /\ ~Own(d, b)
      BY <2>4 DEF BlockOK, OutOfList, GivenBack, Slotted, InSlot
    <3>4. ~Evicted(d, b) /\ b \notin freeList[d] /\ ~Own(d, b) =>
             InSlot(d, b) \/ (At(d, "droplock") /\ thread[d].mine = b)
      BY <2>4, <2>7 DEF BlockOK, Placed, Works, At
    <3> QED
      BY <2>2, <2>3, <2>5, <2>7, <3>2, <3>3, <3>4 DEF InSlot
  <2> QED
    BY <2>6, <2>7
<1> QED
  BY <1>1, AlwaysSound, PTL

=============================================================================
