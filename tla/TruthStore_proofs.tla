--------------------------- MODULE TruthStore_proofs ---------------------------
(***************************************************************************)
(* Theorems about the load generator's record of truth for any tenants,    *)
(* plans, selections and numbers of lifetimes and saves, with a process    *)
(* that may die at any point and a disk that may refuse. RecordInv says of *)
(* every copy of the record - in memory, in a snapshot, in a file - that   *)
(* it fits the lifetimes so far and what was accepted; PastInv, for runs   *)
(* that always select every tenant, that the copies agree on earlier       *)
(* lifetimes.                                                              *)
(***************************************************************************)
EXTENDS TruthStore, FiniteSetTheorems, SequenceTheorems, TLAPS

Times   == Nat \cup {None}
Segment == [first : Times, last : Times, stopped : Times]
Tenant  == [segments : Seq(Segment), rulesPushed : BOOLEAN]

(* A lifetime that goes on has come to now.                                *)
LifeEnd(life, now) == IF life.to = None THEN now ELSE life.to

(* The lifetimes follow one another.                                       *)
Ordered(ls, now) ==
    /\ ls \in Seq([from : Nat, to : Times, clean : BOOLEAN])
    /\ \A n \in DOMAIN ls : ls[n].from <= now /\ LifeEnd(ls[n], now) <= now
    /\ \A m, n \in DOMAIN ls : m < n => ls[m].to # None /\ ls[m].to <= ls[n].from

(* What is recorded in seg was written in that lifetime.                   *)
Within(seg, life, now) ==
    seg.first # None =>
        seg.last # None /\ life.from <= seg.first /\ seg.last <= LifeEnd(life, now)

(* The first l segments belong to lifetimes of their own among the first   *)
(* n, in the same order.                                                   *)
OneEach(segs, l, ls, n, now) ==
    \E of \in [1..l -> 1..n] :
        /\ \A k \in 1..l : Within(segs[k], ls[of[k]], now)
        /\ \A j, k \in 1..l : j < k => of[j] < of[k]

(* What is recorded in seg was accepted, and is within the tenant's plan.  *)
Planned(seg, t, from, acc, now) ==
    /\ seg.first = None => seg.last = None
    /\ seg.first # None =>
        /\ seg.last # None /\ {seg.first, seg.last} \subseteq acc
        /\ seg.last <= now
        /\ seg.first >= from + StartAfter[t]
        /\ StopAfter[t] > 0 => seg.last < from + StopAfter[t]
        /\ seg.stopped # None => seg.last <= seg.stopped

(* A truth that may be in memory, on its way to the file or in it.         *)
Sound(r, ls, acc, now) ==
    /\ r = [startedAt |-> r.startedAt, tenants |-> r.tenants]
    /\ DOMAIN r.tenants \subseteq Tenants
    /\ r.tenants \in [DOMAIN r.tenants -> Tenant]
    /\ r.startedAt = None => DOMAIN r.tenants = {}
    /\ r.startedAt # None => r.startedAt \in Nat
    /\ \A t \in DOMAIN r.tenants :
        LET segs == r.tenants[t].segments
        IN  /\ \A k \in DOMAIN segs : Planned(segs[k], t, r.startedAt, acc[t], now)
            /\ OneEach(segs, Len(segs), ls, Len(ls), now)

(* Where runTenant and writeLoop can be.                                   *)
Labels == {"begin", "waiting", "rules", "opening", "writing", "recording",
           "ticking", "stopping", "saving", "done"}

(* The clock and the process.                                              *)
ProcessOK ==
    /\ clock \in Nat /\ stopping \in BOOLEAN /\ Ordered(lives, clock)
    /\ accepted \in [Tenants -> SUBSET Nat]
    /\ proc = "down" => \A n \in DOMAIN lives : lives[n].to # None
    /\ proc # "down" => lives # <<>> /\ lives[Len(lives)].to = None /\ gt.startedAt \in Nat
    /\ pc \in [Tenants -> Labels]
    /\ push \in [Tenants -> [at : Nat, ok : BOOLEAN]]

(* Where each tenant is between opening its segment and closing it.        *)
Opened  == {"writing", "recording", "ticking", "stopping"}
Started == Opened \cup {"rules", "opening"}

Current(t) == gt.tenants[t].segments

(* What its place says of a tenant: of its segments and its latest request.*)
TenantOK(t) ==
    /\ pc[t] # "done" => proc # "down" /\ t \in DOMAIN gt.tenants
    /\ pc[t] \in {"begin", "waiting", "rules", "opening"} =>
        OneEach(Current(t), Len(Current(t)), lives, Len(lives) - 1, clock)
    /\ pc[t] \in Started => clock >= gt.startedAt + StartAfter[t]
    /\ pc[t] \in Opened =>
        /\ Current(t) # <<>> /\ Current(t)[Len(Current(t))].stopped = None
        /\ Within(Current(t)[Len(Current(t))], lives[Len(lives)], clock)
        /\ OneEach(Current(t), Len(Current(t)) - 1, lives, Len(lives) - 1, clock)
    /\ pc[t] \in {"writing", "recording", "ticking"} =>
        /\ lives[Len(lives)].from <= push[t].at /\ push[t].at <= clock
        /\ push[t].at >= gt.startedAt + StartAfter[t]
    /\ pc[t] = "recording" /\ push[t].ok =>
        /\ push[t].at \in accepted[t]
        /\ StopAfter[t] > 0 => push[t].at < gt.startedAt + StopAfter[t]

TenantsOK == \A t \in Tenants : TenantOK(t)

(* Everything that is or may come to be recorded.                          *)
TruthsOK ==
    /\ Sound(gt, lives, accepted, clock)
    /\ \A s \in Savers : Sound(saver[s].snap, lives, accepted, clock)
    /\ \A i \in Inodes : Sound(fs.data[i].truth, lives, accepted, clock)

(* A file that can be read holds the record of a run that has started.     *)
WholeOK == \A i \in Inodes : fs.data[i].status = "whole" => fs.data[i].truth.startedAt \in Nat

(* A save that is under way has what its next step needs.                  *)
SaverOK(s) ==
    /\ saver[s] = [step |-> saver[s].step, snap |-> saver[s].snap, inode |-> saver[s].inode]
    /\ saver[s].inode \in Inodes \cup {None}
    /\ saver[s].step = "write" => saver[s].inode # None
    /\ saver[s].step # "idle" => proc # "down"
    /\ saver[s].step \in {"open", "write"} => saver[s].snap.startedAt \in Nat

(* Names are names of files.                                               *)
FileSystemOK ==
    /\ fs = [tmp |-> fs.tmp, path |-> fs.path, data |-> fs.data]
    /\ fs.tmp \in Inodes \cup {None} /\ fs.path \in Inodes \cup {None}
    /\ DOMAIN fs.data = Inodes
    /\ \A i \in Inodes : fs.data[i] = [status |-> fs.data[i].status, truth |-> fs.data[i].truth]
    /\ WholeOK

(* The files and those that write them.                                    *)
FilesOK == DOMAIN saver = Savers /\ (\A s \in Savers : SaverOK(s)) /\ FileSystemOK

(* The inductive invariant.                                                *)
RecordInv == ProcessOK /\ TenantsOK /\ TruthsOK /\ FilesOK

(* What was so stays so: lifetimes are only added or go on, and so does    *)
(* what Mimir has accepted.                                                *)
Later(ls, acc, now, ls2, acc2, now2) ==
    /\ now <= now2 /\ Len(ls) <= Len(ls2)
    /\ \A n \in 1..Len(ls) : ls2[n].from = ls[n].from /\ LifeEnd(ls[n], now) <= LifeEnd(ls2[n], now2)
    /\ \A t \in Tenants : acc[t] \subseteq acc2[t]

(* Histories of lifetimes.                                                 *)
Lives == Seq([from : Nat, to : Times, clean : BOOLEAN])

--------------------------------------------------------------------------------
(* Lifetimes, and the segments they have.                                  *)

(* A lifetime begins and ends at times.                                    *)
LEMMA LifeTypes ==
  ASSUME NEW ls \in Lives, NEW now \in Nat
  PROVE  \A n \in 1..Len(ls) : ls[n].from \in Nat /\ LifeEnd(ls[n], now) \in Nat
<1> SUFFICES ASSUME NEW n \in 1..Len(ls) PROVE ls[n].from \in Nat /\ LifeEnd(ls[n], now) \in Nat
  OBVIOUS
<1>1. ls[n] \in [from : Nat, to : Times, clean : BOOLEAN]
  BY ElementOfSeq DEF Lives
<1>2. QED
  BY <1>1 DEF LifeEnd, Times

(* Segments that have lifetimes of their own keep them as lifetimes go on  *)
(* and are added.                                                          *)
LEMMA OneEachStays ==
  ASSUME NEW segs \in Seq(Segment), NEW l \in 0..Len(segs), NEW now \in Nat, NEW now2 \in Nat,
         NEW ls \in Lives, NEW ls2 \in Lives, NEW acc, NEW acc2, Later(ls, acc, now, ls2, acc2, now2),
         NEW n \in 0..Len(ls), OneEach(segs, l, ls, n, now)
  PROVE  OneEach(segs, l, ls2, n, now2)
<1>1. PICK of \in [1..l -> 1..n] : /\ \A k \in 1..l : Within(segs[k], ls[of[k]], now)
                                  /\ \A j, k \in 1..l : j < k => of[j] < of[k]
  BY DEF OneEach
<1>2. ASSUME NEW k \in 1..l PROVE Within(segs[k], ls2[of[k]], now2)
  <2>1. PICK m \in 1..n : m = of[k]
    BY <1>1
  <2>2. m \in 1..Len(ls) /\ m \in 1..Len(ls2) /\ Len(ls) \in Nat /\ Len(ls2) \in Nat
    BY DEF Lives, Later
  <2>3. /\ ls2[m].from = ls[m].from /\ LifeEnd(ls[m], now) <= LifeEnd(ls2[m], now2)
        /\ LifeEnd(ls[m], now) \in Nat /\ LifeEnd(ls2[m], now2) \in Nat
    BY <2>2, LifeTypes DEF Later
  <2>4. segs[k] \in Segment
    OBVIOUS
  <2>5. segs[k].last \in Nat \cup {None}
    BY <2>4 DEF Segment, Times
  <2>6. Within(segs[k], ls[m], now)
    BY <1>1, <2>1
  <2>7. Within(segs[k], ls2[m], now2)
    BY <2>3, <2>5, <2>6, SMTT(30) DEF Within
  <2>8. QED
    BY <2>1, <2>7
<1>3. QED
  BY <1>1, <1>2 DEF OneEach

(* They may have them among more lifetimes.                                *)
LEMMA OneEachWiden ==
  ASSUME NEW segs, NEW l, NEW ls, NEW now, NEW n \in Nat, NEW m \in Nat, n <= m, OneEach(segs, l, ls, n, now)
  PROVE  OneEach(segs, l, ls, m, now)
<1>1. PICK of \in [1..l -> 1..n] : /\ \A k \in 1..l : Within(segs[k], ls[of[k]], now)
                                  /\ \A j, k \in 1..l : j < k => of[j] < of[k]
  BY DEF OneEach
<1>2. 1..n \subseteq 1..m
  OBVIOUS
<1>3. of \in [1..l -> 1..m]
  BY <1>1, <1>2
<1>4. QED
  BY <1>1, <1>3 DEF OneEach

(* Whether they have them depends on the first l segments only.            *)
LEMMA OneEachSame ==
  ASSUME NEW segs, NEW segs2, NEW l, NEW ls, NEW now, NEW n, OneEach(segs, l, ls, n, now),
         \A k \in 1..l : segs2[k] = segs[k]
  PROVE  OneEach(segs2, l, ls, n, now)
BY DEF OneEach

(* One more segment, written in the lifetime after those the others have,  *)
(* keeps it so.                                                            *)
LEMMA OneEachNext ==
  ASSUME NEW segs, NEW l \in Nat, NEW ls, NEW now, NEW n \in Nat \ {0}, OneEach(segs, l, ls, n - 1, now),
         Within(segs[l + 1], ls[n], now)
  PROVE  OneEach(segs, l + 1, ls, n, now)
<1>1. PICK of \in [1..l -> 1..n - 1] : /\ \A k \in 1..l : Within(segs[k], ls[of[k]], now)
                                      /\ \A j, k \in 1..l : j < k => of[j] < of[k]
  BY DEF OneEach
<1> DEFINE of2 == [k \in 1..l + 1 |-> IF k = l + 1 THEN n ELSE of[k]]
<1>2. \A k \in 1..l + 1 : k = l + 1 \/ (k \in 1..l /\ of2[k] = of[k] /\ of[k] \in 1..n - 1)
  BY <1>1
<1>3. of2[l + 1] = n
  OBVIOUS
<1>4. of2 \in [1..l + 1 -> 1..n]
  <2>1. \A k \in 1..l + 1 : (IF k = l + 1 THEN n ELSE of[k]) \in 1..n
    BY <1>1
  <2>2. QED
    BY <2>1
<1> HIDE DEF of2
<1>5. \A k \in 1..l + 1 : Within(segs[k], ls[of2[k]], now)
  BY <1>1, <1>2, <1>3
<1>6. \A j, k \in 1..l + 1 : j < k => of2[j] < of2[k]
  <2> SUFFICES ASSUME NEW j \in 1..l + 1, NEW k \in 1..l + 1, j < k PROVE of2[j] < of2[k]
    OBVIOUS
  <2>1. j \in 1..l /\ of2[j] = of[j] /\ of[j] \in 1..n - 1
    BY <1>2
  <2>2. CASE k = l + 1
    BY <1>3, <2>1, <2>2
  <2>3. CASE k \in 1..l
    <3>1. of2[k] = of[k]
      BY <1>2, <2>3
    <3>2. QED
      BY <1>1, <2>1, <2>3, <3>1
  <2>4. QED
    BY <1>2, <2>2, <2>3
<1>7. QED
  BY <1>4, <1>5, <1>6 DEF OneEach

(* A record that was sound stays sound while the system goes on.           *)
LEMMA SoundStays ==
  ASSUME NEW r, NEW now \in Nat, NEW now2 \in Nat, NEW ls \in Lives, NEW ls2 \in Lives,
         NEW acc \in [Tenants -> SUBSET Nat], NEW acc2 \in [Tenants -> SUBSET Nat],
         Later(ls, acc, now, ls2, acc2, now2), Sound(r, ls, acc, now)
  PROVE  Sound(r, ls2, acc2, now2)
<1>1. ASSUME NEW t \in DOMAIN r.tenants
      PROVE  LET segs == r.tenants[t].segments
             IN  /\ \A k \in DOMAIN segs : Planned(segs[k], t, r.startedAt, acc2[t], now2)
                 /\ OneEach(segs, Len(segs), ls2, Len(ls2), now2)
  <2> DEFINE segs == r.tenants[t].segments
  <2>1. t \in Tenants /\ r.tenants[t] \in Tenant
    BY DEF Sound
  <2>2. segs \in Seq(Segment) /\ Len(segs) \in Nat /\ Len(ls) \in Nat /\ Len(ls2) \in Nat
    BY <2>1 DEF Tenant, Lives
  <2>3. /\ \A k \in DOMAIN segs : Planned(segs[k], t, r.startedAt, acc[t], now)
        /\ OneEach(segs, Len(segs), ls, Len(ls), now)
    BY DEF Sound
  <2> HIDE DEF segs
  <2>4. OneEach(segs, Len(segs), ls2, Len(ls), now2)
    BY <2>2, <2>3, OneEachStays
  <2>5. OneEach(segs, Len(segs), ls2, Len(ls2), now2)
    BY <2>2, <2>4, OneEachWiden DEF Later
  <2>6. ASSUME NEW k \in DOMAIN segs PROVE Planned(segs[k], t, r.startedAt, acc2[t], now2)
    <3>1. segs[k] \in Segment /\ Planned(segs[k], t, r.startedAt, acc[t], now)
      BY <2>2, <2>3
    <3>2. segs[k].last \in Nat \cup {None}
      BY <3>1 DEF Segment, Times
    <3>3. acc[t] \subseteq acc2[t] /\ now <= now2
      BY <2>1 DEF Later
    <3>4. QED
      BY <3>1, <3>2, <3>3 DEF Planned
  <2>7. QED
    BY <2>5, <2>6 DEF segs
<1>2. QED
  BY <1>1 DEF Sound

(* The constants that are times.                                           *)
LEMMA Numbers ==
  /\ None \notin Nat /\ StartAfter \in [Tenants -> Nat] /\ StopAfter \in [Tenants -> Nat]
BY ProfileAssumption

(* The empty record is sound.                                              *)
LEMMA NothingRecorded ==
  ASSUME NEW ls, NEW acc, NEW now
  PROVE  Sound(NoTruth, ls, acc, now)
<1>1. NoTruth.startedAt = None /\ NoTruth.tenants = <<>> /\ DOMAIN NoTruth.tenants = {}
  BY DEF NoTruth
<1>2. NoTruth = [startedAt |-> NoTruth.startedAt, tenants |-> NoTruth.tenants]
  BY DEF NoTruth
<1>3. NoTruth.tenants \in [DOMAIN NoTruth.tenants -> Tenant]
  BY <1>1
<1>4. QED
  BY <1>1, <1>2, <1>3 DEF Sound

(* The record with other segments for one tenant.                          *)
WithSegments(r, t, segs) == [r EXCEPT !.tenants[t].segments = segs]

(* Replacing one tenant's segments changes nothing else of a record.       *)
LEMMA SegmentsReplaced ==
  ASSUME NEW r, r = [startedAt |-> r.startedAt, tenants |-> r.tenants],
         r.tenants \in [DOMAIN r.tenants -> Tenant], NEW t \in DOMAIN r.tenants,
         NEW segs \in Seq(Segment), NEW r2, r2 = WithSegments(r, t, segs)
  PROVE  /\ r2 = [startedAt |-> r2.startedAt, tenants |-> r2.tenants]
         /\ r2.startedAt = r.startedAt /\ DOMAIN r2.tenants = DOMAIN r.tenants
         /\ r2.tenants \in [DOMAIN r2.tenants -> Tenant]
         /\ r2.tenants[t].segments = segs
         /\ \A u \in DOMAIN r.tenants \ {t} : r2.tenants[u] = r.tenants[u]
<1>1. /\ r2.startedAt = r.startedAt /\ r2.tenants = [r.tenants EXCEPT ![t].segments = segs]
      /\ r2 = [startedAt |-> r2.startedAt, tenants |-> r2.tenants]
  BY DEF WithSegments
<1>2. /\ DOMAIN r2.tenants = DOMAIN r.tenants /\ r2.tenants[t] = [r.tenants[t] EXCEPT !.segments = segs]
      /\ \A u \in DOMAIN r.tenants \ {t} : r2.tenants[u] = r.tenants[u]
  BY <1>1
<1>3. r.tenants[t] \in Tenant
  OBVIOUS
<1>4. r2.tenants[t] \in Tenant /\ r2.tenants[t].segments = segs
  BY <1>2, <1>3 DEF Tenant
<1>5. \A u \in DOMAIN r.tenants : r2.tenants[u] \in Tenant
  BY <1>2, <1>4
<1>6. r2.tenants \in [DOMAIN r2.tenants -> Tenant]
  BY <1>1, <1>2, <1>5
<1>7. QED
  BY <1>1, <1>2, <1>4, <1>6

(* It leaves the record sound when the new segments are.                   *)
LEMMA SoundReplaced ==
  ASSUME NEW r, NEW ls, NEW acc, NEW now, Sound(r, ls, acc, now), NEW t \in DOMAIN r.tenants,
         NEW segs \in Seq(Segment), NEW r2, r2 = WithSegments(r, t, segs),
         \A k \in DOMAIN segs : Planned(segs[k], t, r.startedAt, acc[t], now),
         OneEach(segs, Len(segs), ls, Len(ls), now)
  PROVE  Sound(r2, ls, acc, now)
<1>1. /\ r = [startedAt |-> r.startedAt, tenants |-> r.tenants] /\ r.tenants \in [DOMAIN r.tenants -> Tenant]
      /\ DOMAIN r.tenants \subseteq Tenants /\ r.startedAt = None => DOMAIN r.tenants = {}
      /\ r.startedAt # None => r.startedAt \in Nat
  BY DEF Sound
<1>2. /\ r2 = [startedAt |-> r2.startedAt, tenants |-> r2.tenants]
      /\ r2.startedAt = r.startedAt /\ DOMAIN r2.tenants = DOMAIN r.tenants
      /\ r2.tenants \in [DOMAIN r2.tenants -> Tenant]
      /\ r2.tenants[t].segments = segs
      /\ \A u \in DOMAIN r.tenants \ {t} : r2.tenants[u] = r.tenants[u]
  BY <1>1, SegmentsReplaced
<1>3. ASSUME NEW u \in DOMAIN r2.tenants
      PROVE  LET ss == r2.tenants[u].segments
             IN  /\ \A k \in DOMAIN ss : Planned(ss[k], u, r2.startedAt, acc[u], now)
                 /\ OneEach(ss, Len(ss), ls, Len(ls), now)
  <2>1. CASE u = t
    BY <1>2, <2>1
  <2>2. CASE u # t
    <3>1. r2.tenants[u] = r.tenants[u] /\ u \in DOMAIN r.tenants
      BY <1>2, <2>2
    <3>2. QED
      BY <1>2, <3>1 DEF Sound
  <2>3. QED
    BY <2>1, <2>2
<1>4. QED
  BY <1>1, <1>2, <1>3 DEF Sound

--------------------------------------------------------------------------------
(* The process and its lifetimes.                                          *)

(* Time passes: the lifetimes still follow one another, and everything     *)
(* else is later.                                                          *)
LEMMA LivesGoOn ==
  ASSUME NEW now \in Nat, NEW now2 \in Nat, now <= now2, NEW ls, Ordered(ls, now), NEW acc, NEW acc2,
         \A t \in Tenants : acc[t] \subseteq acc2[t]
  PROVE  Ordered(ls, now2) /\ Later(ls, acc, now, ls, acc2, now2)
<1>1. ls \in Lives /\ Len(ls) \in Nat /\ DOMAIN ls = 1..Len(ls)
  BY DEF Ordered, Lives
<1>2. \A n \in 1..Len(ls) : ls[n].from \in Nat /\ LifeEnd(ls[n], now) \in Nat
  BY <1>1, LifeTypes
<1>3. \A n \in 1..Len(ls) : LifeEnd(ls[n], now) <= LifeEnd(ls[n], now2)
  BY <1>2 DEF LifeEnd
<1>4. \A n \in 1..Len(ls) : ls[n].from <= now2 /\ LifeEnd(ls[n], now2) <= now2
  BY <1>1, <1>2, SMTT(30) DEF Ordered, LifeEnd
<1>5. Ordered(ls, now2)
  BY <1>1, <1>4 DEF Ordered
<1>6. QED
  BY <1>1, <1>3, <1>5 DEF Later

(* So too when a lifetime begins while none goes on (Start).               *)
LEMMA LifeBegins ==
  ASSUME NEW now \in Nat, NEW ls, Ordered(ls, now), \A n \in DOMAIN ls : ls[n].to # None, NEW acc,
         NEW ls2, ls2 = Append(ls, [from |-> now, to |-> None, clean |-> FALSE])
  PROVE  /\ Ordered(ls2, now) /\ Later(ls, acc, now, ls2, acc, now)
         /\ Len(ls2) = Len(ls) + 1 /\ ls2[Len(ls2)].to = None
<1> DEFINE life == [from |-> now, to |-> None, clean |-> FALSE]
<1>1. ls \in Lives /\ Len(ls) \in Nat /\ DOMAIN ls = 1..Len(ls)
  BY DEF Ordered, Lives
<1>2. life \in [from : Nat, to : Times, clean : BOOLEAN] /\ life.from = now /\ life.to = None
  BY DEF Times
<1> HIDE DEF life
<1>3. /\ ls2 \in Lives /\ Len(ls2) = Len(ls) + 1 /\ ls2[Len(ls) + 1] = life /\ DOMAIN ls2 = 1..Len(ls2)
      /\ \A n \in 1..Len(ls) : ls2[n] = ls[n]
  BY <1>1, <1>2, AppendProperties DEF life, Lives
<1>4. \A n \in 1..Len(ls2) : n = Len(ls) + 1 \/ n \in 1..Len(ls)
  BY <1>1, <1>3
<1>5. \A n \in 1..Len(ls) : ls[n].from <= now /\ LifeEnd(ls[n], now) <= now /\ ls[n].to # None
  BY <1>1 DEF Ordered
<1>6. \A n \in 1..Len(ls2) : ls2[n].from <= now /\ LifeEnd(ls2[n], now) <= now
  BY <1>2, <1>3, <1>4, <1>5 DEF LifeEnd
<1>7. ASSUME NEW m \in 1..Len(ls2), NEW n \in 1..Len(ls2), m < n
      PROVE  ls2[m].to # None /\ ls2[m].to <= ls2[n].from
  <2>1. m \in 1..Len(ls) /\ ls2[m] = ls[m]
    BY <1>1, <1>3, <1>7
  <2>2. CASE n = Len(ls) + 1
    BY <2>1, <2>2, <1>2, <1>3, <1>5 DEF LifeEnd
  <2>3. CASE n \in 1..Len(ls)
    BY <2>1, <2>3, <1>1, <1>3, <1>7 DEF Ordered
  <2>4. QED
    BY <2>2, <2>3, <1>4
<1>8. Ordered(ls2, now)
  BY <1>3, <1>6, <1>7 DEF Ordered, Lives
<1>9. \A n \in 1..Len(ls) : LifeEnd(ls[n], now) <= LifeEnd(ls2[n], now)
  <2>1. \A n \in 1..Len(ls) : LifeEnd(ls[n], now) \in Nat
    BY <1>1, LifeTypes
  <2>2. QED
    BY <2>1, <1>3
<1>10. QED
  BY <1>1, <1>2, <1>3, <1>8, <1>9 DEF Later

(* The last lifetime ends.                                                 *)
Ended(ls, now, clean) == [ls EXCEPT ![Len(ls)].to = now, ![Len(ls)].clean = clean]

(* So too when the one that goes on ends now (Leave).                      *)
LEMMA LifeEnds ==
  ASSUME NEW now \in Nat, NEW ls, Ordered(ls, now), ls # <<>>, ls[Len(ls)].to = None, NEW clean \in BOOLEAN,
         NEW acc, NEW ls2, ls2 = Ended(ls, now, clean)
  PROVE  /\ Ordered(ls2, now) /\ Later(ls, acc, now, ls2, acc, now)
         /\ \A n \in DOMAIN ls2 : ls2[n].to # None
<1>0. PICK last : last = Len(ls)
  OBVIOUS
<1> DEFINE life == [from |-> ls[last].from, to |-> now, clean |-> clean]
<1>1. ls \in Lives /\ last \in 1..Len(ls) /\ DOMAIN ls = 1..Len(ls) /\ Len(ls) \in Nat
  BY <1>0 DEF Ordered, Lives
<1>2. ls[last] \in [from : Nat, to : Times, clean : BOOLEAN]
  BY <1>1, ElementOfSeq DEF Lives
<1>3. ls2 = [ls EXCEPT ![last] = life]
  <2>1. ls2 = [[ls EXCEPT ![last].to = now] EXCEPT ![last].clean = clean]
    BY <1>0 DEF Ended
  <2>2. [ls EXCEPT ![last].to = now][last] = [ls[last] EXCEPT !.to = now]
    BY <1>1
  <2>3. ls2[last] = [[ls[last] EXCEPT !.to = now] EXCEPT !.clean = clean]
    BY <1>1, <2>1, <2>2
  <2>4. ls2[last] = life
    BY <1>2, <2>3
  <2>5. ls2 = [n \in DOMAIN ls |-> ls2[n]] /\ \A n \in DOMAIN ls \ {last} : ls2[n] = ls[n]
    BY <1>1, <2>1
  <2> HIDE DEF life
  <2>6. QED
    BY <1>1, <2>4, <2>5
<1>4. /\ life \in [from : Nat, to : Times, clean : BOOLEAN] /\ life.from = ls[last].from
      /\ life.to = now /\ now # None
  BY <1>2, Numbers DEF Times
<1>5. last = Len(ls) /\ ls[last].to = None
  BY <1>0
<1> HIDE DEF life
<1>6. /\ ls2 \in Lives /\ Len(ls2) = Len(ls) /\ DOMAIN ls2 = 1..Len(ls) /\ ls2[last] = life
      /\ \A n \in 1..Len(ls) \ {last} : ls2[n] = ls[n]
  <2>1. ls \in Seq([from : Nat, to : Times, clean : BOOLEAN])
    BY <1>1 DEF Lives
  <2>2. PICK S : S = [from : Nat, to : Times, clean : BOOLEAN]
    OBVIOUS
  <2>3. ls2 \in Seq(S) /\ Len(ls2) = Len(ls) /\ \A j \in 1..Len(ls) : ls2[j] = IF j = last THEN life ELSE ls[j]
    <3>1. ls \in Seq(S) /\ last \in 1..Len(ls) /\ life \in S
      BY <1>1, <1>4, <2>1, <2>2
    <3>2. /\ [ls EXCEPT ![last] = life] \in Seq(S) /\ Len([ls EXCEPT ![last] = life]) = Len(ls)
          /\ \A j \in 1..Len(ls) : [ls EXCEPT ![last] = life][j] = IF j = last THEN life ELSE ls[j]
      BY <3>1, ExceptSeq
    <3>3. QED
      BY <1>3, <3>2
  <2>4. QED
    BY <1>1, <2>2, <2>3 DEF Lives
<1>7. \A n \in 1..Len(ls) : LifeEnd(ls2[n], now) = LifeEnd(ls[n], now) /\ ls2[n].from = ls[n].from
  BY <1>4, <1>5, <1>6 DEF LifeEnd
<1>8. ASSUME NEW m \in 1..Len(ls), NEW n \in 1..Len(ls), m < n
      PROVE  ls2[m].to # None /\ ls2[m].to <= ls2[n].from
  <2>1. m # last
    <3>1. Len(ls) \in Nat /\ n \in 1..Len(ls) /\ m < n /\ last = Len(ls)
      BY <1>0, <1>1, <1>8
    <3>2. QED
      BY <3>1
  <2>2. ls2[m] = ls[m]
    BY <2>1, <1>6
  <2>3. QED
    BY <2>1, <2>2, <1>1, <1>7, <1>8 DEF Ordered
<1>9. Ordered(ls2, now)
  BY <1>1, <1>6, <1>7, <1>8 DEF Ordered, Lives
<1>10. \A n \in 1..Len(ls) : LifeEnd(ls[n], now) \in Nat
  BY <1>1, LifeTypes
<1>11. Later(ls, acc, now, ls2, acc, now)
  BY <1>6, <1>7, <1>10 DEF Later
<1>12. ASSUME NEW n \in DOMAIN ls2 PROVE ls2[n].to # None
  <2>1. CASE n = last
    BY <2>1, <1>4, <1>6
  <2>2. CASE n # last
    <3>1. n \in 1..Len(ls)
      BY <1>6
    <3>2. n < last
      BY <3>1, <2>2, <1>1, <1>5
    <3>3. QED
      BY <3>1, <3>2, <1>1, <1>8
  <2>3. QED
    BY <2>1, <2>2
<1>13. QED
  BY <1>9, <1>11, <1>12

(* Every step that neither begins nor ends a lifetime keeps ProcessOK.     *)
LEMMA LifeGoesOn ==
  ASSUME ProcessOK, lives' = lives, clock' \in Nat, clock <= clock', stopping' \in BOOLEAN,
         proc = "down" <=> proc' = "down", gt'.startedAt = gt.startedAt, pc' \in [Tenants -> Labels],
         push' \in [Tenants -> [at : Nat, ok : BOOLEAN]], accepted' \in [Tenants -> SUBSET Nat],
         \A t \in Tenants : accepted[t] \subseteq accepted'[t]
  PROVE  ProcessOK' /\ Later(lives, accepted, clock, lives', accepted', clock')
<1>1. clock \in Nat /\ Ordered(lives, clock)
  BY DEF ProcessOK
<1>2. Ordered(lives, clock') /\ Later(lives, accepted, clock, lives, accepted', clock')
  BY <1>1, LivesGoOn
<1>3. QED
  BY <1>2 DEF ProcessOK

(* The truth in memory and the savers have their fields.                   *)
LEMMA RecordShapes ==
  ASSUME RecordInv
  PROVE  /\ gt = [startedAt |-> gt.startedAt, tenants |-> gt.tenants]
         /\ \A s \in Savers : saver[s] = [step |-> saver[s].step, snap |-> saver[s].snap, inode |-> saver[s].inode]
BY DEF RecordInv, TruthsOK, FilesOK, SaverOK, Sound

(* What a step of runTenant or writeLoop may change outside the record.    *)
LEMMA TenantMoves ==
  ASSUME RecordInv, NEW t \in Tenants, RunTenant(t)
  PROVE  /\ lives' = lives /\ clock' = clock /\ stopping' = stopping /\ proc' = proc /\ fs' = fs
         /\ gt'.startedAt = gt.startedAt
         /\ \E l \in Labels : pc' = [pc EXCEPT ![t] = l]
         /\ push' = push \/ (\E p \in [at : Nat, ok : BOOLEAN] : push' = [push EXCEPT ![t] = p])
         /\ accepted' = accepted \/ (\E now \in Nat : accepted' = [accepted EXCEPT ![t] = @ \cup {now}])
<1> USE RecordShapes
<1>1. clock \in Nat
  BY DEF RecordInv, ProcessOK
<1>2. CASE StaySilent(t)
  BY <1>2 DEF StaySilent, Goto, Labels
<1>3. CASE Wait(t)
  BY <1>3 DEF Wait, Goto, Labels
<1>4. CASE StopWaiting(t)
  BY <1>4 DEF StopWaiting, Goto, Labels
<1>5. CASE StartTenant(t)
  <2>1. PICK l : l = (IF t \in WithRules THEN "rules" ELSE "opening")
    OBVIOUS
  <2>2. l \in Labels
    BY <2>1 DEF Labels
  <2>3. QED
    BY <1>5, <2>1, <2>2 DEF StartTenant, Goto
<1>6. CASE PushRules(t)
  BY <1>6 DEF PushRules, Goto, Labels
<1>7. CASE GiveUpRules(t)
  BY <1>7 DEF GiveUpRules, Goto, Labels
<1>8. CASE OpenSegment(t)
  <2>1. PICK p : p = [at |-> clock, ok |-> FALSE]
    OBVIOUS
  <2>2. p \in [at : Nat, ok : BOOLEAN] /\ push' = [push EXCEPT ![t] = p]
    BY <1>1, <1>8, <2>1 DEF OpenSegment
  <2>3. QED
    BY <1>8, <2>2 DEF OpenSegment, Goto, Labels
<1>9. CASE Write(t)
  <2>1. PICK now \in 0..clock, taken \in BOOLEAN, ok \in BOOLEAN :
          /\ push' = [push EXCEPT ![t] = [at |-> now, ok |-> ok]]
          /\ accepted' = [accepted EXCEPT ![t] = IF taken THEN @ \cup {now} ELSE @]
    BY <1>9 DEF Write
  <2>2. PICK p : p = [at |-> now, ok |-> ok]
    OBVIOUS
  <2>3. p \in [at : Nat, ok : BOOLEAN] /\ push' = [push EXCEPT ![t] = p]
    BY <2>1, <2>2, <1>1
  <2>4. now \in Nat /\ (accepted' = accepted \/ accepted' = [accepted EXCEPT ![t] = @ \cup {now}])
    <3>1. accepted = [u \in Tenants |-> accepted[u]]
      BY DEF RecordInv, ProcessOK
    <3>2. now \in Nat
      BY <1>1
    <3>3. QED
      BY <2>1, <3>1, <3>2
  <2>5. "recording" \in Labels /\ pc' = [pc EXCEPT ![t] = "recording"]
    BY <1>9 DEF Write, Goto, Labels
  <2>6. lives' = lives /\ clock' = clock /\ stopping' = stopping /\ proc' = proc /\ fs' = fs /\ gt' = gt
    BY <1>9 DEF Write
  <2>7. QED
    BY <2>3, <2>4, <2>5, <2>6
<1>10. CASE Record(t)
  <2>1. gt'.startedAt = gt.startedAt
    <3>1. CASE push[t].ok
      BY <1>10, <3>1 DEF Record
    <3>2. QED
      BY <1>10, <3>1 DEF Record
  <2>2. QED
    BY <1>10, <2>1 DEF Record, Goto, Labels
<1>11. CASE StopWriting(t)
  <2>1. NoPush \in [at : Nat, ok : BOOLEAN] /\ push' = [push EXCEPT ![t] = NoPush]
    BY <1>11 DEF StopWriting, NoPush
  <2>2. QED
    BY <1>11, <2>1 DEF StopWriting, Goto, Labels
<1>12. CASE CloseSegment(t)
  <2>1. gt'.startedAt = gt.startedAt
    BY <1>12 DEF CloseSegment
  <2>2. QED
    BY <1>12, <2>1 DEF CloseSegment, Goto, Labels
<1>13. CASE PlannedStopSaved(t)
  BY <1>13 DEF PlannedStopSaved, Goto, Labels
<1>14. QED
  BY <1>2, <1>3, <1>4, <1>5, <1>6, <1>7, <1>8, <1>9, <1>10, <1>11, <1>12, <1>13 DEF RunTenant

(* What a step of save leaves alone.                                       *)
LEMMA SaverMoves ==
  ASSUME RecordInv, NEW s \in Savers, Save(s)
  PROVE  /\ lives' = lives /\ clock' = clock /\ stopping' = stopping /\ gt' = gt /\ pc' = pc
         /\ push' = push /\ accepted' = accepted /\ (proc' = proc \/ (proc # "down" /\ proc' = "saved"))
<1>1. CASE Snapshot(s)
  BY <1>1 DEF Snapshot
<1>2. CASE OpenTmp(s)
  BY <1>2 DEF OpenTmp
<1>3. CASE WriteTmp(s)
  BY <1>3 DEF WriteTmp
<1>4. CASE SaveFails(s)
  BY <1>4 DEF SaveFails
<1>5. CASE Rename(s)
  <2>1. saver[s].step # "idle"
    BY <1>5 DEF Rename
  <2>2. proc # "down"
    BY <2>1 DEF RecordInv, FilesOK, SaverOK
  <2>3. QED
    BY <1>5, <2>2 DEF Rename
<1>6. QED
  BY <1>1, <1>2, <1>3, <1>4, <1>5 DEF Save

(* A file that can be read has a start time.                               *)
LEMMA WholeStarted ==
  ASSUME RecordInv, NEW i \in Inodes, fs.data[i].status = "whole"
  PROVE  fs.data[i].truth.startedAt \in Nat
<1>1. WholeOK
  BY DEF RecordInv, FilesOK, FileSystemOK
<1>2. QED
  BY <1>1 DEF WholeOK

(* Start keeps ProcessOK.                                                  *)
LEMMA ProcessStarts ==
  ASSUME RecordInv, Start
  PROVE  /\ ProcessOK' /\ Later(lives, accepted, clock, lives', accepted', clock')
         /\ Len(lives') = Len(lives) + 1
         /\ lives' = Append(lives, [from |-> clock, to |-> None, clean |-> FALSE])
<1>1. /\ clock \in Nat /\ Ordered(lives, clock) /\ pc \in [Tenants -> Labels]
      /\ proc = "down" /\ \A n \in DOMAIN lives : lives[n].to # None
      /\ accepted \in [Tenants -> SUBSET Nat] /\ push \in [Tenants -> [at : Nat, ok : BOOLEAN]]
  BY DEF RecordInv, ProcessOK, Start
<1>2. /\ lives' = Append(lives, [from |-> clock, to |-> None, clean |-> FALSE])
      /\ clock' = clock /\ push' = push /\ accepted' = accepted /\ proc' = "running" /\ stopping' = FALSE
  BY DEF Start
<1>3. /\ Ordered(lives', clock) /\ Later(lives, accepted, clock, lives', accepted, clock)
      /\ Len(lives') = Len(lives) + 1 /\ lives'[Len(lives')].to = None
  BY <1>1, <1>2, LifeBegins
<1>4. PICK selected \in Selections :
        /\ \/ fs.path = None /\ gt' = Plan(selected)
           \/ fs.path # None /\ Saved.status = "whole" /\ gt' = Resume(Plan(selected), Saved.truth)
        /\ pc' = [t \in Tenants |-> IF t \in selected THEN "begin" ELSE "done"]
  BY DEF Start
<1>5. pc' \in [Tenants -> Labels]
  BY <1>4 DEF Labels
<1>6. gt'.startedAt \in Nat
  <2>1. CASE gt' = Plan(selected)
    BY <2>1, <1>1 DEF Plan
  <2>2. CASE fs.path # None /\ Saved.status = "whole" /\ gt' = Resume(Plan(selected), Saved.truth)
    <3>1. fs.path \in Inodes
      BY <2>2 DEF RecordInv, FilesOK, FileSystemOK
    <3>2. Saved.truth.startedAt \in Nat
      BY <2>2, <3>1, WholeStarted DEF Saved
    <3>3. QED
      BY <2>2, <3>2 DEF Resume
  <2>3. QED
    BY <1>4, <2>1, <2>2
<1>7. lives' # <<>>
  BY <1>1, <1>3 DEF Ordered
<1>8. QED
  BY <1>1, <1>2, <1>3, <1>5, <1>6, <1>7 DEF ProcessOK

(* A crash or an exit keeps ProcessOK.                                     *)
LEMMA ProcessLeaves ==
  ASSUME RecordInv, proc # "down", NEW clean \in BOOLEAN, Leave(clean)
  PROVE  ProcessOK' /\ Later(lives, accepted, clock, lives', accepted', clock')
<1>1. /\ clock \in Nat /\ Ordered(lives, clock) /\ lives # <<>> /\ lives[Len(lives)].to = None
      /\ accepted \in [Tenants -> SUBSET Nat]
  BY DEF RecordInv, ProcessOK
<1>2. /\ lives' = Ended(lives, clock, clean)
      /\ clock' = clock /\ accepted' = accepted /\ proc' = "down" /\ stopping' = FALSE
      /\ pc' = [t \in Tenants |-> "done"] /\ push' = [t \in Tenants |-> NoPush]
  BY DEF Leave, Ended
<1>3. /\ Ordered(lives', clock) /\ Later(lives, accepted, clock, lives', accepted, clock)
      /\ \A n \in DOMAIN lives' : lives'[n].to # None
  BY <1>1, <1>2, LifeEnds
<1>4. pc' \in [Tenants -> Labels] /\ push' \in [Tenants -> [at : Nat, ok : BOOLEAN]]
  BY <1>2 DEF Labels, NoPush
<1>5. QED
  BY <1>1, <1>2, <1>3, <1>4 DEF ProcessOK

(* Every step keeps ProcessOK and only goes forward.                       *)
LEMMA ProcessStep ==
  ASSUME RecordInv, [Next]_vars
  PROVE  ProcessOK' /\ Later(lives, accepted, clock, lives', accepted', clock')
<1>1. /\ ProcessOK /\ clock \in Nat /\ stopping \in BOOLEAN /\ pc \in [Tenants -> Labels]
      /\ push \in [Tenants -> [at : Nat, ok : BOOLEAN]] /\ accepted \in [Tenants -> SUBSET Nat]
  BY DEF RecordInv, ProcessOK
<1>2. CASE Start
  BY <1>2, ProcessStarts
<1>3. CASE Crash
  BY <1>3, ProcessLeaves DEF Crash
<1>4. CASE Exit
  BY <1>4, ProcessLeaves DEF Exit
<1>5. CASE Interrupt
  BY <1>1, <1>5, LifeGoesOn DEF Interrupt
<1>6. CASE AllTenantsDone
  BY <1>1, <1>6, LifeGoesOn DEF AllTenantsDone
<1>7. CASE TickerSaves
  BY <1>1, <1>7, LifeGoesOn DEF TickerSaves
<1>8. CASE Tick
  BY <1>1, <1>8, LifeGoesOn DEF Tick
<1>9. CASE UNCHANGED vars
  BY <1>1, <1>9, LifeGoesOn DEF vars
<1>10. ASSUME NEW t \in Tenants, RunTenant(t) PROVE ProcessOK' /\ Later(lives, accepted, clock, lives', accepted', clock')
  <2>1. /\ lives' = lives /\ clock' = clock /\ stopping' = stopping /\ proc' = proc
        /\ gt'.startedAt = gt.startedAt
        /\ \E l \in Labels : pc' = [pc EXCEPT ![t] = l]
        /\ push' = push \/ (\E p \in [at : Nat, ok : BOOLEAN] : push' = [push EXCEPT ![t] = p])
        /\ accepted' = accepted \/ (\E now \in Nat : accepted' = [accepted EXCEPT ![t] = @ \cup {now}])
    BY <1>10, TenantMoves
  <2>2. pc' \in [Tenants -> Labels] /\ push' \in [Tenants -> [at : Nat, ok : BOOLEAN]]
    BY <1>1, <2>1
  <2>3. accepted' \in [Tenants -> SUBSET Nat] /\ \A u \in Tenants : accepted[u] \subseteq accepted'[u]
    BY <1>1, <2>1
  <2>4. QED
    BY <1>1, <2>1, <2>2, <2>3, LifeGoesOn
<1>11. ASSUME NEW s \in Savers, Save(s) PROVE ProcessOK' /\ Later(lives, accepted, clock, lives', accepted', clock')
  BY <1>1, <1>11, SaverMoves, LifeGoesOn
<1>12. QED
  BY <1>2, <1>3, <1>4, <1>5, <1>6, <1>7, <1>8, <1>9, <1>10, <1>11 DEF Next

--------------------------------------------------------------------------------
(* The tenants.                                                            *)

(* A tenant that nothing of its own changed for is where it was.           *)
LEMMA TenantSame ==
  ASSUME NEW t \in Tenants, TenantOK(t), clock' = clock, lives' = lives, proc # "down" => proc' # "down",
         pc[t] # "done" => gt'.startedAt = gt.startedAt /\ t \in DOMAIN gt'.tenants /\ gt'.tenants[t] = gt.tenants[t],
         pc'[t] = pc[t], push'[t] = push[t], accepted[t] \subseteq accepted'[t]
  PROVE  TenantOK(t)'
<1>1. CASE pc[t] = "done"
  BY <1>1 DEF TenantOK, Started, Opened
<1>2. CASE pc[t] # "done"
  <2>1. Current(t)' = Current(t)
    BY <1>2 DEF Current
  <2>2. QED
    BY <1>2, <2>1 DEF TenantOK
<1>3. QED
  BY <1>1, <1>2

(* The clock ticking changes nothing for a tenant either.                  *)
LEMMA TenantTicks ==
  ASSUME RecordInv, Tick, NEW t \in Tenants
  PROVE  TenantOK(t)'
<1>1. /\ clock \in Nat /\ clock' = clock + 1 /\ lives' = lives /\ proc' = proc /\ gt' = gt /\ pc' = pc
      /\ push' = push /\ accepted' = accepted
  BY DEF RecordInv, ProcessOK, Tick
<1>2. TenantOK(t) /\ Sound(gt, lives, accepted, clock) /\ Ordered(lives, clock)
  BY DEF RecordInv, TenantsOK, TruthsOK, ProcessOK
<1>3. Current(t)' = Current(t)
  BY <1>1 DEF Current
<1>4. CASE pc[t] = "done"
  BY <1>1, <1>4 DEF TenantOK, Started, Opened
<1>5. CASE pc[t] # "done"
  <2>1. t \in DOMAIN gt.tenants /\ proc # "down"
    BY <1>2, <1>5 DEF TenantOK
  <2>2. Current(t) \in Seq(Segment)
    BY <1>2, <2>1 DEF Sound, Current, Tenant
  <2>3. lives \in Lives /\ lives # <<>> /\ lives[Len(lives)].to = None /\ gt.startedAt \in Nat
    BY <2>1 DEF RecordInv, ProcessOK, Ordered, Lives
  <2>4. Later(lives, accepted, clock, lives, accepted, clock')
    <3>1. clock <= clock' /\ clock' \in Nat
      BY <1>1
    <3>2. QED
      BY <1>1, <1>2, <3>1, LivesGoOn
  <2>5. Len(lives) \in Nat \ {0} /\ Len(lives) - 1 \in 0..Len(lives) /\ clock' \in Nat
    BY <1>1, <2>3 DEF Lives
  <2>6. \A l \in 0..Len(Current(t)) : OneEach(Current(t), l, lives, Len(lives) - 1, clock) =>
            OneEach(Current(t), l, lives, Len(lives) - 1, clock')
    BY <1>1, <2>2, <2>3, <2>4, <2>5, OneEachStays
  <2>7. ASSUME Current(t) # <<>>
        PROVE  Within(Current(t)[Len(Current(t))], lives[Len(lives)], clock) =>
                   Within(Current(t)[Len(Current(t))], lives[Len(lives)], clock')
    <3>1. PICK seg : seg = Current(t)[Len(Current(t))]
      OBVIOUS
    <3>2. seg \in Segment
      BY <2>2, <2>7, <3>1
    <3>3. seg.last \in Nat \cup {None}
      BY <3>2 DEF Segment, Times
    <3>4. Within(seg, lives[Len(lives)], clock) => Within(seg, lives[Len(lives)], clock')
      BY <1>1, <2>3, <3>3 DEF Within, LifeEnd
    <3>5. QED
      BY <3>1, <3>4
  <2>8. Len(Current(t)) \in Nat /\ (Current(t) # <<>> => Len(Current(t)) - 1 \in 0..Len(Current(t)))
    BY <2>2
  <2>9. pc[t] \in {"begin", "waiting", "rules", "opening"} =>
            OneEach(Current(t), Len(Current(t)), lives, Len(lives) - 1, clock')
    BY <1>2, <2>6, <2>8 DEF TenantOK
  <2>10. pc[t] \in Started => clock' >= gt.startedAt + StartAfter[t]
    <3>1. StartAfter[t] \in Nat
      BY Numbers
    <3>2. pc[t] \in Started => clock >= gt.startedAt + StartAfter[t]
      BY <1>2 DEF TenantOK
    <3>3. QED
      BY <1>1, <2>3, <3>1, <3>2
  <2>11. pc[t] \in Opened =>
            /\ Current(t) # <<>> /\ Current(t)[Len(Current(t))].stopped = None
            /\ Within(Current(t)[Len(Current(t))], lives[Len(lives)], clock')
            /\ OneEach(Current(t), Len(Current(t)) - 1, lives, Len(lives) - 1, clock')
    BY <1>2, <2>6, <2>7, <2>8 DEF TenantOK
  <2>12. pc[t] \in {"writing", "recording", "ticking"} =>
        /\ lives[Len(lives)].from <= push[t].at /\ push[t].at <= clock'
        /\ push[t].at >= gt.startedAt + StartAfter[t]
    <3>1. push[t].at \in Nat
      BY DEF RecordInv, ProcessOK
    <3>2. pc[t] \in {"writing", "recording", "ticking"} =>
        /\ lives[Len(lives)].from <= push[t].at /\ push[t].at <= clock
        /\ push[t].at >= gt.startedAt + StartAfter[t]
      BY <1>2 DEF TenantOK
    <3>3. QED
      BY <1>1, <3>1, <3>2
  <2>13. pc[t] = "recording" /\ push[t].ok =>
        /\ push[t].at \in accepted[t]
        /\ StopAfter[t] > 0 => push[t].at < gt.startedAt + StopAfter[t]
    BY <1>2 DEF TenantOK
  <2>14. QED
    BY <1>1, <1>3, <2>1, <2>9, <2>10, <2>11, <2>12, <2>13 DEF TenantOK
<1>6. QED
  BY <1>4, <1>5

(* What is in memory of a tenant that has begun.                           *)
LEMMA CurrentIs ==
  ASSUME RecordInv, NEW t \in Tenants, pc[t] # "done"
  PROVE  /\ t \in DOMAIN gt.tenants /\ Current(t) \in Seq(Segment) /\ Len(Current(t)) \in Nat
         /\ proc # "down" /\ gt.startedAt \in Nat /\ Sound(gt, lives, accepted, clock)
         /\ \A k \in DOMAIN Current(t) : Planned(Current(t)[k], t, gt.startedAt, accepted[t], clock)
         /\ lives \in Lives /\ Len(lives) \in Nat \ {0} /\ lives[Len(lives)].to = None
<1>1. t \in DOMAIN gt.tenants /\ proc # "down"
  BY DEF RecordInv, TenantsOK, TenantOK
<1>2. Sound(gt, lives, accepted, clock)
  BY DEF RecordInv, TruthsOK
<1>3. gt.tenants[t] \in Tenant /\ gt.tenants \in [DOMAIN gt.tenants -> Tenant]
  BY <1>1, <1>2 DEF Sound
<1>4. Current(t) \in Seq(Segment)
  BY <1>3 DEF Current, Tenant
<1>5. \A k \in DOMAIN Current(t) : Planned(Current(t)[k], t, gt.startedAt, accepted[t], clock)
  BY <1>1, <1>2 DEF Sound, Current
<1>6. lives \in Lives /\ lives # <<>> /\ lives[Len(lives)].to = None /\ gt.startedAt \in Nat
  BY <1>1 DEF RecordInv, ProcessOK, Ordered, Lives
<1>7. Len(lives) \in Nat \ {0}
  BY <1>6 DEF Lives
<1>8. QED
  BY <1>1, <1>2, <1>4, <1>5, <1>6, <1>7

(* What a step of tenant t leaves.                                         *)
Kept(t) ==
    /\ Sound(gt', lives', accepted', clock')
    /\ DOMAIN gt'.tenants = DOMAIN gt.tenants
    /\ \A u \in DOMAIN gt.tenants \ {t} : gt'.tenants[u] = gt.tenants[u]

(* What such a step does to t's segments: nothing, it opens one, or it     *)
(* changes the one of this lifetime.                                       *)
Rewrites(t) ==
    \/ Current(t)' = Current(t)
    \/ Current(t)' = Append(Current(t), NewSegment)
    \/ /\ Current(t) # <<>>
       /\ \E seg \in Segment :
                    /\ Current(t)' = [Current(t) EXCEPT ![Len(Current(t))] = seg]
                    /\ \A x \in {seg, Current(t)[Len(Current(t))]} :
                          x.first # None => lives[Len(lives)].from <= x.first

(* A step that leaves the truth in memory alone keeps it sound.            *)
LEMMA TruthKept ==
  ASSUME RecordInv, [Next]_vars, gt' = gt, NEW t
  PROVE  Kept(t)
<1>1. /\ clock \in Nat /\ lives \in Lives /\ accepted \in [Tenants -> SUBSET Nat]
      /\ Sound(gt, lives, accepted, clock)
  BY DEF RecordInv, ProcessOK, TruthsOK, Ordered, Lives
<1>2. ProcessOK' /\ Later(lives, accepted, clock, lives', accepted', clock')
  BY ProcessStep
<1>3. clock' \in Nat /\ lives' \in Lives /\ accepted' \in [Tenants -> SUBSET Nat]
  BY <1>2 DEF ProcessOK, Ordered, Lives
<1>4. Sound(gt, lives', accepted', clock')
  BY <1>1, <1>2, <1>3, SoundStays
<1>5. QED
  BY <1>4 DEF Kept

(* The steps of runTenant that only decide where to go on.                 *)
LEMMA TenantGoesOn ==
  ASSUME RecordInv, NEW t \in Tenants,
         \/ StaySilent(t) \/ Wait(t) \/ StopWaiting(t) \/ StartTenant(t) \/ GiveUpRules(t)
         \/ StopWriting(t) \/ PlannedStopSaved(t)
  PROVE  TenantOK(t)' /\ Kept(t) /\ Rewrites(t)
<1>1. /\ gt' = gt /\ clock' = clock /\ lives' = lives /\ proc' = proc /\ accepted' = accepted
      /\ pc \in [Tenants -> Labels] /\ Next
  BY DEF RecordInv, ProcessOK, StaySilent, Wait, StopWaiting, StartTenant, GiveUpRules, StopWriting,
         PlannedStopSaved, Next, RunTenant
<1>2. Kept(t)
  BY <1>1, TruthKept
<1>3. \/ pc'[t] = "done"
      \/ (pc[t] = "begin" /\ pc'[t] = "waiting")
      \/ (pc[t] \in {"begin", "waiting"} /\ pc'[t] \in {"rules", "opening"} /\ clock >= gt.startedAt + StartAfter[t])
      \/ (pc[t] = "ticking" /\ pc'[t] = "stopping")
  BY <1>1 DEF StaySilent, Wait, StopWaiting, StartTenant, GiveUpRules, StopWriting,
              PlannedStopSaved, Goto
<1>4. TenantOK(t) /\ Current(t)' = Current(t)
  BY <1>1 DEF RecordInv, TenantsOK, Current
<1>5. TenantOK(t)'
  BY <1>1, <1>3, <1>4 DEF TenantOK, Started, Opened
<1>6. QED
  BY <1>2, <1>4, <1>5 DEF Rewrites

(* A write request: accepted at a time within the plan and the lifetime.   *)
LEMMA TenantWrites ==
  ASSUME RecordInv, NEW t \in Tenants, Write(t)
  PROVE  TenantOK(t)' /\ Kept(t) /\ Rewrites(t)
<1>1. PICK now \in 0..clock, taken \in BOOLEAN, ok \in BOOLEAN :
        /\ IF pc[t] = "writing" THEN now >= push[t].at ELSE now > push[t].at
        /\ ok => taken
        /\ taken => ~CtxDone(t)
        /\ push' = [push EXCEPT ![t] = [at |-> now, ok |-> ok]]
        /\ accepted' = [accepted EXCEPT ![t] = IF taken THEN @ \cup {now} ELSE @]
  BY DEF Write
<1>2. /\ gt' = gt /\ clock' = clock /\ lives' = lives /\ proc' = proc /\ Next
      /\ pc[t] \in {"writing", "ticking"} /\ pc' = [pc EXCEPT ![t] = "recording"]
  BY DEF Write, Goto, Next, RunTenant
<1>3. /\ push'[t].at = now /\ push'[t].ok = ok /\ pc'[t] = "recording" /\ clock \in Nat /\ now \in Nat
      /\ now <= clock /\ push[t].at \in Nat /\ push[t].at <= now
      /\ accepted'[t] = IF taken THEN accepted[t] \cup {now} ELSE accepted[t]
  BY <1>1, <1>2 DEF RecordInv, ProcessOK
<1>4. Kept(t)
  BY <1>2, TruthKept
<1>5. TenantOK(t) /\ Current(t)' = Current(t)
  BY <1>2 DEF RecordInv, TenantsOK, Current
<1>6. gt.startedAt \in Nat /\ lives \in Lives /\ Len(lives) \in Nat \ {0} /\ lives[Len(lives)].to = None
  BY <1>2, CurrentIs
<1>7. /\ lives[Len(lives)].from <= push[t].at /\ push[t].at >= gt.startedAt + StartAfter[t]
      /\ clock >= gt.startedAt + StartAfter[t]
  BY <1>2, <1>5 DEF TenantOK, Started, Opened
<1>8. lives[Len(lives)].from <= now /\ now >= gt.startedAt + StartAfter[t]
  <2>1. lives[Len(lives)].from \in Nat /\ gt.startedAt + StartAfter[t] \in Nat
    <3>1. Len(lives) \in 1..Len(lives)
      BY <1>6
    <3>2. lives[Len(lives)] \in [from : Nat, to : Times, clean : BOOLEAN]
      BY <1>6, <3>1, ElementOfSeq DEF Lives
    <3>3. QED
      BY <1>6, <3>2, Numbers
  <2>2. QED
    BY <1>3, <1>7, <2>1
<1>9. ok => now \in accepted'[t] /\ (StopAfter[t] > 0 => now < gt.startedAt + StopAfter[t])
  <2>1. StopAfter[t] \in Nat
    BY Numbers
  <2>2. ok /\ StopAfter[t] > 0 => ~ (clock >= gt.startedAt + StopAfter[t])
    BY <1>1 DEF CtxDone, Stop
  <2>3. QED
    BY <1>1, <1>3, <1>6, <2>1, <2>2
<1>10. TenantOK(t)'
  BY <1>2, <1>3, <1>5, <1>7, <1>8, <1>9 DEF TenantOK, Started, Opened
<1>11. QED
  BY <1>4, <1>5, <1>10 DEF Rewrites

(* The rules are pushed: the segments stay.                                *)
LEMMA TenantPushesRules ==
  ASSUME RecordInv, NEW t \in Tenants, PushRules(t)
  PROVE  TenantOK(t)' /\ Kept(t) /\ Rewrites(t)
<1>1. /\ gt' = [gt EXCEPT !.tenants[t].rulesPushed = TRUE] /\ clock' = clock /\ lives' = lives /\ proc' = proc
      /\ push' = push /\ accepted' = accepted /\ pc[t] = "rules" /\ pc'[t] = "opening"
  BY DEF PushRules, Goto, RecordInv, ProcessOK
<1>2. /\ t \in DOMAIN gt.tenants /\ Current(t) \in Seq(Segment) /\ Sound(gt, lives, accepted, clock)
  BY <1>1, CurrentIs
<1>3. gt = [startedAt |-> gt.startedAt, tenants |-> gt.tenants] /\ gt.tenants \in [DOMAIN gt.tenants -> Tenant]
  BY <1>2 DEF Sound
<1>4. /\ gt' = [startedAt |-> gt'.startedAt, tenants |-> gt'.tenants] /\ gt'.startedAt = gt.startedAt
      /\ gt'.tenants = [gt.tenants EXCEPT ![t].rulesPushed = TRUE]
  BY <1>1, <1>3
<1>5. /\ DOMAIN gt'.tenants = DOMAIN gt.tenants /\ gt'.tenants[t] = [gt.tenants[t] EXCEPT !.rulesPushed = TRUE]
      /\ \A u \in DOMAIN gt.tenants \ {t} : gt'.tenants[u] = gt.tenants[u]
  BY <1>4, <1>2
<1>6. gt.tenants[t] \in Tenant
  BY <1>2, <1>3
<1>7. gt'.tenants[t] \in Tenant /\ gt'.tenants[t].segments = gt.tenants[t].segments
  BY <1>5, <1>6 DEF Tenant
<1>8. \A u \in DOMAIN gt.tenants : gt'.tenants[u] \in Tenant /\ gt'.tenants[u].segments = gt.tenants[u].segments
  BY <1>3, <1>5, <1>7
<1>9. gt'.tenants \in [DOMAIN gt'.tenants -> Tenant]
  BY <1>4, <1>5, <1>8
<1>10. Sound(gt', lives, accepted, clock)
  BY <1>2, <1>4, <1>5, <1>8, <1>9 DEF Sound
<1>11. Kept(t)
  BY <1>1, <1>5, <1>10 DEF Kept
<1>12. TenantOK(t) /\ Current(t)' = Current(t)
  BY <1>2, <1>8 DEF RecordInv, TenantsOK, Current
<1>13. TenantOK(t)'
  BY <1>1, <1>2, <1>4, <1>5, <1>12 DEF TenantOK, Started, Opened
<1>14. QED
  BY <1>11, <1>12, <1>13 DEF Rewrites

(* Replacing t's segments in memory by sound ones keeps the truth sound.   *)
LEMMA SegmentsKept ==
  ASSUME RecordInv, NEW t \in Tenants, pc[t] # "done", NEW segs \in Seq(Segment),
         gt' = WithSegments(gt, t, segs), lives' = lives, accepted' = accepted, clock' = clock,
         \A k \in DOMAIN segs : Planned(segs[k], t, gt.startedAt, accepted[t], clock),
         OneEach(segs, Len(segs), lives, Len(lives), clock)
  PROVE  /\ Kept(t) /\ Current(t)' = segs /\ gt'.startedAt = gt.startedAt
         /\ t \in DOMAIN gt'.tenants /\ gt.startedAt \in Nat
<1>1. t \in DOMAIN gt.tenants /\ Sound(gt, lives, accepted, clock) /\ gt.startedAt \in Nat
  BY CurrentIs
<1>2. gt = [startedAt |-> gt.startedAt, tenants |-> gt.tenants] /\ gt.tenants \in [DOMAIN gt.tenants -> Tenant]
  BY <1>1 DEF Sound
<1>3. PICK r2 : r2 = gt'
  OBVIOUS
<1>4. /\ r2.startedAt = gt.startedAt /\ DOMAIN r2.tenants = DOMAIN gt.tenants /\ r2.tenants[t].segments = segs
      /\ \A u \in DOMAIN gt.tenants \ {t} : r2.tenants[u] = gt.tenants[u]
  BY <1>1, <1>2, <1>3, SegmentsReplaced
<1>5. Sound(r2, lives, accepted, clock)
  BY <1>1, <1>3, SoundReplaced
<1>6. QED
  BY <1>1, <1>3, <1>4, <1>5 DEF Kept, Current

(* openSegment: the new one is the first of its lifetime.                  *)
LEMMA TenantOpens ==
  ASSUME RecordInv, NEW t \in Tenants, OpenSegment(t)
  PROVE  TenantOK(t)' /\ Kept(t) /\ Rewrites(t)
<1> DEFINE segs == Append(Current(t), NewSegment)
<1>1. /\ gt' = WithSegments(gt, t, segs) /\ clock' = clock /\ lives' = lives /\ proc' = proc
      /\ accepted' = accepted /\ pc[t] = "opening" /\ pc'[t] = "writing" /\ push'[t].at = clock
  BY DEF OpenSegment, Goto, WithSegments, Current, RecordInv, ProcessOK
<1>2. /\ t \in DOMAIN gt.tenants /\ Current(t) \in Seq(Segment) /\ Len(Current(t)) \in Nat
      /\ gt.startedAt \in Nat /\ proc # "down" /\ Len(lives) \in Nat \ {0}
      /\ \A k \in DOMAIN Current(t) : Planned(Current(t)[k], t, gt.startedAt, accepted[t], clock)
  BY <1>1, CurrentIs
<1>3. NewSegment \in Segment /\ NewSegment.first = None /\ NewSegment.last = None /\ NewSegment.stopped = None
  BY DEF NewSegment, Segment, Times
<1>4. /\ segs \in Seq(Segment) /\ segs # <<>> /\ Len(segs) = Len(Current(t)) + 1
      /\ \A k \in 1..Len(Current(t)) : segs[k] = Current(t)[k]
      /\ segs[Len(Current(t)) + 1] = NewSegment
  BY <1>2, <1>3, AppendProperties
<1> HIDE DEF segs
<1>5. TenantOK(t)
  BY DEF RecordInv, TenantsOK
<1>6. clock >= gt.startedAt + StartAfter[t]
  BY <1>1, <1>5 DEF TenantOK, Started
<1>7. \A now, from, acc : Planned(NewSegment, t, from, acc, now)
  BY <1>3 DEF Planned
<1>8. ASSUME NEW k \in DOMAIN segs PROVE Planned(segs[k], t, gt.startedAt, accepted[t], clock)
  <2>1. DOMAIN segs = 1..Len(Current(t)) + 1 /\ DOMAIN Current(t) = 1..Len(Current(t))
    BY <1>2, <1>4
  <2>2. CASE k = Len(Current(t)) + 1
    BY <2>2, <1>4, <1>7
  <2>3. CASE k # Len(Current(t)) + 1
    <3>1. k \in 1..Len(Current(t))
      BY <2>1, <2>3, <1>2
    <3>2. QED
      BY <3>1, <2>1, <1>2, <1>4
  <2>4. QED
    BY <2>2, <2>3
<1>9. Within(NewSegment, lives[Len(lives)], clock)
  BY <1>3 DEF Within
<1>10. OneEach(Current(t), Len(Current(t)), lives, Len(lives) - 1, clock)
  BY <1>1, <1>5 DEF TenantOK
<1>11. OneEach(segs, Len(Current(t)), lives, Len(lives) - 1, clock)
  BY <1>4, <1>10, OneEachSame
<1>12. OneEach(segs, Len(segs), lives, Len(lives), clock)
  BY <1>2, <1>4, <1>9, <1>11, OneEachNext
<1>13. /\ Kept(t) /\ Current(t)' = segs /\ gt'.startedAt = gt.startedAt /\ t \in DOMAIN gt'.tenants
  BY <1>1, <1>4, <1>8, <1>12, SegmentsKept
<1>14. Len(segs) - 1 = Len(Current(t)) /\ segs[Len(segs)] = NewSegment
  BY <1>2, <1>4
<1>15. lives[Len(lives)].from <= clock /\ clock \in Nat
  BY <1>2 DEF RecordInv, ProcessOK, Ordered
<1>16. TenantOK(t)'
  BY <1>1, <1>2, <1>3, <1>4, <1>6, <1>9, <1>11, <1>13, <1>14, <1>15 DEF TenantOK, Started, Opened
<1>17. QED
  BY <1>13, <1>16 DEF Rewrites, segs

(* A change of the open segment that leaves it open or closes it.          *)
LEMMA LastReplaced ==
  ASSUME RecordInv, NEW t \in Tenants, pc[t] \in Opened, NEW seg \in Segment,
         NEW segs, segs = [Current(t) EXCEPT ![Len(Current(t))] = seg],
         gt' = WithSegments(gt, t, segs), lives' = lives, accepted' = accepted, clock' = clock,
         Planned(seg, t, gt.startedAt, accepted[t], clock), Within(seg, lives[Len(lives)], clock)
  PROVE  /\ Kept(t) /\ Current(t)' = segs /\ gt'.startedAt = gt.startedAt /\ t \in DOMAIN gt'.tenants
         /\ segs # <<>> /\ segs[Len(segs)] = seg
         /\ OneEach(segs, Len(segs) - 1, lives, Len(lives) - 1, clock)
<1>1. pc[t] # "done"
  BY DEF Opened
<1>2. /\ Current(t) \in Seq(Segment) /\ Len(Current(t)) \in Nat /\ gt.startedAt \in Nat
      /\ Len(lives) \in Nat \ {0}
      /\ \A k \in DOMAIN Current(t) : Planned(Current(t)[k], t, gt.startedAt, accepted[t], clock)
  BY <1>1, CurrentIs
<1>3. TenantOK(t)
  BY DEF RecordInv, TenantsOK
<1>4. Current(t) # <<>> /\ OneEach(Current(t), Len(Current(t)) - 1, lives, Len(lives) - 1, clock)
  BY <1>3 DEF TenantOK
<1>5. PICK last : last = Len(Current(t))
  OBVIOUS
<1>6. PICK ss : ss = Current(t)
  OBVIOUS
<1>7. last \in Nat \ {0} /\ last = Len(ss) /\ ss \in Seq(Segment) /\ last \in 1..Len(ss)
  BY <1>2, <1>4, <1>5, <1>6
<1>8. segs = [ss EXCEPT ![last] = seg]
  BY <1>5, <1>6
<1>9. /\ segs \in Seq(Segment) /\ Len(segs) = last /\ segs[last] = seg /\ DOMAIN segs = 1..last
      /\ \A k \in 1..last \ {last} : segs[k] = ss[k]
  <2>1. PICK S : S = Segment
    OBVIOUS
  <2>2. /\ [ss EXCEPT ![last] = seg] \in Seq(S) /\ Len([ss EXCEPT ![last] = seg]) = Len(ss)
        /\ \A k \in 1..Len(ss) : [ss EXCEPT ![last] = seg][k] = IF k = last THEN seg ELSE ss[k]
    BY <1>7, <2>1, ExceptSeq
  <2>3. /\ segs \in Seq(S) /\ Len(segs) = last
        /\ \A k \in 1..last : segs[k] = IF k = last THEN seg ELSE ss[k]
    BY <1>7, <1>8, <2>2
  <2>4. QED
    BY <1>7, <2>1, <2>3
<1>10. \A k \in 1..last - 1 : segs[k] = ss[k]
  BY <1>7, <1>9
<1>11. OneEach(segs, last - 1, lives, Len(lives) - 1, clock)
  BY <1>4, <1>5, <1>6, <1>10, OneEachSame
<1>12. PICK l : l = last - 1
  OBVIOUS
<1>13. OneEach(segs, last, lives, Len(lives), clock)
  <2>1. l \in Nat /\ l + 1 = last
    BY <1>7, <1>12
  <2>2. OneEach(segs, l + 1, lives, Len(lives), clock)
    BY <2>1, <1>2, <1>9, <1>11, <1>12, OneEachNext
  <2>3. QED
    BY <2>1, <2>2
<1>14. \A k \in DOMAIN segs : Planned(segs[k], t, gt.startedAt, accepted[t], clock)
  <2>1. \A k \in 1..last : k = last \/ (segs[k] = ss[k] /\ k \in DOMAIN ss)
    BY <1>7, <1>9
  <2>2. QED
    BY <2>1, <1>2, <1>6, <1>9
<1>15. Kept(t) /\ Current(t)' = segs /\ gt'.startedAt = gt.startedAt /\ t \in DOMAIN gt'.tenants
  BY <1>1, <1>9, <1>13, <1>14, SegmentsKept
<1>16. QED
  BY <1>7, <1>9, <1>11, <1>15

(* recordWrite: what is recorded was accepted, in this lifetime.           *)
LEMMA TenantRecords ==
  ASSUME RecordInv, NEW t \in Tenants, Record(t)
  PROVE  TenantOK(t)' /\ Kept(t) /\ Rewrites(t)
<1>1. /\ clock' = clock /\ lives' = lives /\ proc' = proc /\ push' = push /\ accepted' = accepted
      /\ pc[t] = "recording" /\ pc'[t] = "ticking" /\ Next
  BY DEF Record, Goto, RecordInv, ProcessOK, Next, RunTenant
<1>2. TenantOK(t)
  BY DEF RecordInv, TenantsOK
<1>3. CASE ~push[t].ok
  <2>1. gt' = gt
    BY <1>3 DEF Record
  <2>2. Kept(t)
    BY <1>1, <2>1, TruthKept
  <2>3. Current(t)' = Current(t)
    BY <2>1 DEF Current
  <2>4. TenantOK(t)'
    BY <1>1, <1>2, <2>1, <2>3 DEF TenantOK, Started, Opened
  <2>5. QED
    BY <2>2, <2>3, <2>4 DEF Rewrites
<1>4. CASE push[t].ok
  <2> DEFINE last == Len(Current(t))
             old == Current(t)[last]
             at == push[t].at
             seg == Recorded(old, at)
             segs == [Current(t) EXCEPT ![last] = seg]
  <2>1. /\ Current(t) \in Seq(Segment) /\ last \in Nat /\ gt.startedAt \in Nat /\ t \in DOMAIN gt.tenants
        /\ proc # "down" /\ lives \in Lives /\ Len(lives) \in Nat \ {0} /\ lives[Len(lives)].to = None
        /\ \A k \in DOMAIN Current(t) : Planned(Current(t)[k], t, gt.startedAt, accepted[t], clock)
    BY <1>1, CurrentIs
  <2>2. gt' = WithSegments(gt, t, segs)
    BY <1>4 DEF Record, WithSegments, Current
  <2>3. /\ Current(t) # <<>> /\ old.stopped = None /\ Within(old, lives[Len(lives)], clock)
    BY <1>1, <1>2 DEF TenantOK, Opened
  <2>4. /\ at \in accepted[t] /\ lives[Len(lives)].from <= at /\ at <= clock
        /\ at >= gt.startedAt + StartAfter[t]
        /\ StopAfter[t] > 0 => at < gt.startedAt + StopAfter[t]
    BY <1>1, <1>2, <1>4 DEF TenantOK
  <2>5. at \in Nat /\ clock \in Nat
    BY DEF RecordInv, ProcessOK
  <2>6. last \in DOMAIN Current(t) /\ old \in Segment
    BY <2>1, <2>3
  <2>7. Planned(old, t, gt.startedAt, accepted[t], clock)
    BY <2>1, <2>6
  <2>8. /\ seg \in Segment /\ seg.first = (IF old.first = None THEN at ELSE old.first)
        /\ seg.last = at /\ seg.stopped = old.stopped
    BY <2>5, <2>6 DEF Recorded, Segment, Times
  <2> HIDE DEF seg, segs
  <2>9. seg.stopped = None /\ seg.last = at /\ at # None
    BY <2>3, <2>5, <2>8, Numbers
  <2>10. Planned(seg, t, gt.startedAt, accepted[t], clock)
    <3>1. seg.first \in accepted[t] /\ seg.first >= gt.startedAt + StartAfter[t]
      <4>1. CASE old.first = None
        BY <4>1, <2>4, <2>8
      <4>2. CASE old.first # None
        BY <4>2, <2>7, <2>8 DEF Planned
      <4>3. QED
        BY <4>1, <4>2
    <3>2. seg.first # None
      BY <2>8, <2>9
    <3>3. QED
      BY <3>1, <3>2, <2>4, <2>9 DEF Planned
  <2>11. Within(seg, lives[Len(lives)], clock)
    <3>1. lives[Len(lives)].from <= seg.first
      BY <2>3, <2>4, <2>8 DEF Within
    <3>2. seg.last <= LifeEnd(lives[Len(lives)], clock)
      BY <2>1, <2>4, <2>9 DEF LifeEnd
    <3>3. QED
      BY <3>1, <3>2, <2>9 DEF Within
  <2>12. segs = [Current(t) EXCEPT ![Len(Current(t))] = seg] /\ pc[t] \in Opened
    BY <1>1 DEF segs, Opened
  <2>13. /\ Kept(t) /\ Current(t)' = segs /\ gt'.startedAt = gt.startedAt /\ t \in DOMAIN gt'.tenants
         /\ segs # <<>> /\ segs[Len(segs)] = seg
         /\ OneEach(segs, Len(segs) - 1, lives, Len(lives) - 1, clock)
    <3>1. seg \in Segment
      BY <2>8
    <3>2. PICK z : z = segs
      OBVIOUS
    <3>3. PICK y : y = seg
      OBVIOUS
    <3>4. /\ y \in Segment /\ gt' = WithSegments(gt, t, z) /\ z = [Current(t) EXCEPT ![Len(Current(t))] = y]
          /\ Planned(y, t, gt.startedAt, accepted[t], clock) /\ Within(y, lives[Len(lives)], clock)
      BY <2>2, <2>10, <2>11, <2>12, <3>1, <3>2, <3>3
    <3>5. /\ Kept(t) /\ Current(t)' = z /\ gt'.startedAt = gt.startedAt /\ t \in DOMAIN gt'.tenants
          /\ z # <<>> /\ z[Len(z)] = y /\ OneEach(z, Len(z) - 1, lives, Len(lives) - 1, clock)
      BY <1>1, <2>12, <3>4, LastReplaced
    <3>6. QED
      BY <3>2, <3>3, <3>5
  <2>14. clock >= gt.startedAt + StartAfter[t]
    BY <1>1, <1>2 DEF TenantOK, Started, Opened
  <2>15. TenantOK(t)'
    BY <1>1, <2>1, <2>4, <2>9, <2>11, <2>13, <2>14 DEF TenantOK, Started, Opened
  <2>16. Rewrites(t)
    BY <2>3, <2>8, <2>11, <2>12, <2>13 DEF Rewrites, Within
  <2>17. QED
    BY <2>13, <2>15, <2>16
<1>5. QED
  BY <1>3, <1>4

(* closeSegment: it stops no earlier than its last sample.                 *)
LEMMA TenantCloses ==
  ASSUME RecordInv, NEW t \in Tenants, CloseSegment(t)
  PROVE  TenantOK(t)' /\ Kept(t) /\ Rewrites(t)
<1> DEFINE last == Len(Current(t))
           old == Current(t)[last]
           seg == [old EXCEPT !.stopped = clock]
           segs == [Current(t) EXCEPT ![last] = seg]
<1>1. /\ clock' = clock /\ lives' = lives /\ proc' = proc /\ push' = push /\ accepted' = accepted
      /\ pc[t] = "stopping" /\ pc'[t] \in {"done", "saving"}
  BY DEF CloseSegment, Goto, RecordInv, ProcessOK
<1>2. TenantOK(t)
  BY DEF RecordInv, TenantsOK
<1>3. /\ Current(t) \in Seq(Segment) /\ last \in Nat /\ gt.startedAt \in Nat /\ t \in DOMAIN gt.tenants
      /\ proc # "down"
      /\ \A k \in DOMAIN Current(t) : Planned(Current(t)[k], t, gt.startedAt, accepted[t], clock)
  BY <1>1, CurrentIs
<1>4. gt' = WithSegments(gt, t, segs)
  BY DEF CloseSegment, WithSegments, Current
<1>5. Current(t) # <<>> /\ old.stopped = None /\ Within(old, lives[Len(lives)], clock)
  BY <1>1, <1>2 DEF TenantOK, Opened
<1>6. clock \in Nat
  BY DEF RecordInv, ProcessOK
<1>7. last \in DOMAIN Current(t) /\ old \in Segment
  BY <1>3, <1>5
<1>8. Planned(old, t, gt.startedAt, accepted[t], clock)
  BY <1>3, <1>7
<1>9. /\ seg \in Segment /\ seg.first = old.first /\ seg.last = old.last /\ seg.stopped = clock
  BY <1>6, <1>7 DEF Segment, Times
<1> HIDE DEF seg, segs
<1>10. Planned(seg, t, gt.startedAt, accepted[t], clock) /\ Within(seg, lives[Len(lives)], clock)
  BY <1>5, <1>8, <1>9 DEF Planned, Within
<1>11. segs = [Current(t) EXCEPT ![Len(Current(t))] = seg] /\ pc[t] \in Opened
  BY <1>1 DEF segs, Opened
<1>12. /\ Kept(t) /\ Current(t)' = segs /\ gt'.startedAt = gt.startedAt /\ t \in DOMAIN gt'.tenants
  BY <1>1, <1>4, <1>9, <1>10, <1>11, LastReplaced
<1>13. TenantOK(t)'
  BY <1>1, <1>3, <1>12 DEF TenantOK, Started, Opened
<1>14. Rewrites(t)
  BY <1>5, <1>9, <1>10, <1>11, <1>12 DEF Rewrites, Within
<1>15. QED
  BY <1>12, <1>13, <1>14

(* Every step of a tenant keeps what is claimed of it.                     *)
LEMMA TenantStep ==
  ASSUME RecordInv, NEW t \in Tenants, RunTenant(t)
  PROVE  TenantOK(t)' /\ Kept(t) /\ Rewrites(t)
BY TenantGoesOn, TenantWrites, TenantPushesRules, TenantOpens, TenantRecords, TenantCloses DEF RunTenant

(* Nothing comes to be written or saved that was not in memory.            *)
Copies ==
    /\ \A s \in Savers : saver'[s].snap \in {saver[s].snap, gt, NoTruth}
    /\ \A i \in Inodes : fs'.data[i].truth \in {fs.data[i].truth, NoTruth} \cup {saver[s].snap : s \in Savers}

--------------------------------------------------------------------------------
(* The files.                                                              *)

(* There are finitely many goroutines that save.                           *)
LEMMA FiniteSavers == IsFiniteSet(Savers) /\ Cardinality(Savers) \in Nat
<1>1. IsFiniteSet(Tenants) /\ {t \in Tenants : StopAfter[t] > 0} \subseteq Tenants
  BY ProfileAssumption
<1>2. IsFiniteSet({t \in Tenants : StopAfter[t] > 0})
  BY <1>1, FS_Subset
<1>3. IsFiniteSet({} \cup {"ticker"}) /\ IsFiniteSet(({} \cup {"ticker"}) \cup {"final"})
  BY FS_EmptySet, FS_AddElement
<1>4. {"ticker", "final"} = ({} \cup {"ticker"}) \cup {"final"}
  OBVIOUS
<1>5. IsFiniteSet(Savers)
  BY <1>2, <1>3, <1>4, FS_Union DEF Savers
<1>6. QED
  BY <1>5, FS_CardinalityType

(* No inode is the absence of one.                                         *)
LEMMA InodesAreNumbers == \A i \in Inodes : i \in Nat
<1>1. PICK n \in Nat : n = Cardinality(Savers)
  BY FiniteSavers
<1>2. \A i \in 1..n + 2 : i \in Nat
  OBVIOUS
<1>3. QED
  BY <1>1, <1>2 DEF Inodes

(* There is always a new inode for a temporary file: at most one per saver *)
(* and the one at the path are in use.                                     *)
LEMMA FreeInodeExists ==
  ASSUME RecordInv, fs.tmp = None
  PROVE  FreeInode \in Inodes /\ ~InUse(FreeInode)
<1> DEFINE held == {saver[s].inode : s \in Savers}
           used == held \cup {fs.path}
<1>1. IsFiniteSet(Savers) /\ Cardinality(Savers) \in Nat
  BY FiniteSavers
<1>2. IsFiniteSet(held) /\ Cardinality(held) <= Cardinality(Savers)
  <2> DEFINE f == [s \in Savers |-> saver[s].inode]
  <2>1. f \in [Savers -> held] /\ \A i \in held : \E s \in Savers : f[s] = i
    OBVIOUS
  <2> HIDE DEF f, held
  <2>2. f \in Surjection(Savers, held)
    BY <2>1 DEF Surjection
  <2>3. QED
    BY <1>1, <2>2, FS_Surjection
<1>3. /\ IsFiniteSet(used) /\ Cardinality(held) \in Nat /\ Cardinality(Savers) \in Nat
      /\ Cardinality(used) <= Cardinality(Savers) + 1
  <2> HIDE DEF held
  <2>1. Cardinality(held) \in Nat /\ Cardinality(Savers) \in Nat
    BY <1>1, <1>2, FS_CardinalityType
  <2>2. IsFiniteSet(used) /\ Cardinality(used) = IF fs.path \in held THEN Cardinality(held) ELSE Cardinality(held) + 1
    BY <1>2, FS_AddElement
  <2>3. QED
    BY <1>2, <2>1, <2>2
<1>4. Cardinality(Inodes) = Cardinality(Savers) + 2
  <2>1. PICK n \in Nat : n = Cardinality(Savers)
    BY <1>3
  <2>2. 1 \in Int /\ n + 2 \in Int
    OBVIOUS
  <2>3. Cardinality(1..n + 2) = IF 1 > n + 2 THEN 0 ELSE n + 2 - 1 + 1
    BY <2>2, FS_Interval
  <2>4. QED
    BY <2>1, <2>3 DEF Inodes
<1>5. ASSUME \A i \in Inodes : InUse(i) PROVE FALSE
  <2>1. None \notin Inodes
    BY InodesAreNumbers, Numbers
  <2>2. Inodes \subseteq used
    BY <1>5, <2>1 DEF InUse
  <2> HIDE DEF used
  <2>3. Cardinality(Inodes) <= Cardinality(used) /\ Cardinality(used) \in Nat
    BY <1>3, <2>2, FS_Subset, FS_CardinalityType
  <2>4. QED
    BY <1>3, <1>4, <2>3
<1>6. QED
  BY <1>5 DEF FreeInode

(* Two fields of one saver are set, the third and the other savers stay.   *)
LEMMA SaverReplaced ==
  ASSUME NEW f, NEW s \in DOMAIN f, f[s] = [step |-> f[s].step, snap |-> f[s].snap, inode |-> f[s].inode],
         NEW step, NEW snap, NEW inode, NEW g,
         \/ g = [f EXCEPT ![s].step = step, ![s].snap = snap] /\ inode = f[s].inode
         \/ g = [f EXCEPT ![s].step = step, ![s].inode = inode] /\ snap = f[s].snap
  PROVE  /\ DOMAIN g = DOMAIN f /\ g[s] = [step |-> step, snap |-> snap, inode |-> inode]
         /\ \A x \in DOMAIN f \ {s} : g[x] = f[x]
<1>1. [f EXCEPT ![s].step = step][s] = [step |-> step, snap |-> f[s].snap, inode |-> f[s].inode]
  OBVIOUS
<1>2. PICK h : h = [f EXCEPT ![s].step = step]
  OBVIOUS
<1>3. \/ g = [h EXCEPT ![s].snap = snap] /\ inode = f[s].inode
      \/ g = [h EXCEPT ![s].inode = inode] /\ snap = f[s].snap
  BY <1>2
<1>4. /\ DOMAIN h = DOMAIN f /\ h[s] = [step |-> step, snap |-> f[s].snap, inode |-> f[s].inode]
      /\ \A x \in DOMAIN f \ {s} : h[x] = f[x]
  BY <1>1, <1>2
<1>5. QED
  BY <1>3, <1>4

(* The state of saver s is now sv.                                         *)
SaverMove(s, sv) ==
    DOMAIN saver' = Savers /\ saver'[s] = sv /\ \A x \in Savers \ {s} : saver'[x] = saver[x]

(* One saver moving on keeps all of them in order.                         *)
LEMMA SaversOK ==
  ASSUME FilesOK, NEW s \in Savers, NEW sv, SaverMove(s, sv), proc # "down", proc' # "down",
         sv = [step |-> sv.step, snap |-> sv.snap, inode |-> sv.inode],
         sv.inode \in Inodes \cup {None}, sv.step = "write" => sv.inode # None,
         sv.step \in {"open", "write"} => sv.snap.startedAt \in Nat,
         sv.snap \in {saver[s].snap, gt, NoTruth}
  PROVE  /\ DOMAIN saver' = Savers /\ \A x \in Savers : SaverOK(x)'
         /\ \A x \in Savers : saver'[x].snap \in {saver[x].snap, gt, NoTruth}
<1>1. DOMAIN saver' = Savers /\ saver'[s] = sv /\ \A x \in Savers \ {s} : saver'[x] = saver[x]
  BY DEF SaverMove
<1>2. SaverOK(s)'
  BY <1>1 DEF SaverOK
<1>3. \A x \in Savers \ {s} : SaverOK(x)'
  BY <1>1 DEF SaverOK, FilesOK
<1>4. saver'[s].snap \in {saver[s].snap, gt, NoTruth}
  BY <1>1
<1>5. QED
  BY <1>1, <1>2, <1>3, <1>4

(* Nothing changes in the file system.                                     *)
LEMMA FilesSame ==
  ASSUME FileSystemOK, fs' = fs
  PROVE  FileSystemOK' /\ \A i \in Inodes : fs'.data[i].truth = fs.data[i].truth
BY DEF FileSystemOK, WholeOK

(* One file's content is replaced, and the names may change.               *)
LEMMA FileReplaced ==
  ASSUME FileSystemOK, NEW i \in Inodes, NEW content,
         content = [status |-> content.status, truth |-> content.truth],
         content.status = "whole" => content.truth.startedAt \in Nat,
         NEW tmp \in Inodes \cup {None}, NEW path \in Inodes \cup {None},
         fs' = [tmp |-> tmp, path |-> path, data |-> [fs.data EXCEPT ![i] = content]]
  PROVE  /\ FileSystemOK'
         /\ \A j \in Inodes : fs'.data[j].truth \in {fs.data[j].truth, content.truth}
<1>1. /\ fs'.tmp = tmp /\ fs'.path = path /\ fs' = [tmp |-> fs'.tmp, path |-> fs'.path, data |-> fs'.data]
      /\ fs'.data = [fs.data EXCEPT ![i] = content] /\ DOMAIN fs.data = Inodes
  BY DEF FileSystemOK
<1>2. DOMAIN fs'.data = Inodes /\ fs'.data[i] = content /\ \A j \in Inodes \ {i} : fs'.data[j] = fs.data[j]
  BY <1>1
<1>3. \A j \in Inodes : fs'.data[j] = [status |-> fs'.data[j].status, truth |-> fs'.data[j].truth]
  BY <1>2 DEF FileSystemOK
<1>4. WholeOK'
  BY <1>2 DEF FileSystemOK, WholeOK
<1>5. FileSystemOK'
  BY <1>1, <1>2, <1>3, <1>4 DEF FileSystemOK
<1>6. QED
  BY <1>2, <1>5

(* Every step of save keeps the files in order and copies only what was    *)
(* there.                                                                  *)
LEMMA SaverStep ==
  ASSUME RecordInv, NEW s \in Savers, Save(s)
  PROVE  FilesOK' /\ Copies
<1>1. /\ FilesOK /\ DOMAIN saver = Savers /\ FileSystemOK /\ SaverOK(s) /\ s \in DOMAIN saver
      /\ proc # "down" => gt.startedAt \in Nat
  BY DEF RecordInv, FilesOK, ProcessOK
<1>2. /\ saver[s].step # "idle" => proc # "down"
      /\ saver[s].step = "open" => saver[s].snap.startedAt \in Nat
      /\ saver[s].step = "write" => saver[s].inode \in Inodes /\ saver[s].snap.startedAt \in Nat
      /\ saver[s] = [step |-> saver[s].step, snap |-> saver[s].snap, inode |-> saver[s].inode]
      /\ saver[s].inode \in Inodes \cup {None}
  BY <1>1 DEF SaverOK
<1>3. saver[s].step # "idle"
  BY DEF Save, Snapshot, OpenTmp, WriteTmp, SaveFails, Rename
<1>4. proc # "down" /\ proc' # "down" /\ gt.startedAt \in Nat
  BY <1>1, <1>2, <1>3, SaverMoves
<1>5. fs.tmp \in Inodes \cup {None} /\ fs.path \in Inodes \cup {None} /\ fs = [tmp |-> fs.tmp, path |-> fs.path, data |-> fs.data]
  BY <1>1 DEF FileSystemOK
<1>6. CASE Snapshot(s)
  <2>1. saver' = [saver EXCEPT ![s].step = "open", ![s].snap = gt] /\ fs' = fs
    BY <1>6 DEF Snapshot
  <2>2. SaverMove(s, [step |-> "open", snap |-> gt, inode |-> saver[s].inode])
    BY <1>1, <1>2, <2>1, SaverReplaced DEF SaverMove
  <2>3. PICK sv : sv = [step |-> "open", snap |-> gt, inode |-> saver[s].inode]
    OBVIOUS
  <2>4. /\ DOMAIN saver' = Savers /\ \A x \in Savers : SaverOK(x)'
        /\ \A x \in Savers : saver'[x].snap \in {saver[x].snap, gt, NoTruth}
    BY <1>1, <1>2, <1>4, <2>2, <2>3, SaversOK
  <2>5. QED
    BY <1>1, <2>1, <2>4, FilesSame DEF FilesOK, Copies
<1>7. CASE OpenTmp(s)
  <2>1. PICK i \in Inodes : /\ fs' = [fs EXCEPT !.tmp = i, !.data[i] = Empty]
                            /\ saver' = [saver EXCEPT ![s].step = "write", ![s].inode = i]
    <3>1. CASE fs.tmp = None
      BY <1>7, <3>1, FreeInodeExists DEF OpenTmp
    <3>2. CASE fs.tmp # None
      BY <1>5, <1>7, <3>2 DEF OpenTmp
    <3>3. QED
      BY <3>1, <3>2
  <2>2. SaverMove(s, [step |-> "write", snap |-> saver[s].snap, inode |-> i])
    BY <1>1, <1>2, <2>1, SaverReplaced DEF SaverMove
  <2>3. PICK sv : sv = [step |-> "write", snap |-> saver[s].snap, inode |-> i]
    OBVIOUS
  <2>4. saver[s].step = "open" /\ i # None
    <3>1. i \in Nat
      BY <2>1, InodesAreNumbers
    <3>2. QED
      BY <1>7, <3>1, Numbers DEF OpenTmp
  <2>5. /\ DOMAIN saver' = Savers /\ \A x \in Savers : SaverOK(x)'
        /\ \A x \in Savers : saver'[x].snap \in {saver[x].snap, gt, NoTruth}
    BY <1>1, <1>2, <1>4, <2>2, <2>3, <2>4, SaversOK
  <2>6. fs' = [tmp |-> i, path |-> fs.path, data |-> [fs.data EXCEPT ![i] = Empty]]
    BY <1>5, <2>1
  <2>7. Empty = [status |-> Empty.status, truth |-> Empty.truth] /\ Empty.status # "whole" /\ Empty.truth = NoTruth
    BY DEF Empty
  <2>8. FileSystemOK' /\ \A j \in Inodes : fs'.data[j].truth \in {fs.data[j].truth, NoTruth}
    BY <1>1, <1>5, <2>6, <2>7, FileReplaced
  <2>9. QED
    BY <2>5, <2>8 DEF FilesOK, Copies
<1>8. CASE WriteTmp(s)
  <2> DEFINE i == saver[s].inode
  <2>1. /\ saver[s].step = "write" /\ i \in Inodes
        /\ saver' = [saver EXCEPT ![s] = [IdleSaver EXCEPT !.step = "rename"]]
    BY <1>2, <1>8 DEF WriteTmp
  <2>2. PICK written \in {Whole(saver[s].snap), Garbled} :
            fs' = IF i \in {fs.tmp, fs.path} THEN [fs EXCEPT !.data[i] = written] ELSE fs
    BY <1>8 DEF WriteTmp
  <2>3. PICK sv : sv = [step |-> "rename", snap |-> NoTruth, inode |-> None]
    OBVIOUS
  <2>4. SaverMove(s, sv)
    BY <1>1, <2>1, <2>3 DEF SaverMove, IdleSaver
  <2>5. /\ DOMAIN saver' = Savers /\ \A x \in Savers : SaverOK(x)'
        /\ \A x \in Savers : saver'[x].snap \in {saver[x].snap, gt, NoTruth}
    BY <1>1, <1>4, <2>3, <2>4, SaversOK
  <2>6. /\ written = [status |-> written.status, truth |-> written.truth]
        /\ written.status = "whole" => written.truth.startedAt \in Nat
        /\ written.truth \in {saver[s].snap, NoTruth}
    BY <1>2, <2>1 DEF Whole, Garbled
  <2>7. FileSystemOK' /\ \A j \in Inodes : fs'.data[j].truth \in {fs.data[j].truth, written.truth}
    <3>1. CASE i \in {fs.tmp, fs.path}
      <4>1. fs' = [tmp |-> fs.tmp, path |-> fs.path, data |-> [fs.data EXCEPT ![i] = written]]
        BY <1>5, <2>2, <3>1
      <4>2. QED
        BY <1>1, <1>5, <2>1, <2>6, <4>1, FileReplaced
    <3>2. CASE i \notin {fs.tmp, fs.path}
      BY <1>1, <2>2, <3>2, FilesSame
    <3>3. QED
      BY <3>1, <3>2
  <2>8. QED
    BY <2>5, <2>6, <2>7 DEF FilesOK, Copies
<1>9. ASSUME saver' = [saver EXCEPT ![s] = IdleSaver]
      PROVE  /\ DOMAIN saver' = Savers /\ \A x \in Savers : SaverOK(x)'
             /\ \A x \in Savers : saver'[x].snap \in {saver[x].snap, gt, NoTruth}
  <2>1. PICK sv : sv = [step |-> "idle", snap |-> NoTruth, inode |-> None]
    OBVIOUS
  <2>2. SaverMove(s, sv)
    BY <1>1, <1>9, <2>1 DEF SaverMove, IdleSaver
  <2>3. QED
    BY <1>1, <1>4, <2>1, <2>2, SaversOK
<1>10. CASE SaveFails(s)
  BY <1>1, <1>9, <1>10, FilesSame DEF SaveFails, FilesOK, Copies
<1>11. CASE Rename(s)
  <2>1. saver' = [saver EXCEPT ![s] = IdleSaver] /\ fs' = IF fs.tmp = None THEN fs ELSE Renamed
    BY <1>11 DEF Rename
  <2>2. Empty = [status |-> Empty.status, truth |-> Empty.truth] /\ Empty.status # "whole" /\ Empty.truth = NoTruth
    BY DEF Empty
  <2>3. CASE fs.tmp = None
    BY <1>1, <1>9, <2>1, <2>3, FilesSame DEF FilesOK, Copies
  <2>4. CASE fs.tmp # None /\ fs.path = None
    <3>1. /\ fs'.tmp = None /\ fs'.path = fs.tmp /\ fs'.data = fs.data
          /\ fs' = [tmp |-> fs'.tmp, path |-> fs'.path, data |-> fs'.data]
      BY <2>1, <2>4 DEF Renamed
    <3>2. FileSystemOK'
      BY <1>1, <1>5, <3>1 DEF FileSystemOK, WholeOK
    <3>3. QED
      BY <1>9, <2>1, <3>1, <3>2 DEF FilesOK, Copies
  <2>5. CASE fs.tmp # None /\ fs.path # None
    <3>1. fs' = [tmp |-> None, path |-> fs.tmp, data |-> [fs.data EXCEPT ![fs.path] = Empty]] /\ fs.path \in Inodes
      BY <1>5, <2>1, <2>5 DEF Renamed
    <3>2. PICK i \in Inodes : i = fs.path
      BY <3>1
    <3>3. FileSystemOK' /\ \A j \in Inodes : fs'.data[j].truth \in {fs.data[j].truth, NoTruth}
      BY <1>1, <1>5, <2>2, <3>1, <3>2, FileReplaced
    <3>4. QED
      BY <1>9, <2>1, <3>3 DEF FilesOK, Copies
  <2>6. QED
    BY <2>3, <2>4, <2>5
<1>12. QED
  BY <1>6, <1>7, <1>8, <1>10, <1>11 DEF Save

(* So does a step that saves nothing.                                      *)
LEMMA SaversSame ==
  ASSUME FilesOK, saver' = saver, fs' = fs, proc # "down" => proc' # "down"
  PROVE  FilesOK' /\ Copies
<1>1. FileSystemOK' /\ \A i \in Inodes : fs'.data[i].truth = fs.data[i].truth
  BY FilesSame DEF FilesOK
<1>2. \A s \in Savers : SaverOK(s)'
  BY DEF FilesOK, SaverOK
<1>3. QED
  BY <1>1, <1>2 DEF FilesOK, Copies

(* So does the beginning of a save.                                        *)
LEMMA SaverBegins ==
  ASSUME FilesOK, NEW s, saver' = [saver EXCEPT ![s].step = "snapshot"], fs' = fs, proc # "down", proc' # "down"
  PROVE  FilesOK' /\ Copies
<1>1. FileSystemOK' /\ \A i \in Inodes : fs'.data[i].truth = fs.data[i].truth
  BY FilesSame DEF FilesOK
<1>2. DOMAIN saver' = Savers
  BY DEF FilesOK
<1>3. ASSUME NEW x \in Savers PROVE SaverOK(x)' /\ saver'[x].snap = saver[x].snap
  <2>1. SaverOK(x) /\ x \in DOMAIN saver
    BY DEF FilesOK
  <2>2. CASE x # s
    BY <2>1, <2>2 DEF SaverOK
  <2>3. CASE x = s
    <3>1. saver[x] = [step |-> saver[x].step, snap |-> saver[x].snap, inode |-> saver[x].inode]
      BY <2>1 DEF SaverOK
    <3>2. saver'[x] = [step |-> "snapshot", snap |-> saver[x].snap, inode |-> saver[x].inode]
      BY <2>1, <2>3, <3>1
    <3>3. QED
      BY <2>1, <3>2 DEF SaverOK
  <2>4. QED
    BY <2>2, <2>3
<1>4. QED
  BY <1>1, <1>2, <1>3 DEF FilesOK, Copies

(* So does every step.                                                     *)
LEMMA FilesStep ==
  ASSUME RecordInv, [Next]_vars
  PROVE  FilesOK' /\ Copies
<1>1. FilesOK
  BY DEF RecordInv
<1>2. CASE Start
  BY <1>1, <1>2, SaversSame DEF Start
<1>3. ASSUME NEW clean, Leave(clean) PROVE FilesOK' /\ Copies
  <2>1. saver' = [s \in Savers |-> IdleSaver] /\ fs' = fs
    BY <1>3 DEF Leave
  <2>2. FileSystemOK' /\ \A i \in Inodes : fs'.data[i].truth = fs.data[i].truth
    BY <1>1, <2>1, FilesSame DEF FilesOK
  <2>3. IdleSaver.step = "idle" /\ IdleSaver.snap = NoTruth /\ IdleSaver.inode = None
        /\ IdleSaver = [step |-> IdleSaver.step, snap |-> IdleSaver.snap, inode |-> IdleSaver.inode]
    BY DEF IdleSaver
  <2>4. \A s \in Savers : SaverOK(s)' /\ saver'[s].snap = NoTruth
    BY <2>1, <2>3 DEF SaverOK
  <2>5. QED
    BY <2>1, <2>2, <2>4 DEF FilesOK, Copies
<1>4. CASE Interrupt
  BY <1>1, <1>4, SaversSame DEF Interrupt
<1>5. CASE AllTenantsDone
  BY <1>1, <1>5, SaverBegins DEF AllTenantsDone
<1>6. CASE TickerSaves
  BY <1>1, <1>6, SaverBegins DEF TickerSaves
<1>7. CASE Tick
  BY <1>1, <1>7, SaversSame DEF Tick
<1>8. CASE UNCHANGED vars
  BY <1>1, <1>8, SaversSame DEF vars
<1>9. ASSUME NEW t \in Tenants, RunTenant(t) PROVE FilesOK' /\ Copies
  <2>1. fs' = fs /\ proc' = proc
    BY <1>9, TenantMoves
  <2>2. CASE CloseSegment(t)
    <3>1. pc[t] # "done"
      BY <2>2 DEF CloseSegment
    <3>2. proc # "down"
      BY <3>1, CurrentIs
    <3>3. saver' = saver \/ saver' = [saver EXCEPT ![t].step = "snapshot"]
      BY <2>2 DEF CloseSegment
    <3>4. QED
      BY <1>1, <2>1, <3>2, <3>3, SaverBegins, SaversSame
  <2>3. CASE ~CloseSegment(t)
    <3>1. saver' = saver
      BY <1>9, <2>3 DEF RunTenant, StaySilent, Wait, StopWaiting, StartTenant, PushRules, GiveUpRules,
                        OpenSegment, Write, Record, StopWriting, PlannedStopSaved
    <3>2. QED
      BY <1>1, <2>1, <3>1, SaversSame
  <2>4. QED
    BY <2>2, <2>3
<1>10. ASSUME NEW s \in Savers, Save(s) PROVE FilesOK' /\ Copies
  BY <1>10, SaverStep
<1>11. QED
  BY <1>2, <1>3, <1>4, <1>5, <1>6, <1>7, <1>8, <1>9, <1>10 DEF Next, Crash, Exit

--------------------------------------------------------------------------------
(* The invariant.                                                          *)

(* No segments, no lifetimes needed.                                       *)
LEMMA NothingYet ==
  ASSUME NEW segs, NEW ls, NEW n, NEW now
  PROVE  OneEach(segs, 0, ls, n, now)
<1>1. PICK of : of = [k \in 1..0 |-> 1]
  OBVIOUS
<1>2. of \in [1..0 -> 1..n]
  BY <1>1
<1>3. \A k \in 1..0 : FALSE
  OBVIOUS
<1>4. QED
  BY <1>2, <1>3 DEF OneEach

(* A start goes on with the segments of the file, or with none.            *)
LEMMA RecordStarts ==
  ASSUME RecordInv, Start
  PROVE  Sound(gt', lives', accepted', clock') /\ TenantsOK'
<1>1. /\ clock \in Nat /\ lives \in Lives /\ accepted \in [Tenants -> SUBSET Nat] /\ Len(lives) \in Nat
      /\ clock' = clock /\ accepted' = accepted /\ proc' = "running"
  BY DEF RecordInv, ProcessOK, Ordered, Lives, Start
<1>2. /\ ProcessOK' /\ Later(lives, accepted, clock, lives', accepted', clock') /\ Len(lives') = Len(lives) + 1
  BY ProcessStarts
<1>3. lives' \in Lives /\ gt'.startedAt \in Nat
  BY <1>1, <1>2 DEF ProcessOK, Ordered, Lives
<1>4. PICK selected \in Selections :
        /\ \/ fs.path = None /\ gt' = Plan(selected)
           \/ fs.path # None /\ Saved.status = "whole" /\ gt' = Resume(Plan(selected), Saved.truth)
        /\ pc' = [t \in Tenants |-> IF t \in selected THEN "begin" ELSE "done"]
  BY DEF Start
<1>5. selected \subseteq Tenants
  BY ProfileAssumption
<1>6. NewTenant \in Tenant /\ NewTenant.segments = <<>>
  BY DEF NewTenant, Tenant
<1>7. /\ gt' = [startedAt |-> gt'.startedAt, tenants |-> gt'.tenants] /\ DOMAIN gt'.tenants = selected
      /\ gt'.tenants = [t \in selected |-> gt'.tenants[t]]
      /\ \A t \in selected :
            \/ gt'.tenants[t] = NewTenant
            \/ /\ fs.path # None /\ Saved.status = "whole" /\ t \in DOMAIN Saved.truth.tenants
               /\ gt'.tenants[t] = Saved.truth.tenants[t] /\ gt'.startedAt = Saved.truth.startedAt
  <2>1. CASE gt' = Plan(selected)
    BY <2>1 DEF Plan
  <2>2. CASE fs.path # None /\ Saved.status = "whole" /\ gt' = Resume(Plan(selected), Saved.truth)
    <3>1. DOMAIN Plan(selected).tenants = selected /\ \A t \in selected : Plan(selected).tenants[t] = NewTenant
      BY DEF Plan
    <3>2. /\ gt'.startedAt = Saved.truth.startedAt
          /\ gt'.tenants = [t \in selected |-> IF t \in DOMAIN Saved.truth.tenants
                                               THEN Saved.truth.tenants[t] ELSE Plan(selected).tenants[t]]
          /\ gt' = [startedAt |-> gt'.startedAt, tenants |-> gt'.tenants]
      BY <2>2, <3>1 DEF Resume
    <3>3. QED
      BY <2>2, <3>1, <3>2
  <2>3. QED
    BY <1>4, <2>1, <2>2
<1>8. ASSUME NEW t \in selected
      PROVE  /\ gt'.tenants[t] \in Tenant
             /\ \A k \in DOMAIN gt'.tenants[t].segments :
                    Planned(gt'.tenants[t].segments[k], t, gt'.startedAt, accepted[t], clock)
             /\ OneEach(gt'.tenants[t].segments, Len(gt'.tenants[t].segments), lives, Len(lives), clock)
  <2>1. CASE gt'.tenants[t] = NewTenant
    <3>1. gt'.tenants[t].segments = <<>> /\ Len(gt'.tenants[t].segments) = 0 /\ DOMAIN gt'.tenants[t].segments = {}
      BY <1>6, <2>1
    <3>2. OneEach(gt'.tenants[t].segments, 0, lives, Len(lives), clock)
      BY NothingYet
    <3>3. QED
      BY <1>6, <2>1, <3>1, <3>2
  <2>2. CASE /\ fs.path # None /\ Saved.status = "whole" /\ t \in DOMAIN Saved.truth.tenants
             /\ gt'.tenants[t] = Saved.truth.tenants[t] /\ gt'.startedAt = Saved.truth.startedAt
    <3>1. fs.path \in Inodes
      BY <2>2 DEF RecordInv, FilesOK, FileSystemOK
    <3>2. Sound(Saved.truth, lives, accepted, clock)
      BY <3>1 DEF RecordInv, TruthsOK, Saved
    <3>3. QED
      BY <2>2, <3>2 DEF Sound
  <2>3. QED
    BY <1>7, <2>1, <2>2
<1>9. ASSUME NEW t \in selected
      PROVE  OneEach(gt'.tenants[t].segments, Len(gt'.tenants[t].segments), lives', Len(lives), clock)
  <2>1. PICK ss : ss = gt'.tenants[t].segments
    OBVIOUS
  <2>2. ss \in Seq(Segment) /\ OneEach(ss, Len(ss), lives, Len(lives), clock)
    BY <1>8, <2>1 DEF Tenant
  <2>3. Len(ss) \in 0..Len(ss) /\ Len(lives) \in 0..Len(lives)
    BY <1>1, <2>2
  <2>4. OneEach(ss, Len(ss), lives', Len(lives), clock)
    BY <1>1, <1>2, <1>3, <2>2, <2>3, OneEachStays
  <2>5. QED
    BY <2>1, <2>4
<1>10. ASSUME NEW t \in selected
       PROVE  OneEach(gt'.tenants[t].segments, Len(gt'.tenants[t].segments), lives', Len(lives'), clock)
  <2>1. Len(lives') \in Nat /\ Len(lives) <= Len(lives')
    BY <1>1, <1>2
  <2>2. QED
    BY <1>1, <1>9, <2>1, OneEachWiden
<1>11. Sound(gt', lives', accepted', clock')
  <2>1. gt'.tenants \in [DOMAIN gt'.tenants -> Tenant]
    BY <1>7, <1>8
  <2>2. gt'.startedAt # None
    BY <1>3, Numbers
  <2>3. QED
    BY <1>1, <1>3, <1>5, <1>7, <1>8, <1>10, <2>1, <2>2 DEF Sound
<1>12. ASSUME NEW t \in Tenants PROVE TenantOK(t)'
  <2>1. CASE t \notin selected
    BY <1>4, <2>1 DEF TenantOK, Started, Opened
  <2>2. CASE t \in selected
    <3>1. pc'[t] = "begin" /\ Current(t)' = gt'.tenants[t].segments /\ Len(lives') - 1 = Len(lives)
      BY <1>1, <1>2, <1>4, <2>2 DEF Current
    <3>2. QED
      BY <1>1, <1>7, <1>9, <2>2, <3>1 DEF TenantOK, Started, Opened
  <2>3. QED
    BY <2>1, <2>2
<1>13. QED
  BY <1>11, <1>12 DEF TenantsOK

(* Every step keeps every copy of the record sound.                        *)
LEMMA TruthsStep ==
  ASSUME RecordInv, [Next]_vars
  PROVE  TruthsOK'
<1>1. /\ clock \in Nat /\ lives \in Lives /\ accepted \in [Tenants -> SUBSET Nat] /\ TruthsOK
  BY DEF RecordInv, ProcessOK, Ordered, Lives
<1>2. ProcessOK' /\ Later(lives, accepted, clock, lives', accepted', clock') /\ Copies
  BY ProcessStep, FilesStep
<1>3. clock' \in Nat /\ lives' \in Lives /\ accepted' \in [Tenants -> SUBSET Nat]
  BY <1>2 DEF ProcessOK, Ordered, Lives
<1>4. \A r : Sound(r, lives, accepted, clock) => Sound(r, lives', accepted', clock')
  BY <1>1, <1>2, <1>3, SoundStays
<1>5. Sound(NoTruth, lives', accepted', clock') /\ Sound(gt, lives', accepted', clock')
  BY <1>1, <1>4, NothingRecorded DEF TruthsOK
<1>6. \A s \in Savers : Sound(saver[s].snap, lives', accepted', clock')
  BY <1>1, <1>4 DEF TruthsOK
<1>7. \A i \in Inodes : Sound(fs.data[i].truth, lives', accepted', clock')
  BY <1>1, <1>4 DEF TruthsOK
<1>8. \A s \in Savers : Sound(saver'[s].snap, lives', accepted', clock')
  BY <1>2, <1>5, <1>6 DEF Copies
<1>9. \A i \in Inodes : Sound(fs'.data[i].truth, lives', accepted', clock')
  BY <1>2, <1>5, <1>6, <1>7 DEF Copies
<1>10. Sound(gt', lives', accepted', clock')
  <2>1. CASE Start
    BY <2>1, RecordStarts
  <2>2. ASSUME NEW clean, Leave(clean) PROVE Sound(gt', lives', accepted', clock')
    BY <1>5, <2>2 DEF Leave
  <2>3. ASSUME NEW t \in Tenants, RunTenant(t) PROVE Sound(gt', lives', accepted', clock')
    BY <2>3, TenantStep DEF Kept
  <2>4. ASSUME NEW s \in Savers, Save(s) PROVE Sound(gt', lives', accepted', clock')
    BY <1>5, <2>4, SaverMoves
  <2>5. CASE Interrupt \/ AllTenantsDone \/ TickerSaves \/ Tick \/ UNCHANGED vars
    <3>1. gt' = gt
      BY <2>5 DEF Interrupt, AllTenantsDone, TickerSaves, Tick, vars
    <3>2. QED
      BY <1>5, <3>1
  <2>6. QED
    BY <2>1, <2>2, <2>3, <2>4, <2>5 DEF Next, Crash, Exit
<1>11. QED
  BY <1>8, <1>9, <1>10 DEF TruthsOK

(* Every step keeps what is claimed of every tenant.                       *)
LEMMA TenantsStep ==
  ASSUME RecordInv, [Next]_vars
  PROVE  TenantsOK'
<1>1. TenantsOK /\ pc \in [Tenants -> Labels] /\ accepted \in [Tenants -> SUBSET Nat]
      /\ push \in [Tenants -> [at : Nat, ok : BOOLEAN]]
  BY DEF RecordInv, ProcessOK
<1>2. CASE Start
  BY <1>2, RecordStarts
<1>3. ASSUME NEW clean, Leave(clean) PROVE TenantsOK'
  BY <1>3 DEF Leave, TenantsOK, TenantOK, Started, Opened
<1>4. CASE Interrupt \/ AllTenantsDone \/ TickerSaves \/ UNCHANGED vars
  <2>1. /\ clock' = clock /\ lives' = lives /\ gt' = gt /\ pc' = pc /\ push' = push /\ accepted' = accepted
        /\ proc # "down" => proc' # "down"
    BY <1>4 DEF Interrupt, AllTenantsDone, TickerSaves, vars
  <2>2. ASSUME NEW t \in Tenants PROVE TenantOK(t)'
    <3>1. TenantOK(t) /\ (pc[t] # "done" => t \in DOMAIN gt.tenants)
      BY <1>1 DEF TenantsOK, TenantOK
    <3>2. QED
      BY <2>1, <3>1, TenantSame
  <2>3. QED
    BY <2>2 DEF TenantsOK
<1>5. CASE Tick
  BY <1>5, TenantTicks DEF TenantsOK
<1>6. ASSUME NEW s \in Savers, Save(s) PROVE TenantsOK'
  <2>1. /\ clock' = clock /\ lives' = lives /\ gt' = gt /\ pc' = pc /\ push' = push /\ accepted' = accepted
        /\ proc # "down" => proc' # "down"
    BY <1>6, SaverMoves
  <2>2. ASSUME NEW t \in Tenants PROVE TenantOK(t)'
    <3>1. TenantOK(t) /\ (pc[t] # "done" => t \in DOMAIN gt.tenants)
      BY <1>1 DEF TenantsOK, TenantOK
    <3>2. QED
      BY <2>1, <3>1, TenantSame
  <2>3. QED
    BY <2>2 DEF TenantsOK
<1>7. ASSUME NEW t \in Tenants, RunTenant(t) PROVE TenantsOK'
  <2>1. TenantOK(t)' /\ Kept(t)
    BY <1>7, TenantStep
  <2>2. /\ lives' = lives /\ clock' = clock /\ proc' = proc /\ gt'.startedAt = gt.startedAt
        /\ \E l \in Labels : pc' = [pc EXCEPT ![t] = l]
        /\ push' = push \/ (\E p \in [at : Nat, ok : BOOLEAN] : push' = [push EXCEPT ![t] = p])
        /\ accepted' = accepted \/ (\E now \in Nat : accepted' = [accepted EXCEPT ![t] = @ \cup {now}])
    BY <1>7, TenantMoves
  <2>3. ASSUME NEW u \in Tenants \ {t} PROVE TenantOK(u)'
    <3>1. pc'[u] = pc[u] /\ push'[u] = push[u] /\ accepted'[u] = accepted[u]
      BY <1>1, <2>2
    <3>2. TenantOK(u) /\ (pc[u] # "done" => u \in DOMAIN gt.tenants)
      BY <1>1 DEF TenantsOK, TenantOK
    <3>3. pc[u] # "done" => u \in DOMAIN gt'.tenants /\ gt'.tenants[u] = gt.tenants[u]
      BY <2>1, <3>2 DEF Kept
    <3>4. QED
      BY <2>2, <3>1, <3>2, <3>3, TenantSame
  <2>4. QED
    BY <2>1, <2>3 DEF TenantsOK
<1>8. QED
  BY <1>2, <1>3, <1>4, <1>5, <1>6, <1>7 DEF Next, Crash, Exit

(* The invariant holds at first.                                           *)
LEMMA RecordInit == Init => RecordInv
<1> SUFFICES ASSUME Init PROVE RecordInv
  OBVIOUS
<1>1. ProcessOK
  <2>1. <<>> \in Seq([from : Nat, to : Times, clean : BOOLEAN]) /\ DOMAIN <<>> = {}
    OBVIOUS
  <2>2. Ordered(<<>>, 0)
    BY <2>1 DEF Ordered
  <2>3. [t \in Tenants |-> NoPush] \in [Tenants -> [at : Nat, ok : BOOLEAN]]
    BY DEF NoPush
  <2>4. QED
    BY <2>1, <2>2, <2>3 DEF Init, ProcessOK, Labels
<1>2. TenantsOK
  BY DEF Init, TenantsOK, TenantOK, Started, Opened
<1>3. TruthsOK
  <2>1. Sound(NoTruth, lives, accepted, clock)
    BY NothingRecorded
  <2>2. \A s \in Savers : saver[s].snap = NoTruth
    BY DEF Init, IdleSaver
  <2>3. \A i \in Inodes : fs.data[i].truth = NoTruth
    BY DEF Init, Empty
  <2>4. QED
    BY <2>1, <2>2, <2>3 DEF Init, TruthsOK
<1>4. FilesOK
  <2>1. \A s \in Savers : SaverOK(s)
    BY DEF Init, SaverOK, IdleSaver
  <2>2. fs = [tmp |-> None, path |-> None, data |-> [i \in Inodes |-> Empty]]
    BY DEF Init
  <2>3. FileSystemOK
    BY <2>2 DEF FileSystemOK, WholeOK, Empty
  <2>4. QED
    BY <2>1, <2>3 DEF Init, FilesOK
<1>5. QED
  BY <1>1, <1>2, <1>3, <1>4 DEF RecordInv

(* Every step keeps it.                                                    *)
LEMMA RecordStep == RecordInv /\ [Next]_vars => RecordInv'
BY ProcessStep, TenantsStep, TruthsStep, FilesStep DEF RecordInv

(* RecordInv is an invariant of the load generator.                        *)
THEOREM RecordInductive == Spec => []RecordInv
BY RecordInit, RecordStep, PTL DEF Spec

(* What is recorded in memory or on disk is sound.                         *)
LEMMA RecordsSound ==
  ASSUME RecordInv, NEW r \in Records
  PROVE  Sound(r, lives, accepted, clock)
<1>1. r = gt \/ (fs.path # None /\ r = Saved.truth)
  BY DEF Records, Readable
<1>2. CASE r = gt
  BY <1>2 DEF RecordInv, TruthsOK
<1>3. CASE fs.path # None /\ r = Saved.truth
  <2>1. fs.path \in Inodes
    BY <1>3 DEF RecordInv, FilesOK, FileSystemOK
  <2>2. QED
    BY <1>3, <2>1 DEF RecordInv, TruthsOK, Saved
<1>4. QED
  BY <1>1, <1>2, <1>3

(* Through any number of crashes, resumes and saves no recorded sample is  *)
(* from before its tenant's start_after or from its stop_after on, counted *)
(* from the first start of the run (runTenant, resume):                    *)
(* SegmentsWithinPlan.                                                     *)
THEOREM WithinPlan == Spec => []SegmentsWithinPlan
<1>1. RecordInv => SegmentsWithinPlan
  <2> SUFFICES ASSUME RecordInv, NEW r \in Records, NEW t \in DOMAIN r.tenants,
                      NEW seg \in Range(r.tenants[t].segments), seg.first # None
               PROVE  /\ seg.first >= r.startedAt + StartAfter[t]
                      /\ StopAfter[t] > 0 => seg.last < r.startedAt + StopAfter[t]
                      /\ seg.stopped # None => seg.last <= seg.stopped
    BY DEF SegmentsWithinPlan
  <2>1. PICK k \in DOMAIN r.tenants[t].segments : seg = r.tenants[t].segments[k]
    BY DEF Range
  <2>2. Planned(seg, t, r.startedAt, accepted[t], clock)
    BY <2>1, RecordsSound DEF Sound
  <2>3. QED
    BY <2>2 DEF Planned
<1>2. QED
  BY <1>1, RecordInductive, PTL

(* An increasing map from 1..l into 1..n needs l <= n.                     *)
LEMMA NoMoreThan ==
  ASSUME NEW l \in Nat, NEW n \in Nat, NEW of \in [1..l -> 1..n], \A j, k \in 1..l : j < k => of[j] < of[k]
  PROVE  l <= n
<1>1. IsFiniteSet(1..n) /\ Cardinality(1..n) = n /\ Cardinality(1..l) = l /\ IsFiniteSet(1..l)
  <2>1. /\ IsFiniteSet(1..n) /\ Cardinality(1..n) = IF 1 > n THEN 0 ELSE n - 1 + 1
        /\ IsFiniteSet(1..l) /\ Cardinality(1..l) = IF 1 > l THEN 0 ELSE l - 1 + 1
    BY FS_Interval
  <2>2. QED
    BY <2>1
<1>2. \A j, k \in 1..l : of[j] = of[k] => j = k
  <2>1. SUFFICES ASSUME NEW j \in 1..l, NEW k \in 1..l, of[j] = of[k], j # k PROVE FALSE
    OBVIOUS
  <2>2. of[j] \in Int /\ of[k] \in Int
    OBVIOUS
  <2>3. j < k \/ k < j
    BY <2>1
  <2>4. QED
    BY <2>1, <2>2, <2>3
<1>3. PICK S : S = 1..l
  OBVIOUS
<1>4. PICK T : T = 1..n
  OBVIOUS
<1>5. of \in Injection(S, T)
  BY <1>2, <1>3, <1>4 DEF Injection, IsInjective
<1>6. Cardinality(S) <= Cardinality(T)
  BY <1>1, <1>3, <1>4, <1>5, FS_Injection
<1>7. QED
  BY <1>1, <1>3, <1>4, <1>6

(* Every recorded segment begins and ends with samples Mimir accepted, all *)
(* in one process lifetime, and no two segments of a tenant share one      *)
(* (truth.go, openSegment): OneSegmentPerLifetime.                         *)
THEOREM OnePerLifetime == Spec => []OneSegmentPerLifetime
<1>1. RecordInv => OneSegmentPerLifetime
  <2> SUFFICES ASSUME RecordInv, NEW r \in Records, NEW t \in DOMAIN r.tenants, NEW segs, segs = r.tenants[t].segments
               PROVE  /\ \A k \in DOMAIN segs : segs[k].first # None =>
                          /\ {segs[k].first, segs[k].last} \subseteq accepted[t]
                          /\ \E n \in DOMAIN lives : Lived(segs[k], lives[n])
                      /\ Len(segs) <= Len(lives)
                      /\ \A j, k \in DOMAIN segs : j < k /\ segs[j].last # None /\ segs[k].first # None =>
                          \E n \in DOMAIN lives : segs[j].last <= lives[n].from /\ lives[n].from <= segs[k].first
    BY DEF OneSegmentPerLifetime
  <2>1. Sound(r, lives, accepted, clock) /\ lives \in Lives /\ Ordered(lives, clock) /\ clock \in Nat
    BY RecordsSound DEF RecordInv, ProcessOK, Ordered, Lives
  <2>2. segs \in Seq(Segment) /\ Len(segs) \in Nat /\ DOMAIN segs = 1..Len(segs)
    BY <2>1 DEF Sound, Tenant
  <2>3. DOMAIN lives = 1..Len(lives) /\ Len(lives) \in Nat
    BY <2>1 DEF Lives
  <2>4. /\ \A k \in DOMAIN segs : Planned(segs[k], t, r.startedAt, accepted[t], clock)
        /\ OneEach(segs, Len(segs), lives, Len(lives), clock)
    BY <2>1 DEF Sound
  <2>5. PICK of \in [1..Len(segs) -> 1..Len(lives)] :
          /\ \A k \in 1..Len(segs) : Within(segs[k], lives[of[k]], clock)
          /\ \A j, k \in 1..Len(segs) : j < k => of[j] < of[k]
    BY <2>4 DEF OneEach
  <2>6. Len(segs) <= Len(lives)
    BY <2>2, <2>3, <2>5, NoMoreThan
  <2>7. ASSUME NEW k \in DOMAIN segs, segs[k].first # None
        PROVE  /\ {segs[k].first, segs[k].last} \subseteq accepted[t]
               /\ \E n \in DOMAIN lives : Lived(segs[k], lives[n])
    <3>1. {segs[k].first, segs[k].last} \subseteq accepted[t]
      BY <2>4, <2>7 DEF Planned
    <3>2. Within(segs[k], lives[of[k]], clock) /\ of[k] \in DOMAIN lives
      BY <2>2, <2>3, <2>5
    <3>3. Lived(segs[k], lives[of[k]])
      BY <2>7, <3>2 DEF Within, Lived, LifeEnd
    <3>4. QED
      BY <3>1, <3>2, <3>3
  <2>8. ASSUME NEW j \in DOMAIN segs, NEW k \in DOMAIN segs, j < k, segs[j].last # None, segs[k].first # None
        PROVE  \E n \in DOMAIN lives : segs[j].last <= lives[n].from /\ lives[n].from <= segs[k].first
    <3>1. j \in 1..Len(segs) /\ k \in 1..Len(segs)
      BY <2>2
    <3>2. PICK m \in 1..Len(lives) : m = of[j]
      BY <2>5, <3>1
    <3>3. PICK n \in 1..Len(lives) : n = of[k]
      BY <2>5, <3>1
    <3>4. m < n
      BY <2>5, <2>8, <3>1, <3>2, <3>3
    <3>5. lives[m].to # None /\ lives[m].to <= lives[n].from
      BY <2>1, <2>3, <3>4 DEF Ordered
    <3>6. segs[j].first # None
      BY <2>4, <2>8 DEF Planned
    <3>7. segs[j].last <= lives[m].to
      BY <2>5, <3>1, <3>2, <3>5, <3>6 DEF Within, LifeEnd
    <3>8. lives[n].from <= segs[k].first
      BY <2>5, <2>8, <3>1, <3>3 DEF Within
    <3>9. segs[j] \in Segment /\ lives[m] \in [from : Nat, to : Times, clean : BOOLEAN]
           /\ lives[n] \in [from : Nat, to : Times, clean : BOOLEAN]
      BY <2>1, <2>2, <3>1, ElementOfSeq DEF Lives
    <3>10. segs[j].last \in Nat /\ lives[m].to \in Nat /\ lives[n].from \in Nat
      BY <2>8, <3>5, <3>9 DEF Segment, Times
    <3>11. segs[j].last <= lives[n].from
      BY <3>5, <3>7, <3>10, SMTT(30)
    <3>12. QED
      BY <2>3, <3>8, <3>11
  <2>9. QED
    BY <2>6, <2>7, <2>8
<1>2. QED
  BY <1>1, RecordInductive, PTL

(* What is recorded of lifetimes before the one that started then.         *)
Early(seg, from) == seg.first # None /\ seg.first < from

Past(segs, from) == [k \in {k \in DOMAIN segs : Early(segs[k], from)} |-> segs[k]]

(* When the current lifetime began.                                        *)
LifeStart == lives[Len(lives)].from

(* r is a record of the run that is under way, and says of earlier         *)
(* lifetimes what memory says.                                             *)
Agrees(r, g, from) ==
    /\ r.startedAt = g.startedAt
    /\ DOMAIN r.tenants = Tenants
    /\ \A t \in Tenants : Past(r.tenants[t].segments, from) = Past(g.tenants[t].segments, from)

(* The temporary file was opened in this lifetime.                         *)
TmpIsOurs == \E s \in Savers : saver[s].step \in {"write", "rename"}

(* Memory, snapshots and files agree on earlier lifetimes.                 *)
PastInv ==
    /\ Readable => DOMAIN Saved.truth.tenants = Tenants
    /\ proc # "down" =>
        /\ DOMAIN gt.tenants = Tenants
        /\ Readable => Agrees(Saved.truth, gt, LifeStart)
        /\ \A s \in Savers : saver[s].step \in {"open", "write"} => Agrees(saver[s].snap, gt, LifeStart)
        /\ (TmpIsOurs /\ fs.tmp # None /\ fs.data[fs.tmp].status = "whole") =>
                Agrees(fs.data[fs.tmp].truth, gt, LifeStart)

(* Segments that agree on what is early have the same past.                *)
LEMMA PastSame ==
  ASSUME NEW segs, NEW segs2, NEW from,
         \A k : (k \in DOMAIN segs /\ Early(segs[k], from)) <=> (k \in DOMAIN segs2 /\ Early(segs2[k], from)),
         \A k \in DOMAIN segs : Early(segs[k], from) => segs2[k] = segs[k]
  PROVE  Past(segs2, from) = Past(segs, from)
<1> DEFINE K == {k \in DOMAIN segs : Early(segs[k], from)}
           K2 == {k \in DOMAIN segs2 : Early(segs2[k], from)}
<1>1. K2 = K /\ \A k \in K : segs2[k] = segs[k]
  OBVIOUS
<1>2. [k \in K2 |-> segs2[k]] = [k \in K |-> segs[k]]
  BY <1>1
<1>3. QED
  BY <1>2 DEF Past

(* A tenant's step never touches what earlier lifetimes recorded of it.    *)
LEMMA PastKept ==
  ASSUME RecordInv, NEW t \in Tenants, pc[t] # "done", Rewrites(t)
  PROVE  Past(Current(t)', LifeStart) = Past(Current(t), LifeStart)
<1>1. /\ Current(t) \in Seq(Segment) /\ Len(Current(t)) \in Nat /\ lives \in Lives
      /\ Len(lives) \in Nat \ {0}
  BY CurrentIs
<1>2. lives[Len(lives)] \in [from : Nat, to : Times, clean : BOOLEAN]
  <2>1. Len(lives) \in 1..Len(lives)
    BY <1>1
  <2>2. QED
    BY <1>1, <2>1, ElementOfSeq DEF Lives
<1>3. PICK from \in Nat : from = LifeStart /\ from = lives[Len(lives)].from
  BY <1>2 DEF LifeStart
<1>4. PICK ss \in Seq(Segment) : ss = Current(t)
  BY <1>1
<1>5. PICK ss2 : ss2 = Current(t)'
  OBVIOUS
<1>6. DOMAIN ss = 1..Len(ss) /\ Len(ss) \in Nat
  BY <1>4
<1>7. CASE ss2 = ss
  BY <1>4, <1>5, <1>7
<1>8. CASE ss2 = Append(ss, NewSegment)
  <2>1. NewSegment \in Segment /\ ~Early(NewSegment, from)
    BY DEF NewSegment, Segment, Times, Early
  <2>2. /\ DOMAIN ss2 = 1..Len(ss) + 1 /\ ss2[Len(ss) + 1] = NewSegment
        /\ \A k \in 1..Len(ss) : ss2[k] = ss[k]
    BY <1>8, <2>1, AppendProperties
  <2>3. \A k : k \in 1..Len(ss) + 1 <=> (k \in 1..Len(ss) \/ k = Len(ss) + 1)
    BY <1>6
  <2>4. Len(ss) + 1 \notin 1..Len(ss)
    BY <1>6
  <2>5. \A k : (k \in DOMAIN ss /\ Early(ss[k], from)) <=> (k \in DOMAIN ss2 /\ Early(ss2[k], from))
    BY <1>6, <2>1, <2>2, <2>3, <2>4
  <2>6. Past(ss2, from) = Past(ss, from)
    BY <1>3, <1>6, <2>2, <2>5, PastSame
  <2>7. QED
    BY <2>6, <1>3, <1>4, <1>5
<1>9. ASSUME ss # <<>>, NEW seg \in Segment, ss2 = [ss EXCEPT ![Len(ss)] = seg],
             \A x \in {seg, ss[Len(ss)]} : x.first # None => from <= x.first
      PROVE  Past(ss2, from) = Past(ss, from)
  <2>1. PICK n : n = Len(ss)
    OBVIOUS
  <2>2. n \in DOMAIN ss
    BY <1>6, <1>9, <2>1
  <2>3. DOMAIN ss2 = DOMAIN ss /\ ss2[n] = seg /\ \A k \in DOMAIN ss \ {n} : ss2[k] = ss[k]
    BY <1>9, <2>1, <2>2
  <2>4. ss[n] \in Segment
    BY <1>6, <2>2
  <2>5. ~Early(ss[n], from)
    BY <1>9, <2>1, <2>4 DEF Early, Segment, Times
  <2>6. ~Early(seg, from)
    <3>1. CASE seg.first = None
      BY <3>1 DEF Early
    <3>2. CASE seg.first # None
      <4>1. from <= seg.first
        BY <1>9, <3>2
      <4>2. seg.first \in Nat
        BY <3>2 DEF Segment, Times
      <4>3. QED
        BY <4>1, <4>2 DEF Early
    <3>3. QED
      BY <3>1, <3>2
  <2>7. \A k : (k \in DOMAIN ss /\ Early(ss[k], from)) <=> (k \in DOMAIN ss2 /\ Early(ss2[k], from))
    BY <2>3, <2>5, <2>6
  <2>8. \A k \in DOMAIN ss : Early(ss[k], from) => ss2[k] = ss[k]
    BY <2>3, <2>5
  <2>9. QED
    BY <1>3, <2>7, <2>8, PastSame
<1>10. QED
  BY <1>3, <1>4, <1>5, <1>7, <1>8, <1>9 DEF Rewrites

(* A step that writes no file and begins no lifetime.                      *)
LEMMA PastGoesOn ==
  ASSUME PastInv, fs' = fs, lives' = lives, proc' # "down" => proc # "down",
         \A s \in Savers : saver'[s].step \in {"open", "write", "rename"} =>
            saver'[s].step = saver[s].step /\ saver'[s].snap = saver[s].snap,
         proc' # "down" => /\ DOMAIN gt'.tenants = DOMAIN gt.tenants /\ gt'.startedAt = gt.startedAt
                           /\ \A t \in DOMAIN gt.tenants : Past(gt'.tenants[t].segments, LifeStart)
                                                           = Past(gt.tenants[t].segments, LifeStart)
  PROVE  PastInv'
<1>1. Readable' = Readable /\ Saved' = Saved /\ LifeStart' = LifeStart
  BY DEF Readable, Saved, LifeStart
<1>2. CASE proc' = "down"
  BY <1>1, <1>2 DEF PastInv
<1>3. CASE proc' # "down"
  <2>1. DOMAIN gt.tenants = Tenants /\ DOMAIN gt'.tenants = Tenants
    BY <1>3 DEF PastInv
  <2>2. \A r : Agrees(r, gt, LifeStart) => Agrees(r, gt', LifeStart)
    BY <1>3, <2>1 DEF Agrees
  <2>3. TmpIsOurs' => TmpIsOurs
    BY DEF TmpIsOurs
  <2>4. \A s \in Savers : saver'[s].step \in {"open", "write"} => Agrees(saver'[s].snap, gt', LifeStart)
    BY <1>3, <2>2 DEF PastInv
  <2>5. QED
    BY <1>1, <1>3, <2>1, <2>2, <2>3, <2>4 DEF PastInv
<1>4. QED
  BY <1>2, <1>3

(* resume: the file and memory agree when every tenant is selected.        *)
LEMMA PastStarts ==
  ASSUME RecordInv, PastInv, Start, \A selected \in Selections : selected = Tenants
  PROVE  PastInv'
<1>1. PICK selected \in Selections :
        /\ \/ fs.path = None /\ gt' = Plan(selected)
           \/ fs.path # None /\ Saved.status = "whole" /\ gt' = Resume(Plan(selected), Saved.truth)
  BY DEF Start
<1>2. selected = Tenants /\ fs' = fs /\ saver' = saver /\ proc = "down"
  BY DEF Start
<1>3. Readable' = Readable /\ Saved' = Saved
  BY <1>2 DEF Readable, Saved
<1>4. \A s \in Savers : saver'[s].step = "idle"
  BY <1>2 DEF RecordInv, FilesOK, SaverOK
<1>5. CASE fs.path = None /\ gt' = Plan(selected)
  <2>1. DOMAIN gt'.tenants = Tenants
    BY <1>2, <1>5 DEF Plan
  <2>2. ~Readable
    BY <1>5 DEF Readable
  <2>3. QED
    BY <1>3, <1>4, <2>1, <2>2 DEF PastInv, TmpIsOurs
<1>6. CASE fs.path # None /\ Saved.status = "whole" /\ gt' = Resume(Plan(selected), Saved.truth)
  <2>1. DOMAIN Saved.truth.tenants = Tenants
    BY <1>6 DEF PastInv, Readable
  <2>2. DOMAIN Plan(selected).tenants = Tenants
    BY <1>2 DEF Plan
  <2>3. /\ gt'.startedAt = Saved.truth.startedAt /\ DOMAIN gt'.tenants = Tenants
        /\ \A t \in Tenants : gt'.tenants[t] = Saved.truth.tenants[t]
    BY <1>6, <2>1, <2>2 DEF Resume
  <2>4. Agrees(Saved.truth, gt', LifeStart')
    BY <2>1, <2>3 DEF Agrees
  <2>5. QED
    BY <1>3, <1>4, <2>1, <2>3, <2>4 DEF PastInv, TmpIsOurs
<1>7. QED
  BY <1>1, <1>5, <1>6

(* Savers racing for the one temporary file only ever put a record of this *)
(* lifetime at the path.                                                   *)
LEMMA PastSaves ==
  ASSUME RecordInv, PastInv, NEW s \in Savers, Save(s)
  PROVE  PastInv' /\ proc # "down" /\ proc' # "down" /\ gt' = gt /\ lives' = lives
<1>1. /\ FilesOK /\ DOMAIN saver = Savers /\ SaverOK(s) /\ FileSystemOK
  BY DEF RecordInv, FilesOK
<1>2. saver[s].step # "idle"
  BY DEF Save, Snapshot, OpenTmp, WriteTmp, SaveFails, Rename
<1>3. proc # "down" /\ proc' # "down" /\ gt' = gt /\ lives' = lives
  BY <1>1, <1>2, SaverMoves DEF SaverOK
<1> SUFFICES PastInv'
  BY <1>3
<1>4. LifeStart' = LifeStart /\ DOMAIN gt.tenants = Tenants
  BY <1>3 DEF PastInv, LifeStart
<1>5. PICK from : from = LifeStart
  OBVIOUS
<1>6. /\ Readable => Agrees(Saved.truth, gt, from)
      /\ \A x \in Savers : saver[x].step \in {"open", "write"} => Agrees(saver[x].snap, gt, from)
      /\ (TmpIsOurs /\ fs.tmp # None /\ fs.data[fs.tmp].status = "whole") => Agrees(fs.data[fs.tmp].truth, gt, from)
  BY <1>3, <1>5 DEF PastInv
<1>7. /\ fs = [tmp |-> fs.tmp, path |-> fs.path, data |-> fs.data] /\ DOMAIN fs.data = Inodes
      /\ fs.tmp \in Inodes \cup {None} /\ fs.path \in Inodes \cup {None} /\ None \notin Inodes
  BY <1>1, InodesAreNumbers, Numbers DEF FileSystemOK
<1>8. Empty.status # "whole" /\ Garbled.status # "whole"
  BY DEF Empty, Garbled
(* What remains to be shown of each kind of step.                          *)
<1>9. ASSUME Readable' => Agrees(Saved'.truth, gt, from),
             \A x \in Savers : saver'[x].step \in {"open", "write"} => Agrees(saver'[x].snap, gt, from),
             (TmpIsOurs' /\ fs'.tmp # None /\ fs'.data[fs'.tmp].status = "whole") =>
                Agrees(fs'.data[fs'.tmp].truth, gt, from)
      PROVE  PastInv'
  <2>1. Readable' => DOMAIN Saved'.truth.tenants = Tenants
    BY <1>9 DEF Agrees
  <2>2. QED
    BY <1>3, <1>4, <1>5, <1>9, <2>1 DEF PastInv
<1>10. CASE Snapshot(s)
  <2>1. saver' = [saver EXCEPT ![s].step = "open", ![s].snap = gt] /\ fs' = fs /\ saver[s].step = "snapshot"
    BY <1>10 DEF Snapshot
  <2>2. /\ saver'[s] = [step |-> "open", snap |-> gt, inode |-> saver[s].inode]
        /\ \A x \in Savers \ {s} : saver'[x] = saver[x]
    BY <1>1, <2>1, SaverReplaced DEF SaverOK
  <2>3. Readable' = Readable /\ Saved' = Saved
    BY <2>1 DEF Readable, Saved
  <2>4. TmpIsOurs' => TmpIsOurs
    <3>1. saver'[s].step = "open"
      BY <2>2
    <3>2. QED
      BY <2>2, <3>1 DEF TmpIsOurs
  <2>5. Agrees(gt, gt, from)
    BY <1>4 DEF Agrees
  <2>6. \A x \in Savers : saver'[x].step \in {"open", "write"} => Agrees(saver'[x].snap, gt, from)
    BY <1>6, <2>2, <2>5
  <2>7. QED
    BY <1>6, <1>9, <2>1, <2>3, <2>4, <2>6
<1>11. CASE OpenTmp(s)
  <2>1. PICK i \in Inodes : /\ fs' = [fs EXCEPT !.tmp = i, !.data[i] = Empty]
                            /\ saver' = [saver EXCEPT ![s].step = "write", ![s].inode = i]
    <3>1. CASE fs.tmp = None
      BY <1>11, <3>1, FreeInodeExists DEF OpenTmp
    <3>2. CASE fs.tmp # None
      BY <1>7, <1>11, <3>2 DEF OpenTmp
    <3>3. QED
      BY <3>1, <3>2
  <2>2. saver[s].step = "open"
    BY <1>11 DEF OpenTmp
  <2>3. /\ saver'[s] = [step |-> "write", snap |-> saver[s].snap, inode |-> i]
        /\ \A x \in Savers \ {s} : saver'[x] = saver[x]
    BY <1>1, <2>1, SaverReplaced DEF SaverOK
  <2>4. fs'.tmp = i /\ fs'.path = fs.path /\ fs'.data = [fs.data EXCEPT ![i] = Empty]
    BY <1>7, <2>1
  <2>5. fs'.data[i] = Empty /\ \A j \in Inodes \ {i} : fs'.data[j] = fs.data[j]
    BY <1>7, <2>1, <2>4
  <2>6. Readable' => Agrees(Saved'.truth, gt, from)
    BY <1>6, <1>7, <1>8, <2>4, <2>5 DEF Readable, Saved
  <2>7. \A x \in Savers : saver'[x].step \in {"open", "write"} => Agrees(saver'[x].snap, gt, from)
    BY <1>6, <2>2, <2>3
  <2>8. QED
    BY <1>8, <1>9, <2>4, <2>5, <2>6, <2>7
<1>12. CASE WriteTmp(s)
  <2>1. saver[s].step = "write" /\ saver' = [saver EXCEPT ![s] = [IdleSaver EXCEPT !.step = "rename"]]
    BY <1>12 DEF WriteTmp
  <2> DEFINE i == saver[s].inode
  <2>2. PICK written \in {Whole(saver[s].snap), Garbled} :
            fs' = IF i \in {fs.tmp, fs.path} THEN [fs EXCEPT !.data[i] = written] ELSE fs
    BY <1>12 DEF WriteTmp
  <2>3. saver'[s].step = "rename" /\ \A x \in Savers \ {s} : saver'[x] = saver[x]
    BY <1>1, <2>1 DEF IdleSaver
  <2>4. TmpIsOurs
    BY <2>1 DEF TmpIsOurs
  <2>5. written.status = "whole" => Agrees(written.truth, gt, from)
    BY <1>6, <1>8, <2>1, <2>2 DEF Whole
  <2>6. /\ fs'.tmp = fs.tmp /\ fs'.path = fs.path
        /\ \A j \in Inodes : fs'.data[j] = fs.data[j] \/ fs'.data[j] = written
    <3>1. CASE i \in {fs.tmp, fs.path}
      <4>1. fs' = [tmp |-> fs.tmp, path |-> fs.path, data |-> [fs.data EXCEPT ![i] = written]]
        BY <1>7, <2>2, <3>1
      <4>2. QED
        BY <1>7, <4>1
    <3>2. CASE i \notin {fs.tmp, fs.path}
      BY <2>2, <3>2
    <3>3. QED
      BY <3>1, <3>2
  <2>7. Readable' => Agrees(Saved'.truth, gt, from)
    BY <1>6, <1>7, <2>5, <2>6 DEF Readable, Saved
  <2>8. fs'.tmp # None /\ fs'.data[fs'.tmp].status = "whole" => Agrees(fs'.data[fs'.tmp].truth, gt, from)
    BY <1>6, <1>7, <2>4, <2>5, <2>6
  <2>9. \A x \in Savers : saver'[x].step \in {"open", "write"} => Agrees(saver'[x].snap, gt, from)
    BY <1>6, <2>3
  <2>10. QED
    BY <1>9, <2>7, <2>8, <2>9
<1>13. ASSUME saver' = [saver EXCEPT ![s] = IdleSaver]
       PROVE  /\ TmpIsOurs' => TmpIsOurs
              /\ \A x \in Savers : saver'[x].step \in {"open", "write"} => Agrees(saver'[x].snap, gt, from)
  <2>1. saver'[s].step = "idle" /\ \A x \in Savers \ {s} : saver'[x] = saver[x]
    BY <1>1, <1>13 DEF IdleSaver
  <2>2. QED
    BY <1>6, <2>1 DEF TmpIsOurs
<1>14. ASSUME saver' = [saver EXCEPT ![s] = IdleSaver], fs' = fs PROVE PastInv'
  <2>1. Readable' = Readable /\ Saved' = Saved
    BY <1>14 DEF Readable, Saved
  <2>2. QED
    BY <1>6, <1>9, <1>13, <1>14, <2>1
<1>15. CASE SaveFails(s)
  BY <1>14, <1>15 DEF SaveFails
<1>16. CASE Rename(s)
  <2>1. /\ saver' = [saver EXCEPT ![s] = IdleSaver] /\ fs' = IF fs.tmp = None THEN fs ELSE Renamed
        /\ saver[s].step = "rename"
    BY <1>16 DEF Rename
  <2>2. CASE fs.tmp = None
    BY <1>14, <2>1, <2>2
  <2>3. CASE fs.tmp # None
    <3>1. /\ fs'.tmp = None /\ fs'.path = fs.tmp
          /\ fs'.data = IF fs.path = None THEN fs.data ELSE [fs.data EXCEPT ![fs.path] = Empty]
      BY <2>1, <2>3 DEF Renamed
    <3>2. TmpIsOurs
      BY <2>1 DEF TmpIsOurs
    <3>3. fs'.data[fs.tmp] = fs.data[fs.tmp] \/ fs'.data[fs.tmp] = Empty
      BY <1>7, <2>3, <3>1
    <3>4. Readable' => Agrees(Saved'.truth, gt, from)
      BY <1>6, <1>8, <2>3, <3>1, <3>2, <3>3 DEF Readable, Saved
    <3>5. QED
      BY <1>9, <1>13, <2>1, <3>1, <3>4
  <2>4. QED
    BY <2>2, <2>3
<1>17. QED
  BY <1>3, <1>10, <1>11, <1>12, <1>15, <1>16 DEF Save

(* Every step keeps PastInv.                                               *)
LEMMA PastStep ==
  ASSUME \A selected \in Selections : selected = Tenants, RecordInv, PastInv, [Next]_vars
  PROVE  PastInv'
<1>1. CASE Start
  BY <1>1, PastStarts
<1>2. ASSUME NEW clean, Leave(clean) PROVE PastInv'
  <2>1. fs' = fs /\ proc' = "down"
    BY <1>2 DEF Leave
  <2>2. Readable' = Readable /\ Saved' = Saved
    BY <2>1 DEF Readable, Saved
  <2>3. QED
    BY <2>1, <2>2 DEF PastInv
<1>3. CASE Interrupt \/ Tick \/ UNCHANGED vars
  <2>1. fs' = fs /\ lives' = lives /\ proc' = proc /\ saver' = saver /\ gt' = gt
    BY <1>3 DEF Interrupt, Tick, vars
  <2>2. QED
    BY <2>1, PastGoesOn
<1>4. ASSUME NEW s, saver' = [saver EXCEPT ![s].step = "snapshot"]
      PROVE  \A x \in Savers : saver'[x].step \in {"open", "write", "rename"} =>
                saver'[x].step = saver[x].step /\ saver'[x].snap = saver[x].snap
  <2>1. \A x \in Savers : SaverOK(x) /\ x \in DOMAIN saver
    BY DEF RecordInv, FilesOK
  <2>2. ASSUME NEW x \in Savers, x = s PROVE saver'[x].step = "snapshot"
    <3>1. saver[x] = [step |-> saver[x].step, snap |-> saver[x].snap, inode |-> saver[x].inode]
      BY <2>1 DEF SaverOK
    <3>2. saver'[x] = [saver[x] EXCEPT !.step = "snapshot"]
      BY <1>4, <2>1, <2>2
    <3>3. QED
      BY <3>1, <3>2
  <2>3. \A x \in Savers \ {s} : saver'[x] = saver[x]
    BY <1>4, <2>1
  <2>4. QED
    BY <2>2, <2>3
<1>5. CASE AllTenantsDone
  <2>1. fs' = fs /\ lives' = lives /\ gt' = gt /\ saver' = [saver EXCEPT !["final"].step = "snapshot"] /\ proc # "down"
    BY <1>5 DEF AllTenantsDone
  <2>2. QED
    BY <1>4, <2>1, PastGoesOn
<1>6. CASE TickerSaves
  <2>1. fs' = fs /\ lives' = lives /\ gt' = gt /\ saver' = [saver EXCEPT !["ticker"].step = "snapshot"] /\ proc' = proc
    BY <1>6 DEF TickerSaves
  <2>2. QED
    BY <1>4, <2>1, PastGoesOn
<1>7. ASSUME NEW t \in Tenants, RunTenant(t) PROVE PastInv'
  <2>1. /\ fs' = fs /\ lives' = lives /\ proc' = proc /\ gt'.startedAt = gt.startedAt
    BY <1>7, TenantMoves
  <2>2. pc[t] # "done"
    BY <1>7 DEF RunTenant, StaySilent, Wait, StopWaiting, StartTenant, PushRules, GiveUpRules,
                OpenSegment, Write, Record, StopWriting, CloseSegment, PlannedStopSaved
  <2>3. Kept(t) /\ Rewrites(t)
    BY <1>7, TenantStep
  <2>4. Past(gt'.tenants[t].segments, LifeStart) = Past(gt.tenants[t].segments, LifeStart)
    BY <2>2, <2>3, PastKept DEF Current
  <2>5. \A u \in DOMAIN gt.tenants : Past(gt'.tenants[u].segments, LifeStart) = Past(gt.tenants[u].segments, LifeStart)
    BY <2>3, <2>4 DEF Kept
  <2>6. saver' = saver \/ saver' = [saver EXCEPT ![t].step = "snapshot"]
    BY <1>7 DEF RunTenant, StaySilent, Wait, StopWaiting, StartTenant, PushRules, GiveUpRules,
                OpenSegment, Write, Record, StopWriting, CloseSegment, PlannedStopSaved
  <2>7. \A x \in Savers : saver'[x].step \in {"open", "write", "rename"} =>
                saver'[x].step = saver[x].step /\ saver'[x].snap = saver[x].snap
    BY <1>4, <2>6
  <2>8. QED
    BY <2>1, <2>3, <2>5, <2>7, PastGoesOn DEF Kept
<1>8. ASSUME NEW s \in Savers, Save(s) PROVE PastInv'
  BY <1>8, PastSaves
<1>9. QED
  BY <1>1, <1>2, <1>3, <1>5, <1>6, <1>7, <1>8 DEF Next, Crash, Exit

(* EarlierLives is the past of the current lifetime.                       *)
LEMMA EarlierIsPast == \A segs : EarlierLives(segs) = Past(segs, LifeStart)
BY DEF EarlierLives, Past, Early, LifeStart

(* When every start selects every tenant, a start time that is on disk     *)
(* never changes there and no save drops, moves or rewrites what was       *)
(* recorded of earlier lifetimes, however saves race, fail or die          *)
(* (truth.go, resume and save): EarlierLivesKept. The hypothesis is        *)
(* needed: MCTruthStoreSubset shows what a start with fewer tenants does.  *)
THEOREM PastNeverChanges ==
  ASSUME \A selected \in Selections : selected = Tenants
  PROVE  Spec => EarlierLivesKept
<1>1. Init => PastInv
  <2> SUFFICES ASSUME Init PROVE PastInv
    OBVIOUS
  <2>1. ~Readable /\ proc = "down"
    BY DEF Init, Readable
  <2>2. QED
    BY <2>1 DEF PastInv
<1>2. RecordInv /\ PastInv /\ [Next]_vars => PastInv'
  BY PastStep
<1>3. RecordInv /\ PastInv /\ [Next]_vars =>
        [Readable /\ Readable' =>
          LET old == Saved.truth
              new == Saved'.truth
          IN  /\ new.startedAt = old.startedAt
              /\ DOMAIN old.tenants \subseteq DOMAIN new.tenants
              /\ \A t \in DOMAIN old.tenants :
                  EarlierLives(old.tenants[t].segments) = EarlierLives(new.tenants[t].segments)]_fs
  <2> SUFFICES ASSUME RecordInv, PastInv, [Next]_vars, fs' # fs, Readable, Readable'
               PROVE  /\ Saved'.truth.startedAt = Saved.truth.startedAt
                      /\ DOMAIN Saved.truth.tenants \subseteq DOMAIN Saved'.truth.tenants
                      /\ \A t \in DOMAIN Saved.truth.tenants :
                          EarlierLives(Saved.truth.tenants[t].segments) = EarlierLives(Saved'.truth.tenants[t].segments)
    OBVIOUS
  <2>1. PICK s \in Savers : Save(s)
    <3>1. ASSUME NEW t \in Tenants, RunTenant(t) PROVE FALSE
      BY <3>1, TenantMoves
    <3>2. QED
      BY <3>1 DEF Next, Start, Interrupt, Crash, AllTenantsDone, Exit, Leave, TickerSaves, Tick, vars
  <2>2. PastInv' /\ proc # "down" /\ proc' # "down" /\ gt' = gt /\ lives' = lives
    BY <2>1, PastSaves
  <2>3. PICK from : from = LifeStart /\ from = LifeStart'
    BY <2>2 DEF LifeStart
  <2>4. Agrees(Saved.truth, gt, from) /\ Agrees(Saved'.truth, gt, from)
    BY <2>2, <2>3 DEF PastInv
  <2>5. QED
    BY <2>3, <2>4, EarlierIsPast DEF Agrees
<1>4. QED
  BY <1>1, <1>2, <1>3, RecordInductive, PTL DEF Spec, EarlierLivesKept
================================================================================
