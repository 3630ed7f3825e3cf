------------------------------- MODULE TruthStore ------------------------------
(***************************************************************************)
(* The load generator's ground truth (dev/staging/workload/cmd/loadgen):   *)
(* one goroutine per tenant waits, pushes rules, writes samples and stops; *)
(* the record of what it did is shared, and saved by a ticker, by every    *)
(* planned stop and once more at the end, each through the same temporary  *)
(* file.  The process may be told to stop or die at any point, and the     *)
(* next one resumes the record from the file.                              *)
(*                                                                         *)
(* The clock is global and coarse; a tenant's interval is one tick of it.  *)
(* A write request is accepted or not as a whole (PushAll has the batches, *)
(* retries and counters).  The queries a tenant runs only count and are    *)
(* left out.                                                               *)
(***************************************************************************)
EXTENDS Integers, Sequences, FiniteSets, SequencesExt

CONSTANTS
    None,           \* nil
    Tenants,        \* the profile's tenants
    StartAfter,     \* [Tenants -> Nat]
    StopAfter,      \* [Tenants -> Nat], zero for never
    WithRules,      \* tenants that push rules first
    Selections,     \* what --tenants may select when the process starts
    DiskFails,      \* whether opening or writing a file may be refused
    MaxClock, MaxLifetimes, MaxTickerSaves  \* bounds

(* Profile.validate.                                                       *)
ASSUME ProfileAssumption ==
    /\ IsFiniteSet(Tenants) /\ Tenants \cap {"ticker", "final"} = {} /\ None \notin Nat
    /\ StartAfter \in [Tenants -> Nat] /\ StopAfter \in [Tenants -> Nat]
    /\ \A t \in Tenants : StopAfter[t] > 0 => StopAfter[t] > StartAfter[t]
    /\ WithRules \subseteq Tenants
    /\ Selections \subseteq SUBSET Tenants
    /\ DiskFails \in BOOLEAN

Savers == {"ticker", "final"} \cup {t \in Tenants : StopAfter[t] > 0}
Inodes == 1..Cardinality(Savers) + 2

VARIABLES
    clock,
    proc,       \* "down", "running", "saving" once every tenant is done, "saved"
    stopping,   \* ctx is done: the process was asked to stop
    gt,         \* truthStore.gt, the ground truth in memory
    pc,         \* where each tenant's runTenant is
    push,       \* each tenant's latest write request: its time, accepted or not;
                \* before the first, when its segment was opened
    saver,      \* where each save is, what it will write, and to which file
    fs,         \* tmp and path name an inode or nothing; data is their content
    saves,      \* bound: ticker saves begun
    lives,      \* observed: from when to when each process lived, clean or not
    accepted    \* observed: when Mimir accepted samples of each tenant

vars == <<clock, proc, stopping, gt, pc, push, saver, fs, saves, lives, accepted>>

NoTruth    == [startedAt |-> None, tenants |-> <<>>]
NewTenant  == [segments |-> <<>>, rulesPushed |-> FALSE]
NewSegment == [first |-> None, last |-> None, stopped |-> None]
NoPush     == [at |-> 0, ok |-> FALSE]
IdleSaver  == [step |-> "idle", snap |-> NoTruth, inode |-> None]

(* What a file holds.  Writing over another writer's bytes leaves either   *)
(* the new text or, when the old one was longer, the new text with a tail. *)
Empty   == [status |-> "empty", truth |-> NoTruth]
Garbled == [status |-> "garbled", truth |-> NoTruth]
Whole(truth) == [status |-> "whole", truth |-> truth]

Init ==
    /\ clock = 0
    /\ proc = "down" /\ stopping = FALSE
    /\ gt = NoTruth
    /\ pc = [t \in Tenants |-> "done"]
    /\ push = [t \in Tenants |-> NoPush]
    /\ saver = [s \in Savers |-> IdleSaver]
    /\ fs = [tmp |-> None, path |-> None, data |-> [i \in Inodes |-> Empty]]
    /\ saves = 0 /\ lives = <<>>
    /\ accepted = [t \in Tenants |-> {}]

--------------------------------------------------------------------------------
(* Process start and end.                                                  *)

Saved == fs.data[fs.path]
Plan(selected) ==
    [startedAt |-> clock, tenants |-> [t \in selected |-> NewTenant]]

(* Mutant: the restarted run counts from now.                              *)
Resume_NewStart(plan, old) ==
    [startedAt |-> plan.startedAt,
     tenants |-> [t \in DOMAIN plan.tenants |->
                    IF t \in DOMAIN old.tenants THEN old.tenants[t] ELSE plan.tenants[t]]]

(* Mutant: earlier segments are not merged.                                *)
Resume_Forgets(plan, old) ==
    [startedAt |-> old.startedAt,
     tenants |-> [t \in DOMAIN plan.tenants |->
                    plan.tenants[t]]]

(* resume: the old start time, and of every tenant in the new plan what    *)
(* the file knows of it.                                                   *)
Resume(plan, old) ==
    [startedAt |-> old.startedAt,
     tenants |-> [t \in DOMAIN plan.tenants |->
                    IF t \in DOMAIN old.tenants THEN old.tenants[t] ELSE plan.tenants[t]]]

(* A file that does not parse ends the process at once: it stays down.     *)
Start ==
    /\ proc = "down" /\ Len(lives) < MaxLifetimes
    /\ \E selected \in Selections :
        /\ \/ fs.path = None /\ gt' = Plan(selected)
           \/ fs.path # None /\ Saved.status = "whole"
              /\ gt' = Resume(Plan(selected), Saved.truth)
        /\ pc' = [t \in Tenants |-> IF t \in selected THEN "begin" ELSE "done"]
    /\ proc' = "running" /\ stopping' = FALSE
    /\ lives' = Append(lives, [from |-> clock, to |-> None, clean |-> FALSE])
    /\ UNCHANGED <<clock, push, saver, fs, saves, accepted>>

(* SIGINT or SIGTERM.                                                      *)
Interrupt ==
    /\ proc = "running" /\ ~stopping
    /\ stopping' = TRUE
    /\ UNCHANGED <<clock, proc, gt, pc, push, saver, fs, saves, lives, accepted>>

Leave(clean) ==
    /\ proc' = "down" /\ stopping' = FALSE
    /\ gt' = NoTruth
    /\ pc' = [t \in Tenants |-> "done"]
    /\ push' = [t \in Tenants |-> NoPush]
    /\ saver' = [s \in Savers |-> IdleSaver]
    /\ lives' = [lives EXCEPT ![Len(lives)].to = clock, ![Len(lives)].clean = clean]
    /\ UNCHANGED <<clock, fs, saves, accepted>>

Crash == proc # "down" /\ Leave(FALSE)

(* wg.Wait(), then return store.save().                                    *)
AllTenantsDone ==
    /\ proc = "running" /\ \A t \in Tenants : pc[t] = "done"
    /\ proc' = "saving"
    /\ saver' = [saver EXCEPT !["final"].step = "snapshot"]
    /\ UNCHANGED <<clock, stopping, gt, pc, push, fs, saves, lives, accepted>>

(* The exit is clean when the final save succeeded.                        *)
Exit ==
    /\ proc \in {"saving", "saved"} /\ saver["final"].step = "idle"
    /\ Leave(proc = "saved")

--------------------------------------------------------------------------------
(* runTenant and writeLoop.                                                *)

Stop(t)    == gt.startedAt + StopAfter[t]
(* Mutant: a tenant's context is not derived from the command's.           *)
CtxDone_StopOnly(t) == (StopAfter[t] > 0 /\ clock >= Stop(t))

CtxDone(t) == stopping \/ (StopAfter[t] > 0 /\ clock >= Stop(t))

Goto(t, label) == pc' = [pc EXCEPT ![t] = label]

(* "stop time already passed; staying silent".                             *)
StaySilent(t) ==
    /\ pc[t] = "begin"
    /\ StopAfter[t] > 0 /\ clock >= Stop(t)
    /\ Goto(t, "done")
    /\ UNCHANGED <<clock, proc, stopping, gt, push, saver, fs, saves, lives, accepted>>

Wait(t) ==
    /\ pc[t] = "begin"
    /\ StopAfter[t] > 0 => clock < Stop(t)
    /\ clock < gt.startedAt + StartAfter[t]
    /\ Goto(t, "waiting")
    /\ UNCHANGED <<clock, proc, stopping, gt, push, saver, fs, saves, lives, accepted>>

(* With the signal and the start time both there, select takes either.     *)
StopWaiting(t) ==
    /\ pc[t] = "waiting" /\ stopping
    /\ Goto(t, "done")
    /\ UNCHANGED <<clock, proc, stopping, gt, push, saver, fs, saves, lives, accepted>>

StartTenant(t) ==
    /\ \/ pc[t] = "waiting"
       \/ pc[t] = "begin" /\ (StopAfter[t] > 0 => clock < Stop(t))
    /\ clock >= gt.startedAt + StartAfter[t]
    /\ Goto(t, IF t \in WithRules THEN "rules" ELSE "opening")
    /\ UNCHANGED <<clock, proc, stopping, gt, push, saver, fs, saves, lives, accepted>>

(* A failed attempt leaves only its error text behind and is retried until *)
(* the context is done.                                                    *)
PushRules(t) ==
    /\ pc[t] = "rules" /\ ~CtxDone(t)
    /\ gt' = [gt EXCEPT !.tenants[t].rulesPushed = TRUE]
    /\ Goto(t, "opening")
    /\ UNCHANGED <<clock, proc, stopping, push, saver, fs, saves, lives, accepted>>

GiveUpRules(t) ==
    /\ pc[t] = "rules" /\ CtxDone(t)
    /\ Goto(t, "done")
    /\ UNCHANGED <<clock, proc, stopping, gt, push, saver, fs, saves, lives, accepted>>

(* Mutant: a restart goes on in the segment it finds.                      *)
OpenSegment_Once(t) ==
    /\ pc[t] = "opening"
    /\ gt' = [gt EXCEPT !.tenants[t].segments = IF @ = <<>> THEN <<NewSegment>> ELSE @]
    /\ push' = [push EXCEPT ![t] = [at |-> clock, ok |-> FALSE]]
    /\ Goto(t, "writing")
    /\ UNCHANGED <<clock, proc, stopping, saver, fs, saves, lives, accepted>>

OpenSegment(t) ==
    /\ pc[t] = "opening"
    /\ gt' = [gt EXCEPT !.tenants[t].segments = Append(@, NewSegment)]
    /\ push' = [push EXCEPT ![t] = [at |-> clock, ok |-> FALSE]]
    /\ Goto(t, "writing")
    /\ UNCHANGED <<clock, proc, stopping, saver, fs, saves, lives, accepted>>

(* pushAll: the samples of the first write carry the time the loop began,  *)
(* later ones that of a tick of the interval, which may have been waiting; *)
(* with the context done the request is not sent.                          *)
Write(t) ==
    /\ pc[t] \in {"writing", "ticking"}
    /\ \E now \in 0..clock, taken, ok \in BOOLEAN :
        /\ IF pc[t] = "writing" THEN now >= push[t].at ELSE now > push[t].at
        /\ ok => taken
        /\ taken => ~CtxDone(t)
        /\ push' = [push EXCEPT ![t] = [at |-> now, ok |-> ok]]
        /\ accepted' = [accepted EXCEPT ![t] = IF taken THEN @ \cup {now} ELSE @]
    /\ Goto(t, "recording")
    /\ UNCHANGED <<clock, proc, stopping, gt, saver, fs, saves, lives>>

Recorded(segment, at) ==
    [segment EXCEPT !.first = IF @ = None THEN at ELSE @, !.last = at]

Record(t) ==
    /\ pc[t] = "recording"
    /\ gt' = IF push[t].ok
             THEN [gt EXCEPT !.tenants[t].segments[Len(gt.tenants[t].segments)] = Recorded(@, push[t].at)]
             ELSE gt
    /\ Goto(t, "ticking")
    /\ UNCHANGED <<clock, proc, stopping, push, saver, fs, saves, lives, accepted>>

StopWriting(t) ==
    /\ pc[t] = "ticking" /\ CtxDone(t)
    /\ push' = [push EXCEPT ![t] = NoPush]
    /\ Goto(t, "stopping")
    /\ UNCHANGED <<clock, proc, stopping, gt, saver, fs, saves, lives, accepted>>

(* StoppedAt, and if the process goes on a save of the planned stop.       *)
CloseSegment(t) ==
    /\ pc[t] = "stopping"
    /\ gt' = [gt EXCEPT !.tenants[t].segments[Len(gt.tenants[t].segments)].stopped = clock]
    /\ \/ stopping /\ Goto(t, "done") /\ UNCHANGED saver
       \/ ~stopping /\ Goto(t, "saving") /\ saver' = [saver EXCEPT ![t].step = "snapshot"]
    /\ UNCHANGED <<clock, proc, stopping, push, fs, saves, lives, accepted>>

PlannedStopSaved(t) ==
    /\ pc[t] = "saving" /\ saver[t].step = "idle"
    /\ Goto(t, "done")
    /\ UNCHANGED <<clock, proc, stopping, gt, push, saver, fs, saves, lives, accepted>>

--------------------------------------------------------------------------------
(* save: a snapshot under the mutex, then os.WriteFile and os.Rename       *)
(* without it.                                                             *)

TickerSaves ==
    /\ proc # "down" /\ saver["ticker"].step = "idle" /\ saves < MaxTickerSaves
    /\ saver' = [saver EXCEPT !["ticker"].step = "snapshot"]
    /\ saves' = saves + 1
    /\ UNCHANGED <<clock, proc, stopping, gt, pc, push, fs, lives, accepted>>

Snapshot(s) ==
    /\ saver[s].step = "snapshot"
    /\ saver' = [saver EXCEPT ![s].step = "open", ![s].snap = gt]
    /\ UNCHANGED <<clock, proc, stopping, gt, pc, push, fs, saves, lives, accepted>>

InUse(i)  == i \in {fs.tmp, fs.path} \/ \E s \in Savers : saver[s].inode = i
FreeInode == CHOOSE i \in Inodes : ~InUse(i)

(* O_CREATE|O_TRUNC: the temporary file's name may be taken already.       *)
OpenTmp(s) ==
    /\ saver[s].step = "open"
    /\ LET i == IF fs.tmp = None THEN FreeInode ELSE fs.tmp
       IN  /\ fs' = [fs EXCEPT !.tmp = i, !.data[i] = Empty]
           /\ saver' = [saver EXCEPT ![s].step = "write", ![s].inode = i]
    /\ UNCHANGED <<clock, proc, stopping, gt, pc, push, saves, lives, accepted>>

(* What goes to a file that has lost its name is not kept.                 *)
WriteTmp(s) ==
    /\ saver[s].step = "write"
    /\ LET i == saver[s].inode
           overwrites == fs.data[i] \notin {Empty, Whole(saver[s].snap)}
       IN  \E written \in {Whole(saver[s].snap)} \cup IF overwrites THEN {Garbled} ELSE {} :
            fs' = IF i \in {fs.tmp, fs.path} THEN [fs EXCEPT !.data[i] = written] ELSE fs
    /\ saver' = [saver EXCEPT ![s] = [IdleSaver EXCEPT !.step = "rename"]]
    /\ UNCHANGED <<clock, proc, stopping, gt, pc, push, saves, lives, accepted>>

(* The file system refuses to open, to write or to rename: the save is     *)
(* given up, and the temporary file stays as it is.                        *)
SaveFails(s) ==
    /\ DiskFails
    /\ saver[s].step \in {"open", "write", "rename"}
    /\ saver' = [saver EXCEPT ![s] = IdleSaver]
    /\ UNCHANGED <<clock, proc, stopping, gt, pc, push, fs, saves, lives, accepted>>

(* The file that had the path before is gone with its last open handle;    *)
(* forgetting its content is all the difference that makes here.           *)
Renamed ==
    [tmp |-> None, path |-> fs.tmp,
     data |-> IF fs.path = None THEN fs.data ELSE [fs.data EXCEPT ![fs.path] = Empty]]

(* The name may be gone: then Rename fails and the save is given up.       *)
Rename(s) ==
    /\ saver[s].step = "rename"
    /\ fs' = IF fs.tmp = None THEN fs ELSE Renamed
    /\ proc' = IF s = "final" /\ fs.tmp # None THEN "saved" ELSE proc
    /\ saver' = [saver EXCEPT ![s] = IdleSaver]
    /\ UNCHANGED <<clock, stopping, gt, pc, push, saves, lives, accepted>>

--------------------------------------------------------------------------------
(* Bound: the clock runs from the first start to the last process's end.   *)
Tick ==
    /\ clock < MaxClock
    /\ lives # <<>> /\ (proc = "down" => Len(lives) < MaxLifetimes)
    /\ clock' = clock + 1
    /\ UNCHANGED <<proc, stopping, gt, pc, push, saver, fs, saves, lives, accepted>>

RunTenant(t) ==
    \/ StaySilent(t) \/ Wait(t) \/ StopWaiting(t) \/ StartTenant(t)
    \/ PushRules(t) \/ GiveUpRules(t) \/ OpenSegment(t)
    \/ Write(t) \/ Record(t) \/ StopWriting(t)
    \/ CloseSegment(t) \/ PlannedStopSaved(t)

Save(s) == Snapshot(s) \/ OpenTmp(s) \/ WriteTmp(s) \/ SaveFails(s) \/ Rename(s)

Next ==
    \/ Start \/ Interrupt \/ Crash \/ AllTenantsDone \/ Exit
    \/ \E t \in Tenants : RunTenant(t)
    \/ TickerSaves \/ \E s \in Savers : Save(s)
    \/ Tick

(* The Go scheduler runs every runnable goroutine, a save is a few system  *)
(* calls, and every request ends with its context or the client's timeout. *)
(* Nothing is assumed of crashes, signals, the ticker or the clock.        *)
Spec ==
    /\ Init /\ [][Next]_vars
    /\ \A t \in Tenants : WF_vars(RunTenant(t))
    /\ \A s \in Savers : WF_vars(Save(s))
    /\ WF_vars(AllTenantsDone) /\ WF_vars(Exit)

--------------------------------------------------------------------------------
(* Properties.                                                             *)

(* What is recorded now: in memory, and in the file if it can be read.     *)
Readable == fs.path # None /\ Saved.status = "whole"
Records  == {gt} \cup IF Readable THEN {Saved.truth} ELSE {}
Lived(seg, life) ==
    life.from <= seg.first /\ (life.to = None \/ seg.last <= life.to)

(* A start_after and a stop_after count from the first start of the run:   *)
(* through any number of crashes, resumes and saves, no recorded sample is *)
(* from before the tenant's start or from its stop time on.                *)
SegmentsWithinPlan ==
    \A r \in Records : \A t \in DOMAIN r.tenants : \A seg \in Range(r.tenants[t].segments) :
        seg.first # None =>
            /\ seg.first >= r.startedAt + StartAfter[t]
            /\ StopAfter[t] > 0 => seg.last < r.startedAt + StopAfter[t]
            /\ seg.stopped # None => seg.last <= seg.stopped

(* "one per generator process lifetime (a restart opens a new one)"        *)
(* (truth.go:39): a recorded segment begins and ends with samples Mimir    *)
(* did accept, all in one lifetime, and no two of a tenant's segments      *)
(* share a lifetime, so none covers a gap in which nothing was written.    *)
OneSegmentPerLifetime ==
    \A r \in Records : \A t \in DOMAIN r.tenants :
        LET segs == r.tenants[t].segments
        IN  /\ \A k \in DOMAIN segs : segs[k].first # None =>
                /\ {segs[k].first, segs[k].last} \subseteq accepted[t]
                /\ \E n \in DOMAIN lives : Lived(segs[k], lives[n])
            /\ Len(segs) <= Len(lives)
            /\ \A j, k \in DOMAIN segs : j < k /\ segs[j].last # None /\ segs[k].first # None =>
                \E n \in DOMAIN lives : segs[j].last <= lives[n].from /\ lives[n].from <= segs[k].first

(* resume: "the run keeps its original start time ... and every tenant     *)
(* keeps its earlier segments" (truth.go:144): once a start time is on     *)
(* disk it never changes there, and a save never drops, moves or rewrites  *)
(* what an earlier save recorded of an earlier lifetime.                   *)
EarlierLives(segs) ==
    [k \in {k \in DOMAIN segs : segs[k].first # None /\ segs[k].first < lives[Len(lives)].from} |-> segs[k]]

EarlierLivesKept ==
    [][Readable /\ Readable' =>
        LET old == Saved.truth
            new == Saved'.truth
        IN  /\ new.startedAt = old.startedAt
            /\ DOMAIN old.tenants \subseteq DOMAIN new.tenants
            /\ \A t \in DOMAIN old.tenants :
                EarlierLives(old.tenants[t].segments) = EarlierLives(new.tenants[t].segments)]_fs

(* A process that was asked to stop ends, whatever its tenants were        *)
(* waiting for and however its saves interleave or fail.                   *)
ShutdownCompletes == (stopping ~> proc = "down")

(* "Persist every 15s, so a crash loses at most that much of the record"   *)
(* (main.go:154): whenever the process is gone, the file it left can be    *)
(* read back.                                                              *)
FileIsResumable == proc = "down" /\ fs.path # None => Saved.status = "whole"

(* "StoppedAt is set when the tenant stopped on purpose (stop_after, or a  *)
(* clean shutdown). Unset with a LastSampleAt means the process died."     *)
(* (truth.go:64): after a clean exit no segment of the lifetime that just  *)
(* ended is recorded as if the process had died.                           *)
CleanStopIsRecorded ==
    (proc = "down" /\ lives # <<>> /\ lives[Len(lives)].clean /\ Readable) =>
        \A t \in DOMAIN Saved.truth.tenants : \A seg \in Range(Saved.truth.tenants[t].segments) :
            (seg.first # None /\ seg.first >= lives[Len(lives)].from) => seg.stopped # None
================================================================================
