---------------------------- MODULE ChildSession ----------------------------
(***************************************************************************)
(* One child session of the merge master: a branch with a conversation, in *)
(* a linked worktree, and everything its parent's controller does to it:   *)
(* commit, review, rebase, send back, reject, abandon, remove, and land it *)
(* on the base by a squash merge (childSessionController.ts), over the     *)
(* registry of statuses (mergeMaster.ts), the gate (mergeGate.ts), the     *)
(* proof of readiness (workProof.ts) and Git (worktreeService.ts).         *)
(*                                                                         *)
(* The controller is one thread that lets go only while it loads a proof:  *)
(* several reviews and merges of the child may wait there at once. The     *)
(* child's agent, the people who commit on the base and the server that    *)
(* records proofs are other processes, and act between any two commands    *)
(* of a landing, and while a rebase runs.                                  *)
(***************************************************************************)
EXTENDS Naturals, Sequences, SequencesExt, FiniteSets

CONSTANTS
    Ops,        \* reviews and merges that may be under way at once
    MaxWork,    \* bound: commits the child makes
    MaxOthers,  \* bound: commits other people make on the base
    MaxCrashes, \* bound: restarts of the controller's process
    Scenes      \* which of the others' commits conflict with the child's work,
                \* and which of its own write outside its declared scope

ASSUME BoundsAreNumbers == MaxWork \in Nat /\ MaxOthers \in Nat /\ MaxCrashes \in Nat
ASSUME ScenesAreNumbers == Scenes \subseteq [clashing : SUBSET (1..MaxOthers), outside : SUBSET (1..MaxWork)]

VARIABLES
    scene,        \* one of Scenes
    policy,       \* SIFT_READY_PROOF_POLICY: off, warn or enforce
    status,       \* the registry's status of the child, "unknown" to a new process
    tracked,      \* records holds the child
    receipts,     \* the head and base the last review found proven, if it did
    ops,          \* the calls of reviewChild and mergeChild that have not returned
    tree, branch, \* the child's worktree and its branch exist
    dirty,        \* the worktree has uncommitted edits
    head,         \* the branch's tip: the base it contains and its own commits
    base,         \* the base branch: other people's commits and squashes
    parentDirty,  \* a squash was staged in the parent's tree and never committed
    proven,       \* the heads the server holds passing attempts for
    others, crashes,  \* counters of the bounds
    landings,     \* history: the last squash commit, if any
    late,         \* history: commits made after a landing resolved its refs, or
                  \* given up by a forced removal
    spilled       \* history: edits were discarded with the worktree

settings == <<scene, policy>>
childVars == <<tree, branch, dirty, head>>
baseVars == <<base, parentDirty, others>>
sessionVars == <<status, tracked, receipts>>
history == <<landings, late, spilled>>
vars == <<settings, sessionVars, ops, childVars, baseVars, proven, crashes, history>>

Status == {"running", "ready_to_merge", "merge_blocked", "merged", "rejected", "abandoned"}

Terminal == {"merged", "rejected", "abandoned"}

(* What each status may become; nothing in the program enters needs_input. *)
Transitions ==
    [s \in Status |->
        CASE s = "running" -> {"ready_to_merge", "merge_blocked", "abandoned"}
          [] s = "ready_to_merge" -> {"merged", "rejected", "merge_blocked", "running", "abandoned"}
          [] s = "merge_blocked" -> {"running", "ready_to_merge", "rejected", "abandoned"}
          [] OTHER -> {}]

(* transitionSessionStatus: code 0 also when nothing changes, refused from a *)
(* terminal status and along no edge.                                        *)
Accepts(from, to) == from \in Status /\ (from = to \/ to \in Transitions[from])

After(from, to) == IF Accepts(from, to) THEN to ELSE from

(***************************************************************************)
(* Git. A commit is known by its history: the base is the sequence of its  *)
(* commits, and a branch's tip is the base it contains and the number of   *)
(* commits the child put on it.                                            *)
(***************************************************************************)
Other(i) == [by |-> "other", n |-> i]
Squash(n) == [by |-> "child", n |-> n]
Tip == [fork : Seq([by : {"other", "child"}, n : Nat]), work : 0..MaxWork]

\* The child's commits that are on the base b, squashed.
Landed(b) == LET mine == {b[i].n : i \in {j \in DOMAIN b : b[j].by = "child"}}
             IN  IF mine = {} THEN 0 ELSE CHOOSE m \in mine : \A n \in mine : n <= m

\* predictMergeConflicts: what the base has and the tip does not touches the same lines.
Conflicts(tip, b) ==
    /\ tip.work > Landed(b)
    /\ \E i \in DOMAIN b : /\ b[i].by = "other" /\ b[i].n \in scene.clashing
                           /\ \A j \in DOMAIN tip.fork : tip.fork[j] # b[i]

\* merge-base --is-ancestor.
HoldsBase(tip, b) == IsPrefix(b, tip.fork)
AlreadyLanded(tip, b) == tip.work = 0 /\ IsPrefix(tip.fork, b)

(* evaluateMerge: the tips as they are now, and the verdict of the packet. *)
RefsOf(tip) == [head |-> tip, base |-> base]
Refs == RefsOf(head)
Clean(unsaved, tip) == /\ ~unsaved
                       /\ ~Conflicts(tip, base)
                       /\ \A n \in 1..tip.work : n \notin scene.outside
Verdict(unsaved, tip) == IF Clean(unsaved, tip) THEN "ready_to_merge" ELSE "merge_blocked"

Idle == [at |-> "idle"]
Loading(kind, keep, tip) == [at |-> "proof", kind |-> kind, keep |-> keep, gate |-> RefsOf(tip)]

\* The thread is inside a rebase, squashMergeChild or the removal after it.
InGit(o) == ops[o].at \in {"rebasing", "gated", "resolved", "landed"}
Free == \A o \in Ops : ~InGit(o)
Late == \E o \in Ops : ops[o].at \in {"resolved", "landed"}

TypeOK ==
    /\ scene \in Scenes
    /\ policy \in {"off", "warn", "enforce"}
    /\ status \in Status \cup {"unknown"}
    /\ tracked \in BOOLEAN
    /\ Cardinality(receipts) <= (IF policy = "enforce" THEN 1 ELSE 0)
    /\ \A o \in Ops : ops[o].at \in {"idle", "proof", "rebasing", "gated", "resolved", "landed"}
    /\ Cardinality({o \in Ops : InGit(o)}) <= 1
    /\ tree \in BOOLEAN /\ branch \in BOOLEAN /\ dirty \in BOOLEAN
    /\ head.work \in 0..MaxWork
    /\ others \in 0..MaxOthers /\ crashes \in 0..MaxCrashes
    /\ dirty => tree
    /\ tree => branch
    /\ status = "unknown" => ~tracked
    /\ tracked => tree \/ status = "merged"

Init ==
    /\ scene \in Scenes
    /\ policy \in {"off", "warn", "enforce"}
    /\ status = "running" /\ tracked = TRUE /\ receipts = {}
    /\ ops = [o \in Ops |-> Idle]
    /\ tree = TRUE /\ branch = TRUE /\ dirty = FALSE
    /\ head = [fork |-> <<>>, work |-> 0]
    /\ base = <<>> /\ parentDirty = FALSE
    /\ proven = {}
    /\ others = 0 /\ crashes = 0
    /\ landings = {} /\ late = {} /\ spilled = FALSE

-----------------------------------------------------------------------------
(***************************************************************************)
(* The other processes.                                                    *)
(***************************************************************************)

(* The child's agent edits a file of its worktree. No status stops it.     *)
Edit ==
    /\ tree /\ ~dirty /\ head.work < MaxWork
    /\ dirty' = TRUE
    /\ UNCHANGED <<settings, sessionVars, ops, tree, branch, head, baseVars, proven, crashes, history>>

(* Its shell commits what it has.                                          *)
AgentCommits ==
    /\ dirty
    /\ dirty' = FALSE
    /\ head' = [head EXCEPT !.work = @ + 1]
    /\ late' = IF Late THEN late \cup {Squash(head.work + 1)} ELSE late
    /\ UNCHANGED <<settings, sessionVars, ops, tree, branch, baseVars, proven, crashes, landings, spilled>>

(* Somebody commits on the base branch.                                    *)
BaseMoves ==
    /\ others < MaxOthers
    /\ others' = others + 1
    /\ base' = Append(base, Other(others + 1))
    /\ late' = IF Late THEN late \cup {Other(others + 1)} ELSE late
    /\ UNCHANGED <<settings, sessionVars, ops, childVars, parentDirty, proven, crashes, landings, spilled>>

(* A verification run passes at the current head and is recorded. Of one   *)
(* that passes during a rebase, the tip is about to go, or it is recorded  *)
(* right after.                                                            *)
HeadIsProven ==
    /\ branch /\ policy = "enforce"
    /\ \A o \in Ops : ops[o].at # "rebasing"
    /\ head \notin proven
    /\ proven' = proven \cup {head}
    /\ UNCHANGED <<settings, sessionVars, ops, childVars, baseVars, crashes, history>>

(* The owner of the parent's tree throws a half-made squash away.          *)
ParentIsCleaned ==
    /\ parentDirty
    /\ parentDirty' = FALSE
    /\ UNCHANGED <<settings, sessionVars, ops, childVars, base, others, proven, crashes, history>>

-----------------------------------------------------------------------------
(***************************************************************************)
(* The controller's calls. Each starts on a free thread.                   *)
(***************************************************************************)
Reviewable == Free /\ tracked /\ status \notin Terminal

(* commitChild of mergeGate: stage and commit everything in the worktree.  *)
Commits(wanted) ==
    IF wanted /\ dirty THEN dirty' = FALSE /\ head' = [head EXCEPT !.work = @ + 1]
                       ELSE UNCHANGED <<dirty, head>>

CommitChild ==
    /\ Free /\ tracked /\ dirty
    /\ Commits(TRUE)
    /\ UNCHANGED <<settings, sessionVars, ops, tree, branch, baseVars, proven, crashes, history>>

(* reviewChild without a proof policy: gate and apply the verdict.         *)
ReviewAtOnce(autoCommit) ==
    /\ Reviewable /\ tree /\ policy = "off"
    /\ Commits(autoCommit)
    /\ status' = After(status, Verdict(dirty', head'))
    /\ UNCHANGED <<settings, tracked, receipts, ops, tree, branch, baseVars, proven, crashes, history>>

(* reviewChild up to the await: a receipt for another head is dropped and  *)
(* the verdict it carried with it.                                         *)
StartReview(o, autoCommit) ==
    /\ Reviewable /\ tree /\ policy # "off"
    /\ ops[o] = Idle
    /\ Commits(autoCommit)
    /\ LET made == autoCommit /\ dirty
           moved == ~made /\ \E r \in receipts : r.head # head
       IN  /\ receipts' = IF made \/ moved THEN {} ELSE receipts
           /\ status' = IF moved /\ status \in {"ready_to_merge", "merge_blocked"}
                        THEN "running" ELSE status
    /\ ops' = [ops EXCEPT ![o] = Loading("review", FALSE, head')]
    /\ UNCHANGED <<settings, tracked, tree, branch, baseVars, proven, crashes, history>>

(* resolveProof after the await, evaluateReadyProof at its end. Whether    *)
(* the work item, its plan and its coverage are in order is the server's.  *)
Allowed(gate, inOrder) ==
    \/ policy = "warn"
    \/ /\ gate = Refs
       /\ HoldsBase(head, base)
       /\ inOrder /\ head \in proven

(* Only a verdict that was applied, and proven, is worth a receipt.        *)
Receipt(isReady) == IF isReady /\ policy = "enforce" THEN {Refs} ELSE {}

(* The rest of reviewChild.                                                *)
FinishReview(o, inOrder) ==
    /\ Free /\ tree
    /\ ops[o].at = "proof" /\ ops[o].kind = "review"
    /\ LET verdict == IF Clean(dirty, head) /\ Allowed(ops[o].gate, inOrder)
                      THEN "ready_to_merge" ELSE "merge_blocked"
       IN  /\ status' = After(status, verdict)
           /\ receipts' = Receipt(Accepts(status, verdict) /\ verdict = "ready_to_merge")
    /\ ops' = [ops EXCEPT ![o] = Idle]
    /\ UNCHANGED <<settings, tracked, childVars, baseVars, proven, crashes, history>>

(* The second gate throws when the worktree has gone in the meantime.      *)
GateThrows(o) ==
    /\ Free /\ ~tree
    /\ ops[o].at = "proof"
    /\ ops' = [ops EXCEPT ![o] = Idle]
    /\ UNCHANGED <<settings, sessionVars, childVars, baseVars, proven, crashes, history>>

(* rebaseChild, once the child is on the base: without a policy the gate   *)
(* judges it, with one it is reviewed, and is running until that is over.  *)
ReviewAgain(o) ==
    /\ receipts' = {}
    /\ IF policy = "off"
       THEN status' = After(status, Verdict(dirty, head')) /\ ops' = [ops EXCEPT ![o] = Idle]
       ELSE status' = "running" /\ ops' = [ops EXCEPT ![o] = Loading("review", FALSE, head')]
    /\ UNCHANGED <<settings, tracked, tree, branch, dirty, baseVars, proven, crashes, history>>

Rebasable(o) == Reviewable /\ tree /\ ~dirty /\ ops[o] = Idle

RebaseRefused ==
    /\ Reviewable /\ tree /\ dirty
    /\ receipts' = {}
    /\ UNCHANGED <<settings, status, tracked, ops, childVars, baseVars, proven, crashes, history>>

NothingToRebase(o) ==
    /\ Rebasable(o) /\ HoldsBase(head, base)
    /\ UNCHANGED head
    /\ ReviewAgain(o)

(* Else git rebase replays it on the base seen now. Between the check for  *)
(* a clean tree and its end, the child's agent goes on in that tree.       *)
StartRebase(o) ==
    /\ Rebasable(o) /\ ~HoldsBase(head, base)
    /\ receipts' = {}
    /\ ops' = [ops EXCEPT ![o] = [at |-> "rebasing", refs |-> Refs]]
    /\ UNCHANGED <<settings, status, tracked, childVars, baseVars, proven, crashes, history>>

Rebased(o) ==
    /\ ops[o].at = "rebasing"
    /\ ~Conflicts(head, ops[o].refs.base)
    /\ head' = [head EXCEPT !.fork = ops[o].refs.base]
    /\ ReviewAgain(o)

(* Whatever makes git rebase fail, an edit made since the check included,  *)
(* is reported as a conflict. The abort resets the tree: commits and edits *)
(* made while the rebase ran may go.                                       *)
RebaseFails(o) ==
    /\ ops[o].at = "rebasing"
    /\ \E kept \in 0..MaxWork :
        /\ ops[o].refs.head.work <= kept /\ kept <= head.work
        /\ head' = [head EXCEPT !.work = kept]
        /\ dirty' \in {dirty, FALSE} /\ (kept < head.work => ~dirty')
    /\ status' = After(status, "merge_blocked")
    /\ ops' = [ops EXCEPT ![o] = Idle]
    /\ UNCHANGED <<settings, tracked, receipts, tree, branch, baseVars, proven, crashes, history>>

(* sendBackChild: resumed first, and kept so unless the post failed, which *)
(* restores the status.                                                    *)
SendBack ==
    /\ Free /\ tracked
    /\ status \in {"ready_to_merge", "merge_blocked"}
    /\ status' = "running"
    /\ UNCHANGED <<settings, tracked, receipts, ops, childVars, baseVars, proven, crashes, history>>

(* rejectChild and abandonChild leave the worktree and the branch.         *)
Decide(verdict) ==
    /\ Free /\ tracked
    /\ status \notin Terminal /\ Accepts(status, verdict)
    /\ status' = verdict
    /\ UNCHANGED <<settings, tracked, receipts, ops, childVars, baseVars, proven, crashes, history>>

(* removeChildWorktree: a dirty tree is kept; git branch -d keeps commits  *)
(* the base does not contain, -D deletes the branch whatever it holds.     *)
\* Variant: the removal is forced.
Forced == tree
MayRemove == tree /\ ~dirty
BranchAfter(forceDelete) == branch /\ ~forceDelete /\ ~AlreadyLanded(head, base)
Removes(forceDelete) ==
    /\ MayRemove
    /\ tree' = FALSE /\ dirty' = FALSE
    /\ branch' = BranchAfter(forceDelete)
    /\ spilled' = (spilled \/ dirty)
    /\ UNCHANGED head

(* removeChild: the session ends only once its worktree is gone.           *)
RemoveChild ==
    /\ Free /\ tracked
    /\ Removes(FALSE)
    /\ status' = IF status \in Terminal THEN status ELSE "abandoned"
    /\ tracked' = FALSE
    /\ UNCHANGED <<settings, receipts, ops, baseVars, proven, crashes, landings, late>>

(* Forced, by the teardown of a launch that failed: whatever the tree and  *)
(* the branch hold goes with them.                                         *)
DiscardChild ==
    /\ Free /\ tracked /\ tree
    /\ tree' = FALSE /\ dirty' = FALSE /\ branch' = FALSE
    /\ late' = late \cup {Squash(n) : n \in 1..head.work}
    /\ status' = IF status \in Terminal THEN status ELSE "abandoned"
    /\ tracked' = FALSE
    /\ UNCHANGED <<settings, receipts, ops, head, baseVars, proven, crashes, landings, spilled>>

-----------------------------------------------------------------------------
(***************************************************************************)
(* mergeChild.                                                             *)
(***************************************************************************)
Gated(o, keep) ==
    ops' = [ops EXCEPT ![o] = [at |-> "gated", keep |-> keep, gate |-> Refs]]

(* Without a policy: gate, apply the verdict, and go on if both agree.     *)
MergeAtOnce(o, keep) ==
    /\ Reviewable /\ tree /\ policy = "off"
    /\ ops[o] = Idle
    /\ status' = After(status, Verdict(dirty, head))
    /\ IF Clean(dirty, head) /\ Accepts(status, "ready_to_merge") THEN Gated(o, keep) ELSE UNCHANGED ops
    /\ UNCHANGED <<settings, tracked, receipts, childVars, baseVars, proven, crashes, history>>

(* With one: up to the await ...                                           *)
StartMerge(o, keep) ==
    /\ Reviewable /\ tree /\ policy # "off"
    /\ ops[o] = Idle
    /\ ops' = [ops EXCEPT ![o] = Loading("merge", keep, head)]
    /\ UNCHANGED <<settings, sessionVars, childVars, baseVars, proven, crashes, history>>

(* ... and from it: gated and proven again, on a child that is still ready. *)
\* Variant: the status is only looked at before the proof is loaded.
ReadyOnce == TRUE
StillReady == status = "ready_to_merge"
ProveMerge(o, inOrder) ==
    /\ Free /\ tree
    /\ ops[o].at = "proof" /\ ops[o].kind = "merge"
    /\ IF Clean(dirty, head) /\ Allowed(ops[o].gate, inOrder) /\ StillReady
       THEN Gated(o, ops[o].keep)
       ELSE ops' = [ops EXCEPT ![o] = Idle]
    /\ UNCHANGED <<settings, sessionVars, childVars, baseVars, proven, crashes, history>>

(* squashMergeChild up to its first change: the parent's tree is clean and *)
(* the refs are those that were proven, unless nobody asked for a proof.   *)
\* Variant: the refs are not compared.
AsFound(gate) == TRUE
AsExpected(gate) == policy = "off" \/ gate = Refs
ResolveRefs(o) ==
    /\ ops[o].at = "gated"
    /\ ~parentDirty
    /\ AsExpected(ops[o].gate) /\ ~Conflicts(head, base)
    /\ ops' = [ops EXCEPT ![o] = [at |-> "resolved", keep |-> ops[o].keep,
                                  gate |-> ops[o].gate, refs |-> Refs]]
    /\ UNCHANGED <<settings, sessionVars, childVars, baseVars, proven, crashes, history>>

(* A moved ref or a conflict blocks the child, a dirty parent does not.    *)
RefuseRefs(o) ==
    /\ ops[o].at = "gated"
    /\ parentDirty \/ ~AsExpected(ops[o].gate) \/ Conflicts(head, base)
    /\ status' = IF parentDirty THEN status ELSE After(status, "merge_blocked")
    /\ ops' = [ops EXCEPT ![o] = Idle]
    /\ UNCHANGED <<settings, tracked, receipts, childVars, baseVars, proven, crashes, history>>

(* The tip holds nothing the base lacks: no commit, or an empty squash     *)
(* rolled back with a reset to the tip that was resolved.                  *)
Merged(o) ==
    /\ status' = After(status, "merged")
    /\ receipts' = {}
    /\ ops' = [ops EXCEPT ![o] = [at |-> "landed", keep |-> ops[o].keep]]

NothingToLand(o) ==
    /\ ops[o].at = "resolved"
    /\ LET refs == ops[o].refs
       IN  /\ refs.head.work <= Landed(base)
           /\ base' = IF AlreadyLanded(refs.head, refs.base) THEN base ELSE refs.base
    /\ Merged(o)
    /\ UNCHANGED <<settings, tracked, childVars, parentDirty, others, proven, crashes, history>>

(* git merge --squash and git commit, on the base as it is by now.         *)
Land(o) ==
    /\ ops[o].at = "resolved"
    /\ LET refs == ops[o].refs
       IN  /\ refs.head.work > Landed(base)
           /\ ~Conflicts(refs.head, base)
           /\ base' = Append(base, Squash(refs.head.work))
           /\ landings' = {[gate |-> ops[o].gate, refs |-> refs]}
    /\ Merged(o)
    /\ UNCHANGED <<settings, tracked, childVars, parentDirty, others, proven, crashes, late, spilled>>

(* The squash conflicts or a hook rejects the commit: reset --hard to the  *)
(* tip that was resolved. Only a conflict blocks the child.                *)
RollBack(o) ==
    /\ ops[o].at = "resolved"
    /\ ops[o].refs.head.work > Landed(base)
    /\ base' = ops[o].refs.base
    /\ status' = IF Conflicts(ops[o].refs.head, base) THEN After(status, "merge_blocked")
                                                      ELSE status
    /\ ops' = [ops EXCEPT ![o] = Idle]
    /\ UNCHANGED <<settings, tracked, receipts, childVars, parentDirty, others, proven, crashes, history>>

(* The landed child's worktree and branch go, and its record with them;    *)
(* kept or refused, the record stays.                                      *)
CleanUp(o) ==
    /\ ops[o].at = "landed" /\ ~ops[o].keep /\ MayRemove
    /\ Removes(TRUE)
    /\ tracked' = FALSE
    /\ ops' = [ops EXCEPT ![o] = Idle]
    /\ UNCHANGED <<settings, status, receipts, baseVars, proven, crashes, landings, late>>

KeepLanded(o) ==
    /\ ops[o].at = "landed"
    /\ ops[o].keep \/ ~MayRemove
    /\ ops' = [ops EXCEPT ![o] = Idle]
    /\ UNCHANGED <<settings, sessionVars, childVars, baseVars, proven, crashes, history>>

-----------------------------------------------------------------------------
(***************************************************************************)
(* The process ends: the registry, the records and the receipts were its   *)
(* memory. A new one adopts the child from the record of its work run. A   *)
(* rebase that was running is taken as not begun.                          *)
(***************************************************************************)
Crash ==
    /\ crashes < MaxCrashes
    /\ crashes' = crashes + 1
    /\ status' = "unknown" /\ tracked' = FALSE /\ receipts' = {}
    /\ ops' = [o \in Ops |-> Idle]
    /\ \/ UNCHANGED parentDirty
       \/ (\E o \in Ops : ops[o].at = "resolved") /\ parentDirty' = TRUE
    /\ UNCHANGED <<settings, childVars, base, others, proven, history>>

(* adoptChild: the exact worktree, on a head that still descends from the  *)
(* commit it was forked at.                                                *)
Adopt ==
    /\ status = "unknown" /\ tree
    /\ status' = "running" /\ tracked' = TRUE
    /\ UNCHANGED <<settings, receipts, ops, childVars, baseVars, proven, crashes, history>>

Next ==
    \/ Edit \/ AgentCommits \/ BaseMoves \/ HeadIsProven \/ ParentIsCleaned
    \/ CommitChild \/ RebaseRefused \/ SendBack \/ RemoveChild \/ DiscardChild
    \/ Decide("rejected") \/ Decide("abandoned")
    \/ \E autoCommit \in BOOLEAN : ReviewAtOnce(autoCommit)
    \/ \E o \in Ops :
        \/ \E flag \in BOOLEAN :
            \/ StartReview(o, flag) \/ FinishReview(o, flag)
            \/ MergeAtOnce(o, flag) \/ StartMerge(o, flag) \/ ProveMerge(o, flag)
        \/ GateThrows(o)
        \/ NothingToRebase(o) \/ StartRebase(o) \/ Rebased(o) \/ RebaseFails(o)
        \/ ResolveRefs(o) \/ RefuseRefs(o)
        \/ NothingToLand(o) \/ Land(o) \/ RollBack(o)
        \/ CleanUp(o) \/ KeepLanded(o)
    \/ Crash \/ Adopt

Spec == Init /\ [][Next]_vars

-----------------------------------------------------------------------------
(***************************************************************************)
(* Properties.                                                             *)
(***************************************************************************)

(* What lands is what was judged: with a proof policy the squash is of the *)
(* very head, and was resolved on the very base, that the gate evaluated   *)
(* last, whatever the child's agent and the base's owners did since; and   *)
(* under enforce that head was proven and contained that base. A receipt   *)
(* makes the same claim, and the parent's view offers a merge on it.       *)
ProvenIsWhatLands ==
    /\ policy # "off" => \A l \in landings : l.refs = l.gate
    /\ policy = "enforce" => \A r \in receipts \cup {l.refs : l \in landings} :
                               r.head \in proven /\ HoldsBase(r.head, r.base)

(* A merge that waited for its proof while the child was sent back,        *)
(* rejected, abandoned, removed or landed by another merge lands nothing.  *)
OnlyTheReadyLand == [][Landed(base') > Landed(base) => status = "ready_to_merge"]_vars

(* No work is thrown away: every commit of the child is on its branch or   *)
(* on the base, every commit of the others is on the base, and no edit     *)
(* goes with a removed worktree - but for the commits made after a landing *)
(* resolved its refs, which its rollback or its clean-up may drop, and for *)
(* what a forced removal was told to drop.  What is committed or edited in *)
(* the tree while a rebase runs is not spoken of: the abort of one that    *)
(* fails resets the tree (RebaseFails).                                    *)
WorkSurvives ==
    /\ \A n \in 1..head.work : branch \/ n <= Landed(base) \/ Squash(n) \in late
    /\ \A i \in 1..others : Other(i) \in Range(base) \cup late
    /\ ~spilled
=============================================================================
