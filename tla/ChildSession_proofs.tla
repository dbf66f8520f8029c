------------------------- MODULE ChildSession_proofs -------------------------
(***************************************************************************)
(* The safety of a child session, for any number of calls, commits of      *)
(* either side, restarts, and scenes. The invariant IInv adds to the       *)
(* properties of ChildSession what they rest on:                           *)
(*   - a call inside Git is alone there, its worktree exists and its       *)
(*     status is the one its stage needs (ThreadInv);                      *)
(*   - what the gate evaluated is proven while enforce is on, and what was *)
(*     resolved is what the gate evaluated (ProofInv);                     *)
(*   - the base a landing resolved holds as much of the child as the base  *)
(*     holds now, and every commit it would drop is a late one, so that    *)
(*     neither a rollback nor a clean-up loses anything else (LandingInv). *)
(* Most calls leave all of that alone: they are shown to be CallEnds, and  *)
(* CallEnds is shown once to keep the invariant.                           *)
(***************************************************************************)
EXTENDS ChildSession, TLAPS, FiniteSetTheorems

(* A commit of the base (Other, Squash).                                   *)
Commit == [by : {"other", "child"}, n : Nat]

(* A base branch: what it holds of the child is its greatest squash.       *)
IsBase(b) ==
    /\ b \in Seq(Commit)
    /\ Landed(b) \in Nat
    /\ \A i \in DOMAIN b : b[i].by = "child" => b[i].n <= Landed(b)

(* The types of the variables, without the counts of TypeOK.               *)
StatusType ==
    /\ scene \in Scenes
    /\ policy \in {"off", "warn", "enforce"}
    /\ status \in Status \cup {"unknown"}
    /\ tracked \in BOOLEAN
    /\ status = "unknown" => ~tracked
OpsType == \A o \in Ops : ops[o].at \in {"idle", "proof", "rebasing", "gated", "resolved", "landed"}
TreeType ==
    /\ tree \in BOOLEAN /\ branch \in BOOLEAN /\ dirty \in BOOLEAN
    /\ dirty => tree
    /\ tree => branch
CountType == others \in 0..MaxOthers /\ crashes \in 0..MaxCrashes
Types == StatusType /\ OpsType /\ TreeType /\ CountType

(* The child's tip, its worktree and the edits in it.                      *)
TipInv ==
    /\ head \in [fork : Seq(Commit), work : Nat]
    /\ head.work <= MaxWork
    /\ dirty => head.work < MaxWork
    /\ tracked => tree

(* The child's branch and the base.                                        *)
GitInv == TipInv /\ IsBase(base)

(* The calls, and what the stage of each says of the status and the tree.  *)
ThreadInv ==
    /\ ops = [p \in Ops |-> ops[p]]
    /\ \A o, p \in Ops : InGit(o) /\ InGit(p) => o = p
    /\ \A o \in Ops : InGit(o) => tree
    /\ \A o \in Ops : ops[o].at \in {"gated", "resolved"} => status = "ready_to_merge"
    /\ \A o \in Ops : ops[o].at = "landed" => status = "merged"
    /\ \A o \in Ops : ops[o].at = "rebasing" =>
         status \in Status \ Terminal /\ ops[o].refs.base \in Seq(Commit)

(* The proofs: of what is gated, of what is resolved, and of the receipt.  *)
IsProven(refs) == refs.head \in proven /\ HoldsBase(refs.head, refs.base)
ProofInv ==
    /\ policy = "enforce" =>
         \A o \in Ops : ops[o].at \in {"gated", "resolved"} => IsProven(ops[o].gate)
    /\ policy # "off" =>
         \A o \in Ops : ops[o].at = "resolved" => ops[o].refs = ops[o].gate
    /\ receipts = {} \/ (policy = "enforce" /\ \E r \in receipts : receipts = {r})

(* A landing that has its refs, and one that is about to clean up.         *)
LandingInv ==
    /\ \A o \in Ops : ops[o].at = "resolved" =>
         LET refs == ops[o].refs
         IN  /\ IsBase(refs.base) /\ Landed(refs.base) = Landed(base)
             /\ refs.head.work \in Nat
             /\ \A n \in 1..head.work : n <= refs.head.work \/ Squash(n) \in late
             /\ \A i \in 1..others : Other(i) \in Range(refs.base) \cup late
    /\ \A o \in Ops : ops[o].at = "landed" =>
         \A n \in 1..head.work : n <= Landed(base) \/ Squash(n) \in late

(* The inductive invariant.                                                *)
IInv == Types /\ GitInv /\ ThreadInv /\ ProofInv /\ LandingInv /\ ProvenIsWhatLands /\ WorkSurvives

(* Landed in two steps: the child's squashes, and the greatest of them.    *)
Mine(b) == {b[i].n : i \in {j \in DOMAIN b : b[j].by = "child"}}

Greatest(S) == IF S = {} THEN 0 ELSE CHOOSE m \in S : \A n \in S : n <= m

(* Landed is the greatest of the child's squashes.                         *)
LEMMA LandedIsGreatest ==
    ASSUME NEW b
    PROVE  Landed(b) = Greatest(Mine(b))
BY Zenon DEF Landed, Mine, Greatest

(* A member that bounds a set of numbers is its greatest.                  *)
LEMMA GreatestIsLast ==
    ASSUME NEW S, NEW k \in S, \A n \in S : n \in Nat /\ n <= k
    PROVE  Greatest(S) = k
<1>1. \A n \in S : n <= k
  OBVIOUS
<1>2. Greatest(S) = CHOOSE m \in S : \A n \in S : n <= m
  BY DEF Greatest
<1>3. Greatest(S) \in S /\ \A n \in S : n <= Greatest(S)
  BY <1>1, <1>2
<1> QED BY <1>3

(* A commit put on a base leaves the others where they are.                *)
LEMMA AppendFacts ==
    ASSUME NEW b \in Seq(Commit), NEW c \in Commit
    PROVE  /\ Append(b, c) \in Seq(Commit)
           /\ DOMAIN Append(b, c) = DOMAIN b \cup {Len(b) + 1}
           /\ \A i \in DOMAIN b : Append(b, c)[i] = b[i]
           /\ Append(b, c)[Len(b) + 1] = c
           /\ Len(b) + 1 \notin DOMAIN b
           /\ Range(b) \subseteq Range(Append(b, c))
           /\ c \in Range(Append(b, c))
<1>1. /\ Append(b, c) \in Seq(Commit)
      /\ DOMAIN Append(b, c) = DOMAIN b \cup {Len(b) + 1}
      /\ \A i \in DOMAIN b : Append(b, c)[i] = b[i]
      /\ Append(b, c)[Len(b) + 1] = c
      /\ Len(b) + 1 \notin DOMAIN b
  OBVIOUS
<1> QED BY <1>1 DEF Range

(* Somebody else's commit changes nothing of what has landed (BaseMoves).  *)
LEMMA OtherKeepsLanded ==
    ASSUME NEW b, IsBase(b), NEW i \in Nat
    PROVE  IsBase(Append(b, Other(i))) /\ Landed(Append(b, Other(i))) = Landed(b)
<1> DEFINE a == Append(b, Other(i))
<1>1. Other(i) \in Commit /\ Other(i).by # "child"
  BY DEF Other, Commit
<1>2. b \in Seq(Commit)
  BY DEF IsBase
<1>3. /\ a \in Seq(Commit) /\ DOMAIN a = DOMAIN b \cup {Len(b) + 1}
      /\ \A k \in DOMAIN b : a[k] = b[k]
      /\ a[Len(b) + 1] = Other(i)
  BY <1>1, <1>2, AppendFacts
<1>4. \A k \in DOMAIN a : a[k].by = "child" => k \in DOMAIN b /\ a[k] = b[k]
  BY <1>1, <1>3
<1>5. {j \in DOMAIN a : a[j].by = "child"} = {j \in DOMAIN b : b[j].by = "child"}
  BY <1>3, <1>4
<1>6. Mine(a) = Mine(b)
  BY <1>3, <1>5 DEF Mine
<1>7. Landed(a) = Landed(b)
  BY <1>6, LandedIsGreatest
<1> QED BY <1>3, <1>4, <1>7 DEF IsBase

(* A squash of more work than has landed lands that work (Land).           *)
LEMMA SquashLands ==
    ASSUME NEW b, IsBase(b), NEW k \in Nat, k > Landed(b)
    PROVE  IsBase(Append(b, Squash(k))) /\ Landed(Append(b, Squash(k))) = k
<1> DEFINE a == Append(b, Squash(k))
<1>1. Squash(k) \in Commit /\ Squash(k).by = "child" /\ Squash(k).n = k
  BY DEF Squash, Commit
<1>2. b \in Seq(Commit)
  BY DEF IsBase
<1>3. /\ a \in Seq(Commit) /\ DOMAIN a = DOMAIN b \cup {Len(b) + 1}
      /\ \A i \in DOMAIN b : a[i] = b[i]
      /\ a[Len(b) + 1] = Squash(k)
  BY <1>1, <1>2, AppendFacts
<1>4. k \in Mine(a)
  BY <1>1, <1>3 DEF Mine
<1>5. \A i \in DOMAIN a : a[i].by = "child" => a[i].n <= k
  <2> TAKE i \in DOMAIN a
  <2> HAVE a[i].by = "child"
  <2>1. CASE i = Len(b) + 1
    BY <2>1, <1>1, <1>3
  <2>2. CASE i \in DOMAIN b
    <3>1. a[i] \in Commit /\ a[i] = b[i]
      BY <2>2, <1>3
    <3>2. a[i].n \in Nat /\ a[i].n <= Landed(b) /\ Landed(b) \in Nat
      BY <2>2, <3>1 DEF IsBase, Commit
    <3> QED BY <3>2
  <2> QED BY <2>1, <2>2, <1>3
<1>6. \A i \in DOMAIN a : a[i].n \in Nat
  <2> HIDE DEF a
  <2>1. \A i \in DOMAIN a : a[i] \in Commit
    BY <1>3
  <2> QED BY <2>1 DEF Commit
<1>7. \A n \in Mine(a) : n \in Nat /\ n <= k
  BY <1>5, <1>6 DEF Mine
<1>8. Landed(a) = k
  BY <1>4, <1>7, GreatestIsLast, LandedIsGreatest
<1> QED BY <1>3, <1>5, <1>8 DEF IsBase

(* A new child's state satisfies the invariant.                            *)
LEMMA InitInv == Init => IInv
<1> SUFFICES ASSUME Init PROVE IInv
  OBVIOUS
<1> USE DEF Init
<1>1. head \in [fork : Seq(Commit), work : Nat] /\ base \in Seq(Commit)
  OBVIOUS
<1>2. Landed(base) = 0 /\ DOMAIN base = {}
  <2>1. DOMAIN base = {} /\ Mine(base) = {}
    BY DEF Mine
  <2> QED BY <2>1, LandedIsGreatest DEF Greatest
<1>3. GitInv
  BY <1>1, <1>2, BoundsAreNumbers DEF GitInv, TipInv, IsBase
<1>4. \A o \in Ops : ops[o].at = "idle"
  BY DEF Idle
<1>5. ThreadInv /\ ProofInv /\ LandingInv
  BY <1>4 DEF ThreadInv, ProofInv, LandingInv, InGit
<1>6. Types
  <2>1. StatusType /\ OpsType /\ TreeType
    BY <1>4 DEF StatusType, OpsType, TreeType, Status
  <2>2. CountType
    BY BoundsAreNumbers DEF CountType
  <2> QED BY <2>1, <2>2 DEF Types
<1>7. ProvenIsWhatLands /\ WorkSurvives
  BY DEF ProvenIsWhatLands, WorkSurvives
<1> QED BY <1>3, <1>5, <1>6, <1>7 DEF IInv

(* The invariant implies the counts of TypeOK too.                         *)
LEMMA InvTypes == IInv => TypeOK
<1> SUFFICES ASSUME IInv PROVE TypeOK
  OBVIOUS
<1>1. Cardinality(receipts) <= (IF policy = "enforce" THEN 1 ELSE 0)
  <2>1. CASE receipts = {}
    BY <2>1, FS_EmptySet
  <2>2. CASE policy = "enforce" /\ \E r \in receipts : receipts = {r}
    <3>1. PICK r \in receipts : receipts = {r}
      BY <2>2
    <3>2. Cardinality(receipts) = 1
      BY <3>1, FS_Singleton
    <3> QED BY <2>2, <3>2
  <2> QED BY <2>1, <2>2 DEF IInv, ProofInv
<1>2. Cardinality({o \in Ops : InGit(o)}) <= 1
  <2> DEFINE inGit == {o \in Ops : InGit(o)}
  <2>1. CASE inGit = {}
    BY <2>1, FS_EmptySet
  <2>2. CASE inGit # {}
    <3>1. PICK o : o \in inGit
      BY <2>2
    <3>2. inGit = {o}
      BY <3>1 DEF IInv, ThreadInv
    <3>3. Cardinality(inGit) = 1
      BY <3>2, FS_Singleton
    <3> QED BY <3>3
  <2> QED BY <2>1, <2>2
<1>3. head.work \in 0..MaxWork
  BY BoundsAreNumbers DEF IInv, GitInv, TipInv
<1> QED BY <1>1, <1>2, <1>3 DEF IInv, Types, StatusType, OpsType, TreeType, CountType, GitInv, TipInv, TypeOK

(* What a call leaves that ends, or waits for a proof, with no landing     *)
(* under way: the base and the proofs untouched, a free thread, a branch   *)
(* for the work, and a receipt only for what is proven.                    *)
Untouched == UNCHANGED <<policy, base, others, proven, landings, late>>
OpsFree == Free /\ ops = [p \in Ops |-> ops[p]]
BranchStays == ~spilled' /\ (branch' \/ head'.work = 0 \/ (branch' = branch /\ head' = head))
ReceiptStays ==
    \/ receipts' \in {receipts, {}}
    \/ policy = "enforce" /\ \E r : receipts' = {r} /\ IsProven(r)
CallEnds ==
    /\ StatusType' /\ OpsType' /\ TreeType' /\ CountType' /\ TipInv'
    /\ OpsFree' /\ Untouched /\ BranchStays /\ ReceiptStays

(* Such a call keeps the invariant.                                        *)
LEMMA CallEndsKeepsInv ==
    ASSUME IInv, CallEnds
    PROVE  IInv'
<1> USE DEF CallEnds, Untouched
<1>0. Types'
  BY DEF Types
<1>1. GitInv'
  BY DEF IInv, GitInv, IsBase
<1>2. \A o \in Ops : ops'[o].at \notin {"rebasing", "gated", "resolved", "landed"}
  BY DEF OpsFree, Free, InGit
<1>3. ThreadInv' /\ LandingInv'
  BY <1>2 DEF ThreadInv, LandingInv, InGit, OpsFree
<1>4. ProofInv'
  BY <1>2 DEF ProofInv, IInv, ReceiptStays
<1>5. ProvenIsWhatLands'
  <2>1. policy # "off" => \A l \in landings : l.refs = l.gate
    BY DEF ProvenIsWhatLands, IInv
  <2>2. policy = "enforce" => \A r \in receipts \cup {l.refs : l \in landings} : IsProven(r)
    BY DEF ProvenIsWhatLands, IInv, IsProven
  <2>3. policy = "enforce" => \A r \in receipts' : IsProven(r)
    BY <2>2 DEF ReceiptStays
  <2> QED BY <2>1, <2>2, <2>3 DEF ProvenIsWhatLands, IsProven
<1>6. WorkSurvives'
  <2>1. WorkSurvives
    BY DEF IInv
  <2>2. \A n \in 1..head'.work : branch' \/ n <= Landed(base) \/ Squash(n) \in late
    <3>1. CASE branch'
      BY <3>1
    <3>2. CASE head'.work = 0
      BY <3>2
    <3>3. CASE branch' = branch /\ head' = head
      BY <3>3, <2>1 DEF WorkSurvives
    <3> QED BY <3>1, <3>2, <3>3 DEF BranchStays
  <2> QED BY <2>1, <2>2 DEF WorkSurvives, BranchStays
<1> QED BY <1>0, <1>1, <1>3, <1>4, <1>5, <1>6 DEF IInv

(* What every call finds.                                                  *)
LEMMA Found ==
    ASSUME IInv
    PROVE  /\ StatusType /\ OpsType /\ TreeType /\ CountType /\ TipInv /\ ~spilled
           /\ ops = [p \in Ops |-> ops[p]]
BY DEF IInv, Types, GitInv, ThreadInv, WorkSurvives

(* transitionSessionStatus never forgets the status of a known child.      *)
LEMMA AfterStatus ==
    ASSUME NEW from \in Status \cup {"unknown"}, NEW to \in Status
    PROVE  /\ After(from, to) \in Status \cup {"unknown"}
           /\ from # "unknown" => After(from, to) # "unknown"
BY DEF After, Accepts, Status

(* Committing keeps the tip and the tree in order.                         *)
LEMMA CommitsTip ==
    ASSUME TipInv, TreeType, NEW wanted \in BOOLEAN, Commits(wanted),
           UNCHANGED <<tracked, tree, branch>>
    PROVE  TipInv' /\ TreeType'
<1>1. CASE wanted /\ dirty
  <2>1. dirty' = FALSE /\ head' = [head EXCEPT !.work = @ + 1]
    BY <1>1 DEF Commits
  <2>2. head \in [fork : Seq(Commit), work : Nat] /\ head.work < MaxWork
    BY <1>1 DEF TipInv
  <2>3. head' \in [fork : Seq(Commit), work : Nat] /\ head'.work <= MaxWork
    BY <2>1, <2>2, BoundsAreNumbers
  <2> QED BY <2>1, <2>3 DEF TipInv, TreeType
<1>2. CASE ~(wanted /\ dirty)
  BY <1>2 DEF Commits, TipInv, TreeType
<1> QED BY <1>1, <1>2

(* commitChild changes the tip and nothing a landing rests on.             *)
LEMMA CommitChildEnds ==
    ASSUME IInv, CommitChild
    PROVE  CallEnds
<1>a. /\ StatusType /\ OpsType /\ TreeType /\ CountType /\ TipInv /\ ~spilled
      /\ ops = [p \in Ops |-> ops[p]]
  BY Found
<1> USE DEF CommitChild, settings, sessionVars, childVars, baseVars, history
<1>1. StatusType'
  BY <1>a DEF StatusType
<1>2. OpsType'
  BY <1>a DEF OpsType
<1>3. CountType'
  BY <1>a, BoundsAreNumbers DEF CountType
<1>4. TreeType'
  BY <1>a, CommitsTip DEF TreeType
<1>5. TipInv'
  BY <1>a, CommitsTip DEF TipInv
<1>6. OpsFree'
  BY <1>a DEF OpsFree, Free, InGit
<1>7. Untouched
  BY DEF Untouched
<1>8. BranchStays
  BY <1>a DEF BranchStays, Commits, TreeType
<1>9. ReceiptStays
  BY <1>a DEF ReceiptStays
<1> HIDE DEF CommitChild
<1> QED BY <1>1, <1>2, <1>3, <1>4, <1>5, <1>6, <1>7, <1>8, <1>9 DEF CallEnds

(* sendBackChild changes the status alone.                                 *)
LEMMA SendBackEnds ==
    ASSUME IInv, SendBack
    PROVE  CallEnds
<1>a. /\ StatusType /\ OpsType /\ TreeType /\ CountType /\ TipInv /\ ~spilled
      /\ ops = [p \in Ops |-> ops[p]]
  BY Found
<1> USE DEF SendBack, settings, sessionVars, childVars, baseVars, history
<1>1. StatusType'
  BY <1>a DEF StatusType, Status
<1>2. OpsType'
  BY <1>a DEF OpsType
<1>3. CountType'
  BY <1>a, BoundsAreNumbers DEF CountType
<1>4. TreeType'
  BY <1>a DEF TreeType
<1>5. TipInv'
  BY <1>a DEF TipInv
<1>6. OpsFree'
  BY <1>a DEF OpsFree, Free, InGit
<1>7. Untouched
  BY DEF Untouched
<1>8. BranchStays
  BY <1>a DEF BranchStays, Commits, TreeType
<1>9. ReceiptStays
  BY <1>a DEF ReceiptStays
<1> HIDE DEF SendBack
<1> QED BY <1>1, <1>2, <1>3, <1>4, <1>5, <1>6, <1>7, <1>8, <1>9 DEF CallEnds

(* removeChildWorktree takes a clean tree, and a branch that is on the base. *)
LEMMA RemoveChildEnds ==
    ASSUME IInv, RemoveChild
    PROVE  CallEnds
<1>a. /\ StatusType /\ OpsType /\ TreeType /\ CountType /\ TipInv /\ ~spilled
      /\ ops = [p \in Ops |-> ops[p]]
  BY Found
<1> USE DEF RemoveChild, Removes, MayRemove, settings, sessionVars, childVars, baseVars, history
<1>1. StatusType'
  BY <1>a DEF StatusType, Status
<1>2. OpsType'
  BY <1>a DEF OpsType
<1>3. CountType'
  BY <1>a, BoundsAreNumbers DEF CountType
<1>4. TreeType'
  BY <1>a DEF TreeType, BranchAfter, AlreadyLanded
<1>5. TipInv'
  BY <1>a DEF TipInv
<1>6. OpsFree'
  BY <1>a DEF OpsFree, Free, InGit
<1>7. Untouched
  BY DEF Untouched
<1>8. BranchStays
  BY <1>a DEF BranchStays, Commits, TreeType, BranchAfter, AlreadyLanded
<1>9. ReceiptStays
  BY <1>a DEF ReceiptStays
<1> HIDE DEF RemoveChild, Removes, MayRemove
<1> QED BY <1>1, <1>2, <1>3, <1>4, <1>5, <1>6, <1>7, <1>8, <1>9 DEF CallEnds

(* rejectChild and abandonChild change the status alone.                   *)
LEMMA DecideEnds ==
    ASSUME IInv, NEW v \in {"rejected", "abandoned"}, Decide(v)
    PROVE  CallEnds
<1>a. /\ StatusType /\ OpsType /\ TreeType /\ CountType /\ TipInv /\ ~spilled
      /\ ops = [p \in Ops |-> ops[p]]
  BY Found
<1> USE DEF Decide, settings, sessionVars, childVars, baseVars, history
<1>1. StatusType'
  BY <1>a DEF StatusType, Status
<1>2. OpsType'
  BY <1>a DEF OpsType
<1>3. CountType'
  BY <1>a, BoundsAreNumbers DEF CountType
<1>4. TreeType'
  BY <1>a DEF TreeType
<1>5. TipInv'
  BY <1>a DEF TipInv
<1>6. OpsFree'
  BY <1>a DEF OpsFree, Free, InGit
<1>7. Untouched
  BY DEF Untouched
<1>8. BranchStays
  BY <1>a DEF BranchStays, Commits, TreeType
<1>9. ReceiptStays
  BY <1>a DEF ReceiptStays
<1> HIDE DEF Decide
<1> QED BY <1>1, <1>2, <1>3, <1>4, <1>5, <1>6, <1>7, <1>8, <1>9 DEF CallEnds

(* A rebase of a dirty tree is refused, and has dropped the receipt.       *)
LEMMA RebaseRefusedEnds ==
    ASSUME IInv, RebaseRefused
    PROVE  CallEnds
<1>a. /\ StatusType /\ OpsType /\ TreeType /\ CountType /\ TipInv /\ ~spilled
      /\ ops = [p \in Ops |-> ops[p]]
  BY Found
<1> USE DEF RebaseRefused, Reviewable, settings, childVars, baseVars, history
<1>1. StatusType' /\ OpsType' /\ TreeType' /\ TipInv'
  BY <1>a DEF StatusType, OpsType, TreeType, TipInv
<1>2. CountType'
  BY <1>a DEF CountType
<1>3. OpsFree'
  BY <1>a DEF OpsFree, Free, InGit
<1>4. Untouched /\ BranchStays /\ ReceiptStays
  BY <1>a DEF Untouched, BranchStays, ReceiptStays, TreeType
<1> HIDE DEF RebaseRefused, Reviewable
<1> QED BY <1>1, <1>2, <1>3, <1>4 DEF CallEnds

(* reviewChild without a policy: a commit and a verdict.                   *)
LEMMA ReviewAtOnceEnds ==
    ASSUME IInv, NEW auto \in BOOLEAN, ReviewAtOnce(auto)
    PROVE  CallEnds
<1>a. /\ StatusType /\ OpsType /\ TreeType /\ CountType /\ TipInv /\ ~spilled
      /\ ops = [p \in Ops |-> ops[p]]
  BY Found
<1> USE DEF ReviewAtOnce, Reviewable, settings, sessionVars, childVars, baseVars, history
<1>1. StatusType'
  BY <1>a, AfterStatus DEF StatusType, Status, Verdict
<1>2. OpsType'
  BY <1>a DEF OpsType
<1>3. CountType'
  BY <1>a, BoundsAreNumbers DEF CountType
<1>4. TreeType'
  BY <1>a, CommitsTip DEF TreeType
<1>5. TipInv'
  BY <1>a, CommitsTip DEF TipInv
<1>6. OpsFree'
  BY <1>a DEF OpsFree, Free, InGit
<1>7. Untouched
  BY DEF Untouched
<1>8. BranchStays
  BY <1>a DEF BranchStays, Commits, TreeType
<1>9. ReceiptStays
  BY <1>a DEF ReceiptStays
<1> HIDE DEF ReviewAtOnce, Reviewable
<1> QED BY <1>1, <1>2, <1>3, <1>4, <1>5, <1>6, <1>7, <1>8, <1>9 DEF CallEnds

(* reviewChild up to its await: a receipt is kept or dropped, never made.  *)
LEMMA StartReviewEnds ==
    ASSUME IInv, NEW o \in Ops, NEW auto \in BOOLEAN, StartReview(o, auto)
    PROVE  CallEnds
<1>a. /\ StatusType /\ OpsType /\ TreeType /\ CountType /\ TipInv /\ ~spilled
      /\ ops = [p \in Ops |-> ops[p]]
  BY Found
<1> USE DEF StartReview, Reviewable, Loading, settings, sessionVars, childVars, baseVars, history
<1>1. StatusType'
  BY <1>a DEF StatusType, Status
<1>2. OpsType'
  BY <1>a DEF OpsType
<1>3. CountType'
  BY <1>a, BoundsAreNumbers DEF CountType
<1>4. TreeType'
  BY <1>a, CommitsTip DEF TreeType
<1>5. TipInv'
  BY <1>a, CommitsTip DEF TipInv
<1>6. OpsFree'
  BY <1>a DEF OpsFree, Free, InGit
<1>7. Untouched
  BY DEF Untouched
<1>8. BranchStays
  BY <1>a DEF BranchStays, Commits, TreeType
<1>9. ReceiptStays
  BY <1>a DEF ReceiptStays
<1> HIDE DEF StartReview, Reviewable, Loading
<1> QED BY <1>1, <1>2, <1>3, <1>4, <1>5, <1>6, <1>7, <1>8, <1>9 DEF CallEnds

(* reviewChild after its await: a receipt is made of proven refs only.     *)
LEMMA FinishReviewEnds ==
    ASSUME IInv, NEW o \in Ops, NEW inOrder \in BOOLEAN, FinishReview(o, inOrder)
    PROVE  CallEnds
<1>a. /\ StatusType /\ OpsType /\ TreeType /\ CountType /\ TipInv /\ ~spilled
      /\ ops = [p \in Ops |-> ops[p]]
  BY Found
<1> USE DEF FinishReview, Idle, settings, sessionVars, childVars, baseVars, history
<1>1. StatusType'
  BY <1>a, AfterStatus DEF StatusType, Status
<1>2. OpsType'
  BY <1>a DEF OpsType
<1>3. CountType'
  BY <1>a, BoundsAreNumbers DEF CountType
<1>4. TreeType'
  BY <1>a DEF TreeType
<1>5. TipInv'
  BY <1>a DEF TipInv
<1>6. OpsFree'
  BY <1>a DEF OpsFree, Free, InGit
<1>7. Untouched
  BY DEF Untouched
<1>8. BranchStays
  BY <1>a DEF BranchStays, Commits, TreeType
<1>9. ReceiptStays
  BY <1>a DEF ReceiptStays, Receipt, Allowed, IsProven, Refs, RefsOf
<1> HIDE DEF FinishReview, Idle
<1> QED BY <1>1, <1>2, <1>3, <1>4, <1>5, <1>6, <1>7, <1>8, <1>9 DEF CallEnds

(* mergeChild up to its await is not inside Git yet.                       *)
LEMMA StartMergeEnds ==
    ASSUME IInv, NEW o \in Ops, NEW keep \in BOOLEAN, StartMerge(o, keep)
    PROVE  CallEnds
<1>a. /\ StatusType /\ OpsType /\ TreeType /\ CountType /\ TipInv /\ ~spilled
      /\ ops = [p \in Ops |-> ops[p]]
  BY Found
<1> USE DEF StartMerge, Reviewable, Loading, settings, sessionVars, childVars, baseVars, history
<1>1. StatusType'
  BY <1>a DEF StatusType
<1>2. OpsType'
  BY <1>a DEF OpsType
<1>3. CountType'
  BY <1>a, BoundsAreNumbers DEF CountType
<1>4. TreeType'
  BY <1>a DEF TreeType
<1>5. TipInv'
  BY <1>a DEF TipInv
<1>6. OpsFree'
  BY <1>a DEF OpsFree, Free, InGit
<1>7. Untouched
  BY DEF Untouched
<1>8. BranchStays
  BY <1>a DEF BranchStays, Commits, TreeType
<1>9. ReceiptStays
  BY <1>a DEF ReceiptStays
<1> HIDE DEF StartMerge, Reviewable, Loading
<1> QED BY <1>1, <1>2, <1>3, <1>4, <1>5, <1>6, <1>7, <1>8, <1>9 DEF CallEnds

(* A call whose worktree has gone ends without a change.                   *)
LEMMA GateThrowsEnds ==
    ASSUME IInv, NEW o \in Ops, GateThrows(o)
    PROVE  CallEnds
<1>a. /\ StatusType /\ OpsType /\ TreeType /\ CountType /\ TipInv /\ ~spilled
      /\ ops = [p \in Ops |-> ops[p]]
  BY Found
<1> USE DEF GateThrows, Idle, settings, sessionVars, childVars, baseVars, history
<1>1. StatusType'
  BY <1>a DEF StatusType
<1>2. OpsType'
  BY <1>a DEF OpsType
<1>3. CountType'
  BY <1>a, BoundsAreNumbers DEF CountType
<1>4. TreeType'
  BY <1>a DEF TreeType
<1>5. TipInv'
  BY <1>a DEF TipInv
<1>6. OpsFree'
  BY <1>a DEF OpsFree, Free, InGit
<1>7. Untouched
  BY DEF Untouched
<1>8. BranchStays
  BY <1>a DEF BranchStays, Commits, TreeType
<1>9. ReceiptStays
  BY <1>a DEF ReceiptStays
<1> HIDE DEF GateThrows, Idle
<1> QED BY <1>1, <1>2, <1>3, <1>4, <1>5, <1>6, <1>7, <1>8, <1>9 DEF CallEnds

(* A crash frees the thread and drops the receipt; Git keeps what it has.  *)
LEMMA CrashEnds ==
    ASSUME IInv, Crash
    PROVE  CallEnds
<1>a. /\ StatusType /\ OpsType /\ TreeType /\ CountType /\ TipInv /\ ~spilled
      /\ ops = [p \in Ops |-> ops[p]]
  BY Found
<1> USE DEF Crash, Idle, settings, sessionVars, childVars, baseVars, history
<1>1. StatusType'
  BY <1>a DEF StatusType
<1>2. OpsType'
  BY <1>a DEF OpsType
<1>3. CountType'
  BY <1>a, BoundsAreNumbers DEF CountType
<1>4. TreeType'
  BY <1>a DEF TreeType
<1>5. TipInv'
  BY <1>a DEF TipInv
<1>6. OpsFree'
  BY <1>a DEF OpsFree, Free, InGit
<1>7. Untouched
  BY DEF Untouched
<1>8. BranchStays
  BY <1>a DEF BranchStays, Commits, TreeType
<1>9. ReceiptStays
  BY <1>a DEF ReceiptStays
<1> HIDE DEF Crash, Idle
<1> QED BY <1>1, <1>2, <1>3, <1>4, <1>5, <1>6, <1>7, <1>8, <1>9 DEF CallEnds

(* An adopted child is unknown to the process, so none of it is inside Git. *)
LEMMA AdoptEnds ==
    ASSUME IInv, Adopt
    PROVE  CallEnds
<1>a. /\ StatusType /\ OpsType /\ TreeType /\ CountType /\ TipInv /\ ~spilled
      /\ ops = [p \in Ops |-> ops[p]]
  BY Found
<1> USE DEF Adopt, settings, sessionVars, childVars, baseVars, history
<1>1. StatusType'
  BY <1>a DEF StatusType, Status
<1>2. OpsType'
  BY <1>a DEF OpsType
<1>3. CountType'
  BY <1>a, BoundsAreNumbers DEF CountType
<1>4. TreeType'
  BY <1>a DEF TreeType
<1>5. TipInv'
  BY <1>a DEF TipInv
<1>6. OpsFree'
  BY <1>a DEF OpsFree, Free, InGit, IInv, ThreadInv, Status
<1>7. Untouched
  BY DEF Untouched
<1>8. BranchStays
  BY <1>a DEF BranchStays, Commits, TreeType
<1>9. ReceiptStays
  BY <1>a DEF ReceiptStays
<1> HIDE DEF Adopt
<1> QED BY <1>1, <1>2, <1>3, <1>4, <1>5, <1>6, <1>7, <1>8, <1>9 DEF CallEnds

-----------------------------------------------------------------------------
(* The steps of the other processes: an edit is not a commit. *)
LEMMA EditKeeps == ASSUME IInv, Edit PROVE IInv'
<1> USE DEF Edit, settings, sessionVars, baseVars, history
<1>1. Types'
  BY DEF IInv, Types, StatusType, OpsType, TreeType, CountType
<1>2. GitInv'
  BY DEF IInv, GitInv, TipInv, IsBase
<1>3. ThreadInv' /\ ProofInv' /\ LandingInv'
  BY DEF IInv, ThreadInv, ProofInv, LandingInv, InGit, IsProven
<1>4. ProvenIsWhatLands' /\ WorkSurvives'
  BY DEF IInv, ProvenIsWhatLands, WorkSurvives
<1> QED BY <1>1, <1>2, <1>3, <1>4 DEF IInv

(* Proofs are only ever added.                                             *)
LEMMA HeadIsProvenKeeps == ASSUME IInv, HeadIsProven PROVE IInv'
<1> USE DEF HeadIsProven, settings, sessionVars, childVars, baseVars, history
<1>1. Types'
  BY DEF IInv, Types, StatusType, OpsType, TreeType, CountType
<1>2. GitInv'
  BY DEF IInv, GitInv, TipInv, IsBase
<1>3. ThreadInv' /\ ProofInv' /\ LandingInv'
  BY DEF IInv, ThreadInv, ProofInv, LandingInv, InGit, IsProven
<1>4. ProvenIsWhatLands' /\ WorkSurvives'
  BY DEF IInv, ProvenIsWhatLands, WorkSurvives
<1> QED BY <1>1, <1>2, <1>3, <1>4 DEF IInv

(* The parent's uncommitted squash is no part of the invariant.            *)
LEMMA ParentIsCleanedKeeps == ASSUME IInv, ParentIsCleaned PROVE IInv'
<1> USE DEF ParentIsCleaned, settings, sessionVars, childVars, history
<1>1. Types'
  BY DEF IInv, Types, StatusType, OpsType, TreeType, CountType
<1>2. GitInv'
  BY DEF IInv, GitInv, TipInv, IsBase
<1>3. ThreadInv' /\ ProofInv' /\ LandingInv'
  BY DEF IInv, ThreadInv, ProofInv, LandingInv, InGit, IsProven
<1>4. ProvenIsWhatLands' /\ WorkSurvives'
  BY DEF IInv, ProvenIsWhatLands, WorkSurvives
<1> QED BY <1>1, <1>2, <1>3, <1>4 DEF IInv

(* A commit of the child is within a landing's refs, or late.              *)
LEMMA AgentCommitsKeeps == ASSUME IInv, AgentCommits PROVE IInv'
<1> USE DEF AgentCommits, settings, sessionVars, baseVars, history
<1>a. /\ head \in [fork : Seq(Commit), work : Nat] /\ head.work < MaxWork
      /\ dirty /\ tree /\ branch
  BY DEF IInv, GitInv, TipInv, Types, TreeType
<1>b. /\ head' \in [fork : Seq(Commit), work : Nat] /\ head'.work <= MaxWork
      /\ head'.work = head.work + 1 /\ head.work \in Nat
      /\ late \subseteq late'
  BY <1>a, BoundsAreNumbers
<1>1. Types'
  BY DEF IInv, Types, StatusType, OpsType, TreeType, CountType
<1>2. GitInv'
  BY <1>b DEF IInv, GitInv, TipInv, IsBase
<1>3. ThreadInv' /\ ProofInv'
  BY DEF IInv, ThreadInv, ProofInv, InGit, IsProven
<1>4. LandingInv'
  <2>1. \A o \in Ops : ops[o].at \in {"resolved", "landed"} => Squash(head'.work) \in late'
    BY <1>b DEF Late
  <2>2. \A n \in 1..head'.work : n \in 1..head.work \/ n = head'.work
    BY <1>b
  <2>3. ASSUME NEW o \in Ops, ops[o].at = "resolved"
        PROVE  LET refs == ops[o].refs
               IN  /\ IsBase(refs.base) /\ Landed(refs.base) = Landed(base)
                   /\ refs.head.work \in Nat
                   /\ \A n \in 1..head'.work : n <= refs.head.work \/ Squash(n) \in late'
                   /\ \A i \in 1..others : Other(i) \in Range(refs.base) \cup late'
    <3>1. LET refs == ops[o].refs
          IN  /\ IsBase(refs.base) /\ Landed(refs.base) = Landed(base)
              /\ refs.head.work \in Nat
              /\ \A n \in 1..head.work : n <= refs.head.work \/ Squash(n) \in late
              /\ \A i \in 1..others : Other(i) \in Range(refs.base) \cup late
      BY <2>3 DEF IInv, LandingInv
    <3>2. Squash(head'.work) \in late'
      BY <2>1, <2>3
    <3> QED BY <3>1, <3>2, <2>2, <1>b
  <2>4. \A o \in Ops : ops[o].at = "landed" =>
          \A n \in 1..head'.work : n <= Landed(base) \/ Squash(n) \in late'
    BY <2>1, <2>2, <1>b DEF IInv, LandingInv
  <2> QED BY <2>3, <2>4 DEF LandingInv, IsBase
<1>5. ProvenIsWhatLands' /\ WorkSurvives'
  BY <1>a, <1>b DEF IInv, ProvenIsWhatLands, WorkSurvives
<1> QED BY <1>1, <1>2, <1>3, <1>4, <1>5 DEF IInv

(* A commit on the base is within a landing's refs, or late.               *)
LEMMA BaseMovesKeeps == ASSUME IInv, BaseMoves PROVE IInv'
<1> USE DEF BaseMoves, settings, sessionVars, childVars
<1>a. IsBase(base) /\ base \in Seq(Commit) /\ others \in Nat /\ others + 1 \in 0..MaxOthers
  BY BoundsAreNumbers DEF IInv, GitInv, IsBase, Types, CountType
<1>b. IsBase(base') /\ Landed(base') = Landed(base)
  BY <1>a, OtherKeepsLanded
<1>c. Range(base) \subseteq Range(base') /\ Other(others') \in Range(base')
  <2>1. Other(others + 1) \in Commit
    BY <1>a DEF Other, Commit
  <2> QED BY <1>a, <2>1, AppendFacts
<1>d. /\ late \subseteq late'
      /\ \A o \in Ops : ops[o].at \in {"resolved", "landed"} => Other(others') \in late'
      /\ \A i \in 1..others' : i \in 1..others \/ i = others'
  BY <1>a DEF Late
<1>1. Types'
  <2>1. StatusType' /\ OpsType' /\ TreeType'
    BY DEF IInv, Types, StatusType, OpsType, TreeType
  <2>2. CountType'
    BY <1>a DEF IInv, Types, CountType
  <2> QED BY <2>1, <2>2 DEF Types
<1>2. GitInv'
  <2>1. TipInv'
    BY DEF IInv, GitInv, TipInv
  <2> QED BY <1>b, <2>1 DEF GitInv, IsBase
<1>3. ThreadInv' /\ ProofInv'
  BY DEF IInv, ThreadInv, ProofInv, InGit, IsProven
<1>4. LandingInv'
  <2>1. ASSUME NEW o \in Ops, ops[o].at = "resolved"
        PROVE  LET refs == ops[o].refs
               IN  /\ IsBase(refs.base) /\ Landed(refs.base) = Landed(base')
                   /\ refs.head.work \in Nat
                   /\ \A n \in 1..head.work : n <= refs.head.work \/ Squash(n) \in late'
                   /\ \A i \in 1..others' : Other(i) \in Range(refs.base) \cup late'
    <3>1. LET refs == ops[o].refs
          IN  /\ IsBase(refs.base) /\ Landed(refs.base) = Landed(base)
              /\ refs.head.work \in Nat
              /\ \A n \in 1..head.work : n <= refs.head.work \/ Squash(n) \in late
              /\ \A i \in 1..others : Other(i) \in Range(refs.base) \cup late
      BY <2>1 DEF IInv, LandingInv
    <3>2. Other(others') \in late'
      BY <2>1, <1>d
    <3> QED BY <3>1, <3>2, <1>b, <1>d
  <2>2. \A o \in Ops : ops[o].at = "landed" =>
          \A n \in 1..head.work : n <= Landed(base') \/ Squash(n) \in late'
    BY <1>b, <1>d DEF IInv, LandingInv
  <2> QED BY <2>1, <2>2 DEF LandingInv, IsBase
<1>5. ProvenIsWhatLands'
  BY DEF IInv, ProvenIsWhatLands
<1>6. WorkSurvives'
  BY <1>b, <1>c, <1>d DEF IInv, WorkSurvives
<1> QED BY <1>1, <1>2, <1>3, <1>4, <1>5, <1>6 DEF IInv

(***************************************************************************)
(* A merge inside Git. It is the only one, and the worktree is there.      *)
(***************************************************************************)
LEMMA OneInGit ==
    ASSUME IInv, NEW o \in Ops, InGit(o)
    PROVE  /\ \A p \in Ops : p # o => ~InGit(p)
           /\ tree /\ branch
           /\ ops[o].at = "landed" => status = "merged"
           /\ ops[o].at \in {"gated", "resolved"} => status = "ready_to_merge"
           /\ ops[o].at = "rebasing" => status \in Status /\ ops[o].refs.base \in Seq(Commit)
BY DEF IInv, ThreadInv, InGit, Types, TreeType

(* A landing that has its refs.                                            *)
LEMMA ResolvedFacts ==
    ASSUME IInv, NEW o \in Ops, ops[o].at = "resolved"
    PROVE  /\ IsBase(ops[o].refs.base) /\ Landed(ops[o].refs.base) = Landed(base)
           /\ Landed(base) \in Nat
           /\ ops[o].refs.head.work \in Nat
           /\ \A n \in 1..head.work : n <= ops[o].refs.head.work \/ Squash(n) \in late
           /\ \A i \in 1..others : Other(i) \in Range(ops[o].refs.base) \cup late
BY DEF IInv, LandingInv, GitInv, IsBase

(* The thread after a step of the merge o, the only one inside Git.        *)
LEMMA ThreadAfter ==
    ASSUME ops = [p \in Ops |-> ops[p]], NEW o \in Ops, NEW r,
           \A p \in Ops : p # o => ~InGit(p),
           ops' = [ops EXCEPT ![o] = r]
    PROVE  /\ ops' = [p \in Ops |-> ops'[p]]
           /\ ops'[o] = r
           /\ \A p \in Ops : p # o => ops'[p] = ops[p] /\ ops'[p].at \notin {"rebasing", "gated", "resolved", "landed"}
BY DEF InGit

(* A merge that passes its gate holds refs that are proven under enforce.  *)
LEMMA GatedKeeps ==
    ASSUME IInv, NEW o \in Ops, NEW keep, Free, tree, Gated(o, keep),
           status \in Status, status' = "ready_to_merge",
           policy = "enforce" => IsProven(Refs),
           UNCHANGED <<settings, tracked, receipts, childVars, baseVars, proven, crashes, history>>
    PROVE  IInv'
<1> USE DEF settings, childVars, baseVars, history
<1> DEFINE r == [at |-> "gated", keep |-> keep, gate |-> Refs]
<1>a. StatusType /\ OpsType /\ TreeType /\ CountType /\ TipInv /\ ops = [p \in Ops |-> ops[p]]
  BY Found
<1>b. /\ ops' = [p \in Ops |-> ops'[p]] /\ ops'[o] = r
      /\ \A p \in Ops : p # o => ops'[p] = ops[p] /\ ops'[p].at \notin {"rebasing", "gated", "resolved", "landed"}
  <2>1. ops' = [ops EXCEPT ![o] = r]
    BY DEF Gated
  <2>2. \A p \in Ops : p # o => ~InGit(p)
    BY DEF Free
  <2> HIDE DEF r
  <2> QED BY <1>a, <2>1, <2>2, ThreadAfter
<1>c. r.at = "gated" /\ r.gate = Refs
  OBVIOUS
<1> HIDE DEF r
<1>1. Types'
  <2>1. StatusType'
    BY <1>a DEF StatusType, Status
  <2>2. OpsType'
    BY <1>a, <1>b, <1>c DEF OpsType
  <2>3. TreeType' /\ CountType'
    BY <1>a DEF TreeType, CountType
  <2> QED BY <2>1, <2>2, <2>3 DEF Types
<1>2. GitInv'
  BY DEF IInv, GitInv, TipInv, IsBase
<1>3. ThreadInv'
  BY <1>b, <1>c DEF ThreadInv, InGit
<1>4. ProofInv'
  <2>1. policy = "enforce" => IsProven(Refs)'
    BY DEF IsProven, Refs, RefsOf
  <2>2. Refs' = Refs
    BY DEF Refs, RefsOf
  <2>3. receipts = {} \/ (policy = "enforce" /\ \E x \in receipts : receipts = {x})
    BY DEF IInv, ProofInv
  <2>4. policy' = "enforce" =>
          \A p \in Ops : ops'[p].at \in {"gated", "resolved"} => IsProven(ops[p].gate)'
    <3> SUFFICES ASSUME policy = "enforce", NEW p \in Ops, ops'[p].at \in {"gated", "resolved"}
                 PROVE  IsProven(ops[p].gate)'
      OBVIOUS
    <3>1. p = o /\ ops'[p].gate = Refs
      BY <1>b, <1>c
    <3> QED BY <3>1, <2>1, <2>2 DEF IsProven
  <2>5. \A p \in Ops : ops'[p].at # "resolved"
    BY <1>b, <1>c
  <2> QED BY <2>3, <2>4, <2>5 DEF ProofInv
<1>5. LandingInv'
  BY <1>b, <1>c DEF LandingInv
<1>6. ProvenIsWhatLands' /\ WorkSurvives'
  BY DEF IInv, ProvenIsWhatLands, WorkSurvives
<1> QED BY <1>1, <1>2, <1>3, <1>4, <1>5, <1>6 DEF IInv

(* A rebase under way is alone inside Git, on a child that may be reviewed. *)
LEMMA StartRebaseKeeps == ASSUME IInv, NEW o \in Ops, StartRebase(o) PROVE IInv'
<1> DEFINE r == [at |-> "rebasing", refs |-> Refs]
<1> USE DEF settings, childVars, baseVars, history
<1>a. StatusType /\ OpsType /\ TreeType /\ CountType /\ TipInv /\ ops = [p \in Ops |-> ops[p]]
  BY Found
<1>b. /\ Free /\ tree /\ tracked /\ status \notin Terminal
      /\ receipts' = {} /\ ops' = [ops EXCEPT ![o] = r]
      /\ UNCHANGED <<settings, status, tracked, childVars, baseVars, proven, crashes, history>>
  BY DEF StartRebase, Rebasable, Reviewable
<1>c. status \in Status /\ base \in Seq(Commit)
  BY <1>a, <1>b DEF StatusType, IInv, GitInv, IsBase
<1>d. r.at = "rebasing" /\ r.refs.base = base
  BY DEF Refs, RefsOf
<1> HIDE DEF r
<1>f. /\ ops' = [p \in Ops |-> ops'[p]] /\ ops'[o] = r
      /\ \A p \in Ops : p # o => ops'[p] = ops[p] /\ ops'[p].at \notin {"rebasing", "gated", "resolved", "landed"}
  <2>1. \A p \in Ops : p # o => ~InGit(p)
    BY <1>b DEF Free
  <2> QED BY <1>a, <1>b, <2>1, ThreadAfter
<1>1. Types'
  <2>1. StatusType' /\ TreeType' /\ CountType'
    BY <1>a, <1>b DEF StatusType, TreeType, CountType
  <2>2. OpsType'
    BY <1>a, <1>d, <1>f DEF OpsType
  <2> QED BY <2>1, <2>2 DEF Types
<1>2. GitInv'
  BY <1>b DEF IInv, GitInv, TipInv, IsBase
<1>3. ThreadInv'
  BY <1>b, <1>c, <1>d, <1>f DEF ThreadInv, InGit
<1>4. ProofInv' /\ LandingInv'
  BY <1>b, <1>d, <1>f DEF ProofInv, LandingInv
<1>5. ProvenIsWhatLands' /\ WorkSurvives'
  BY <1>b DEF IInv, ProvenIsWhatLands, WorkSurvives
<1> QED BY <1>1, <1>2, <1>3, <1>4, <1>5 DEF IInv

(* A child that is on the base is judged, or waits for its proof.          *)
LEMMA ReviewAgainEnds ==
    ASSUME IInv, NEW o \in Ops, \A p \in Ops : p # o => ~InGit(p),
           tree, status \in Status, ReviewAgain(o),
           head' \in [fork : Seq(Commit), work : Nat], head'.work = head.work
    PROVE  CallEnds
<1>a. /\ StatusType /\ OpsType /\ TreeType /\ CountType /\ TipInv /\ ~spilled
      /\ ops = [p \in Ops |-> ops[p]]
  BY Found
<1> USE DEF settings, baseVars, history
<1>b. /\ receipts' = {}
      /\ status' \in {"running", After(status, Verdict(dirty, head'))}
      /\ UNCHANGED <<settings, tracked, tree, branch, dirty, baseVars, proven, crashes, history>>
  BY DEF ReviewAgain
<1>c. \/ ops' = [ops EXCEPT ![o] = Idle]
      \/ ops' = [ops EXCEPT ![o] = Loading("review", FALSE, head')]
  BY DEF ReviewAgain
<1>e. Idle.at = "idle" /\ Loading("review", FALSE, head').at = "proof"
  BY DEF Idle, Loading
<1>d. /\ ops' = [p \in Ops |-> ops'[p]] /\ ops'[o].at \in {"idle", "proof"}
      /\ \A p \in Ops : p # o => ops'[p] = ops[p] /\ ops'[p].at \notin {"rebasing", "gated", "resolved", "landed"}
  <2>1. CASE ops' = [ops EXCEPT ![o] = Idle]
    <3>1. /\ ops' = [p \in Ops |-> ops'[p]] /\ ops'[o] = Idle
          /\ \A p \in Ops : p # o => ops'[p] = ops[p] /\ ops'[p].at \notin {"rebasing", "gated", "resolved", "landed"}
      BY <1>a, <2>1, ThreadAfter
    <3> QED BY <3>1, <1>e
  <2>2. CASE ops' = [ops EXCEPT ![o] = Loading("review", FALSE, head')]
    <3>1. /\ ops' = [p \in Ops |-> ops'[p]] /\ ops'[o] = Loading("review", FALSE, head')
          /\ \A p \in Ops : p # o => ops'[p] = ops[p] /\ ops'[p].at \notin {"rebasing", "gated", "resolved", "landed"}
      BY <1>a, <2>2, ThreadAfter
    <3> QED BY <3>1, <1>e
  <2> QED BY <1>c, <2>1, <2>2
<1>1. StatusType'
  <2>1. Verdict(dirty, head') \in Status /\ "running" \in Status
    BY DEF Verdict, Status
  <2>2. status' \in Status \cup {"unknown"} /\ status' # "unknown"
    <3>1. After(status, Verdict(dirty, head')) \in Status \cup {"unknown"}
          /\ After(status, Verdict(dirty, head')) # "unknown"
      <4>1. status # "unknown"
        BY DEF Status
      <4> QED BY <2>1, <4>1, AfterStatus
    <3> QED BY <1>b, <2>1, <3>1 DEF Status
  <2> QED BY <1>a, <1>b, <2>2 DEF StatusType
<1>2. OpsType'
  BY <1>a, <1>d DEF OpsType
<1>3. CountType' /\ TreeType'
  BY <1>a, <1>b DEF CountType, TreeType
<1>5. TipInv'
  BY <1>a, <1>b DEF TipInv
<1>6. OpsFree'
  BY <1>d DEF OpsFree, Free, InGit
<1>7. Untouched /\ BranchStays /\ ReceiptStays
  BY <1>a, <1>b DEF Untouched, BranchStays, ReceiptStays, TreeType
<1> QED BY <1>1, <1>2, <1>3, <1>5, <1>6, <1>7 DEF CallEnds

(* rebaseChild of a child that is on the base changes no commit.           *)
LEMMA NothingToRebaseKeeps == ASSUME IInv, NEW o \in Ops, NothingToRebase(o) PROVE IInv'
<1>1. /\ tree /\ ReviewAgain(o) /\ head' = head /\ tracked /\ \A p \in Ops : p # o => ~InGit(p)
  BY DEF NothingToRebase, Rebasable, Reviewable, Free
<1>2. status \in Status /\ head \in [fork : Seq(Commit), work : Nat]
  BY <1>1, Found DEF StatusType, TipInv
<1>3. CallEnds
  BY <1>1, <1>2, ReviewAgainEnds
<1> QED BY <1>3, CallEndsKeepsInv

(* A rebase keeps the child's commits, on the base it began with.          *)
LEMMA RebasedKeeps == ASSUME IInv, NEW o \in Ops, Rebased(o) PROVE IInv'
<1>1. /\ ops[o].at = "rebasing" /\ ReviewAgain(o)
      /\ head' = [head EXCEPT !.fork = ops[o].refs.base]
  BY DEF Rebased
<1>2. /\ \A p \in Ops : p # o => ~InGit(p)
      /\ tree /\ status \in Status /\ ops[o].refs.base \in Seq(Commit)
  BY <1>1, OneInGit DEF InGit
<1>3. head' \in [fork : Seq(Commit), work : Nat] /\ head'.work = head.work
  <2>1. head \in [fork : Seq(Commit), work : Nat]
    BY Found DEF TipInv
  <2> QED BY <1>1, <1>2, <2>1
<1>4. CallEnds
  BY <1>1, <1>2, <1>3, ReviewAgainEnds
<1> QED BY <1>4, CallEndsKeepsInv

(* A rebase that fails is aborted: the branch stays, and the status blocks. *)
LEMMA RebaseFailsKeeps == ASSUME IInv, NEW o \in Ops, RebaseFails(o) PROVE IInv'
<1>a. /\ StatusType /\ OpsType /\ TreeType /\ CountType /\ TipInv /\ ~spilled
      /\ ops = [p \in Ops |-> ops[p]]
  BY Found
<1> USE DEF settings, baseVars, history
<1>b. PICK kept \in 0..MaxWork :
        /\ kept <= head.work /\ head' = [head EXCEPT !.work = kept]
        /\ dirty' \in {dirty, FALSE} /\ (kept < head.work => ~dirty')
  BY DEF RebaseFails
<1>c. /\ ops[o].at = "rebasing" /\ status' = After(status, "merge_blocked")
      /\ ops' = [ops EXCEPT ![o] = Idle]
      /\ UNCHANGED <<settings, tracked, receipts, tree, branch, baseVars, proven, crashes, history>>
  BY DEF RebaseFails
<1>d. (\A p \in Ops : p # o => ~InGit(p)) /\ tree /\ branch /\ status \in Status
  BY <1>c, OneInGit DEF InGit
<1>f. /\ ops' = [p \in Ops |-> ops'[p]] /\ ops'[o] = Idle
      /\ \A p \in Ops : p # o => ops'[p] = ops[p] /\ ops'[p].at \notin {"rebasing", "gated", "resolved", "landed"}
  BY <1>a, <1>c, <1>d, ThreadAfter
<1>1. StatusType'
  <2>1. status' \in Status \cup {"unknown"} /\ status' # "unknown"
    BY <1>c, <1>d, AfterStatus DEF Status
  <2> QED BY <1>a, <1>c, <2>1 DEF StatusType
<1>2. OpsType'
  BY <1>a, <1>f DEF OpsType, Idle
<1>e. dirty' \in BOOLEAN /\ (dirty' => dirty) /\ (dirty' => ~(kept < head.work))
  <2>1. dirty' = dirty \/ dirty' = FALSE
    BY <1>b
  <2>2. dirty \in BOOLEAN
    BY <1>a DEF TreeType
  <2>3. CASE dirty' = FALSE
    BY <2>3
  <2>4. CASE dirty' = dirty
    <3>1. dirty' \in BOOLEAN /\ (dirty' => dirty)
      BY <2>2, <2>4, Zenon
    <3>2. dirty' => ~(kept < head.work)
      BY <1>b, Zenon
    <3> QED BY <3>1, <3>2
  <2> QED BY <2>1, <2>3, <2>4
<1>3. CountType' /\ TreeType'
  <2>1. CountType'
    BY <1>a, <1>c DEF CountType
  <2> QED BY <1>a, <1>c, <1>e, <2>1 DEF TreeType
<1>5. TipInv'
  <2>1. head \in [fork : Seq(Commit), work : Nat] /\ kept \in Nat /\ kept <= MaxWork
    BY <1>a, BoundsAreNumbers DEF TipInv
  <2>2. head' \in [fork : Seq(Commit), work : Nat] /\ head'.work = kept
    BY <1>b, <2>1
  <2>3. dirty' => kept < MaxWork
    <3> SUFFICES ASSUME dirty' PROVE kept < MaxWork
      OBVIOUS
    <3>1. head.work < MaxWork /\ kept <= head.work /\ head.work \in Nat
      BY <1>a, <1>b, <1>e DEF TipInv
    <3> QED BY <3>1, <2>1, BoundsAreNumbers
  <2> QED BY <1>a, <1>c, <2>1, <2>2, <2>3 DEF TipInv
<1>6. OpsFree'
  BY <1>f DEF OpsFree, Free, InGit, Idle
<1>7. Untouched /\ BranchStays /\ ReceiptStays
  BY <1>a, <1>c, <1>d DEF Untouched, BranchStays, ReceiptStays
<1>8. CallEnds
  BY <1>1, <1>2, <1>3, <1>5, <1>6, <1>7 DEF CallEnds
<1> QED BY <1>8, CallEndsKeepsInv

(* A forced removal takes the branch, and what it takes counts as given up. *)
LEMMA DiscardChildKeeps == ASSUME IInv, DiscardChild PROVE IInv'
<1>a. /\ StatusType /\ OpsType /\ TreeType /\ CountType /\ TipInv /\ ~spilled
      /\ ops = [p \in Ops |-> ops[p]]
  BY Found
<1> USE DEF settings, baseVars
<1>b. /\ Free /\ tree' = FALSE /\ dirty' = FALSE /\ branch' = FALSE /\ tracked' = FALSE
      /\ late' = late \cup {Squash(n) : n \in 1..head.work}
      /\ status' = IF status \in Terminal THEN status ELSE "abandoned"
      /\ UNCHANGED <<settings, receipts, ops, head, baseVars, proven, crashes, landings, spilled>>
  BY DEF DiscardChild
<1>c. \A o \in Ops : ops[o].at \notin {"rebasing", "gated", "resolved", "landed"}
  BY <1>b DEF Free, InGit
<1>1. Types'
  <2>1. StatusType'
    BY <1>a, <1>b DEF StatusType, Status
  <2>2. OpsType' /\ TreeType' /\ CountType'
    BY <1>a, <1>b DEF OpsType, TreeType, CountType
  <2> QED BY <2>1, <2>2 DEF Types
<1>2. GitInv'
  BY <1>a, <1>b DEF IInv, GitInv, TipInv, IsBase
<1>3. ThreadInv' /\ LandingInv'
  BY <1>a, <1>b, <1>c DEF ThreadInv, LandingInv, InGit
<1>4. ProofInv'
  BY <1>b, <1>c DEF IInv, ProofInv
<1>5. ProvenIsWhatLands' /\ WorkSurvives'
  BY <1>b DEF IInv, ProvenIsWhatLands, WorkSurvives
<1> QED BY <1>1, <1>2, <1>3, <1>4, <1>5 DEF IInv

(* A merge that ends, or is not gated, with the base as it was.            *)
LEMMA MergeEnds ==
    ASSUME IInv, NEW o \in Ops, \A p \in Ops : p # o => ~InGit(p),
           \/ ops' = [ops EXCEPT ![o] = Idle]
           \/ ops' = ops /\ Free,
           \/ status' = status
           \/ status # "unknown" /\ \E to \in Status : status' = After(status, to),
           UNCHANGED <<settings, tracked, receipts, childVars, baseVars, proven, crashes, history>>
    PROVE  CallEnds
<1>a. /\ StatusType /\ OpsType /\ TreeType /\ CountType /\ TipInv /\ ~spilled
      /\ ops = [p \in Ops |-> ops[p]]
  BY Found
<1> USE DEF settings, childVars, baseVars, history
<1>1. StatusType'
  BY <1>a, AfterStatus DEF StatusType
<1>2. OpsType'
  BY <1>a DEF OpsType, Idle
<1>3. TreeType' /\ CountType' /\ TipInv'
  BY <1>a DEF TreeType, CountType, TipInv
<1>4. OpsFree'
  <2>1. CASE ops' = [ops EXCEPT ![o] = Idle]
    BY <2>1, <1>a DEF OpsFree, Free, InGit, Idle
  <2>2. CASE ops' = ops /\ Free
    BY <2>2, <1>a DEF OpsFree, Free, InGit
  <2> QED BY <2>1, <2>2
<1>5. Untouched /\ BranchStays /\ ReceiptStays
  BY <1>a DEF Untouched, BranchStays, ReceiptStays
<1> QED BY <1>1, <1>2, <1>3, <1>4, <1>5 DEF CallEnds

(* mergeChild without a policy.                                            *)
LEMMA MergeAtOnceKeeps ==
    ASSUME IInv, NEW o \in Ops, NEW keep \in BOOLEAN, MergeAtOnce(o, keep)
    PROVE  IInv'
<1>1. /\ Free /\ tree /\ policy = "off" /\ status # "unknown" /\ status \in Status
      /\ status' = After(status, Verdict(dirty, head))
      /\ UNCHANGED <<settings, tracked, receipts, childVars, baseVars, proven, crashes, history>>
  BY Found DEF MergeAtOnce, Reviewable, StatusType
<1>2. CASE Clean(dirty, head) /\ Accepts(status, "ready_to_merge")
  <2>1. Gated(o, keep) /\ status' = "ready_to_merge"
    BY <1>1, <1>2 DEF MergeAtOnce, Verdict, After
  <2> QED BY <1>1, <2>1, GatedKeeps
<1>3. CASE ~(Clean(dirty, head) /\ Accepts(status, "ready_to_merge"))
  <2>1. ops' = ops
    BY <1>3 DEF MergeAtOnce
  <2>2. Verdict(dirty, head) \in Status
    BY DEF Verdict, Status
  <2>3. \A p \in Ops : p # o => ~InGit(p)
    BY <1>1 DEF Free
  <2>4. CallEnds
    BY <1>1, <2>1, <2>2, <2>3, MergeEnds
  <2> QED BY <2>4, CallEndsKeepsInv
<1> QED BY <1>2, <1>3

(* mergeChild after its await.                                             *)
LEMMA ProveMergeKeeps ==
    ASSUME IInv, NEW o \in Ops, NEW inOrder \in BOOLEAN, ProveMerge(o, inOrder)
    PROVE  IInv'
<1>1. /\ Free /\ tree /\ status' = status
      /\ UNCHANGED <<settings, tracked, receipts, childVars, baseVars, proven, crashes, history>>
  BY DEF ProveMerge, sessionVars
<1>2. CASE Clean(dirty, head) /\ Allowed(ops[o].gate, inOrder) /\ StillReady
  <2>1. Gated(o, ops[o].keep) /\ status = "ready_to_merge"
    BY <1>2 DEF ProveMerge, StillReady
  <2>2. policy = "enforce" => IsProven(Refs)
    BY <1>2 DEF Allowed, IsProven, Refs, RefsOf
  <2>3. status \in Status
    BY <2>1 DEF Status
  <2> QED BY <1>1, <2>1, <2>2, <2>3, GatedKeeps
<1>3. CASE ~(Clean(dirty, head) /\ Allowed(ops[o].gate, inOrder) /\ StillReady)
  <2>1. ops' = [ops EXCEPT ![o] = Idle]
    BY <1>3 DEF ProveMerge
  <2>2. \A p \in Ops : p # o => ~InGit(p)
    BY <1>1 DEF Free
  <2>3. CallEnds
    BY <1>1, <2>1, <2>2, MergeEnds
  <2> QED BY <2>3, CallEndsKeepsInv
<1> QED BY <1>2, <1>3

(* squashMergeChild refuses before its first change.                       *)
LEMMA RefuseRefsKeeps == ASSUME IInv, NEW o \in Ops, RefuseRefs(o) PROVE IInv'
<1>1. InGit(o) /\ ops[o].at = "gated"
  BY DEF RefuseRefs, InGit
<1>2. (\A p \in Ops : p # o => ~InGit(p)) /\ status = "ready_to_merge"
  BY <1>1, OneInGit
<1>3. "merge_blocked" \in Status
  BY DEF Status
<1>4. CallEnds
  BY <1>2, <1>3, MergeEnds DEF RefuseRefs
<1> QED BY <1>4, CallEndsKeepsInv

(* A landed child is kept.                                                 *)
LEMMA KeepLandedKeeps == ASSUME IInv, NEW o \in Ops, KeepLanded(o) PROVE IInv'
<1>1. InGit(o)
  BY DEF KeepLanded, InGit
<1>2. \A p \in Ops : p # o => ~InGit(p)
  BY <1>1, OneInGit
<1>3. CallEnds
  BY <1>2, MergeEnds DEF KeepLanded, sessionVars
<1> QED BY <1>3, CallEndsKeepsInv

(* squashMergeChild takes the refs it was told to expect, or any with no   *)
(* policy; at that moment they hold all the work there is.                 *)
LEMMA ResolveRefsKeeps == ASSUME IInv, NEW o \in Ops, ResolveRefs(o) PROVE IInv'
<1> DEFINE r == [at |-> "resolved", keep |-> ops[o].keep, gate |-> ops[o].gate, refs |-> Refs]
<1>a. StatusType /\ OpsType /\ TreeType /\ CountType /\ TipInv /\ ops = [p \in Ops |-> ops[p]]
  BY Found
<1>b. /\ ops[o].at = "gated" /\ AsExpected(ops[o].gate)
      /\ ops' = [ops EXCEPT ![o] = r]
      /\ UNCHANGED <<settings, sessionVars, childVars, baseVars, proven, crashes, history>>
  BY DEF ResolveRefs
<1>c. /\ \A p \in Ops : p # o => ~InGit(p)
      /\ tree /\ branch /\ status = "ready_to_merge"
  BY <1>b, OneInGit DEF InGit
<1>d. r.at = "resolved" /\ r.gate = ops[o].gate /\ r.refs = [head |-> head, base |-> base]
  BY DEF Refs, RefsOf
<1>e. AsExpected(ops[o].gate) => policy = "off" \/ ops[o].gate = r.refs
  BY DEF AsExpected, Refs
<1> HIDE DEF r
<1> USE DEF settings, sessionVars, childVars, baseVars, history
<1>f. /\ ops' = [p \in Ops |-> ops'[p]] /\ ops'[o] = r
      /\ \A p \in Ops : p # o => ops'[p] = ops[p] /\ ops'[p].at \notin {"rebasing", "gated", "resolved", "landed"}
  BY <1>a, <1>b, <1>c, ThreadAfter
<1>1. Types'
  <2>1. StatusType' /\ TreeType' /\ CountType'
    BY <1>a, <1>b DEF StatusType, TreeType, CountType
  <2>2. OpsType'
    BY <1>a, <1>d, <1>f DEF OpsType
  <2> QED BY <2>1, <2>2 DEF Types
<1>2. GitInv'
  BY <1>b DEF IInv, GitInv, TipInv, IsBase
<1>3. ThreadInv'
  BY <1>b, <1>c, <1>d, <1>f DEF ThreadInv, InGit
<1>4. ProofInv'
  <2>1. policy = "enforce" => IsProven(ops[o].gate)
    BY <1>b DEF IInv, ProofInv
  <2>2. receipts = {} \/ (policy = "enforce" /\ \E x \in receipts : receipts = {x})
    BY DEF IInv, ProofInv
  <2>3. policy # "off" => r.refs = r.gate
    BY <1>b, <1>d, <1>e
  <2> QED BY <2>1, <2>2, <2>3, <1>b, <1>d, <1>f DEF ProofInv, IsProven
<1>5. LandingInv'
  <2>1. IsBase(base) /\ head.work \in Nat
    BY DEF IInv, GitInv, TipInv
  <2>2. \A i \in 1..others : Other(i) \in Range(base) \cup late
    BY DEF IInv, WorkSurvives
  <2>3. \A n \in 1..head.work : n <= head.work
    BY <2>1
  <2>4. /\ ops'[o].refs.base = base /\ ops'[o].refs.head = head /\ ops'[o].at = "resolved"
        /\ UNCHANGED <<base, head, others, late>>
    BY <1>b, <1>d, <1>f
  <2>5. \A p \in Ops : ops'[p].at \in {"resolved", "landed"} => p = o
    BY <1>f
  <2> QED BY <2>1, <2>2, <2>3, <2>4, <2>5 DEF LandingInv
<1>6. ProvenIsWhatLands' /\ WorkSurvives'
  BY <1>b DEF IInv, ProvenIsWhatLands, WorkSurvives
<1> QED BY <1>1, <1>2, <1>3, <1>4, <1>5, <1>6 DEF IInv

(* What a landing leaves that merged: the work it resolved is on the base. *)
LEMMA MergedKeeps ==
    ASSUME IInv, NEW o \in Ops, ops[o].at = "resolved", Merged(o),
           IsBase(base'), ops[o].refs.head.work <= Landed(base'),
           \A i \in 1..others : Other(i) \in Range(base') \cup late,
           ProvenIsWhatLands',
           UNCHANGED <<settings, tracked, childVars, others, proven, crashes, late, spilled>>
    PROVE  IInv'
<1> DEFINE r == [at |-> "landed", keep |-> ops[o].keep]
<1>a. StatusType /\ OpsType /\ TreeType /\ CountType /\ TipInv /\ ops = [p \in Ops |-> ops[p]]
  BY Found
<1>b. /\ \A p \in Ops : p # o => ~InGit(p)
      /\ tree /\ branch /\ status = "ready_to_merge"
  BY OneInGit DEF InGit
<1>c. status' = "merged" /\ receipts' = {} /\ ops' = [ops EXCEPT ![o] = r]
  BY <1>b DEF Merged, After, Accepts, Status, Transitions
<1>d. r.at = "landed"
  OBVIOUS
<1> HIDE DEF r
<1> USE DEF settings, childVars
<1>f. /\ ops' = [p \in Ops |-> ops'[p]] /\ ops'[o] = r
      /\ \A p \in Ops : p # o => ops'[p] = ops[p] /\ ops'[p].at \notin {"rebasing", "gated", "resolved", "landed"}
  BY <1>a, <1>b, <1>c, ThreadAfter
<1>1. Types'
  <2>1. StatusType'
    BY <1>a, <1>c DEF StatusType, Status
  <2>2. OpsType'
    BY <1>a, <1>d, <1>f DEF OpsType
  <2>3. TreeType' /\ CountType'
    BY <1>a DEF TreeType, CountType
  <2> QED BY <2>1, <2>2, <2>3 DEF Types
<1>2. GitInv'
  BY <1>a DEF GitInv, TipInv, IsBase
<1>3. ThreadInv'
  BY <1>b, <1>c, <1>d, <1>f DEF ThreadInv, InGit
<1>4. ProofInv'
  BY <1>c, <1>d, <1>f DEF ProofInv
<1>5. LandingInv'
  <2>1. \A p \in Ops : ops'[p].at # "resolved"
    BY <1>d, <1>f
  <2>2. \A n \in 1..head.work : n <= ops[o].refs.head.work \/ Squash(n) \in late
    BY ResolvedFacts
  <2>3. Landed(base') \in Nat /\ ops[o].refs.head.work \in Nat
    BY ResolvedFacts DEF IsBase
  <2>4. \A n \in 1..head.work : n <= Landed(base') \/ Squash(n) \in late
    <3> TAKE n \in 1..head.work
    <3>1. n \in Nat
      BY <1>a DEF TipInv
    <3> QED BY <2>2, <2>3, <3>1
  <2> QED BY <2>1, <2>4 DEF LandingInv
<1>6. WorkSurvives'
  BY <1>b DEF WorkSurvives, IInv
<1> QED BY <1>1, <1>2, <1>3, <1>4, <1>5, <1>6 DEF IInv

(* An empty squash leaves the base, or resets it to what was resolved.     *)
LEMMA NothingToLandKeeps == ASSUME IInv, NEW o \in Ops, NothingToLand(o) PROVE IInv'
<1> USE DEF settings, childVars, history
<1>1. /\ ops[o].at = "resolved" /\ Merged(o)
      /\ ops[o].refs.head.work <= Landed(base)
      /\ base' \in {base, ops[o].refs.base}
      /\ UNCHANGED <<settings, tracked, childVars, others, proven, crashes, history>>
  BY DEF NothingToLand
<1>2. /\ IsBase(base) /\ \A i \in 1..others : Other(i) \in Range(base) \cup late
  BY DEF IInv, GitInv, WorkSurvives
<1>3. /\ IsBase(base') /\ Landed(base') = Landed(base)
      /\ \A i \in 1..others : Other(i) \in Range(base') \cup late
  BY <1>1, <1>2, ResolvedFacts
<1>4. ProvenIsWhatLands'
  BY <1>1 DEF IInv, ProvenIsWhatLands, Merged
<1> QED BY <1>1, <1>3, <1>4, MergedKeeps

(* The squash lands what was resolved.                                     *)
LEMMA LandKeeps == ASSUME IInv, NEW o \in Ops, Land(o) PROVE IInv'
<1> USE DEF settings, childVars
<1>1. /\ ops[o].at = "resolved" /\ Merged(o)
      /\ ops[o].refs.head.work > Landed(base)
      /\ base' = Append(base, Squash(ops[o].refs.head.work))
      /\ landings' = {[gate |-> ops[o].gate, refs |-> ops[o].refs]}
      /\ UNCHANGED <<settings, tracked, childVars, others, proven, crashes, late, spilled>>
  BY DEF Land
<1>2. /\ IsBase(base) /\ base \in Seq(Commit)
      /\ \A i \in 1..others : Other(i) \in Range(base) \cup late
  BY DEF IInv, GitInv, IsBase, WorkSurvives
<1>3. ops[o].refs.head.work \in Nat
  BY <1>1, ResolvedFacts
<1>4. IsBase(base') /\ Landed(base') = ops[o].refs.head.work
  BY <1>1, <1>2, <1>3, SquashLands
<1>5. Squash(ops[o].refs.head.work) \in Commit
  BY <1>3 DEF Squash, Commit
<1>6. Range(base) \subseteq Range(base')
  BY <1>1, <1>2, <1>5, AppendFacts
<1>7. ProvenIsWhatLands'
  <2>1. policy # "off" => ops[o].refs = ops[o].gate
    BY <1>1 DEF IInv, ProofInv
  <2>2. policy = "enforce" => ops[o].refs.head \in proven /\ HoldsBase(ops[o].refs.head, ops[o].refs.base)
    BY <1>1, <2>1 DEF IInv, ProofInv, IsProven
  <2>3. receipts' = {}
    BY <1>1 DEF Merged
  <2> QED BY <1>1, <2>1, <2>2, <2>3 DEF ProvenIsWhatLands
<1>8. \A i \in 1..others : Other(i) \in Range(base') \cup late
  BY <1>2, <1>6
<1>9. ops[o].refs.head.work <= Landed(base')
  BY <1>3, <1>4
<1> QED BY <1>1, <1>4, <1>7, <1>8, <1>9, MergedKeeps

(* A reset to the resolved tip drops nothing but late commits.             *)
LEMMA RollBackKeeps == ASSUME IInv, NEW o \in Ops, RollBack(o) PROVE IInv'
<1>a. /\ StatusType /\ OpsType /\ TreeType /\ CountType /\ TipInv /\ ~spilled
      /\ ops = [p \in Ops |-> ops[p]]
  BY Found
<1>b. /\ ops[o].at = "resolved" /\ base' = ops[o].refs.base
      /\ status' \in {status, After(status, "merge_blocked")}
      /\ ops' = [ops EXCEPT ![o] = Idle]
      /\ UNCHANGED <<settings, tracked, receipts, childVars, others, proven, crashes, history>>
  BY DEF RollBack
<1>c. /\ \A p \in Ops : p # o => ~InGit(p)
      /\ tree /\ branch /\ status = "ready_to_merge"
  BY <1>b, OneInGit DEF InGit
<1> USE DEF settings, childVars, history
<1>d. /\ ops' = [p \in Ops |-> ops'[p]] /\ ops'[o] = Idle
      /\ \A p \in Ops : p # o => ops'[p] = ops[p] /\ ops'[p].at \notin {"rebasing", "gated", "resolved", "landed"}
  BY <1>a, <1>b, <1>c, ThreadAfter
<1>e. Idle.at = "idle"
  BY DEF Idle
<1>1. Types'
  <2>1. StatusType'
    BY <1>a, <1>b, <1>c DEF StatusType, After, Status
  <2>2. OpsType'
    BY <1>a, <1>d, <1>e DEF OpsType
  <2>3. TreeType' /\ CountType'
    BY <1>a, <1>b DEF TreeType, CountType
  <2> QED BY <2>1, <2>2, <2>3 DEF Types
<1>2. GitInv'
  <2>1. TipInv'
    BY <1>a, <1>b DEF TipInv
  <2>2. IsBase(ops[o].refs.base)
    BY <1>b, ResolvedFacts
  <2> QED BY <1>b, <2>1, <2>2 DEF GitInv, IsBase
<1>3. ThreadInv' /\ LandingInv'
  BY <1>d, <1>e DEF ThreadInv, LandingInv, InGit
<1>4. ProofInv'
  BY <1>b, <1>d, <1>e DEF IInv, ProofInv
<1>5. ProvenIsWhatLands'
  BY <1>b DEF IInv, ProvenIsWhatLands
<1>6. WorkSurvives'
  <2>1. \A i \in 1..others : Other(i) \in Range(base') \cup late
    BY <1>b, ResolvedFacts
  <2> QED BY <1>a, <1>b, <1>c, <2>1 DEF WorkSurvives
<1> QED BY <1>1, <1>2, <1>3, <1>4, <1>5, <1>6 DEF IInv

(* The branch of a landed child goes: its work is on the base, or late.    *)
LEMMA CleanUpKeeps == ASSUME IInv, NEW o \in Ops, CleanUp(o) PROVE IInv'
<1>a. /\ StatusType /\ OpsType /\ TreeType /\ CountType /\ TipInv /\ ~spilled
      /\ ops = [p \in Ops |-> ops[p]]
  BY Found
<1>b. /\ ops[o].at = "landed" /\ ~dirty
      /\ tree' = FALSE /\ dirty' = FALSE /\ branch' = FALSE /\ head' = head /\ tracked' = FALSE
      /\ ~spilled'
      /\ ops' = [ops EXCEPT ![o] = Idle]
      /\ UNCHANGED <<settings, status, receipts, baseVars, proven, crashes, landings, late>>
  BY <1>a DEF CleanUp, Removes, MayRemove, BranchAfter
<1>c. \A p \in Ops : p # o => ~InGit(p)
  BY <1>b, OneInGit DEF InGit
<1> USE DEF settings, baseVars
<1>d. /\ ops' = [p \in Ops |-> ops'[p]] /\ ops'[o] = Idle
      /\ \A p \in Ops : p # o => ops'[p] = ops[p] /\ ops'[p].at \notin {"rebasing", "gated", "resolved", "landed"}
  BY <1>a, <1>b, <1>c, ThreadAfter
<1>e. Idle.at = "idle"
  BY DEF Idle
<1>1. Types'
  <2>1. StatusType'
    BY <1>a, <1>b DEF StatusType
  <2>2. OpsType'
    BY <1>a, <1>d, <1>e DEF OpsType
  <2>3. TreeType' /\ CountType'
    BY <1>a, <1>b DEF TreeType, CountType
  <2> QED BY <2>1, <2>2, <2>3 DEF Types
<1>2. GitInv'
  BY <1>a, <1>b DEF IInv, GitInv, TipInv, IsBase
<1>3. ThreadInv' /\ LandingInv'
  BY <1>d, <1>e DEF ThreadInv, LandingInv, InGit
<1>4. ProofInv'
  BY <1>b, <1>d, <1>e DEF IInv, ProofInv
<1>5. ProvenIsWhatLands'
  BY <1>b DEF IInv, ProvenIsWhatLands
<1>6. WorkSurvives'
  <2>1. \A n \in 1..head.work : n <= Landed(base) \/ Squash(n) \in late
    BY <1>b DEF IInv, LandingInv
  <2> QED BY <1>b, <2>1 DEF IInv, WorkSurvives
<1> QED BY <1>1, <1>2, <1>3, <1>4, <1>5, <1>6 DEF IInv

(* A step of something else.                                               *)
LEMMA StutterKeeps == ASSUME IInv, UNCHANGED vars PROVE IInv'
<1> USE DEF vars, settings, sessionVars, childVars, baseVars, history
<1>1. Types'
  BY DEF IInv, Types, StatusType, OpsType, TreeType, CountType
<1>2. GitInv' /\ ThreadInv'
  BY DEF IInv, GitInv, TipInv, IsBase, ThreadInv, InGit
<1>3. ProofInv' /\ LandingInv'
  BY DEF IInv, ProofInv, IsProven, LandingInv
<1>4. ProvenIsWhatLands' /\ WorkSurvives'
  BY DEF IInv, ProvenIsWhatLands, WorkSurvives
<1> QED BY <1>1, <1>2, <1>3, <1>4 DEF IInv

-----------------------------------------------------------------------------
(* Every step keeps the invariant.                                         *)
LEMMA NextKeeps == ASSUME IInv, [Next]_vars PROVE IInv'
<1>1. CASE Edit \/ AgentCommits \/ BaseMoves \/ HeadIsProven \/ ParentIsCleaned
  BY <1>1, EditKeeps, AgentCommitsKeeps, BaseMovesKeeps, HeadIsProvenKeeps, ParentIsCleanedKeeps
<1>2. CASE CommitChild \/ RebaseRefused \/ SendBack \/ RemoveChild \/ Decide("rejected") \/ Decide("abandoned")
  <2>1. CallEnds
    BY <1>2, CommitChildEnds, RebaseRefusedEnds, SendBackEnds, RemoveChildEnds, DecideEnds
  <2> QED BY <2>1, CallEndsKeepsInv
<1>3. CASE Crash \/ Adopt
  <2>1. CallEnds
    BY <1>3, CrashEnds, AdoptEnds
  <2> QED BY <2>1, CallEndsKeepsInv
<1>4. ASSUME NEW autoCommit \in BOOLEAN, ReviewAtOnce(autoCommit)
      PROVE  IInv'
  BY <1>4, ReviewAtOnceEnds, CallEndsKeepsInv
<1>5. ASSUME NEW o \in Ops, NEW flag \in BOOLEAN,
             StartReview(o, flag) \/ FinishReview(o, flag) \/ StartMerge(o, flag)
      PROVE  IInv'
  <2>1. CallEnds
    BY <1>5, StartReviewEnds, FinishReviewEnds, StartMergeEnds
  <2> QED BY <2>1, CallEndsKeepsInv
<1>6. ASSUME NEW o \in Ops, NEW flag \in BOOLEAN, MergeAtOnce(o, flag) \/ ProveMerge(o, flag)
      PROVE  IInv'
  BY <1>6, MergeAtOnceKeeps, ProveMergeKeeps
<1>7. ASSUME NEW o \in Ops,
             GateThrows(o) \/ NothingToRebase(o) \/ StartRebase(o) \/ Rebased(o) \/ RebaseFails(o)
      PROVE  IInv'
  BY <1>7, GateThrowsEnds, CallEndsKeepsInv, NothingToRebaseKeeps, StartRebaseKeeps, RebasedKeeps,
     RebaseFailsKeeps
<1>8. ASSUME NEW o \in Ops,
             \/ ResolveRefs(o) \/ RefuseRefs(o) \/ NothingToLand(o) \/ Land(o) \/ RollBack(o)
             \/ CleanUp(o) \/ KeepLanded(o)
      PROVE  IInv'
  BY <1>8, ResolveRefsKeeps, RefuseRefsKeeps, NothingToLandKeeps, LandKeeps, RollBackKeeps,
     CleanUpKeeps, KeepLandedKeeps
<1>9. CASE DiscardChild \/ UNCHANGED vars
  BY <1>9, DiscardChildKeeps, StutterKeeps
<1> QED BY <1>1, <1>2, <1>3, <1>4, <1>5, <1>6, <1>7, <1>8, <1>9 DEF Next

(* The invariant holds in every state a run of the controller reaches.     *)
THEOREM Invariance == Spec => []IInv
<1>1. Init => IInv
  BY InitInv
<1>2. IInv /\ [Next]_vars => IInv'
  BY NextKeeps
<1> QED BY <1>1, <1>2, PTL DEF Spec

(* The variables keep their types: one merge at most is inside Git, and at *)
(* most one receipt is held, under enforce alone.                          *)
THEOREM TypeCorrect == Spec => []TypeOK
<1>1. IInv => TypeOK
  BY InvTypes
<1> QED BY <1>1, Invariance, PTL

(* What lands is what was judged (mergeChild, squashMergeChild): for any   *)
(* number of calls, commits of either side and crashes.                    *)
THEOREM JudgedLands == Spec => []ProvenIsWhatLands
<1>1. IInv => ProvenIsWhatLands
  BY DEF IInv
<1> QED BY <1>1, Invariance, PTL

(* No commit and no edit is lost, but for commits made after a landing     *)
(* resolved its refs, what a forced removal was told to drop and what is   *)
(* made while a rebase runs that is aborted (squashMergeChild, removeChild,*)
(* rebaseChildOntoBase).                                                   *)
THEOREM WorkKept == Spec => []WorkSurvives
<1>1. IInv => WorkSurvives
  BY DEF IInv
<1> QED BY <1>1, Invariance, PTL

(* Only a child that is ready to merge lands (mergeChild after its await). *)
THEOREM ReadyLands == Spec => OnlyTheReadyLand
<1>1. IInv /\ [Next]_vars => [Landed(base') > Landed(base) => status = "ready_to_merge"]_vars
  <2> SUFFICES ASSUME IInv, Next, Landed(base') > Landed(base)
               PROVE  status = "ready_to_merge"
    OBVIOUS
  <2>1. Landed(base) \in Nat /\ IsBase(base) /\ others \in Nat
    BY BoundsAreNumbers DEF IInv, GitInv, IsBase, Types, CountType
  <2>2. base' # base
    BY <2>1
  <2>3. ~BaseMoves
    <3> SUFFICES ASSUME BaseMoves PROVE FALSE
      OBVIOUS
    <3>1. base' = Append(base, Other(others + 1)) /\ others + 1 \in Nat
      BY <2>1 DEF BaseMoves
    <3>2. Landed(base') = Landed(base)
      BY <2>1, <3>1, OtherKeepsLanded
    <3> QED BY <2>1, <3>2
  <2>4. \E o \in Ops : NothingToLand(o) \/ Land(o) \/ RollBack(o)
    BY <2>2, <2>3 DEF Next, Edit, AgentCommits, HeadIsProven, ParentIsCleaned, CommitChild, SendBack,
       RemoveChild, DiscardChild, Decide, RebaseRefused, NothingToRebase, StartRebase, Rebased,
       RebaseFails, ReviewAgain, ReviewAtOnce, StartReview, FinishReview, MergeAtOnce, StartMerge,
       ProveMerge, GateThrows, ResolveRefs, RefuseRefs, CleanUp, KeepLanded, Crash, Adopt, baseVars
  <2>5. PICK o \in Ops : ops[o].at = "resolved"
    BY <2>4 DEF NothingToLand, Land, RollBack
  <2> QED BY <2>5, OneInGit DEF InGit
<1> QED BY <1>1, Invariance, PTL DEF Spec, OnlyTheReadyLand

=============================================================================
