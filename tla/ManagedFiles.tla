---------------------------- MODULE ManagedFiles ----------------------------
(***************************************************************************)
(* The files that `specgraph init` and `specgraph doctor --fix` keep in a  *)
(* project: internal/config/managedfiles.                                  *)
(*                                                                         *)
(* One managed file, and the older file it replaces, that its user edits   *)
(* while commands of an old and of a new release of the program synchronise*)
(* it.  Content is told apart as far as the strategies do: whose text the  *)
(* managed part is, which text its sentinel vouches for, and what the user *)
(* keeps around it.  A command takes the file's lock, reads and classifies *)
(* it, replaces it by a rename, and then deletes the older file if that is *)
(* still what a release once wrote.  The user takes no lock.               *)
(***************************************************************************)
EXTENDS Handlers, Naturals

Releases == {"old", "new"}
Strategies == {"json", "block", "whole", "noSentinel"}
Texts == Releases \cup {"v1", "mine", "none"}

VARIABLES
    mStrategy,   \* how the file is managed; a noSentinel file is whole, and cannot hold a comment
    mFile,       \* its content
    mOldFile,    \* the superseded file: absent, as a release wrote it, or with the user's edits
    mLock,       \* the command that holds the file's lock
    mCmd         \* what each command is doing

mVars == <<mStrategy, mFile, mOldFile, mLock, mCmd>>

\* body is the managed part (in JSON: the managed keys), seal the text whose hash
\* the sentinel holds ("v1": a marker without a hash), extra the rest of the file.
Content == [there : BOOLEAN, parses : BOOLEAN, body : Texts, seal : Texts, extra : BOOLEAN, legacy : BOOLEAN]
Absent == [there |-> FALSE, parses |-> TRUE, body |-> "none", seal |-> "none", extra |-> FALSE, legacy |-> FALSE]

CmdIdle == [step |-> "idle", release |-> "old", plan |-> Absent, changed |-> FALSE, oldChanged |-> FALSE]
CmdSteps == {"idle", "inspect", "lock", "classify", "write", "supersede", "remove", "done", "skipped"}

MTypeOK ==
    /\ mStrategy \in Strategies
    /\ mFile \in Content
    /\ mOldFile \in {"absent", "prior", "mine"}
    /\ mLock \in Requests \cup {None}
    /\ \A q \in Requests :
         /\ mCmd[q].step \in CmdSteps /\ mCmd[q].release \in Releases /\ mCmd[q].plan \in Content
         /\ mCmd[q].changed \in BOOLEAN /\ mCmd[q].oldChanged \in BOOLEAN

MInit ==
    /\ mStrategy \in Strategies
    /\ \/ mFile = Absent
       \/ /\ mStrategy = "block"
          /\ mFile \in {[Absent EXCEPT !.there = TRUE, !.extra = TRUE],
                        [Absent EXCEPT !.there = TRUE, !.body = "v1", !.seal = "v1", !.legacy = TRUE]}
    /\ mOldFile \in IF mStrategy \in {"block", "whole"} THEN {"absent", "prior", "mine"} ELSE {"absent"}
    /\ mLock = None
    /\ mCmd = [q \in Requests |-> CmdIdle]

----------------------------------------------------------------------------
(* What a release makes of a file.                                         *)

\* What releases before b wrote: only the new one has a predecessor here.
priorsFor(b) == IF b = "new" THEN {"old"} ELSE {}

\* A JSON file has no drift: its managed keys are the program's.
ClassifyJSON(f, b) == IF f.body = b THEN "synced" ELSE "stale"

\* A file that cannot hold a sentinel is compared with everything that was ever
\* written to it.
ClassifyNoSentinel(f, b) ==
    IF f.body = b THEN "synced"
    ELSE IF f.body \in priorsFor(b) THEN "stale" ELSE "drifted"

\* Mutant: the sentinel's hash is not compared with the file's.
wholeFileClassifySealed(f, b) ==
    IF f.seal = "none" THEN "drifted"
    ELSE IF f.body # b THEN "stale" ELSE "synced"

\* The sentinel holds the hash of what was written under it.
wholeFileClassify(f, b) ==
    IF f.seal = "none" \/ f.seal # f.body THEN "drifted"
    ELSE IF f.body # b THEN "stale" ELSE "synced"

\* A file without a block gets one; a block of the first format has no hash, and
\* is compared with what that format wrote.
markdownBlockClassify(f, b) ==
    IF f.body = "none" THEN "stale"
    ELSE IF f.seal = "v1" THEN IF f.body \in {b, "v1"} THEN "stale" ELSE "drifted"
    ELSE wholeFileClassify(f, b)

Classify(f, b) ==
    IF ~f.there THEN "missing"
    ELSE IF ~f.parses THEN "error"
    ELSE CASE mStrategy = "json" -> ClassifyJSON(f, b)
           [] mStrategy = "noSentinel" -> ClassifyNoSentinel(f, b)
           [] mStrategy = "block" -> markdownBlockClassify(f, b)
           [] mStrategy = "whole" -> wholeFileClassify(f, b)

\* The managed keys are set, the others stay.
jsonKeyMergeCanonical(f, b) == [f EXCEPT !.there = TRUE, !.body = b]

\* The block is replaced, or appended, under a new sentinel; what is around it
\* stays, and blocks of older formats go.
renderV2Block(f, b) == [f EXCEPT !.there = TRUE, !.body = b, !.seal = b, !.legacy = FALSE]

renderWholeFile(f, b) ==
    [f EXCEPT !.there = TRUE, !.body = b, !.seal = IF mStrategy = "whole" THEN b ELSE "none"]

Rendered(f, b) ==
    CASE mStrategy = "json" -> jsonKeyMergeCanonical(f, b)
      [] mStrategy = "block" -> renderV2Block(f, b)
      [] OTHER -> renderWholeFile(f, b)

\* What Sync writes, or the file as it is: a block that is in order still loses
\* the blocks of older formats beside it.
Plan(f, b) ==
    CASE Classify(f, b) \in {"missing", "stale"} -> Rendered(f, b)
      [] Classify(f, b) = "synced" -> [f EXCEPT !.legacy = FALSE]
      [] OTHER -> f

----------------------------------------------------------------------------
(* A command.                                                              *)

Cmd(q, fields) == mCmd' = [mCmd EXCEPT ![q] = fields]
Step(q, s) == mCmd' = [mCmd EXCEPT ![q].step = s]

\* SyncAll of `init`.  JSON files are merged without the lock.
SyncAll(q, b) ==
    /\ mCmd[q].step \in {"idle", "done", "skipped"}
    /\ Cmd(q, [CmdIdle EXCEPT !.release = b, !.step = IF mStrategy = "json" THEN "classify" ELSE "lock"])
    /\ UNCHANGED <<mStrategy, mFile, mOldFile, mLock>>

\* InspectAll of `doctor`, and of `init --check`, which stops there.
InspectAll(q, b) ==
    /\ mCmd[q].step \in {"idle", "done", "skipped"}
    /\ Cmd(q, [CmdIdle EXCEPT !.release = b,
                 !.step = IF Classify(mFile, b) \in {"missing", "stale"} THEN "inspect" ELSE "skipped"])
    /\ UNCHANGED <<mStrategy, mFile, mOldFile, mLock>>

\* runDoctorFix synchronises what that report calls stale or missing.
runDoctorFix(q) ==
    /\ mCmd[q].step = "inspect"
    /\ Step(q, IF mStrategy = "json" THEN "classify" ELSE "lock")
    /\ UNCHANGED <<mStrategy, mFile, mOldFile, mLock>>

acquireFileLock(q) ==
    /\ mCmd[q].step = "lock" /\ mLock = None
    /\ mLock' = q
    /\ Step(q, "classify")
    /\ UNCHANGED <<mStrategy, mFile, mOldFile>>

Unlocked(q) == mLock' = IF mLock = q THEN None ELSE mLock

\* Read, classify and decide.
SyncClassify(q) ==
    LET b == mCmd[q].release
        c == Classify(mFile, b)
    IN  /\ mCmd[q].step = "classify"
        /\ \/ /\ c \in {"drifted", "error"}
              /\ Step(q, "skipped") /\ Unlocked(q)
           \/ /\ c \notin {"drifted", "error"}
              /\ Cmd(q, [mCmd[q] EXCEPT !.step = "write", !.plan = Plan(mFile, b), !.changed = FALSE])
              /\ UNCHANGED mLock
        /\ UNCHANGED <<mStrategy, mFile, mOldFile>>

Changed(q) == [p \in Requests |-> IF p # q THEN [mCmd[p] EXCEPT !.changed = TRUE] ELSE mCmd[p]]

\* atomicWrite, if there is anything to write.
SyncWrite(q) ==
    /\ mCmd[q].step = "write"
    /\ mFile' = mCmd[q].plan
    /\ mCmd' = [(IF mFile' # mFile THEN Changed(q) ELSE mCmd) EXCEPT ![q].step = "supersede"]
    /\ UNCHANGED <<mStrategy, mOldFile, mLock>>

\* supersedesGuardedDelete reads the older file and compares its hash.
supersedesGuardedDelete(q) ==
    /\ mCmd[q].step = "supersede"
    /\ \/ mOldFile = "prior" /\ Cmd(q, [mCmd[q] EXCEPT !.step = "remove", !.oldChanged = FALSE]) /\ UNCHANGED mLock
       \/ mOldFile # "prior" /\ Step(q, "done") /\ Unlocked(q)
    /\ UNCHANGED <<mStrategy, mFile, mOldFile>>

RemoveSuperseded(q) ==
    /\ mCmd[q].step = "remove"
    /\ mOldFile' = "absent"
    /\ Step(q, "done") /\ Unlocked(q)
    /\ UNCHANGED <<mStrategy, mFile>>

\* The command is interrupted: the lock goes with the process, and no file is half written.
Interrupt(q) ==
    /\ mCmd[q].step \notin {"idle", "done", "skipped"}
    /\ Cmd(q, CmdIdle) /\ Unlocked(q)
    /\ UNCHANGED <<mStrategy, mFile, mOldFile>>

----------------------------------------------------------------------------
(* The user, at any time.                                                  *)

UserWrites(f) ==
    /\ f # mFile
    /\ mFile' = f
    /\ mCmd' = [q \in Requests |-> [mCmd[q] EXCEPT !.changed = TRUE]]
    /\ UNCHANGED <<mStrategy, mOldFile, mLock>>

UserEdits ==
    \/ mFile.there /\ mFile.body # "none" /\ UserWrites([mFile EXCEPT !.body = "mine"])
    \/ mFile.there /\ mStrategy \in {"json", "block"} /\ UserWrites([mFile EXCEPT !.extra = TRUE])
    \/ mFile.there /\ mStrategy = "block" /\ UserWrites([mFile EXCEPT !.body = "none", !.seal = "none"])
    \/ mFile.there /\ mStrategy = "whole" /\ UserWrites([mFile EXCEPT !.seal = "none"])
    \/ mFile.there /\ mStrategy # "noSentinel" /\ UserWrites([mFile EXCEPT !.parses = ~@])
    \/ UserWrites(Absent)

UserEditsOld ==
    /\ mOldFile = "prior"
    /\ mOldFile' = "mine"
    /\ mCmd' = [q \in Requests |-> [mCmd[q] EXCEPT !.oldChanged = (mCmd[q].step = "remove")]]
    /\ UNCHANGED <<mStrategy, mFile, mLock>>

MNext ==
    \/ \E q \in Requests :
         \/ \E b \in Releases : SyncAll(q, b) \/ InspectAll(q, b)
         \/ runDoctorFix(q) \/ acquireFileLock(q) \/ SyncClassify(q) \/ SyncWrite(q)
         \/ supersedesGuardedDelete(q) \/ RemoveSuperseded(q) \/ Interrupt(q)
    \/ UserEdits \/ UserEditsOld

MSpec == MInit /\ [][MNext]_mVars

----------------------------------------------------------------------------
\* No command destroys what the user wrote, unless the file was changed after
\* the command had read it: not the edited managed part of a file that has a
\* sentinel or that is whole, not what is around the managed part, and not an
\* edited older file.
EditsSurvive ==
    [][\A q \in Requests :
         mCmd'[q].step # mCmd[q].step =>
            /\ ~mCmd[q].changed =>
                 /\ mFile.there => mFile'.there
                 /\ mFile.body = "mine" /\ mStrategy # "json" => mFile'.body = "mine"
                 /\ mFile.extra => mFile'.extra
            /\ ~mCmd[q].oldChanged => (mOldFile = "mine" => mOldFile' = "mine")]_mVars
=============================================================================
