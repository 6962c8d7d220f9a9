----------------------------- MODULE CodePatch -----------------------------
(***************************************************************************)
(* Code patch proposals on the files of one Project Folder: acceptance and *)
(* rollback (server/src/modules/proposals/applyService.ts), the file       *)
(* transaction beneath them (projectFolders/codePatch.ts) and the pre-apply *)
(* snapshots (projectFolders/snapshotStore.ts), beside persons who edit    *)
(* the same files.                                                         *)
(*                                                                         *)
(* A request of a person is served by one database transaction, which      *)
(* holds the proposal's row, and by writes of files in between, which the  *)
(* transaction does not cover and which nothing serializes with those of   *)
(* another proposal.  A content is named by who wrote it; a file that does *)
(* not exist is a content like another.                                    *)
(*                                                                         *)
(* An operator X_Slip is X with a slip in it; the specification uses none. *)
(***************************************************************************)
EXTENDS Integers, Sequences, FiniteSets, SequencesExt

CONSTANTS Patches,
          Edits,      \* what persons write, each once
          Base,       \* what a file holds at first
          Requests,   \* what persons ask for, each once
          Tales       \* what a behaviour may meet: see `tale`

Contents == Patches \cup Edits \cup {Base}

(* A patch writes at least one file and no file twice: its operations are   *)
(* collected by path (codePatch.ts:252), and one of none is refused (338).    *)
ASSUME CodePatchAssumption ==
    /\ Patches \cap Edits = {} /\ Base \notin Patches \cup Edits
    /\ \A t \in Tales :
         /\ t.patches \subseteq Patches /\ t.edits \subseteq Edits
         /\ DOMAIN t.asks \subseteq Requests
         /\ \A p \in t.patches :
              /\ t.files[p] # <<>> /\ t.files[p] \in Seq(ToSet(t.files[p]))
              /\ IsInjective(t.files[p])
         /\ \A q \in DOMAIN t.asks :
              t.asks[q].patch \in t.patches /\ t.asks[q].kind \in {"accept", "rollback"}

VARIABLES
    tale,      \* fixed from the start: the `files` a patch writes, in order; the `patches`
               \*   and `edits` there may be; for each request of `asks` its patch and
               \*   its kind, "accept" or "rollback"; the `faults` that may happen
    disk,      \* the files
    status,    \* proposals.status
    preimage,  \* of each patch, what its operations say a file held
    snapshot,  \* code_patch_snapshots: whether it is there, and its files
    request,   \* the requests under way
    edited,    \* the edits that were made
    faults,    \* those that happened: "crash", "lost" (a COMMIT without an answer), "undo"
    raced      \* a request wrote over what another had written after it checked the file

work == <<disk, status, preimage, snapshot, request, edited, faults, raced>>
patchVars == <<tale, work>>

Paths == UNION {ToSet(tale.files[p]) : p \in tale.patches}
Files(q) == tale.files[tale.asks[q].patch]
Asked(kind) == {q \in DOMAIN tale.asks : tale.asks[q].kind = kind}
PatchOf(q) == tale.asks[q].patch

Statuses == {"none", "pending", "accepted", "rejected", "rolled_back"}
(* A request: where it is, and in which of its files; what each file held  *)
(* before it wrote it (preimages); whether it holds the proposal's row;    *)
(* the files it checked, and those another request or a person changed     *)
(* after that.                                                             *)
Others == {"request", "person"}
Waiting == [pc |-> "new", i |-> 1, held |-> <<>>, row |-> FALSE,
            checked |-> {}, overtaken |-> [o \in Others |-> {}]]
At == {"new", "check", "read", "write", "save", "undo", "done"}
Done(q) == request' = [request EXCEPT ![q] = [Waiting EXCEPT !.pc = "done"]]

PatchTypeOK ==
    /\ disk \in [Paths -> Contents]
    /\ status \in [Patches -> Statuses]
    /\ preimage \in [Patches -> [Paths -> Contents]]
    /\ snapshot \in [Patches -> [there : BOOLEAN, files : [Paths -> Contents]]]
    /\ \A q \in Requests :
        /\ request[q].pc \in At /\ request[q].row \in BOOLEAN
        /\ request[q].checked \subseteq Paths
        /\ request[q].overtaken \in [Others -> SUBSET request[q].checked]
        /\ \A n \in DOMAIN request[q].held : request[q].held[n] \in Paths \X Contents
    /\ edited \subseteq Edits /\ faults \subseteq {"crash", "lost", "undo"} /\ raced \in BOOLEAN

PatchInit ==
    /\ tale \in Tales
    /\ disk = [f \in Paths |-> Base]
    /\ status = [p \in Patches |-> "none"]
    /\ preimage = [p \in Patches |-> disk]
    /\ snapshot = [p \in Patches |-> [there |-> FALSE, files |-> disk]]
    /\ request = [q \in Requests |-> Waiting]
    /\ edited = {} /\ faults = {} /\ raced = FALSE

AtWork(q) == request[q].pc \notin {"new", "done"}
Row(p) == \E q \in DOMAIN tale.asks : PatchOf(q) = p /\ request[q].row
File(q) == Files(q)[request[q].i]
(* A request goes on with its next file, or with what comes after the last. *)
Onward(r, q, pc, after) ==
    IF r.i = Len(Files(q)) THEN [r EXCEPT !.pc = after, !.i = 1] ELSE [r EXCEPT !.pc = pc, !.i = @ + 1]
Becomes(q, r) == request' = [request EXCEPT ![q] = r]
(* A file changes: those that checked it before are overtaken.             *)
Overtake(f, by) ==
    [o \in Requests |-> IF f \in request[o].checked
                        THEN [request[o] EXCEPT !.overtaken[by] = @ \cup {f}] ELSE request[o]]
Writes(q, f, content, r) ==
    /\ disk' = [disk EXCEPT ![f] = content]
    /\ request' = [Overtake(f, "request") EXCEPT ![q] = r]
    /\ raced' = (raced \/ f \in request[q].overtaken["request"])
Over == [Waiting EXCEPT !.pc = "done"]

-----------------------------------------------------------------------------
(* A Run's proposal, of what the files held when its work began.           *)
ProposePatch(p) ==
    /\ status[p] = "none"
    /\ status' = [status EXCEPT ![p] = "pending"]
    /\ preimage' = [preimage EXCEPT ![p] = disk]
    /\ UNCHANGED <<disk, snapshot, request, edited, faults, raced>>

EditFile(f, e) ==
    /\ e \notin edited /\ edited' = edited \cup {e}
    /\ disk' = [disk EXCEPT ![f] = e]
    /\ request' = Overtake(f, "person")
    /\ UNCHANGED <<status, preimage, snapshot, faults, raced>>

RejectPatch(p) ==
    /\ status[p] = "pending" /\ ~Row(p)
    /\ status' = [status EXCEPT ![p] = "rejected"]
    /\ UNCHANGED <<disk, preimage, snapshot, request, edited, faults, raced>>

(* A snapshot expires, or newer ones of the Folder push it out.            *)
SnapshotGoes(p) ==
    /\ snapshot[p].there
    /\ snapshot' = [snapshot EXCEPT ![p].there = FALSE]
    /\ UNCHANGED <<disk, status, preimage, request, edited, faults, raced>>

-----------------------------------------------------------------------------
(* getProposalForUpdate and what is refused before any file is touched.    *)
Begin(q) ==
    LET p == PatchOf(q)
        mayGo == IF tale.asks[q].kind = "accept" THEN status[p] = "pending"
                 ELSE status[p] = "accepted" /\ snapshot[p].there
    IN  /\ request[q].pc = "new" /\ ~Row(p) /\ status[p] # "none"
        /\ IF mayGo
           THEN Becomes(q, [Waiting EXCEPT !.row = TRUE,
                              !.pc = IF tale.asks[q].kind = "accept" THEN "read" ELSE "check"])
           ELSE Becomes(q, Over)
        /\ UNCHANGED <<disk, status, preimage, snapshot, edited, faults, raced>>

Untouched_Skipped(q) == TRUE
(* A rollback looks first whether every file still holds what was applied. *)
Untouched(q) == disk[File(q)] = PatchOf(q)

CheckApplied(q) ==
    /\ request[q].pc = "check"
    /\ IF Untouched(q)
       THEN Becomes(q, [Onward(request[q], q, "check", "read") EXCEPT !.checked = @ \cup {File(q)}])
       ELSE Becomes(q, Over)
    /\ UNCHANGED <<disk, status, preimage, snapshot, edited, faults, raced>>

(* What a file holds is remembered before it is written; an acceptance     *)
(* wants it to be the preimage of its operation (stale_code_patch).        *)
ReadFile(q) ==
    LET f == File(q)
        accepts == tale.asks[q].kind = "accept"
    IN  /\ request[q].pc = "read"
        /\ IF accepts /\ disk[f] # preimage[PatchOf(q)][f]
           THEN Becomes(q, [request[q] EXCEPT !.pc = "undo"])
           ELSE Becomes(q, [request[q] EXCEPT !.pc = "write", !.held = Append(@, <<f, disk[f]>>),
                                              !.checked = IF accepts THEN @ \cup {f} ELSE @])
        /\ UNCHANGED <<disk, status, preimage, snapshot, edited, faults, raced>>

WriteFile(q) ==
    LET p == PatchOf(q)
    IN  /\ request[q].pc = "write"
        /\ Writes(q, File(q),
                  IF tale.asks[q].kind = "accept" THEN p ELSE snapshot[p].files[File(q)],
                  Onward(request[q], q, "read", "save"))
        /\ UNCHANGED <<status, preimage, snapshot, edited, faults>>

(* A write or a statement fails.  While the acceptance is being applied    *)
(* the files are put back first and the row is let go after; of a rollback *)
(* the transaction is ended first.                                         *)
Fails(q) ==
    /\ request[q].pc \in {"write", "save"}
    /\ Becomes(q, [request[q] EXCEPT !.pc = "undo", !.row = tale.asks[q].kind = "accept"])
    /\ UNCHANGED <<disk, status, preimage, snapshot, edited, faults, raced>>

(* What the transaction writes: the snapshot and the proposal's status.    *)
Saved(q) ==
    LET p == PatchOf(q)
    IN  IF tale.asks[q].kind = "accept"
        THEN /\ status' = [status EXCEPT ![p] = "accepted"]
             /\ snapshot' = [snapshot EXCEPT ![p] =
                  [there |-> TRUE,
                   files |-> [f \in Paths |->
                     IF f \in ToSet(Files(q))
                     THEN (CHOOSE h \in ToSet(request[q].held) : h[1] = f)[2]
                     ELSE Base]]]
        ELSE /\ status' = [status EXCEPT ![p] = "rolled_back"]
             /\ snapshot' = [snapshot EXCEPT ![p].there = FALSE]

Commit(q) ==
    /\ request[q].pc = "save" /\ Saved(q) /\ Becomes(q, Over)
    /\ UNCHANGED <<disk, preimage, edited, faults, raced>>

CommitFails_Keeps(q) == Becomes(q, Over)
(* The COMMIT fails: the row is free again, then the files are put back.   *)
CommitFails(q) == Becomes(q, [request[q] EXCEPT !.pc = "undo", !.row = FALSE])

CommitRefused(q) ==
    /\ request[q].pc = "save" /\ CommitFails(q)
    /\ UNCHANGED <<disk, status, preimage, snapshot, edited, faults, raced>>
Fault(what) == what \in tale.faults \ faults /\ faults' = faults \cup {what}
(* The COMMIT is made and its answer lost: the files are put back as well. *)
CommitUnheard(q) ==
    /\ request[q].pc = "save" /\ Fault("lost") /\ Saved(q) /\ CommitFails(q)
    /\ UNCHANGED <<disk, preimage, edited, raced>>

(* CodePatchFileTransaction.rollback, the latest file first.               *)
UndoFile(q) ==
    LET held == request[q].held
    IN  /\ request[q].pc = "undo"
        /\ IF held = <<>> THEN Becomes(q, Over) /\ UNCHANGED <<disk, raced>>
           ELSE Writes(q, Last(held)[1], Last(held)[2], [request[q] EXCEPT !.held = Front(@)])
        /\ UNCHANGED <<status, preimage, snapshot, edited, faults>>
(* Its failure ends it: nobody hears of it.                                *)
UndoFails(q) ==
    /\ request[q].pc = "undo" /\ request[q].held # <<>> /\ Fault("undo")
    /\ Becomes(q, Over)
    /\ UNCHANGED <<disk, status, preimage, snapshot, edited, raced>>

(* The server dies: the transactions are undone, the files stay.           *)
ServerDies ==
    /\ \E q \in DOMAIN tale.asks : AtWork(q)
    /\ Fault("crash")
    /\ request' = [q \in Requests |-> IF AtWork(q) THEN Over ELSE request[q]]
    /\ UNCHANGED <<disk, status, preimage, snapshot, edited, raced>>

Serve(q) ==
    \/ Begin(q) \/ CheckApplied(q) \/ ReadFile(q) \/ WriteFile(q) \/ Fails(q)
    \/ Commit(q) \/ CommitRefused(q) \/ CommitUnheard(q) \/ UndoFile(q) \/ UndoFails(q)

PatchStep ==
    \/ \E q \in DOMAIN tale.asks : Serve(q)
    \/ \E p \in tale.patches : ProposePatch(p) \/ RejectPatch(p) \/ SnapshotGoes(p)
    \/ \E f \in Paths, e \in tale.edits : EditFile(f, e)
    \/ ServerDies

PatchNext == PatchStep /\ UNCHANGED tale
PatchSpec == PatchInit /\ [][PatchNext]_patchVars

-----------------------------------------------------------------------------
(* What a proposal says of its files, once no request works on them: one   *)
(* that was not accepted or was rolled back left nothing behind, and what  *)
(* an accepted one replaced is gone.  The files are not written with the   *)
(* transaction: a crash between the two, a COMMIT whose answer is lost or  *)
(* a failed compensation may part them for good, and so may two requests   *)
(* that work on a file at the same time (applyService.ts:199-297, 530-643; *)
(* codePatch.ts:376-439).                                                  *)
FilesAgree(p) ==
    LET files == ToSet(tale.files[p])
    IN  IF status[p] = "accepted"
        THEN \A f \in files : disk[f] # snapshot[p].files[f]
        ELSE \A f \in files : disk[f] # p

StatusIsTrue ==
    /\ PatchTypeOK
    /\ faults = {} /\ ~raced =>
         \A p \in tale.patches :
             (\A q \in DOMAIN tale.asks : ~(PatchOf(q) = p /\ AtWork(q))) => FilesAgree(p)

(* "Writing pre-apply content over a file someone has changed since would  *)
(* silently discard that work" (applyService.ts:581-583): an edit is       *)
(* overwritten by what was made over it, by the undoing of what restored   *)
(* it, and else only by a request that had checked the file before.        *)
NoEditIsLost ==
    \A f \in Paths : disk[f] \in Edits /\ disk'[f] \notin Edits =>
        \E q \in DOMAIN tale.asks :
            /\ request'[q] # request[q]
            /\ \/ \E o \in Others : f \in request[q].overtaken[o]
               \/ tale.asks[q].kind = "accept" /\ preimage[PatchOf(q)][f] = disk[f]
               \/ tale.asks[q].kind = "rollback" /\ snapshot[PatchOf(q)].files[f] = disk[f]

(* No step loses a person's edit: applyService.ts:581-601, codePatch.ts:456-471. *)
EditsStand == [][NoEditIsLost]_patchVars
=============================================================================
