----------------------------- MODULE Recordings -----------------------------
(***************************************************************************)
(* The episodes of one recording: their directories in local staging       *)
(* (recording.py), the row of PostgreSQL that counts them and the requests *)
(* that keep the two together (api/recordings.py) up to the upload after   *)
(* which the files go.  A request works on the copy of the row it loaded   *)
(* on arrival (expire_on_commit is off) and writes back the columns it     *)
(* changed.  The manager's lock spans no await, so a step is the code      *)
(* between two awaits that suspend: a thread, a task, a finalization.      *)
(***************************************************************************)
EXTENDS Integers, FiniteSets, FiniteSetsExt

CONSTANTS
    MaxEpisodes,   \* bound on the episode directories
    Requests,      \* HTTP requests under way at once
    Pollers,       \* those of them that only read, as the pages do
    MaxFaults,     \* bound on faults of database, disk, encoder, rig and Hub
    MaxRestarts    \* bound on process restarts

ASSUME RecordingBounds ==
    /\ MaxEpisodes \in Nat /\ MaxFaults \in Nat /\ MaxRestarts \in Nat
    /\ Pollers \subseteq Requests

Episodes == 0 .. MaxEpisodes - 1
None == -1

VARIABLES
    row,        \* the Recording row: status, episode_count, episodes, upload
    dir,        \* what each episode directory holds
    rt,         \* _RecordingRuntime
    dropping,   \* directories some task is about to remove as failed
    busy,       \* _filesystem_busy
    reserved,   \* HFDatasetUploader._active
    req,        \* where each request stands, its kind or for an upload the status
                \* before, its copy of the row, the episodes it is about, and for
                \* an upload whether an earlier one had the same target
    hub,        \* the episodes in a revision the Hub has verified
    repo,       \* the dataset repository an upload is for: absent, bare (created
                \* by us) or vacant (by others), ours by its marker, or theirs
    sd,         \* the lifespan of the process
    taken,      \* the episodes its shutdown took over to close
    faults, restarts,
    adrift      \* history: episodes that were published though the commit, or
                \* the process, that was to put them on the row failed, and those
                \* removed because their manifest could not be read

process == <<sd, taken, restarts, adrift>>
disk == <<dir, dropping>>
remote == <<reserved, hub, repo>>
recordingVars == <<row, disk, busy, rt, remote, req, process, faults>>

Kinds == {"look", "state", "teleopStart", "teleopStop", "start", "stop", "upload"}

Fault == faults < MaxFaults /\ faults' = faults + 1
Fine == faults' = faults

Blank == [status |-> "draft", count |-> 0, eps |-> {}, upload |-> "none"]
Quiet == [teleop |-> "off", episode |-> None, final |-> None, task |-> FALSE,
          count |-> 0, status |-> "draft", err |-> "none"]
At(at, kind, c, eps) == [at |-> at, kind |-> kind, copy |-> c, eps |-> eps, trusted |-> FALSE]
Unused == At("free", "none", Blank, {})

RecordingsInit ==
    /\ row = Blank /\ rt = Quiet
    /\ dir = [e \in Episodes |-> "absent"] /\ dropping = {}
    /\ busy = FALSE /\ reserved = FALSE /\ hub = {} /\ repo = "absent"
    /\ req = [q \in Requests |-> Unused]
    /\ sd = "up" /\ taken = {} /\ faults = 0 /\ restarts = 0 /\ adrift = {}

Kept == {e \in Episodes : dir[e] = "kept"}

-----------------------------------------------------------------------------
(* The row: status, count and metadata (episodes and upload) are columns   *)
(* that are written apart, each if the request changed it in its copy.     *)

Meta(c) == <<c.eps, c.upload>>
Stored(r, c, n) ==
    [status |-> IF n.status = c.status THEN r.status ELSE n.status,
     count |-> IF n.count = c.count THEN r.count ELSE n.count,
     eps |-> IF Meta(n) = Meta(c) THEN r.eps ELSE n.eps,
     upload |-> IF Meta(n) = Meta(c) THEN r.upload ELSE n.upload]

With(c, status) == [c EXCEPT !.status = status]
Commits(r, c, n) == Fine /\ row' = Stored(r, c, n)
CommitFails(r, c, n) == Fault /\ row' \in {r, Stored(r, c, n)}

Ends(q) == req' = [req EXCEPT ![q] = Unused]
Goes(q, at, kind, c, eps) == req' = [req EXCEPT ![q] = At(at, kind, c, eps)]

HasTarget(c) == c.upload \notin {"none", "untargeted"}
Mutable(c) == c.status \notin {"uploading", "uploaded"} /\ ~HasTarget(c)
Broken(upload) == IF upload \in {"none", "untargeted"} THEN "untargeted" ELSE "failed"
Interrupted(c) == [c EXCEPT !.status = "failed", !.upload = Broken(@)]

(* The runtime.                                                            *)
Idle(t) == t.teleop # "on" /\ t.episode = None /\ t.final = None
Counted(t) == IF t.count > 0 THEN "ready" ELSE "draft"
Fails(t) == [t EXCEPT !.status = "failed", !.err = IF @ = "none" THEN "other" ELSE @]
OwnsRig(t) == t.teleop = "on" /\ t.err = "none" /\ sd = "up"

(* ensure_session *)
Ensured(t, c) ==
    IF ~Idle(t) THEN t
    ELSE [t EXCEPT !.count = c.count,
                   !.status = IF t.err # "none" THEN @
                              ELSE IF c.status \notin {"teleop", "recording"} THEN c.status
                              ELSE IF c.count > 0 THEN "ready" ELSE "draft"]

(* reconcile_persisted_episodes *)
Refreshed(t, c) ==
    LET err == IF t.err = "persist" THEN "none" ELSE t.err IN
    [t EXCEPT !.count = c.count, !.err = err,
              !.final = IF ~t.task /\ c.count > t.count THEN None ELSE @,
              !.status = IF t.teleop # "on" /\ t.episode = None /\ err = "none"
                           THEN c.status ELSE @]

(* compensate_persistence_failure, up to its first await.                  *)
Compensated(t) ==
    [t EXCEPT !.teleop = IF @ = "on" THEN "closing" ELSE @, !.episode = None,
              !.final = None, !.task = FALSE, !.status = "failed", !.err = "persist"]

-----------------------------------------------------------------------------
(* _reconcile_episode_manifests: the scan of the directories in a thread,  *)
(* then the merge of what it found into the request's copy of the row.     *)

Merged(c, found) ==
    LET eps == c.eps \cup found
        recovered == found \ c.eps # {} /\ ~HasTarget(c) /\ Idle(rt)
    IN [c EXCEPT !.eps = eps, !.count = Cardinality(eps),
                 !.status = IF recovered /\ @ \in {"draft", "recording", "failed"}
                              THEN "ready" ELSE @]

(* _reconcile_recording_directory: what is neither excluded nor published  *)
(* goes, files that lack only the manifest included, and so does what is    *)
(* published when its manifest cannot be read just then (lost).            *)
Scanned(saw, lost) ==
    [e \in Episodes |-> IF e \in saw \/ (dir[e] = "kept" /\ e \notin lost)
                         THEN dir[e] ELSE "absent"]

Reads(lost) == (IF lost = {} THEN Fine ELSE Fault) /\ adrift' = adrift \cup lost

InUse == {rt.episode, rt.final} \ {None}

Scan(q) ==
    /\ req[q].at = "scan"
    /\ \E lost \in SUBSET (Kept \ req[q].eps) :
          /\ Reads(lost) /\ dir' = Scanned(req[q].eps, lost)
          /\ Goes(q, "merge", req[q].kind, req[q].copy, Kept \ (req[q].eps \cup lost))
    /\ UNCHANGED <<row, rt, dropping, busy, remote, sd, taken, restarts>>

-----------------------------------------------------------------------------
(* The handlers, given the copy c, the row r and the runtime t as they are *)
(* when the reconciliation is behind them.  scanning: another's goes on.   *)

Refuse(q, r, t) == row' = r /\ rt' = t /\ Ends(q) /\ Fine /\ UNCHANGED <<disk, remote>>

LookUp(q, c, r, t) == Refuse(q, r, t)

ShowState(q, c, r, t) ==
    LET now == Ensured(t, c) IN
    /\ \/ Commits(r, c, With(c, now.status))
       \/ now.status # c.status /\ CommitFails(r, c, With(c, now.status))
    /\ rt' = now /\ Ends(q) /\ UNCHANGED <<disk, remote>>

(* After a failed commit the motion ends and an episode is thrown away.    *)
Compensates(t) ==
    /\ rt' = Compensated(t)
    /\ dropping' = dropping \cup ({t.episode} \ {None})

MayTeleop(t) == sd = "up" /\ t.final = None /\ t.teleop = "off"
Teleoperates(t) == [t EXCEPT !.teleop = "on", !.status = "teleop", !.err = "none"]

TeleopStarts(q, c, r, t) ==
    LET now == Ensured(t, c)
        on == Teleoperates(now)
    IN
    \/ Refuse(q, r, now)
    \/ /\ Mutable(c) /\ MayTeleop(now)
       /\ \/ Commits(r, c, With(c, "teleop")) /\ rt' = on /\ UNCHANGED dropping
          \/ CommitFails(r, c, With(c, "teleop")) /\ Compensates(on)
       /\ Ends(q) /\ UNCHANGED <<dir, remote>>

MayStopTeleop(t) == t.teleop = "on" /\ t.episode = None /\ t.final = None
Stopping(t) == [t EXCEPT !.teleop = "stopping", !.status = "failed", !.err = "other"]

TeleopStops(q, c, r, t) ==
    LET now == Ensured(t, c) IN
    IF ~MayStopTeleop(now) THEN Refuse(q, r, now)
    ELSE /\ rt' = Stopping(now)
         /\ Goes(q, "stopping", "none", c, {})
         /\ row' = r /\ Fine /\ UNCHANGED <<disk, remote>>

(* _available_episode_index; _open_episode, which leaves nothing if it fails *)
MayRecord(t) == t.teleop = "on" /\ t.episode = None /\ t.final = None
Available(t) == {e \in Episodes : e >= t.count /\ dir[e] = "absent"}
Opened(e) == [dir EXCEPT ![e] = "open"]

StartEpisode(q, c, r, t, scanning) ==
    LET now == Ensured(t, c) IN
    \/ Refuse(q, r, now)
    \/ /\ Mutable(c) /\ MayRecord(now)
       /\ ~scanning /\ Available(now) # {}
       /\ LET e == Min(Available(now))
              on == [now EXCEPT !.episode = e, !.status = "recording"]
          IN /\ dir' = Opened(e)
             /\ \/ Commits(r, c, With(c, "recording")) /\ rt' = on /\ UNCHANGED dropping
                \/ CommitFails(r, c, With(c, "recording")) /\ Compensates(on)
       /\ Ends(q) /\ UNCHANGED remote

Finalizing(t) == [t EXCEPT !.episode = None, !.final = t.episode, !.task = TRUE]

StopEpisode(q, c, r, t) ==
    LET now == Ensured(t, c) IN
    IF now.episode = None THEN Refuse(q, r, now)
    ELSE /\ rt' = Finalizing(now)
         /\ Goes(q, "closing", "none", c, {now.episode})
         /\ row' = r /\ Fine /\ UNCHANGED <<disk, remote>>

(* The intent is durable before anything is sent.  A recording that has    *)
(* got a target keeps it, one that has none may be given another name.     *)
Upload(q, c, r, t) ==
    LET now == Ensured(t, c)
        intent == [c EXCEPT !.status = "uploading", !.upload = "uploading"]
        upload == [At("convert", c.status, intent, {}) EXCEPT !.trusted = HasTarget(c)]
    IN
    \/ Refuse(q, r, now)
    \/ /\ Idle(now) /\ c.status \in {"ready", "failed"} /\ c.count > 0 /\ ~reserved
       /\ rt' = now
       /\ \/ Commits(r, c, intent) /\ reserved' = TRUE /\ req' = [req EXCEPT ![q] = upload]
          \/ CommitFails(r, c, intent) /\ Ends(q) /\ UNCHANGED reserved
       /\ repo' \in (IF HasTarget(c) THEN {repo} ELSE {repo, "absent"})
       /\ UNCHANGED <<disk, hub>>

Handles(q, kind, c, r, t, scanning) ==
    CASE kind = "look" -> LookUp(q, c, r, t)
      [] kind = "state" -> ShowState(q, c, r, t)
      [] kind = "teleopStart" -> TeleopStarts(q, c, r, t)
      [] kind = "teleopStop" -> TeleopStops(q, c, r, t)
      [] kind = "start" -> StartEpisode(q, c, r, t, scanning)
      [] kind = "stop" -> StopEpisode(q, c, r, t)
      [] kind = "upload" -> Upload(q, c, r, t)

(* _reconcile_stale_upload comes first, but for the two that stop motion.  *)
Stale(c) == c.status = "uploading" /\ ~reserved
Serves(q, kind, c, r, t, scanning) ==
    IF ~Stale(c) \/ kind \in {"teleopStop", "stop"} THEN Handles(q, kind, c, r, t, scanning)
    ELSE \/ CommitFails(r, c, Interrupted(c)) /\ rt' = t /\ Ends(q) /\ UNCHANGED <<disk, remote>>
         \/ Handles(q, kind, Interrupted(c), Stored(r, c, Interrupted(c)), t, scanning)

Asks(q) == IF q \in Pollers THEN {"state"} ELSE Kinds

(* A request loads the row; when the directories are being scanned for     *)
(* another it does without, or else it scans them.                         *)
Arrive(q, kind) ==
    /\ sd = "up" /\ req[q].at = "free"
    /\ busy' = TRUE
    /\ IF busy THEN Serves(q, kind, row, row, rt, TRUE)
       ELSE /\ Goes(q, "scan", kind, row, InUse)
            /\ UNCHANGED <<row, dir, dropping, rt, remote, faults>>
    /\ UNCHANGED process

Merge(q) ==
    LET c == req[q].copy
        n == Merged(c, req[q].eps)
    IN
    /\ req[q].at = "merge" /\ busy' = FALSE
    /\ \/ /\ n # c /\ CommitFails(row, c, n) /\ Ends(q)
          /\ UNCHANGED <<rt, dir, dropping, remote>>
       \/ Serves(q, req[q].kind, n, Stored(row, c, n), Refreshed(rt, n), FALSE)
    /\ UNCHANGED process

-----------------------------------------------------------------------------
(* Teleoperation comes down, and what it was recording with it.            *)

TeleopReleases ==
    /\ rt.teleop = "closing"
    /\ \/ Fine /\ rt' = [rt EXCEPT !.teleop = "off"]
       \/ Fault /\ rt' = [rt EXCEPT !.teleop = "off", !.err = "other"]
    /\ UNCHANGED <<row, disk, busy, remote, req, process>>

(* stop_teleop, released and observed *)
TeleopStopped(q) ==
    LET c == req[q].copy
        clean == [rt EXCEPT !.teleop = "off", !.status = Counted(rt), !.err = "none"]
    IN
    /\ req[q].at = "stopping" /\ Ends(q)
    /\ \/ Commits(row, c, With(c, clean.status)) /\ rt' = clean /\ UNCHANGED dropping
       \/ CommitFails(row, c, With(c, clean.status)) /\ Compensates(clean)
       \/ Fault /\ rt' = [rt EXCEPT !.teleop = "off"] /\ UNCHANGED <<row, dropping>>
    /\ UNCHANGED <<dir, busy, remote, process>>

(* _teleop_loop on a failure of the arms, the camera or the encoder        *)
TeleopBreaks ==
    /\ rt.teleop = "on" /\ Fault
    /\ rt' = [rt EXCEPT !.teleop = "closing", !.episode = None,
                        !.status = "failed", !.err = "other"]
    /\ dropping' = dropping \cup ({rt.episode} \ {None})
    /\ UNCHANGED <<row, dir, busy, remote, req, process>>

(* _abort_episode, then _remove_failed_episode_files: what is published in *)
(* the meantime stays, if its manifest can be read.                        *)
(* Mutant: an aborted episode takes its directory with it, published or not. *)
WithoutFiles(E, lost) == [e \in Episodes |-> IF e \in E THEN "absent" ELSE dir[e]]
Without(E, lost) ==
    [e \in Episodes |-> IF e \in E /\ (dir[e] # "kept" \/ e \in lost) THEN "absent" ELSE dir[e]]

Aborts(E) == \E lost \in SUBSET (E \cap Kept) : Reads(lost) /\ dir' = Without(E, lost)

Drops(e) ==
    /\ e \in dropping /\ rt.teleop # "closing"
    /\ Aborts({e}) /\ dropping' = dropping \ {e}
    /\ UNCHANGED <<row, rt, busy, remote, req, sd, taken, restarts>>

-----------------------------------------------------------------------------
(* stop_episode: _finalize_episode in its thread, then the handler.        *)

Subject(q) == CHOOSE e \in req[q].eps : TRUE
Proceeds(q, at) == req' = [req EXCEPT ![q].at = at]

(* Mutant: the manifest is written before what it vouches for is looked at. *)
RenamesRegardless(q) ==
    /\ req[q].at = "closing" /\ Proceeds(q, "settled")
    /\ \/ Fine /\ dir' = [dir EXCEPT ![Subject(q)] = "kept"]
       \/ Fault /\ UNCHANGED dir
    /\ UNCHANGED <<row, rt, dropping, busy, remote, process>>
Renames(q) ==
    /\ req[q].at = "closing"
    /\ \/ /\ dir[Subject(q)] = "open" /\ Fine
          /\ dir' = [dir EXCEPT ![Subject(q)] = "renamed"] /\ Proceeds(q, "naming")
       \/ /\ IF dir[Subject(q)] = "open" THEN Fault ELSE Fine
          /\ UNCHANGED dir /\ Proceeds(q, "broken")
    /\ UNCHANGED <<row, rt, dropping, busy, remote, process>>

(* The manifest may be in place though its fsync failed.                   *)
Publishes(q) ==
    /\ req[q].at = "naming"
    /\ \/ /\ dir[Subject(q)] = "renamed" /\ Fine
          /\ dir' = [dir EXCEPT ![Subject(q)] = "kept"] /\ Proceeds(q, "settled")
          /\ UNCHANGED adrift
       \/ /\ IF dir[Subject(q)] = "renamed" THEN Fault ELSE Fine
          /\ \/ UNCHANGED <<dir, adrift>>
             \/ /\ dir[Subject(q)] = "renamed" /\ dir' = [dir EXCEPT ![Subject(q)] = "kept"]
                /\ adrift' = adrift \cup req[q].eps
          /\ Proceeds(q, "broken")
    /\ UNCHANGED <<row, rt, dropping, busy, remote, sd, taken, restarts>>

(* The row is committed while the runtime still names the episode, which   *)
(* keeps it from every scan.                                               *)
Finalized(t) == IF OwnsRig(t) THEN [t EXCEPT !.task = FALSE, !.status = "teleop"]
                ELSE Fails([t EXCEPT !.task = FALSE])

StopSettles(q) ==
    LET c == req[q].copy
        over == Finalized(rt)
        n == [c EXCEPT !.status = over.status, !.count = @ + 1, !.eps = @ \cup req[q].eps]
    IN
    /\ req[q].at = "settled"
    /\ \/ Commits(row, c, n) /\ rt' = over /\ Goes(q, "confirm", "none", n, {}) /\ UNCHANGED dropping
          /\ UNCHANGED adrift
       \/ CommitFails(row, c, n) /\ Compensates(over) /\ Ends(q)
          /\ adrift' = adrift \cup (req[q].eps \ row'.eps)
    /\ UNCHANGED <<dir, busy, remote, sd, taken, restarts>>

(* confirm_episode_persisted, and the status it disagrees about.           *)
Confirmed(t, c) ==
    LET over == [t EXCEPT !.count = c.count, !.final = None] IN
    IF c.status = "teleop" /\ ~OwnsRig(t) THEN Fails(over)
    ELSE IF t.status # "failed" THEN [over EXCEPT !.status = c.status] ELSE over

StopConfirms(q) ==
    LET c == req[q].copy
        now == Confirmed(rt, c)
    IN
    /\ req[q].at = "confirm" /\ Ends(q)
    /\ \/ Commits(row, c, With(c, now.status)) /\ rt' = now /\ UNCHANGED dropping
       \/ /\ now.status # c.status /\ CommitFails(row, c, With(c, now.status))
          /\ Compensates(now)
    /\ UNCHANGED <<dir, busy, remote, process>>

(* A failed finalization takes the files and the session with it.          *)
StopAborts(q) ==
    /\ req[q].at = "broken"
    /\ Aborts(req[q].eps)
    /\ Compensates(rt)
    /\ Goes(q, "failRow", "none", req[q].copy, {})
    /\ UNCHANGED <<row, busy, remote, sd, taken, restarts>>

FailsRow(q) ==
    LET c == req[q].copy IN
    /\ req[q].at = "failRow" /\ rt.teleop # "closing" /\ Ends(q)
    /\ Commits(row, c, With(c, "failed")) \/ CommitFails(row, c, With(c, "failed"))
    /\ UNCHANGED <<rt, disk, busy, remote, process>>

-----------------------------------------------------------------------------
(* The upload, from its thread on.                                         *)

Releases(q) == Ends(q) /\ reserved' = FALSE

(* The thread of HFDatasetUploader: the list of the copy against the files.*)
Convertible(c) ==
    /\ c.count = Cardinality(c.eps)
    /\ \A e \in c.eps : dir[e] \in {"renamed", "kept"}

Quietly == UNCHANGED <<row, rt, disk, busy, process, faults>>

Converts(q) ==
    /\ req[q].at = "convert" /\ Convertible(req[q].copy)
    /\ Proceeds(q, "look")
    /\ Quietly /\ UNCHANGED remote

(* Others may have created the repository meanwhile.                       *)
Found == IF repo = "absent" THEN {"absent", "vacant", "theirs"} ELSE {repo}

(* What exists is gone on with if an earlier attempt was for it and it is  *)
(* ours by its marker, or has nothing in it.                               *)
(* Mutant: an attempt takes what the one before it made for another's.     *)
NeverResumable(q, found) == FALSE
Resumable(q, found) == req[q].trusted /\ found \in {"bare", "vacant", "ours"}

Looks(q) ==
    /\ req[q].at = "look"
    /\ \E found \in Found :
          /\ repo' = found
          /\ Proceeds(q, CASE found = "absent" -> "create"
                           [] found # "absent" /\ ~Resumable(q, found) -> "collided"
                           [] Resumable(q, found) /\ found = "ours" -> "send"
                           [] Resumable(q, found) /\ found # "ours" -> "mark")
    /\ Quietly /\ UNCHANGED <<reserved, hub>>

(* Created, unless another process was first (409).                        *)
Creates(q) ==
    /\ req[q].at = "create"
    /\ \/ repo' = "bare" /\ Proceeds(q, "mark")
       \/ repo' \in Found \ {"absent"} /\ Proceeds(q, "collided")
    /\ Quietly /\ UNCHANGED <<reserved, hub>>

Marks(q) ==
    /\ req[q].at = "mark" /\ repo' = "ours" /\ Proceeds(q, "send")
    /\ Quietly /\ UNCHANGED <<reserved, hub>>

(* The folder is sent and the revision looked at, the marker included;     *)
(* "uploaded" is committed before anything is removed.                     *)
UploadSucceeds(q) ==
    LET c == req[q].copy
        n == [c EXCEPT !.status = "uploaded", !.upload = "uploaded"]
    IN
    /\ req[q].at = "send"
    /\ hub' = hub \cup c.eps
    /\ \/ Commits(row, c, n) /\ Goes(q, "sent", "none", Blank, {}) /\ UNCHANGED reserved
       \/ CommitFails(row, c, n) /\ Releases(q)
    /\ UNCHANGED <<rt, disk, busy, repo, process>>

(* Any step may fail, or be done and its answer be lost; nothing is undone.*)
Done(q) == CASE req[q].at = "create" -> "bare" [] req[q].at = "mark" -> "ours" [] OTHER -> repo

Gives(q, n) ==
    /\ Commits(row, req[q].copy, n) \/ CommitFails(row, req[q].copy, n)
    /\ Releases(q) /\ UNCHANGED <<hub, rt, disk, busy, process>>

UploadFails(q) ==
    /\ req[q].at \in {"convert", "look", "create", "mark", "send"}
    /\ repo' \in {repo, Done(q)}
    /\ Gives(q, [req[q].copy EXCEPT !.status = "failed", !.upload = "failed"])

(* _restore_after_upload_collision: there is no target any more.           *)
UploadCollides(q) ==
    /\ req[q].at = "collided" /\ UNCHANGED repo
    /\ Gives(q, [req[q].copy EXCEPT !.status = req[q].kind, !.upload = "none"])

(* remove_uploaded_staging; a request cancelled meanwhile leaves it be, as *)
(* does a scan or an activity that is under way.                           *)
CleanBegins(q) ==
    /\ req[q].at = "sent"
    /\ \/ Releases(q) /\ UNCHANGED busy
       \/ /\ ~busy /\ Idle(rt)
          /\ busy' = TRUE /\ Goes(q, "cleaning", "none", Blank, {}) /\ UNCHANGED reserved
    /\ UNCHANGED <<row, dir, dropping, rt, hub, repo, process, faults>>

Removed(D) == \/ Fine /\ dir' = [e \in Episodes |-> "absent"]
              \/ Fault /\ \E E \in SUBSET Episodes :
                      dir' = [e \in Episodes |-> IF e \in E THEN "absent" ELSE D[e]]

CleanEnds(q) ==
    /\ req[q].at = "cleaning" /\ busy' = FALSE /\ Releases(q)
    /\ Removed(dir)
    /\ UNCHANGED <<row, dropping, rt, hub, repo, process>>

-----------------------------------------------------------------------------
(* shutdown *)

Held(t) == {e \in Episodes : e = t.episode \/ (t.task /\ e = t.final)}

(* Mutant: shutdown forgets the episode with the runtime's reference to it. *)
ShutsTeleopOnly ==
    /\ sd = "up" /\ sd' = "closing" /\ taken' = Held(rt)
    /\ rt' = [rt EXCEPT !.teleop = IF @ = "on" THEN "closing" ELSE @, !.episode = None]
    /\ UNCHANGED <<row, disk, busy, remote, req, restarts, adrift, faults>>
BeginShutdown ==
    /\ sd = "up" /\ sd' = "closing" /\ taken' = Held(rt)
    /\ rt' = [rt EXCEPT !.teleop = IF @ = "on" THEN "closing" ELSE @, !.episode = None]
    /\ dropping' = dropping \cup ({rt.episode} \ {None})
    /\ UNCHANGED <<row, dir, busy, remote, req, restarts, adrift, faults>>

(* It releases motion, waits for its own aborts and its own finalizations, *)
(* and removes the files of those that failed; an abort that a failed      *)
(* teleoperation or a compensation took before is not waited for.          *)
EndShutdown ==
    /\ sd = "closing" /\ rt.teleop # "closing" /\ dropping \cap taken = {}
    /\ \A q \in Requests : req[q].at \in {"closing", "naming"} => req[q].eps \cap taken = {}
    /\ Aborts(taken \cap UNION {req[q].eps : q \in {p \in Requests : req[p].at = "broken"}})
    /\ rt' = [rt EXCEPT !.final = None, !.task = FALSE]
    /\ sd' = "down"
    /\ UNCHANGED <<row, dropping, busy, remote, req, taken, restarts>>

(* The process ends, orderly or not, and another starts: startup, then     *)
(* reconcile_recordings_startup; both read the manifests.                  *)
Left(lost) ==
    [e \in Episodes |-> IF dir[e] = "open" \/ e \in lost THEN "absent" ELSE dir[e]]

Recovered(found) ==
    LET eps == row.eps \cup found
        count == Cardinality(eps)
    IN [row EXCEPT !.eps = eps, !.count = count,
                   !.upload = IF row.status = "uploading" THEN Broken(@) ELSE @,
                   !.status = CASE @ \in {"teleop", "recording"} -> IF count > 0 THEN "ready" ELSE "draft"
                                [] @ = "failed" /\ eps # row.eps /\ ~HasTarget(row) -> "ready"
                                [] @ = "uploading" -> "failed"
                                [] OTHER -> @]

Restart ==
    /\ restarts < MaxRestarts /\ restarts' = restarts + 1
    /\ sd' = "up" /\ taken' = {} /\ rt' = Quiet /\ busy' = FALSE
    /\ reserved' = FALSE /\ dropping' = {}
    /\ req' = [q \in Requests |-> Unused]
    /\ \E lost \in SUBSET Kept :
          /\ \/ Fault /\ dir' = Left(lost) /\ row' = row
             \/ lost = {} /\ row.status = "uploaded" /\ row' = row /\ Removed(Left(lost))
             \/ /\ row.status # "uploaded" /\ dir' = Scanned({}, lost)
                /\ \/ lost = {} /\ Fine /\ row' = Recovered(Kept)
                   \/ Fault /\ row' \in {row, Recovered(Kept \ lost)}
          /\ adrift' = adrift \cup lost
                        \cup {e \in Episodes : dir'[e] = "kept" /\ e \notin row'.eps}
    /\ UNCHANGED <<hub, repo>>

-----------------------------------------------------------------------------
Works(q) ==
    \/ Scan(q) \/ Merge(q) \/ TeleopStopped(q)
    \/ Renames(q) \/ Publishes(q) \/ StopSettles(q) \/ StopConfirms(q)
    \/ StopAborts(q) \/ FailsRow(q)
    \/ Converts(q) \/ Looks(q) \/ Creates(q) \/ Marks(q)
    \/ UploadSucceeds(q) \/ UploadFails(q) \/ UploadCollides(q)
    \/ CleanBegins(q) \/ CleanEnds(q)

RecordingsNext ==
    \/ \E q \in Requests : Works(q) \/ \E kind \in Asks(q) : Arrive(q, kind)
    \/ TeleopReleases \/ TeleopBreaks \/ \E e \in Episodes : Drops(e)
    \/ BeginShutdown \/ EndShutdown \/ Restart

RecordingsSpec == RecordingsInit /\ [][RecordingsNext]_recordingVars

-----------------------------------------------------------------------------
(* No data is lost: the files of a finalized episode go only when a        *)
(* revision that holds it has been verified, whatever a failed             *)
(* finalization, a late abort of an earlier episode with the same          *)
(* directory, a scan, a shutdown, a crash or a clean-up does meanwhile.    *)
(* (Two exceptions, both adrift: an episode whose stop could not be        *)
(* committed may be recovered only after an upload has read the row        *)
(* without it, and a manifest that cannot be read, were it for a moment,   *)
(* is taken for none by whoever looks at it.)                              *)
KeptUntilUploaded ==
    [][\A e \in Episodes : dir[e] = "kept" /\ dir'[e] # "kept" => e \in hub \cup adrift']_recordingVars

(* The row counts the episodes it lists, although both are written by the  *)
(* handler that finalized one and by every request that scans, lists none  *)
(* that is neither in staging with its manifest nor on the Hub, says       *)
(* uploaded only of a list that is in verified revisions, also after a     *)
(* crash in the middle of an upload, and names the repository of an upload *)
(* that got as far as creating it: whichever step failed, or was done and  *)
(* looked failed, another attempt can go on with it.  (With two faults a   *)
(* runtime that keeps the status of an upload may hide the target; and     *)
(* once files went because a manifest could not be read the row goes on    *)
(* listing them: nothing takes an episode off it.)                         *)
RowMatchesFiles ==
    adrift = {} =>
        /\ row.count = Cardinality(row.eps)
        /\ row.eps \subseteq Kept \cup hub
        /\ row.status = "uploaded" => row.eps \subseteq hub
        /\ faults <= 1 /\ repo \in {"bare", "ours"} => HasTarget(row)

(* Of what was being recorded or finalized when shutdown began nothing is  *)
(* half recorded when it returns: its writer is closed, its files are      *)
(* finalized or gone, whoever was working on it.  What still is open then  *)
(* is in the hands of an abort or a finalization that a failure had taken  *)
(* from the runtime before.                                                *)
ShutdownClosesItsOwn ==
    sd = "down" =>
        \A e \in Episodes : dir[e] = "open" =>
            /\ e \notin taken
            /\ \/ e \in dropping
               \/ \E q \in Requests : req[q].at \in {"closing", "broken"} /\ e \in req[q].eps
=============================================================================
